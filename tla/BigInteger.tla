----------------------------- MODULE BigInteger -----------------------------
(***************************************************************************)
(* Integer arithmetic: machine words, numbers kept in a value's payload,   *)
(* and sequences of limbs, least significant first, for all the others.    *)
(* A limb has LimbBits bits (32 in the code), a machine word twice as many *)
(* and a payload one and a half times as many, so that with small limbs a  *)
(* few small numbers pass every boundary.  The limit on a number's size is *)
(* left out, and a real result's value.                                    *)
(*                                                                         *)
(* An operator named ...Fault is no part of the model: it is a bug one     *)
(* could make in the definition after it, and a property has to notice it. *)
(***************************************************************************)
EXTENDS Integers, Sequences, SequencesExt

CONSTANTS
  LimbBits,    \* even
  Radix,       \* of digits, at most a limb's base; 10
  Greatest,    \* bound: the operands' greatest magnitude
  MaxPower     \* bound: the greatest exponent

VARIABLES lhs, rhs   \* the numbers that are combined

operands == <<lhs, rhs>>

Base        == 2 ^ LimbBits
WordBits    == 2 * LimbBits
WordSign    == 2 ^ (WordBits - 1)
Word        == -WordSign .. WordSign - 1
PayloadBits == (3 * LimbBits) \div 2
PayloadSign == 2 ^ (PayloadBits - 1)
Payload     == -PayloadSign .. PayloadSign - 1

\* A machine word has the bits of two limbs, and a payload has fewer.
NumbersAssumption ==
  /\ Base \in Nat \ {0, 1}
  /\ WordSign \in Nat /\ 2 * WordSign = Base * Base
  /\ PayloadSign \in 1 .. WordSign - 1

Small(n) == [kind |-> "small", n |-> n]
Big(d)   == [kind |-> "big", data |-> d]
Real     == [kind |-> "real"]
Failed   == [kind |-> "failed"]

Magnitude(n) == IF n < 0 THEN -n ELSE n
Limb(x, i)   == IF i \in DOMAIN x THEN x[i] ELSE 0
Trimmed(x)   == SubSeq(x, 1, Max({0} \cup {i \in DOMAIN x : x[i] # 0}))

\* normalize: no zero limb at the top, and zero is positive.
Data(limbs, positive) == [limbs    |-> Trimmed(limbs),
                          positive |-> positive \/ Trimmed(limbs) = <<>>]

\* from_i64, of a machine word.
FromWord(n) == Data(<<Magnitude(n) % Base, Magnitude(n) \div Base>>, n >= 0)

\* Value::from_int with a collector.
FromInt(n) == IF n \in Payload THEN Small(n) ELSE Big(FromWord(n))

\* finish: what fits a payload goes back into one.
Finish(d) ==
  LET mag == Limb(d.limbs, 1) + Limb(d.limbs, 2) * Base
      n   == IF d.positive THEN mag ELSE -mag
  IN IF Len(d.limbs) <= 2 /\ n \in Payload THEN Small(n) ELSE Big(d)

Operand(v) == IF v.kind = "big" THEN v.data ELSE FromWord(v.n)
IsSmall(v) == v.kind = "small"
-----------------------------------------------------------------------------
(* Magnitudes.                                                              *)

Cmp(a, b) ==
  LET i == Max({j \in DOMAIN a : a[j] # b[j]})
  IN IF Len(a) # Len(b) THEN IF Len(a) < Len(b) THEN -1 ELSE 1
     ELSE IF a = b THEN 0
     ELSE IF a[i] < b[i] THEN -1 ELSE 1

\* The carry out of the highest limbs is lost.
PlusFault(a, b) ==
  LET n == Max({Len(a), Len(b)})
      total[i \in 0 .. n] == IF i = 0 THEN 0 ELSE Limb(a, i) + Limb(b, i) + total[i - 1] \div Base
  IN [i \in 1 .. n |-> total[i] % Base]

Plus(a, b) ==
  LET n == Max({Len(a), Len(b)})
      total[i \in 0 .. n] == IF i = 0 THEN 0 ELSE Limb(a, i) + Limb(b, i) + total[i - 1] \div Base
  IN [i \in 1 .. n |-> total[i] % Base]
     \o (IF total[n] < Base THEN <<>> ELSE <<total[n] \div Base>>)

\* minus: a is at least b.
Minus(a, b) ==
  LET borrow[i \in 0 .. Len(a)] ==
        IF i = 0 THEN 0 ELSE IF a[i] < Limb(b, i) + borrow[i - 1] THEN 1 ELSE 0
  IN Trimmed([i \in DOMAIN a |-> (a[i] - Limb(b, i) - borrow[i - 1]) % Base])

\* One limb of a by all of b, added to the product so far.
Row(a, b, out, i) ==
  LET total[j \in 0 .. Len(b)] ==
        IF j = 0 THEN 0 ELSE a[i] * b[j] + out[i + j - 1] + total[j - 1] \div Base
  IN SubSeq(out, 1, i - 1) \o [j \in DOMAIN b |-> total[j] % Base] \o <<total[Len(b)] \div Base>>
     \o SubSeq(out, i + Len(b) + 1, Len(out))

Times(a, b) ==
  LET out[i \in 0 .. Len(a)] ==
        IF i = 0 THEN [k \in 1 .. Len(a) + Len(b) |-> 0] ELSE Row(a, b, out[i - 1], i)
  IN out[Len(a)]

\* Bit k, from 0.
Bit(x, k) == (Limb(x, k \div LimbBits + 1) \div 2 ^ (k % LimbBits)) % 2

\* The positions of the bits, highest first.
BitsDown(x) == LET n == Max({0} \cup {k + 1 : k \in {j \in 0 .. Len(x) * LimbBits : Bit(x, j) = 1}})
               IN [i \in 1 .. n |-> n - i]

\* divmod of a shorter divisor: limb by limb, or bit by bit.
Long(a, b) ==
  LET rem[i \in 1 .. Len(a) + 1] == IF i > Len(a) THEN 0 ELSE (rem[i + 1] * Base + a[i]) % b[1]
      doubled(r, bit) == Plus(Plus(r, r), IF bit = 1 THEN <<1>> ELSE <<>>)
      step(s, k) ==
        LET r == doubled(s.r, Bit(a, k)) IN
        IF Cmp(r, b) < 0 THEN [q |-> doubled(s.q, 0), r |-> r]
        ELSE [q |-> doubled(s.q, 1), r |-> Minus(r, b)]
  IN IF Len(b) = 1
     THEN [q |-> [i \in DOMAIN a |-> (rem[i + 1] * Base + a[i]) \div b[1]], r |-> Trimmed(<<rem[1]>>)]
     ELSE FoldLeft(step, [q |-> <<>>, r |-> <<>>], BitsDown(a))

\* A dividend that equals the divisor is taken for a smaller one.
DivModFault(a, b) == IF Cmp(a, b) <= 0 THEN [q |-> <<>>, r |-> a] ELSE Long(a, b)

DivMod(a, b) == IF Cmp(a, b) < 0 THEN [q |-> <<>>, r |-> a] ELSE Long(a, b)
-----------------------------------------------------------------------------
(* The operations.                                                          *)

SignedAdd(a, b, subtract) ==
  LET positive == b.positive # subtract IN
  IF a.positive = positive THEN Data(Plus(a.limbs, b.limbs), a.positive)
  ELSE IF Cmp(a.limbs, b.limbs) > 0 THEN Data(Minus(a.limbs, b.limbs), a.positive)
  ELSE Data(Minus(b.limbs, a.limbs), positive)

Fits(x, y, n) == IsSmall(x) /\ IsSmall(y) /\ n \in Word

Add(x, y) == IF Fits(x, y, x.n + y.n) THEN FromInt(x.n + y.n)
             ELSE Finish(SignedAdd(Operand(x), Operand(y), FALSE))

Sub(x, y) == IF Fits(x, y, x.n - y.n) THEN FromInt(x.n - y.n)
             ELSE Finish(SignedAdd(Operand(x), Operand(y), TRUE))

Mul(x, y) ==
  LET a == Operand(x)
      b == Operand(y)
  IN IF Fits(x, y, x.n * y.n) THEN FromInt(x.n * y.n)
     ELSE Finish(Data(Times(a.limbs, b.limbs), a.positive = b.positive))

Neg(x) == LET d == Operand(x) IN
          IF IsSmall(x) THEN FromInt(-x.n) ELSE Finish(Data(d.limbs, ~d.positive))

Compare(x, y) ==
  LET a == Operand(x)
      b == Operand(y)
  IN IF IsSmall(x) /\ IsSmall(y) THEN IF x.n < y.n THEN -1 ELSE IF x.n > y.n THEN 1 ELSE 0
     ELSE IF a.positive # b.positive THEN IF a.positive THEN 1 ELSE -1
     ELSE IF a.positive THEN Cmp(a.limbs, b.limbs) ELSE -Cmp(a.limbs, b.limbs)

\* C++'s division, towards zero.
Quotient(a, b)  == IF (a < 0) = (b < 0) THEN Magnitude(a) \div Magnitude(b)
                   ELSE -(Magnitude(a) \div Magnitude(b))
Remainder(a, b) == a - b * Quotient(a, b)

\* div: the remainder, or a quotient that is exact, or else real.
Div(x, y, remainder) ==
  LET a == Operand(x)
      b == Operand(y)
      d == DivMod(a.limbs, b.limbs)
  IN IF b.limbs = <<>> THEN Failed
     ELSE IF IsSmall(x) /\ IsSmall(y)
     THEN IF remainder THEN Small(Remainder(x.n, y.n))
          ELSE IF Remainder(x.n, y.n) = 0 THEN FromInt(Quotient(x.n, y.n)) ELSE Real
     ELSE IF b.limbs = <<1>>
     THEN IF remainder THEN Small(0) ELSE Finish(Data(a.limbs, a.positive = b.positive))
     ELSE IF remainder THEN Finish(Data(d.r, a.positive))
     ELSE IF d.r = <<>> THEN Finish(Data(d.q, a.positive = b.positive))
     ELSE Real

\* pow: by squaring, from the exponent's lowest bit.
Pow(x, y) ==
  LET step(s, k) == [out    |-> IF Bit(Operand(y).limbs, k) = 1 THEN Mul(s.out, s.square) ELSE s.out,
                     square |-> Mul(s.square, s.square)]
  IN IF Compare(y, Small(0)) < 0 THEN Real
     ELSE FoldLeft(step, [out |-> Small(1), square |-> x], Reverse(BitsDown(Operand(y).limbs))).out

\* parse: the digits' limbs, each digit after the limbs so far times the radix.
Parsed(digits, positive) ==
  LET next(x, digit) ==
        LET total[i \in 0 .. Len(x)] == IF i = 0 THEN digit * Base ELSE x[i] * Radix + total[i - 1] \div Base
        IN [i \in DOMAIN x |-> total[i] % Base]
           \o (IF total[Len(x)] < Base THEN <<>> ELSE <<total[Len(x)] \div Base>>)
  IN Data(FoldLeft(next, <<>>, digits), positive)

\* to_string's digits of a number with limbs, lowest first.
Digits(x) ==
  LET digit[k \in 0 .. Len(x) * LimbBits] ==
        IF k = 0 THEN [left |-> x, out |-> <<>>]
        ELSE LET s == digit[k - 1] IN
             IF s.left = <<>> THEN s
             ELSE LET d == Long(s.left, <<Radix>>)
                  IN [left |-> Trimmed(d.q), out |-> Append(s.out, Limb(d.r, 1))]
  IN digit[Len(x) * LimbBits].out

\* A number as literals and earlier operations leave it; it has fewer limbs than ones.
Number(n) ==
  LET left[i \in 0 .. Magnitude(n)] == IF i = 0 THEN Magnitude(n) ELSE left[i - 1] \div Base
  IN Finish(Data([i \in 1 .. Magnitude(n) |-> left[i - 1] % Base], n >= 0))

NumberInit == /\ lhs \in -Greatest .. Greatest
              /\ rhs \in -Greatest .. Greatest
-----------------------------------------------------------------------------
(* Properties.                                                              *)

\* What limbs amount to, from the highest to the lowest.
Amount(x) == LET sum[k \in 0 .. Len(x)] == IF k = 0 THEN 0 ELSE sum[k - 1] * Base + x[Len(x) + 1 - k]
             IN sum[Len(x)]

Meaning(v) == IF v.kind = "small" THEN v.n
              ELSE IF v.data.positive THEN Amount(v.data.limbs) ELSE -Amount(v.data.limbs)

\* The only form a number may have: results are demoted eagerly.
IsNormal(v) == \/ v.kind = "small" /\ v.n \in Payload
               \/ /\ v.kind = "big" /\ Meaning(v) \notin Payload
                  /\ v.data.limbs = Trimmed(v.data.limbs)
                  /\ ToSet(v.data.limbs) \subseteq 0 .. Base - 1

StandsFor(v, n) == IsNormal(v) /\ Meaning(v) = n

\* Sums, differences, products and comparisons are those of the numbers, across every
\* passage between payloads, machine words and limbs.
ArithmeticAgrees ==
  LET x == Number(lhs)
      y == Number(rhs)
  IN /\ StandsFor(x, lhs)
     /\ StandsFor(Add(x, y), lhs + rhs)
     /\ StandsFor(Sub(x, y), lhs - rhs)
     /\ StandsFor(Mul(x, y), lhs * rhs)
     /\ StandsFor(Neg(x), -lhs)
     /\ Compare(x, y) = IF lhs < rhs THEN -1 ELSE IF lhs = rhs THEN 0 ELSE 1

\* So are exact quotients and powers; a remainder has the dividend's sign; and a number's
\* digits are read back as the number.
DivisionExact ==
  LET x == Number(lhs)
      y == Number(rhs)
  IN /\ rhs # 0 => \E q \in -Greatest .. Greatest :
          LET r == lhs - q * rhs IN
          /\ Magnitude(r) < Magnitude(rhs) /\ r * lhs >= 0
          /\ StandsFor(Div(x, y, TRUE), r)
          /\ IF r = 0 THEN StandsFor(Div(x, y, FALSE), q) ELSE Div(x, y, FALSE) = Real
     /\ rhs = 0 => Div(x, y, TRUE) = Failed /\ Div(x, y, FALSE) = Failed
     /\ rhs \in 0 .. MaxPower => StandsFor(Pow(x, y), IF rhs = 0 THEN 1 ELSE lhs ^ rhs)
     /\ ~IsSmall(x) => Finish(Parsed(Reverse(Digits(x.data.limbs)), lhs > 0)) = x
=============================================================================
