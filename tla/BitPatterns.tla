---------------------------- MODULE BitPatterns ----------------------------
(***************************************************************************)
(* Bitwise operations and shifts of the integers in BigInteger.tla, which  *)
(* act on the limbs of a number's two's complement.                        *)
(*                                                                         *)
(* An operator named ...Fault is no part of the model: it is a bug one     *)
(* could make in the definition after it, and a property has to notice it. *)
(***************************************************************************)
EXTENDS BigInteger, Bitwise

\* The two's complement in as many limbs.
Twos(x) == SubSeq(Plus([i \in DOMAIN x |-> Base - 1 - x[i]], <<1>>), 1, Len(x))

Combined(op, m, n) == CASE op = "and" -> m & n
                        [] op = "or"  -> m | n
                        [] op = "xor" -> m ^^ n

\* A machine word's bits as a number, and as a signed one.
Unsigned(n) == n % (2 * WordSign)
Signed(n)   == IF n < WordSign THEN n ELSE n - (2 * WordSign)

\* bitwise: in one limb more than the longer operand has, for the sign.
BitwiseOp(op, x, y) ==
  LET a == Operand(x)
      b == Operand(y)
      n == Max({Len(a.limbs), Len(b.limbs)}) + 1
      wide(d)  == LET w == [i \in 1 .. n |-> Limb(d.limbs, i)] IN IF d.positive THEN w ELSE Twos(w)
      out      == [i \in 1 .. n |-> Combined(op, wide(a)[i], wide(b)[i])]
      positive == out[n] < Base \div 2
  IN IF IsSmall(x) /\ IsSmall(y) THEN Small(Signed(Combined(op, Unsigned(x.n), Unsigned(y.n))))
     ELSE Finish(Data(IF positive THEN out ELSE Twos(out), positive))

\* A magnitude's limbs without the lowest bits.
Down(x, words, shift) == [i \in 1 .. Len(x) - words |->
                            x[i + words] \div 2 ^ shift
                            + ((Limb(x, i + words + 1) * 2 ^ (LimbBits - shift)) % Base)]

\* The bits that are shifted out do not round a negative number down.
RightFault(a, words, shift) == Finish(Data(Down(a.limbs, words, shift), a.positive))

Right(a, words, shift) ==
  LET out == Down(a.limbs, words, shift)
      discarded == (\E i \in 1 .. words : a.limbs[i] # 0) \/ a.limbs[words + 1] % 2 ^ shift # 0
  IN Finish(Data(IF ~a.positive /\ discarded THEN Plus(out, <<1>>) ELSE out, a.positive))

Left(a, words, shift) ==
  LET total[i \in 0 .. Len(a.limbs)] ==
        IF i = 0 THEN 0 ELSE a.limbs[i] * 2 ^ shift + total[i - 1] \div Base
      out == [i \in 1 .. Len(a.limbs) + words |-> IF i <= words THEN 0 ELSE total[i - words] % Base]
  IN Finish(Data(IF shift = 0 THEN out ELSE Append(out, total[Len(a.limbs)] \div Base), a.positive))

\* shift: a count that is no machine word shifts everything out.
Shift(x, y, left) ==
  LET a      == Operand(x)
      c      == Operand(y)
      amount == Limb(c.limbs, 1) + Limb(c.limbs, 2) * Base
      words  == amount \div LimbBits
      ended  == Small(IF a.positive THEN 0 ELSE -1)
  IN IF ~c.positive THEN Failed
     ELSE IF Len(c.limbs) > 2 \/ amount \notin Word
     THEN IF left /\ a.limbs # <<>> THEN Failed ELSE ended
     ELSE IF a.limbs = <<>> THEN Small(0)
     ELSE IF IsSmall(x) /\ ~left
     THEN IF amount >= WordBits THEN ended ELSE Small(x.n \div 2 ^ amount)
     ELSE IF IsSmall(x) /\ amount < WordBits - 1 /\ x.n * 2 ^ amount \in Word
     THEN FromInt(x.n * 2 ^ amount)
     ELSE IF left THEN Left(a, words, amount % LimbBits)
     ELSE IF words >= Len(a.limbs) THEN ended
     ELSE Right(a, words, amount % LimbBits)
-----------------------------------------------------------------------------
(* Properties.                                                              *)

\* Bit k of a number's endless two's complement.
BitOf(n, k) == (n \div 2 ^ k) % 2

\* Bitwise operations on negative numbers act on their endless two's complement; a
\* right shift rounds down, also where the bits it drops are in lower limbs.
BitsAgree ==
  LET x == Number(lhs)
      y == Number(rhs)
      bits == 0 .. 3 * WordBits
      agrees(op) ==
        LET v == BitwiseOp(op, x, y) IN
        /\ IsNormal(v)
        /\ \A k \in bits : BitOf(Meaning(v), k) = Combined(op, BitOf(lhs, k), BitOf(rhs, k))
  IN /\ agrees("and") /\ agrees("or") /\ agrees("xor")
     /\ rhs < 0 => Shift(x, y, TRUE) = Failed /\ Shift(x, y, FALSE) = Failed
     /\ rhs >= 0 => StandsFor(Shift(x, y, FALSE), lhs \div 2 ^ rhs)
     /\ rhs \in Word /\ rhs >= 0 => StandsFor(Shift(x, y, TRUE), lhs * 2 ^ rhs)
     /\ rhs >= 0 /\ rhs \notin Word /\ lhs # 0 => Shift(x, y, TRUE) = Failed
=============================================================================
