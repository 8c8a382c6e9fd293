--------------------------- MODULE SequenceFacts ---------------------------
(* The sequence operators of the models, seen index by index: what the      *)
(* proofs use instead of their definitions.                                 *)
EXTENDS Sequences, SequencesExt, SequenceTheorems, FiniteSetTheorems, TLAPS,
        WellFoundedInduction

\* Every set of numbers has a least one.
LEMMA LeastNumber ==
  ASSUME NEW T, T \subseteq Nat, T # {}
  PROVE  \E n \in T : \A m \in T : n <= m
<1> DEFINE less == {ss \in Nat \X Nat : ss[1] < ss[2]}
<1>1. IsWellFoundedOn(less, Nat)
  BY NatLessThanWellFounded DEF OpToRel
<1> HIDE DEF less
<1>2. PICK n \in T : \A m \in T : ~(<<m, n>> \in less)
  BY <1>1, WFMin
<1>3. ASSUME NEW m \in T PROVE n <= m
  <2>1. ~(<<m, n>> \in less)
    BY <1>2
  <2>2. ~(m < n)
    BY <2>1 DEF less
  <2> QED
    BY <2>2
<1> QED
  BY <1>3

\* A stack without its innermost element.
LEMMA FrontFacts ==
  ASSUME NEW S, NEW s \in Seq(S), s # <<>>
  PROVE  /\ Front(s) \in Seq(S)
         /\ Len(Front(s)) = Len(s) - 1
         /\ \A i \in 1 .. Len(s) - 1 : Front(s)[i] = s[i]
         /\ Last(s) = s[Len(s)] /\ Last(s) \in S
         /\ Len(s) \in Nat \ {0}
<1>1. Len(s) \in Nat \ {0}
  BY EmptySeq
<1>2. \A i \in 1 .. Len(s) : s[i] \in S
  BY ElementOfSeq
<1>3. 1 \in Int /\ Len(s) - 1 \in Int /\ \A i \in 1 .. Len(s) - 1 : s[i] \in S
  BY <1>1, <1>2
<1> DEFINE n == Len(s) - 1
           q == SubSeq(s, 1, n)
<1>4. /\ q \in Seq(S)
      /\ Len(q) = IF 1 <= n THEN n - 1 + 1 ELSE 0
      /\ \A i \in 1 .. n - 1 + 1 : q[i] = s[1 + i - 1]
  BY <1>3, SubSeqProperties
<1>7. Front(s) = q
  BY DEF Front
<1> HIDE DEF q
<1>5. /\ Len(q) = Len(s) - 1
      /\ \A i \in 1 .. Len(s) - 1 : q[i] = s[i]
  <2>1. n \in Nat /\ n - 1 + 1 = n /\ \A i \in 1 .. n : 1 + i - 1 = i
    BY <1>1
  <2> HIDE DEF n
  <2>2. Len(q) = n
    BY <2>1, <1>4
  <2>3. ASSUME NEW i \in 1 .. n PROVE q[i] = s[i]
    BY <2>1, <1>4
  <2> QED
    BY <2>2, <2>3 DEF n
<1>6. s[Len(s)] \in S
  BY <1>1, <1>2
<1>8. Last(s) = s[Len(s)]
  BY DEF Last
<1> QED
  BY <1>1, <1>4, <1>5, <1>6, <1>7, <1>8

\* Appending keeps what is there and puts the new element last.
LEMMA AppendFacts ==
  ASSUME NEW S, NEW s \in Seq(S), NEW e \in S
  PROVE  /\ Append(s, e) \in Seq(S)
         /\ Len(Append(s, e)) = Len(s) + 1 /\ Len(s) \in Nat
         /\ \A i \in 1 .. Len(s) : Append(s, e)[i] = s[i]
         /\ Append(s, e)[Len(s) + 1] = e
         /\ Append(s, e) # <<>>
<1> QED
  BY AppendProperties, LenProperties

\* One element is taken out.
LEMMA RemoveAtFacts ==
  ASSUME NEW S, NEW s \in Seq(S), NEW i \in 1 .. Len(s)
  PROVE  /\ RemoveAt(s, i) \in Seq(S)
         /\ Len(RemoveAt(s, i)) = Len(s) - 1
         /\ \A j \in 1 .. Len(s) - 1 : RemoveAt(s, i)[j] = s[IF j < i THEN j ELSE j + 1]
<1> DEFINE n     == Len(s)
           left  == SubSeq(s, 1, i - 1)
           right == SubSeq(s, i + 1, n)
<1>1. n \in Nat /\ i \in Nat /\ 1 <= i /\ i <= n /\ i - 1 \in Int /\ i + 1 \in Int
  BY LenProperties
<1>2. \A j \in 1 .. n : s[j] \in S
  BY ElementOfSeq
<1>3. /\ left \in Seq(S) /\ Len(left) = i - 1
      /\ \A j \in 1 .. i - 1 : left[j] = s[j]
  <2>1. \A j \in 1 .. i - 1 : s[j] \in S
    BY <1>1, <1>2
  <2>2. /\ left \in Seq(S)
        /\ Len(left) = IF 1 <= i - 1 THEN i - 1 - 1 + 1 ELSE 0
        /\ \A j \in 1 .. i - 1 - 1 + 1 : left[j] = s[1 + j - 1]
    BY <1>1, <2>1, SubSeqProperties
  <2>3. i - 1 - 1 + 1 = i - 1 /\ (~(1 <= i - 1) => i - 1 = 0)
        /\ \A j \in 1 .. i - 1 : 1 + j - 1 = j
    BY <1>1
  <2> HIDE DEF left
  <2> QED
    BY <2>2, <2>3
<1>4. /\ right \in Seq(S) /\ Len(right) = n - i
      /\ \A j \in 1 .. n - i : right[j] = s[j + i]
  <2>1. \A j \in i + 1 .. n : s[j] \in S
    BY <1>1, <1>2
  <2>2. /\ right \in Seq(S)
        /\ Len(right) = IF i + 1 <= n THEN n - (i + 1) + 1 ELSE 0
        /\ \A j \in 1 .. n - (i + 1) + 1 : right[j] = s[i + 1 + j - 1]
    BY <1>1, <2>1, SubSeqProperties
  <2>3. n - (i + 1) + 1 = n - i /\ (~(i + 1 <= n) => n - i = 0)
        /\ \A j \in 1 .. n - i : i + 1 + j - 1 = j + i
    BY <1>1
  <2> HIDE DEF right, n
  <2> QED
    BY <2>2, <2>3
<1> HIDE DEF left, right, n
<1>5. /\ left \o right \in Seq(S) /\ Len(left \o right) = Len(left) + Len(right)
      /\ \A j \in 1 .. Len(left) + Len(right) :
           (left \o right)[j] = IF j <= Len(left) THEN left[j] ELSE right[j - Len(left)]
  BY <1>3, <1>4, ConcatProperties
<1>6. Len(left) + Len(right) = n - 1
  BY <1>1, <1>3, <1>4
<1>7. ASSUME NEW j \in 1 .. n - 1
      PROVE  (left \o right)[j] = s[IF j < i THEN j ELSE j + 1]
  <2>1. CASE j < i
    <3>1. j <= Len(left) /\ left[j] = s[j]
      BY <1>1, <1>3, <2>1
    <3> QED
      BY <1>5, <1>6, <2>1, <3>1
  <2>2. CASE ~(j < i)
    <3>1. ~(j <= Len(left)) /\ j - Len(left) \in 1 .. n - i /\ j - Len(left) + i = j + 1
      BY <1>1, <1>3, <2>2
    <3>2. right[j - Len(left)] = s[j + 1]
      BY <1>4, <3>1
    <3> QED
      BY <1>5, <1>6, <2>2, <3>1, <3>2
  <2> QED
    BY <2>1, <2>2
<1>8. RemoveAt(s, i) = left \o right
  BY DEF RemoveAt, left, right, n
<1> QED
  BY <1>5, <1>6, <1>7, <1>8 DEF n

\* A finite set, listed.
LEMMA SetToSeqFacts ==
  ASSUME NEW S, IsFiniteSet(S)
  PROVE  /\ SetToSeq(S) \in Seq(S)
         /\ \A x \in S : \E i \in 1 .. Len(SetToSeq(S)) : SetToSeq(S)[i] = x
<1> DEFINE n == Cardinality(S)
           s == SetToSeq(S)
<1>1. n \in Nat /\ ExistsBijection(1 .. n, S)
  BY FS_CardinalityType
<1>2. \E f \in [1 .. n -> S] : IsInjective(f)
  BY <1>1 DEF ExistsBijection, Bijection, Injection
<1>3. s \in [1 .. n -> S] /\ IsInjective(s)
  BY <1>2 DEF SetToSeq
<1> HIDE DEF s
<1>4. s \in Injection(1 .. n, S)
  BY <1>3 DEF Injection
<1>5. IsFiniteSet(1 .. n) /\ Cardinality(1 .. n) = n
  BY <1>1, FS_Interval
<1>6. s \in Surjection(1 .. n, S)
  BY <1>4, <1>5, FS_Injection
<1>7. \A x \in S : \E i \in 1 .. n : s[i] = x
  BY <1>6 DEF Surjection
<1>8. s \in Seq(S) /\ Len(s) = n
  BY <1>1, <1>3
<1> QED
  BY <1>7, <1>8 DEF s
-----------------------------------------------------------------------------
(* Loops: a function that says what each round makes of the round before.   *)

\* f starts with start, makes of every round what step does, and keeps to inv.
Rounds(f, N, start, step, inv) ==
  /\ f = [i \in 0 .. N |-> f[i]] /\ f[0] = start
  /\ \A i \in 1 .. N : f[i] = step[<<i, f[i - 1]>>]
  /\ \A i \in 0 .. N : f[i] \in inv[i]

\* If every round keeps what is to hold after it, there is a function of the rounds.
LEMMA IteratesExist ==
  ASSUME NEW N \in Nat, NEW inv, NEW start \in inv[0], NEW step,
         \A i \in 1 .. N : \A x \in inv[i - 1] : step[<<i, x>>] \in inv[i]
  PROVE  \E f : Rounds(f, N, start, step, inv)
<1> DEFINE Until(f, n) == Rounds(f, n, start, step, inv)
           None == {n \in 0 .. N : \A f : ~Until(f, n)}
<1>1. SUFFICES ASSUME N \in None PROVE FALSE
  <2>1. N \in 0 .. N
    OBVIOUS
  <2> QED
    BY <2>1
<1>2. PICK n \in None : \A m \in None : n <= m
  <2>1. None \subseteq Nat
    OBVIOUS
  <2> HIDE DEF None
  <2> QED
    BY <1>1, <2>1, LeastNumber
<1>3. n \in 0 .. N /\ \A f : ~Until(f, n)
  BY <1>2
<1>4. n # 0
  <2> DEFINE f == [i \in 0 .. 0 |-> start]
  <2>1. f = [i \in 0 .. 0 |-> f[i]] /\ f[0] = start /\ \A i \in 0 .. 0 : f[i] \in inv[i]
    OBVIOUS
  <2>2. Until(f, 0)
    BY <2>1 DEF Rounds
  <2> HIDE DEF f, Until
  <2> QED
    BY <1>3, <2>2
<1>5. n \in 1 .. N /\ n - 1 \in 0 .. N /\ ~(n <= n - 1)
  BY <1>3, <1>4
<1>6. n - 1 \notin None
  <2> HIDE DEF None
  <2> QED
    BY <1>2, <1>5
<1>7. PICK f : Until(f, n - 1)
  <2> HIDE DEF Until
  <2> QED
    BY <1>5, <1>6
<1> DEFINE g == [i \in 0 .. n |-> IF i = n THEN step[<<n, f[n - 1]>>] ELSE f[i]]
<1>8. /\ g = [i \in 0 .. n |-> g[i]] /\ g[n] = step[<<n, f[n - 1]>>]
      /\ \A i \in 0 .. n - 1 : g[i] = f[i]
  BY <1>5
<1> HIDE DEF g
<1>9. g[0] = start /\ g[n] \in inv[n] /\ \A i \in 0 .. n - 1 : g[i] \in inv[i]
  <2>1. n \in Nat /\ n - 1 \in Nat /\ 0 \in 0 .. n - 1 /\ n - 1 \in 0 .. n - 1
    BY <1>5
  <2>2. f[0] = start /\ \A i \in 0 .. n - 1 : f[i] \in inv[i]
    BY <1>7 DEF Rounds
  <2>3. step[<<n, f[n - 1]>>] \in inv[n]
    BY <1>5, <2>1, <2>2
  <2> QED
    BY <1>8, <2>1, <2>2, <2>3
<1>10. \A i \in 1 .. n : g[i] = step[<<i, g[i - 1]>>]
  <2> SUFFICES ASSUME NEW i \in 1 .. n PROVE g[i] = step[<<i, g[i - 1]>>]
    OBVIOUS
  <2>1. i - 1 \in 0 .. n - 1 /\ g[i - 1] = f[i - 1]
    <3>1. n \in Nat /\ i \in Nat /\ 1 <= i /\ i <= n
      BY <1>5
    <3>2. i - 1 \in 0 .. n - 1
      BY <3>1
    <3> QED
      BY <1>8, <3>2
  <2>2. CASE i = n
    BY <1>8, <2>1, <2>2
  <2>3. CASE i # n
    <3>1. i \in 1 .. n - 1 /\ i \in 0 .. n - 1
      BY <1>5, <2>3
    <3> QED
      BY <1>7, <1>8, <2>1, <3>1 DEF Rounds
  <2> QED
    BY <2>2, <2>3
<1>11. \A i \in 0 .. n : g[i] \in inv[i]
  <2>1. \A i \in 0 .. n : i = n \/ i \in 0 .. n - 1
    BY <1>5
  <2> QED
    BY <1>9, <2>1
<1>12. Until(g, n)
  BY <1>8, <1>9, <1>10, <1>11 DEF Rounds
<1> HIDE DEF Until
<1> QED
  BY <1>3, <1>12

\* There is no more than one.
LEMMA SameIterates ==
  ASSUME NEW N \in Nat, NEW f, NEW g, f[0] = g[0],
         \A i \in 1 .. N : f[i - 1] = g[i - 1] => f[i] = g[i]
  PROVE  \A i \in 0 .. N : f[i] = g[i]
<1> DEFINE Other == {n \in 0 .. N : f[n] # g[n]}
<1>1. SUFFICES ASSUME Other # {} PROVE FALSE
  OBVIOUS
<1>2. PICK n \in Other : \A m \in Other : n <= m
  <2>1. Other \subseteq Nat /\ \E x : x \in Other
    BY <1>1
  <2> HIDE DEF Other
  <2> QED
    BY <2>1, LeastNumber
<1>3. n \in 1 .. N /\ n - 1 \in 0 .. N /\ ~(n <= n - 1) /\ f[n] # g[n]
  BY <1>2
<1>4. n - 1 \notin Other
  <2> HIDE DEF Other
  <2> QED
    BY <1>2, <1>3
<1> QED
  BY <1>3, <1>4
-----------------------------------------------------------------------------
(* Folds.                                                                   *)

\* A bounded set of numbers has a greatest one.
LEMMA GreatestNumber ==
  ASSUME NEW T, T \subseteq Nat, T # {}, NEW n \in Nat, \A m \in T : m <= n
  PROVE  Max(T) \in T /\ \A m \in T : m <= Max(T)
<1> DEFINE R == {n - m : m \in T}
<1>1. R \subseteq Nat /\ R # {}
  <2>1. \A m \in T : n - m \in Nat
    OBVIOUS
  <2>2. PICK m \in T : TRUE
    OBVIOUS
  <2>3. n - m \in R
    BY <2>2
  <2> QED
    BY <2>1, <2>3
<1>2. PICK k \in R : \A l \in R : k <= l
  <2> HIDE DEF R
  <2> QED
    BY <1>1, LeastNumber
<1>3. PICK x \in T : k = n - x
  BY <1>2
<1>4. \A m \in T : x >= m
  <2> SUFFICES ASSUME NEW m \in T PROVE x >= m
    OBVIOUS
  <2>1. n - x <= n - m
    BY <1>2, <1>3
  <2>2. x \in Nat /\ m \in Nat
    OBVIOUS
  <2> QED
    BY <2>1, <2>2
<1>5. Max(T) \in T /\ \A m \in T : Max(T) >= m
  BY <1>4 DEF Max
<1> QED
  BY <1>5

\* f is what FoldLeft makes of the sets of indices up to N, within T.
Folding(f, N, start, step, T) ==
  /\ f = [s \in SUBSET (1 .. N) |-> IF s = {} THEN start ELSE step[<<Max(s), f[s \ {Max(s)}]>>]]
  /\ \A s \in SUBSET (1 .. N) : f[s] \in T

LEMMA FoldExists ==
  ASSUME NEW N \in Nat, NEW T, NEW start \in T, NEW step,
         \A i \in 1 .. N : \A x \in T : step[<<i, x>>] \in T
  PROVE  \E f : Folding(f, N, start, step, T)
<1> DEFINE Sets    == SUBSET (1 .. N)
           next(h) == [s \in Sets |-> IF s = {} THEN start ELSE step[<<Max(s), h[s \ {Max(s)}]>>]]
           Upto(h, k) == \A s \in Sets : s \subseteq 1 .. k => h[s] = next(h)[s]
           inv  == [k \in 0 .. N |-> {h \in [Sets -> T] : Upto(h, k)}]
           any  == [s \in Sets |-> start]
           all  == [p \in (1 .. N) \X [Sets -> T] |-> next(p[2])]
<1>1. ASSUME NEW s \in Sets, s # {}
      PROVE  /\ Max(s) \in s /\ Max(s) \in 1 .. N /\ s \ {Max(s)} \in Sets
             /\ \A m \in s : m <= Max(s)
  <2>1. s \in Sets
    BY <1>1
  <2>2. \A m \in s : m \in 1 .. N
    BY <2>1
  <2> HIDE DEF Sets
  <2>3. s \subseteq Nat /\ \A m \in s : m <= N
    BY <2>2
  <2>4. Max(s) \in s /\ \A m \in s : m <= Max(s)
    BY <1>1, <2>3, GreatestNumber
  <2> USE DEF Sets
  <2> QED
    BY <2>1, <2>2, <2>4
<1>2. ASSUME NEW h \in [Sets -> T] PROVE next(h) \in [Sets -> T]
  BY <1>1
<1>3. any \in inv[0]
  <2>1. any \in [Sets -> T] /\ {} \in Sets
    OBVIOUS
  <2>2. \A s \in Sets : s \subseteq 1 .. 0 => s = {}
    OBVIOUS
  <2>3. Upto(any, 0)
    BY <2>1, <2>2
  <2> QED
    BY <2>1, <2>3
<1>4. ASSUME NEW k \in 1 .. N, NEW h \in inv[k - 1]
      PROVE  all[<<k, h>>] \in inv[k]
  <2> DEFINE g == next(h)
  <2>1. k - 1 \in 0 .. N /\ k \in 0 .. N
    OBVIOUS
  <2>2. h \in [Sets -> T] /\ Upto(h, k - 1)
    BY <2>1
  <2>3. all[<<k, h>>] = g /\ g \in [Sets -> T]
    BY <1>2, <2>2
  <2>4. ASSUME NEW s \in Sets, s \subseteq 1 .. k PROVE g[s] = next(g)[s]
    <3>1. CASE s = {}
      BY <3>1
    <3>2. CASE s # {}
      <4> DEFINE r == s \ {Max(s)}
      <4>1. r \in Sets /\ r \subseteq 1 .. k - 1
        <5>1. r \in Sets /\ Max(s) \in 1 .. k /\ \A m \in s : m <= Max(s)
          BY <1>1, <2>4, <3>2
        <5>2. ASSUME NEW m \in r PROVE m \in 1 .. k - 1
          <6>1. m \in s /\ m # Max(s) /\ m <= Max(s) /\ m \in 1 .. k
            BY <2>4, <5>1
          <6> QED
            BY <5>1, <6>1
        <5> QED
          BY <5>1, <5>2
      <4>2. h[r] = g[r]
        BY <2>2, <4>1
      <4> QED
        BY <3>2, <4>2
    <3> QED
      BY <3>1, <3>2
  <2> QED
    BY <2>1, <2>3, <2>4
<1>5. PICK f : Rounds(f, N, any, all, inv)
  <2> HIDE DEF inv, any, all
  <2> QED
    BY <1>3, <1>4, IteratesExist
<1> DEFINE g == f[N]
<1>6. g \in inv[N] /\ N \in 0 .. N
  <2>1. N \in 0 .. N
    OBVIOUS
  <2> HIDE DEF inv, any, all
  <2> QED
    BY <1>5, <2>1 DEF Rounds
<1>7. g \in [Sets -> T] /\ Upto(g, N)
  BY <1>6
<1>8. g = next(g)
  <2>1. \A s \in Sets : g[s] = next(g)[s]
    BY <1>7
  <2> QED
    BY <1>7, <2>1
<1> QED
  BY <1>7, <1>8 DEF Folding

\* A function on a finite set that takes no value twice takes as many as it has places.
LEMMA ImageCount ==
  ASSUME NEW S, IsFiniteSet(S), NEW f, \A x, y \in S : f[x] = f[y] => x = y
  PROVE  LET image == {f[x] : x \in S} IN
         IsFiniteSet(image) /\ Cardinality(image) = Cardinality(S)
<1> DEFINE image == {f[x] : x \in S}
           g == [x \in S |-> f[x]]
<1>1. g \in Bijection(S, image)
  BY DEF Bijection, Injection, Surjection, IsInjective
<1>2. ExistsBijection(S, image)
  BY <1>1 DEF ExistsBijection
<1>3. IsFiniteSet(image) /\ Cardinality(image) = Cardinality(S)
  <2> HIDE DEF image
  <2> QED
    BY <1>2, FS_Bijection
<1> QED
  BY <1>3
=============================================================================
