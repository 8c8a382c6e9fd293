---------------------------- MODULE RuntimeProofs ----------------------------
(***************************************************************************)
(* Parts of the runtime that are functions of what they are given: the     *)
(* hash table (HashTable.tla), the lexer's blocks (Indentation.tla) and    *)
(* exact arithmetic (BigInteger.tla).                                      *)
(*                                                                         *)
(* The hash table is a map: for any keys, values and hash codes, and for   *)
(* any first capacity and load that leave a bucket unoccupied.  The        *)
(* buckets are looked at as a circle on which a search goes from a key's   *)
(* home to the first bucket that is unoccupied or holds the key.  The      *)
(* table is right as long as every entry's way from its home is occupied;  *)
(* erasing breaks that for the rest of the cluster behind the hole, and    *)
(* Rehashed mends it entry by entry.                                       *)
(*                                                                         *)
(* The lexer opens and closes blocks as the layout of all the lines read   *)
(* says, for any white space and any widths of a tab.  A line is outer if  *)
(* only deeper ones follow it; the open blocks are the columns of the      *)
(* outer lines, in both readings of the tabs, as long as the lexer has     *)
(* not stopped with an error.                                              *)
(*                                                                         *)
(* Sums, differences, products and comparisons of integers are exact, for  *)
(* integers of any size and limbs, payloads and words of any width.        *)
(***************************************************************************)
EXTENDS HashTable, Indentation, BigInteger, Integers, SequenceFacts

Entry == [key : Key, val : Value]

\* Buckets of this capacity.
Typed(b, c) == b \in [0 .. c - 1 -> Entry \cup {Empty}]

Occupied(b) == {i \in DOMAIN b : b[i] # Empty}
Entries(b)  == {b[i] : i \in Occupied(b)}
Keys(b)     == {b[i].key : i \in Occupied(b)}

\* Where a search for a key starts.
Home(k, c) == hash[k] % c

\* Bucket x is passed on the way from bucket h to bucket i.
OnWay(h, i, x) == IF h <= i THEN h <= x /\ x < i ELSE h <= x \/ x < i

Distinct(b) == \A i, j \in Occupied(b) : b[i].key = b[j].key => i = j

Reached(b, c) ==
  \A i \in Occupied(b) : \A x \in 0 .. c - 1 : OnWay(Home(b[i].key, c), i, x) => b[x] # Empty

Good(b, c) == c \in Nat /\ Typed(b, c) /\ Distinct(b) /\ Reached(b, c)

\* A bucket where a search for k ends.
EndsAt(b, c, k, s) ==
  /\ s \in 0 .. c - 1
  /\ b[s] = Empty \/ b[s].key = k
  /\ \A x \in 0 .. c - 1 : OnWay(Home(k, c), s, x) => b[x] # Empty /\ b[x].key # k

\* Fewer buckets are occupied than the load allows.
Room(n, c) == n * 100 < c * LoadPercent

\* A table of n entries in c buckets.
Table(b, n, c) ==
  /\ Good(b, c) /\ n = Cardinality(Occupied(b))
  /\ c # 0 => c >= MinCapacity /\ Room(n, c)

TInv == /\ hash \in [Key -> HashCode]
        /\ \E c \in Nat : Table(buckets, size, c)
-----------------------------------------------------------------------------
(* The circle of buckets.                                                   *)

\* A step of n from a's place on a circle of c.
LEMMA Rotated ==
  ASSUME NEW c \in Nat \ {0}, NEW a \in Nat, NEW n \in 0 .. c - 1
  PROVE  /\ a % c \in 0 .. c - 1
         /\ (a + n) % c = IF (a % c) + n < c THEN (a % c) + n ELSE (a % c) + n - c
<1> DEFINE q == a \div c
           p == (a + n) \div c
           x == a % c
           y == (a + n) % c
           d == p - q
<1>1. x \in 0 .. c - 1 /\ y \in 0 .. c - 1
  OBVIOUS
<1>2. a = c * q + x /\ q \in Int
  OBVIOUS
<1>3. a + n = c * p + y /\ p \in Int
  OBVIOUS
<1> HIDE DEF p, q, x, y
<1>4. d \in Int /\ c * d = c * p - c * q /\ c * p \in Int /\ c * q \in Int
  BY <1>2, <1>3
<1> HIDE DEF d
<1>5. c * d = x + n - y
  BY <1>1, <1>2, <1>3, <1>4
<1>6. c * d < 2 * c /\ c * d > 0 - c
  BY <1>1, <1>5
<1>7. d = 0 \/ d = 1
  <2>1. d >= 2 => c * d >= 2 * c
    BY <1>4
  <2>2. d <= 0 - 1 => c * d <= 0 - c
    BY <1>4
  <2> QED
    BY <1>4, <1>6, <2>1, <2>2
<1>8. c * 0 = 0 /\ c * 1 = c
  OBVIOUS
<1>9. y = IF x + n < c THEN x + n ELSE x + n - c
  BY <1>1, <1>5, <1>7, <1>8
<1> QED
  BY <1>1, <1>9 DEF x, y

LEMMA CapacityIs == ASSUME NEW c \in Nat, NEW b, DOMAIN b = 0 .. c - 1 PROVE Capacity(b) = c
<1>1. Cardinality(0 .. c - 1) = IF 0 > c - 1 THEN 0 ELSE c - 1 - 0 + 1
  BY FS_Interval
<1> QED
  BY <1>1 DEF Capacity

LEMMA HomeIs ==
  ASSUME TableAssumption, hash \in [Key -> HashCode], NEW c \in Nat \ {0}, NEW k \in Key
  PROVE  Home(k, c) \in 0 .. c - 1 /\ hash[k] \in Nat
<1>1. hash[k] \in Nat /\ 0 \in 0 .. c - 1
  BY DEF TableAssumption
<1>2. hash[k] % c \in 0 .. c - 1
  BY <1>1, Rotated
<1> QED
  BY <1>1, <1>2 DEF Home

\* A search ends at the first bucket that is unoccupied or holds the key, if there is one.
LEMMA SlotEnds ==
  ASSUME TableAssumption, hash \in [Key -> HashCode], NEW c \in Nat \ {0}, NEW b, DOMAIN b = 0 .. c - 1,
         NEW k \in Key, NEW j \in 0 .. c - 1, b[j] = Empty \/ b[j].key = k
  PROVE  EndsAt(b, c, k, Slot(b, k))
<1> DEFINE h        == Home(k, c)
           place(n) == (hash[k] + n) % c
           stops(n) == b[place(n)] = Empty \/ b[place(n)].key = k
           way(x)   == IF x >= h THEN x - h ELSE x - h + c
           first(n) == stops(n) /\ \A m \in 0 .. n - 1 : ~stops(m)
           w        == CHOOSE n \in 0 .. c - 1 : first(n)
<1>1. h \in 0 .. c - 1 /\ hash[k] \in Nat
  BY HomeIs
<1>2. \A n \in 0 .. c - 1 : place(n) = IF h + n < c THEN h + n ELSE h + n - c
  BY <1>1, Rotated DEF Home
<1>3. Slot(b, k) = place(w)
  BY CapacityIs DEF Slot
<1> HIDE DEF h, place
<1>4. \A x \in 0 .. c - 1 : way(x) \in 0 .. c - 1 /\ place(way(x)) = x
  BY <1>1, <1>2
<1>5. stops(way(j))
  BY <1>4
<1>6. \E n \in 0 .. c - 1 : first(n)
  <2> DEFINE T == {n \in 0 .. c - 1 : stops(n)}
  <2>1. T \subseteq Nat /\ way(j) \in T
    BY <1>4, <1>5
  <2>2. PICK n \in T : \A m \in T : n <= m
    <3> HIDE DEF T
    <3> QED
      BY <2>1, LeastNumber
  <2>3. n \in 0 .. c - 1 /\ stops(n)
    BY <2>2
  <2>4. ASSUME NEW m \in 0 .. n - 1 PROVE ~stops(m)
    <3>1. m \in 0 .. c - 1 /\ ~(n <= m)
      BY <2>3
    <3> QED
      BY <2>2, <3>1
  <2> QED
    BY <2>3, <2>4
<1>7. w \in 0 .. c - 1 /\ first(w)
  <2> HIDE DEF first
  <2> QED
    BY <1>6
<1> HIDE DEF w
<1>8. place(w) \in 0 .. c - 1 /\ stops(w)
  BY <1>1, <1>2, <1>7
<1>9. ASSUME NEW x \in 0 .. c - 1, OnWay(h, place(w), x) PROVE b[x] # Empty /\ b[x].key # k
  <2>1. way(x) \in 0 .. w - 1
    BY <1>1, <1>2, <1>7, <1>9 DEF OnWay
  <2>2. ~stops(way(x))
    BY <1>7, <2>1
  <2> QED
    BY <1>4, <2>2
<1> QED
  BY <1>3, <1>8, <1>9 DEF EndsAt, h

\* With one entry for each key at most, on its way from its home, a search for a key that is
\* there ends at it.
LEMMA SlotFinds ==
  ASSUME TableAssumption, hash \in [Key -> HashCode], NEW c, NEW b, Good(b, c),
         NEW i \in Occupied(b)
  PROVE  Slot(b, b[i].key) = i /\ EndsAt(b, c, b[i].key, i)
<1> DEFINE k == b[i].key
           h == Home(k, c)
           s == Slot(b, k)
<1>1. DOMAIN b = 0 .. c - 1 /\ i \in 0 .. c - 1 /\ b[i] # Empty /\ b[i] \in Entry /\ c \in Nat \ {0}
  BY DEF Good, Typed, Occupied
<1>2. k \in Key
  BY <1>1 DEF Entry
<1>3. EndsAt(b, c, k, s)
  BY <1>1, <1>2, SlotEnds
<1>4. h \in 0 .. c - 1
  BY <1>1, <1>2, HomeIs
<1>5. \A x \in 0 .. c - 1 : OnWay(h, i, x) => x \in Occupied(b)
  BY <1>1 DEF Good, Reached, Occupied
<1> HIDE DEF h, s
<1>6. s = i
  <2> SUFFICES ASSUME s # i PROVE FALSE
    OBVIOUS
  <2>1. s \in 0 .. c - 1
    BY <1>3 DEF EndsAt
  <2>2. CASE OnWay(h, i, s)
    <3>1. s \in Occupied(b) /\ b[s].key = k
      BY <1>3, <1>5, <2>1, <2>2 DEF EndsAt, Occupied
    <3> QED
      BY <3>1 DEF Good, Distinct
  <2>3. CASE OnWay(h, s, i)
    BY <1>1, <1>3, <2>3 DEF EndsAt, h
  <2>4. OnWay(h, i, s) \/ OnWay(h, s, i)
    BY <1>1, <1>4, <2>1 DEF OnWay
  <2> QED
    BY <2>2, <2>3, <2>4
<1> QED
  BY <1>3, <1>6 DEF s

\* A search for a key that is not there ends at an unoccupied bucket, if there is one.
LEMMA SlotMisses ==
  ASSUME TableAssumption, hash \in [Key -> HashCode], NEW c, NEW b, Good(b, c),
         NEW k \in Key, k \notin Keys(b), NEW j \in 0 .. c - 1, b[j] = Empty
  PROVE  EndsAt(b, c, k, Slot(b, k)) /\ b[Slot(b, k)] = Empty
<1>1. DOMAIN b = 0 .. c - 1 /\ c \in Nat \ {0}
  BY DEF Good, Typed
<1>2. EndsAt(b, c, k, Slot(b, k))
  BY <1>1, SlotEnds
<1>3. Slot(b, k) \in DOMAIN b /\ (b[Slot(b, k)] = Empty \/ b[Slot(b, k)].key = k)
  BY <1>1, <1>2 DEF EndsAt
<1> QED
  BY <1>2, <1>3 DEF Keys, Occupied
-----------------------------------------------------------------------------
(* What is in the buckets.                                                  *)

LEMMA Members ==
  ASSUME TableAssumption, NEW c, NEW b, Good(b, c)
  PROVE  /\ Entries(b) \subseteq Entry /\ Empty \notin Entries(b) /\ Empty \notin Entry
         /\ Keys(b) = {e.key : e \in Entries(b)} /\ Keys(b) \subseteq Key
         /\ \A e, f \in Entries(b) : e.key = f.key => e = f
         /\ Occupied(b) \subseteq 0 .. c - 1 /\ DOMAIN b = 0 .. c - 1
<1>1. \A i \in Occupied(b) : b[i] \in Entry
  BY DEF Good, Typed, Occupied
<1>2. Empty \notin Entry
  BY DEF TableAssumption, Entry
<1>3. Occupied(b) \subseteq 0 .. c - 1 /\ DOMAIN b = 0 .. c - 1
  BY DEF Good, Typed, Occupied
<1>4. \A e, f \in Entries(b) : e.key = f.key => e = f
  BY DEF Good, Distinct, Entries
<1>5. Keys(b) = {e.key : e \in Entries(b)}
  BY DEF Keys, Entries
<1>6. Keys(b) \subseteq Key
  BY <1>1 DEF Keys, Entry
<1> QED
  BY <1>1, <1>2, <1>3, <1>4, <1>5, <1>6 DEF Entries

\* There are as many keys as occupied buckets.
LEMMA KeysCount ==
  ASSUME NEW c, NEW b, Good(b, c)
  PROVE  /\ IsFiniteSet(Occupied(b)) /\ Cardinality(Occupied(b)) \in Nat
         /\ Cardinality(Occupied(b)) <= c
         /\ Cardinality(Keys(b)) = Cardinality(Occupied(b)) /\ IsFiniteSet(Keys(b))
<1>1. c \in Nat /\ Occupied(b) \subseteq 0 .. c - 1
  BY DEF Good, Typed, Occupied
<1>2. IsFiniteSet(0 .. c - 1) /\ Cardinality(0 .. c - 1) = c
  <2>1. 0 \in Int /\ c - 1 \in Int /\ (0 > c - 1 => c = 0) /\ c - 1 - 0 + 1 = c
    BY <1>1
  <2> QED
    BY <2>1, FS_Interval
<1>3. IsFiniteSet(Occupied(b)) /\ Cardinality(Occupied(b)) <= c
  BY <1>1, <1>2, FS_Subset
<1> DEFINE f == [i \in Occupied(b) |-> b[i].key]
<1>4. f \in Bijection(Occupied(b), Keys(b))
  BY DEF Bijection, Injection, Surjection, IsInjective, Keys, Good, Distinct
<1>5. Cardinality(Occupied(b)) = Cardinality(Keys(b)) /\ IsFiniteSet(Keys(b))
  <2>1. ExistsBijection(Occupied(b), Keys(b))
    BY <1>4 DEF ExistsBijection
  <2> QED
    BY <1>3, <2>1, FS_Bijection
<1> QED
  BY <1>3, <1>5, FS_CardinalityType

\* Where fewer buckets are occupied than there are, one is not.
LEMMA SomeEmpty ==
  ASSUME NEW c, NEW b, Good(b, c), Cardinality(Occupied(b)) < c
  PROVE  \E j \in 0 .. c - 1 : b[j] = Empty
<1>1. c \in Nat /\ DOMAIN b = 0 .. c - 1
  BY DEF Good, Typed
<1>2. Cardinality(0 .. c - 1) = c
  <2>1. 0 \in Int /\ c - 1 \in Int /\ (0 > c - 1 => c = 0) /\ c - 1 - 0 + 1 = c
    BY <1>1
  <2> QED
    BY <2>1, FS_Interval
<1> SUFFICES ASSUME \A j \in 0 .. c - 1 : b[j] # Empty PROVE FALSE
  OBVIOUS
<1>3. Occupied(b) = 0 .. c - 1
  BY <1>1 DEF Occupied
<1> QED
  BY <1>1, <1>2, <1>3
-----------------------------------------------------------------------------
(* Putting an entry where the search for its key ends.                      *)

Put(b, s, e) == [b EXCEPT ![s] = e]

LEMMA PutFacts ==
  ASSUME TableAssumption, NEW c, NEW b, Good(b, c), NEW e \in Entry, NEW s, EndsAt(b, c, e.key, s),
         b[s] = Empty => e.key \notin Keys(b)
  PROVE  /\ Good(Put(b, s, e), c) /\ Occupied(Put(b, s, e)) = Occupied(b) \cup {s}
         /\ Put(b, s, e) # Unoccupied(0)
         /\ Keys(Put(b, s, e)) = Keys(b) \cup {e.key}
         /\ Entries(Put(b, s, e)) = {f \in Entries(b) : f.key # e.key} \cup {e}
<1> DEFINE p == Put(b, s, e)
<1>1. /\ b \in [0 .. c - 1 -> Entry \cup {Empty}] /\ s \in 0 .. c - 1 /\ Empty \notin Entry /\ c \in Nat
      /\ Occupied(b) \subseteq 0 .. c - 1
  BY Members DEF Good, Typed, EndsAt
<1>2. /\ p \in [0 .. c - 1 -> Entry \cup {Empty}]
      /\ \A i \in 0 .. c - 1 : p[i] = IF i = s THEN e ELSE b[i]
  BY <1>1 DEF Put
<1> HIDE DEF p
<1>3. Occupied(p) = Occupied(b) \cup {s}
  BY <1>1, <1>2 DEF Occupied
<1>4. \A i \in Occupied(b) : b[i].key = e.key => i = s
  <2> SUFFICES ASSUME NEW i \in Occupied(b), b[i].key = e.key PROVE i = s
    OBVIOUS
  <2>1. e.key \in Keys(b)
    BY DEF Keys
  <2>2. s \in Occupied(b) /\ b[s].key = e.key
    BY <1>1, <2>1 DEF EndsAt, Occupied
  <2> QED
    BY <2>2 DEF Good, Distinct
<1>5. Distinct(p)
  <2> SUFFICES ASSUME NEW i \in Occupied(p), NEW j \in Occupied(p), p[i].key = p[j].key PROVE i = j
    BY DEF Distinct
  <2>1. \A x \in Occupied(p) : x # s => x \in Occupied(b) /\ p[x] = b[x]
    BY <1>1, <1>2, <1>3
  <2>2. p[s] = e
    BY <1>1, <1>2
  <2>3. CASE i = s \/ j = s
    BY <1>4, <2>1, <2>2, <2>3
  <2>4. CASE i # s /\ j # s
    BY <2>1, <2>4 DEF Good, Distinct
  <2> QED
    BY <2>3, <2>4
<1>6. Reached(p, c)
  <2> SUFFICES ASSUME NEW i \in Occupied(p), NEW x \in 0 .. c - 1, OnWay(Home(p[i].key, c), i, x)
               PROVE  p[x] # Empty
    BY DEF Reached
  <2>1. b[x] # Empty => p[x] # Empty
    BY <1>1, <1>2
  <2>2. CASE i = s
    BY <1>1, <1>2, <2>1, <2>2 DEF EndsAt
  <2>3. CASE i # s
    <3>1. i \in Occupied(b) /\ p[i] = b[i]
      BY <1>1, <1>2, <1>3, <2>3
    <3> QED
      BY <2>1, <3>1 DEF Good, Reached
  <2> QED
    BY <2>2, <2>3
<1>7. Entries(p) = {f \in Entries(b) : f.key # e.key} \cup {e}
  <2>1. ASSUME NEW f \in Entries(p) PROVE f = e \/ (f \in Entries(b) /\ f.key # e.key)
    <3>1. PICK i \in Occupied(p) : f = p[i]
      BY DEF Entries
    <3>2. i # s => i \in Occupied(b) /\ f = b[i] /\ b[i].key # e.key
      BY <1>1, <1>2, <1>3, <1>4, <3>1
    <3>3. i = s => f = e
      BY <1>1, <1>2, <3>1
    <3> QED
      BY <3>2, <3>3 DEF Entries
  <2>2. e \in Entries(p)
    BY <1>1, <1>2, <1>3 DEF Entries
  <2>3. ASSUME NEW f \in Entries(b), f.key # e.key PROVE f \in Entries(p)
    <3>1. PICK i \in Occupied(b) : f = b[i]
      BY DEF Entries
    <3>2. i # s
      <4>1. CASE b[s] = Empty
        BY <3>1, <4>1 DEF Occupied
      <4>2. CASE b[s].key = e.key
        BY <2>3, <3>1, <4>2
      <4> QED
        BY <4>1, <4>2 DEF EndsAt
    <3> QED
      BY <1>1, <1>2, <1>3, <3>1, <3>2 DEF Entries
  <2> QED
    BY <2>1, <2>2, <2>3
<1>8. Good(p, c)
  BY <1>1, <1>2, <1>5, <1>6 DEF Good, Typed
<1>9. Keys(p) = Keys(b) \cup {e.key}
  <2>1. Keys(p) = {f.key : f \in Entries(p)} /\ Keys(b) = {f.key : f \in Entries(b)}
    BY <1>8, Members
  <2> QED
    BY <1>7, <2>1
<1>10. p # Unoccupied(0)
  <2>1. DOMAIN p = 0 .. c - 1 /\ s \in DOMAIN p
    BY <1>1, <1>2
  <2>2. \A i \in DOMAIN Unoccupied(0) : FALSE
    BY DEF Unoccupied
  <2> QED
    BY <2>1, <2>2
<1> QED
  BY <1>3, <1>7, <1>8, <1>9, <1>10 DEF p

\* A fresh table.
LEMMA UnoccupiedIs ==
  ASSUME NEW c \in Nat
  PROVE  LET u == Unoccupied(c) IN
         /\ Good(u, c) /\ Occupied(u) = {} /\ Keys(u) = {} /\ Entries(u) = {}
         /\ Capacity(u) = c /\ Cardinality(Occupied(u)) = 0 /\ \A i \in 0 .. c - 1 : u[i] = Empty
<1> DEFINE u == Unoccupied(c)
<1>1. u = [i \in 0 .. c - 1 |-> Empty]
  BY DEF Unoccupied
<1> HIDE DEF u
<1>2. Occupied(u) = {}
  BY <1>1 DEF Occupied
<1>3. Good(u, c)
  BY <1>1, <1>2 DEF Good, Typed, Distinct, Reached
<1>4. Keys(u) = {} /\ Entries(u) = {}
  BY <1>2 DEF Keys, Entries
<1>5. Capacity(u) = c
  BY <1>1, CapacityIs
<1> QED
  BY <1>1, <1>2, <1>3, <1>4, <1>5, FS_EmptySet DEF u

\* A new key goes to an unoccupied bucket, a known one stays where it is.
LEMMA PutAtSlot ==
  ASSUME TableAssumption, hash \in [Key -> HashCode], NEW c, NEW b, Good(b, c), NEW e \in Entry,
         Cardinality(Occupied(b)) < c
  PROVE  LET s == Slot(b, e.key) IN
         /\ EndsAt(b, c, e.key, s)
         /\ b[s] = Empty <=> e.key \notin Keys(b)
         /\ s \in 0 .. c - 1
<1> DEFINE s == Slot(b, e.key)
<1>1. e.key \in Key
  BY DEF Entry
<1>2. CASE e.key \in Keys(b)
  <2>1. PICK i \in Occupied(b) : b[i].key = e.key
    BY <1>2 DEF Keys
  <2>2. s = i /\ EndsAt(b, c, e.key, i) /\ b[i] # Empty
    BY <2>1, SlotFinds DEF Occupied
  <2> QED
    BY <1>2, <2>2 DEF EndsAt
<1>3. CASE e.key \notin Keys(b)
  <2>1. PICK j \in 0 .. c - 1 : b[j] = Empty
    BY SomeEmpty
  <2>2. EndsAt(b, c, e.key, s) /\ b[s] = Empty
    BY <1>1, <1>3, <2>1, SlotMisses
  <2> QED
    BY <1>3, <2>2 DEF EndsAt
<1> QED
  BY <1>2, <1>3
-----------------------------------------------------------------------------
(* Growing.                                                                 *)

\* More buckets of the same entries, with room for one more.
Larger(g, b, n, c) ==
  /\ Good(g, c) /\ c >= MinCapacity /\ c \in Nat \ {0}
  /\ Entries(g) = Entries(b) /\ Keys(g) = Keys(b)
  /\ n = Cardinality(Occupied(g)) /\ Room(n + 1, c)

\* The load of a table that is no smaller than the first is no smaller either.
LEMMA LoadGrows ==
  ASSUME TableAssumption, NEW c \in Nat, c >= MinCapacity
  PROVE  /\ c * LoadPercent \in Nat /\ 100 < c * LoadPercent /\ c * LoadPercent <= c * 100
         /\ 2 * c \in Nat /\ (2 * c) * LoadPercent = 2 * (c * LoadPercent)
<1>1. MinCapacity \in Nat \ {0} /\ LoadPercent \in Nat /\ LoadPercent <= 100 /\ 100 < MinCapacity * LoadPercent
  BY DEF TableAssumption
<1> DEFINE d == c - MinCapacity
           r == 100 - LoadPercent
<1>2. d \in Nat /\ c = MinCapacity + d /\ r \in Nat /\ 100 = LoadPercent + r
  BY <1>1
<1> HIDE DEF d, r
<1>3. d * LoadPercent \in Nat /\ MinCapacity * LoadPercent \in Nat /\ c * r \in Nat
  BY <1>1, <1>2
<1>4. c * LoadPercent = MinCapacity * LoadPercent + d * LoadPercent
  BY <1>1, <1>2
<1>5. c * 100 = c * LoadPercent + c * r
  <2>1. c * (LoadPercent + r) = c * LoadPercent + c * r
    BY <1>1, <1>2
  <2> QED
    BY <1>2, <2>1
<1>6. (2 * c) * LoadPercent = 2 * (c * LoadPercent)
  BY <1>1
<1>7. c * LoadPercent \in Nat /\ 2 * c \in Nat
  BY <1>3, <1>4
<1> QED
  BY <1>1, <1>3, <1>4, <1>5, <1>6, <1>7

\* An entry of a key that is not there is added.
LEMMA ReinsertedIs ==
  ASSUME TableAssumption, hash \in [Key -> HashCode], NEW c, NEW g, Good(g, c), NEW e \in Entry,
         e.key \notin Keys(g), Cardinality(Occupied(g)) < c
  PROVE  /\ Good(Reinserted(g, e), c) /\ Entries(Reinserted(g, e)) = Entries(g) \cup {e}
         /\ Keys(Reinserted(g, e)) = Keys(g) \cup {e.key}
<1> DEFINE s == Slot(g, e.key)
<1>1. EndsAt(g, c, e.key, s)
  BY PutAtSlot
<1>2. Reinserted(g, e) = [g EXCEPT ![s] = e]
  BY DEF Reinserted
<1> HIDE DEF s
<1>3. /\ Good(Reinserted(g, e), c) /\ Keys(Reinserted(g, e)) = Keys(g) \cup {e.key}
      /\ Entries(Reinserted(g, e)) = {f \in Entries(g) : f.key # e.key} \cup {e}
  <2>1. g[s] = Empty => e.key \notin Keys(g)
    OBVIOUS
  <2>2. Reinserted(g, e) = Put(g, s, e)
    BY <1>2 DEF Put
  <2> QED
    BY <1>1, <2>1, <2>2, PutFacts
<1>4. \A f \in Entries(g) : f.key # e.key
  BY Members
<1> QED
  BY <1>3, <1>4

\* Doubling puts every entry, bucket after bucket, into twice as many.
LEMMA DoubledIs ==
  ASSUME TableAssumption, hash \in [Key -> HashCode], NEW c \in Nat \ {0}, NEW b, Good(b, c),
         NEW n, b # Unoccupied(0), ~((n + 1) * 100 < Capacity(b) * LoadPercent)
  PROVE  /\ Good(Grown(b, n), 2 * c) /\ Entries(Grown(b, n)) = Entries(b)
<1> DEFINE Loop(f) == f = [i \in 0 .. Capacity(b) |->
                             IF i = 0 THEN Unoccupied(2 * Capacity(b))
                             ELSE LET g == f[i - 1] IN IF b[i - 1] = Empty THEN g ELSE Reinserted(g, b[i - 1])]
           grown  == CHOOSE f : Loop(f)
           before(i) == {j \in Occupied(b) : j < i}
           Done(g, i) == Good(g, 2 * c) /\ Entries(g) = {b[j] : j \in before(i)}
           T   == [0 .. 2 * c - 1 -> Entry \cup {Empty}]
           inv == [i \in 0 .. c |-> {g \in T : Done(g, i)}]
           step == [p \in (1 .. c) \X T |->
                      IF b[p[1] - 1] = Empty THEN p[2] ELSE Reinserted(p[2], b[p[1] - 1])]
<1>1. Capacity(b) = c /\ DOMAIN b = 0 .. c - 1 /\ 2 * c \in Nat
  BY CapacityIs DEF Good, Typed
<1>2. Grown(b, n) = grown[c]
  BY <1>1 DEF Grown
<1>3. Unoccupied(2 * c) \in inv[0]
  <2>1. before(0) = {}
    <3>1. Occupied(b) \subseteq Nat
      BY <1>1 DEF Occupied
    <3> QED
      BY <3>1
  <2>2. Done(Unoccupied(2 * c), 0)
    BY <1>1, <2>1, UnoccupiedIs
  <2>3. Unoccupied(2 * c) \in T
    BY <2>2 DEF Good, Typed
  <2> HIDE DEF Done, T
  <2> QED
    BY <2>2, <2>3
<1>4. ASSUME NEW i \in 1 .. c, NEW g \in inv[i - 1] PROVE step[<<i, g>>] \in inv[i]
  <2>1. i - 1 \in 0 .. c - 1 /\ i - 1 \in 0 .. c /\ i \in 0 .. c
    OBVIOUS
  <2>2. g \in T /\ Done(g, i - 1)
    <3> HIDE DEF T, Done
    <3> QED
      BY <2>1
  <2>3. step[<<i, g>>] = IF b[i - 1] = Empty THEN g ELSE Reinserted(g, b[i - 1])
    <3>1. <<i, g>> \in (1 .. c) \X T
      BY <2>2
    <3> HIDE DEF T
    <3> QED
      BY <3>1
  <2>4. Occupied(b) \subseteq Nat /\ i - 1 \in Nat
    BY <1>1, <2>1 DEF Occupied
  <2>5. CASE b[i - 1] = Empty
    <3>1. before(i) = before(i - 1)
      BY <2>1, <2>4, <2>5 DEF Occupied
    <3> HIDE DEF before
    <3>2. Done(g, i)
      BY <2>2, <3>1
    <3> HIDE DEF Done, T
    <3> QED
      BY <2>1, <2>2, <2>3, <2>5, <3>2
  <2>6. CASE b[i - 1] # Empty
    <3> DEFINE e == b[i - 1]
    <3>1. i - 1 \in Occupied(b) /\ e \in Entry
      BY <1>1, <2>1, <2>6 DEF Occupied, Good, Typed
    <3>2. before(i) = before(i - 1) \cup {i - 1}
      BY <2>4, <3>1
    <3>3. e.key \notin Keys(g) /\ Keys(g) \subseteq Keys(b)
      <4>1. Keys(g) = {f.key : f \in Entries(g)}
        BY <2>2, Members
      <4>2. \A j \in before(i - 1) : b[j].key # e.key
        BY <2>4, <3>1 DEF Good, Distinct
      <4>3. \A j \in before(i - 1) : j \in Occupied(b)
        OBVIOUS
      <4> HIDE DEF before
      <4> QED
        BY <2>2, <4>1, <4>2, <4>3 DEF Keys
    <3>4. Cardinality(Occupied(g)) < 2 * c
      <4>1. IsFiniteSet(Keys(b)) /\ Cardinality(Keys(b)) <= c /\ Cardinality(Keys(b)) \in Nat
        BY KeysCount
      <4>2. Cardinality(Keys(g)) <= Cardinality(Keys(b)) /\ Cardinality(Keys(g)) \in Nat
        BY <3>3, <4>1, FS_Subset, FS_CardinalityType
      <4>3. Cardinality(Keys(g)) = Cardinality(Occupied(g))
        BY <2>2, KeysCount
      <4> QED
        BY <4>1, <4>2, <4>3
    <3> HIDE DEF e, before
    <3>5. Good(Reinserted(g, e), 2 * c) /\ Entries(Reinserted(g, e)) = Entries(g) \cup {e}
      BY <2>2, <3>1, <3>3, <3>4, ReinsertedIs
    <3>6. {b[j] : j \in before(i)} = {b[j] : j \in before(i - 1)} \cup {e}
      BY <3>2 DEF e
    <3>7. Done(Reinserted(g, e), i)
      BY <2>2, <3>5, <3>6
    <3>8. Reinserted(g, e) \in T
      BY <3>5 DEF Good, Typed
    <3> HIDE DEF Done, T
    <3>9. step[<<i, g>>] = Reinserted(g, e)
      BY <2>3, <2>6 DEF e
    <3> HIDE DEF step
    <3> QED
      BY <2>1, <3>7, <3>8, <3>9
  <2> QED
    BY <2>5, <2>6
<1>5. PICK f : Rounds(f, c, Unoccupied(2 * c), step, inv)
  <2> DEFINE start == Unoccupied(2 * c)
  <2>1. start \in inv[0] /\ c \in Nat
    BY <1>3
  <2> HIDE DEF inv, step, start
  <2>2. \A i \in 1 .. c : \A x \in inv[i - 1] : step[<<i, x>>] \in inv[i]
    BY <1>4
  <2>3. \E f : Rounds(f, c, start, step, inv)
    BY <2>1, <2>2, IteratesExist
  <2> QED
    BY <2>3 DEF start
<1>6. \A i \in 0 .. c : f[i] \in T
  BY <1>5 DEF Rounds
<1>7. \A i \in 1 .. c : f[i] = IF b[i - 1] = Empty THEN f[i - 1] ELSE Reinserted(f[i - 1], b[i - 1])
  <2> SUFFICES ASSUME NEW i \in 1 .. c
               PROVE  f[i] = IF b[i - 1] = Empty THEN f[i - 1] ELSE Reinserted(f[i - 1], b[i - 1])
    OBVIOUS
  <2>1. <<i, f[i - 1]>> \in (1 .. c) \X T
    BY <1>6
  <2> HIDE DEF T, inv
  <2> QED
    BY <1>5, <2>1 DEF Rounds
<1>8. Loop(f)
  <2> DEFINE F(i) == IF i = 0 THEN Unoccupied(2 * c)
                     ELSE IF b[i - 1] = Empty THEN f[i - 1] ELSE Reinserted(f[i - 1], b[i - 1])
  <2>1. \A i \in 0 .. c : f[i] = F(i)
    <3>1. \A i \in 0 .. c : i = 0 \/ i \in 1 .. c
      OBVIOUS
    <3> QED
      BY <1>5, <1>7, <3>1 DEF Rounds
  <2>2. f = [i \in 0 .. c |-> F(i)]
    <3> HIDE DEF F
    <3> QED
      BY <1>5, <2>1 DEF Rounds
  <2> HIDE DEF inv, step
  <2> QED
    BY <1>1, <2>2
<1>9. Loop(grown)
  <2> HIDE DEF Loop
  <2> QED
    BY <1>8
<1> HIDE DEF grown
<1>10. /\ grown[0] = Unoccupied(2 * c)
       /\ \A i \in 1 .. c : grown[i] = IF b[i - 1] = Empty THEN grown[i - 1]
                                       ELSE Reinserted(grown[i - 1], b[i - 1])
  BY <1>1, <1>9
<1> HIDE DEF Loop
<1>11. \A i \in 0 .. c : f[i] = grown[i]
  <2>1. \A i \in 1 .. c : f[i - 1] = grown[i - 1] => f[i] = grown[i]
    BY <1>7, <1>10
  <2>2. c \in Nat
    OBVIOUS
  <2>3. f[0] = grown[0]
    BY <1>5, <1>10 DEF Rounds
  <2> HIDE DEF inv, step
  <2> QED
    BY <2>1, <2>2, <2>3, SameIterates
<1>12. Done(grown[c], c)
  <2> HIDE DEF Done, T
  <2> QED
    BY <1>5, <1>11 DEF Rounds
<1>13. before(c) = Occupied(b)
  BY <1>1 DEF Occupied
<1> HIDE DEF before
<1> QED
  BY <1>2, <1>12, <1>13 DEF Entries

\* Growing leaves the entries, and room for one more.
LEMMA GrownIs ==
  ASSUME TableAssumption, hash \in [Key -> HashCode], NEW c, NEW b, NEW n, Table(b, n, c)
  PROVE  /\ \E c2 : Larger(Grown(b, n), b, n, c2)
         /\ c # 0 /\ Room(n + 1, c) => Grown(b, n) = b
<1>1. c \in Nat /\ Good(b, c) /\ n = Cardinality(Occupied(b)) /\ n \in Nat /\ DOMAIN b = 0 .. c - 1
  BY KeysCount DEF Table, Good, Typed
<1>2. Capacity(b) = c
  BY <1>1, CapacityIs
<1>3. DOMAIN Unoccupied(0) = {}
  BY DEF Unoccupied
<1>4. CASE b = Unoccupied(0)
  <2>1. c = 0
    <3>1. c > 0 => 0 \in DOMAIN b
      BY <1>1
    <3> QED
      BY <1>1, <1>3, <1>4, <3>1
  <2>2. Grown(b, n) = Unoccupied(MinCapacity)
    BY <1>4 DEF Grown
  <2>3. MinCapacity \in Nat \ {0} /\ 100 < MinCapacity * LoadPercent
    BY DEF TableAssumption
  <2>4. Entries(b) = {} /\ Keys(b) = {} /\ Occupied(b) = {}
    BY <1>3, <1>4 DEF Entries, Keys, Occupied
  <2>5. n = 0 /\ Room(n + 1, MinCapacity)
    <3>1. n = 0
      BY <1>1, <2>4, FS_EmptySet
    <3> QED
      BY <2>3, <3>1 DEF Room
  <2>6. Larger(Unoccupied(MinCapacity), b, n, MinCapacity)
    <3>1. MinCapacity \in Nat /\ MinCapacity >= MinCapacity
      BY <2>3
    <3> QED
      BY <2>3, <2>4, <2>5, <3>1, UnoccupiedIs DEF Larger
  <2> QED
    BY <2>1, <2>2, <2>6
<1>5. CASE b # Unoccupied(0)
  <2>1. c # 0
    <3> SUFFICES ASSUME c = 0 PROVE FALSE
      OBVIOUS
    <3>1. b = [i \in 0 .. c - 1 |-> b[i]] /\ Unoccupied(0) = [i \in 0 .. 0 - 1 |-> Empty] /\ 0 .. 0 - 1 = {}
      BY <1>1 DEF Unoccupied, Good, Typed
    <3> QED
      BY <1>5, <3>1
  <2>2. c >= MinCapacity /\ Room(n, c) /\ c \in Nat \ {0}
    BY <1>1, <2>1 DEF Table
  <2>3. CASE (n + 1) * 100 < c * LoadPercent
    <3>1. Grown(b, n) = b
      BY <1>2, <1>5, <2>3 DEF Grown
    <3>2. Larger(b, b, n, c)
      BY <1>1, <2>2, <2>3 DEF Larger, Room
    <3> QED
      BY <3>1, <3>2
  <2>4. CASE ~((n + 1) * 100 < c * LoadPercent)
    <3> DEFINE g == Grown(b, n)
    <3>1. Good(g, 2 * c) /\ Entries(g) = Entries(b)
      BY <1>1, <1>2, <1>5, <2>2, <2>4, DoubledIs
    <3> HIDE DEF g
    <3>2. Keys(g) = Keys(b)
      BY <1>1, <3>1, Members
    <3>3. n = Cardinality(Occupied(g))
      BY <1>1, <3>1, <3>2, KeysCount
    <3>4. Room(n + 1, 2 * c)
      BY <1>1, <2>2, LoadGrows DEF Room
    <3>5. 2 * c >= MinCapacity /\ 2 * c \in Nat \ {0}
      <4>1. MinCapacity \in Nat
        BY DEF TableAssumption
      <4> QED
        BY <2>2, <4>1
    <3>6. Larger(g, b, n, 2 * c)
      BY <3>1, <3>2, <3>3, <3>4, <3>5 DEF Larger
    <3>7. ~Room(n + 1, c)
      BY <2>4 DEF Room
    <3> QED
      BY <3>6, <3>7 DEF g
  <2> QED
    BY <2>3, <2>4
<1> QED
  BY <1>4, <1>5

\* The entries of a table with this entry in the place of its key's.
With(E, e) == {f \in E : f.key # e.key} \cup {e}

LEMMA AssignedIs ==
  ASSUME TableAssumption, hash \in [Key -> HashCode], NEW c, NEW b, NEW n, Table(b, n, c), NEW e \in Entry,
         NEW t, t.buckets = b, t.size = n
  PROVE  LET a == Assigned(t, e) IN
         /\ \E c2 \in Nat \ {0} : Table(a.buckets, a.size, c2)
         /\ Entries(a.buckets) = With(Entries(b), e) /\ Keys(a.buckets) = Keys(b) \cup {e.key}
<1> DEFINE a == Assigned(t, e)
           g == Grown(b, n)
           s == Slot(g, e.key)
           p == Put(g, s, e)
<1>1. PICK c2 : Larger(g, b, n, c2)
  BY GrownIs
<1>2. a.buckets = p /\ a.size = IF g[s] = Empty THEN n + 1 ELSE n
  BY DEF Assigned, Put
<1> HIDE DEF a, g
<1>3. /\ Good(g, c2) /\ c2 >= MinCapacity /\ c2 \in Nat \ {0} /\ n \in Nat
      /\ n = Cardinality(Occupied(g)) /\ Room(n + 1, c2) /\ IsFiniteSet(Occupied(g))
  BY <1>1, KeysCount DEF Larger
<1>4. n < c2
  BY <1>3, LoadGrows DEF Room
<1>5. /\ EndsAt(g, c2, e.key, s)
      /\ g[s] = Empty <=> e.key \notin Keys(g)
      /\ s \in 0 .. c2 - 1
  BY <1>3, <1>4, PutAtSlot
<1>6. DOMAIN g = 0 .. c2 - 1
  BY <1>3 DEF Good, Typed
<1> HIDE DEF s
<1>7. /\ Good(p, c2) /\ Occupied(p) = Occupied(g) \cup {s}
      /\ Keys(p) = Keys(g) \cup {e.key} /\ Entries(p) = With(Entries(g), e)
  BY <1>3, <1>5, PutFacts DEF With
<1> HIDE DEF p
<1>8. a.size = Cardinality(Occupied(p)) /\ a.size \in Nat /\ a.size <= n + 1
  <2>1. CASE g[s] = Empty
    <3>1. s \notin Occupied(g)
      BY <2>1 DEF Occupied
    <3>2. Cardinality(Occupied(p)) = n + 1
      <4> DEFINE O == Occupied(g)
      <4>1. IsFiniteSet(O) /\ s \notin O /\ Cardinality(O) = n
        BY <1>3, <3>1
      <4>2. Occupied(p) = O \cup {s}
        BY <1>7
      <4> HIDE DEF O
      <4>3. Cardinality(O \cup {s}) = Cardinality(O) + 1
        BY <4>1, FS_AddElement
      <4> QED
        BY <4>1, <4>2, <4>3
    <3> QED
      BY <1>2, <1>3, <2>1, <3>2
  <2>2. CASE g[s] # Empty
    <3>1. s \in Occupied(g)
      BY <1>5, <1>6, <2>2 DEF Occupied
    <3>2. Occupied(p) = Occupied(g)
      BY <1>7, <3>1
    <3> QED
      BY <1>2, <1>3, <2>2, <3>2
  <2> QED
    BY <2>1, <2>2
<1>9. Room(a.size, c2)
  <2>1. c2 * LoadPercent \in Nat
    BY <1>3, LoadGrows
  <2> QED
    BY <1>3, <1>8, <2>1 DEF Room
<1>10. Table(a.buckets, a.size, c2)
  BY <1>2, <1>3, <1>7, <1>8, <1>9 DEF Table
<1> QED
  BY <1>1, <1>2, <1>3, <1>7, <1>10 DEF Larger, a
-----------------------------------------------------------------------------
(* Closing the hole that an erased entry leaves.                            *)

\* How far bucket x is behind the hole.
Behind(x, hole, c) == IF x >= hole THEN x - hole ELSE x - hole + c

\* The buckets b are mended up to n behind the hole: the entries are still the same, those further
\* behind are still where they were, and an unoccupied bucket is on the way to those alone, from
\* among the buckets that were gone through.
Mended(g, b, hole, c, n) ==
  /\ Typed(g, c) /\ Distinct(g) /\ Entries(g) = Entries(b)
  /\ \A x \in 0 .. c - 1 : Behind(x, hole, c) > n => g[x] = b[x]
  /\ \A i \in Occupied(g), x \in 0 .. c - 1 :
       OnWay(Home(g[i].key, c), i, x) /\ g[x] = Empty
       => Behind(x, hole, c) <= n /\ n < Behind(i, hole, c)

\* At first the hole alone is unoccupied.
LEMMA MendedFirst ==
  ASSUME NEW c, NEW b, Good(b, c), NEW hole \in Occupied(b)
  PROVE  /\ Mended(Put(b, hole, Empty), Put(b, hole, Empty), hole, c, 0)
         /\ Entries(Put(b, hole, Empty)) = {f \in Entries(b) : f.key # b[hole].key}
<1> DEFINE p == Put(b, hole, Empty)
<1>1. /\ c \in Nat /\ b \in [0 .. c - 1 -> Entry \cup {Empty}] /\ hole \in 0 .. c - 1
      /\ Occupied(b) \subseteq 0 .. c - 1
  BY DEF Good, Typed, Occupied
<1>2. /\ p \in [0 .. c - 1 -> Entry \cup {Empty}]
      /\ \A i \in 0 .. c - 1 : p[i] = IF i = hole THEN Empty ELSE b[i]
  BY <1>1 DEF Put
<1> HIDE DEF p
<1>3. /\ Occupied(p) = Occupied(b) \ {hole}
      /\ \A i \in Occupied(p) : i \in 0 .. c - 1 /\ i \in Occupied(b) /\ p[i] = b[i] /\ i # hole
  BY <1>1, <1>2 DEF Occupied
<1>4. Distinct(p)
  BY <1>3 DEF Good, Distinct
<1>5. ASSUME NEW i \in Occupied(p), NEW x \in 0 .. c - 1, OnWay(Home(p[i].key, c), i, x), p[x] = Empty
      PROVE  Behind(x, hole, c) <= 0 /\ 0 < Behind(i, hole, c)
  <2>1. b[x] # Empty
    BY <1>3, <1>5 DEF Good, Reached
  <2>2. x = hole
    BY <1>2, <1>5, <2>1
  <2> QED
    BY <1>1, <1>3, <2>2 DEF Behind
<1>6. Entries(p) = {f \in Entries(b) : f.key # b[hole].key}
  <2>1. ASSUME NEW f \in Entries(p) PROVE f \in Entries(b) /\ f.key # b[hole].key
    <3>1. PICK i \in Occupied(p) : f = p[i]
      BY DEF Entries
    <3> QED
      BY <1>3, <3>1 DEF Good, Distinct, Entries
  <2>2. ASSUME NEW f \in Entries(b), f.key # b[hole].key PROVE f \in Entries(p)
    <3>1. PICK i \in Occupied(b) : f = b[i]
      BY DEF Entries
    <3>2. i \in Occupied(p) /\ p[i] = f
      BY <1>3, <2>2, <3>1
    <3> QED
      BY <3>2 DEF Entries
  <2> QED
    BY <2>1, <2>2
<1>7. Mended(p, p, hole, c, 0)
  BY <1>2, <1>4, <1>5 DEF Mended, Typed
<1> QED
  BY <1>6, <1>7 DEF p

\* Where the next bucket behind is unoccupied, nothing is left to mend.
LEMMA MendedStops ==
  ASSUME TableAssumption, hash \in [Key -> HashCode],
         NEW c \in Nat \ {0}, NEW g, NEW b, NEW hole \in 0 .. c - 1, NEW n \in 1 .. c - 1,
         Mended(g, b, hole, c, n - 1), NEW y \in 0 .. c - 1, Behind(y, hole, c) = n, g[y] = Empty
  PROVE  Reached(g, c)
<1> SUFFICES ASSUME NEW i \in Occupied(g), NEW x \in 0 .. c - 1, OnWay(Home(g[i].key, c), i, x), g[x] = Empty
             PROVE  FALSE
  BY DEF Reached
<1> DEFINE h == Home(g[i].key, c)
<1>1. i \in 0 .. c - 1 /\ g[i] # Empty /\ g[i] \in Entry
  BY DEF Mended, Typed, Occupied
<1>2. h \in 0 .. c - 1
  BY <1>1, HomeIs DEF Entry
<1>3. Behind(x, hole, c) <= n - 1 /\ n - 1 < Behind(i, hole, c)
  BY DEF Mended
<1>4. ~OnWay(h, i, y)
  <2> SUFFICES ASSUME OnWay(h, i, y) PROVE FALSE
    OBVIOUS
  <2>1. Behind(y, hole, c) <= n - 1
    BY DEF Mended
  <2> QED
    BY <2>1
<1> HIDE DEF h
<1>5. OnWay(h, i, x) /\ i # y
  BY <1>1 DEF h
<1> QED
  BY <1>1, <1>2, <1>3, <1>4, <1>5 DEF Behind, OnWay

\* With the buckets b mended up to n, the entry of the next bucket y behind is taken out; the search
\* for it ends at s now.  A bucket q is unoccupied, no less far behind.
Taken(g, b, hole, c, n, y, q, s) ==
  /\ c \in Nat \ {0} /\ hole \in 0 .. c - 1 /\ n \in 1 .. c - 1 /\ Mended(g, b, hole, c, n - 1)
  /\ y \in 0 .. c - 1 /\ Behind(y, hole, c) = n /\ g[y] # Empty
  /\ q \in 0 .. c - 1 /\ b[q] = Empty /\ n <= Behind(q, hole, c)
  /\ EndsAt(Put(g, y, Empty), c, g[y].key, s)

\* It is put where it was, or in a bucket before.
LEMMA MendedMoves ==
  ASSUME TableAssumption, hash \in [Key -> HashCode],
         NEW g, NEW b, NEW hole, NEW c, NEW n, NEW y, NEW q, NEW s, Taken(g, b, hole, c, n, y, q, s)
  PROVE  /\ Put(g, y, Empty)[s] = Empty
         /\ Mended(Put(Put(g, y, Empty), s, g[y]), b, hole, c, n)
<1>0. /\ c \in Nat \ {0} /\ hole \in 0 .. c - 1 /\ n \in 1 .. c - 1 /\ Mended(g, b, hole, c, n - 1)
      /\ y \in 0 .. c - 1 /\ Behind(y, hole, c) = n /\ g[y] # Empty
      /\ q \in 0 .. c - 1 /\ b[q] = Empty /\ n <= Behind(q, hole, c)
      /\ EndsAt(Put(g, y, Empty), c, g[y].key, s)
  BY DEF Taken
<1> DEFINE e  == g[y]
           h  == Home(e.key, c)
           g1 == Put(g, y, Empty)
           g2 == Put(g1, s, e)
<1>1. /\ g \in [0 .. c - 1 -> Entry \cup {Empty}] /\ Occupied(g) \subseteq 0 .. c - 1 /\ e \in Entry
      /\ Empty \notin Entry /\ s \in 0 .. c - 1 /\ y \in Occupied(g)
  BY <1>0 DEF Mended, Typed, Occupied, EndsAt, TableAssumption, Entry
<1>2. /\ g1 \in [0 .. c - 1 -> Entry \cup {Empty}]
      /\ \A x \in 0 .. c - 1 : g1[x] = IF x = y THEN Empty ELSE g[x]
  BY <1>0, <1>1 DEF Put
<1>3. /\ \A x \in 0 .. c - 1 : OnWay(h, s, x) => g1[x] # Empty
      /\ g1[s] = Empty \/ g1[s].key = e.key
  BY <1>0 DEF EndsAt
<1> HIDE DEF g1
<1>4. /\ g2 \in [0 .. c - 1 -> Entry \cup {Empty}]
      /\ \A x \in 0 .. c - 1 : g2[x] = IF x = s THEN e ELSE g1[x]
  BY <1>0, <1>1, <1>2 DEF Put
<1> HIDE DEF g2, e
<1>5. g1[s] = Empty
  <2> SUFFICES ASSUME g1[s] # Empty PROVE FALSE
    OBVIOUS
  <2>1. s \in Occupied(g) /\ g[s].key = e.key /\ s # y
    BY <1>0, <1>1, <1>2, <1>3 DEF Occupied
  <2>2. g[s].key = g[y].key
    BY <1>0, <2>1 DEF e
  <2> QED
    BY <1>0, <1>1, <2>1, <2>2 DEF Mended, Distinct
<1>6. h \in 0 .. c - 1
  BY <1>0, <1>1, HomeIs DEF Entry
<1>7. s = y \/ (Behind(s, hole, c) <= n - 1 /\ g[s] = Empty)
  <2> SUFFICES ASSUME s # y PROVE Behind(s, hole, c) <= n - 1 /\ g[s] = Empty
    OBVIOUS
  <2>1. g[s] = Empty
    BY <1>0, <1>1, <1>2, <1>5
  <2>2. ~OnWay(h, s, y)
    BY <1>0, <1>2, <1>3
  <2>3. OnWay(h, y, s)
    BY <1>0, <1>1, <1>6, <2>2 DEF OnWay
  <2> QED
    BY <1>0, <1>1, <2>1, <2>3 DEF Mended, h, e
<1>8. /\ Occupied(g2) = (Occupied(g) \ {y}) \cup {s}
      /\ \A i \in Occupied(g2) : i # s => i \in Occupied(g) /\ i # y /\ g2[i] = g[i]
      /\ g2[s] = e
  BY <1>0, <1>1, <1>2, <1>4 DEF Occupied
<1>9. Typed(g2, c)
  BY <1>0, <1>4 DEF Typed
<1>10. Distinct(g2)
  <2> SUFFICES ASSUME NEW i \in Occupied(g2), NEW j \in Occupied(g2), g2[i].key = g2[j].key PROVE i = j
    BY <1>0 DEF Distinct
  <2>1. CASE i # s /\ j # s
    BY <1>0, <1>8, <2>1 DEF Mended, Distinct
  <2>2. ASSUME NEW x \in Occupied(g2), x # s PROVE g2[x].key # e.key
    BY <1>0, <1>1, <1>8, <2>2 DEF Mended, Distinct, e
  <2> QED
    BY <1>0, <1>8, <2>1, <2>2
<1>11. Entries(g2) = Entries(g)
  <2>1. ASSUME NEW f \in Entries(g2) PROVE f \in Entries(g)
    <3>1. PICK i \in Occupied(g2) : f = g2[i]
      BY <1>0 DEF Entries
    <3>2. i = s => f = g[y]
      BY <1>0, <1>8, <3>1 DEF e
    <3> QED
      BY <1>0, <1>1, <1>8, <3>1, <3>2 DEF Entries
  <2>2. ASSUME NEW f \in Entries(g) PROVE f \in Entries(g2)
    <3>1. PICK i \in Occupied(g) : f = g[i]
      BY <1>0 DEF Entries
    <3>2. CASE i = y
      <4>1. f = g2[s] /\ s \in Occupied(g2)
        BY <1>0, <1>8, <3>1, <3>2 DEF e
      <4> QED
        BY <1>0, <4>1 DEF Entries
    <3>3. CASE i # y
      <4>1. i # s
        <5>1. g[i] # Empty
          BY <1>0 DEF Occupied
        <5> QED
          BY <1>0, <1>7, <3>3, <5>1
      <4>2. i \in Occupied(g2) /\ g2[i] = f
        BY <1>0, <1>8, <3>1, <3>3, <4>1
      <4> QED
        BY <1>0, <4>2 DEF Entries
    <3> QED
      BY <1>0, <3>2, <3>3
  <2> QED
    BY <1>0, <2>1, <2>2
<1>12. ASSUME NEW x \in 0 .. c - 1, Behind(x, hole, c) > n PROVE g2[x] = b[x]
  <2>1. x # y /\ x # s
    BY <1>0, <1>7, <1>12 DEF Behind
  <2>2. Behind(x, hole, c) > n - 1
    BY <1>0, <1>12 DEF Behind
  <2> QED
    BY <1>0, <1>2, <1>4, <2>1, <2>2 DEF Mended
<1>13. ASSUME NEW i \in Occupied(g2), NEW x \in 0 .. c - 1, OnWay(Home(g2[i].key, c), i, x), g2[x] = Empty
       PROVE  Behind(x, hole, c) <= n /\ n < Behind(i, hole, c)
  <2>1. x # s /\ g1[x] = Empty
    BY <1>0, <1>1, <1>4, <1>13
  <2>2. i # s
    <3> SUFFICES ASSUME i = s PROVE FALSE
      OBVIOUS
    <3>1. OnWay(h, s, x)
      BY <1>0, <1>8, <1>13 DEF h
    <3> QED
      BY <1>0, <1>3, <2>1, <3>1
  <2>3. i \in Occupied(g) /\ i # y /\ g2[i] = g[i] /\ i \in 0 .. c - 1
    BY <1>0, <1>1, <1>8, <2>2
  <2> DEFINE k == Home(g[i].key, c)
  <2>4. k \in 0 .. c - 1
    <3>1. g[i] \in Entry
      BY <1>0, <1>1, <2>3 DEF Occupied
    <3> QED
      BY <1>0, <3>1, HomeIs DEF Entry
  <2>5. OnWay(k, i, x)
    BY <1>0, <1>13, <2>3
  <2>6. \A z \in 0 .. c - 1 : OnWay(k, i, z) /\ g[z] = Empty => Behind(z, hole, c) <= n - 1 /\ n - 1 < Behind(i, hole, c)
    BY <1>0, <2>3 DEF Mended
  <2> HIDE DEF k
  <2>7. CASE g[x] = Empty
    BY <1>0, <2>3, <2>5, <2>6, <2>7 DEF Behind
  <2>8. CASE g[x] # Empty
    <3>1. x = y
      BY <1>0, <1>2, <2>1, <2>8
    <3>2. g[q] = Empty
      <4>1. Behind(q, hole, c) > n - 1
        BY <1>0 DEF Behind
      <4> QED
        BY <1>0, <4>1 DEF Mended
    <3>3. q # y /\ ~(Behind(q, hole, c) <= n - 1)
      BY <1>0, <3>2 DEF Behind
    <3>4. ~OnWay(k, i, q)
      BY <1>0, <2>6, <3>2, <3>3
    <3>5. n < Behind(i, hole, c)
      BY <1>0, <2>3, <2>4, <2>5, <3>1, <3>3, <3>4 DEF OnWay, Behind
    <3> QED
      BY <1>0, <3>1, <3>5
  <2> QED
    BY <1>0, <2>7, <2>8
<1>14. Mended(g2, b, hole, c, n)
  BY <1>0, <1>9, <1>10, <1>11, <1>12, <1>13 DEF Mended
<1> QED
  BY <1>0, <1>5, <1>14 DEF g1, g2, e

LEMMA NotGrown ==
  ASSUME NEW c \in Nat \ {0}, NEW b, DOMAIN b = 0 .. c - 1, NEW n, Room(n + 1, c)
  PROVE  Grown(b, n) = b
<1>1. Capacity(b) = c
  BY CapacityIs
<1>2. b # Unoccupied(0)
  <2>1. 0 \in DOMAIN b
    OBVIOUS
  <2>2. DOMAIN Unoccupied(0) = {}
    BY DEF Unoccupied
  <2> QED
    BY <2>1, <2>2
<1>3. (n + 1) * 100 < Capacity(b) * LoadPercent
  BY <1>1 DEF Room
<1> QED
  BY <1>2, <1>3 DEF Grown

\* One round of Rehashed, which comes to bucket y.
Round(r, y) ==
  IF ~r.open \/ r.t.buckets[y] = Empty THEN [r EXCEPT !.open = FALSE]
  ELSE [r EXCEPT !.t = Assigned(Vacated(r.t, y), r.t.buckets[y])]

Rs(c) == [open : BOOLEAN, t : [buckets : [0 .. c - 1 -> Entry \cup {Empty}], size : Int]]

\* What Rehashed has made of the buckets b after n rounds: m entries, mended that far, and entirely
\* once it has stopped.  It stops at bucket q at the latest.
Closing(r, b, m, hole, c, q, n) ==
  /\ r \in Rs(c) /\ r.t.size = m /\ Mended(r.t.buckets, b, hole, c, n)
  /\ r.open => n < Behind(q, hole, c)
  /\ ~r.open => Reached(r.t.buckets, c)

LEMMA RoundIs ==
  ASSUME TableAssumption, hash \in [Key -> HashCode],
         NEW c \in Nat \ {0}, NEW r, NEW b, NEW m \in Int, Room(m, c), NEW hole \in 0 .. c - 1,
         NEW n \in 1 .. c, NEW q \in 0 .. c - 1, b[q] = Empty,
         Closing(r, b, m, hole, c, q, n - 1),
         NEW y, n < c => y \in 0 .. c - 1 /\ Behind(y, hole, c) = n
  PROVE  Closing(Round(r, y), b, m, hole, c, q, n)
<1> DEFINE g  == r.t.buckets
           g1 == Put(g, y, Empty)
           e  == g[y]
           s  == Slot(g1, e.key)
<1>1. /\ r.open \in BOOLEAN /\ g \in [0 .. c - 1 -> Entry \cup {Empty}] /\ r.t.size = m
      /\ r = [open |-> r.open, t |-> r.t] /\ r.t = [buckets |-> g, size |-> m]
      /\ Mended(g, b, hole, c, n - 1)
  BY DEF Closing, Rs
<1>2. \A x \in 0 .. c - 1 : Behind(x, hole, c) \in 0 .. c - 1
  BY DEF Behind
<1>3. n - 1 < Behind(q, hole, c) => n \in 1 .. c - 1 /\ n <= Behind(q, hole, c)
  <2>1. Behind(q, hole, c) \in 0 .. c - 1
    BY <1>2
  <2> QED
    BY <2>1
<1>4. ASSUME Reached(g, c) PROVE Mended(g, b, hole, c, n)
  <2>1. \A i \in Occupied(g), x \in 0 .. c - 1 : OnWay(Home(g[i].key, c), i, x) => g[x] # Empty
    BY <1>4 DEF Reached
  <2>2. \A x \in 0 .. c - 1 : Behind(x, hole, c) > n => Behind(x, hole, c) > n - 1
    BY <1>2
  <2> QED
    BY <1>1, <2>1, <2>2 DEF Mended
<1> DEFINE r1 == [r EXCEPT !.open = FALSE]
<1>5. r1 \in Rs(c) /\ r1.t = r.t /\ r1.open = FALSE
  BY <1>1 DEF Rs
<1>6. CASE ~r.open
  <2>1. Round(r, y) = r1
    BY <1>6 DEF Round
  <2> HIDE DEF r1, g
  <2>2. Reached(g, c) /\ r1.t.buckets = g /\ r1.t.size = m
    BY <1>1, <1>5, <1>6 DEF Closing, g
  <2>3. Mended(r1.t.buckets, b, hole, c, n)
    BY <1>4, <2>2
  <2> QED
    BY <1>5, <2>1, <2>2, <2>3 DEF Closing
<1>7. CASE r.open
  <2>1. n \in 1 .. c - 1 /\ n <= Behind(q, hole, c)
    BY <1>3, <1>7 DEF Closing
  <2>2. y \in 0 .. c - 1 /\ Behind(y, hole, c) = n
    BY <2>1
  <2>3. CASE g[y] = Empty
    <3>1. Round(r, y) = r1
      BY <2>3 DEF Round
    <3> HIDE DEF r1, g
    <3>2. Reached(g, c)
      BY <1>1, <2>1, <2>2, <2>3, MendedStops
    <3>3. r1.t.buckets = g /\ r1.t.size = m
      BY <1>1, <1>5 DEF g
    <3>4. Mended(r1.t.buckets, b, hole, c, n)
      BY <1>4, <3>2, <3>3
    <3> QED
      BY <1>5, <3>1, <3>2, <3>3, <3>4 DEF Closing
  <2>4. CASE g[y] # Empty
    <3>1. e \in Entry /\ e.key \in Key
      BY <1>1, <2>2, <2>4 DEF Entry
    <3>2. g1 \in [0 .. c - 1 -> Entry \cup {Empty}] /\ DOMAIN g1 = 0 .. c - 1 /\ g1[y] = Empty
      BY <1>1, <2>2 DEF Put
    <3> HIDE DEF e, g1
    <3>3. EndsAt(g1, c, e.key, s) /\ s \in 0 .. c - 1
      BY <2>2, <3>1, <3>2, SlotEnds DEF EndsAt
    <3>4. s = Slot(g1, e.key)
      OBVIOUS
    <3> HIDE DEF s, g
    <3>5. g1[s] = Empty /\ Mended(Put(g1, s, e), b, hole, c, n)
      <4>1. EndsAt(Put(g, y, Empty), c, g[y].key, s)
        BY <3>3 DEF g1, e
      <4>2. Taken(g, b, hole, c, n, y, q, s)
        BY <1>1, <2>1, <2>2, <2>4, <4>1 DEF Taken
      <4>3. Put(g, y, Empty)[s] = Empty /\ Mended(Put(Put(g, y, Empty), s, g[y]), b, hole, c, n)
        BY <4>2, MendedMoves
      <4> QED
        BY <4>3 DEF g1, e
    <3> DEFINE g2 == Put(g1, s, e)
               t2 == [buckets |-> g2, size |-> m]
               v  == Vacated(r.t, y)
    <3>6. v.buckets = g1 /\ v.size = m - 1
      BY <1>1 DEF Vacated, Put, g1
    <3>7. Grown(g1, m - 1) = g1
      <4>1. Room(m - 1 + 1, c)
        <5>1. m - 1 + 1 = m
          OBVIOUS
        <5> QED
          BY <5>1
      <4> QED
        BY <3>2, <4>1, NotGrown
    <3> HIDE DEF v
    <3>8. Assigned(v, e) = t2
      <4>1. Grown(v.buckets, v.size) = g1
        BY <3>6, <3>7
      <4>2. Assigned(v, e) = [buckets |-> [g1 EXCEPT ![s] = e], size |-> m - 1 + 1]
        BY <3>4, <3>5, <3>6, <4>1 DEF Assigned
      <4>3. m - 1 + 1 = m
        OBVIOUS
      <4> QED
        BY <4>2, <4>3 DEF Put
    <3>9. Round(r, y) = [r EXCEPT !.t = t2]
      BY <1>7, <2>4, <3>8 DEF Round, v, e, g
    <3>10. g2 \in [0 .. c - 1 -> Entry \cup {Empty}]
      BY <3>5 DEF Mended, Typed
    <3>11. Round(r, y) = [open |-> r.open, t |-> t2]
      BY <1>1, <3>9
    <3> DEFINE r2 == [open |-> r.open, t |-> t2]
    <3>12. r2.open /\ r2.t.buckets = g2 /\ r2.t.size = m /\ r2 \in Rs(c)
      <4> HIDE DEF g2
      <4> QED
        BY <1>1, <1>7, <3>10 DEF Rs
    <3>13. n < Behind(q, hole, c)
      <4> SUFFICES ASSUME ~(n < Behind(q, hole, c)) PROVE FALSE
        OBVIOUS
      <4>1. Behind(q, hole, c) = n /\ Behind(q, hole, c) > n - 1
        BY <1>2, <2>1
      <4>2. q = y
        BY <2>2, <4>1 DEF Behind
      <4>3. g[q] = b[q]
        BY <1>1, <4>1 DEF Mended
      <4> QED
        BY <2>4, <4>2, <4>3
    <3> HIDE DEF r2, g2
    <3>14. Closing(r2, b, m, hole, c, q, n)
      BY <3>5, <3>12, <3>13 DEF Closing, g2
    <3> QED
      BY <3>11, <3>14 DEF r2
  <2> QED
    BY <2>3, <2>4
<1> QED
  BY <1>1, <1>6, <1>7

\* Bucket n behind the hole is where the scan comes to.
LEMMA ScanIs ==
  ASSUME NEW c \in Nat \ {0}, NEW hole \in 0 .. c - 1, NEW n \in 0 .. c - 1
  PROVE  (hole + n) % c \in 0 .. c - 1 /\ Behind((hole + n) % c, hole, c) = n
<1>1. hole \in Nat /\ hole % c = hole
  <2>1. 0 \in 0 .. c - 1 /\ hole \in Nat
    OBVIOUS
  <2>2. (0 % c) \in 0 .. c - 1 /\ (0 + hole) % c = IF (0 % c) + hole < c THEN (0 % c) + hole ELSE (0 % c) + hole - c
    BY <2>1, Rotated
  <2>3. 0 % c = 0
    OBVIOUS
  <2> QED
    BY <2>1, <2>2, <2>3
<1>2. (hole + n) % c = IF (hole % c) + n < c THEN (hole % c) + n ELSE (hole % c) + n - c
  BY <1>1, Rotated
<1>3. (hole + n) % c = IF hole + n < c THEN hole + n ELSE hole + n - c
  BY <1>1, <1>2
<1> DEFINE p == (hole + n) % c
<1>4. p = IF hole + n < c THEN hole + n ELSE hole + n - c
  BY <1>3
<1> HIDE DEF p
<1>5. p \in 0 .. c - 1 /\ Behind(p, hole, c) = n
  BY <1>1, <1>4 DEF Behind
<1> QED
  BY <1>5 DEF p

\* Rehashed mends all of the table.
LEMMA ClosedIs ==
  ASSUME TableAssumption, hash \in [Key -> HashCode],
         NEW c \in Nat \ {0}, NEW b, NEW m \in Int, Room(m, c), NEW hole \in 0 .. c - 1,
         NEW q \in 0 .. c - 1, b[q] = Empty, q # hole, Mended(b, b, hole, c, 0),
         NEW t, t = [buckets |-> b, size |-> m]
  PROVE  LET r == Rehashed(t, hole) IN
         Good(r.buckets, c) /\ Entries(r.buckets) = Entries(b) /\ r.size = m
<1> DEFINE scan(n) == (hole + n) % Capacity(t.buckets)
           Loop(f) == f = [n \in 0 .. Capacity(t.buckets) |->
                             IF n = 0 THEN [open |-> TRUE, t |-> t] ELSE Round(f[n - 1], scan(n))]
           closed  == CHOOSE f : Loop(f)
           start   == [open |-> TRUE, t |-> t]
           inv     == [n \in 0 .. c |-> {r \in Rs(c) : Closing(r, b, m, hole, c, q, n)}]
           step    == [p \in (1 .. c) \X Rs(c) |-> Round(p[2], scan(p[1]))]
<1>1. t.buckets = b /\ t.size = m /\ DOMAIN b = 0 .. c - 1 /\ Typed(b, c)
  BY DEF Mended, Typed
<1>2. Capacity(t.buckets) = c
  BY <1>1, CapacityIs
<1>3. Rehashed(t, hole) = closed[c].t
  <2>1. Rehashed(t, hole) = closed[Capacity(t.buckets)].t
    BY DEF Rehashed, Round
  <2> HIDE DEF closed
  <2> QED
    BY <1>2, <2>1
<1>4. \A n \in 1 .. c : n < c => scan(n) \in 0 .. c - 1 /\ Behind(scan(n), hole, c) = n
  <2> SUFFICES ASSUME NEW n \in 1 .. c, n < c
               PROVE  scan(n) \in 0 .. c - 1 /\ Behind(scan(n), hole, c) = n
    OBVIOUS
  <2>1. n \in 0 .. c - 1
    OBVIOUS
  <2> QED
    BY <1>2, <2>1, ScanIs
<1> HIDE DEF scan
<1>5. start \in inv[0]
  <2>1. start \in Rs(c)
    BY <1>1 DEF Rs, Typed
  <2>2. 0 < Behind(q, hole, c)
    BY DEF Behind
  <2>3. Closing(start, b, m, hole, c, q, 0)
    <3>1. start.open /\ start.t = t
      OBVIOUS
    <3> HIDE DEF start
    <3> QED
      BY <1>1, <2>1, <2>2, <3>1 DEF Closing
  <2> HIDE DEF start
  <2> QED
    BY <2>1, <2>3
<1>6. ASSUME NEW n \in 1 .. c, NEW r \in inv[n - 1] PROVE step[<<n, r>>] \in inv[n]
  <2>1. n - 1 \in 0 .. c /\ n \in 0 .. c
    OBVIOUS
  <2>2. r \in Rs(c) /\ Closing(r, b, m, hole, c, q, n - 1)
    BY <2>1
  <2> DEFINE y == scan(n)
  <2>3. n < c => y \in 0 .. c - 1 /\ Behind(y, hole, c) = n
    BY <1>4
  <2>4. step[<<n, r>>] = Round(r, y)
    BY <2>2
  <2> HIDE DEF y, step
  <2>5. Closing(Round(r, y), b, m, hole, c, q, n)
    BY <2>2, <2>3, RoundIs
  <2>6. Round(r, y) \in Rs(c)
    BY <2>5 DEF Closing
  <2> QED
    BY <2>1, <2>4, <2>5, <2>6
<1>7. PICK f : Rounds(f, c, start, step, inv)
  <2>1. c \in Nat
    OBVIOUS
  <2> HIDE DEF inv, step, start
  <2>2. \A i \in 1 .. c : \A x \in inv[i - 1] : step[<<i, x>>] \in inv[i]
    BY <1>6
  <2> QED
    BY <1>5, <2>1, <2>2, IteratesExist
<1>8. \A i \in 0 .. c : f[i] \in Rs(c) /\ Closing(f[i], b, m, hole, c, q, i)
  BY <1>7 DEF Rounds
<1>9. \A i \in 1 .. c : f[i] = Round(f[i - 1], scan(i))
  <2> SUFFICES ASSUME NEW i \in 1 .. c PROVE f[i] = Round(f[i - 1], scan(i))
    OBVIOUS
  <2>1. <<i, f[i - 1]>> \in (1 .. c) \X Rs(c)
    BY <1>8
  <2>2. f[i] = step[<<i, f[i - 1]>>]
    BY <1>7 DEF Rounds
  <2> QED
    BY <2>1, <2>2
<1>10. Loop(f)
  <2> DEFINE F(i) == IF i = 0 THEN start ELSE Round(f[i - 1], scan(i))
  <2>1. \A i \in 0 .. c : f[i] = F(i)
    <3>1. \A i \in 0 .. c : i = 0 \/ i \in 1 .. c
      OBVIOUS
    <3> HIDE DEF start
    <3> QED
      BY <1>7, <1>9, <3>1 DEF Rounds
  <2>2. f = [i \in 0 .. c |-> F(i)]
    <3> HIDE DEF F
    <3> QED
      BY <1>7, <2>1 DEF Rounds
  <2> QED
    BY <1>2, <2>2
<1>11. Loop(closed)
  <2> HIDE DEF Loop
  <2> QED
    BY <1>10
<1> HIDE DEF closed
<1>12. closed[0] = start /\ \A i \in 1 .. c : closed[i] = Round(closed[i - 1], scan(i))
  <2> DEFINE F(i) == IF i = 0 THEN start ELSE Round(closed[i - 1], scan(i))
  <2>1. closed = [i \in 0 .. c |-> F(i)]
    BY <1>2, <1>11
  <2>2. \A i \in 0 .. c : closed[i] = F(i)
    <3> HIDE DEF F
    <3> QED
      BY <2>1
  <2> HIDE DEF start
  <2> QED
    BY <2>2
<1> HIDE DEF Loop, start, step, inv
<1>13. \A i \in 0 .. c : f[i] = closed[i]
  <2>1. PICK g : g = closed
    OBVIOUS
  <2>2. \A i \in 1 .. c : f[i - 1] = g[i - 1] => f[i] = g[i]
    BY <1>9, <1>12, <2>1
  <2>3. f[0] = g[0]
    BY <1>7, <1>12, <2>1 DEF Rounds
  <2>4. c \in Nat
    OBVIOUS
  <2>5. \A i \in 0 .. c : f[i] = g[i]
    BY <2>2, <2>3, <2>4, SameIterates, SMTT(60)
  <2> QED
    BY <2>1, <2>5
<1> DEFINE r == closed[c]
<1>14. Closing(r, b, m, hole, c, q, c) /\ r \in Rs(c)
  BY <1>8, <1>13
<1> HIDE DEF r
<1>15. ~r.open
  <2>1. Behind(q, hole, c) < c
    BY DEF Behind
  <2>2. Behind(q, hole, c) \in Int
    BY DEF Behind
  <2> QED
    BY <1>14, <2>1, <2>2 DEF Closing
<1>16. Good(r.t.buckets, c) /\ Entries(r.t.buckets) = Entries(b) /\ r.t.size = m
  BY <1>14, <1>15 DEF Closing, Mended, Good
<1> QED
  BY <1>3, <1>16 DEF r

\* Erasing takes the key's entry away, and only that.
LEMMA ErasedIs ==
  ASSUME TableAssumption, hash \in [Key -> HashCode], NEW c, NEW b, NEW n, Table(b, n, c), NEW key \in Key,
         NEW t, t = [buckets |-> b, size |-> n]
  PROVE  LET r == Removed(t, key) IN
         /\ Table(r.buckets, r.size, c) /\ Entries(r.buckets) = {f \in Entries(b) : f.key # key}
         /\ c = 0 => r = t
<1> DEFINE r == Removed(t, key)
           i == Slot(b, key)
<1>1. /\ c \in Nat /\ Good(b, c) /\ n = Cardinality(Occupied(b)) /\ n \in Nat /\ DOMAIN b = 0 .. c - 1
      /\ t.buckets = b /\ t.size = n /\ IsFiniteSet(Occupied(b))
  BY KeysCount DEF Table, Good, Typed
<1>2. Entries(b) \subseteq Entry /\ Keys(b) = {e.key : e \in Entries(b)}
  BY <1>1, Members
<1>3. ASSUME r = t, key \notin Keys(b)
      PROVE  Table(r.buckets, r.size, c) /\ Entries(r.buckets) = {f \in Entries(b) : f.key # key}
  BY <1>1, <1>2, <1>3
<1>4. CASE b = Unoccupied(0)
  <2>1. r = t
    BY <1>1, <1>4 DEF Removed
  <2>2. Keys(b) = {}
    BY <1>4 DEF Keys, Occupied, Unoccupied
  <2> QED
    BY <1>3, <2>1, <2>2
<1>5. CASE b # Unoccupied(0)
  <2>1. c # 0
    <3> SUFFICES ASSUME c = 0 PROVE FALSE
      OBVIOUS
    <3>1. b = [x \in 0 .. c - 1 |-> b[x]] /\ Unoccupied(0) = [x \in 0 .. 0 - 1 |-> Empty] /\ 0 .. 0 - 1 = {}
      BY <1>1 DEF Unoccupied, Good, Typed
    <3> QED
      BY <1>5, <3>1
  <2>2. c \in Nat \ {0} /\ c >= MinCapacity /\ Room(n, c) /\ n < c
    <3>1. c \in Nat \ {0} /\ c >= MinCapacity /\ Room(n, c)
      BY <1>1, <2>1 DEF Table
    <3>2. c * LoadPercent \in Nat /\ c * LoadPercent <= c * 100
      BY <3>1, LoadGrows
    <3>3. n * 100 < c * LoadPercent
      BY <3>1 DEF Room
    <3>4. n < c
      BY <1>1, <3>1, <3>2, <3>3
    <3> QED
      BY <3>1, <3>4
  <2>3. PICK q \in 0 .. c - 1 : b[q] = Empty
    BY <1>1, <2>2, SomeEmpty
  <2>4. EndsAt(b, c, key, i)
    BY <1>1, <2>2, <2>3, SlotEnds
  <2>5. i \in 0 .. c - 1 /\ (b[i] = Empty \/ b[i].key = key)
    BY <2>4 DEF EndsAt
  <2>6. CASE b[i] = Empty
    <3>1. r = t
      BY <1>1, <1>5, <2>6 DEF Removed
    <3>2. key \notin Keys(b)
      <4> SUFFICES ASSUME key \in Keys(b) PROVE FALSE
        OBVIOUS
      <4>1. PICK j \in Occupied(b) : b[j].key = key
        BY DEF Keys
      <4>2. i = j
        BY <1>1, <4>1, SlotFinds
      <4> QED
        BY <2>6, <4>2 DEF Occupied
    <3> QED
      BY <1>3, <2>1, <3>1, <3>2
  <2>7. CASE b[i] # Empty
    <3> DEFINE v == Vacated(t, i)
               p == Put(b, i, Empty)
               m == n - 1
    <3>1. v = [buckets |-> p, size |-> m]
      BY <1>1 DEF Vacated, Put
    <3>2. r = Rehashed(v, i)
      BY <1>1, <1>5, <2>7 DEF Removed
    <3>3. i \in Occupied(b) /\ b[i].key = key
      BY <1>1, <2>5, <2>7 DEF Occupied
    <3>4. Mended(p, p, i, c, 0) /\ Entries(p) = {f \in Entries(b) : f.key # key}
      BY <1>1, <3>3, MendedFirst
    <3>5. p[q] = Empty /\ q # i
      BY <1>1, <2>3, <2>7 DEF Put
    <3>6. m \in Int /\ Room(m, c)
      <4>1. c * LoadPercent \in Nat
        BY <2>2, LoadGrows
      <4> QED
        BY <1>1, <2>2, <4>1 DEF Room
    <3> HIDE DEF p, r, v, i
    <3>7. Good(r.buckets, c) /\ Entries(r.buckets) = Entries(p) /\ r.size = m
      <4> HIDE DEF m
      <4>1. /\ Good(Rehashed(v, i).buckets, c) /\ Entries(Rehashed(v, i).buckets) = Entries(p)
            /\ Rehashed(v, i).size = m
        BY <2>2, <2>3, <2>5, <3>1, <3>4, <3>5, <3>6, ClosedIs
      <4> QED
        BY <3>2, <4>1
    <3>8. Cardinality(Occupied(r.buckets)) = m
      <4>1. Keys(r.buckets) = Keys(b) \ {key}
        <5>1. Keys(r.buckets) = {e.key : e \in Entries(r.buckets)}
          BY <3>7, Members
        <5> QED
          BY <1>2, <3>4, <3>7, <5>1
      <4>2. key \in Keys(b)
        BY <3>3 DEF Keys
      <4>3. Cardinality(Keys(b)) = n /\ IsFiniteSet(Keys(b))
        BY <1>1, KeysCount
      <4>4. Cardinality(Keys(b) \ {key}) = n - 1
        BY <4>2, <4>3, FS_RemoveElement
      <4>5. Cardinality(Keys(r.buckets)) = Cardinality(Occupied(r.buckets))
        BY <3>7, KeysCount
      <4> QED
        BY <4>1, <4>4, <4>5
    <3>9. Table(r.buckets, r.size, c)
      BY <2>2, <3>6, <3>7, <3>8 DEF Table
    <3> QED
      BY <2>1, <3>4, <3>7, <3>9 DEF r
  <2> QED
    BY <2>6, <2>7
<1>6. c = 0 => r = t
  <2> SUFFICES ASSUME c = 0 PROVE r = t
    OBVIOUS
  <2>1. b = [x \in 0 .. c - 1 |-> b[x]] /\ Unoccupied(0) = [x \in 0 .. 0 - 1 |-> Empty] /\ 0 .. 0 - 1 = {}
    BY <1>1 DEF Unoccupied, Good, Typed
  <2>2. b = Unoccupied(0)
    BY <2>1
  <2> QED
    BY <1>1, <2>2 DEF Removed
<1> QED
  BY <1>4, <1>5, <1>6
-----------------------------------------------------------------------------
(* The operations.                                                          *)

\* find_ptr in these buckets.
Lookup(b, k) == IF b = Unoccupied(0) THEN Empty
                ELSE LET e == b[Slot(b, k)] IN IF e = Empty THEN Empty ELSE e.val

\* What is found of a key is what its entry says.
LEMMA LookupIs ==
  ASSUME TableAssumption, hash \in [Key -> HashCode], NEW c, NEW b, NEW n, Table(b, n, c), NEW k \in Key
  PROVE  /\ \A e \in Entries(b) : e.key = k => Lookup(b, k) = e.val /\ e.val # Empty
         /\ k \notin Keys(b) => Lookup(b, k) = Empty
         /\ k \in Keys(b) <=> Lookup(b, k) # Empty
<1>1. /\ c \in Nat /\ Good(b, c) /\ n = Cardinality(Occupied(b)) /\ n \in Nat /\ DOMAIN b = 0 .. c - 1
  BY KeysCount DEF Table, Good, Typed
<1>2. /\ Entries(b) \subseteq Entry /\ Keys(b) = {e.key : e \in Entries(b)}
      /\ \A e \in Entry : e.val # Empty
  BY <1>1, Members DEF TableAssumption, Entry
<1>3. ASSUME NEW e \in Entries(b), e.key = k PROVE Lookup(b, k) = e.val
  <2>1. PICK i \in Occupied(b) : e = b[i]
    BY DEF Entries
  <2>2. Slot(b, k) = i
    BY <1>1, <1>3, <2>1, SlotFinds
  <2>3. b # Unoccupied(0)
    <3>1. DOMAIN Unoccupied(0) = {} /\ i \in DOMAIN b
      BY DEF Unoccupied, Occupied
    <3> QED
      BY <3>1
  <2> QED
    BY <2>1, <2>2, <2>3 DEF Lookup, Occupied
<1>4. ASSUME k \notin Keys(b) PROVE Lookup(b, k) = Empty
  <2>1. CASE b = Unoccupied(0)
    BY <2>1 DEF Lookup
  <2>2. CASE b # Unoccupied(0)
    <3>1. c # 0
      <4> SUFFICES ASSUME c = 0 PROVE FALSE
        OBVIOUS
      <4>1. b = [x \in 0 .. c - 1 |-> b[x]] /\ Unoccupied(0) = [x \in 0 .. 0 - 1 |-> Empty] /\ 0 .. 0 - 1 = {}
        BY <1>1 DEF Unoccupied, Good, Typed
      <4> QED
        BY <2>2, <4>1
    <3>2. n < c
      BY <1>1, <3>1, LoadGrows DEF Table, Room
    <3>3. PICK j \in 0 .. c - 1 : b[j] = Empty
      BY <1>1, <3>2, SomeEmpty
    <3>4. b[Slot(b, k)] = Empty
      BY <1>1, <1>4, <3>3, SlotMisses
    <3> QED
      BY <3>4 DEF Lookup
  <2> QED
    BY <2>1, <2>2
<1>5. k \in Keys(b) => \E e \in Entries(b) : e.key = k
  BY <1>2
<1> QED
  BY <1>2, <1>3, <1>4, <1>5

\* After a step, that of an empty table that stays as it is aside, there are buckets.
Stepped(c) == c \in Nat /\ Table(buckets', size', c) /\ hash' = hash /\ (c = 0 => table' = table)

LEMMA InsertStep ==
  ASSUME TableAssumption, TInv, NEW key \in Key, NEW val \in Value, InsertOrAssign(key, val)
  PROVE  /\ \E c \in Nat : Stepped(c)
         /\ Entries(buckets') = With(Entries(buckets), [key |-> key, val |-> val])
         /\ Keys(buckets') = Keys(buckets) \cup {key}
<1> DEFINE e == [key |-> key, val |-> val]
           a == Assigned(Held, e)
<1>1. PICK c : Table(buckets, size, c)
  BY DEF TInv
<1>2. e \in Entry /\ e.key = key /\ Held.buckets = buckets /\ Held.size = size /\ hash \in [Key -> HashCode]
  BY DEF Entry, Held, TInv
<1>3. buckets' = a.buckets /\ size' = a.size /\ hash' = hash
  BY DEF InsertOrAssign, Becomes
<1> HIDE DEF e
<1>4. /\ \E c2 \in Nat \ {0} : Table(a.buckets, a.size, c2)
      /\ Entries(a.buckets) = With(Entries(buckets), e) /\ Keys(a.buckets) = Keys(buckets) \cup {e.key}
  BY <1>1, <1>2, AssignedIs
<1> HIDE DEF a
<1>5. \E c2 \in Nat : Stepped(c2)
  BY <1>3, <1>4 DEF Stepped
<1> QED
  BY <1>2, <1>3, <1>4, <1>5 DEF e

LEMMA EraseStep ==
  ASSUME TableAssumption, TInv, NEW key \in Key, Erase(key)
  PROVE  /\ \E c \in Nat : Stepped(c)
         /\ Entries(buckets') = {f \in Entries(buckets) : f.key # key}
<1> DEFINE r == Removed(Held, key)
<1>1. PICK c : Table(buckets, size, c) /\ c \in Nat
  BY DEF TInv
<1>2. Held = [buckets |-> buckets, size |-> size] /\ hash \in [Key -> HashCode]
  BY DEF Held, TInv
<1>3. buckets' = r.buckets /\ size' = r.size /\ hash' = hash
  BY DEF Erase, Becomes
<1>4. /\ Table(r.buckets, r.size, c) /\ Entries(r.buckets) = {f \in Entries(buckets) : f.key # key}
      /\ c = 0 => r = Held
  BY <1>1, <1>2, ErasedIs
<1> HIDE DEF r
<1>5. c = 0 => table' = table
  BY <1>2, <1>3, <1>4 DEF table
<1> QED
  BY <1>1, <1>3, <1>4, <1>5 DEF Stepped

LEMMA ClearStep ==
  ASSUME TableAssumption, TInv, Clear
  PROVE  \E c \in Nat : Stepped(c)
<1>1. PICK c : Table(buckets, size, c) /\ c \in Nat
  BY DEF TInv
<1>2. Capacity(buckets) = c /\ DOMAIN buckets = 0 .. c - 1
  BY <1>1, CapacityIs DEF Table, Good, Typed
<1>3. buckets' = Unoccupied(c) /\ size' = 0 /\ hash' = hash
  BY <1>2 DEF Clear, Becomes
<1>4. Good(Unoccupied(c), c) /\ Cardinality(Occupied(Unoccupied(c))) = 0
  BY <1>1, UnoccupiedIs
<1>5. c # 0 => c >= MinCapacity /\ Room(0, c)
  <2> SUFFICES ASSUME c # 0 PROVE c >= MinCapacity /\ Room(0, c)
    OBVIOUS
  <2>1. c >= MinCapacity
    BY <1>1 DEF Table
  <2>2. c * LoadPercent \in Nat /\ 100 < c * LoadPercent
    BY <1>1, <2>1, LoadGrows
  <2> QED
    BY <2>1, <2>2 DEF Room
<1>6. Table(buckets', size', c)
  BY <1>3, <1>4, <1>5 DEF Table
<1>7. c = 0 => table' = table
  <2> SUFFICES ASSUME c = 0 PROVE table' = table
    OBVIOUS
  <2>1. buckets = [x \in 0 .. c - 1 |-> buckets[x]] /\ 0 .. c - 1 = {}
    BY <1>1 DEF Table, Good, Typed
  <2>2. Unoccupied(c) = [x \in 0 .. c - 1 |-> Empty]
    BY DEF Unoccupied
  <2>3. buckets = Unoccupied(c)
    BY <2>1, <2>2
  <2>4. size = 0
    BY <1>1, <1>4, <2>3 DEF Table
  <2> QED
    BY <1>3, <2>3, <2>4 DEF table
<1> QED
  BY <1>1, <1>3, <1>6, <1>7 DEF Stepped

LEMMA NextStep == ASSUME TableAssumption, TInv, TableNext PROVE \E c \in Nat : Stepped(c)
<1>1. CASE \E key \in Key, val \in Value : InsertOrAssign(key, val)
  BY <1>1, InsertStep
<1>2. CASE \E key \in Key : Erase(key)
  BY <1>2, EraseStep
<1>3. CASE Clear
  BY <1>3, ClearStep
<1> QED
  BY <1>1, <1>2, <1>3 DEF TableNext

LEMMA SteppedKeeps == ASSUME TInv, NEW c \in Nat, Stepped(c) PROVE TInv'
<1>1. /\ hash' = hash /\ hash \in [Key -> HashCode] /\ Table(buckets', size', c)
  BY DEF Stepped, TInv
<1>2. Table(buckets, size, c)'
  BY <1>1 DEF Table, Good, Typed, Distinct, Reached, Room, Home, Occupied, OnWay, Entry
<1> QED
  BY <1>1, <1>2 DEF TInv

LEMMA TableInitHolds == ASSUME TableInit PROVE TInv
<1>1. buckets = Unoccupied(0) /\ size = 0 /\ hash \in [Key -> HashCode]
  BY DEF TableInit
<1>2. Good(buckets, 0) /\ Cardinality(Occupied(buckets)) = 0
  BY <1>1, UnoccupiedIs
<1>3. Table(buckets, size, 0)
  BY <1>1, <1>2 DEF Table
<1> QED
  BY <1>1, <1>3 DEF TInv

\* Every entry is on its way from its key's home, with no bucket unoccupied before it; no key is
\* entered twice; the size is how many are; and the load leaves a bucket unoccupied.
THEOREM TableInvariant == ASSUME TableAssumption PROVE TableInit /\ [][TableNext]_table => []TInv
<1>1. TableInit => TInv
  BY TableInitHolds
<1>2. TInv /\ [TableNext]_table => TInv'
  <2> SUFFICES ASSUME TInv, [TableNext]_table PROVE TInv'
    OBVIOUS
  <2>1. CASE TableNext
    BY <2>1, NextStep, SteppedKeeps
  <2>2. CASE UNCHANGED table
    <3>1. PICK c : c \in Nat /\ Table(buckets, size, c)
      BY DEF TInv
    <3>2. hash' = hash /\ buckets' = buckets /\ size' = size
      BY <2>2 DEF table
    <3>3. Table(buckets', size', c)
      BY <3>1, <3>2
    <3>4. Stepped(c)
      BY <2>2, <3>1, <3>2, <3>3 DEF Stepped
    <3> QED
      BY <3>1, <3>4, SteppedKeeps
  <2> QED
    BY <2>1, <2>2
<1> QED
  BY <1>1, <1>2, PTL

\* What is found, before and after a step, in terms of Lookup.
LEMMA FoundIs ==
  ASSUME NEW k \in Key, hash' = hash
  PROVE  Found(k) = Lookup(buckets, k) /\ Found(k)' = Lookup(buckets', k)
<1>1. Found(k) = Lookup(buckets, k)
  BY DEF Found, Lookup
<1>2. Found(k)' = Lookup(buckets', k)
  BY DEF Found, Lookup, Slot, Capacity, Unoccupied
<1> QED
  BY <1>1, <1>2

\* An assignment changes what is found of its key, and of no other.
LEMMA InsertFinds ==
  ASSUME TableAssumption, TInv, NEW key \in Key, NEW val \in Value, InsertOrAssign(key, val), NEW k \in Key
  PROVE  Found(k)' = IF k = key THEN val ELSE Found(k)
<1> DEFINE e == [key |-> key, val |-> val]
<1>1. PICK c : Table(buckets, size, c)
  BY DEF TInv
<1>2. PICK c2 : Stepped(c2)
  BY InsertStep
<1>3. /\ Table(buckets', size', c2) /\ hash' = hash /\ hash \in [Key -> HashCode]
      /\ Entries(buckets') = With(Entries(buckets), e) /\ Keys(buckets') = Keys(buckets) \cup {key}
      /\ e.key = key /\ e.val = val
  BY <1>2, InsertStep DEF Stepped, TInv
<1> HIDE DEF e
<1>4. Found(k) = Lookup(buckets, k) /\ Found(k)' = Lookup(buckets', k)
  BY <1>3, FoundIs
<1>5. /\ \A f \in Entries(buckets) : f.key = k => Lookup(buckets, k) = f.val
      /\ k \notin Keys(buckets) => Lookup(buckets, k) = Empty
  BY <1>1, <1>3, LookupIs
<1>6. /\ \A f \in Entries(buckets') : f.key = k => Lookup(buckets', k) = f.val
      /\ k \notin Keys(buckets') => Lookup(buckets', k) = Empty
  BY <1>3, LookupIs
<1>7. CASE k = key
  <2>1. e \in Entries(buckets')
    BY <1>3 DEF With
  <2> QED
    BY <1>3, <1>4, <1>6, <1>7, <2>1
<1>8. CASE k # key /\ k \in Keys(buckets)
  <2>1. PICK i \in Occupied(buckets) : buckets[i].key = k
    BY <1>8 DEF Keys
  <2>2. buckets[i] \in Entries(buckets)
    BY DEF Entries
  <2>3. buckets[i] \in Entries(buckets')
    BY <1>3, <1>8, <2>1, <2>2 DEF With
  <2> QED
    BY <1>4, <1>5, <1>6, <1>8, <2>1, <2>2, <2>3
<1>9. CASE k # key /\ k \notin Keys(buckets)
  BY <1>3, <1>4, <1>5, <1>6, <1>9
<1> QED
  BY <1>7, <1>8, <1>9

\* Erasing leaves every other key to be found.
LEMMA EraseFinds ==
  ASSUME TableAssumption, TInv, NEW key \in Key, Erase(key), NEW k \in Key
  PROVE  Found(k)' = IF k = key THEN Empty ELSE Found(k)
<1>1. PICK c : Table(buckets, size, c)
  BY DEF TInv
<1>2. PICK c2 : Stepped(c2)
  BY EraseStep
<1>3. /\ Table(buckets', size', c2) /\ hash' = hash /\ hash \in [Key -> HashCode]
      /\ Entries(buckets') = {f \in Entries(buckets) : f.key # key}
  BY <1>2, EraseStep DEF Stepped, TInv
<1>4. Found(k) = Lookup(buckets, k) /\ Found(k)' = Lookup(buckets', k)
  BY <1>3, FoundIs
<1>5. /\ \A f \in Entries(buckets) : f.key = k => Lookup(buckets, k) = f.val
      /\ k \notin Keys(buckets) => Lookup(buckets, k) = Empty
  BY <1>1, <1>3, LookupIs
<1>6. /\ \A f \in Entries(buckets') : f.key = k => Lookup(buckets', k) = f.val
      /\ k \notin Keys(buckets') => Lookup(buckets', k) = Empty
  BY <1>3, LookupIs
<1>7. Keys(buckets) = {f.key : f \in Entries(buckets)} /\ Keys(buckets') = {f.key : f \in Entries(buckets')}
  BY DEF Keys, Entries
<1>8. CASE k = key
  <2>1. k \notin Keys(buckets')
    BY <1>3, <1>7, <1>8
  <2> QED
    BY <1>4, <1>6, <1>8, <2>1
<1>9. CASE k # key /\ k \in Keys(buckets)
  <2>1. PICK f \in Entries(buckets) : f.key = k
    BY <1>7, <1>9
  <2>2. f \in Entries(buckets')
    BY <1>3, <1>9, <2>1
  <2> QED
    BY <1>4, <1>5, <1>6, <1>9, <2>1, <2>2
<1>10. CASE k # key /\ k \notin Keys(buckets)
  <2>1. k \notin Keys(buckets')
    BY <1>3, <1>7, <1>10
  <2> QED
    BY <1>4, <1>5, <1>6, <1>10, <2>1
<1> QED
  BY <1>8, <1>9, <1>10

\* Each key that is found is listed once and counted, and a bucket stays unoccupied.
LEMMA StepCounts ==
  ASSUME TableAssumption, TInv, NEW c, Stepped(c), c # 0
  PROVE  LET found == {k \in Key : Found(k) # Empty} IN
         /\ size' = Cardinality(found)' /\ size' = Cardinality(Listed)'
         /\ {buckets[i].key : i \in Listed}' = found'
         /\ size' < Capacity(buckets)'
<1>1. /\ Table(buckets', size', c) /\ hash' = hash /\ hash \in [Key -> HashCode] /\ c \in Nat
  BY DEF Stepped, TInv
<1>2. /\ Good(buckets', c) /\ size' = Cardinality(Occupied(buckets')) /\ size' \in Nat
      /\ Cardinality(Keys(buckets')) = size' /\ DOMAIN buckets' = 0 .. c - 1 /\ Room(size', c) /\ c >= MinCapacity
  BY <1>1, KeysCount DEF Table, Good, Typed
<1>3. Listed' = Occupied(buckets')
  BY DEF Listed, Occupied
<1>4. {k \in Key : Found(k)' # Empty} = Keys(buckets')
  <2>1. \A k \in Key : k \in Keys(buckets') <=> Lookup(buckets', k) # Empty
    BY <1>1, LookupIs
  <2>2. \A k \in Key : Found(k)' = Lookup(buckets', k)
    BY <1>1, FoundIs
  <2>3. Keys(buckets') \subseteq Key
    BY <1>2, Members
  <2> QED
    BY <2>1, <2>2, <2>3
<1>5. {buckets'[i].key : i \in Occupied(buckets')} = Keys(buckets')
  BY DEF Keys
<1>6. size' < c /\ Capacity(buckets') = c
  BY <1>1, <1>2, LoadGrows, CapacityIs DEF Room
<1> QED
  BY <1>2, <1>3, <1>4, <1>5, <1>6

\* The table is a map, as IsMap says: after any history of insertions, assignments, erasures,
\* clearings and growth, for any keys and hash codes.
THEOREM IsMapHolds == ASSUME TableAssumption PROVE TableInit /\ [][TableNext]_table => IsMap
<1>1. TInv /\ [TableNext]_table => [table' # table => MapStep]_table
  <2> SUFFICES ASSUME TInv, TableNext, table' # table PROVE MapStep
    OBVIOUS
  <2>1. \A key \in Key, val \in Value :
           InsertOrAssign(key, val)
           => \A k \in Key : Found(k)' = IF k = key THEN val ELSE Found(k)
    BY InsertFinds
  <2>2. \A key \in Key :
          Erase(key) => \A k \in Key : Found(k)' = IF k = key THEN Empty ELSE Found(k)
    BY EraseFinds
  <2>3. PICK c \in Nat : Stepped(c)
    BY NextStep
  <2>4. c # 0
    BY <2>3 DEF Stepped
  <2>5. LET found == {k \in Key : Found(k) # Empty} IN
        /\ size' = Cardinality(found)' /\ size' = Cardinality(Listed)'
        /\ {buckets[i].key : i \in Listed}' = found'
        /\ size' < Capacity(buckets)'
    BY <2>3, <2>4, StepCounts
  <2> QED
    BY <2>1, <2>2, <2>5 DEF MapStep
<1>2. TableInit /\ [][TableNext]_table => []TInv
  BY TableInvariant
<1> QED
  BY <1>1, <1>2, PTL DEF IsMap

-----------------------------------------------------------------------------
(* The lexer's blocks.                                                      *)

Column == [size : Nat, alt : Nat]
Which  == {"size", "alt"}
Token  == {"INDENT", "DEDENT"}

\* One reading of lines or of blocks, below one at column 0.
Read(s, w) == [i \in 0 .. Len(s) |-> IF i = 0 THEN 0 ELSE s[i][w]]

\* The lines, up to line n, that are followed by deeper ones only.
Outer(c, n) == {i \in 0 .. n : \A j \in i + 1 .. n : c[j] > c[i]}

Rising(b, d) == \A k, l \in 0 .. d : k < l => b[k] < b[l]

\* The blocks open after line n are those lines' columns.
BlocksOf(c, n, b, d) ==
  /\ {c[i] : i \in Outer(c, n)} = {b[k] : k \in 0 .. d}
  /\ c[n] = b[d]
  /\ Rising(b, d)

\* Line n's place, as BlocksAgree has it.
AlignedAt(c, n) ==
  \/ c[n] > c[n - 1]
  \/ \E i \in 0 .. n - 1 : c[i] = c[n] /\ \A j \in i .. n - 1 : c[j] >= c[n]
DepthAt(c, n) == Cardinality({i \in 0 .. n - 1 : c[i] < c[n] /\ \A j \in i + 1 .. n - 1 : c[j] > c[i]})

Under(b, d, v) == {k \in 0 .. d : b[k] < v}

\* How many blocks lie to the left of a column.
LEMMA UnderIs ==
  ASSUME NEW d \in Nat, NEW b \in [0 .. d -> Nat], Rising(b, d), NEW v \in Nat
  PROVE  /\ IsFiniteSet(Under(b, d, v)) /\ Cardinality(Under(b, d, v)) \in Nat
         /\ v > b[d] => Cardinality(Under(b, d, v)) = d + 1
         /\ v <= b[d] => Cardinality(Under(b, d, v)) <= d
         /\ \A k \in 0 .. d : v = b[k] => Under(b, d, v) = 0 .. k - 1 /\ Cardinality(Under(b, d, v)) = k
<1> DEFINE U == Under(b, d, v)
<1>1. d \in 0 .. d /\ \A k \in 0 .. d : b[k] \in Nat
  OBVIOUS
<1>2. IsFiniteSet(0 .. d) /\ Cardinality(0 .. d) = d + 1
  <2>1. 0 \in Int /\ d \in Int
    OBVIOUS
  <2> QED
    BY <2>1, FS_Interval
<1>3. U \subseteq 0 .. d
  BY DEF Under
<1>4. IsFiniteSet(U) /\ Cardinality(U) \in Nat
  BY <1>2, <1>3, FS_Subset, FS_CardinalityType
<1>5. ASSUME v > b[d] PROVE U = 0 .. d
  <2>1. ASSUME NEW k \in 0 .. d PROVE b[k] < v
    <3>1. k = d \/ k < d
      OBVIOUS
    <3>2. b[k] <= b[d]
      BY <1>1, <3>1 DEF Rising
    <3> QED
      BY <1>1, <1>5, <3>2
  <2> QED
    BY <2>1 DEF Under
<1>6. ASSUME NEW k \in 0 .. d, v = b[k] PROVE U = 0 .. k - 1
  <2>1. ASSUME NEW l \in 0 .. d PROVE b[l] < v <=> l < k
    <3>1. l < k \/ l = k \/ k < l
      OBVIOUS
    <3>2. l < k => b[l] < b[k]
      BY DEF Rising
    <3>3. k < l => b[k] < b[l]
      BY DEF Rising
    <3> QED
      BY <1>1, <1>6, <3>1, <3>2, <3>3
  <2>2. \A l \in 0 .. k - 1 : l \in 0 .. d /\ l < k
    OBVIOUS
  <2>3. \A l \in 0 .. d : l < k => l \in 0 .. k - 1
    OBVIOUS
  <2> QED
    BY <2>1, <2>2, <2>3 DEF Under
<1>7. ASSUME NEW k \in 0 .. d PROVE Cardinality(0 .. k - 1) = k /\ IsFiniteSet(0 .. k - 1)
  <2> DEFINE e == k - 1
  <2>1. 0 \in Int /\ e \in Int /\ (IF 0 > e THEN 0 ELSE e - 0 + 1) = k
    OBVIOUS
  <2> HIDE DEF e
  <2>2. Cardinality(0 .. e) = k /\ IsFiniteSet(0 .. e)
    BY <2>1, FS_Interval
  <2> QED
    BY <2>2 DEF e
<1>8. ASSUME v <= b[d] PROVE Cardinality(U) <= d
  <2>1. \A k \in U : k \in 0 .. d /\ k # d
    BY <1>1, <1>8 DEF Under
  <2>2. U \subseteq 0 .. d - 1
    BY <2>1
  <2>3. IsFiniteSet(0 .. d - 1) /\ Cardinality(0 .. d - 1) = d
    BY <1>1, <1>7
  <2> HIDE DEF U
  <2> QED
    BY <2>2, <2>3, FS_Subset
<1> QED
  BY <1>2, <1>4, <1>5, <1>6, <1>7, <1>8

\* What a line n + 1 at column c[n + 1] means for blocks read so far.
LEMMA NextLineIs ==
  ASSUME NEW n \in Nat, NEW c \in [0 .. n + 1 -> Nat], NEW d \in Nat, NEW b \in [0 .. d -> Nat],
         BlocksOf(c, n, b, d)
  PROVE  /\ DepthAt(c, n + 1) = Cardinality(Under(b, d, c[n + 1]))
         /\ AlignedAt(c, n + 1) <=> c[n + 1] > b[d] \/ \E k \in 0 .. d : b[k] = c[n + 1]
         /\ {c[i] : i \in Outer(c, n + 1)} = {b[k] : k \in Under(b, d, c[n + 1])} \cup {c[n + 1]}
<1> DEFINE v    == c[n + 1]
           m    == n + 1
           kept == {i \in Outer(c, n) : c[i] < v}
<1>1. /\ v \in Nat /\ n \in 0 .. m /\ m \in 0 .. m /\ m - 1 = n /\ (0 .. n) \subseteq 0 .. m
      /\ \A i \in 0 .. m : c[i] \in Nat
  OBVIOUS
<1>2. \A i, j \in Outer(c, n) : i # j => c[i] # c[j]
  <2> SUFFICES ASSUME NEW i \in Outer(c, n), NEW j \in Outer(c, n), i # j PROVE c[i] # c[j]
    OBVIOUS
  <2>1. i \in 0 .. n /\ j \in 0 .. n
    BY DEF Outer
  <2>2. CASE i < j
    <3>1. j \in i + 1 .. n
      BY <2>1, <2>2
    <3>2. c[j] > c[i]
      BY <3>1 DEF Outer
    <3> QED
      BY <1>1, <2>1, <3>2
  <2>3. CASE j < i
    <3>1. i \in j + 1 .. n
      BY <2>1, <2>3
    <3>2. c[i] > c[j]
      BY <3>1 DEF Outer
    <3> QED
      BY <1>1, <2>1, <3>2
  <2> QED
    BY <2>1, <2>2, <2>3
<1>3. IsFiniteSet(kept)
  <2>1. kept \subseteq 0 .. n /\ 0 \in Int /\ n \in Int
    BY DEF Outer
  <2> HIDE DEF kept
  <2> QED
    BY <2>1, FS_Interval, FS_Subset
<1>4. {c[i] : i \in kept} = {b[k] : k \in Under(b, d, v)}
  <2>1. {c[i] : i \in Outer(c, n)} = {b[k] : k \in 0 .. d}
    BY DEF BlocksOf
  <2>2. ASSUME NEW i \in kept PROVE \E k \in Under(b, d, v) : b[k] = c[i]
    <3>1. PICK k \in 0 .. d : b[k] = c[i]
      BY <2>1
    <3> QED
      BY <3>1 DEF Under
  <2>3. ASSUME NEW k \in Under(b, d, v) PROVE \E i \in kept : c[i] = b[k]
    <3>1. k \in 0 .. d /\ b[k] < v
      BY DEF Under
    <3>2. PICK i \in Outer(c, n) : c[i] = b[k]
      BY <2>1, <3>1
    <3> QED
      BY <3>1, <3>2
  <2> QED
    BY <2>2, <2>3
<1>5. Cardinality(kept) = Cardinality(Under(b, d, v))
  <2>1. Cardinality({c[i] : i \in kept}) = Cardinality(kept)
    <3>1. \A i, j \in kept : c[i] = c[j] => i = j
      BY <1>2
    <3> HIDE DEF kept
    <3> QED
      BY <1>3, <3>1, ImageCount
  <2>2. IsFiniteSet(Under(b, d, v))
    BY <1>1, UnderIs DEF BlocksOf
  <2>3. \A k, l \in Under(b, d, v) : b[k] = b[l] => k = l
    <3> SUFFICES ASSUME NEW k \in Under(b, d, v), NEW l \in Under(b, d, v), b[k] = b[l], k # l PROVE FALSE
      OBVIOUS
    <3>1. k \in 0 .. d /\ l \in 0 .. d /\ b[k] \in Nat
      BY DEF Under
    <3>2. k < l => b[k] < b[l]
      BY <3>1 DEF BlocksOf, Rising
    <3>3. l < k => b[l] < b[k]
      BY <3>1 DEF BlocksOf, Rising
    <3> QED
      BY <3>1, <3>2, <3>3
  <2>4. Cardinality({b[k] : k \in Under(b, d, v)}) = Cardinality(Under(b, d, v))
    <3> DEFINE U == Under(b, d, v)
    <3>1. IsFiniteSet(U) /\ \A k, l \in U : b[k] = b[l] => k = l
      BY <2>2, <2>3
    <3> HIDE DEF U
    <3>2. Cardinality({b[k] : k \in U}) = Cardinality(U)
      BY <3>1, ImageCount
    <3> QED
      BY <3>2 DEF U
  <2> QED
    BY <1>4, <2>1, <2>4
<1>6. DepthAt(c, m) = Cardinality(kept)
  <2>1. {i \in 0 .. m - 1 : c[i] < v /\ \A j \in i + 1 .. m - 1 : c[j] > c[i]} = kept
    BY <1>1 DEF Outer
  <2> QED
    BY <2>1 DEF DepthAt
<1>7. {c[i] : i \in Outer(c, m)} = {c[i] : i \in kept} \cup {v}
  <2>1. Outer(c, m) = kept \cup {m}
    <3>1. m \in Outer(c, m)
      BY <1>1 DEF Outer
    <3>2. ASSUME NEW i \in 0 .. n PROVE i \in Outer(c, m) <=> i \in kept
      <4>1. i + 1 .. m = (i + 1 .. n) \cup {m} /\ i \in 0 .. m
        OBVIOUS
      <4>2. (\A j \in i + 1 .. m : c[j] > c[i]) <=> v > c[i] /\ \A j \in i + 1 .. n : c[j] > c[i]
        BY <4>1
      <4>3. c[i] < v <=> v > c[i]
        BY <1>1, <4>1
      <4> QED
        BY <4>1, <4>2, <4>3 DEF Outer
    <3>3. Outer(c, m) \subseteq 0 .. n \cup {m} /\ kept \subseteq 0 .. n
      BY DEF Outer
    <3> QED
      BY <3>1, <3>2, <3>3
  <2> HIDE DEF kept
  <2> QED
    BY <2>1
<1>8. ASSUME AlignedAt(c, m), ~(v > b[d]) PROVE \E k \in 0 .. d : b[k] = v
  <2>1. c[n] = b[d]
    BY DEF BlocksOf
  <2>2. PICK i \in 0 .. n : c[i] = v /\ \A j \in i .. n : c[j] >= v
    BY <1>1, <1>8, <2>1 DEF AlignedAt
  <2> DEFINE T == {l \in 0 .. n : c[l] = v /\ \A j \in l .. n : c[j] >= v}
  <2> DEFINE l == Max(T)
  <2>3. l \in T /\ \A x \in T : x <= l
    <3>1. i \in T /\ T \subseteq Nat /\ \A x \in T : x <= n
      BY <2>2
    <3> HIDE DEF T
    <3> QED
      BY <3>1, GreatestNumber
  <2>4. l \in 0 .. n /\ c[l] = v /\ \A j \in l .. n : c[j] >= v
    BY <2>3
  <2> HIDE DEF l
  <2>5. ASSUME NEW j \in l + 1 .. n, ~(c[j] > c[l]) PROVE FALSE
    <3>1. j \in l .. n /\ j \in 0 .. n /\ \A x \in j .. n : x \in l .. n
      BY <2>4
    <3>2. c[j] = v
      BY <1>1, <2>4, <2>5, <3>1
    <3>3. j \in T
      BY <2>4, <3>1, <3>2
    <3>4. j <= l
      BY <2>3, <3>3
    <3> QED
      BY <2>4, <3>4
  <2>6. l \in Outer(c, n)
    BY <2>4, <2>5 DEF Outer
  <2> QED
    BY <2>4, <2>6 DEF BlocksOf
<1>9. ASSUME NEW k \in 0 .. d, b[k] = v PROVE AlignedAt(c, m)
  <2>1. PICK i \in Outer(c, n) : c[i] = v
    BY <1>9 DEF BlocksOf
  <2>2. i \in 0 .. n /\ \A j \in i + 1 .. n : c[j] > c[i]
    BY DEF Outer
  <2>3. ASSUME NEW j \in i .. n PROVE c[j] >= v
    <3>1. j = i \/ j \in i + 1 .. n
      BY <2>2
    <3> QED
      BY <1>1, <2>1, <2>2, <3>1
  <2> QED
    BY <1>1, <2>1, <2>2, <2>3 DEF AlignedAt
<1>10. v > b[d] => AlignedAt(c, m)
  BY <1>1 DEF AlignedAt, BlocksOf
<1> HIDE DEF kept
<1> QED
  BY <1>4, <1>5, <1>6, <1>7, <1>8, <1>9, <1>10

\* A reading of one line or block more, and of the first ones.
LEMMA ReadIs ==
  ASSUME NEW s \in Seq(Column), NEW w \in Which
  PROVE  /\ Len(s) \in Nat /\ Read(s, w) \in [0 .. Len(s) -> Nat]
         /\ \A k \in 1 .. Len(s) : Read(s, w)[k] = s[k][w]
  <1>1. Len(s) \in Nat /\ \A k \in 1 .. Len(s) : s[k] \in Column
    OBVIOUS
  <1>2. \A q \in Column : q[w] \in Nat
    BY DEF Column, Which
  <1> QED
    BY <1>1, <1>2 DEF Read

LEMMA ReadAppended ==
  ASSUME NEW s \in Seq(Column), NEW q \in Column, NEW w \in Which
  PROVE  /\ Append(s, q) \in Seq(Column) /\ Len(Append(s, q)) = Len(s) + 1 /\ q[w] \in Nat
         /\ Read(Append(s, q), w) \in [0 .. Len(s) + 1 -> Nat]
         /\ \A k \in 0 .. Len(s) : Read(Append(s, q), w)[k] = Read(s, w)[k]
         /\ Read(Append(s, q), w)[Len(s) + 1] = q[w]
<1> DEFINE n == Len(s)
           t == Append(s, q)
<1>1. /\ n \in Nat /\ t \in Seq(Column) /\ Len(t) = n + 1 /\ t[n + 1] = q
      /\ \A k \in 1 .. n : t[k] = s[k]
  BY AppendFacts
<1>2. q[w] \in Nat
  BY DEF Column, Which
<1>3. Read(t, w) \in [0 .. n + 1 -> Nat]
  <2> HIDE DEF t, n
  <2> QED
    BY <1>1, ReadIs
<1>4. ASSUME NEW k \in 0 .. n PROVE Read(t, w)[k] = Read(s, w)[k]
  <2>1. k = 0 \/ k \in 1 .. n
    BY <1>1
  <2>2. k \in 0 .. Len(t)
    BY <1>1
  <2> HIDE DEF t
  <2> QED
    BY <1>1, <2>1, <2>2 DEF Read
<1>5. Read(t, w)[n + 1] = q[w]
  <2>1. n + 1 \in 0 .. Len(t) /\ n + 1 # 0
    BY <1>1
  <2> HIDE DEF t
  <2> QED
    BY <1>1, <2>1 DEF Read
<1> QED
  BY <1>1, <1>2, <1>3, <1>4, <1>5

LEMMA ReadCut ==
  ASSUME NEW s \in Seq(Column), NEW k \in 0 .. Len(s), NEW w \in Which
  PROVE  /\ SubSeq(s, 1, k) \in Seq(Column) /\ Len(SubSeq(s, 1, k)) = k
         /\ \A l \in 0 .. k : Read(SubSeq(s, 1, k), w)[l] = Read(s, w)[l]
<1> DEFINE t == SubSeq(s, 1, k)
<1>1. Len(s) \in Nat /\ k \in Int /\ 1 \in Int /\ \A i \in 1 .. k : i \in 1 .. Len(s) /\ s[i] \in Column
  OBVIOUS
<1>2. (IF 1 <= k THEN k - 1 + 1 ELSE 0) = k /\ k - 1 + 1 = k /\ \A i \in 1 .. k : 1 + i - 1 = i
  OBVIOUS
<1>3. /\ t \in Seq(Column) /\ Len(t) = IF 1 <= k THEN k - 1 + 1 ELSE 0
      /\ \A i \in 1 .. k - 1 + 1 : t[i] = s[1 + i - 1]
  BY <1>1, SubSeqProperties
<1>4. t \in Seq(Column) /\ Len(t) = k /\ \A i \in 1 .. k : t[i] = s[i]
  BY <1>2, <1>3
<1> HIDE DEF t
<1>5. ASSUME NEW l \in 0 .. k PROVE Read(t, w)[l] = Read(s, w)[l]
  <2>1. l \in 0 .. Len(s) /\ l \in 0 .. Len(t) /\ (l = 0 \/ l \in 1 .. k)
    BY <1>1, <1>4
  <2> QED
    BY <1>4, <2>1 DEF Read
<1> QED
  BY <1>4, <1>5 DEF t

\* What a line means for the blocks, by the column it begins at in one reading.
LEMMA LineIs ==
  ASSUME NEW r \in Seq(Column), NEW q \in Column, NEW s \in Seq(Column), NEW w \in Which,
         BlocksOf(Read(r, w), Len(r), Read(s, w), Len(s))
  PROVE  LET c == Read(Append(r, q), w)
             m == Len(Append(r, q))
             b == Read(s, w)
             d == Len(s)
         IN  /\ DepthAt(c, m) \in Nat
             /\ q[w] > b[d] =>
                  /\ DepthAt(c, m) = d + 1 /\ AlignedAt(c, m)
                  /\ BlocksOf(c, m, Read(Append(s, q), w), d + 1)
             /\ q[w] <= b[d] => DepthAt(c, m) <= d
             /\ \A k \in 0 .. d : b[k] = q[w] =>
                  /\ DepthAt(c, m) = k /\ AlignedAt(c, m)
                  /\ BlocksOf(c, m, Read(SubSeq(s, 1, k), w), k)
             /\ AlignedAt(c, m) => q[w] > b[d] \/ \E k \in 0 .. d : b[k] = q[w]
<1> DEFINE n == Len(r)
           d == Len(s)
           o == Read(r, w)
           c == Read(Append(r, q), w)
           b == Read(s, w)
           v == q[w]
<1>1. /\ n \in Nat /\ d \in Nat /\ b \in [0 .. d -> Nat] /\ v \in Nat /\ Len(Append(r, q)) = n + 1
      /\ c \in [0 .. n + 1 -> Nat] /\ c[n + 1] = v /\ \A i \in 0 .. n : c[i] = o[i]
  BY ReadIs, ReadAppended
<1>2. BlocksOf(o, n, b, d)
  OBVIOUS
<1>3. BlocksOf(c, n, b, d)
  <2> HIDE DEF b, c, o, n, d, v
  <2>1. Outer(c, n) = Outer(o, n)
    <3>1. ASSUME NEW i \in 0 .. n
          PROVE  (\A j \in i + 1 .. n : c[j] > c[i]) <=> (\A j \in i + 1 .. n : o[j] > o[i])
      <4>1. \A j \in i + 1 .. n : j \in 0 .. n
        BY <1>1
      <4> QED
        BY <1>1, <4>1
    <3> QED
      BY <3>1 DEF Outer
  <2>2. {c[i] : i \in Outer(c, n)} = {o[i] : i \in Outer(o, n)}
    <3>1. Outer(o, n) \subseteq 0 .. n
      BY DEF Outer
    <3> QED
      BY <1>1, <2>1, <3>1
  <2>3. c[n] = o[n]
    BY <1>1
  <2> QED
    BY <1>2, <2>2, <2>3 DEF BlocksOf
<1>4. Rising(b, d)
  BY <1>3 DEF BlocksOf
<1>5. /\ DepthAt(c, n + 1) = Cardinality(Under(b, d, v))
      /\ AlignedAt(c, n + 1) <=> v > b[d] \/ \E k \in 0 .. d : b[k] = v
      /\ {c[i] : i \in Outer(c, n + 1)} = {b[k] : k \in Under(b, d, v)} \cup {v}
  <2> HIDE DEF b, c, n, d, v
  <2>1. n \in Nat
    BY <1>1
  <2>2. c \in [0 .. n + 1 -> Nat]
    BY <1>1
  <2>3. d \in Nat
    BY <1>1
  <2>4. b \in [0 .. d -> Nat]
    BY <1>1
  <2>5. /\ DepthAt(c, n + 1) = Cardinality(Under(b, d, c[n + 1]))
        /\ AlignedAt(c, n + 1) <=> c[n + 1] > b[d] \/ \E k \in 0 .. d : b[k] = c[n + 1]
        /\ {c[i] : i \in Outer(c, n + 1)} = {b[k] : k \in Under(b, d, c[n + 1])} \cup {c[n + 1]}
    BY <1>3, <2>1, <2>2, <2>3, <2>4, NextLineIs
  <2> QED
    BY <1>1, <2>5
<1>6. /\ Cardinality(Under(b, d, v)) \in Nat
      /\ v > b[d] => Cardinality(Under(b, d, v)) = d + 1
      /\ v <= b[d] => Cardinality(Under(b, d, v)) <= d
      /\ \A k \in 0 .. d : v = b[k] => Under(b, d, v) = 0 .. k - 1 /\ Cardinality(Under(b, d, v)) = k
  <2> HIDE DEF b, d, v
  <2>1. d \in Nat
    BY <1>1
  <2>2. b \in [0 .. d -> Nat]
    BY <1>1
  <2>3. v \in Nat
    BY <1>1
  <2> QED
    BY <1>4, <2>1, <2>2, <2>3, UnderIs
<1>7. ASSUME v > b[d] PROVE BlocksOf(c, n + 1, Read(Append(s, q), w), d + 1)
  <2> DEFINE a == Read(Append(s, q), w)
  <2>1. a \in [0 .. d + 1 -> Nat] /\ a[d + 1] = v /\ \A k \in 0 .. d : a[k] = b[k]
    BY ReadAppended
  <2> HIDE DEF a, b, c, o, n, d, v
  <2>2. Under(b, d, v) = 0 .. d
    <3>1. ASSUME NEW k \in 0 .. d PROVE b[k] < v
      <4>1. k = d \/ k < d
        BY <1>1
      <4>2. d \in 0 .. d /\ b[k] \in Nat /\ b[d] \in Nat
        BY <1>1
      <4>3. b[k] <= b[d]
        BY <1>4, <4>1, <4>2 DEF Rising
      <4> QED
        BY <1>1, <1>7, <4>2, <4>3
    <3> QED
      BY <3>1 DEF Under
  <2>3. {a[k] : k \in 0 .. d + 1} = {b[k] : k \in 0 .. d} \cup {v}
    <3>1. 0 .. d + 1 = (0 .. d) \cup {d + 1}
      BY <1>1
    <3> QED
      BY <2>1, <3>1
  <2>4. Rising(a, d + 1)
    <3> SUFFICES ASSUME NEW k \in 0 .. d + 1, NEW l \in 0 .. d + 1, k < l PROVE a[k] < a[l]
      BY DEF Rising
    <3>1. k \in 0 .. d /\ (l \in 0 .. d \/ l = d + 1)
      BY <1>1
    <3>2. k \in Under(b, d, v)
      BY <2>2, <3>1
    <3>3. b[k] < v
      BY <3>2 DEF Under
    <3> QED
      BY <1>4, <2>1, <3>1, <3>3 DEF Rising
  <2> QED
    BY <1>1, <1>5, <2>1, <2>2, <2>3, <2>4 DEF BlocksOf, a
<1>8. ASSUME NEW k \in 0 .. d, b[k] = v
      PROVE  BlocksOf(c, n + 1, Read(SubSeq(s, 1, k), w), k)
  <2> DEFINE a == Read(SubSeq(s, 1, k), w)
  <2>1. \A l \in 0 .. k : a[l] = b[l]
    BY ReadCut
  <2> HIDE DEF a, b, c, o, n, d, v
  <2>2. Under(b, d, v) = 0 .. k - 1
    BY <1>6, <1>8
  <2>3. {a[l] : l \in 0 .. k} = {b[l] : l \in 0 .. k - 1} \cup {v}
    <3>1. 0 .. k = (0 .. k - 1) \cup {k}
      BY <1>1
    <3> QED
      BY <1>8, <2>1, <3>1
  <2>4. Rising(a, k)
    <3>1. \A l \in 0 .. k : l \in 0 .. d
      BY <1>1
    <3> QED
      BY <1>4, <2>1, <3>1 DEF Rising
  <2>5. a[k] = v
    BY <1>1, <1>8, <2>1
  <2> QED
    BY <1>1, <1>5, <2>2, <2>3, <2>4, <2>5 DEF BlocksOf, a
<1> HIDE DEF b, c, o, n, d, v
<1> QED
  BY <1>1, <1>5, <1>6, <1>7, <1>8 DEF b, c, d, v

\* White space has columns in both readings.
LEMMA ColumnsAre ==
  ASSUME BlocksAssumption, NEW space \in Spaces
  PROVE  Columns(space) \in Column
<1> DEFINE T     == [size : Nat, alt : Nat, slash : Nat]
           N     == Len(space)
           start == [size |-> 0, alt |-> 0, slash |-> 0]
           next(s, c) ==
             CASE c = "space" -> [s EXCEPT !.size = @ + 1, !.alt = @ + 1]
               [] c = "tab"   -> [s EXCEPT !.size = Stop(@, IndentSize), !.alt = Stop(@, TabWidth)]
               [] c = "feed"  -> [s EXCEPT !.size = 0, !.alt = 0]
               [] c = "slash" -> [s EXCEPT !.slash = IF @ = 0 THEN s.size ELSE @]
           step == [p \in (1 .. N) \X T |-> next(p[2], space[p[1]])]
           Loop(f) == f = [x \in SUBSET DOMAIN space |->
                             IF x = {} THEN start ELSE next(f[x \ {Max(x)}], space[Max(x)])]
           fold == CHOOSE f : Loop(f)
           last == fold[DOMAIN space]
<1>1. /\ space \in Seq({"space", "tab", "feed", "slash"}) /\ N \in Nat /\ DOMAIN space = 1 .. N
      /\ \A i \in 1 .. N : space[i] \in {"space", "tab", "feed", "slash"}
  BY DEF BlocksAssumption
<1>2. ASSUME NEW k \in Nat, NEW w \in Nat \ {0} PROVE Stop(k, w) \in Nat
  <2>1. k \div w \in Nat
    OBVIOUS
  <2> DEFINE e == (k \div w) + 1
  <2>2. e \in Nat /\ w \in Nat
    BY <2>1
  <2> HIDE DEF e
  <2>3. e * w \in Nat
    BY <2>2
  <2> QED
    BY <2>3 DEF Stop, e
<1>3. ASSUME NEW s \in T, NEW i \in 1 .. N PROVE next(s, space[i]) \in T
  <2>1. s.size \in Nat /\ s.alt \in Nat /\ s.slash \in Nat /\ 0 \in Nat
    OBVIOUS
  <2>2. Stop(s.size, IndentSize) \in Nat /\ Stop(s.alt, TabWidth) \in Nat
    BY <1>2, <2>1 DEF BlocksAssumption
  <2>3. space[i] \in {"space", "tab", "feed", "slash"}
    BY <1>1
  <2>4. CASE space[i] = "space"
    <3> DEFINE a == s.size + 1
               b == s.alt + 1
    <3>1. a \in Nat /\ b \in Nat
      BY <2>1
    <3>2. next(s, space[i]) = [s EXCEPT !.size = a, !.alt = b]
      BY <2>4
    <3> HIDE DEF a, b, next
    <3> QED
      BY <3>1, <3>2
  <2>5. CASE space[i] = "tab"
    BY <2>1, <2>2, <2>5
  <2>6. CASE space[i] = "feed"
    BY <2>1, <2>6
  <2>7. CASE space[i] = "slash"
    BY <2>1, <2>7
  <2> QED
    BY <2>3, <2>4, <2>5, <2>6, <2>7
<1>4. \E f : Folding(f, N, start, step, T)
  <2>1. start \in T
    OBVIOUS
  <2>2. \A i \in 1 .. N : \A x \in T : step[<<i, x>>] \in T
    BY <1>3
  <2> HIDE DEF T, start, step, N
  <2> QED
    BY <1>1, <2>1, <2>2, FoldExists
<1>5. \A f : Folding(f, N, start, step, T) => Loop(f)
  <2> SUFFICES ASSUME NEW f, Folding(f, N, start, step, T) PROVE Loop(f)
    OBVIOUS
  <2> DEFINE g == [x \in SUBSET (1 .. N) |-> IF x = {} THEN start ELSE step[<<Max(x), f[x \ {Max(x)}]>>]]
             h == [x \in SUBSET (1 .. N) |-> IF x = {} THEN start ELSE next(f[x \ {Max(x)}], space[Max(x)])]
  <2>1. f = g /\ \A x \in SUBSET (1 .. N) : f[x] \in T
    BY DEF Folding
  <2>2. ASSUME NEW x \in SUBSET (1 .. N), x # {}
        PROVE  step[<<Max(x), f[x \ {Max(x)}]>>] = next(f[x \ {Max(x)}], space[Max(x)])
    <3>1. x \subseteq Nat /\ \A m \in x : m <= N
      <4> HIDE DEF N, T, start, step
      <4>1. \A m \in 1 .. N : m \in Nat /\ m <= N
        BY <1>1
      <4> QED
        BY <4>1
    <3>2. Max(x) \in x
      BY <1>1, <2>2, <3>1, GreatestNumber
    <3>3. Max(x) \in 1 .. N /\ x \ {Max(x)} \in SUBSET (1 .. N)
      BY <3>2
    <3> DEFINE z == f[x \ {Max(x)}]
               k == Max(x)
    <3>4. z \in T /\ k \in 1 .. N
      BY <2>1, <3>3
    <3> HIDE DEF z, k, T, N, next
    <3>5. step[<<k, z>>] = next(z, space[k])
      BY <3>4
    <3> QED
      BY <3>5 DEF z, k
  <2>3. g = h
    <3> HIDE DEF step, next
    <3> QED
      BY <2>2
  <2>4. f = h
    BY <2>1, <2>3
  <2> HIDE DEF next, step, start, N
  <2> QED
    BY <1>1, <2>4
<1>6. Loop(fold)
  <2>1. \E f : Loop(f)
    BY <1>4, <1>5
  <2> HIDE DEF Loop
  <2> QED
    BY <2>1
<1>7. last \in T
  <2>1. fold = [x \in SUBSET (1 .. N) |->
                  IF x = {} THEN start ELSE next(fold[x \ {Max(x)}], space[Max(x)])]
    BY <1>1, <1>6
  <2> HIDE DEF fold, next, start, T, N
  <2>2. ASSUME NEW k \in 1 .. N PROVE fold[1 .. k] = next(fold[1 .. k - 1], space[k])
    <3> DEFINE x == 1 .. k
    <3>1. k \in x /\ x \in SUBSET (1 .. N) /\ x # {} /\ x \subseteq Nat /\ \A m \in x : m <= k
      BY <1>1
    <3>2. x \ {k} = 1 .. k - 1
      BY <1>1
    <3> HIDE DEF x
    <3>3. Max(x) = k
      <4> DEFINE most == Max(x)
      <4>1. most \in x /\ \A m \in x : m <= most
        BY <1>1, <3>1, GreatestNumber
      <4> HIDE DEF most
      <4>2. most = k
        BY <1>1, <3>1, <4>1
      <4> QED
        BY <4>2 DEF most
    <3>4. fold[x] = next(fold[x \ {Max(x)}], space[Max(x)])
      BY <2>1, <3>1
    <3> QED
      BY <3>2, <3>3, <3>4 DEF x
  <2> DEFINE Wrong == {k \in 0 .. N : fold[1 .. k] \notin T}
  <2>3. Wrong = {}
    <3> SUFFICES ASSUME Wrong # {} PROVE FALSE
      OBVIOUS
    <3>1. PICK k \in Wrong : \A l \in Wrong : k <= l
      <4>1. Wrong \subseteq Nat
        BY <1>1
      <4> HIDE DEF Wrong
      <4> QED
        BY <4>1, LeastNumber
    <3>2. CASE k = 0
      <4>1. 1 .. k = {} /\ {} \in SUBSET (1 .. N)
        BY <3>2
      <4>2. fold[1 .. k] = start
        BY <2>1, <4>1
      <4> QED
        BY <4>2 DEF start, T
    <3>3. CASE k # 0
      <4>1. k \in 1 .. N /\ k - 1 \in 0 .. N /\ ~(k <= k - 1)
        BY <1>1, <3>3
      <4>2. fold[1 .. k - 1] \in T
        BY <3>1, <4>1
      <4>3. fold[1 .. k] \in T
        BY <1>3, <2>2, <4>1, <4>2
      <4> QED
        BY <4>3
    <3> QED
      BY <3>2, <3>3
  <2>4. N \in 0 .. N /\ last = fold[1 .. N]
    BY <1>1
  <2> QED
    BY <2>3, <2>4
<1>8. Columns(space) = IF last.slash = 0 THEN [size |-> last.size, alt |-> last.alt]
                       ELSE [size |-> last.slash, alt |-> last.slash]
  BY DEF Columns, FoldLeft, MapThenFoldSet
<1> HIDE DEF last
<1> QED
  BY <1>7, <1>8 DEF Column

\* Of the first k tokens, those of one kind, and how many blocks they leave open.
Those(ts, k, t) == {i \in 1 .. k : ts[i] = t}
OpenIn(ts, k)   == Cardinality(Those(ts, k, "INDENT")) - Cardinality(Those(ts, k, "DEDENT"))

LEMMA ThoseCounted ==
  ASSUME NEW ts, NEW k \in Nat, NEW t
  PROVE  IsFiniteSet(Those(ts, k, t)) /\ Cardinality(Those(ts, k, t)) \in Nat
<1>1. Those(ts, k, t) \subseteq 1 .. k /\ 1 \in Int /\ k \in Int
  BY DEF Those
<1> QED
  BY <1>1, FS_Interval, FS_Subset, FS_CardinalityType

\* More tokens of one kind.
LEMMA MoreTokens ==
  ASSUME NEW ts \in Seq(Token), NEW n \in Nat, NEW more \in [1 .. n -> Token], NEW t \in Token,
         \A i \in 1 .. n : more[i] = t
  PROVE  LET us == ts \o more IN
         /\ us \in Seq(Token) /\ Len(us) = Len(ts) + n
         /\ \A k \in 0 .. Len(ts) : OpenIn(us, k) = OpenIn(ts, k)
         /\ \A j \in 0 .. n : OpenIn(us, Len(ts) + j) = IF t = "INDENT" THEN OpenIn(ts, Len(ts)) + j
                                                       ELSE OpenIn(ts, Len(ts)) - j
<1> DEFINE us == ts \o more
           m  == Len(ts)
<1>1. more \in Seq(Token) /\ Len(more) = n /\ m \in Nat
  OBVIOUS
<1>2. /\ us \in Seq(Token) /\ Len(us) = m + n
      /\ \A i \in 1 .. m + n : us[i] = IF i <= m THEN ts[i] ELSE more[i - m]
  BY <1>1, ConcatProperties
<1>3. \A i \in 1 .. m : us[i] = ts[i]
  <2>1. \A i \in 1 .. m : i \in 1 .. m + n /\ i <= m
    BY <1>1
  <2> QED
    BY <1>2, <2>1
<1>4. \A i \in m + 1 .. m + n : us[i] = t
  <2>1. \A i \in m + 1 .. m + n : i \in 1 .. m + n /\ ~(i <= m) /\ i - m \in 1 .. n
    BY <1>1
  <2> QED
    BY <1>2, <2>1
<1> HIDE DEF us, m
<1>5. \A k \in 0 .. m : OpenIn(us, k) = OpenIn(ts, k)
  <2> SUFFICES ASSUME NEW k \in 0 .. m PROVE OpenIn(us, k) = OpenIn(ts, k)
    OBVIOUS
  <2>1. \A x : Those(us, k, x) = Those(ts, k, x)
    <3>1. \A i \in 1 .. k : i \in 1 .. m
      BY <1>1
    <3> QED
      BY <1>3, <3>1 DEF Those
  <2> QED
    BY <2>1 DEF OpenIn
<1>6. ASSUME NEW j \in 0 .. n
      PROVE  OpenIn(us, m + j) = IF t = "INDENT" THEN OpenIn(ts, m) + j ELSE OpenIn(ts, m) - j
  <2> DEFINE e    == m + j
             a    == m + 1
             new  == a .. e
             x    == IF t = "INDENT" THEN "DEDENT" ELSE "INDENT"
             old  == Those(ts, m, t)
  <2>1. 1 .. e = (1 .. m) \cup new /\ (1 .. m) \cap new = {} /\ new \subseteq m + 1 .. m + n
        /\ a \in Int /\ e \in Int /\ (IF a > e THEN 0 ELSE e - a + 1) = j
    BY <1>1
  <2>2. IsFiniteSet(new) /\ Cardinality(new) = j
    <3> HIDE DEF a, e
    <3> QED
      BY <2>1, FS_Interval
  <2>3. IsFiniteSet(old) /\ Cardinality(old) \in Nat /\ Cardinality(Those(ts, m, x)) \in Nat
    BY <1>1, ThoseCounted
  <2> HIDE DEF new, e
  <2>4. Those(us, e, t) = old \cup new /\ old \cap new = {}
    BY <1>3, <1>4, <2>1 DEF Those
  <2>5. Those(us, e, x) = Those(ts, m, x)
    <3>1. x # t
      BY DEF Token
    <3> QED
      BY <1>3, <1>4, <2>1, <3>1 DEF Those
  <2> DEFINE c == Cardinality(old)
             d == Cardinality(Those(ts, m, x))
  <2>6. c \in Nat /\ d \in Nat /\ j \in Nat
    BY <2>3
  <2>7. Cardinality(Those(us, e, t)) = c + j
    <3>1. Cardinality({}) = 0
      BY FS_EmptySet
    <3>2. Cardinality(old \cup new) = c + Cardinality(new) - Cardinality(old \cap new)
      BY <2>2, <2>3, FS_Union
    <3>3. Cardinality(old \cap new) = 0
      BY <2>4, <3>1
    <3> DEFINE all == Cardinality(old \cup new)
    <3>4. all = c + j - 0
      BY <2>2, <3>2, <3>3
    <3>5. Cardinality(Those(us, e, t)) = all
      BY <2>4
    <3> HIDE DEF all, c
    <3> QED
      BY <2>6, <3>4, <3>5
  <2>8. CASE t = "INDENT"
    <3>1. x = "DEDENT"
      BY <2>8
    <3>2. OpenIn(us, e) = c + j - d
      <4>1. Cardinality(Those(us, e, "INDENT")) = c + j
        BY <2>7, <2>8
      <4>2. Cardinality(Those(us, e, "DEDENT")) = d
        BY <2>5, <3>1
      <4> HIDE DEF c, d
      <4> QED
        BY <2>6, <4>1, <4>2 DEF OpenIn
    <3>3. OpenIn(ts, m) = c - d
      BY <2>8, <3>1 DEF OpenIn
    <3> HIDE DEF c, d
    <3> QED
      BY <2>6, <2>8, <3>2, <3>3 DEF e
  <2>9. CASE t # "INDENT"
    <3>1. x = "INDENT" /\ t = "DEDENT"
      BY <2>9 DEF Token
    <3>2. OpenIn(us, e) = d - (c + j) /\ OpenIn(ts, m) = d - c
      BY <2>5, <2>7, <3>1 DEF OpenIn
    <3> HIDE DEF c, d
    <3> QED
      BY <2>6, <2>9, <3>2 DEF e
  <2> QED
    BY <2>8, <2>9
<1> QED
  BY <1>2, <1>5, <1>6 DEF us, m

\* What the blocks left by Enclosing are.
LEMMA EnclosingIs ==
  ASSUME NEW s \in Seq(Column), NEW v \in Nat, Rising(Read(s, "size"), Len(s))
  PROVE  \E k \in 0 .. Len(s) :
           /\ Enclosing(s, v) = SubSeq(s, 1, k) /\ Len(SubSeq(s, 1, k)) = k
           /\ Innermost(Enclosing(s, v)).size = Read(s, "size")[k] /\ Innermost(Enclosing(s, v)).alt = Read(s, "alt")[k]
           /\ \A l \in 0 .. Len(s) : Read(s, "size")[l] = v => l = k
<1> DEFINE T == {k \in 0 .. Len(s) : k > 0 => s[k].size <= v}
           k == Max(T)
           b == Read(s, "size")
           cut == SubSeq(s, 1, k)
<1>1. Len(s) \in Nat /\ \A i \in 1 .. Len(s) : s[i] \in Column /\ s[i].size \in Nat /\ s[i].alt \in Nat
  <2>1. Len(s) \in Nat /\ \A i \in 1 .. Len(s) : s[i] \in Column
    OBVIOUS
  <2> QED
    BY <2>1 DEF Column
<1>2. k \in T /\ \A l \in T : l <= k
  <2>1. 0 \in T /\ T \subseteq Nat /\ \A l \in T : l <= Len(s)
    BY <1>1
  <2> HIDE DEF T
  <2> QED
    BY <1>1, <2>1, GreatestNumber
<1>3. k \in 0 .. Len(s) /\ (k > 0 => s[k].size <= v)
  <2> HIDE DEF k
  <2> QED
    BY <1>2
<1>4. Enclosing(s, v) = cut
  BY DEF Enclosing
<1>5. "size" \in Which /\ "alt" \in Which
  BY DEF Which
<1> HIDE DEF k
<1>6. /\ cut \in Seq(Column) /\ Len(cut) = k
      /\ \A w \in Which : \A l \in 0 .. k : Read(cut, w)[l] = Read(s, w)[l]
  BY <1>3, ReadCut
<1> HIDE DEF cut
<1>7. ASSUME NEW w \in Which PROVE Innermost(cut)[w] = Read(s, w)[k]
  <2>1. k \in 0 .. k
    BY <1>3
  <2>2. CASE k = 0
    <3>1. cut = <<>>
      BY <1>6, <2>2, EmptySeq
    <3> QED
      BY <1>1, <1>3, <2>2, <3>1 DEF Innermost, Read, Which
  <2>3. CASE k # 0
    <3>1. cut # <<>> /\ Last(cut) = cut[k]
      BY <1>6, <2>3 DEF Last
    <3>2. Read(cut, w)[k] = cut[k][w]
      BY <1>6, <2>1, <2>3 DEF Read
    <3> QED
      BY <1>6, <2>1, <3>1, <3>2 DEF Innermost
  <2> QED
    BY <2>2, <2>3
<1>8. ASSUME NEW l \in 0 .. Len(s), b[l] = v PROVE l = k
  <2>1. b \in [0 .. Len(s) -> Nat] /\ \A i \in 1 .. Len(s) : b[i] = s[i].size
    BY <1>5, ReadIs
  <2> HIDE DEF b
  <2>2. l \in T
    BY <1>1, <1>8, <2>1
  <2>3. l <= k
    BY <1>2, <2>2
  <2>4. l < k => b[l] < b[k]
    BY <1>3 DEF Rising, b
  <2>5. k > 0 => b[k] <= v
    BY <1>1, <1>3, <2>1
  <2>6. b[k] \in Nat
    BY <1>3, <2>1
  <2> QED
    BY <1>1, <1>3, <1>8, <2>3, <2>4, <2>5, <2>6
<1>9. Innermost(cut).size = Read(s, "size")[k] /\ Innermost(cut).alt = Read(s, "alt")[k]
  BY <1>5, <1>7
<1> QED
  BY <1>3, <1>4, <1>6, <1>8, <1>9 DEF cut

\* The last line's verdict, as BlocksAgree has it.
Judges(r, verdict, d) ==
  LET narrow == Read(r, "size")
      alt  == Read(r, "alt")
      n    == Len(r)
      same == AlignedAt(narrow, n) /\ AlignedAt(alt, n) /\ DepthAt(narrow, n) = DepthAt(alt, n)
  IN  /\ verdict = "reading" => same /\ DepthAt(narrow, n) = d
      /\ verdict = "TOO_MANY_INDENT_LEVELS" => DepthAt(narrow, n) > MaxIndent
      /\ verdict \notin {"reading", "ended", "TOO_MANY_INDENT_LEVELS"} => ~same

LexerTypes == /\ read \in Seq(Column) /\ indents \in Seq(Column) /\ tokens \in Seq(Token)
         /\ Len(indents) <= MaxIndent

\* The tokens nest and leave the blocks open that the lexer has.
TokensNest == /\ \A k \in 0 .. Len(tokens) : OpenIn(tokens, k) >= 0
              /\ OpenIn(tokens, Len(tokens)) = Len(indents)

\* The blocks that the lexer has are those of the lines read, in both readings.
BlocksRead ==
  lexer \in {"starting", "reading"} =>
    \A w \in Which : BlocksOf(Read(read, w), Len(read), Read(indents, w), Len(indents))

Judged == /\ lexer = "starting" => read = <<>>
          /\ lexer = "ended" => indents = <<>>
          /\ read # <<>> => Judges(read, lexer, Len(indents))

LexerInv == LexerTypes /\ TokensNest /\ BlocksRead /\ Judged

LEMMA OpenIsInt == ASSUME NEW ts, NEW k \in Nat PROVE OpenIn(ts, k) \in Int
<1>1. Cardinality(Those(ts, k, "INDENT")) \in Nat
  BY ThoseCounted
<1>2. Cardinality(Those(ts, k, "DEDENT")) \in Nat
  BY ThoseCounted
<1> QED
  BY <1>1, <1>2 DEF OpenIn

LEMMA TokensOpen ==
  ASSUME LexerTypes, TokensNest
  PROVE  LET us == Append(tokens, "INDENT") IN
         /\ us \in Seq(Token) /\ \A k \in 0 .. Len(us) : OpenIn(us, k) >= 0
         /\ OpenIn(us, Len(us)) = Len(indents) + 1
<1> DEFINE more == <<"INDENT">>
           us   == tokens \o more
           m    == Len(tokens)
<1>1. tokens \in Seq(Token) /\ m \in Nat /\ "INDENT" \in Token /\ 1 \in Nat /\ Len(indents) \in Nat
  BY DEF LexerTypes, Token
<1>2. more \in [1 .. 1 -> Token] /\ \A i \in 1 .. 1 : more[i] = "INDENT"
  BY <1>1
<1>3. Append(tokens, "INDENT") = us
  BY <1>1, AppendIsConcat
<1>4. /\ us \in Seq(Token) /\ Len(us) = m + 1
      /\ \A k \in 0 .. m : OpenIn(us, k) = OpenIn(tokens, k)
      /\ \A j \in 0 .. 1 : OpenIn(us, m + j) = OpenIn(tokens, m) + j
  <2> HIDE DEF more
  <2> QED
    <3>1. PICK ts, ms, t : ts = tokens /\ ms = more /\ t = "INDENT"
      OBVIOUS
    <3>2. ts \in Seq(Token) /\ t \in Token /\ ms \in [1 .. 1 -> Token] /\ \A i \in 1 .. 1 : ms[i] = t
      BY <1>1, <1>2, <3>1
    <3>3. 1 \in Nat
      OBVIOUS
    <3>4. /\ ts \o ms \in Seq(Token) /\ Len(ts \o ms) = Len(ts) + 1
          /\ \A k \in 0 .. Len(ts) : OpenIn(ts \o ms, k) = OpenIn(ts, k)
          /\ \A j \in 0 .. 1 : OpenIn(ts \o ms, Len(ts) + j) =
                                IF t = "INDENT" THEN OpenIn(ts, Len(ts)) + j
                                                ELSE OpenIn(ts, Len(ts)) - j
      BY <3>2, <3>3, MoreTokens
    <3> QED
      BY <3>1, <3>4
<1> HIDE DEF us
<1>5. OpenIn(us, m + 1) = Len(indents) + 1
  <2>1. 1 \in 0 .. 1
    OBVIOUS
  <2> QED
    BY <1>4, <2>1 DEF TokensNest
<1>6. ASSUME NEW k \in 0 .. Len(us) PROVE OpenIn(us, k) >= 0
  <2>1. k \in 0 .. m \/ k = m + 1
    BY <1>1, <1>4
  <2> QED
    BY <1>1, <1>4, <1>5, <2>1 DEF TokensNest
<1> QED
  BY <1>3, <1>4, <1>5, <1>6

LEMMA TokensClose ==
  ASSUME LexerTypes, TokensNest, NEW n \in 0 .. Len(indents)
  PROVE  LET us == tokens \o [i \in 1 .. n |-> "DEDENT"] IN
         /\ us \in Seq(Token) /\ \A k \in 0 .. Len(us) : OpenIn(us, k) >= 0
         /\ OpenIn(us, Len(us)) = Len(indents) - n
<1> DEFINE more == [i \in 1 .. n |-> "DEDENT"]
           us   == tokens \o more
           m    == Len(tokens)
           d    == Len(indents)
<1>1. tokens \in Seq(Token) /\ m \in Nat /\ "DEDENT" \in Token /\ n \in Nat /\ d \in Nat /\ n <= d
  BY DEF LexerTypes, Token
<1>2. more \in [1 .. n -> Token] /\ \A i \in 1 .. n : more[i] = "DEDENT"
  BY <1>1
<1>3. /\ us \in Seq(Token) /\ Len(us) = m + n
      /\ \A k \in 0 .. m : OpenIn(us, k) = OpenIn(tokens, k)
      /\ \A j \in 0 .. n : OpenIn(us, m + j) = OpenIn(tokens, m) - j
  <2> HIDE DEF more
  <2> QED
    BY <1>1, <1>2, MoreTokens
<1>4. OpenIn(tokens, m) = d
  BY DEF TokensNest
<1> HIDE DEF us, d
<1>5. ASSUME NEW k \in 0 .. m + n PROVE OpenIn(us, k) >= 0
  <2>1. CASE k \in 0 .. m
    BY <1>3, <2>1 DEF TokensNest
  <2>2. CASE k \notin 0 .. m
    <3> DEFINE j == k - m
    <3>1. j \in 0 .. n /\ k = m + j
      BY <1>1, <2>2
    <3> HIDE DEF j
    <3>2. OpenIn(us, k) = d - j
      BY <1>3, <1>4, <3>1
    <3> QED
      BY <1>1, <3>1, <3>2
  <2> QED
    BY <2>1, <2>2
<1>6. OpenIn(us, m + n) = d - n
  <2>1. n \in 0 .. n
    BY <1>1
  <2> QED
    BY <1>3, <1>4, <2>1
<1> QED
  BY <1>3, <1>5, <1>6 DEF us, d

\* A block's columns and a line's, in both readings.
LEMMA TopIs ==
  ASSUME NEW s \in Seq(Column)
  PROVE  Innermost(s).size = Read(s, "size")[Len(s)] /\ Innermost(s).alt = Read(s, "alt")[Len(s)]
<1>1. Len(s) \in Nat
  OBVIOUS
<1>2. CASE Len(s) = 0
  <2>1. s = <<>>
    BY <1>2, EmptySeq
  <2> QED
    BY <1>2, <2>1 DEF Innermost, Read
<1>3. CASE Len(s) # 0
  <2>1. s # <<>> /\ Last(s) = s[Len(s)]
    BY <1>3 DEF Last
  <2>2. Len(s) \in 0 .. Len(s)
    BY <1>1
  <2> QED
    BY <1>3, <2>1, <2>2 DEF Innermost, Read
<1> QED
  BY <1>2, <1>3

\* A deeper line.
LEMMA IndentedKeeps ==
  ASSUME BlocksAssumption, LexerInv, lexer = "reading", NEW q \in Column,
         read' = Append(read, q), Indented(q)
  PROVE  LexerInv'
<1> DEFINE d    == Len(indents)
           m    == Len(read')
           narrow == Read(read', "size")
           alt  == Read(read', "alt")
<1>1. /\ read \in Seq(Column) /\ indents \in Seq(Column) /\ tokens \in Seq(Token) /\ d \in Nat
      /\ d <= MaxIndent /\ read' \in Seq(Column) /\ read' # <<>> /\ MaxIndent \in Nat
  BY AppendProperties DEF LexerInv, LexerTypes, BlocksAssumption
<1>2. /\ Innermost(indents).size = Read(indents, "size")[d] /\ Innermost(indents).alt = Read(indents, "alt")[d]
      /\ q.size > Innermost(indents).size
  BY <1>1, TopIs DEF Indented
<1>3. \A w \in Which : BlocksOf(Read(read, w), Len(read), Read(indents, w), Len(indents))
  BY DEF LexerInv, BlocksRead
<1>4. "size" \in Which /\ "alt" \in Which
  BY DEF Which
<1>5. /\ DepthAt(narrow, m) = d + 1 /\ AlignedAt(narrow, m)
      /\ BlocksOf(narrow, m, Read(Append(indents, q), "size"), d + 1)
  BY <1>1, <1>2, <1>3, <1>4, LineIs
<1>6. /\ DepthAt(alt, m) \in Nat
      /\ q.alt <= Innermost(indents).alt => DepthAt(alt, m) <= d
      /\ q.alt > Innermost(indents).alt =>
           /\ DepthAt(alt, m) = d + 1 /\ AlignedAt(alt, m)
           /\ BlocksOf(alt, m, Read(Append(indents, q), "alt"), d + 1)
  BY <1>1, <1>2, <1>3, <1>4, LineIs
<1> HIDE DEF narrow, alt, d
<1>7. CASE d + 1 > MaxIndent
  <2>1. lexer' = "TOO_MANY_INDENT_LEVELS" /\ UNCHANGED <<indents, tokens>>
    BY <1>7 DEF Indented, Ends, d
  <2>2. Judges(read', lexer', Len(indents'))
    BY <1>1, <1>5, <1>7, <2>1 DEF Judges, narrow, alt
  <2> QED
    BY <1>1, <2>1, <2>2 DEF LexerInv, LexerTypes, TokensNest, BlocksRead, Judged, d
<1>8. CASE ~(d + 1 > MaxIndent) /\ q.alt <= Innermost(indents).alt
  <2>1. lexer' = "MIXED_INDENTATION" /\ UNCHANGED <<indents, tokens>>
    BY <1>8 DEF Indented, Ends, d
  <2>2. DepthAt(narrow, m) # DepthAt(alt, m)
    BY <1>1, <1>5, <1>6, <1>8
  <2>3. Judges(read', lexer', Len(indents'))
    BY <2>1, <2>2 DEF Judges, narrow, alt
  <2> QED
    BY <1>1, <2>1, <2>3 DEF LexerInv, LexerTypes, TokensNest, BlocksRead, Judged, d
<1>9. CASE ~(d + 1 > MaxIndent) /\ ~(q.alt <= Innermost(indents).alt)
  <2>1. indents' = Append(indents, q) /\ tokens' = Append(tokens, "INDENT") /\ lexer' = "reading"
    BY <1>9 DEF Indented, d
  <2>2. indents' \in Seq(Column) /\ Len(indents') = d + 1
    BY <1>1, <2>1, AppendProperties DEF d
  <2>3. q.alt > Innermost(indents).alt
    <3>1. q.alt \in Nat /\ Innermost(indents).alt \in Nat
      <4>1. Read(indents, "alt") \in [0 .. d -> Nat] /\ d \in 0 .. d
        BY <1>1, <1>4, ReadIs DEF d
      <4> QED
        BY <1>2, <4>1 DEF Column
    <3> QED
      BY <1>9, <3>1
  <2>4. ASSUME NEW w \in Which PROVE BlocksOf(Read(read', w), Len(read'), Read(indents', w), Len(indents'))
    <3>1. w = "size" \/ w = "alt"
      BY DEF Which
    <3> QED
      BY <1>5, <1>6, <2>1, <2>2, <2>3, <3>1 DEF narrow, alt
  <2>5. Judges(read', lexer', Len(indents'))
    BY <1>5, <1>6, <2>1, <2>2, <2>3 DEF Judges, narrow, alt
  <2>6. /\ tokens' \in Seq(Token) /\ \A k \in 0 .. Len(tokens') : OpenIn(tokens', k) >= 0
        /\ OpenIn(tokens', Len(tokens')) = Len(indents')
    BY <2>1, <2>2, TokensOpen DEF LexerInv, d
  <2>7. Len(indents') <= MaxIndent
    BY <1>1, <1>9, <2>2
  <2> QED
    BY <1>1, <2>1, <2>2, <2>4, <2>5, <2>6, <2>7 DEF LexerInv, LexerTypes, TokensNest, BlocksRead, Judged
<1> QED
  BY <1>7, <1>8, <1>9

\* A line that is as deep or less deep.
LEMMA DedentedKeeps ==
  ASSUME BlocksAssumption, LexerInv, lexer = "reading", NEW q \in Column,
         read' = Append(read, q), Dedented(q)
  PROVE  LexerInv'
<1> DEFINE d    == Len(indents)
           m    == Len(read')
           narrow == Read(read', "size")
           alt  == Read(read', "alt")
           b    == Read(indents, "size")
           a    == Read(indents, "alt")
           kept == Enclosing(indents, q.size)
<1>1. /\ read \in Seq(Column) /\ indents \in Seq(Column) /\ tokens \in Seq(Token) /\ d \in Nat
      /\ d <= MaxIndent /\ read' \in Seq(Column) /\ read' # <<>> /\ MaxIndent \in Nat
  BY AppendProperties DEF LexerInv, LexerTypes, BlocksAssumption
<1>2. Innermost(indents).size = b[d] /\ q.size <= Innermost(indents).size
  BY <1>1, TopIs DEF Dedented
<1>3. \A w \in Which : BlocksOf(Read(read, w), Len(read), Read(indents, w), Len(indents))
  BY DEF LexerInv, BlocksRead
<1>4. "size" \in Which /\ "alt" \in Which /\ q.size \in Nat /\ q.alt \in Nat
  BY DEF Which, Column
<1>5. b \in [0 .. d -> Nat] /\ a \in [0 .. d -> Nat]
  BY <1>1, <1>4, ReadIs
<1>6. PICK k \in 0 .. d :
        /\ kept = SubSeq(indents, 1, k) /\ Len(SubSeq(indents, 1, k)) = k
        /\ Innermost(kept).size = b[k] /\ Innermost(kept).alt = a[k]
        /\ \A l \in 0 .. d : b[l] = q.size => l = k
  <2>1. Rising(b, d)
    BY <1>3, <1>4 DEF BlocksOf
  <2> QED
    BY <1>1, <1>4, <2>1, EnclosingIs
<1>7. /\ \A l \in 0 .. d : b[l] = q.size =>
           /\ DepthAt(narrow, m) = l /\ AlignedAt(narrow, m)
           /\ BlocksOf(narrow, m, Read(SubSeq(indents, 1, l), "size"), l)
      /\ AlignedAt(narrow, m) => q.size > b[d] \/ \E l \in 0 .. d : b[l] = q.size
  BY <1>1, <1>3, <1>4, LineIs
<1>8. /\ q.alt > a[d] => DepthAt(alt, m) = d + 1
      /\ \A l \in 0 .. d : a[l] = q.alt =>
           /\ DepthAt(alt, m) = l /\ AlignedAt(alt, m)
           /\ BlocksOf(alt, m, Read(SubSeq(indents, 1, l), "alt"), l)
      /\ AlignedAt(alt, m) => q.alt > a[d] \/ \E l \in 0 .. d : a[l] = q.alt
  BY <1>1, <1>3, <1>4, LineIs
<1> HIDE DEF narrow, alt, d, a, b, kept
<1>9. CASE q.size # Innermost(kept).size
  <2>1. lexer' = "INVALID_UNINDENT" /\ UNCHANGED <<indents, tokens>>
    BY <1>9 DEF Dedented, Ends, kept
  <2>2. ~(q.size > b[d])
    <3>1. d \in 0 .. d
      BY <1>1
    <3> QED
      BY <1>2, <1>4, <1>5, <3>1
  <2>3. ~AlignedAt(narrow, m)
    BY <1>6, <1>7, <1>9, <2>2
  <2>4. Judges(read', lexer', Len(indents'))
    BY <2>1, <2>3 DEF Judges, narrow
  <2> QED
    BY <1>1, <2>1, <2>4 DEF LexerInv, LexerTypes, TokensNest, BlocksRead, Judged, d
<1>10. CASE q.size = Innermost(kept).size /\ q.alt # Innermost(kept).alt
  <2>1. lexer' = "INCONSISTENT_INDENTATION" /\ UNCHANGED <<indents, tokens>>
    BY <1>10 DEF Dedented, Ends, kept
  <2>2. DepthAt(narrow, m) = k
    BY <1>6, <1>7, <1>10
  <2>3. ASSUME AlignedAt(alt, m) PROVE DepthAt(alt, m) # k
    <3>1. CASE q.alt > a[d]
      BY <1>1, <1>6, <1>8, <3>1
    <3>2. CASE \E l \in 0 .. d : a[l] = q.alt
      BY <1>6, <1>8, <1>10, <3>2
    <3> QED
      BY <1>8, <2>3, <3>1, <3>2
  <2>4. Judges(read', lexer', Len(indents'))
    BY <2>1, <2>2, <2>3 DEF Judges, narrow, alt
  <2> QED
    BY <1>1, <2>1, <2>4 DEF LexerInv, LexerTypes, TokensNest, BlocksRead, Judged, d
<1>11. CASE q.size = Innermost(kept).size /\ q.alt = Innermost(kept).alt
  <2>1. /\ indents' = kept /\ lexer' = "reading"
        /\ tokens' = tokens \o [i \in 1 .. Len(indents) - Len(kept) |-> "DEDENT"]
    BY <1>11 DEF Dedented, kept
  <2>2. indents' \in Seq(Column) /\ Len(indents') = k /\ indents' = SubSeq(indents, 1, k)
    BY <1>1, <1>6, <2>1, ReadCut DEF Which, d
  <2>3. b[k] = q.size /\ a[k] = q.alt
    BY <1>6, <1>11
  <2>4. ASSUME NEW w \in Which PROVE BlocksOf(Read(read', w), Len(read'), Read(indents', w), Len(indents'))
    <3>1. w = "size" \/ w = "alt"
      BY DEF Which
    <3> QED
      BY <1>7, <1>8, <2>2, <2>3, <3>1 DEF narrow, alt
  <2>5. Judges(read', lexer', Len(indents'))
    BY <1>7, <1>8, <2>1, <2>2, <2>3 DEF Judges, narrow, alt
  <2>6. /\ tokens' \in Seq(Token) /\ \A l \in 0 .. Len(tokens') : OpenIn(tokens', l) >= 0
        /\ OpenIn(tokens', Len(tokens')) = Len(indents')
    <3> DEFINE n == d - k
    <3>1. n \in 0 .. Len(indents) /\ Len(indents) - n = k /\ Len(indents) - Len(kept) = n
      BY <1>1, <1>6 DEF d
    <3> HIDE DEF n
    <3>2. tokens' = tokens \o [i \in 1 .. n |-> "DEDENT"]
      BY <2>1, <3>1
    <3> QED
      BY <2>2, <3>1, <3>2, TokensClose DEF LexerInv
  <2>7. Len(indents') <= MaxIndent
    BY <1>1, <1>6, <2>2
  <2> QED
    BY <1>1, <2>1, <2>2, <2>4, <2>5, <2>6, <2>7 DEF LexerInv, LexerTypes, TokensNest, BlocksRead, Judged
<1> QED
  BY <1>9, <1>10, <1>11

LEMMA LineKeeps ==
  ASSUME BlocksAssumption, LexerInv, NEW space \in Spaces, NEW text, Line(space, text)
  PROVE  LexerInv'
<1>1. CASE lexer = "starting" \/ inside \/ text = "blank"
  <2>1. lexer' = "reading" /\ UNCHANGED <<read, indents, tokens>> /\ lexer \in {"starting", "reading"}
    BY <1>1 DEF Line
  <2> QED
    BY <2>1 DEF LexerInv, LexerTypes, TokensNest, BlocksRead, Judged
<1>2. CASE ~(lexer = "starting" \/ inside \/ text = "blank")
  <2>1. /\ lexer = "reading" /\ read' = Append(read, Columns(space))
        /\ Indented(Columns(space)) \/ Dedented(Columns(space))
    BY <1>2 DEF Line
  <2>2. Columns(space) \in Column
    BY ColumnsAre
  <2> QED
    BY <2>1, <2>2, IndentedKeeps, DedentedKeeps
<1> QED
  BY <1>1, <1>2

LEMMA EndMarkerKeeps ==
  ASSUME BlocksAssumption, LexerInv, EndMarker
  PROVE  LexerInv'
<1>1. indents \in Seq(Column) /\ Len(indents) \in Nat /\ read \in Seq(Column) /\ MaxIndent \in Nat
  BY DEF LexerInv, LexerTypes, BlocksAssumption
<1>2. DOMAIN indents = 1 .. Len(indents)
  BY <1>1
<1>3. /\ tokens' = tokens \o [i \in 1 .. Len(indents) |-> "DEDENT"]
      /\ indents' = <<>> /\ lexer' = "ended" /\ read' = read
  BY <1>2 DEF EndMarker
<1>4. indents' \in Seq(Column) /\ Len(indents') = 0
  BY <1>3
<1>5. /\ tokens' \in Seq(Token) /\ \A k \in 0 .. Len(tokens') : OpenIn(tokens', k) >= 0
      /\ OpenIn(tokens', Len(tokens')) = Len(indents')
  <2> DEFINE n == Len(indents)
  <2>1. n \in 0 .. Len(indents) /\ Len(indents) - n = 0
    BY <1>1
  <2> HIDE DEF n
  <2>2. tokens' = tokens \o [i \in 1 .. n |-> "DEDENT"]
    BY <1>3 DEF n
  <2> QED
    BY <1>4, <2>1, <2>2, TokensClose DEF LexerInv
<1>6. Judges(read', lexer', Len(indents'))
  BY <1>3 DEF Judges
<1>7. LexerTypes'
  BY <1>1, <1>3, <1>4, <1>5 DEF LexerTypes
<1>8. TokensNest'
  BY <1>5 DEF TokensNest
<1>9. BlocksRead' /\ Judged'
  BY <1>3, <1>6 DEF BlocksRead, Judged
<1> QED
  BY <1>7, <1>8, <1>9 DEF LexerInv

LEMMA LexerInitHolds == ASSUME BlocksAssumption, LexerInit PROVE LexerInv
<1>1. read = <<>> /\ indents = <<>> /\ tokens = <<>> /\ lexer = "starting" /\ MaxIndent \in Nat
  BY DEF LexerInit, BlocksAssumption
<1>2. LexerTypes
  BY <1>1 DEF LexerTypes
<1>3. TokensNest
  <2>1. Those(tokens, 0, "INDENT") = {} /\ Those(tokens, 0, "DEDENT") = {}
    BY DEF Those
  <2>2. OpenIn(tokens, 0) = 0
    BY <2>1, FS_EmptySet DEF OpenIn
  <2>3. Len(tokens) = 0 /\ Len(indents) = 0
    BY <1>1
  <2> QED
    BY <2>2, <2>3 DEF TokensNest
<1>4. ASSUME NEW w \in Which PROVE BlocksOf(Read(read, w), Len(read), Read(indents, w), Len(indents))
  <2> DEFINE c == Read(<<>>, w)
  <2>1. c[0] = 0
    BY DEF Read
  <2> HIDE DEF c
  <2>2. Outer(c, 0) = {0} /\ 0 .. 0 = {0}
    BY DEF Outer
  <2>3. BlocksOf(c, 0, c, 0)
    BY <2>1, <2>2 DEF BlocksOf, Rising
  <2> QED
    BY <1>1, <2>3 DEF c
<1> QED
  BY <1>1, <1>2, <1>3, <1>4 DEF LexerInv, BlocksRead, Judged

\* What is true of the lexer after any lines of any files (lexer.cc:177-268, 535-550).
THEOREM LexerInvariant ==
  ASSUME BlocksAssumption PROVE LexerInit /\ [][LexerNext]_lexing => []LexerInv
<1>1. LexerInit => LexerInv
  BY LexerInitHolds
<1>2. LexerInv /\ [LexerNext]_lexing => LexerInv'
  <2> SUFFICES ASSUME LexerInv, [LexerNext]_lexing PROVE LexerInv'
    OBVIOUS
  <2>1. CASE LexerNext
    BY <2>1, LineKeeps, EndMarkerKeeps DEF LexerNext
  <2>2. CASE UNCHANGED lexing
    BY <2>2 DEF lexing, LexerInv, LexerTypes, TokensNest, BlocksRead, Judged
  <2> QED
    BY <2>1, <2>2
<1> QED
  BY <1>1, <1>2, PTL

\* A line is accepted exactly when both readings of tabs put it into the same blocks,
\* the ones its tokens leave open; the tokens nest and end closed: for files of any
\* length, any white space and tab widths and any depth that is allowed.
THEOREM BlocksAgreeHolds ==
  ASSUME BlocksAssumption PROVE LexerInit /\ [][LexerNext]_lexing => []BlocksAgree
<1>1. LexerInv => BlocksAgree
  <2> SUFFICES ASSUME LexerInv PROVE BlocksAgree
    OBVIOUS
  <2> DEFINE narrow == Read(read, "size")
             alt  == Read(read, "alt")
             n    == Len(read)
  <2>1. \A k : Open(k) = OpenIn(tokens, k)
    BY DEF Open, OpenIn, Those
  <2>2. Reading("size") = narrow /\ Reading("alt") = alt
    BY DEF Reading, Read
  <2>3. \A c : Aligned(c) <=> AlignedAt(c, n)
    BY DEF Aligned, AlignedAt
  <2>4. \A c : Depth(c) = DepthAt(c, n)
    BY DEF Depth, DepthAt
  <2>5. /\ Open(Len(tokens)) = Len(indents) /\ Len(indents) <= MaxIndent
        /\ lexer = "ended" => Open(Len(tokens)) = 0
    <3>1. lexer = "ended" => Len(indents) = 0
      BY DEF LexerInv, Judged
    <3> QED
      BY <2>1, <3>1 DEF LexerInv, LexerTypes, TokensNest
  <2>6. \A k \in DOMAIN tokens : Open(k) >= 0
    <3>1. DOMAIN tokens \subseteq 0 .. Len(tokens)
      BY DEF LexerInv, LexerTypes
    <3> QED
      BY <2>1, <3>1 DEF LexerInv, TokensNest
  <2>7. read # <<>> => Judges(read, lexer, Len(indents))
    BY DEF LexerInv, Judged
  <2> HIDE DEF narrow, alt, n
  <2> QED
    BY <2>2, <2>3, <2>4, <2>5, <2>6, <2>7 DEF BlocksAgree, Judges, narrow, alt, n
<1> QED
  BY <1>1, LexerInvariant, PTL
-----------------------------------------------------------------------------
(* Exact arithmetic.  Below, a number's limbs are followed from the highest *)
(* to the lowest: a chain has at each place what the limbs from there on    *)
(* amount to.  Sums, differences and rows of a product are compared with    *)
(* their operands place by place, with the carry or borrow between them.    *)

\* Induction on what numbers a set has.
LEMMA Upwards ==
  ASSUME NEW n \in Nat, NEW S, 0 \in S, \A i \in 1 .. n : i - 1 \in S => i \in S
  PROVE  \A i \in 0 .. n : i \in S
<1> DEFINE Out == {i \in 0 .. n : i \notin S}
<1>1. SUFFICES ASSUME Out # {} PROVE FALSE
  OBVIOUS
<1>2. PICK k \in Out : \A m \in Out : k <= m
  <2>1. Out \subseteq Nat
    OBVIOUS
  <2> HIDE DEF Out
  <2> QED
    BY <1>1, <2>1, LeastNumber
<1>3. k \in 1 .. n /\ k - 1 \in 0 .. n /\ ~(k <= k - 1) /\ k \notin S
  BY <1>2
<1>4. k - 1 \notin Out
  <2> HIDE DEF Out
  <2> QED
    BY <1>2, <1>3
<1> QED
  BY <1>3, <1>4

LEMMA Downwards ==
  ASSUME NEW n \in Nat, NEW S, n + 1 \in S, \A i \in 1 .. n : i + 1 \in S => i \in S
  PROVE  \A i \in 1 .. n + 1 : i \in S
<1> DEFINE R == {k \in 0 .. n : n + 1 - k \in S}
<1>1. 0 \in R
  OBVIOUS
<1>2. ASSUME NEW k \in 1 .. n, k - 1 \in R PROVE k \in R
  <2>1. n + 1 - k \in 1 .. n /\ (n + 1 - k) + 1 = n + 1 - (k - 1)
    OBVIOUS
  <2>2. (n + 1 - k) + 1 \in S
    BY <1>2, <2>1
  <2> QED
    BY <2>1, <2>2
<1>3. \A k \in 0 .. n : k \in R
  <2> HIDE DEF R
  <2> QED
    BY <1>1, <1>2, Upwards
<1> SUFFICES ASSUME NEW i \in 1 .. n + 1 PROVE i \in S
  OBVIOUS
<1>4. n + 1 - i \in 0 .. n /\ n + 1 - (n + 1 - i) = i
  OBVIOUS
<1>5. n + 1 - i \in R
  <2> HIDE DEF R
  <2> QED
    BY <1>3, <1>4
<1> QED
  BY <1>4, <1>5

\* A loop whose rounds keep to one set.
Loops(f, n, T, start, step) ==
  f \in [0 .. n -> T] /\ f[0] = start /\ \A i \in 1 .. n : f[i] = step[<<i, f[i - 1]>>]

LEMMA LoopExists ==
  ASSUME NEW n \in Nat, NEW T, NEW start \in T, NEW step,
         \A i \in 1 .. n : \A x \in T : step[<<i, x>>] \in T
  PROVE  \E f : Loops(f, n, T, start, step)
<1> DEFINE inv == [i \in 0 .. n |-> T]
<1>1. start \in inv[0]
  OBVIOUS
<1>3. \A i \in 0 .. n : inv[i] = T
  OBVIOUS
<1>2. \A i \in 1 .. n : \A x \in inv[i - 1] : step[<<i, x>>] \in inv[i]
  <2>1. \A i \in 1 .. n : i - 1 \in 0 .. n /\ i \in 0 .. n
    OBVIOUS
  <2> HIDE DEF inv
  <2> QED
    BY <1>3, <2>1
<1> HIDE DEF inv
<1>4. PICK f : Rounds(f, n, start, step, inv)
  BY <1>1, <1>2, IteratesExist
<1>5. f \in [0 .. n -> T]
  BY <1>3, <1>4 DEF Rounds
<1> QED
  BY <1>4, <1>5 DEF Rounds, Loops
-----------------------------------------------------------------------------
(* Numbers of limbs: at each place what the limbs from there on amount to.  *)

Chain(v, g, n) == v \in [1 .. n + 1 -> Int] /\ \A i \in 1 .. n : v[i] = v[i + 1] * Base + g[i]

LEMMA ChainExists ==
  ASSUME NumbersAssumption, NEW n \in Nat, NEW g, \A i \in 1 .. n : g[i] \in Int, NEW top \in Int
  PROVE  \E v : Chain(v, g, n) /\ v[n + 1] = top
<1> DEFINE step == [p \in (1 .. n) \X Int |-> p[2] * Base + g[n + 1 - p[1]]]
<1>0. Base \in Nat
  BY DEF NumbersAssumption
<1>1. ASSUME NEW i \in 1 .. n, NEW x \in Int PROVE step[<<i, x>>] = x * Base + g[n + 1 - i] /\ step[<<i, x>>] \in Int
  <2>1. step[<<i, x>>] = x * Base + g[n + 1 - i]
    OBVIOUS
  <2>2. n + 1 - i \in 1 .. n
    OBVIOUS
  <2>3. g[n + 1 - i] \in Int /\ x * Base \in Int
    BY <1>0, <2>2
  <2> QED
    BY <2>1, <2>3
<1> HIDE DEF step
<1>2. PICK f : Loops(f, n, Int, top, step)
  <2>1. PICK T : T = Int
    OBVIOUS
  <2>2. \A i \in 1 .. n : \A x \in T : step[<<i, x>>] \in T
    BY <1>1, <2>1
  <2>4. top \in T
    BY <2>1
  <2>3. \E f : Loops(f, n, T, top, step)
    BY <2>2, <2>4, LoopExists
  <2> QED
    BY <2>1, <2>3
<1> DEFINE v == [i \in 1 .. n + 1 |-> f[n + 1 - i]]
<1>3. v \in [1 .. n + 1 -> Int] /\ v[n + 1] = top
  BY <1>2 DEF Loops
<1>4. ASSUME NEW i \in 1 .. n PROVE v[i] = v[i + 1] * Base + g[i]
  <2>1. n + 1 - i \in 1 .. n /\ n + 1 - (i + 1) = (n + 1 - i) - 1 /\ n + 1 - (n + 1 - i) = i
        /\ i + 1 \in 1 .. n + 1 /\ i \in 1 .. n + 1 /\ (n + 1 - i) - 1 \in 0 .. n
    OBVIOUS
  <2>2. v[i] = f[n + 1 - i] /\ v[i + 1] = f[(n + 1 - i) - 1]
    BY <2>1
  <2> HIDE DEF v
  <2>3. f[n + 1 - i] = step[<<n + 1 - i, f[(n + 1 - i) - 1]>>] /\ f[(n + 1 - i) - 1] \in Int
    BY <1>2, <2>1 DEF Loops
  <2> QED
    BY <1>1, <2>1, <2>2, <2>3
<1> HIDE DEF v
<1> QED
  BY <1>3, <1>4 DEF Chain

\* A chain is what its limbs and its end say.
LEMMA ChainSame ==
  ASSUME NumbersAssumption, NEW n \in Nat, NEW g, NEW v, NEW w,
         Chain(v, g, n), Chain(w, g, n), v[n + 1] = w[n + 1]
  PROVE  \A i \in 1 .. n + 1 : v[i] = w[i]
<1> DEFINE S == {i \in 1 .. n + 1 : v[i] = w[i]}
<1>1. n + 1 \in S
  OBVIOUS
<1>2. \A i \in 1 .. n : i + 1 \in S => i \in S
  BY DEF Chain
<1> HIDE DEF S
<1>3. \A i \in 1 .. n + 1 : i \in S
  BY <1>1, <1>2, Downwards
<1> QED
  BY <1>3 DEF S

LEMMA ScaledNat == ASSUME NEW x \in Nat, NEW y \in Nat PROVE x * y \in Nat
  OBVIOUS

\* A chain that is not negative somewhere is not negative below, if its limbs are not.
LEMMA ChainNat ==
  ASSUME NumbersAssumption, NEW n \in Nat, NEW g, NEW v, Chain(v, g, n),
         \A i \in 1 .. n : g[i] \in Nat, v[n + 1] \in Nat
  PROVE  \A i \in 1 .. n + 1 : v[i] \in Nat
<1> DEFINE S == {i \in 1 .. n + 1 : v[i] \in Nat}
<1>1. n + 1 \in S
  OBVIOUS
<1>2. ASSUME NEW i \in 1 .. n, i + 1 \in S PROVE i \in S
  <2>1. v[i] = v[i + 1] * Base + g[i] /\ v[i + 1] \in Nat /\ g[i] \in Nat /\ Base \in Nat
    BY <1>2 DEF Chain, NumbersAssumption
  <2>2. v[i + 1] * Base \in Nat
    BY <2>1, ScaledNat
  <2> QED
    BY <2>1, <2>2
<1> HIDE DEF S
<1>3. \A i \in 1 .. n + 1 : i \in S
  BY <1>1, <1>2, Downwards
<1> QED
  BY <1>3 DEF S

\* A chain that is positive somewhere is positive below: no limb outweighs one above it.
LEMMA ChainPositiveBelow ==
  ASSUME NumbersAssumption, NEW n \in Nat, NEW g, NEW v, Chain(v, g, n),
         \A i \in 1 .. n : g[i] \in Int /\ g[i] > -Base, NEW k \in 1 .. n + 1, v[k] > 0
  PROVE  \A i \in 1 .. k : v[i] > 0
<1> DEFINE S == {i \in 1 .. k : v[i] > 0}
<1>1. k - 1 \in Nat /\ (k - 1) + 1 \in S /\ k \in S
  OBVIOUS
<1>2. ASSUME NEW i \in 1 .. k - 1, i + 1 \in S PROVE i \in S
  <2>1. /\ v[i] = v[i + 1] * Base + g[i] /\ v[i + 1] \in Int /\ v[i + 1] > 0
        /\ g[i] \in Int /\ g[i] > -Base /\ Base \in Nat
    BY <1>2 DEF Chain, NumbersAssumption
  <2>2. v[i + 1] - 1 \in Nat
    BY <2>1
  <2>3. (v[i + 1] - 1) * Base \in Nat
    BY <2>1, <2>2, ScaledNat
  <2>4. v[i + 1] * Base = (v[i + 1] - 1) * Base + Base
    BY <2>1
  <2>5. v[i + 1] * Base \in Int
    BY <2>1
  <2> QED
    BY <2>1, <2>3, <2>4, <2>5
<1> HIDE DEF S
<1>3. \A i \in 1 .. (k - 1) + 1 : i \in S
  BY <1>1, <1>2, Downwards
<1>4. (k - 1) + 1 = k
  OBVIOUS
<1> QED
  BY <1>3, <1>4 DEF S

LEMMA ChainPositive ==
  ASSUME NumbersAssumption, NEW n \in Nat, NEW g, NEW v, Chain(v, g, n),
         \A i \in 1 .. n : g[i] \in Int /\ g[i] > -Base, NEW k \in 1 .. n + 1, v[k] > 0
  PROVE  v[1] > 0
<1>1. \A i \in 1 .. k : v[i] > 0
  BY ChainPositiveBelow
<1>2. 1 \in 1 .. k
  OBVIOUS
<1> QED
  BY <1>1, <1>2

\* Above the highest limb there is nothing.
LEMMA ChainEnds ==
  ASSUME NumbersAssumption, NEW n \in Nat, NEW g, NEW v, Chain(v, g, n), v[n + 1] = 0,
         NEW k \in 1 .. n + 1, \A i \in k .. n : g[i] = 0
  PROVE  \A i \in k .. n + 1 : v[i] = 0
<1> DEFINE S == {i \in 1 .. n + 1 : i >= k => v[i] = 0}
<1>1. n + 1 \in S
  OBVIOUS
<1>2. ASSUME NEW i \in 1 .. n, i + 1 \in S PROVE i \in S
  <2> SUFFICES ASSUME i >= k PROVE v[i] = 0
    OBVIOUS
  <2>1. v[i + 1] = 0 /\ g[i] = 0 /\ v[i] = v[i + 1] * Base + g[i] /\ Base \in Nat
    BY <1>2 DEF Chain, NumbersAssumption
  <2> QED
    BY <2>1
<1> HIDE DEF S
<1>3. \A i \in 1 .. n + 1 : i \in S
  BY <1>1, <1>2, Downwards
<1> QED
  BY <1>3 DEF S

Limbs    == 0 .. Base - 1
Tight(x) == x \in Seq(Limbs) /\ (x # <<>> => x[Len(x)] # 0)

LEMMA BaseIs == ASSUME NumbersAssumption PROVE Base \in Nat /\ Base > 1 /\ Limbs \subseteq Nat
  BY DEF NumbersAssumption, Limbs

LEMMA LimbIs ==
  ASSUME NumbersAssumption, NEW x \in Seq(Limbs)
  PROVE  /\ Len(x) \in Nat
         /\ \A i : i \in 1 .. Len(x) => Limb(x, i) = x[i]
         /\ \A i : i \notin 1 .. Len(x) => Limb(x, i) = 0
         /\ \A i : Limb(x, i) \in Limbs
<1>1. Len(x) \in Nat /\ DOMAIN x = 1 .. Len(x) /\ \A i \in 1 .. Len(x) : x[i] \in Limbs
  BY LenProperties, ElementOfSeq
<1>2. 0 \in Limbs
  BY BaseIs DEF Limbs
<1> QED
  BY <1>1, <1>2 DEF Limb

\* What a sequence amounts to is its chain's lowest value.
LEMMA AmountStarts ==
  ASSUME NumbersAssumption, NEW x \in Seq(Limbs)
  PROVE  \E v : Chain(v, x, Len(x)) /\ v[Len(x) + 1] = 0 /\ v[1] = Amount(x)
<1> DEFINE n == Len(x)
           Loop(f) == f = [k \in 0 .. n |-> IF k = 0 THEN 0 ELSE f[k - 1] * Base + x[n + 1 - k]]
           sum == CHOOSE f : Loop(f)
<1>1. n \in Nat /\ \A i \in 1 .. n : x[i] \in Int
  BY ElementOfSeq, LenProperties, BaseIs
<1>2. Amount(x) = sum[n]
  BY DEF Amount
<1>3. PICK v : Chain(v, x, n) /\ v[n + 1] = 0
  <2> HIDE DEF n
  <2>1. PICK top : top = 0
    OBVIOUS
  <2>2. top \in Int
    BY <2>1
  <2>3. \E v : Chain(v, x, n) /\ v[n + 1] = top
    BY <1>1, <2>2, ChainExists
  <2> QED
    BY <2>1, <2>3
<1> DEFINE f == [k \in 0 .. n |-> v[n + 1 - k]]
<1> HIDE DEF n
<1>4. ASSUME NEW k \in 1 .. n PROVE f[k] = f[k - 1] * Base + x[n + 1 - k]
  <2>1. n + 1 - k \in 1 .. n /\ (n + 1 - k) + 1 = n + 1 - (k - 1) /\ k - 1 \in 0 .. n /\ k \in 0 .. n
    BY <1>1
  <2>2. f[k] = v[n + 1 - k] /\ f[k - 1] = v[(n + 1 - k) + 1]
    BY <2>1
  <2> HIDE DEF f
  <2> QED
    BY <1>3, <2>1, <2>2 DEF Chain
<1>5. f[0] = 0 /\ f[n] = v[1]
  BY <1>1, <1>3
<1>6. Loop(f)
  <2> DEFINE F(k) == IF k = 0 THEN 0 ELSE f[k - 1] * Base + x[n + 1 - k]
  <2>1. f = [k \in 0 .. n |-> f[k]]
    OBVIOUS
  <2>2. \A k \in 0 .. n : k = 0 \/ k \in 1 .. n
    BY <1>1
  <2> HIDE DEF f
  <2>3. \A k \in 0 .. n : f[k] = F(k)
    BY <1>4, <1>5, <2>2
  <2>4. f = [k \in 0 .. n |-> F(k)]
    <3> HIDE DEF F
    <3> QED
      BY <2>1, <2>3
  <2> QED
    BY <2>4
<1> HIDE DEF f
<1>7. Loop(sum)
  <2> HIDE DEF Loop
  <2> QED
    BY <1>6
<1> HIDE DEF sum
<1>8. sum[0] = 0 /\ \A k \in 1 .. n : sum[k] = sum[k - 1] * Base + x[n + 1 - k]
  <2> DEFINE F(k) == IF k = 0 THEN 0 ELSE sum[k - 1] * Base + x[n + 1 - k]
  <2>1. sum = [k \in 0 .. n |-> F(k)]
    BY <1>7
  <2>2. \A k \in 0 .. n : sum[k] = F(k)
    <3> HIDE DEF F
    <3> QED
      BY <2>1
  <2> QED
    BY <1>1, <2>2
<1> HIDE DEF Loop
<1>9. \A k \in 0 .. n : f[k] = sum[k]
  <2>1. PICK g : g = sum
    OBVIOUS
  <2>2. \A k \in 1 .. n : f[k - 1] = g[k - 1] => f[k] = g[k]
    BY <1>4, <1>8, <2>1
  <2>3. f[0] = g[0]
    BY <1>5, <1>8, <2>1
  <2>4. \A k \in 0 .. n : f[k] = g[k]
    BY <1>1, <2>2, <2>3, SameIterates
  <2> QED
    BY <2>1, <2>4
<1>10. v[1] = Amount(x)
  BY <1>1, <1>2, <1>5, <1>9
<1> QED
  BY <1>3, <1>10 DEF n

\* Limbs that are nought above the highest add nothing.
LEMMA AmountIs ==
  ASSUME NumbersAssumption, NEW x \in Seq(Limbs), NEW n \in Nat, Len(x) <= n,
         NEW g, \A i \in 1 .. n : g[i] = Limb(x, i), NEW v, Chain(v, g, n), v[n + 1] = 0
  PROVE  v[1] = Amount(x)
<1> DEFINE m == Len(x)
<1>1. PICK u : Chain(u, x, m) /\ u[m + 1] = 0 /\ u[1] = Amount(x)
  BY AmountStarts
<1> DEFINE w == [i \in 1 .. n + 1 |-> IF i <= m THEN u[i] ELSE 0]
<1>2. m \in Nat /\ m <= n /\ Base \in Nat
  BY LimbIs, BaseIs
<1>3. \A i : i \in 1 .. m => Limb(x, i) = x[i]
  BY LimbIs
<1>4. \A i : i \notin 1 .. m => Limb(x, i) = 0
  BY LimbIs
<1> HIDE DEF m
<1>5. w \in [1 .. n + 1 -> Int]
  BY <1>1, <1>2 DEF Chain
<1>6. ASSUME NEW i \in 1 .. n PROVE w[i] = w[i + 1] * Base + g[i]
  <2>1. CASE i < m
    <3>1. i \in 1 .. m /\ i + 1 <= m /\ i + 1 \in 1 .. n + 1 /\ i \in 1 .. n + 1
      BY <1>2, <2>1
    <3>2. w[i] = u[i] /\ w[i + 1] = u[i + 1]
      BY <3>1
    <3> HIDE DEF w
    <3> QED
      BY <1>1, <1>3, <3>1, <3>2 DEF Chain
  <2>2. CASE i = m
    <3>1. i \in 1 .. m /\ ~(i + 1 <= m) /\ i + 1 \in 1 .. n + 1 /\ i \in 1 .. n + 1
      BY <1>2, <2>2
    <3>2. w[i] = u[i] /\ w[i + 1] = 0
      BY <2>2, <3>1
    <3>3. u[i] = 0 * Base + x[i]
      BY <1>1, <2>2, <3>1 DEF Chain
    <3> HIDE DEF w
    <3> QED
      BY <1>3, <3>1, <3>2, <3>3
  <2>3. CASE i > m
    <3>1. ~(i <= m) /\ ~(i + 1 <= m) /\ i + 1 \in 1 .. n + 1 /\ i \in 1 .. n + 1 /\ i \notin 1 .. m
      BY <1>2, <2>3
    <3>2. w[i] = 0 /\ w[i + 1] = 0
      BY <3>1
    <3>3. g[i] = 0
      BY <1>4, <3>1
    <3> HIDE DEF w
    <3> QED
      BY <1>2, <3>2, <3>3
  <2> QED
    BY <1>2, <2>1, <2>2, <2>3
<1>7. w[n + 1] = 0
  BY <1>1, <1>2
<1>8. Chain(w, g, n)
  <2> HIDE DEF w
  <2> QED
    BY <1>5, <1>6 DEF Chain
<1>9. w[1] = u[1]
  <2>1. CASE m = 0
    BY <1>1, <1>2, <2>1
  <2>2. CASE m > 0
    BY <1>2, <2>2
  <2> QED
    BY <1>2, <2>1, <2>2
<1> HIDE DEF w
<1>10. \A i \in 1 .. n + 1 : v[i] = w[i]
  BY <1>7, <1>8, ChainSame
<1> QED
  BY <1>1, <1>9, <1>10

LEMMA PrefixIs ==
  ASSUME NEW S, NEW s \in Seq(S), NEW k \in 0 .. Len(s)
  PROVE  /\ SubSeq(s, 1, k) \in Seq(S) /\ Len(SubSeq(s, 1, k)) = k
         /\ \A i \in 1 .. k : SubSeq(s, 1, k)[i] = s[i]
<1>1. Len(s) \in Nat /\ k \in Int /\ 1 \in Int /\ \A i \in 1 .. k : i \in 1 .. Len(s) /\ s[i] \in S
  BY LenProperties, ElementOfSeq
<1>2. (IF 1 <= k THEN k - 1 + 1 ELSE 0) = k /\ k - 1 + 1 = k /\ \A i \in 1 .. k : 1 + i - 1 = i
  BY <1>1
<1>3. /\ SubSeq(s, 1, k) \in Seq(S) /\ Len(SubSeq(s, 1, k)) = IF 1 <= k THEN k - 1 + 1 ELSE 0
      /\ \A i \in 1 .. k - 1 + 1 : SubSeq(s, 1, k)[i] = s[1 + i - 1]
  BY <1>1, SubSeqProperties
<1> QED
  BY <1>2, <1>3

LEMMA SuffixIs ==
  ASSUME NEW S, NEW s \in Seq(S), NEW l \in 1 .. Len(s) + 1
  PROVE  /\ SubSeq(s, l, Len(s)) \in Seq(S) /\ Len(SubSeq(s, l, Len(s))) = Len(s) - l + 1
         /\ \A k \in 1 .. Len(s) - l + 1 : SubSeq(s, l, Len(s))[k] = s[l + k - 1]
<1>1. PICK n : n = Len(s)
  OBVIOUS
<1>2. n \in Int /\ l \in Int /\ l >= 1 /\ l <= n + 1
  BY <1>1, LenProperties
<1>3. \A i \in l .. n : s[i] \in S
  <2>1. \A i \in l .. n : i \in 1 .. Len(s)
    BY <1>1, <1>2
  <2> QED
    BY <2>1, ElementOfSeq
<1>4. /\ SubSeq(s, l, n) \in Seq(S) /\ Len(SubSeq(s, l, n)) = IF l <= n THEN n - l + 1 ELSE 0
      /\ \A k \in 1 .. n - l + 1 : SubSeq(s, l, n)[k] = s[l + k - 1]
  BY <1>2, <1>3, SubSeqProperties
<1>5. (IF l <= n THEN n - l + 1 ELSE 0) = n - l + 1
  BY <1>2
<1> QED
  BY <1>1, <1>4, <1>5

LEMMA ListedIs ==
  ASSUME NEW S, NEW n \in Nat, NEW f \in [1 .. n -> S]
  PROVE  f \in Seq(S) /\ Len(f) = n
  OBVIOUS

LEMMA TrimmedIs ==
  ASSUME NumbersAssumption, NEW x \in Seq(Limbs)
  PROVE  /\ Tight(Trimmed(x)) /\ Len(Trimmed(x)) <= Len(x)
         /\ Amount(Trimmed(x)) = Amount(x)
         /\ Tight(x) => Trimmed(x) = x
<1> DEFINE T == {0} \cup {i \in DOMAIN x : x[i] # 0}
           n == Len(x)
           k == Max(T)
           s == SubSeq(x, 1, k)
<1>1. n \in Nat /\ DOMAIN x = 1 .. n /\ \A i \in 1 .. n : x[i] \in Limbs
  BY LenProperties, ElementOfSeq
<1>2. k \in T /\ \A m \in T : m <= k
  <2>1. T \subseteq Nat /\ T # {} /\ \A m \in T : m <= n
    BY <1>1
  <2> HIDE DEF T
  <2> QED
    BY <1>1, <2>1, GreatestNumber
<1>3. k \in 0 .. n /\ (k # 0 => x[k] # 0) /\ \A i \in 1 .. n : i > k => x[i] = 0
  <2>1. \A m \in T : m = 0 \/ (m \in 1 .. n /\ x[m] # 0)
    BY <1>1
  <2>2. \A i \in 1 .. n : x[i] # 0 => i \in T
    BY <1>1
  <2>3. k = 0 \/ (k \in 1 .. n /\ x[k] # 0)
    <3> HIDE DEF T, k
    <3> QED
      BY <1>2, <2>1
  <2>4. k \in 0 .. n
    <3> HIDE DEF T, k
    <3> QED
      BY <1>1, <2>3
  <2>5. ASSUME NEW i \in 1 .. n, i > k PROVE x[i] = 0
    <3> HIDE DEF T, k
    <3> QED
      BY <1>1, <1>2, <2>2, <2>4, <2>5
  <2> QED
    BY <2>3, <2>4, <2>5
<1>4. Trimmed(x) = s
  BY DEF Trimmed
<1> HIDE DEF T, k
<1>5. s \in Seq(Limbs) /\ Len(s) = k /\ \A i \in 1 .. k : s[i] = x[i]
  BY <1>3, PrefixIs
<1> HIDE DEF s
<1>6. Tight(s)
  BY <1>1, <1>3, <1>5, EmptySeq DEF Tight
<1>7. Amount(s) = Amount(x)
  <2>1. PICK v : Chain(v, x, n) /\ v[n + 1] = 0 /\ v[1] = Amount(x)
    BY AmountStarts
  <2>2. ASSUME NEW i \in 1 .. n PROVE x[i] = Limb(s, i)
    <3>1. CASE i <= k
      <4>1. i \in 1 .. Len(s)
        BY <1>3, <1>5, <3>1
      <4> QED
        BY <1>5, <4>1, LimbIs
    <3>2. CASE i > k
      <4>1. i \notin 1 .. Len(s)
        BY <1>3, <1>5, <3>2
      <4>2. Limb(s, i) = 0
        BY <1>5, <4>1, LimbIs
      <4> QED
        BY <1>3, <3>2, <4>2
    <3> QED
      BY <1>3, <3>1, <3>2
  <2>3. Len(s) <= n
    BY <1>1, <1>3, <1>5
  <2>4. \A i \in 1 .. n : x[i] = Limb(s, i)
    BY <2>2
  <2> HIDE DEF n
  <2>5. v[1] = Amount(s)
    BY <1>1, <1>5, <2>1, <2>3, <2>4, AmountIs
  <2> QED
    BY <2>1, <2>5
<1>8. ASSUME Tight(x) PROVE s = x
  <2>1. k = n
    <3>1. CASE x = <<>>
      BY <1>1, <1>3, <3>1
    <3>2. CASE x # <<>>
      <4>1. n \in 1 .. n /\ x[n] # 0
        BY <1>1, <1>8, <3>2, EmptySeq DEF Tight
      <4>2. ~(n > k)
        BY <1>3, <4>1
      <4> HIDE DEF n
      <4> QED
        BY <1>1, <1>3, <4>2
    <3> QED
      BY <3>1, <3>2
  <2> QED
    BY <1>5, <2>1, SeqEqual
<1>9. Len(s) <= n
  BY <1>1, <1>3, <1>5
<1> QED
  BY <1>4, <1>6, <1>7, <1>8, <1>9

LEMMA AmountNat ==
  ASSUME NumbersAssumption, NEW x \in Seq(Limbs)
  PROVE  /\ Amount(x) \in Nat
         /\ Tight(x) /\ x # <<>> => Amount(x) > 0
         /\ x = <<>> => Amount(x) = 0
<1> DEFINE n == Len(x)
<1>1. PICK v : Chain(v, x, n) /\ v[n + 1] = 0 /\ v[1] = Amount(x)
  BY AmountStarts
<1>2. n \in Nat /\ \A i \in 1 .. n : x[i] \in Limbs /\ x[i] \in Nat /\ x[i] \in Int /\ x[i] > -Base
  BY LenProperties, ElementOfSeq, BaseIs DEF Limbs
<1> HIDE DEF n
<1>3. \A i \in 1 .. n + 1 : v[i] \in Nat
  <2>1. v[n + 1] \in Nat /\ \A i \in 1 .. n : x[i] \in Nat
    BY <1>1, <1>2
  <2> QED
    BY <1>1, <1>2, <2>1, ChainNat
<1>4. Amount(x) \in Nat
  <2>1. 1 \in 1 .. n + 1
    BY <1>2
  <2> QED
    BY <1>1, <1>3, <2>1
<1>5. ASSUME Tight(x), x # <<>> PROVE v[1] > 0
  <2>1. n \in 1 .. n /\ x[n] # 0
    BY <1>2, <1>5, EmptySeq DEF Tight, n
  <2>2. v[n] = 0 * Base + x[n] /\ n \in 1 .. n + 1
    BY <1>1, <1>2, <2>1 DEF Chain
  <2>3. v[n] > 0
    BY <1>2, <2>1, <2>2, BaseIs
  <2>4. \A i \in 1 .. n : x[i] \in Int /\ x[i] > -Base
    BY <1>2
  <2> QED
    BY <1>1, <1>2, <2>2, <2>3, <2>4, ChainPositive
<1>6. ASSUME x = <<>> PROVE Amount(x) = 0
  <2>1. n = 0
    BY <1>6 DEF n
  <2> QED
    BY <1>1, <2>1
<1> QED
  BY <1>1, <1>4, <1>5, <1>6

\* A number in so many limbs.
Wide(x, n) == [i \in 1 .. n |-> Limb(x, i)]

LEMMA WideChain ==
  ASSUME NumbersAssumption, NEW x \in Seq(Limbs), NEW n \in Nat, Len(x) <= n
  PROVE  /\ \E v : Chain(v, Wide(x, n), n) /\ v[n + 1] = 0 /\ v[1] = Amount(x)
         /\ \A i \in 1 .. n : Wide(x, n)[i] = Limb(x, i) /\ Wide(x, n)[i] \in Limbs
<1> DEFINE g == Wide(x, n)
<1>1. \A i \in 1 .. n : g[i] = Limb(x, i) /\ g[i] \in Limbs /\ g[i] \in Int
  BY LimbIs, BaseIs DEF Wide
<1> HIDE DEF g
<1>2. PICK top : top = 0
  OBVIOUS
<1>3. top \in Int /\ \A i \in 1 .. n : g[i] \in Int
  BY <1>1, <1>2
<1>4. PICK v : Chain(v, g, n) /\ v[n + 1] = top
  BY <1>3, ChainExists
<1>5. v[1] = Amount(x)
  <2>1. v[n + 1] = 0 /\ \A i \in 1 .. n : g[i] = Limb(x, i)
    BY <1>1, <1>2, <1>4
  <2> QED
    BY <1>4, <2>1, AmountIs
<1>6. \E u : Chain(u, g, n) /\ u[n + 1] = 0 /\ u[1] = Amount(x)
  BY <1>2, <1>4, <1>5
<1> QED
  BY <1>1, <1>6 DEF g

\* The higher of two limbs at the highest place where they differ decides.
LEMMA HigherLimb ==
  ASSUME NumbersAssumption, NEW a \in Seq(Limbs), NEW b \in Seq(Limbs),
         NEW n \in Nat, Len(a) <= n, Len(b) <= n, NEW k \in 1 .. n, Limb(a, k) < Limb(b, k),
         \A i \in 1 .. n : i > k => Limb(a, i) = Limb(b, i)
  PROVE  Amount(a) < Amount(b)
<1> DEFINE g == Wide(a, n)
           h == Wide(b, n)
           d == [i \in 1 .. n |-> h[i] - g[i]]
<1>1. \A i \in 1 .. n : /\ g[i] = Limb(a, i) /\ h[i] = Limb(b, i) /\ d[i] = h[i] - g[i]
                        /\ g[i] \in Limbs /\ h[i] \in Limbs
  BY WideChain
<1>2. Base \in Nat /\ \A i \in 1 .. n : g[i] \in Int /\ h[i] \in Int /\ d[i] \in Int /\ d[i] > -Base
  BY <1>1, BaseIs DEF Limbs
<1>4. PICK v : Chain(v, g, n) /\ v[n + 1] = 0 /\ v[1] = Amount(a)
  BY WideChain
<1>5. PICK w : Chain(w, h, n) /\ w[n + 1] = 0 /\ w[1] = Amount(b)
  BY WideChain
<1> HIDE DEF g, h, d
<1> DEFINE u == [i \in 1 .. n + 1 |-> w[i] - v[i]]
<1>8. Chain(u, d, n) /\ u[n + 1] = 0 /\ u[1] = w[1] - v[1]
  <2>1. \A i \in 1 .. n + 1 : v[i] \in Int /\ w[i] \in Int
    BY <1>4, <1>5 DEF Chain
  <2>2. u \in [1 .. n + 1 -> Int] /\ \A i \in 1 .. n + 1 : u[i] = w[i] - v[i]
    BY <2>1
  <2> HIDE DEF u
  <2>3. ASSUME NEW i \in 1 .. n PROVE u[i] = u[i + 1] * Base + d[i]
    <3>1. /\ i \in 1 .. n + 1 /\ i + 1 \in 1 .. n + 1
          /\ v[i] = v[i + 1] * Base + g[i] /\ w[i] = w[i + 1] * Base + h[i]
      BY <1>4, <1>5 DEF Chain
    <3>2. u[i] = w[i] - v[i] /\ u[i + 1] = w[i + 1] - v[i + 1] /\ d[i] = h[i] - g[i]
      BY <1>1, <2>2, <3>1
    <3>3. (w[i + 1] - v[i + 1]) * Base = w[i + 1] * Base - v[i + 1] * Base
      BY <1>2, <2>1, <3>1
    <3>5. w[i + 1] \in Int /\ v[i + 1] \in Int
      BY <2>1, <3>1
    <3>4. w[i + 1] * Base \in Int /\ v[i + 1] * Base \in Int /\ g[i] \in Int /\ h[i] \in Int
      BY <1>2, <3>5
    <3> QED
      BY <3>1, <3>2, <3>3, <3>4
  <2>4. Chain(u, d, n)
    BY <2>2, <2>3 DEF Chain
  <2>5. n + 1 \in 1 .. n + 1 /\ 1 \in 1 .. n + 1
    OBVIOUS
  <2> QED
    BY <1>4, <1>5, <2>2, <2>4, <2>5
<1> HIDE DEF u
<1>9. u[k + 1] = 0
  <2>0. PICK m : m = k + 1
    OBVIOUS
  <2>1. m \in 1 .. n + 1 /\ m \in m .. n + 1
    BY <2>0
  <2>2. \A i \in m .. n : d[i] = 0
    <3> SUFFICES ASSUME NEW i \in m .. n PROVE d[i] = 0
      OBVIOUS
    <3>1. i \in 1 .. n /\ i > k
      BY <2>0
    <3>2. d[i] = h[i] - g[i] /\ g[i] = h[i] /\ g[i] \in Int
      BY <1>1, <1>2, <3>1
    <3> QED
      BY <3>2
  <2>3. \A i \in m .. n + 1 : u[i] = 0
    BY <1>8, <2>1, <2>2, ChainEnds
  <2> QED
    BY <2>0, <2>1, <2>3
<1>10. u[k] > 0 /\ k \in 1 .. n + 1
  <2>1. u[k] = u[k + 1] * Base + d[k] /\ d[k] > 0 /\ d[k] \in Int
    <3>1. g[k] < h[k] /\ d[k] = h[k] - g[k] /\ g[k] \in Int /\ h[k] \in Int
      BY <1>1, <1>2
    <3>2. u[k] = u[k + 1] * Base + d[k]
      BY <1>8 DEF Chain
    <3> QED
      BY <3>1, <3>2
  <2> QED
    BY <1>2, <1>9, <2>1
<1>11. u[1] > 0
  <2>1. \A i \in 1 .. n : d[i] \in Int /\ d[i] > -Base
    BY <1>2
  <2> QED
    BY <1>8, <1>10, <2>1, ChainPositive
<1> QED
  BY <1>4, <1>5, <1>8, <1>11, AmountNat

LEMMA Longer ==
  ASSUME NumbersAssumption, NEW a, NEW b, Tight(a), Tight(b), Len(a) < Len(b)
  PROVE  Amount(a) < Amount(b)
<1> DEFINE n == Len(b)
<1>1. a \in Seq(Limbs) /\ b \in Seq(Limbs) /\ Len(a) \in Nat /\ n \in Nat
  BY LenProperties DEF Tight
<1>2. n \in 1 .. n /\ n \notin 1 .. Len(a) /\ b[n] # 0 /\ b[n] \in Limbs
  BY <1>1, ElementOfSeq, EmptySeq DEF Tight
<1>3. Limb(a, n) = 0 /\ Limb(b, n) = b[n]
  BY <1>1, <1>2, LimbIs
<1>4. Limb(a, n) < Limb(b, n)
  BY <1>2, <1>3, BaseIs DEF Limbs
<1>5. \A i \in 1 .. n : i > n => Limb(a, i) = Limb(b, i)
  BY <1>1
<1>6. Len(a) <= n /\ Len(b) <= n
  BY <1>1
<1> HIDE DEF n
<1> QED
  BY <1>1, <1>2, <1>4, <1>5, <1>6, HigherLimb

\* cmp compares the numbers.
LEMMA CmpIs ==
  ASSUME NumbersAssumption, NEW a, NEW b, Tight(a), Tight(b)
  PROVE  Cmp(a, b) = IF Amount(a) < Amount(b) THEN -1 ELSE IF Amount(a) = Amount(b) THEN 0 ELSE 1
<1> DEFINE n == Len(a)
           T == {j \in DOMAIN a : a[j] # b[j]}
           k == Max(T)
<1>1. /\ a \in Seq(Limbs) /\ b \in Seq(Limbs) /\ n \in Nat /\ Len(b) \in Nat /\ DOMAIN a = 1 .. n
      /\ Amount(a) \in Nat /\ Amount(b) \in Nat
  BY LenProperties, AmountNat DEF Tight
<1>2. CASE n < Len(b)
  BY <1>1, <1>2, Longer DEF Cmp
<1>3. CASE Len(b) < n
  <2>1. Amount(b) < Amount(a)
    BY <1>3, Longer
  <2> QED
    BY <1>1, <1>3, <2>1 DEF Cmp
<1>4. CASE n = Len(b) /\ a = b
  BY <1>1, <1>4 DEF Cmp
<1>5. CASE n = Len(b) /\ a # b
  <2>1. T # {} /\ T \subseteq Nat /\ \A m \in T : m <= n
    <3>1. \E i \in 1 .. n : a[i] # b[i]
      BY <1>1, <1>5, SeqEqual
    <3> QED
      BY <1>1, <3>1
  <2>2. k \in T /\ \A m \in T : m <= k
    <3> HIDE DEF T
    <3> QED
      BY <1>1, <2>1, GreatestNumber
  <2>3. k \in 1 .. n /\ a[k] # b[k] /\ \A i \in 1 .. n : i > k => a[i] = b[i]
    <3>1. \A m \in T : m \in 1 .. n /\ a[m] # b[m]
      BY <1>1
    <3>2. \A i \in 1 .. n : a[i] # b[i] => i \in T
      BY <1>1
    <3> HIDE DEF T, k
    <3>3. k \in 1 .. n /\ a[k] # b[k]
      BY <2>2, <3>1
    <3>4. ASSUME NEW i \in 1 .. n, i > k PROVE a[i] = b[i]
      BY <2>2, <3>2, <3>3, <3>4
    <3> QED
      BY <3>3, <3>4
  <2>4. Cmp(a, b) = IF a[k] < b[k] THEN -1 ELSE 1
    BY <1>5 DEF Cmp
  <2> HIDE DEF T, k
  <2>5. \A i \in 1 .. n : Limb(a, i) = a[i] /\ Limb(b, i) = b[i] /\ a[i] \in Nat /\ b[i] \in Nat
    BY <1>1, <1>5, LimbIs, BaseIs, ElementOfSeq
  <2>6. Len(a) <= n /\ Len(b) <= n
    BY <1>1, <1>5
  <2>7. \A i \in 1 .. n : i > k => Limb(a, i) = Limb(b, i) /\ Limb(b, i) = Limb(a, i)
    BY <2>3, <2>5
  <2> HIDE DEF n
  <2>8. CASE a[k] < b[k]
    <3>1. Limb(a, k) < Limb(b, k)
      BY <2>3, <2>5, <2>8
    <3>2. Amount(a) < Amount(b)
      BY <1>1, <2>3, <2>6, <2>7, <3>1, HigherLimb
    <3> QED
      BY <2>4, <2>8, <3>2
  <2>9. CASE b[k] < a[k]
    <3>1. Limb(b, k) < Limb(a, k)
      BY <2>3, <2>5, <2>9
    <3>2. Amount(b) < Amount(a)
      BY <1>1, <2>3, <2>6, <2>7, <3>1, HigherLimb
    <3>3. ~(a[k] < b[k])
      BY <2>3, <2>5, <2>9
    <3> QED
      BY <1>1, <2>4, <3>2, <3>3
  <2> QED
    BY <2>3, <2>5, <2>8, <2>9
<1> QED
  BY <1>1, <1>2, <1>3, <1>4, <1>5

LEMMA Divided ==
  ASSUME NumbersAssumption, NEW x \in Int
  PROVE  x \div Base \in Int /\ x % Base \in Limbs /\ x = (x \div Base) * Base + (x % Base)
<1>1. Base \in Int /\ Base > 0
  BY BaseIs
<1>2. x % Base \in 0 .. Base - 1
  BY <1>1
<1>3. x \div Base \in Int
  BY <1>1
<1>4. x = (x \div Base) * Base + (x % Base)
  BY <1>1
<1> QED
  BY <1>2, <1>3, <1>4 DEF Limbs

\* How large a quotient may be.
LEMMA QuotientFits ==
  ASSUME NumbersAssumption, NEW x \in Nat, NEW m \in Nat, x < m * Base
  PROVE  x \div Base \in 0 .. m - 1
<1> DEFINE q == x \div Base
<1>0. /\ q \in Int /\ x % Base \in Limbs /\ x = q * Base + (x % Base)
      /\ Base \in Nat /\ Base > 0
  BY Divided, BaseIs
<1>1. q \in Int /\ x % Base \in Nat /\ x % Base < Base /\ x = q * Base + (x % Base) /\ Base \in Nat /\ Base > 0
  BY <1>0 DEF Limbs
<1> HIDE DEF q
<1>2. ~(q < 0)
  <2> SUFFICES ASSUME q < 0 PROVE FALSE
    OBVIOUS
  <2>1. -q - 1 \in Nat
    BY <1>1
  <2>2. (-q - 1) * Base \in Nat
    BY <1>1, <2>1, ScaledNat
  <2>3. (-q - 1) * Base = -(q * Base) - Base
    BY <1>1
  <2>4. q * Base \in Int
    BY <1>1
  <2> QED
    BY <1>1, <2>2, <2>3, <2>4
<1>3. ~(q >= m)
  <2> SUFFICES ASSUME q >= m PROVE FALSE
    OBVIOUS
  <2>1. q - m \in Nat
    BY <1>1
  <2>2. (q - m) * Base \in Nat
    BY <1>1, <2>1, ScaledNat
  <2>3. (q - m) * Base = q * Base - m * Base
    BY <1>1
  <2>4. q * Base \in Int /\ m * Base \in Int
    BY <1>1
  <2> QED
    BY <1>1, <2>2, <2>3, <2>4
<1> QED
  BY <1>1, <1>2, <1>3 DEF q

LEMMA LongerOf ==
  ASSUME NEW m \in Nat, NEW n \in Nat
  PROVE  Max({m, n}) \in Nat /\ m <= Max({m, n}) /\ n <= Max({m, n})
<1> DEFINE T == {m, n}
<1>1. T \subseteq Nat /\ T # {} /\ m + n \in Nat /\ m \in T /\ n \in T /\ \A x \in T : x <= m + n
  OBVIOUS
<1> HIDE DEF T
<1>2. Max(T) \in T /\ \A x \in T : x <= Max(T)
  BY <1>1, GreatestNumber
<1>3. Max(T) \in Nat /\ m <= Max(T) /\ n <= Max(T)
  BY <1>1, <1>2
<1> QED
  BY <1>3 DEF T

\* The sums of limbs, each with what the one below carries over.
LEMMA PlusTotals ==
  ASSUME NumbersAssumption, NEW a \in Seq(Limbs), NEW b \in Seq(Limbs)
  PROVE  \E t : \E n \in Nat :
           /\ Len(a) <= n /\ Len(b) <= n
           /\ t[0] = 0 /\ \A i \in 1 .. n : t[i] = Limb(a, i) + Limb(b, i) + t[i - 1] \div Base
           /\ \A i \in 0 .. n : t[i] \in 0 .. 2 * Base - 1
           /\ Plus(a, b) = [i \in 1 .. n |-> t[i] % Base]
                           \o (IF t[n] < Base THEN <<>> ELSE <<t[n] \div Base>>)
<1> DEFINE n == Max({Len(a), Len(b)})
           T == 0 .. 2 * Base - 1
           Loop(f) == f = [i \in 0 .. n |-> IF i = 0 THEN 0
                                            ELSE Limb(a, i) + Limb(b, i) + f[i - 1] \div Base]
           t == CHOOSE f : Loop(f)
           step == [p \in (1 .. n) \X T |-> Limb(a, p[1]) + Limb(b, p[1]) + p[2] \div Base]
<1>1. n \in Nat /\ Len(a) <= n /\ Len(b) <= n
  BY LimbIs, LongerOf
<1>2. Plus(a, b) = [i \in 1 .. n |-> t[i] % Base] \o (IF t[n] < Base THEN <<>> ELSE <<t[n] \div Base>>)
  BY DEF Plus
<1> HIDE DEF n
<1>3. Base \in Nat /\ Base > 1 /\ 0 \in T
  BY BaseIs
<1>4. ASSUME NEW i \in 1 .. n, NEW x \in T
      PROVE  Limb(a, i) + Limb(b, i) + x \div Base \in T
  <2>1. Limb(a, i) \in 0 .. Base - 1 /\ Limb(b, i) \in 0 .. Base - 1
    BY LimbIs DEF Limbs
  <2>2. x \in Nat /\ x < 2 * Base /\ 2 \in Nat
    BY <1>3
  <2>3. x \div Base \in 0 .. 2 - 1
    BY <2>2, QuotientFits
  <2> QED
    BY <1>3, <2>1, <2>3
<1>5. \A i \in 1 .. n : \A x \in T : step[<<i, x>>] = Limb(a, i) + Limb(b, i) + x \div Base
  OBVIOUS
<1> HIDE DEF T, step
<1>6. PICK f : Loops(f, n, T, 0, step)
  <2>1. \A i \in 1 .. n : \A x \in T : step[<<i, x>>] \in T
    BY <1>4, <1>5
  <2> QED
    BY <1>1, <1>3, <2>1, LoopExists
<1>7. Loop(f)
  <2> DEFINE F(i) == IF i = 0 THEN 0 ELSE Limb(a, i) + Limb(b, i) + f[i - 1] \div Base
  <2>1. \A i \in 0 .. n : i = 0 \/ (i \in 1 .. n /\ i - 1 \in 0 .. n)
    BY <1>1
  <2>2. \A i \in 0 .. n : f[i] = F(i)
    BY <1>5, <1>6, <2>1 DEF Loops
  <2>3. f = [i \in 0 .. n |-> F(i)]
    <3> HIDE DEF F
    <3> QED
      BY <1>6, <2>2 DEF Loops
  <2> QED
    BY <2>3
<1>8. Loop(t)
  <2> HIDE DEF Loop
  <2> QED
    BY <1>7
<1> HIDE DEF t
<1>9. t[0] = 0 /\ \A i \in 1 .. n : t[i] = Limb(a, i) + Limb(b, i) + t[i - 1] \div Base
  <2> DEFINE F(i) == IF i = 0 THEN 0 ELSE Limb(a, i) + Limb(b, i) + t[i - 1] \div Base
  <2>1. t = [i \in 0 .. n |-> F(i)]
    BY <1>8
  <2>2. \A i \in 0 .. n : t[i] = F(i)
    <3> HIDE DEF F
    <3> QED
      BY <2>1
  <2> QED
    BY <1>1, <2>2
<1> HIDE DEF Loop
<1>10. \A i \in 0 .. n : t[i] \in T
  <2> DEFINE S == {i \in 0 .. n : t[i] \in T}
  <2>1. 0 \in S
    BY <1>1, <1>3, <1>9
  <2>2. ASSUME NEW i \in 1 .. n, i - 1 \in S PROVE i \in S
    <3>1. t[i - 1] \in T /\ t[i] = Limb(a, i) + Limb(b, i) + t[i - 1] \div Base
      BY <1>9, <2>2
    <3>2. t[i] \in T
      BY <1>4, <3>1
    <3> QED
      BY <3>2
  <2>3. \A i \in 0 .. n : i \in S
    <3> HIDE DEF S
    <3> QED
      BY <1>1, <2>1, <2>2, Upwards
  <2> QED
    BY <2>3
<1> QED
  BY <1>1, <1>2, <1>9, <1>10 DEF T

LEMMA CarriedOver ==
  ASSUME NEW u \in Int, NEW v \in Int, NEW c \in Int, NEW d \in Int, NEW p \in Int, NEW q \in Int,
         NEW l \in Int, NEW b \in Nat, p + q + d = c * b + l
  PROVE  (u * b + p) + (v * b + q) + d = (u + v + c) * b + l
<1>1. (u + v + c) * b = u * b + v * b + c * b
  OBVIOUS
<1>2. u * b \in Int /\ v * b \in Int /\ c * b \in Int
  OBVIOUS
<1> QED
  BY <1>1, <1>2

\* plus adds.
LEMMA PlusIs ==
  ASSUME NumbersAssumption, NEW a \in Seq(Limbs), NEW b \in Seq(Limbs)
  PROVE  Plus(a, b) \in Seq(Limbs) /\ Amount(Plus(a, b)) = Amount(a) + Amount(b)
<1>0. PICK t : \E n \in Nat :
           /\ Len(a) <= n /\ Len(b) <= n
           /\ t[0] = 0 /\ \A i \in 1 .. n : t[i] = Limb(a, i) + Limb(b, i) + t[i - 1] \div Base
           /\ \A i \in 0 .. n : t[i] \in 0 .. 2 * Base - 1
           /\ Plus(a, b) = [i \in 1 .. n |-> t[i] % Base]
                           \o (IF t[n] < Base THEN <<>> ELSE <<t[n] \div Base>>)
  BY PlusTotals
<1>1. PICK n \in Nat :
           /\ Len(a) <= n /\ Len(b) <= n
           /\ t[0] = 0 /\ \A i \in 1 .. n : t[i] = Limb(a, i) + Limb(b, i) + t[i - 1] \div Base
           /\ \A i \in 0 .. n : t[i] \in 0 .. 2 * Base - 1
           /\ Plus(a, b) = [i \in 1 .. n |-> t[i] % Base]
                           \o (IF t[n] < Base THEN <<>> ELSE <<t[n] \div Base>>)
  BY <1>0
<1> DEFINE c   == [i \in 0 .. n |-> t[i] \div Base]
           low == [i \in 1 .. n |-> t[i] % Base]
           top == IF t[n] < Base THEN <<>> ELSE <<t[n] \div Base>>
           R   == low \o top
           m   == n + 1
<1>2. Base \in Nat /\ Base > 1 /\ 0 \in Limbs /\ 1 \in Limbs
  BY BaseIs DEF Limbs
<1>3. \A i \in 0 .. n : /\ t[i] \in Int /\ c[i] = t[i] \div Base /\ c[i] \in {0, 1}
                        /\ t[i] % Base \in Limbs /\ t[i] = c[i] * Base + (t[i] % Base)
  <2> SUFFICES ASSUME NEW i \in 0 .. n
               PROVE  /\ t[i] \in Int /\ c[i] = t[i] \div Base /\ c[i] \in {0, 1}
                      /\ t[i] % Base \in Limbs /\ t[i] = c[i] * Base + (t[i] % Base)
    OBVIOUS
  <2>1. t[i] \in Nat /\ t[i] < 2 * Base /\ 2 \in Nat /\ t[i] \in Int
    BY <1>1, <1>2
  <2>2. t[i] \div Base \in 0 .. 2 - 1
    BY <2>1, QuotientFits
  <2>3. t[i] % Base \in Limbs /\ t[i] = (t[i] \div Base) * Base + (t[i] % Base)
    BY <2>1, Divided
  <2>4. c[i] = t[i] \div Base
    OBVIOUS
  <2> HIDE DEF c
  <2> QED
    BY <2>1, <2>2, <2>3, <2>4
<1>4. c[0] = 0
  <2>1. 0 \in Nat /\ 0 < 1 * Base /\ 1 \in Nat
    BY <1>2
  <2>2. 0 \div Base \in 0 .. 1 - 1
    BY <2>1, QuotientFits
  <2> QED
    BY <1>1, <2>2
<1>5. n \in 0 .. n /\ 0 \in 0 .. n /\ \A i \in 1 .. n : i \in 0 .. n /\ i - 1 \in 0 .. n
  BY <1>1
<1>6. low \in Seq(Limbs) /\ Len(low) = n /\ \A i \in 1 .. n : low[i] = t[i] % Base
  <2>1. low \in [1 .. n -> Limbs]
    BY <1>3, <1>5
  <2> HIDE DEF low
  <2>2. low \in Seq(Limbs) /\ Len(low) = n
    BY <1>1, <2>1, ListedIs
  <2> QED
    BY <2>2 DEF low
<1>7. top \in Seq(Limbs) /\ (c[n] = 0 => top = <<>>) /\ (c[n] = 1 => top = <<c[n]>>)
  <2>1. c[n] = t[n] \div Base /\ c[n] \in {0, 1} /\ t[n] = c[n] * Base + (t[n] % Base) /\ t[n] \in Int
        /\ t[n] % Base \in Limbs
    BY <1>3, <1>5
  <2> HIDE DEF c
  <2>2. c[n] = 0 <=> t[n] < Base
    <3>1. PICK v, q, l : v = t[n] /\ q = c[n] /\ l = t[n] % Base
      OBVIOUS
    <3>2. l \in Int /\ 0 <= l /\ l < Base /\ v \in Int /\ q \in {0, 1} /\ v = q * Base + l
      BY <1>2, <2>1, <3>1 DEF Limbs
    <3>3. (q = 0 => v = l) /\ (q = 1 => v = Base + l)
      BY <1>2, <3>2
    <3>4. q = 0 <=> v < Base
      BY <1>2, <3>2, <3>3
    <3> QED
      BY <3>1, <3>4
  <2> QED
    BY <1>2, <2>1, <2>2
<1> HIDE DEF c, low, top
<1>8. Plus(a, b) = R
  BY <1>1 DEF low, top
<1>9. /\ R \in Seq(Limbs) /\ Len(R) = n + Len(top)
      /\ \A i \in 1 .. n + Len(top) : R[i] = IF i <= n THEN low[i] ELSE top[i - n]
  <2>1. low \in Seq(Limbs) /\ top \in Seq(Limbs) /\ Len(low) = n
    BY <1>6, <1>7
  <2>2. /\ low \o top \in Seq(Limbs) /\ Len(low \o top) = Len(low) + Len(top)
        /\ \A i \in 1 .. Len(low) + Len(top) :
             (low \o top)[i] = IF i <= Len(low) THEN low[i] ELSE top[i - Len(low)]
    BY <2>1, ConcatProperties
  <2> QED
    BY <2>1, <2>2
<1> HIDE DEF R
<1>10. /\ Len(R) <= m /\ \A i \in 1 .. n : Limb(R, i) = low[i]
       /\ Limb(R, m) = c[n]
  <2>1. CASE c[n] = 0
    <3>6. Len(top) = 0
      BY <1>7, <2>1
    <3>1. Len(R) = n /\ n + Len(top) = n
      BY <1>1, <1>9, <3>6
    <3>2. m \notin 1 .. Len(R)
      BY <1>1, <3>1
    <3>3. Limb(R, m) = 0
      BY <1>9, <3>2, LimbIs
    <3>4. \A i \in 1 .. n : Limb(R, i) = R[i]
      BY <1>9, <3>1, LimbIs
    <3>7. \A i \in 1 .. n : i <= n /\ i \in 1 .. n + Len(top)
      BY <3>1
    <3>5. \A i \in 1 .. n : R[i] = low[i]
      BY <1>9, <3>7
    <3> QED
      BY <1>1, <2>1, <3>1, <3>3, <3>4, <3>5
  <2>2. CASE c[n] = 1
    <3>7. top = <<c[n]>>
      BY <1>7, <2>2
    <3>8. Len(top) = 1 /\ top[1] = c[n]
      BY <3>7
    <3>1. Len(R) = m /\ Len(top) = 1 /\ top[1] = c[n]
      BY <1>1, <1>9, <3>8
    <3>2. m \in 1 .. Len(R) /\ ~(m <= n) /\ m - n = 1
      BY <1>1, <3>1
    <3>3. Limb(R, m) = R[m] /\ R[m] = c[n]
      BY <1>9, <3>1, <3>2, LimbIs
    <3>4. \A i \in 1 .. n : i \in 1 .. Len(R) /\ i <= n
      BY <1>1, <3>1
    <3>5. \A i \in 1 .. n : R[i] = low[i]
      BY <1>9, <3>1, <3>4
    <3>6. \A i \in 1 .. n : Limb(R, i) = R[i]
      BY <1>9, <3>4, LimbIs
    <3> QED
      BY <1>1, <3>1, <3>3, <3>5, <3>6
  <2> QED
    BY <1>3, <1>5, <2>1, <2>2
<1>11. PICK u : Chain(u, Wide(a, n), n) /\ u[n + 1] = 0 /\ u[1] = Amount(a)
  BY <1>1, WideChain
<1>12. PICK v : Chain(v, Wide(b, n), n) /\ v[n + 1] = 0 /\ v[1] = Amount(b)
  BY <1>1, WideChain
<1>13. \A i \in 1 .. n : Wide(a, n)[i] = Limb(a, i) /\ Wide(b, n)[i] = Limb(b, i)
  BY <1>1, WideChain
<1>14. \A i \in 1 .. n : Limb(a, i) \in Int /\ Limb(b, i) \in Int
  BY LimbIs, BaseIs
<1> DEFINE w == [i \in 1 .. m + 1 |-> IF i = m + 1 THEN 0 ELSE u[i] + v[i] + c[i - 1]]
<1>15. \A i \in 1 .. m : i - 1 \in 0 .. n /\ u[i] \in Int /\ v[i] \in Int /\ c[i - 1] \in Int
  BY <1>1, <1>3, <1>11, <1>12 DEF Chain
<1>16. /\ w \in [1 .. m + 1 -> Int] /\ w[m + 1] = 0
       /\ \A i \in 1 .. m : w[i] = u[i] + v[i] + c[i - 1]
  <2>1. \A i \in 1 .. m : u[i] + v[i] + c[i - 1] \in Int
    BY <1>15
  <2>2. \A i \in 1 .. m + 1 : i = m + 1 \/ i \in 1 .. m
    BY <1>1
  <2>3. m + 1 \in 1 .. m + 1 /\ \A i \in 1 .. m : i \in 1 .. m + 1 /\ i # m + 1
    BY <1>1
  <2>4. w \in [1 .. m + 1 -> Int]
    BY <2>1, <2>2
  <2> QED
    BY <2>3, <2>4
<1> HIDE DEF w
<1>17. ASSUME NEW i \in 1 .. n PROVE w[i] = w[i + 1] * Base + low[i]
  <2>1. i \in 1 .. m /\ i + 1 \in 1 .. m /\ (i + 1) - 1 = i /\ i \in 0 .. n /\ i - 1 \in 0 .. n
    BY <1>1
  <2>2. w[i] = u[i] + v[i] + c[i - 1] /\ w[i + 1] = u[i + 1] + v[i + 1] + c[i]
    BY <1>16, <2>1
  <2>3. u[i] = u[i + 1] * Base + Limb(a, i) /\ v[i] = v[i + 1] * Base + Limb(b, i)
    BY <1>11, <1>12, <1>13 DEF Chain
  <2>4. c[i - 1] = t[i - 1] \div Base /\ t[i] = Limb(a, i) + Limb(b, i) + t[i - 1] \div Base
    BY <1>1, <1>3, <2>1
  <2>5. t[i] = c[i] * Base + low[i] /\ low[i] \in Int
    BY <1>3, <1>6, <2>1, BaseIs
  <2>6. /\ u[i + 1] \in Int /\ v[i + 1] \in Int /\ c[i] \in Int /\ c[i - 1] \in Int
        /\ Limb(a, i) \in Int /\ Limb(b, i) \in Int
    BY <1>3, <1>14, <1>15, <2>1
  <2>7. Limb(a, i) + Limb(b, i) + c[i - 1] = c[i] * Base + low[i]
    BY <2>4, <2>5
  <2>8. PICK x, y, e, d, p, q, l, z :
          /\ x = u[i + 1] /\ y = v[i + 1] /\ e = c[i] /\ d = c[i - 1]
          /\ p = Limb(a, i) /\ q = Limb(b, i) /\ l = low[i] /\ z = Base
    OBVIOUS
  <2>9. x \in Int /\ y \in Int /\ e \in Int /\ d \in Int /\ p \in Int /\ q \in Int /\ l \in Int /\ z \in Nat
    BY <1>2, <2>5, <2>6, <2>8
  <2>10. p + q + d = e * z + l
    BY <2>7, <2>8
  <2>11. (x * z + p) + (y * z + q) + d = (x + y + e) * z + l
    BY <2>9, <2>10, CarriedOver
  <2> QED
    BY <2>2, <2>3, <2>8, <2>11
<1>18. w[m] = w[m + 1] * Base + c[n]
  <2>1. u[m] = 0 /\ v[m] = 0 /\ m - 1 = n /\ m \in 1 .. m /\ c[n] \in Int
    BY <1>1, <1>3, <1>5, <1>11, <1>12
  <2>2. w[m] = 0 + 0 + c[n]
    BY <1>16, <2>1
  <2> QED
    BY <1>2, <1>16, <2>1, <2>2
<1>19. Chain(w, Wide(R, m), m)
  <2>1. \A i \in 1 .. m : Wide(R, m)[i] = Limb(R, i)
    BY DEF Wide
  <2>2. ASSUME NEW i \in 1 .. m PROVE w[i] = w[i + 1] * Base + Wide(R, m)[i]
    <3>1. i \in 1 .. n \/ i = m
      BY <1>1
    <3>2. CASE i \in 1 .. n
      BY <1>10, <1>17, <2>1, <3>2
    <3>3. CASE i = m
      BY <1>10, <1>18, <2>1, <3>3
    <3> QED
      BY <3>1, <3>2, <3>3
  <2> QED
    BY <1>16, <2>2 DEF Chain
<1>20. Amount(R) = w[1]
  <2>1. m \in Nat
    BY <1>1
  <2>2. \A i \in 1 .. m : Wide(R, m)[i] = Limb(R, i)
    BY DEF Wide
  <2>3. R \in Seq(Limbs) /\ Len(R) <= m /\ w[m + 1] = 0
    BY <1>9, <1>10, <1>16
  <2> HIDE DEF m
  <2> QED
    BY <1>19, <2>1, <2>2, <2>3, AmountIs
<1>21. w[1] = Amount(a) + Amount(b)
  <2>1. 1 \in 1 .. m /\ 1 - 1 = 0
    BY <1>1
  <2>2. w[1] = Amount(a) + Amount(b) + 0
    BY <1>4, <1>11, <1>12, <1>16, <2>1
  <2>3. Amount(a) \in Nat /\ Amount(b) \in Nat
    BY AmountNat
  <2> QED
    BY <2>2, <2>3
<1> QED
  BY <1>8, <1>9, <1>20, <1>21

\* A remainder is the number itself, or one base more.
LEMMA Reduced ==
  ASSUME NumbersAssumption, NEW x \in Int, NEW k \in {0, 1}, x + k * Base \in Limbs
  PROVE  x % Base = x + k * Base
<1> DEFINE q == x \div Base
           r == x % Base
           d == q + k
           y == x + k * Base
<1>1. Base \in Nat /\ Base > 0
  BY BaseIs
<1>2. q \in Int /\ r \in Limbs /\ x = q * Base + r
  BY Divided
<1> HIDE DEF q, r
<1>3. r \in Int /\ 0 <= r /\ r < Base /\ y \in Int /\ 0 <= y /\ y < Base /\ k \in Int
  BY <1>1, <1>2 DEF Limbs
<1>4. d \in Int /\ d * Base = q * Base + k * Base
  BY <1>1, <1>2, <1>3
<1>5. q * Base \in Int /\ k * Base \in Int
  BY <1>1, <1>2, <1>3
<1>6. y = x + k * Base
  OBVIOUS
<1> HIDE DEF d, y
<1>7. d * Base = y - r
  BY <1>2, <1>3, <1>4, <1>5, <1>6
<1>8. ~(d > 0)
  <2> SUFFICES ASSUME d > 0 PROVE FALSE
    OBVIOUS
  <2>1. d - 1 \in Nat
    BY <1>4
  <2>2. (d - 1) * Base \in Nat
    BY <1>1, <2>1, ScaledNat
  <2>3. (d - 1) * Base = d * Base - Base
    BY <1>1, <1>4
  <2> QED
    BY <1>1, <1>3, <1>7, <2>2, <2>3
<1>9. ~(d < 0)
  <2> SUFFICES ASSUME d < 0 PROVE FALSE
    OBVIOUS
  <2>1. -d - 1 \in Nat
    BY <1>4
  <2>2. (-d - 1) * Base \in Nat
    BY <1>1, <2>1, ScaledNat
  <2>3. (-d - 1) * Base = -(d * Base) - Base
    BY <1>1, <1>4
  <2>4. d * Base \in Int
    BY <1>1, <1>4
  <2> QED
    BY <1>1, <1>3, <1>7, <2>2, <2>3, <2>4
<1>10. d = 0
  BY <1>4, <1>8, <1>9
<1>11. 0 = y - r
  BY <1>1, <1>7, <1>10
<1>12. y = r
  BY <1>3, <1>11
<1> QED
  BY <1>6, <1>12 DEF r

\* The differences of limbs, each with what the one below borrows.
LEMMA MinusBorrows ==
  ASSUME NumbersAssumption, NEW a \in Seq(Limbs), NEW b \in Seq(Limbs)
  PROVE  \E t : \E out \in Seq(Limbs) :
           /\ Len(out) = Len(a) /\ Minus(a, b) = Trimmed(out)
           /\ t[0] = 0 /\ \A i \in 0 .. Len(a) : t[i] \in {0, 1}
           /\ \A i \in 1 .. Len(a) : Limb(a, i) - Limb(b, i) - t[i - 1] = -t[i] * Base + out[i]
<1> DEFINE n == Len(a)
           T == {0, 1}
           Loop(f) == f = [i \in 0 .. n |-> IF i = 0 THEN 0
                                            ELSE IF a[i] < Limb(b, i) + f[i - 1] THEN 1 ELSE 0]
           t == CHOOSE f : Loop(f)
           step == [p \in (1 .. n) \X T |-> IF a[p[1]] < Limb(b, p[1]) + p[2] THEN 1 ELSE 0]
           out == [i \in DOMAIN a |-> (a[i] - Limb(b, i) - t[i - 1]) % Base]
<1>1. n \in Nat /\ DOMAIN a = 1 .. n /\ \A i \in 1 .. n : a[i] = Limb(a, i)
  BY LimbIs, LenProperties
<1>2. Minus(a, b) = Trimmed(out)
  BY DEF Minus
<1> HIDE DEF n
<1>3. Base \in Nat /\ Base > 1 /\ 0 \in T
  BY BaseIs
<1>5. \A i \in 1 .. n : \A x \in T : /\ step[<<i, x>>] = IF a[i] < Limb(b, i) + x THEN 1 ELSE 0
                                     /\ step[<<i, x>>] \in T
  OBVIOUS
<1> HIDE DEF T, step
<1>6. PICK f : Loops(f, n, T, 0, step)
  <2>1. \A i \in 1 .. n : \A x \in T : step[<<i, x>>] \in T
    BY <1>5
  <2> QED
    BY <1>1, <1>3, <2>1, LoopExists
<1>7. Loop(f)
  <2> DEFINE F(i) == IF i = 0 THEN 0 ELSE IF a[i] < Limb(b, i) + f[i - 1] THEN 1 ELSE 0
  <2>1. \A i \in 0 .. n : i = 0 \/ (i \in 1 .. n /\ i - 1 \in 0 .. n)
    BY <1>1
  <2>2. \A i \in 0 .. n : f[i] = F(i)
    BY <1>5, <1>6, <2>1 DEF Loops
  <2>3. f = [i \in 0 .. n |-> F(i)]
    <3> HIDE DEF F
    <3> QED
      BY <1>6, <2>2 DEF Loops
  <2> QED
    BY <2>3
<1>8. Loop(t)
  <2> HIDE DEF Loop
  <2> QED
    BY <1>7
<1> HIDE DEF t
<1>9. t[0] = 0 /\ \A i \in 1 .. n : t[i] = IF a[i] < Limb(b, i) + t[i - 1] THEN 1 ELSE 0
  <2> DEFINE F(i) == IF i = 0 THEN 0 ELSE IF a[i] < Limb(b, i) + t[i - 1] THEN 1 ELSE 0
  <2>1. t = [i \in 0 .. n |-> F(i)]
    BY <1>8
  <2>2. \A i \in 0 .. n : t[i] = F(i)
    <3> HIDE DEF F
    <3> QED
      BY <2>1
  <2> QED
    BY <1>1, <2>2
<1> HIDE DEF Loop
<1>10. \A i \in 0 .. n : t[i] \in T
  <2>1. \A i \in 0 .. n : i = 0 \/ i \in 1 .. n
    BY <1>1
  <2> QED
    BY <1>9, <2>1 DEF T
<1>11. ASSUME NEW i \in 1 .. n
       PROVE  /\ Limb(a, i) - Limb(b, i) - t[i - 1] = -t[i] * Base + out[i]
              /\ out[i] \in Limbs
  <2> DEFINE x == a[i] - Limb(b, i) - t[i - 1]
  <2>1. a[i] \in 0 .. Base - 1 /\ Limb(b, i) \in 0 .. Base - 1 /\ a[i] = Limb(a, i)
    BY <1>1, LimbIs DEF Limbs
  <2>2. i - 1 \in 0 .. n /\ i \in 0 .. n
    BY <1>1
  <2>3. t[i - 1] \in {0, 1} /\ t[i] \in {0, 1}
    BY <1>10, <2>2 DEF T
  <2>4. x \in Int
    BY <1>3, <2>1, <2>3
  <2>5. x + t[i] * Base \in Limbs /\ t[i] * Base \in Int
    <3>1. CASE a[i] < Limb(b, i) + t[i - 1]
      <4>1. t[i] = 1 /\ 1 * Base = Base
        BY <1>3, <1>9, <3>1
      <4>2. t[i] * Base = Base
        BY <4>1
      <4>3. x + Base \in 0 .. Base - 1
        BY <1>3, <2>1, <2>3, <3>1
      <4> QED
        BY <1>3, <4>2, <4>3 DEF Limbs
    <3>2. CASE ~(a[i] < Limb(b, i) + t[i - 1])
      <4>1. t[i] = 0 /\ 0 * Base = 0
        BY <1>3, <1>9, <3>2
      <4>2. t[i] * Base = 0
        BY <4>1
      <4>3. x + 0 \in 0 .. Base - 1
        BY <1>3, <2>1, <2>3, <3>2
      <4> QED
        BY <1>3, <4>2, <4>3 DEF Limbs
    <3> QED
      BY <3>1, <3>2
  <2>6. out[i] = x % Base
    BY <1>1
  <2> HIDE DEF x
  <2>7. x % Base = x + t[i] * Base
    BY <2>3, <2>4, <2>5, Reduced
  <2>8. x = Limb(a, i) - Limb(b, i) - t[i - 1]
    BY <2>1 DEF x
  <2> HIDE DEF out
  <2>9. -t[i] * Base = -(t[i] * Base)
    BY <1>3, <2>3
  <2> QED
    BY <2>4, <2>5, <2>6, <2>7, <2>8, <2>9
<1>12. out \in Seq(Limbs) /\ Len(out) = n
  <2>1. out = [i \in 1 .. n |-> out[i]]
    BY <1>1
  <2> HIDE DEF out
  <2>2. out \in [1 .. n -> Limbs]
    BY <1>11, <2>1
  <2> QED
    BY <1>1, <2>2, ListedIs
<1> HIDE DEF out
<1>13. \A i \in 0 .. n : t[i] \in {0, 1}
  BY <1>10 DEF T
<1>14. \A i \in 1 .. n : Limb(a, i) - Limb(b, i) - t[i - 1] = -t[i] * Base + out[i]
  BY <1>11
<1> QED
  BY <1>2, <1>9, <1>12, <1>13, <1>14 DEF n

LEMMA Borrowed ==
  ASSUME NEW u \in Int, NEW v \in Int, NEW c \in Int, NEW d \in Int, NEW p \in Int, NEW q \in Int,
         NEW l \in Int, NEW b \in Nat, p - q - d = -c * b + l
  PROVE  (u * b + p) - (v * b + q) - d = (u - v - c) * b + l
<1>1. (u - v - c) * b = u * b - v * b - c * b
  OBVIOUS
<1>2. u * b \in Int /\ v * b \in Int /\ c * b \in Int /\ -c * b = -(c * b)
  OBVIOUS
<1> QED
  BY <1>1, <1>2

\* minus subtracts what is not more.
LEMMA MinusIs ==
  ASSUME NumbersAssumption, NEW a \in Seq(Limbs), NEW b \in Seq(Limbs),
         Len(b) <= Len(a), Amount(b) <= Amount(a)
  PROVE  Tight(Minus(a, b)) /\ Amount(Minus(a, b)) = Amount(a) - Amount(b)
<1> DEFINE n == Len(a)
<1>0. PICK t : \E out \in Seq(Limbs) :
           /\ Len(out) = n /\ Minus(a, b) = Trimmed(out)
           /\ t[0] = 0 /\ \A i \in 0 .. n : t[i] \in {0, 1}
           /\ \A i \in 1 .. n : Limb(a, i) - Limb(b, i) - t[i - 1] = -t[i] * Base + out[i]
  BY MinusBorrows
<1>1. PICK out \in Seq(Limbs) :
           /\ Len(out) = n /\ Minus(a, b) = Trimmed(out)
           /\ t[0] = 0 /\ \A i \in 0 .. n : t[i] \in {0, 1}
           /\ \A i \in 1 .. n : Limb(a, i) - Limb(b, i) - t[i - 1] = -t[i] * Base + out[i]
  BY <1>0
<1>2. n \in Nat /\ Len(b) <= n /\ Len(a) <= n /\ Base \in Nat /\ Base > 1
  BY LimbIs, BaseIs
<1> HIDE DEF n
<1>3. \A i \in 1 .. n : Limb(out, i) = out[i] /\ out[i] \in Int /\ 0 <= out[i] /\ out[i] < Base
  <2>1. \A i \in 1 .. n : Limb(out, i) = out[i] /\ out[i] \in Limbs
    BY <1>1, <1>2, LimbIs, ElementOfSeq
  <2> QED
    BY <1>2, <2>1 DEF Limbs
<1>4. \A i \in 1 .. n : Limb(a, i) \in Int /\ Limb(b, i) \in Int
  BY LimbIs, BaseIs
<1>11. PICK u : Chain(u, Wide(a, n), n) /\ u[n + 1] = 0 /\ u[1] = Amount(a)
  BY <1>2, WideChain
<1>12. PICK v : Chain(v, Wide(b, n), n) /\ v[n + 1] = 0 /\ v[1] = Amount(b)
  BY <1>2, WideChain
<1>13. \A i \in 1 .. n : Wide(a, n)[i] = Limb(a, i) /\ Wide(b, n)[i] = Limb(b, i)
  BY <1>2, WideChain
<1> DEFINE w == [i \in 1 .. n + 1 |-> u[i] - v[i] - t[i - 1]]
<1>15. \A i \in 1 .. n + 1 : u[i] \in Int /\ v[i] \in Int /\ i - 1 \in 0 .. n
  BY <1>2, <1>11, <1>12 DEF Chain
<1>16. \A i \in 0 .. n : t[i] \in Int
  BY <1>1
<1>17. w \in [1 .. n + 1 -> Int] /\ \A i \in 1 .. n + 1 : w[i] = u[i] - v[i] - t[i - 1]
  BY <1>15, <1>16
<1> HIDE DEF w
<1>18. ASSUME NEW i \in 1 .. n PROVE w[i] = w[i + 1] * Base + out[i]
  <2>1. i \in 1 .. n + 1 /\ i + 1 \in 1 .. n + 1 /\ (i + 1) - 1 = i /\ i \in 0 .. n /\ i - 1 \in 0 .. n
    BY <1>2
  <2>2. w[i] = u[i] - v[i] - t[i - 1] /\ w[i + 1] = u[i + 1] - v[i + 1] - t[i]
    BY <1>17, <2>1
  <2>3. u[i] = u[i + 1] * Base + Limb(a, i) /\ v[i] = v[i + 1] * Base + Limb(b, i)
    BY <1>11, <1>12, <1>13 DEF Chain
  <2>7. Limb(a, i) - Limb(b, i) - t[i - 1] = -t[i] * Base + out[i]
    BY <1>1
  <2>8. PICK x, y, e, d, p, q, l, z :
          /\ x = u[i + 1] /\ y = v[i + 1] /\ e = t[i] /\ d = t[i - 1]
          /\ p = Limb(a, i) /\ q = Limb(b, i) /\ l = out[i] /\ z = Base
    OBVIOUS
  <2>9. x \in Int /\ y \in Int /\ e \in Int /\ d \in Int /\ p \in Int /\ q \in Int /\ l \in Int /\ z \in Nat
    BY <1>2, <1>3, <1>4, <1>15, <1>16, <2>1, <2>8
  <2>10. p - q - d = -e * z + l
    BY <2>7, <2>8
  <2>11. (x * z + p) - (y * z + q) - d = (x - y - e) * z + l
    BY <2>9, <2>10, Borrowed
  <2> QED
    BY <2>2, <2>3, <2>8, <2>11
<1>19. w[1] = Amount(a) - Amount(b) /\ Amount(a) \in Nat /\ Amount(b) \in Nat
  <2>1. 1 \in 1 .. n + 1 /\ 1 - 1 = 0
    BY <1>2
  <2>2. Amount(a) \in Nat /\ Amount(b) \in Nat
    BY AmountNat
  <2> QED
    BY <1>1, <1>11, <1>12, <1>17, <2>1, <2>2
<1>20. w[n + 1] = 0 - t[n]
  <2>1. n + 1 \in 1 .. n + 1 /\ (n + 1) - 1 = n /\ n \in 0 .. n
    BY <1>2
  <2>2. w[n + 1] = 0 - 0 - t[n]
    BY <1>11, <1>12, <1>17, <2>1
  <2> QED
    BY <1>16, <2>1, <2>2
<1>21. t[n] # 1
  <2> SUFFICES ASSUME t[n] = 1 PROVE FALSE
    OBVIOUS
  <2> DEFINE g == [i \in 1 .. n |-> -out[i]]
             z == [i \in 1 .. n + 1 |-> -w[i]]
  <2>1. \A i \in 1 .. n : g[i] = -out[i] /\ g[i] \in Int /\ g[i] > -Base
    BY <1>2, <1>3
  <2>2. z \in [1 .. n + 1 -> Int] /\ \A i \in 1 .. n + 1 : z[i] = -w[i]
    BY <1>17
  <2> HIDE DEF g, z
  <2>3. ASSUME NEW i \in 1 .. n PROVE z[i] = z[i + 1] * Base + g[i]
    <3>1. i \in 1 .. n + 1 /\ i + 1 \in 1 .. n + 1
      BY <1>2
    <3>2. z[i] = -w[i] /\ z[i + 1] = -w[i + 1] /\ w[i + 1] \in Int
      BY <1>17, <2>2, <3>1
    <3>6. PICK y : y = w[i + 1]
      OBVIOUS
    <3>3. (-y) * Base = -(y * Base) /\ y * Base \in Int
      BY <1>2, <3>2, <3>6
    <3>4. w[i] = w[i + 1] * Base + out[i] /\ out[i] \in Int /\ g[i] = -out[i]
      BY <1>3, <1>18, <2>1
    <3>5. z[i + 1] = -y
      BY <3>2, <3>6
    <3>7. z[i + 1] * Base = -(y * Base)
      BY <3>3, <3>5
    <3>8. z[i] = -(y * Base + out[i])
      BY <3>2, <3>4, <3>6
    <3> QED
      BY <3>3, <3>4, <3>7, <3>8
  <2>4. Chain(z, g, n)
    BY <2>2, <2>3 DEF Chain
  <2>5. PICK m : m = n + 1
    OBVIOUS
  <2>6. m \in 1 .. n + 1 /\ z[m] > 0
    BY <1>2, <1>20, <2>2, <2>5
  <2>7. \A i \in 1 .. n : g[i] \in Int /\ g[i] > -Base
    BY <2>1
  <2>8. z[1] > 0
    BY <1>2, <2>4, <2>6, <2>7, ChainPositive
  <2>9. z[1] = -w[1]
    BY <1>2, <2>2
  <2> QED
    BY <1>19, <2>8, <2>9
<1>22. w[n + 1] = 0
  <2>1. n \in 0 .. n
    BY <1>2
  <2>2. t[n] = 0
    BY <1>1, <1>21, <2>1
  <2>3. PICK y : y = t[n]
    OBVIOUS
  <2>4. y \in Int /\ y = 0 /\ w[n + 1] = 0 - y
    BY <1>20, <2>2, <2>3
  <2> QED
    BY <2>4
<1>23. w[1] = Amount(out)
  <2>1. Chain(w, out, n)
    BY <1>17, <1>18 DEF Chain
  <2>2. Len(out) <= n /\ \A i \in 1 .. n : out[i] = Limb(out, i)
    BY <1>1, <1>2, <1>3
  <2> QED
    BY <1>2, <1>22, <2>1, <2>2, AmountIs
<1>24. Tight(Trimmed(out)) /\ Amount(Trimmed(out)) = Amount(out)
  BY TrimmedIs
<1> QED
  BY <1>1, <1>19, <1>23, <1>24

-----------------------------------------------------------------------------
(* Numbers with a sign.                                                     *)

\* What a Data record has to be, and what it stands for.
Sound(d) == /\ d = [limbs |-> d.limbs, positive |-> d.positive]
            /\ Tight(d.limbs) /\ d.positive \in BOOLEAN
            /\ d.limbs = <<>> => d.positive

Worth(d) == IF d.positive THEN Amount(d.limbs) ELSE 0 - Amount(d.limbs)

\* The two forms of a number.
Proper(v) == \/ \E n \in Payload : v = Small(n)
             \/ \E d : Sound(d) /\ v = Big(d) /\ Worth(d) \notin Payload

LEMMA SoundIs ==
  ASSUME NumbersAssumption, NEW d, Sound(d)
  PROVE  /\ d.limbs \in Seq(Limbs) /\ Len(d.limbs) \in Nat /\ Amount(d.limbs) \in Nat
         /\ Worth(d) \in Int /\ (d.positive <=> Worth(d) >= 0)
         /\ d.positive => Worth(d) = Amount(d.limbs)
         /\ ~d.positive => Worth(d) = 0 - Amount(d.limbs) /\ Amount(d.limbs) > 0
<1>1. d.limbs \in Seq(Limbs) /\ d.positive \in BOOLEAN /\ (~d.positive => d.limbs # <<>>) /\ Tight(d.limbs)
  BY DEF Sound, Tight
<1>2. Len(d.limbs) \in Nat /\ Amount(d.limbs) \in Nat /\ (d.limbs # <<>> => Amount(d.limbs) > 0)
  BY <1>1, LimbIs, AmountNat
<1> QED
  BY <1>1, <1>2 DEF Worth

LEMMA DataIs ==
  ASSUME NumbersAssumption, NEW x \in Seq(Limbs), NEW p \in BOOLEAN
  PROVE  Sound(Data(x, p)) /\ Worth(Data(x, p)) = IF p THEN Amount(x) ELSE 0 - Amount(x)
<1> DEFINE l == Trimmed(x)
           q == p \/ l = <<>>
           d == [limbs |-> l, positive |-> q]
<1>1. Data(x, p) = d
  BY DEF Data
<1>2. Tight(l) /\ Amount(l) = Amount(x) /\ Amount(l) \in Nat /\ (l = <<>> => Amount(l) = 0)
  <2>1. Tight(l) /\ Amount(l) = Amount(x)
    BY TrimmedIs
  <2> HIDE DEF l
  <2>2. l \in Seq(Limbs)
    BY <2>1 DEF Tight
  <2> QED
    BY <2>1, <2>2, AmountNat
<1>3. d.limbs = l /\ d.positive = q
  OBVIOUS
<1> HIDE DEF l
<1>4. q \in BOOLEAN /\ (l = <<>> => q) /\ (p => q) /\ (q => p \/ l = <<>>)
  OBVIOUS
<1> HIDE DEF q
<1>5. d = [limbs |-> d.limbs, positive |-> d.positive]
  BY <1>3
<1> HIDE DEF d
<1>6. Sound(d)
  BY <1>2, <1>3, <1>4, <1>5 DEF Sound
<1>7. Worth(d) = IF p THEN Amount(x) ELSE 0 - Amount(x)
  <2>1. CASE p
    BY <1>2, <1>3, <1>4, <2>1 DEF Worth
  <2>2. CASE ~p /\ l = <<>>
    BY <1>2, <1>3, <1>4, <2>2 DEF Worth
  <2>3. CASE ~p /\ l # <<>>
    BY <1>2, <1>3, <1>4, <2>3 DEF Worth
  <2> QED
    BY <2>1, <2>2, <2>3
<1> QED
  BY <1>1, <1>6, <1>7

\* One or two limbs are what fits a word.
LEMMA TwoLimbs ==
  ASSUME NumbersAssumption, NEW x \in Seq(Limbs), Len(x) <= 2
  PROVE  Amount(x) = Limb(x, 1) + Limb(x, 2) * Base
<1> DEFINE g == Wide(x, 2)
<1>1. PICK v : Chain(v, g, 2) /\ v[2 + 1] = 0 /\ v[1] = Amount(x)
  BY WideChain
<1>2. g[1] = Limb(x, 1) /\ g[2] = Limb(x, 2) /\ g[1] \in Limbs /\ g[2] \in Limbs
  <2>1. \A i \in 1 .. 2 : g[i] = Limb(x, i) /\ g[i] \in Limbs
    BY WideChain
  <2>2. 1 \in 1 .. 2 /\ 2 \in 1 .. 2
    OBVIOUS
  <2> HIDE DEF g
  <2> QED
    BY <2>1, <2>2
<1> HIDE DEF g
<1>3. v[2] = v[3] * Base + g[2] /\ v[1] = v[2] * Base + g[1] /\ v[3] = 0
  <2>1. \A i \in 1 .. 2 : v[i] = v[i + 1] * Base + g[i]
    BY <1>1 DEF Chain
  <2>2. 1 \in 1 .. 2 /\ 2 \in 1 .. 2 /\ 1 + 1 = 2 /\ 2 + 1 = 3
    OBVIOUS
  <2> QED
    BY <1>1, <2>1, <2>2
<1>4. Base \in Nat /\ g[1] \in Int /\ g[2] \in Int
  BY <1>2, BaseIs
<1>5. v[2] = g[2]
  BY <1>3, <1>4
<1>6. v[1] = g[2] * Base + g[1] /\ g[2] * Base \in Int
  BY <1>3, <1>4, <1>5
<1> QED
  BY <1>1, <1>2, <1>4, <1>6

LEMMA AtLeastOnce ==
  ASSUME NEW t \in Int, NEW y \in Nat, t > 0
  PROVE  t * y >= y
<1>1. t - 1 \in Nat
  OBVIOUS
<1>2. (t - 1) * y \in Nat
  BY <1>1, ScaledNat
<1>3. (t - 1) * y = t * y - y /\ t * y \in Int
  OBVIOUS
<1> QED
  BY <1>2, <1>3

\* More limbs are more than any word.
LEMMA ThreeLimbs ==
  ASSUME NumbersAssumption, NEW x, Tight(x), Len(x) > 2
  PROVE  Amount(x) >= Base * Base
<1> DEFINE n == Len(x)
<1>1. x \in Seq(Limbs) /\ n \in Nat /\ n > 2 /\ x[n] # 0 /\ x # <<>>
  BY LenProperties, EmptySeq DEF Tight
<1>2. PICK v : Chain(v, x, n) /\ v[n + 1] = 0 /\ v[1] = Amount(x)
  BY <1>1, AmountStarts
<1>3. Base \in Nat /\ Base > 1 /\ \A i \in 1 .. n : x[i] \in Int /\ x[i] >= 0 /\ x[i] > -Base
  <2>1. Base \in Nat /\ Base > 1 /\ \A i \in 1 .. n : x[i] \in Limbs
    BY <1>1, ElementOfSeq, BaseIs
  <2> HIDE DEF n
  <2> QED
    BY <2>1 DEF Limbs
<1> HIDE DEF n
<1>4. v[n] > 0 /\ n \in 1 .. n + 1 /\ 3 \in 1 .. n
  <2>1. n \in 1 .. n
    BY <1>1
  <2>2. v[n] = 0 * Base + x[n]
    BY <1>2, <2>1 DEF Chain
  <2>3. x[n] > 0 /\ 0 * Base = 0
    BY <1>1, <1>3, <2>1
  <2> QED
    BY <1>1, <1>3, <2>1, <2>2, <2>3
<1>5. v[3] > 0
  <2>1. \A i \in 1 .. n : x[i] \in Int /\ x[i] > -Base
    BY <1>3
  <2>2. \A i \in 1 .. n : v[i] > 0
    BY <1>1, <1>2, <1>4, <2>1, ChainPositiveBelow
  <2> QED
    BY <1>4, <2>2
<1>6. /\ v[1] = v[2] * Base + x[1] /\ v[2] = v[3] * Base + x[2]
      /\ v[2] \in Int /\ v[3] \in Int
  <2>1. 1 \in 1 .. n /\ 2 \in 1 .. n /\ 1 + 1 = 2 /\ 2 + 1 = 3 /\ 2 \in 1 .. n + 1 /\ 3 \in 1 .. n + 1
    BY <1>1
  <2>2. \A i \in 1 .. n : v[i] = v[i + 1] * Base + x[i]
    BY <1>2 DEF Chain
  <2>3. \A i \in 1 .. n + 1 : v[i] \in Int
    BY <1>2 DEF Chain
  <2> QED
    BY <2>1, <2>2, <2>3
<1>7. x[1] \in Nat /\ x[2] \in Nat
  BY <1>1, <1>3
<1>8. PICK y, z, t : y = v[1] /\ z = v[2] /\ t = v[3]
  OBVIOUS
<1>9. y \in Int /\ z \in Int /\ t \in Int /\ y = z * Base + x[1] /\ z = t * Base + x[2] /\ t > 0
  <2>1. v[1] \in Int
    BY <1>2, <1>1 DEF Chain
  <2> QED
    BY <1>5, <1>6, <1>8, <2>1
<1>10. z >= Base
  <2>1. t * Base >= Base
    BY <1>3, <1>9, AtLeastOnce
  <2>2. t * Base \in Int
    BY <1>3, <1>9
  <2>3. PICK r, q : r = t * Base /\ q = x[2]
    OBVIOUS
  <2>4. r \in Int /\ q \in Nat /\ z = r + q /\ r >= Base
    BY <1>7, <1>9, <2>1, <2>2, <2>3
  <2> QED
    BY <1>3, <2>4
<1>11. y >= Base * Base
  <2>1. (z - Base) * Base \in Nat
    BY <1>3, <1>9, <1>10, ScaledNat
  <2>2. (z - Base) * Base = z * Base - Base * Base /\ z * Base \in Int /\ Base * Base \in Int
    BY <1>3, <1>9
  <2> QED
    BY <1>3, <1>7, <1>9, <2>1, <2>2
<1> QED
  BY <1>2, <1>8, <1>11

LEMMA MeaningIs ==
  ASSUME NumbersAssumption
  PROVE  /\ \A n : Meaning(Small(n)) = n
         /\ \A d : Sound(d) => Meaning(Big(d)) = Worth(d)
<1>1. ASSUME NEW n PROVE Meaning(Small(n)) = n
  BY DEF Meaning, Small
<1>2. ASSUME NEW d, Sound(d) PROVE Meaning(Big(d)) = Worth(d)
  <2>1. Big(d).kind = "big" /\ Big(d).data = d
    BY DEF Big
  <2>2. Meaning(Big(d)) = IF d.positive THEN Amount(d.limbs) ELSE -Amount(d.limbs)
    BY <2>1 DEF Meaning
  <2>3. CASE d.positive
    BY <2>2, <2>3 DEF Worth
  <2>4. CASE ~d.positive
    <3>1. PICK y : y = Amount(d.limbs)
      OBVIOUS
    <3>2. y \in Nat /\ y > 0 /\ Worth(d) = 0 - y
      BY <1>2, <2>4, <3>1, SoundIs
    <3>3. -y = 0 - y
      BY <3>2
    <3> QED
      BY <2>2, <2>4, <3>1, <3>2, <3>3
  <2> QED
    BY <2>3, <2>4
<1> QED
  BY <1>1, <1>2

LEMMA WordsAre ==
  ASSUME NumbersAssumption
  PROVE  /\ \A n : n \in Word <=> n \in Int /\ 0 - WordSign <= n /\ n < WordSign
         /\ \A n : n \in Payload <=> n \in Int /\ 0 - PayloadSign <= n /\ n < PayloadSign
         /\ WordSign \in Nat /\ PayloadSign \in Nat /\ 0 < PayloadSign /\ PayloadSign <= WordSign
         /\ Base * Base \in Nat /\ WordSign < Base * Base
         /\ Payload \subseteq Word
<1>1. WordSign \in Nat /\ 2 * WordSign = Base * Base /\ PayloadSign \in 1 .. WordSign
  BY DEF NumbersAssumption
<1>2. PICK w, p, s : w = WordSign /\ p = PayloadSign /\ s = Base * Base
  OBVIOUS
<1>3. w \in Nat /\ s \in Nat /\ p \in Nat /\ p >= 1 /\ p <= w /\ w < s
  BY <1>1, <1>2
<1>4. Word = -w .. w - 1 /\ Payload = -p .. p - 1
  BY <1>2 DEF Word, Payload
<1> QED
  BY <1>2, <1>3, <1>4

LEMMA FinishIs ==
  ASSUME NumbersAssumption, NEW d, Sound(d)
  PROVE  Proper(Finish(d)) /\ Meaning(Finish(d)) = Worth(d)
<1> DEFINE mag == Limb(d.limbs, 1) + Limb(d.limbs, 2) * Base
           n   == IF d.positive THEN mag ELSE -mag
<1>1. Finish(d) = IF Len(d.limbs) <= 2 /\ n \in Payload THEN Small(n) ELSE Big(d)
  BY DEF Finish
<1>2. /\ d.limbs \in Seq(Limbs) /\ Len(d.limbs) \in Nat /\ Worth(d) \in Int
      /\ Tight(d.limbs) /\ d.positive \in BOOLEAN
  BY SoundIs DEF Sound
<1>3. ASSUME Len(d.limbs) <= 2 PROVE n = Worth(d)
  <2>1. PICK y : y = Amount(d.limbs)
    OBVIOUS
  <2>2. mag = y
    BY <1>2, <1>3, <2>1, TwoLimbs
  <2> HIDE DEF mag
  <2>3. y \in Nat
    BY <2>1, SoundIs
  <2>4. -y = 0 - y
    BY <2>3
  <2> QED
    BY <2>1, <2>2, <2>4 DEF Worth
<1>4. ASSUME Len(d.limbs) > 2 PROVE Worth(d) \notin Payload
  <2>1. PICK y, p, s : y = Amount(d.limbs) /\ p = PayloadSign /\ s = Base * Base
    OBVIOUS
  <2>2. y >= s /\ s \in Nat /\ p \in Nat /\ p <= WordSign /\ WordSign < s /\ WordSign \in Nat
    BY <1>2, <1>4, <2>1, ThreeLimbs, WordsAre
  <2>3. y \in Nat /\ (Worth(d) = y \/ Worth(d) = 0 - y)
    BY <2>1, SoundIs
  <2>4. ~(0 - p <= Worth(d) /\ Worth(d) < p)
    BY <2>2, <2>3
  <2> QED
    BY <2>1, <2>4, WordsAre
<1> HIDE DEF n
<1>5. CASE Len(d.limbs) <= 2 /\ n \in Payload
  BY <1>1, <1>3, <1>5, MeaningIs DEF Proper
<1>6. CASE ~(Len(d.limbs) <= 2 /\ n \in Payload)
  <2>1. Worth(d) \notin Payload
    BY <1>2, <1>3, <1>4, <1>6
  <2>2. Finish(d) = Big(d)
    BY <1>1, <1>6
  <2> QED
    BY <2>1, <2>2, MeaningIs DEF Proper
<1> QED
  BY <1>5, <1>6

LEMMA FromWordIs ==
  ASSUME NumbersAssumption, NEW n \in Word
  PROVE  Sound(FromWord(n)) /\ Worth(FromWord(n)) = n
<1> DEFINE x == <<Magnitude(n) % Base, Magnitude(n) \div Base>>
<1>1. PICK m : m = Magnitude(n)
  OBVIOUS
<1>2. n \in Int /\ m \in Nat /\ m < Base * Base /\ (n >= 0 => n = m) /\ (~(n >= 0) => n = 0 - m)
  <2>1. PICK s, w : s = Base * Base /\ w = WordSign
    OBVIOUS
  <2>2. n \in Int /\ 0 - w <= n /\ n < w /\ w < s /\ w \in Nat /\ s \in Nat
    BY <2>1, WordsAre
  <2>3. m = IF n < 0 THEN -n ELSE n
    BY <1>1 DEF Magnitude
  <2>4. m \in Nat /\ m < s /\ (n >= 0 => n = m) /\ (~(n >= 0) => n = 0 - m)
    BY <2>2, <2>3
  <2> QED
    BY <2>1, <2>2, <2>4
<1>3. m \div Base \in Limbs
  <2>1. m \div Base \in 0 .. Base - 1
    BY <1>2, BaseIs, QuotientFits
  <2> QED
    BY <2>1 DEF Limbs
<1>4. m \div Base \in Int /\ m % Base \in Limbs /\ m = (m \div Base) * Base + (m % Base)
  BY <1>2, Divided
<1>5. PICK h, l : h = m \div Base /\ l = m % Base
  OBVIOUS
<1>6. x = <<l, h>> /\ l \in Limbs /\ h \in Limbs /\ m = h * Base + l
  BY <1>1, <1>3, <1>4, <1>5
<1>7. FromWord(n) = Data(x, n >= 0)
  BY DEF FromWord
<1> HIDE DEF x
<1>8. x \in Seq(Limbs) /\ Len(x) = 2 /\ x[1] = l /\ x[2] = h
  BY <1>6
<1>9. Amount(x) = m
  <2>1. Limb(x, 1) = l /\ Limb(x, 2) = h
    <3>1. 1 \in 1 .. Len(x) /\ 2 \in 1 .. Len(x)
      BY <1>8
    <3> QED
      BY <1>8, <3>1, LimbIs
  <2>2. Amount(x) = Limb(x, 1) + Limb(x, 2) * Base
    <3>1. Len(x) <= 2
      BY <1>8
    <3> QED
      BY <1>8, <3>1, TwoLimbs
  <2>3. l \in Int /\ h * Base \in Int
    BY <1>6, BaseIs DEF Limbs
  <2> QED
    BY <1>6, <2>1, <2>2, <2>3
<1>10. CASE n >= 0
  <2>1. FromWord(n) = Data(x, TRUE)
    BY <1>7, <1>10
  <2> QED
    BY <1>2, <1>8, <1>9, <1>10, <2>1, DataIs
<1>11. CASE ~(n >= 0)
  <2>1. FromWord(n) = Data(x, FALSE)
    <3>1. (n >= 0) = FALSE
      BY <1>11
    <3> QED
      BY <1>7, <3>1
  <2> QED
    BY <1>2, <1>8, <1>9, <1>11, <2>1, DataIs
<1> QED
  BY <1>10, <1>11

LEMMA FromIntIs ==
  ASSUME NumbersAssumption, NEW n \in Word
  PROVE  Proper(FromInt(n)) /\ Meaning(FromInt(n)) = n
<1>1. CASE n \in Payload
  BY <1>1, MeaningIs DEF FromInt, Proper
<1>2. CASE n \notin Payload
  BY <1>2, MeaningIs, FromWordIs DEF FromInt, Proper
<1> QED
  BY <1>1, <1>2

LEMMA OperandIs ==
  ASSUME NumbersAssumption, NEW v, Proper(v)
  PROVE  /\ Sound(Operand(v)) /\ Worth(Operand(v)) = Meaning(v) /\ Meaning(v) \in Int
         /\ IsSmall(v) => v.n = Meaning(v) /\ Meaning(v) \in Payload
         /\ ~IsSmall(v) => Meaning(v) \notin Payload
<1>1. ASSUME NEW n \in Payload, v = Small(n)
      PROVE  Sound(Operand(v)) /\ Worth(Operand(v)) = n /\ Meaning(v) = n /\ IsSmall(v) /\ v.n = n
  <2>1. v.kind = "small" /\ v.n = n
    BY <1>1 DEF Small
  <2>2. n \in Word
    BY WordsAre
  <2> QED
    BY <1>1, <2>1, <2>2, FromWordIs, MeaningIs DEF Operand, IsSmall
<1>2. ASSUME NEW d, Sound(d), v = Big(d)
      PROVE  Operand(v) = d /\ Meaning(v) = Worth(d) /\ ~IsSmall(v)
  <2>1. v.kind = "big" /\ v.data = d
    BY <1>2 DEF Big
  <2> QED
    BY <1>2, <2>1, MeaningIs DEF Operand, IsSmall
<1>3. \A n \in Payload : n \in Int
  BY WordsAre
<1>4. CASE \E n \in Payload : v = Small(n)
  <2>1. PICK n \in Payload : v = Small(n)
    BY <1>4
  <2> QED
    BY <1>1, <1>3, <2>1
<1>5. CASE \E d : Sound(d) /\ v = Big(d) /\ Worth(d) \notin Payload
  <2>1. PICK d : Sound(d) /\ v = Big(d) /\ Worth(d) \notin Payload
    BY <1>5
  <2>2. Worth(d) \in Int
    BY <2>1, SoundIs
  <2> QED
    BY <1>2, <2>1, <2>2
<1> QED
  BY <1>4, <1>5 DEF Proper

LEMMA SignedAddIs ==
  ASSUME NumbersAssumption, NEW a, NEW b, Sound(a), Sound(b), NEW subtract \in BOOLEAN
  PROVE  /\ Sound(SignedAdd(a, b, subtract))
         /\ Worth(SignedAdd(a, b, subtract)) = IF subtract THEN Worth(a) - Worth(b) ELSE Worth(a) + Worth(b)
<1> DEFINE positive == b.positive # subtract
<1>1. PICK x, y : x = a.limbs /\ y = b.limbs
  OBVIOUS
<1>2. PICK p, q, r : p = a.positive /\ q = b.positive /\ r = positive
  OBVIOUS
<1>3. p \in BOOLEAN /\ q \in BOOLEAN /\ r \in BOOLEAN /\ Tight(x) /\ Tight(y) /\ x \in Seq(Limbs) /\ y \in Seq(Limbs)
  BY <1>1, <1>2, SoundIs DEF Sound
<1>4. PICK m, n : m = Amount(x) /\ n = Amount(y)
  OBVIOUS
<1>5. m \in Nat /\ n \in Nat /\ Len(x) \in Nat /\ Len(y) \in Nat
  BY <1>1, <1>4, SoundIs
<1>6. Worth(a) = IF p THEN m ELSE 0 - m
  BY <1>1, <1>2, <1>4 DEF Worth
<1>7. Worth(b) = IF q THEN n ELSE 0 - n
  BY <1>1, <1>2, <1>4 DEF Worth
<1>8. r = (q # subtract)
  BY <1>2
<1>9. (IF subtract THEN Worth(a) - Worth(b) ELSE Worth(a) + Worth(b))
        = (IF p THEN m ELSE 0 - m) + (IF r THEN n ELSE 0 - n)
  <2>1. PICK u, v : u = Worth(a) /\ v = Worth(b)
    OBVIOUS
  <2>2. u \in Int /\ v \in Int /\ u = IF p THEN m ELSE 0 - m
    BY <1>5, <1>6, <1>7, <2>1
  <2>3. (IF r THEN n ELSE 0 - n) = IF subtract THEN 0 - v ELSE v
    <3>1. CASE subtract
      <4>1. CASE q
        BY <1>3, <1>5, <1>7, <1>8, <2>1, <3>1, <4>1
      <4>2. CASE ~q
        <5>1. r
          BY <1>3, <1>8, <3>1, <4>2
        <5>2. v = 0 - n
          BY <1>7, <2>1, <4>2
        <5>3. 0 - v = n
          BY <1>5, <5>2
        <5> QED
          BY <3>1, <5>1, <5>3
      <4> QED
        BY <1>3, <4>1, <4>2
    <3>2. CASE ~subtract
      <4>1. r = q
        BY <1>3, <1>8, <3>2
      <4> QED
        BY <1>3, <1>5, <1>7, <2>1, <3>2, <4>1
    <3> QED
      BY <3>1, <3>2
  <2>4. (IF subtract THEN u - v ELSE u + v) = u + (IF subtract THEN 0 - v ELSE v)
    BY <2>2
  <2> QED
    BY <2>1, <2>2, <2>3, <2>4
<1>10. SignedAdd(a, b, subtract) =
         IF p = r THEN Data(Plus(x, y), p)
         ELSE IF Cmp(x, y) > 0 THEN Data(Minus(x, y), p) ELSE Data(Minus(y, x), r)
  BY <1>1, <1>2 DEF SignedAdd
<1>11. PICK s : s = SignedAdd(a, b, subtract)
  OBVIOUS
<1>12. Sound(s) /\ Worth(s) = (IF p THEN m ELSE 0 - m) + (IF r THEN n ELSE 0 - n)
  <2>1. CASE p = r
    <3>1. Plus(x, y) \in Seq(Limbs) /\ Amount(Plus(x, y)) = m + n
      BY <1>3, <1>4, PlusIs
    <3>2. s = Data(Plus(x, y), p)
      BY <1>10, <1>11, <2>1
    <3>3. Sound(s) /\ Worth(s) = IF p THEN m + n ELSE 0 - (m + n)
      BY <1>3, <3>1, <3>2, DataIs
    <3> QED
      BY <1>3, <1>5, <2>1, <3>3
  <2>2. Cmp(x, y) = IF m < n THEN -1 ELSE IF m = n THEN 0 ELSE 1
    BY <1>3, <1>4, CmpIs
  <2>3. CASE p # r /\ n < m
    <3>1. s = Data(Minus(x, y), p)
      BY <1>5, <1>10, <1>11, <2>2, <2>3
    <3>2. Len(y) <= Len(x)
      BY <1>3, <1>4, <1>5, <2>3, Longer
    <3>3. Tight(Minus(x, y)) /\ Amount(Minus(x, y)) = m - n
      BY <1>3, <1>4, <1>5, <2>3, <3>2, MinusIs
    <3>4. Minus(x, y) \in Seq(Limbs)
      BY <3>3 DEF Tight
    <3>5. Sound(s) /\ Worth(s) = IF p THEN m - n ELSE 0 - (m - n)
      BY <1>3, <3>1, <3>3, <3>4, DataIs
    <3> QED
      BY <1>3, <1>5, <2>3, <3>5
  <2>4. CASE p # r /\ m <= n
    <3>1. s = Data(Minus(y, x), r)
      BY <1>5, <1>10, <1>11, <2>2, <2>4
    <3>2. Len(x) <= Len(y)
      BY <1>3, <1>4, <1>5, <2>4, Longer
    <3>3. Tight(Minus(y, x)) /\ Amount(Minus(y, x)) = n - m
      BY <1>3, <1>4, <1>5, <2>4, <3>2, MinusIs
    <3>4. Minus(y, x) \in Seq(Limbs)
      BY <3>3 DEF Tight
    <3>5. Sound(s) /\ Worth(s) = IF r THEN n - m ELSE 0 - (n - m)
      BY <1>3, <3>1, <3>3, <3>4, DataIs
    <3> QED
      BY <1>3, <1>5, <2>4, <3>5
  <2> QED
    BY <1>5, <2>1, <2>3, <2>4
<1> QED
  BY <1>9, <1>11, <1>12

-----------------------------------------------------------------------------
(* Products.                                                                *)

\* What two limbs multiply to, with two limbs added, are two limbs.
LEMMA LimbProduct ==
  ASSUME NumbersAssumption, NEW x \in Limbs, NEW y \in Limbs, NEW u \in Limbs, NEW w \in Limbs
  PROVE  x * y + u + w \in Nat /\ x * y + u + w < Base * Base /\ x * y \in Nat
<1>1. PICK m : m = Base - 1
  OBVIOUS
<1>2. m \in Nat /\ Base = m + 1 /\ x \in 0 .. m /\ y \in 0 .. m /\ u \in 0 .. m /\ w \in 0 .. m
  BY <1>1, BaseIs DEF Limbs
<1>3. Base * Base = m * m + m + m + 1 /\ m * m \in Nat
  <2>1. Base * Base = (m + 1) * (m + 1)
    BY <1>2
  <2>2. (m + 1) * (m + 1) = m * m + m + m + 1 /\ m * m \in Int
    BY <1>2
  <2> QED
    BY <1>2, <2>1, <2>2, ScaledNat
<1>4. x * y \in Nat /\ x * y <= x * m
  <2>1. m - y \in Nat /\ x \in Nat
    BY <1>2
  <2>2. x * (m - y) \in Nat /\ x * y \in Nat /\ x * m \in Nat
    BY <1>2, <2>1, ScaledNat
  <2>3. x * (m - y) = x * m - x * y
    BY <1>2
  <2> QED
    BY <2>2, <2>3
<1>5. x * m \in Nat /\ x * m <= m * m
  <2>1. m - x \in Nat
    BY <1>2
  <2>2. (m - x) * m \in Nat /\ x * m \in Nat /\ m * m \in Nat
    BY <1>2, <2>1, ScaledNat
  <2>3. (m - x) * m = m * m - x * m
    BY <1>2
  <2> QED
    BY <2>2, <2>3
<1>6. PICK p, q, r : p = x * y /\ q = x * m /\ r = m * m
  OBVIOUS
<1>7. p \in Nat /\ q \in Nat /\ r \in Nat /\ p <= q /\ q <= r /\ Base * Base = r + m + m + 1
  BY <1>3, <1>4, <1>5, <1>6
<1>8. p + u + w \in Nat /\ p + u + w < r + m + m + 1
  BY <1>2, <1>7
<1> QED
  BY <1>6, <1>7, <1>8

LEMMA CarryFits ==
  ASSUME NumbersAssumption, NEW x \in 0 .. Base * Base - 1
  PROVE  x \div Base \in Limbs
<1>1. PICK s : s = Base * Base
  OBVIOUS
<1>2. s \in Nat /\ x \in Nat /\ x < s /\ Base \in Nat
  BY <1>1, WordsAre, BaseIs
<1>3. x \div Base \in 0 .. Base - 1
  BY <1>1, <1>2, QuotientFits
<1> QED
  BY <1>3 DEF Limbs

\* The totals of one row.
LEMMA RowTotals ==
  ASSUME NumbersAssumption, NEW a \in Seq(Limbs), NEW b \in Seq(Limbs), NEW out \in Seq(Limbs),
         Len(out) = Len(a) + Len(b), NEW i \in 1 .. Len(a)
  PROVE  \E t :
           /\ t[0] = 0
           /\ \A j \in 1 .. Len(b) : t[j] = a[i] * b[j] + out[i + j - 1] + t[j - 1] \div Base
           /\ \A j \in 0 .. Len(b) : t[j] \in 0 .. Base * Base - 1
           /\ Row(a, b, out, i) =
                SubSeq(out, 1, i - 1) \o [j \in 1 .. Len(b) |-> t[j] % Base]
                \o <<t[Len(b)] \div Base>> \o SubSeq(out, i + Len(b) + 1, Len(out))
<1> DEFINE n == Len(b)
           T == 0 .. Base * Base - 1
           Loop(f) == f = [j \in 0 .. n |-> IF j = 0 THEN 0
                                            ELSE a[i] * b[j] + out[i + j - 1] + f[j - 1] \div Base]
           t == CHOOSE f : Loop(f)
           step == [p \in (1 .. n) \X T |-> a[i] * b[p[1]] + out[i + p[1] - 1] + p[2] \div Base]
<1>1. n \in Nat /\ i \in Nat /\ i >= 1 /\ i <= Len(a) /\ Len(a) \in Nat
  BY LenProperties
<1>2. Row(a, b, out, i) =
        SubSeq(out, 1, i - 1) \o [j \in 1 .. n |-> t[j] % Base]
        \o <<t[n] \div Base>> \o SubSeq(out, i + n + 1, Len(out))
  <2>1. DOMAIN b = 1 .. n
    BY LenProperties
  <2> HIDE DEF n
  <2>2. Row(a, b, out, i) =
          SubSeq(out, 1, i - 1) \o [j \in DOMAIN b |-> t[j] % Base]
          \o <<t[n] \div Base>> \o SubSeq(out, i + n + 1, Len(out))
    BY DEF Row, n
  <2> HIDE DEF t
  <2> QED
    BY <2>1, <2>2
<1>3. a[i] \in Limbs /\ \A j \in 1 .. n : b[j] \in Limbs /\ out[i + j - 1] \in Limbs
  <2>1. a[i] \in Limbs /\ \A j \in 1 .. n : b[j] \in Limbs
    BY ElementOfSeq
  <2>2. \A j \in 1 .. n : i + j - 1 \in 1 .. Len(out)
    BY <1>1
  <2> QED
    BY <2>1, <2>2, ElementOfSeq
<1>4. 0 \in T /\ T \subseteq Nat
  <2>1. PICK s : s = Base * Base
    OBVIOUS
  <2>2. s \in Nat /\ s > 0
    BY <2>1, WordsAre
  <2> QED
    BY <2>1, <2>2
<1> HIDE DEF n
<1>5. ASSUME NEW j \in 1 .. n, NEW x \in T
      PROVE  a[i] * b[j] + out[i + j - 1] + x \div Base \in T
  <2>1. x \div Base \in Limbs
    BY CarryFits
  <2>2. PICK p, s : p = a[i] * b[j] + out[i + j - 1] + x \div Base /\ s = Base * Base
    OBVIOUS
  <2>3. p \in Nat /\ p < s /\ s \in Nat
    BY <1>3, <2>1, <2>2, LimbProduct, WordsAre
  <2> QED
    BY <2>2, <2>3
<1>6. \A j \in 1 .. n : \A x \in T :
        step[<<j, x>>] = a[i] * b[j] + out[i + j - 1] + x \div Base
  OBVIOUS
<1> HIDE DEF T, step
<1>7. PICK f : Loops(f, n, T, 0, step)
  <2>1. \A j \in 1 .. n : \A x \in T : step[<<j, x>>] \in T
    BY <1>5, <1>6
  <2> QED
    BY <1>1, <1>4, <2>1, LoopExists
<1>8. Loop(f)
  <2> DEFINE F(j) == IF j = 0 THEN 0 ELSE a[i] * b[j] + out[i + j - 1] + f[j - 1] \div Base
  <2>1. \A j \in 0 .. n : j = 0 \/ (j \in 1 .. n /\ j - 1 \in 0 .. n)
    BY <1>1
  <2>2. \A j \in 0 .. n : f[j] = F(j)
    BY <1>6, <1>7, <2>1 DEF Loops
  <2>3. f = [j \in 0 .. n |-> F(j)]
    <3> HIDE DEF F
    <3> QED
      BY <1>7, <2>2 DEF Loops
  <2> QED
    BY <2>3
<1>9. Loop(t)
  <2> HIDE DEF Loop
  <2> QED
    BY <1>8
<1> HIDE DEF t
<1>10. t[0] = 0 /\ \A j \in 1 .. n : t[j] = a[i] * b[j] + out[i + j - 1] + t[j - 1] \div Base
  <2> DEFINE F(j) == IF j = 0 THEN 0 ELSE a[i] * b[j] + out[i + j - 1] + t[j - 1] \div Base
  <2>1. t = [j \in 0 .. n |-> F(j)]
    BY <1>9
  <2>2. \A j \in 0 .. n : t[j] = F(j)
    <3> HIDE DEF F
    <3> QED
      BY <2>1
  <2>3. 0 \in 0 .. n /\ \A j \in 1 .. n : j \in 0 .. n /\ j # 0
    BY <1>1
  <2> QED
    BY <2>2, <2>3
<1> HIDE DEF Loop
<1>11. \A j \in 0 .. n : t[j] \in T
  <2> DEFINE S == {j \in 0 .. n : t[j] \in T}
  <2>1. 0 \in S
    BY <1>1, <1>4, <1>10
  <2>2. ASSUME NEW j \in 1 .. n, j - 1 \in S PROVE j \in S
    <3>1. t[j - 1] \in T /\ t[j] = a[i] * b[j] + out[i + j - 1] + t[j - 1] \div Base
      BY <1>10, <2>2
    <3>2. t[j] \in T
      BY <1>5, <3>1
    <3> QED
      BY <3>2
  <2>3. \A j \in 0 .. n : j \in S
    <3> HIDE DEF S
    <3> QED
      BY <1>1, <2>1, <2>2, Upwards
  <2> QED
    BY <2>3
<1> QED
  BY <1>2, <1>10, <1>11 DEF T, n

LEMMA JoinedIs ==
  ASSUME NEW S, NEW X, NEW Y, X \in Seq(S), Y \in Seq(S), NEW Z, Z = X \o Y,
         NEW m \in Nat, NEW n \in Nat, m = Len(X), n = Len(Y)
  PROVE  /\ Z \in Seq(S) /\ Len(Z) = m + n
         /\ \A k \in 1 .. m + n : Z[k] = IF k <= m THEN X[k] ELSE Y[k - m]
  BY ConcatProperties

Parts(R, S, A, B, e, D) ==
  /\ R \in Seq(S) /\ Len(R) = Len(A) + Len(B) + 1 + Len(D)
  /\ \A k \in 1 .. Len(A) : R[k] = A[k]
  /\ \A k \in 1 .. Len(B) : R[Len(A) + k] = B[k]
  /\ R[Len(A) + Len(B) + 1] = e
  /\ \A k \in 1 .. Len(D) : R[Len(A) + Len(B) + 1 + k] = D[k]

LEMMA FourParts ==
  ASSUME NEW S, NEW A, NEW B, NEW e \in S, NEW D, A \in Seq(S), B \in Seq(S), D \in Seq(S)
  PROVE  Parts(A \o B \o <<e>> \o D, S, A, B, e, D)
<1>0. PICK p, q, s, R : p = Len(A) /\ q = Len(B) /\ s = Len(D) /\ R = A \o B \o <<e>> \o D
  OBVIOUS
<1>17. p \in Nat /\ q \in Nat /\ s \in Nat
  BY <1>0, LenProperties
<1>1. PICK X : X = A \o B
  OBVIOUS
<1>2. /\ X \in Seq(S) /\ Len(X) = p + q
      /\ \A k \in 1 .. p + q : X[k] = IF k <= p THEN A[k] ELSE B[k - p]
  BY <1>0, <1>1, <1>17, JoinedIs
<1>3. PICK E : E = <<e>>
  OBVIOUS
<1>4. E \in Seq(S) /\ Len(E) = 1 /\ E[1] = e
  BY <1>3
<1>5. PICK Y : Y = X \o E
  OBVIOUS
<1>6. PICK l : l = p + q
  OBVIOUS
<1>7. PICK h : h = l + 1
  OBVIOUS
<1>8. /\ Y \in Seq(S) /\ Len(Y) = h
      /\ \A k \in 1 .. h : Y[k] = IF k <= l THEN X[k] ELSE E[k - l]
  <2>1. PICK o : o = 1
    OBVIOUS
  <2>2. X \in Seq(S)
    BY <1>2
  <2>3. E \in Seq(S)
    BY <1>4
  <2>4. l \in Nat /\ l = Len(X)
    BY <1>2, <1>6, <1>17
  <2>5. o \in Nat /\ o = Len(E)
    BY <1>4, <2>1
  <2>6. /\ Y \in Seq(S) /\ Len(Y) = l + o
        /\ \A k \in 1 .. l + o : Y[k] = IF k <= l THEN X[k] ELSE E[k - l]
    BY <1>5, <2>2, <2>3, <2>4, <2>5, JoinedIs
  <2> QED
    BY <1>7, <2>1, <2>6
<1>9. PICK Z : Z = Y \o D
  OBVIOUS
<1>10. /\ Z \in Seq(S) /\ Len(Z) = h + s
       /\ \A k \in 1 .. h + s : Z[k] = IF k <= h THEN Y[k] ELSE D[k - h]
  <2>1. Y \in Seq(S)
    BY <1>8
  <2>2. h \in Nat /\ h = Len(Y)
    BY <1>6, <1>7, <1>8, <1>17
  <2> QED
    BY <1>0, <1>9, <1>17, <2>1, <2>2, JoinedIs
<1>11. R = Z
  BY <1>0, <1>1, <1>3, <1>5, <1>9
<1>12. p \in Nat /\ q \in Nat /\ s \in Nat /\ l = p + q /\ h = p + q + 1
  BY <1>6, <1>7, <1>17
<1>13. \A k \in 1 .. p : Z[k] = A[k]
  BY <1>2, <1>8, <1>10, <1>12
<1>14. ASSUME NEW k \in 1 .. q PROVE Z[p + k] = B[k]
  <2>1. PICK m : m = p + k
    OBVIOUS
  <2>2. m \in 1 .. p + q /\ ~(m <= p) /\ m - p = k /\ m <= l /\ m <= h
        /\ m \in 1 .. h /\ m \in 1 .. h + s
    BY <1>12, <2>1
  <2>3. Z[m] = Y[m] /\ Y[m] = X[m] /\ X[m] = B[m - p]
    BY <1>2, <1>8, <1>10, <2>2
  <2> QED
    BY <2>1, <2>2, <2>3
<1>15. Z[p + q + 1] = e
  <2>1. ~(h <= l) /\ h - l = 1 /\ h <= h /\ h \in 1 .. h /\ h \in 1 .. h + s
    BY <1>12
  <2>2. Z[h] = Y[h] /\ Y[h] = E[h - l]
    BY <1>8, <1>10, <2>1
  <2> QED
    BY <1>4, <1>12, <2>1, <2>2
<1>16. ASSUME NEW k \in 1 .. s PROVE Z[p + q + 1 + k] = D[k]
  <2>1. PICK m : m = p + q + 1 + k
    OBVIOUS
  <2>2. ~(m <= h) /\ m - h = k /\ m \in 1 .. h + s
    BY <1>12, <2>1
  <2>3. Z[m] = D[m - h]
    BY <1>10, <2>2
  <2> QED
    BY <2>1, <2>2, <2>3
<1> QED
  BY <1>0, <1>10, <1>11, <1>12, <1>13, <1>14, <1>15, <1>16 DEF Parts

\* Where the limbs of one row come from.
RowFits(r, t, a, b, out, i) ==
  /\ t[0] = 0
  /\ \A j \in 1 .. Len(b) : t[j] = a[i] * b[j] + out[i + j - 1] + t[j - 1] \div Base
  /\ \A j \in 0 .. Len(b) : t[j] \in 0 .. Base * Base - 1
  /\ r \in Seq(Limbs) /\ Len(r) = Len(out)
  /\ \A k \in 1 .. i - 1 : r[k] = out[k]
  /\ \A j \in 1 .. Len(b) : r[i + j - 1] = t[j] % Base
  /\ r[i + Len(b)] = t[Len(b)] \div Base
  /\ \A k \in 1 .. Len(out) : k > i + Len(b) => r[k] = out[k]

LEMMA RowIs ==
  ASSUME NumbersAssumption, NEW a \in Seq(Limbs), NEW b \in Seq(Limbs), NEW out \in Seq(Limbs),
         Len(out) = Len(a) + Len(b), NEW i \in 1 .. Len(a)
  PROVE  \E t : RowFits(Row(a, b, out, i), t, a, b, out, i)
<1> DEFINE n == Len(b)
           m == Len(out)
<1>1. PICK t :
           /\ t[0] = 0
           /\ \A j \in 1 .. n : t[j] = a[i] * b[j] + out[i + j - 1] + t[j - 1] \div Base
           /\ \A j \in 0 .. n : t[j] \in 0 .. Base * Base - 1
           /\ Row(a, b, out, i) =
                SubSeq(out, 1, i - 1) \o [j \in 1 .. n |-> t[j] % Base]
                \o <<t[n] \div Base>> \o SubSeq(out, i + n + 1, m)
  BY RowTotals
<1> DEFINE A == SubSeq(out, 1, i - 1)
           B == [j \in 1 .. n |-> t[j] % Base]
           e == t[n] \div Base
           D == SubSeq(out, i + n + 1, m)
           p == i - 1
           s == m - (i + n)
<1>2. PICK r : r = Row(a, b, out, i)
  OBVIOUS
<1>3. r = A \o B \o <<e>> \o D
  BY <1>1, <1>2
<1>4. n \in Nat /\ m \in Nat /\ i \in Nat /\ i >= 1 /\ i + n <= m /\ Len(a) \in Nat /\ m = Len(a) + n
  BY LenProperties
<1>5. \A k \in 1 .. m : out[k] \in Limbs
  BY ElementOfSeq
<1> HIDE DEF n, m
<1>6. A \in Seq(Limbs) /\ Len(A) = p /\ p \in Nat /\ \A k \in 1 .. p : A[k] = out[k]
  <2>1. i - 1 \in 0 .. Len(out)
    BY <1>4 DEF m
  <2>2. /\ SubSeq(out, 1, i - 1) \in Seq(Limbs) /\ Len(SubSeq(out, 1, i - 1)) = i - 1
        /\ \A k \in 1 .. i - 1 : SubSeq(out, 1, i - 1)[k] = out[k]
    BY <2>1, PrefixIs
  <2> QED
    BY <1>4, <2>2
<1>7. B \in Seq(Limbs) /\ Len(B) = n /\ \A j \in 1 .. n : B[j] = t[j] % Base
  <2>1. \A j \in 1 .. n : t[j] \in Int
    <3>1. \A j \in 1 .. n : j \in 0 .. n
      BY <1>4
    <3> QED
      BY <1>1, <3>1
  <2>2. B \in [1 .. n -> Limbs]
    BY <2>1, Divided
  <2>3. \A j \in 1 .. n : B[j] = t[j] % Base
    OBVIOUS
  <2> HIDE DEF B
  <2> QED
    BY <1>4, <2>2, <2>3, ListedIs
<1>8. e \in Limbs
  <2>1. n \in 0 .. n
    BY <1>4
  <2>2. t[n] \in 0 .. Base * Base - 1
    BY <1>1, <2>1
  <2> QED
    BY <2>2, CarryFits
<1>9. D \in Seq(Limbs) /\ Len(D) = s /\ s \in Nat /\ \A k \in 1 .. s : D[k] = out[i + n + k]
  <2>1. PICK l : l = i + n + 1
    OBVIOUS
  <2>2. l \in 1 .. m + 1
    BY <1>4, <2>1
  <2>3. /\ SubSeq(out, l, m) \in Seq(Limbs) /\ Len(SubSeq(out, l, m)) = m - l + 1
        /\ \A k \in 1 .. m - l + 1 : SubSeq(out, l, m)[k] = out[l + k - 1]
    BY <2>2, SuffixIs DEF m
  <2>4. m - l + 1 = s /\ s \in Nat /\ \A k \in 1 .. s : l + k - 1 = i + n + k
    BY <1>4, <2>1
  <2> HIDE DEF s
  <2> QED
    BY <2>1, <2>3, <2>4
<1> HIDE DEF A, B, e, D
<1>10. /\ r \in Seq(Limbs) /\ Len(r) = p + n + 1 + s
       /\ \A k \in 1 .. p : r[k] = A[k]
       /\ \A k \in 1 .. n : r[p + k] = B[k]
       /\ r[p + n + 1] = e
       /\ \A k \in 1 .. s : r[p + n + 1 + k] = D[k]
  <2>1. PICK x, y, U, V, z, W : x = p /\ y = s /\ U = A /\ V = B /\ z = e /\ W = D
    OBVIOUS
  <2>2. x \in Nat /\ x = Len(U) /\ U \in Seq(Limbs)
    BY <1>6, <2>1
  <2>3. y \in Nat /\ y = Len(W) /\ W \in Seq(Limbs)
    BY <1>9, <2>1
  <2>4. n \in Nat /\ n = Len(V) /\ V \in Seq(Limbs) /\ z \in Limbs
    BY <1>4, <1>7, <1>8, <2>1
  <2>5. r = U \o V \o <<z>> \o W
    BY <1>3, <2>1
  <2>6. /\ r \in Seq(Limbs) /\ Len(r) = x + n + 1 + y
        /\ \A k \in 1 .. x : r[k] = U[k]
        /\ \A k \in 1 .. n : r[x + k] = V[k]
        /\ r[x + n + 1] = z
        /\ \A k \in 1 .. y : r[x + n + 1 + k] = W[k]
    <3>1. Parts(r, Limbs, U, V, z, W)
      BY <2>2, <2>3, <2>4, <2>5, FourParts
    <3> QED
      BY <2>2, <2>3, <2>4, <3>1 DEF Parts
  <2> QED
    BY <2>1, <2>6
<1>11. p + n + 1 + s = m /\ p + n + 1 = i + n
  BY <1>4
<1>12. \A k \in 1 .. i - 1 : r[k] = out[k]
  BY <1>6, <1>10
<1>13. \A j \in 1 .. n : r[i + j - 1] = t[j] % Base
  <2>1. \A j \in 1 .. n : i + j - 1 = p + j
    BY <1>4
  <2> QED
    BY <1>7, <1>10, <2>1
<1>14. r[i + n] = t[n] \div Base
  BY <1>10, <1>11 DEF e
<1>15. ASSUME NEW k \in 1 .. m, k > i + n PROVE r[k] = out[k]
  <2>1. PICK l : l = k - (i + n)
    OBVIOUS
  <2>2. l \in 1 .. s /\ p + n + 1 + l = k /\ i + n + l = k
    BY <1>4, <1>15, <2>1
  <2>3. r[p + n + 1 + l] = D[l] /\ D[l] = out[i + n + l]
    BY <1>9, <1>10, <2>2
  <2> QED
    BY <2>2, <2>3
<1>16. r \in Seq(Limbs) /\ Len(r) = m
  BY <1>10, <1>11
<1>17. /\ t[0] = 0
       /\ \A j \in 1 .. n : t[j] = a[i] * b[j] + out[i + j - 1] + t[j - 1] \div Base
       /\ \A j \in 0 .. n : t[j] \in 0 .. Base * Base - 1
  BY <1>1
<1>18. RowFits(r, t, a, b, out, i)
  BY <1>12, <1>13, <1>14, <1>15, <1>16, <1>17 DEF n, m, RowFits
<1> QED
  BY <1>2, <1>18

LEMMA RowStep ==
  ASSUME NEW u \in Int, NEW x \in Int, NEW v \in Int, NEW c \in Int, NEW r \in Int, NEW o \in Int,
         NEW d \in Int, NEW y \in Int, NEW b \in Nat, x * y + o + d = c * b + r
  PROVE  (u + x * v + c) * b + r = (u * b + o) + x * (v * b + y) + d
<1>1. PICK xy, xv : xy = x * y /\ xv = x * v
  OBVIOUS
<1>2. xy \in Int /\ xv \in Int
  BY <1>1
<1>3. x * (v * b + y) = xv * b + xy
  <2>1. x * (v * b + y) = x * (v * b) + x * y
    OBVIOUS
  <2>2. x * (v * b) = (x * v) * b
    OBVIOUS
  <2> QED
    BY <1>1, <2>1, <2>2
<1>4. (u + xv + c) * b = u * b + xv * b + c * b
  BY <1>2
<1>5. PICK p, q, s : p = u * b /\ q = xv * b /\ s = c * b
  OBVIOUS
<1>6. p \in Int /\ q \in Int /\ s \in Int
  BY <1>2, <1>5
<1>7. xy + o + d = s + r
  BY <1>1, <1>5
<1>8. (p + q + s) + r = (p + o) + (q + xy) + d
  BY <1>2, <1>6, <1>7
<1> QED
  BY <1>1, <1>3, <1>4, <1>5, <1>8

\* No limbs from place l on.
FreeFrom(x, l) == \A k \in l .. Len(x) : x[k] = 0

Adds(w, u, a, b, i) == w[i] = u[i] + a[i] * Amount(b)

\* One row adds its limb times all of b, at its place.
LEMMA RowWorth ==
  ASSUME NumbersAssumption, NEW a \in Seq(Limbs), NEW b \in Seq(Limbs), NEW out \in Seq(Limbs),
         Len(out) = Len(a) + Len(b), NEW i \in 1 .. Len(a), NEW t, NEW r, RowFits(r, t, a, b, out, i),
         FreeFrom(out, i + Len(b)),
         NEW u, NEW w, Chain(u, out, Len(out)), Chain(w, r, Len(out)),
         u[Len(out) + 1] = 0, w[Len(out) + 1] = 0
  PROVE  Adds(w, u, a, b, i)
<1> DEFINE lb == Len(b)
           n  == Len(out)
           x  == a[i]
           c  == [j \in 0 .. lb |-> t[j] \div Base]
<1>1. lb \in Nat /\ n \in Nat /\ i \in Nat /\ i >= 1 /\ i + lb <= n
  BY LenProperties
<1>2. PICK v : Chain(v, b, lb) /\ v[lb + 1] = 0 /\ v[1] = Amount(b)
  BY AmountStarts
<1>3. x \in Int /\ \A j \in 1 .. lb : b[j] \in Int
  <2>1. x \in Limbs /\ \A j \in 1 .. lb : b[j] \in Limbs
    BY ElementOfSeq
  <2> HIDE DEF x, lb
  <2> QED
    BY <2>1, BaseIs
<1>4. \A k \in 1 .. n : out[k] \in Int
  <2>1. \A k \in 1 .. n : out[k] \in Limbs
    BY ElementOfSeq
  <2> HIDE DEF n
  <2> QED
    BY <2>1, BaseIs
<1>5. /\ t[0] = 0 /\ \A j \in 0 .. lb : t[j] \in 0 .. Base * Base - 1
      /\ \A j \in 1 .. lb : t[j] = x * b[j] + out[i + j - 1] + t[j - 1] \div Base
      /\ \A j \in 1 .. lb : r[i + j - 1] = t[j] % Base
      /\ r[i + lb] = t[lb] \div Base
      /\ \A k \in 1 .. n : k > i + lb => r[k] = out[k]
  BY DEF RowFits
<1>6. \A k \in i + lb .. n : out[k] = 0
  BY DEF FreeFrom
<1>7. Chain(u, out, n) /\ Chain(w, r, n) /\ u[n + 1] = 0 /\ w[n + 1] = 0
  OBVIOUS
<1>8. Base \in Nat /\ Base > 1
  BY BaseIs
<1>9. \A j \in 0 .. lb : c[j] = t[j] \div Base
  OBVIOUS
<1> HIDE DEF lb, n, x, c
<1>10. \A j \in 0 .. lb : /\ c[j] \in Int /\ t[j] % Base \in Int
                          /\ t[j] = c[j] * Base + (t[j] % Base)
  <2> SUFFICES ASSUME NEW j \in 0 .. lb
               PROVE  c[j] \in Int /\ t[j] % Base \in Int /\ t[j] = c[j] * Base + (t[j] % Base)
    OBVIOUS
  <2>1. t[j] \in Int
    BY <1>5
  <2>2. /\ t[j] \div Base \in Int /\ t[j] % Base \in Limbs
        /\ t[j] = (t[j] \div Base) * Base + (t[j] % Base)
    BY <2>1, Divided
  <2>3. PICK h, l : h = t[j] \div Base /\ l = t[j] % Base
    OBVIOUS
  <2>4. h \in Int /\ l \in Int /\ t[j] = h * Base + l /\ c[j] = h
    <3>1. l \in Limbs /\ Limbs \subseteq Nat
      BY <2>2, <2>3, BaseIs
    <3> QED
      BY <1>9, <2>2, <2>3, <3>1
  <2> QED
    BY <2>3, <2>4
<1>11. c[0] = 0
  <2>1. 0 \in Nat /\ 0 < 1 * Base /\ 1 \in Nat
    BY <1>8
  <2>2. 0 \div Base \in 0 .. 1 - 1
    BY <2>1, QuotientFits
  <2>3. 0 \in 0 .. lb
    BY <1>1
  <2> QED
    BY <1>5, <1>9, <2>2, <2>3
<1>12. /\ \A k \in 1 .. n + 1 : u[k] \in Int /\ w[k] \in Int
       /\ \A k \in 1 .. n : u[k] = u[k + 1] * Base + out[k] /\ w[k] = w[k + 1] * Base + r[k]
  BY <1>7 DEF Chain
<1>13. u[i + lb] = 0 /\ w[i + lb] = c[lb]
  <2>1. PICK k : k = i + lb
    OBVIOUS
  <2>2. k \in 1 .. n /\ k \in 1 .. n + 1 /\ k + 1 \in 1 .. n + 1
    BY <1>1, <2>1
  <2>3. \A l \in k .. n : out[l] = 0
    BY <1>6, <2>1
  <2>4. \A l \in k .. n + 1 : u[l] = 0
    BY <1>1, <1>7, <2>2, <2>3, ChainEnds
  <2>5. u[k] = 0
    BY <1>1, <2>2, <2>4
  <2>6. \A l \in k + 1 .. n : r[l] = 0
    <3>1. \A l \in k + 1 .. n : l \in 1 .. n /\ l > k /\ l \in k .. n
      BY <2>2
    <3> QED
      BY <1>5, <2>1, <2>3, <3>1
  <2>7. \A l \in k + 1 .. n + 1 : w[l] = 0
    <3>1. PICK h : h = k + 1
      OBVIOUS
    <3>2. h \in 1 .. n + 1
      BY <2>2, <3>1
    <3>3. \A l \in h .. n : r[l] = 0
      BY <2>6, <3>1
    <3>4. \A l \in h .. n + 1 : w[l] = 0
      BY <1>1, <1>7, <3>2, <3>3, ChainEnds
    <3> QED
      BY <3>1, <3>4
  <2>8. w[k + 1] = 0
    BY <1>1, <2>2, <2>7
  <2>9. w[k] = 0 * Base + r[k]
    BY <1>12, <2>2, <2>8
  <2>10. lb \in 0 .. lb /\ r[k] = c[lb]
    BY <1>1, <1>5, <1>9, <2>1
  <2>11. c[lb] \in Int /\ 0 * Base = 0
    BY <1>8, <1>10, <2>10
  <2> QED
    BY <2>1, <2>5, <2>9, <2>10, <2>11
<1>14. /\ \A j \in 1 .. lb + 1 : v[j] \in Int
       /\ \A j \in 1 .. lb : v[j] = v[j + 1] * Base + b[j]
  BY <1>2 DEF Chain
<1> DEFINE S == {j \in 1 .. lb + 1 : w[i + j - 1] = u[i + j - 1] + x * v[j] + c[j - 1]}
<1>15. lb + 1 \in S
  <2>1. lb + 1 \in 1 .. lb + 1 /\ i + (lb + 1) - 1 = i + lb /\ (lb + 1) - 1 = lb /\ lb \in 0 .. lb
    BY <1>1
  <2>2. x * 0 = 0 /\ c[lb] \in Int
    BY <1>3, <1>10, <2>1
  <2>3. w[i + lb] = u[i + lb] + x * v[lb + 1] + c[lb]
    <3>1. PICK y : y = c[lb]
      OBVIOUS
    <3>2. 0 + 0 + y = y
      BY <2>2, <3>1
    <3> QED
      BY <1>2, <1>13, <2>2, <3>1, <3>2
  <2> QED
    BY <2>1, <2>3
<1>16. ASSUME NEW j \in 1 .. lb, j + 1 \in S PROVE j \in S
  <2>1. PICK k : k = i + j - 1
    OBVIOUS
  <2>2. /\ k \in 1 .. n /\ k + 1 \in 1 .. n + 1 /\ k \in 1 .. n + 1 /\ i + (j + 1) - 1 = k + 1
        /\ j \in 1 .. lb + 1 /\ j + 1 \in 1 .. lb + 1 /\ (j + 1) - 1 = j
        /\ j \in 0 .. lb /\ j - 1 \in 0 .. lb
    BY <1>1, <2>1
  <2>3. w[k + 1] = u[k + 1] + x * v[j + 1] + c[j]
    BY <1>16, <2>2
  <2>4. w[k] = w[k + 1] * Base + (t[j] % Base) /\ u[k] = u[k + 1] * Base + out[k]
    BY <1>5, <1>12, <2>1, <2>2
  <2>5. v[j] = v[j + 1] * Base + b[j]
    BY <1>14
  <2>6. PICK u1, v1, cj, rj, o, d, y : /\ u1 = u[k + 1] /\ v1 = v[j + 1] /\ cj = c[j] /\ rj = t[j] % Base
                                       /\ o = out[k] /\ d = c[j - 1] /\ y = b[j]
    OBVIOUS
  <2>7. u1 \in Int /\ v1 \in Int
    BY <1>12, <1>14, <2>2, <2>6
  <2>8. cj \in Int /\ rj \in Int /\ d \in Int
    BY <1>10, <2>2, <2>6
  <2>9. o \in Int /\ y \in Int
    BY <1>3, <1>4, <2>2, <2>6
  <2>10. x * y + o + d = cj * Base + rj
    <3>1. t[j] = x * b[j] + out[k] + c[j - 1]
      BY <1>5, <1>9, <2>1, <2>2
    <3>2. t[j] = c[j] * Base + (t[j] % Base)
      BY <1>10, <2>2
    <3> QED
      BY <2>6, <3>1, <3>2
  <2>11. (u1 + x * v1 + cj) * Base + rj = (u1 * Base + o) + x * (v1 * Base + y) + d
    BY <1>3, <1>8, <2>7, <2>8, <2>9, <2>10, RowStep
  <2>12. w[k] = (u1 + x * v1 + cj) * Base + rj
    BY <2>3, <2>4, <2>6
  <2>13. u[k] = u1 * Base + o /\ v[j] = v1 * Base + y
    BY <2>4, <2>5, <2>6
  <2>14. w[k] = u[k] + x * v[j] + c[j - 1]
    BY <2>6, <2>11, <2>12, <2>13
  <2> QED
    BY <2>1, <2>2, <2>14
<1>17. 1 \in S
  <2>1. \A j \in 1 .. lb + 1 : j \in S
    <3> HIDE DEF S
    <3> QED
      BY <1>1, <1>15, <1>16, Downwards
  <2> QED
    BY <1>1, <2>1
<1>18. i + 1 - 1 = i /\ 1 - 1 = 0 /\ i \in 1 .. n + 1 /\ 1 \in 1 .. lb + 1
  BY <1>1
<1>19. w[i] = u[i] + x * v[1] + 0
  BY <1>11, <1>17, <1>18
<1>20. PICK p, q : p = u[i] /\ q = x * v[1]
  OBVIOUS
<1>21. p \in Int /\ q \in Int
  BY <1>3, <1>12, <1>14, <1>18, <1>20
<1>22. p + q + 0 = p + q
  BY <1>21
<1> QED
  BY <1>2, <1>19, <1>20, <1>22 DEF x, Adds

LEMMA NothingAmounts ==
  ASSUME NumbersAssumption, NEW x \in Seq(Limbs), \A k \in 1 .. Len(x) : x[k] = 0
  PROVE  Amount(x) = 0
<1> DEFINE n == Len(x)
<1>1. n \in Nat
  BY LenProperties
<1>2. PICK v : Chain(v, x, n) /\ v[n + 1] = 0 /\ v[1] = Amount(x)
  BY AmountStarts
<1>3. \A k \in 1 .. n : x[k] = 0
  OBVIOUS
<1> HIDE DEF n
<1>4. PICK h : h = 1
  OBVIOUS
<1>5. h \in 1 .. n + 1
  BY <1>1, <1>4
<1>6. \A k \in h .. n : x[k] = 0
  BY <1>3, <1>4
<1>7. \A k \in h .. n + 1 : v[k] = 0
  BY <1>1, <1>2, <1>5, <1>6, ChainEnds
<1>8. v[h] = 0
  BY <1>1, <1>4, <1>7
<1> QED
  BY <1>2, <1>4, <1>8

\* The lowest i limbs of a number.
Cut(a, i) == [k \in 1 .. Len(a) |-> IF k <= i THEN a[k] ELSE 0]

LEMMA CutIs ==
  ASSUME NumbersAssumption, NEW a \in Seq(Limbs), NEW i \in 0 .. Len(a)
  PROVE  /\ Cut(a, i) \in Seq(Limbs) /\ Len(Cut(a, i)) = Len(a)
         /\ \A k \in 1 .. Len(a) : Cut(a, i)[k] = IF k <= i THEN a[k] ELSE 0
<1> DEFINE n == Len(a)
           c == Cut(a, i)
<1>1. n \in Nat /\ (\A k \in 1 .. n : a[k] \in Limbs) /\ 0 \in Limbs
  BY LenProperties, ElementOfSeq, BaseIs DEF Limbs
<1>2. c = [k \in 1 .. n |-> IF k <= i THEN a[k] ELSE 0]
  BY DEF Cut
<1> HIDE DEF n, c
<1>3. \A k \in 1 .. n : c[k] = IF k <= i THEN a[k] ELSE 0
  BY <1>2
<1>4. c \in [1 .. n -> Limbs]
  BY <1>1, <1>2
<1>5. c \in Seq(Limbs) /\ Len(c) = n
  BY <1>1, <1>4, ListedIs
<1> QED
  BY <1>3, <1>5 DEF n, c

LEMMA CutEnds ==
  ASSUME NumbersAssumption, NEW a \in Seq(Limbs)
  PROVE  Amount(Cut(a, 0)) = 0 /\ Amount(Cut(a, Len(a))) = Amount(a)
<1> DEFINE n == Len(a)
<1>1. n \in Nat /\ Len(a) <= n /\ 0 \in 0 .. Len(a) /\ n \in 0 .. Len(a)
  BY LenProperties
<1>2. /\ Cut(a, 0) \in Seq(Limbs) /\ Len(Cut(a, 0)) = Len(a)
      /\ \A k \in 1 .. Len(a) : Cut(a, 0)[k] = IF k <= 0 THEN a[k] ELSE 0
  BY <1>1, CutIs
<1>3. Amount(Cut(a, 0)) = 0
  <2>1. PICK z : z = Cut(a, 0)
    OBVIOUS
  <2>2. z \in Seq(Limbs) /\ \A k \in 1 .. Len(z) : z[k] = 0
    BY <1>1, <1>2, <2>1
  <2>3. Amount(z) = 0
    BY <2>2, NothingAmounts
  <2> QED
    BY <2>1, <2>3
<1>4. PICK c : c = Cut(a, n)
  OBVIOUS
<1>5. c \in Seq(Limbs) /\ Len(c) = n /\ \A k \in 1 .. n : c[k] = IF k <= n THEN a[k] ELSE 0
  BY <1>1, <1>4, CutIs
<1>6. PICK v : Chain(v, c, n) /\ v[n + 1] = 0 /\ v[1] = Amount(c)
  <2>1. \E v : Chain(v, c, Len(c)) /\ v[Len(c) + 1] = 0 /\ v[1] = Amount(c)
    BY <1>5, AmountStarts
  <2>2. Len(c) = n
    BY <1>5
  <2> HIDE DEF n
  <2> QED
    BY <2>1, <2>2
<1>7. \A k \in 1 .. n : c[k] = Limb(a, k)
  <2>1. \A k \in 1 .. n : Limb(a, k) = a[k] /\ k <= n
    BY <1>1, LimbIs
  <2> HIDE DEF n
  <2> QED
    BY <1>5, <2>1
<1>8. v[1] = Amount(a)
  <2>1. n \in Nat /\ Len(a) <= n
    BY <1>1
  <2> HIDE DEF n
  <2> QED
    BY <1>6, <1>7, <2>1, AmountIs
<1> QED
  BY <1>3, <1>4, <1>6, <1>8

LEMMA CutStep ==
  ASSUME NEW u \in Int, NEW v \in Int, NEW e \in Int, NEW f \in Int, NEW o \in Int,
         NEW y \in Int, NEW b \in Nat
  PROVE  (u + v * (e - f)) * b + o = (u * b + o) + v * ((e * b + y) - (f * b + y))
<1>1. (e * b + y) - (f * b + y) = (e - f) * b
  <2>1. PICK p, q : p = e * b /\ q = f * b
    OBVIOUS
  <2>2. p \in Int /\ q \in Int
    BY <2>1
  <2>3. (p + y) - (q + y) = p - q
    BY <2>2
  <2>4. (e - f) * b = p - q
    BY <2>1
  <2> QED
    BY <2>1, <2>3, <2>4
<1>2. PICK d : d = e - f
  OBVIOUS
<1>3. d \in Int
  BY <1>2
<1>4. v * (d * b) = (v * d) * b
  BY <1>3
<1>5. (u + v * d) * b = u * b + (v * d) * b
  <2>1. PICK x : x = v * d
    OBVIOUS
  <2>2. x \in Int
    BY <1>3, <2>1
  <2>3. (u + x) * b = u * b + x * b
    BY <2>2
  <2> QED
    BY <2>1, <2>3
<1>6. PICK p, q : p = u * b /\ q = (v * d) * b
  OBVIOUS
<1>7. p \in Int /\ q \in Int
  BY <1>3, <1>6
<1>8. (p + q) + o = (p + o) + q
  BY <1>7
<1> QED
  BY <1>1, <1>2, <1>4, <1>5, <1>6, <1>8

\* What a row adds in all.
LEMMA RowAmount ==
  ASSUME NumbersAssumption, NEW a \in Seq(Limbs), NEW b \in Seq(Limbs), NEW out \in Seq(Limbs),
         Len(out) = Len(a) + Len(b), NEW i \in 1 .. Len(a), NEW t, NEW r, RowFits(r, t, a, b, out, i),
         FreeFrom(out, i + Len(b)),
         Amount(out) = Amount(b) * Amount(Cut(a, i - 1))
  PROVE  Amount(r) = Amount(b) * Amount(Cut(a, i))
<1> DEFINE la == Len(a)
           n  == Len(out)
           vb == Amount(b)
           C  == Cut(a, i)
           D  == Cut(a, i - 1)
<1>1. la \in Nat /\ n \in Nat /\ i \in Nat /\ i >= 1 /\ i <= la /\ la <= n /\ vb \in Nat
  BY LenProperties, AmountNat
<1>2. r \in Seq(Limbs) /\ Len(r) = n /\ \A k \in 1 .. i - 1 : r[k] = out[k]
  BY DEF RowFits
<1>3. PICK u : Chain(u, out, n) /\ u[n + 1] = 0 /\ u[1] = Amount(out)
  BY AmountStarts
<1>4. PICK w : Chain(w, r, n) /\ w[n + 1] = 0 /\ w[1] = Amount(r)
  <2>1. \E w : Chain(w, r, Len(r)) /\ w[Len(r) + 1] = 0 /\ w[1] = Amount(r)
    BY <1>2, AmountStarts
  <2>2. Len(r) = n
    BY <1>2
  <2> HIDE DEF n
  <2> QED
    BY <2>1, <2>2
<1>5. w[i] = u[i] + a[i] * vb
  <2>1. Chain(u, out, Len(out))
    BY <1>3
  <2>2. u[Len(out) + 1] = 0
    BY <1>3
  <2>3. Chain(w, r, Len(out))
    BY <1>4
  <2>4. w[Len(out) + 1] = 0
    BY <1>4
  <2> HIDE DEF n, vb, la
  <2>5. Adds(w, u, a, b, i)
    BY <2>1, <2>2, <2>3, <2>4, RowWorth
  <2> QED
    BY <2>5 DEF vb, Adds
<1>6. /\ C \in Seq(Limbs) /\ Len(C) = la
      /\ \A k \in 1 .. la : C[k] = IF k <= i THEN a[k] ELSE 0
  BY <1>1, CutIs
<1>7. /\ D \in Seq(Limbs) /\ Len(D) = la
      /\ \A k \in 1 .. la : D[k] = IF k <= i - 1 THEN a[k] ELSE 0
  <2>1. PICK h : h = i - 1
    OBVIOUS
  <2>2. h \in 0 .. Len(a)
    BY <1>1, <2>1
  <2>3. /\ Cut(a, h) \in Seq(Limbs) /\ Len(Cut(a, h)) = Len(a)
        /\ \A k \in 1 .. Len(a) : Cut(a, h)[k] = IF k <= h THEN a[k] ELSE 0
    BY <2>2, CutIs
  <2> QED
    BY <2>1, <2>3
<1>8. \A k \in 1 .. la : a[k] \in Int
  <2>1. \A k \in 1 .. la : a[k] \in Limbs
    BY ElementOfSeq
  <2> HIDE DEF la
  <2> QED
    BY <2>1, BaseIs
<1>9. \A k \in 1 .. n : out[k] \in Int
  <2>1. \A k \in 1 .. n : out[k] \in Limbs
    BY ElementOfSeq
  <2> HIDE DEF n
  <2> QED
    BY <2>1, BaseIs
<1>10. Amount(out) = vb * Amount(D)
  OBVIOUS
<1>11. Base \in Nat
  BY BaseIs
<1> HIDE DEF la, n, vb, C, D
<1>12. PICK e : Chain(e, C, la) /\ e[la + 1] = 0 /\ e[1] = Amount(C)
  BY <1>6, AmountStarts
<1>13. PICK f : Chain(f, D, la) /\ f[la + 1] = 0 /\ f[1] = Amount(D)
  BY <1>7, AmountStarts
<1>14. /\ \A k \in 1 .. la + 1 : e[k] \in Int /\ f[k] \in Int
       /\ \A k \in 1 .. la : e[k] = e[k + 1] * Base + C[k] /\ f[k] = f[k + 1] * Base + D[k]
  BY <1>12, <1>13 DEF Chain
<1>15. /\ \A k \in 1 .. n + 1 : u[k] \in Int /\ w[k] \in Int
       /\ \A k \in 1 .. n : u[k] = u[k + 1] * Base + out[k] /\ w[k] = w[k + 1] * Base + r[k]
  BY <1>3, <1>4 DEF Chain
<1>16. e[i] = a[i]
  <2>1. PICK h : h = i + 1
    OBVIOUS
  <2>2. h \in 1 .. la + 1
    BY <1>1, <2>1
  <2>3. \A k \in h .. la : C[k] = 0
    <3>1. \A k \in h .. la : k \in 1 .. la /\ ~(k <= i)
      BY <1>1, <2>1
    <3> QED
      BY <1>6, <3>1
  <2>4. \A k \in h .. la + 1 : e[k] = 0
    <3>1. Chain(e, C, la)
      BY <1>12
    <3>2. e[la + 1] = 0 /\ la \in Nat
      BY <1>1, <1>12
    <3> QED
      BY <2>2, <2>3, <3>1, <3>2, ChainEnds
  <2>5. e[i + 1] = 0
    BY <1>1, <2>1, <2>4
  <2>6. i \in 1 .. la /\ i <= i
    BY <1>1
  <2>7. e[i] = 0 * Base + a[i]
    BY <1>6, <1>14, <2>5, <2>6
  <2>8. 0 * Base = 0 /\ a[i] \in Int
    BY <1>8, <1>11, <2>6
  <2> QED
    BY <2>7, <2>8
<1>17. f[i] = 0
  <2>1. i \in 1 .. la + 1
    BY <1>1
  <2>2. \A k \in i .. la : D[k] = 0
    <3>1. \A k \in i .. la : k \in 1 .. la /\ ~(k <= i - 1)
      BY <1>1
    <3> QED
      BY <1>7, <3>1
  <2>3. \A k \in i .. la + 1 : f[k] = 0
    <3>1. Chain(f, D, la)
      BY <1>13
    <3>2. f[la + 1] = 0 /\ la \in Nat
      BY <1>1, <1>13
    <3> QED
      BY <2>1, <2>2, <3>1, <3>2, ChainEnds
  <2> QED
    BY <1>1, <2>3
<1> DEFINE S == {k \in 1 .. i : w[k] = u[k] + vb * (e[k] - f[k])}
           m == i - 1
<1>18. m + 1 \in S
  <2>1. m + 1 = i /\ i \in 1 .. i /\ i \in 1 .. la
    BY <1>1
  <2>2. PICK x : x = a[i]
    OBVIOUS
  <2>3. x \in Int
    BY <1>8, <2>1, <2>2
  <2>4. x - 0 = x /\ vb * x = x * vb
    BY <1>1, <2>3
  <2> QED
    BY <1>5, <1>16, <1>17, <2>1, <2>2, <2>4
<1>19. ASSUME NEW k \in 1 .. m, k + 1 \in S PROVE k \in S
  <2>1. /\ k \in 1 .. i /\ k + 1 \in 1 .. i /\ k \in 1 .. i - 1 /\ k <= i /\ k <= i - 1
        /\ k \in 1 .. la /\ k \in 1 .. n /\ k + 1 \in 1 .. n + 1 /\ k + 1 \in 1 .. la + 1
    BY <1>1
  <2>2. w[k + 1] = u[k + 1] + vb * (e[k + 1] - f[k + 1])
    BY <1>19
  <2>3. w[k] = w[k + 1] * Base + out[k] /\ u[k] = u[k + 1] * Base + out[k]
    BY <1>2, <1>15, <2>1
  <2>4. e[k] = e[k + 1] * Base + a[k] /\ f[k] = f[k + 1] * Base + a[k]
    BY <1>6, <1>7, <1>14, <2>1
  <2>5. PICK u1, e1, f1, o, y : u1 = u[k + 1] /\ e1 = e[k + 1] /\ f1 = f[k + 1] /\ o = out[k] /\ y = a[k]
    OBVIOUS
  <2>6. u1 \in Int /\ e1 \in Int /\ f1 \in Int /\ o \in Int /\ y \in Int /\ vb \in Int
    BY <1>1, <1>8, <1>9, <1>14, <1>15, <2>1, <2>5
  <2>7. (u1 + vb * (e1 - f1)) * Base + o
          = (u1 * Base + o) + vb * ((e1 * Base + y) - (f1 * Base + y))
    BY <1>11, <2>6, CutStep
  <2>8. w[k] = (u1 + vb * (e1 - f1)) * Base + o
    BY <2>2, <2>3, <2>5
  <2>9. u[k] = u1 * Base + o /\ e[k] = e1 * Base + y /\ f[k] = f1 * Base + y
    BY <2>3, <2>4, <2>5
  <2>10. w[k] = u[k] + vb * (e[k] - f[k])
    BY <2>7, <2>8, <2>9
  <2> QED
    BY <2>1, <2>10
<1>20. 1 \in S
  <2>1. m \in Nat /\ 1 \in 1 .. m + 1
    BY <1>1
  <2>2. \A k \in 1 .. m + 1 : k \in S
    <3> HIDE DEF S, m
    <3> QED
      BY <1>18, <1>19, <2>1, Downwards
  <2> QED
    BY <2>1, <2>2
<1>21. w[1] = u[1] + vb * (e[1] - f[1])
  BY <1>20
<1>22. PICK p, q : p = e[1] /\ q = f[1]
  OBVIOUS
<1>23. p \in Int /\ q \in Int /\ vb \in Int
  BY <1>1, <1>14, <1>22
<1>24. vb * q + vb * (p - q) = vb * p
  <2>1. vb * (p - q) = vb * p - vb * q
    BY <1>23
  <2>2. PICK x, y : x = vb * p /\ y = vb * q
    OBVIOUS
  <2>3. x \in Int /\ y \in Int
    BY <1>23, <2>2
  <2>4. y + (x - y) = x
    BY <2>3
  <2> QED
    BY <2>1, <2>2, <2>4
<1>25. Amount(r) = vb * Amount(C)
  BY <1>3, <1>4, <1>10, <1>12, <1>13, <1>21, <1>22, <1>24
<1> QED
  BY <1>25 DEF vb, C

Outs(a, b) == {x \in Seq(Limbs) : Len(x) = Len(a) + Len(b)}

\* The products so far, row by row.
LEMMA TimesRows ==
  ASSUME NumbersAssumption, NEW a \in Seq(Limbs), NEW b \in Seq(Limbs)
  PROVE  \E o : /\ Times(a, b) = o[Len(a)]
                /\ o[0] = [k \in 1 .. Len(a) + Len(b) |-> 0]
                /\ \A i \in 1 .. Len(a) : o[i] = Row(a, b, o[i - 1], i)
                /\ \A i \in 0 .. Len(a) : o[i] \in Outs(a, b)
<1> DEFINE n == Len(a)
           T == Outs(a, b)
           start == [k \in 1 .. Len(a) + Len(b) |-> 0]
           Loop(f) == f = [i \in 0 .. n |-> IF i = 0 THEN start ELSE Row(a, b, f[i - 1], i)]
           o == CHOOSE f : Loop(f)
           step == [p \in (1 .. n) \X T |-> Row(a, b, p[2], p[1])]
<1>1. n \in Nat
  BY LenProperties
<1>2. Times(a, b) = o[n]
  BY DEF Times
<1>3. start \in T
  <2>1. PICK m : m = Len(a) + Len(b)
    OBVIOUS
  <2>2. m \in Nat /\ start = [k \in 1 .. m |-> 0] /\ 0 \in Limbs
    BY <2>1, LenProperties, BaseIs DEF Limbs
  <2> HIDE DEF start
  <2>3. start \in [1 .. m -> Limbs]
    BY <2>2
  <2>4. start \in Seq(Limbs) /\ Len(start) = m
    BY <2>2, <2>3, ListedIs
  <2> QED
    BY <2>1, <2>4 DEF Outs
<1>4. ASSUME NEW i \in 1 .. n, NEW x \in T PROVE Row(a, b, x, i) \in T
  <2>1. x \in Seq(Limbs) /\ Len(x) = Len(a) + Len(b)
    BY DEF Outs
  <2>2. PICK t : RowFits(Row(a, b, x, i), t, a, b, x, i)
    BY <2>1, RowIs
  <2>3. Row(a, b, x, i) \in Seq(Limbs) /\ Len(Row(a, b, x, i)) = Len(x)
    BY <2>2 DEF RowFits
  <2> QED
    BY <2>1, <2>3 DEF Outs
<1>5. \A i \in 1 .. n : \A x \in T : step[<<i, x>>] = Row(a, b, x, i)
  OBVIOUS
<1> HIDE DEF n, T, step, start
<1>6. PICK f : Loops(f, n, T, start, step)
  <2>1. \A i \in 1 .. n : \A x \in T : step[<<i, x>>] \in T
    BY <1>4, <1>5
  <2> QED
    BY <1>1, <1>3, <2>1, LoopExists
<1>7. Loop(f)
  <2> DEFINE F(i) == IF i = 0 THEN start ELSE Row(a, b, f[i - 1], i)
  <2>1. \A i \in 0 .. n : i = 0 \/ (i \in 1 .. n /\ i - 1 \in 0 .. n)
    BY <1>1
  <2>2. \A i \in 0 .. n : f[i] = F(i)
    BY <1>5, <1>6, <2>1 DEF Loops
  <2>3. f = [i \in 0 .. n |-> F(i)]
    <3> HIDE DEF F
    <3> QED
      BY <1>6, <2>2 DEF Loops
  <2> QED
    BY <2>3
<1>8. Loop(o)
  <2> HIDE DEF Loop
  <2> QED
    BY <1>7
<1> HIDE DEF o
<1>9. o[0] = start /\ \A i \in 1 .. n : o[i] = Row(a, b, o[i - 1], i)
  <2> DEFINE F(i) == IF i = 0 THEN start ELSE Row(a, b, o[i - 1], i)
  <2>1. o = [i \in 0 .. n |-> F(i)]
    BY <1>8
  <2>2. \A i \in 0 .. n : o[i] = F(i)
    <3> HIDE DEF F
    <3> QED
      BY <2>1
  <2>3. 0 \in 0 .. n /\ \A i \in 1 .. n : i \in 0 .. n /\ i # 0
    BY <1>1
  <2> QED
    BY <2>2, <2>3
<1> HIDE DEF Loop
<1>10. \A i \in 0 .. n : o[i] \in T
  <2> DEFINE S == {i \in 0 .. n : o[i] \in T}
  <2>1. 0 \in S
    BY <1>1, <1>3, <1>9
  <2>2. ASSUME NEW i \in 1 .. n, i - 1 \in S PROVE i \in S
    <3>1. o[i - 1] \in T /\ o[i] = Row(a, b, o[i - 1], i)
      BY <1>9, <2>2
    <3>2. o[i] \in T
      BY <1>4, <3>1
    <3> QED
      BY <3>2
  <2>3. \A i \in 0 .. n : i \in S
    <3> HIDE DEF S
    <3> QED
      BY <1>1, <2>1, <2>2, Upwards
  <2> QED
    BY <2>3
<1> QED
  BY <1>2, <1>9, <1>10 DEF T, n, start

LEMMA TimesIs ==
  ASSUME NumbersAssumption, NEW a \in Seq(Limbs), NEW b \in Seq(Limbs)
  PROVE  Times(a, b) \in Seq(Limbs) /\ Amount(Times(a, b)) = Amount(a) * Amount(b)
<1> DEFINE la == Len(a)
           lb == Len(b)
           n  == la + lb
<1>1. PICK o : /\ Times(a, b) = o[la]
               /\ o[0] = [k \in 1 .. n |-> 0]
               /\ \A i \in 1 .. la : o[i] = Row(a, b, o[i - 1], i)
               /\ \A i \in 0 .. la : o[i] \in Outs(a, b)
  BY TimesRows
<1>2. la \in Nat /\ lb \in Nat /\ Amount(a) \in Nat /\ Amount(b) \in Nat
  BY LenProperties, AmountNat
<1>3. \A i \in 0 .. la : o[i] \in Seq(Limbs) /\ Len(o[i]) = n
  BY <1>1 DEF Outs
<1>4. Amount(Cut(a, 0)) = 0 /\ Amount(Cut(a, la)) = Amount(a)
  BY CutEnds
<1> DEFINE S == {i \in 0 .. la : /\ Amount(o[i]) = Amount(b) * Amount(Cut(a, i))
                                 /\ FreeFrom(o[i], i + lb + 1)}
<1>5. 0 \in S
  <2>1. PICK z : z = o[0]
    OBVIOUS
  <2>2. z \in Seq(Limbs) /\ Len(z) = n /\ \A k \in 1 .. n : z[k] = 0
    BY <1>1, <1>2, <1>3, <2>1
  <2>3. Amount(z) = 0
    <3>1. \A k \in 1 .. Len(z) : z[k] = 0
      BY <2>2
    <3> QED
      BY <2>2, <3>1, NothingAmounts
  <2>4. PICK h : h = 0 + lb + 1
    OBVIOUS
  <2>5. FreeFrom(z, h)
    <3>1. \A k \in h .. n : k \in 1 .. n
      BY <1>2, <2>4
    <3> QED
      BY <2>2, <3>1 DEF FreeFrom
  <2>6. Amount(b) * 0 = 0 /\ 0 \in 0 .. la
    BY <1>2
  <2> QED
    BY <1>4, <2>1, <2>3, <2>4, <2>5, <2>6
<1>6. ASSUME NEW i \in 1 .. la, i - 1 \in S PROVE i \in S
  <2>1. PICK x, r : x = o[i - 1] /\ r = o[i]
    OBVIOUS
  <2>2. i - 1 \in 0 .. la /\ i \in 0 .. la /\ (i - 1) + lb + 1 = i + lb
    BY <1>2
  <2>3. x \in Seq(Limbs) /\ Len(x) = Len(a) + Len(b) /\ r = Row(a, b, x, i)
    BY <1>1, <1>3, <2>1, <2>2
  <2>4. PICK t : RowFits(r, t, a, b, x, i)
    BY <2>3, RowIs
  <2>5. FreeFrom(x, i + Len(b))
    BY <1>6, <2>1, <2>2
  <2>6. Amount(x) = Amount(b) * Amount(Cut(a, i - 1))
    BY <1>6, <2>1
  <2>7. Amount(r) = Amount(b) * Amount(Cut(a, i))
    BY <2>3, <2>4, <2>5, <2>6, RowAmount
  <2>8. FreeFrom(r, i + lb + 1)
    <3>1. Len(r) = Len(x) /\ \A k \in 1 .. Len(x) : k > i + lb => r[k] = x[k]
      BY <2>4 DEF RowFits
    <3>2. \A k \in i + lb + 1 .. n : k \in 1 .. n /\ k > i + lb /\ k \in i + lb .. n
      BY <1>2
    <3> QED
      BY <2>3, <2>5, <3>1, <3>2 DEF FreeFrom
  <2> QED
    BY <2>1, <2>2, <2>7, <2>8
<1>7. la \in S
  <2>1. \A i \in 0 .. la : i \in S
    <3> HIDE DEF S, la
    <3> QED
      BY <1>2, <1>5, <1>6, Upwards
  <2>2. la \in 0 .. la
    BY <1>2
  <2> HIDE DEF S
  <2> QED
    BY <2>1, <2>2
<1>8. Amount(o[la]) = Amount(b) * Amount(a)
  BY <1>4, <1>7
<1>9. Amount(b) * Amount(a) = Amount(a) * Amount(b)
  BY <1>2
<1>10. la \in 0 .. la
  BY <1>2
<1> QED
  BY <1>1, <1>3, <1>8, <1>9, <1>10

-----------------------------------------------------------------------------
(* The operations.                                                          *)

LEMMA FitsIs ==
  ASSUME NumbersAssumption, NEW x, NEW y, Proper(x), Proper(y)
  PROVE  \A n : Fits(x, y, n) => /\ n \in Word /\ x.n = Meaning(x) /\ y.n = Meaning(y)
  BY OperandIs DEF Fits

LEMMA AddIs ==
  ASSUME NumbersAssumption, NEW x, NEW y, Proper(x), Proper(y)
  PROVE  Proper(Add(x, y)) /\ Meaning(Add(x, y)) = Meaning(x) + Meaning(y)
<1>1. PICK n : n = x.n + y.n
  OBVIOUS
<1>2. CASE Fits(x, y, n)
  <2>1. Add(x, y) = FromInt(n)
    BY <1>1, <1>2 DEF Add
  <2>2. n \in Word /\ n = Meaning(x) + Meaning(y)
    BY <1>1, <1>2, FitsIs
  <2> QED
    BY <2>1, <2>2, FromIntIs
<1>3. CASE ~Fits(x, y, n)
  <2>1. PICK a, b : a = Operand(x) /\ b = Operand(y)
    OBVIOUS
  <2>2. PICK s : s = SignedAdd(a, b, FALSE)
    OBVIOUS
  <2>3. Add(x, y) = Finish(s)
    BY <1>1, <1>3, <2>1, <2>2 DEF Add
  <2>4. Sound(a) /\ Sound(b) /\ Worth(a) = Meaning(x) /\ Worth(b) = Meaning(y)
    BY <2>1, OperandIs
  <2>5. Sound(s) /\ Worth(s) = Worth(a) + Worth(b)
    BY <2>2, <2>4, SignedAddIs
  <2> QED
    BY <2>3, <2>4, <2>5, FinishIs
<1> QED
  BY <1>2, <1>3

LEMMA SubIs ==
  ASSUME NumbersAssumption, NEW x, NEW y, Proper(x), Proper(y)
  PROVE  Proper(Sub(x, y)) /\ Meaning(Sub(x, y)) = Meaning(x) - Meaning(y)
<1>1. PICK n : n = x.n - y.n
  OBVIOUS
<1>2. CASE Fits(x, y, n)
  <2>1. Sub(x, y) = FromInt(n)
    BY <1>1, <1>2 DEF Sub
  <2>2. n \in Word /\ n = Meaning(x) - Meaning(y)
    BY <1>1, <1>2, FitsIs
  <2> QED
    BY <2>1, <2>2, FromIntIs
<1>3. CASE ~Fits(x, y, n)
  <2>1. PICK a, b : a = Operand(x) /\ b = Operand(y)
    OBVIOUS
  <2>2. PICK s : s = SignedAdd(a, b, TRUE)
    OBVIOUS
  <2>3. Sub(x, y) = Finish(s)
    BY <1>1, <1>3, <2>1, <2>2 DEF Sub
  <2>4. Sound(a) /\ Sound(b) /\ Worth(a) = Meaning(x) /\ Worth(b) = Meaning(y)
    BY <2>1, OperandIs
  <2>5. Sound(s) /\ Worth(s) = Worth(a) - Worth(b)
    BY <2>2, <2>4, SignedAddIs
  <2> QED
    BY <2>3, <2>4, <2>5, FinishIs
<1> QED
  BY <1>2, <1>3

LEMMA SignsMultiply ==
  ASSUME NEW m \in Int, NEW n \in Int
  PROVE  (0 - m) * n = 0 - m * n /\ m * (0 - n) = 0 - m * n /\ (0 - m) * (0 - n) = m * n
  OBVIOUS

LEMMA MulIs ==
  ASSUME NumbersAssumption, NEW x, NEW y, Proper(x), Proper(y)
  PROVE  Proper(Mul(x, y)) /\ Meaning(Mul(x, y)) = Meaning(x) * Meaning(y)
<1>1. PICK n : n = x.n * y.n
  OBVIOUS
<1>2. CASE Fits(x, y, n)
  <2>1. Mul(x, y) = FromInt(n)
    BY <1>1, <1>2 DEF Mul
  <2>2. n \in Word /\ n = Meaning(x) * Meaning(y)
    BY <1>1, <1>2, FitsIs
  <2> QED
    BY <2>1, <2>2, FromIntIs
<1>3. CASE ~Fits(x, y, n)
  <2>1. PICK a, b : a = Operand(x) /\ b = Operand(y)
    OBVIOUS
  <2>2. PICK t, p, q, s : /\ t = Times(a.limbs, b.limbs) /\ p = a.positive /\ q = b.positive
                          /\ s = (p = q)
    OBVIOUS
  <2>3. Mul(x, y) = Finish(Data(t, s))
    BY <1>1, <1>3, <2>1, <2>2 DEF Mul
  <2>4. Sound(a) /\ Sound(b) /\ Worth(a) = Meaning(x) /\ Worth(b) = Meaning(y)
    BY <2>1, OperandIs
  <2>5. PICK k, l : k = Amount(a.limbs) /\ l = Amount(b.limbs)
    OBVIOUS
  <2>6. a.limbs \in Seq(Limbs) /\ b.limbs \in Seq(Limbs) /\ k \in Int /\ l \in Int
    BY <2>4, <2>5, SoundIs
  <2>7. t \in Seq(Limbs) /\ Amount(t) = k * l
    BY <2>2, <2>5, <2>6, TimesIs
  <2>8. p \in BOOLEAN /\ q \in BOOLEAN /\ s \in BOOLEAN
    BY <2>2, <2>4 DEF Sound
  <2>9. Sound(Data(t, s)) /\ Worth(Data(t, s)) = IF s THEN k * l ELSE 0 - k * l
    BY <2>7, <2>8, DataIs
  <2>10. Worth(a) = (IF p THEN k ELSE 0 - k) /\ Worth(b) = (IF q THEN l ELSE 0 - l)
    BY <2>2, <2>5 DEF Worth
  <2>11. Worth(a) * Worth(b) = IF s THEN k * l ELSE 0 - k * l
    <3>1. (0 - k) * l = 0 - k * l /\ k * (0 - l) = 0 - k * l /\ (0 - k) * (0 - l) = k * l
      BY <2>6, SignsMultiply
    <3>2. CASE p /\ q
      BY <2>2, <2>10, <3>2
    <3>3. CASE p /\ ~q
      BY <2>2, <2>10, <3>1, <3>3
    <3>4. CASE ~p /\ q
      BY <2>2, <2>10, <3>1, <3>4
    <3>5. CASE ~p /\ ~q
      BY <2>2, <2>8, <2>10, <3>1, <3>5
    <3> QED
      BY <2>8, <3>2, <3>3, <3>4, <3>5
  <2> QED
    BY <2>3, <2>4, <2>9, <2>11, FinishIs
<1> QED
  BY <1>2, <1>3

LEMMA NegIs ==
  ASSUME NumbersAssumption, NEW x, Proper(x)
  PROVE  Proper(Neg(x)) /\ Meaning(Neg(x)) = 0 - Meaning(x)
<1>1. PICK m : m = Meaning(x)
  OBVIOUS
<1>2. m \in Int
  BY <1>1, OperandIs
<1>3. CASE IsSmall(x)
  <2>1. PICK n : n = 0 - m
    OBVIOUS
  <2>2. x.n = m /\ m \in Payload
    BY <1>1, <1>3, OperandIs
  <2>3. -m = n
    BY <1>2, <2>1
  <2>4. Neg(x) = FromInt(n)
    BY <1>3, <2>2, <2>3 DEF Neg
  <2>5. n \in Word
    <3>1. PICK w, p : w = WordSign /\ p = PayloadSign
      OBVIOUS
    <3>2. 0 - p <= m /\ m < p /\ p < w /\ w \in Nat /\ p \in Nat
      BY <2>2, <3>1, WordsAre DEF NumbersAssumption
    <3>3. n \in Int /\ 0 - w <= n /\ n < w
      BY <1>2, <2>1, <3>2
    <3> QED
      BY <3>1, <3>3, WordsAre
  <2> QED
    BY <1>1, <2>1, <2>4, <2>5, FromIntIs
<1>4. CASE ~IsSmall(x)
  <2>1. PICK d : d = Operand(x)
    OBVIOUS
  <2>2. PICK p : p = d.positive
    OBVIOUS
  <2>3. PICK q \in BOOLEAN : q = ~p
    OBVIOUS
  <2>4. Neg(x) = Finish(Data(d.limbs, q))
    BY <1>4, <2>1, <2>2, <2>3 DEF Neg
  <2>5. Sound(d) /\ Worth(d) = m
    BY <1>1, <2>1, OperandIs
  <2>6. PICK k : k = Amount(d.limbs)
    OBVIOUS
  <2>7. d.limbs \in Seq(Limbs) /\ k \in Nat /\ p \in BOOLEAN
    BY <2>2, <2>5, <2>6, SoundIs DEF Sound
  <2>8. Sound(Data(d.limbs, q)) /\ Worth(Data(d.limbs, q)) = IF q THEN k ELSE 0 - k
    BY <2>6, <2>7, DataIs
  <2>9. m = IF p THEN k ELSE 0 - k
    BY <2>2, <2>5, <2>6 DEF Worth
  <2>10. Worth(Data(d.limbs, q)) = 0 - m
    <3>1. CASE p
      BY <2>3, <2>7, <2>8, <2>9, <3>1
    <3>2. CASE ~p
      <4>1. q /\ m = 0 - k
        BY <2>3, <2>9, <3>2
      <4>2. 0 - m = k
        BY <2>7, <4>1
      <4> QED
        BY <2>8, <4>1, <4>2
    <3> QED
      BY <3>1, <3>2
  <2> QED
    BY <1>1, <2>4, <2>8, <2>10, FinishIs
<1> QED
  BY <1>3, <1>4

LEMMA CompareIs ==
  ASSUME NumbersAssumption, NEW x, NEW y, Proper(x), Proper(y)
  PROVE  Compare(x, y) = IF Meaning(x) < Meaning(y) THEN -1 ELSE IF Meaning(x) = Meaning(y) THEN 0 ELSE 1
<1>1. PICK m, n : m = Meaning(x) /\ n = Meaning(y)
  OBVIOUS
<1>2. m \in Int /\ n \in Int
  BY <1>1, OperandIs
<1>3. CASE IsSmall(x) /\ IsSmall(y)
  <2>1. x.n = m /\ y.n = n
    BY <1>1, <1>3, OperandIs
  <2>2. Compare(x, y) = IF m < n THEN -1 ELSE IF m > n THEN 1 ELSE 0
    BY <1>3, <2>1 DEF Compare
  <2> QED
    BY <1>1, <1>2, <2>2
<1>4. CASE ~(IsSmall(x) /\ IsSmall(y))
  <2>1. PICK a, b : a = Operand(x) /\ b = Operand(y)
    OBVIOUS
  <2>2. PICK p, q, k, l, c : /\ p = a.positive /\ q = b.positive /\ k = Amount(a.limbs)
                             /\ l = Amount(b.limbs) /\ c = Cmp(a.limbs, b.limbs)
    OBVIOUS
  <2>3. Compare(x, y) = IF p # q THEN IF p THEN 1 ELSE -1 ELSE IF p THEN c ELSE -c
    BY <1>4, <2>1, <2>2 DEF Compare
  <2>4. Sound(a) /\ Sound(b) /\ Worth(a) = m /\ Worth(b) = n
    BY <1>1, <2>1, OperandIs
  <2>5. p \in BOOLEAN /\ q \in BOOLEAN /\ Tight(a.limbs) /\ Tight(b.limbs)
    BY <2>2, <2>4 DEF Sound
  <2>6. k \in Nat /\ l \in Nat /\ (p <=> m >= 0) /\ (q <=> n >= 0)
    BY <2>2, <2>4, SoundIs
  <2>7. m = (IF p THEN k ELSE 0 - k) /\ n = (IF q THEN l ELSE 0 - l)
    BY <2>2, <2>4 DEF Worth
  <2>8. c = IF k < l THEN -1 ELSE IF k = l THEN 0 ELSE 1
    BY <2>2, <2>5, CmpIs
  <2>9. Compare(x, y) = IF m < n THEN -1 ELSE IF m = n THEN 0 ELSE 1
    <3>1. CASE p /\ q
      BY <2>3, <2>6, <2>7, <2>8, <3>1
    <3>2. CASE p /\ ~q
      <4>1. ~(m < n) /\ m # n
        BY <1>2, <2>6, <3>2
      <4> QED
        BY <2>3, <3>2, <4>1
    <3>3. CASE ~p /\ q
      <4>1. m < n
        BY <1>2, <2>6, <3>3
      <4> QED
        BY <2>3, <3>3, <4>1
    <3>4. CASE ~p /\ ~q
      <4>1. Compare(x, y) = 0 - c
        <5>1. Compare(x, y) = -c
          BY <2>3, <2>5, <3>4
        <5>2. c \in Int
          BY <2>8
        <5>3. -c = 0 - c
          BY <5>2
        <5> QED
          BY <5>1, <5>3
      <4>2. m = 0 - k /\ n = 0 - l
        BY <2>7, <3>4
      <4>3. CASE k < l
        <5>1. ~(m < n) /\ m # n
          BY <2>6, <4>2, <4>3
        <5>2. 0 - c = 1
          <6>1. c = -1
            BY <2>8, <4>3
          <6>2. c = 0 - 1
            BY <6>1
          <6> QED
            BY <6>2
        <5> QED
          BY <4>1, <5>1, <5>2
      <4>4. CASE k = l
        <5>1. ~(m < n) /\ m = n
          BY <2>6, <4>2, <4>4
        <5>2. 0 - c = 0
          <6>1. ~(k < l)
            BY <2>6, <4>4
          <6>2. c = 0
            BY <2>8, <4>4, <6>1
          <6> QED
            BY <6>2
        <5> QED
          BY <4>1, <5>1, <5>2
      <4>5. CASE l < k
        <5>1. m < n
          BY <2>6, <4>2, <4>5
        <5>2. 0 - c = -1
          BY <2>6, <2>8, <4>5
        <5> QED
          BY <4>1, <5>1, <5>2
      <4> QED
        BY <2>6, <4>3, <4>4, <4>5
    <3> QED
      BY <2>5, <3>1, <3>2, <3>3, <3>4
  <2> QED
    BY <1>1, <2>9
<1> QED
  BY <1>3, <1>4

-----------------------------------------------------------------------------
(* Numbers, and the theorem.                                                *)

LEMMA Halved ==
  ASSUME NumbersAssumption, NEW m \in Nat, NEW x \in 0 .. m + 1
  PROVE  x \div Base \in 0 .. m
<1>1. PICK q, r : q = x \div Base /\ r = x % Base
  OBVIOUS
<1>2. q \in Int /\ r \in Limbs /\ x = q * Base + r /\ x \in Nat
  <2>1. x \in Int
    OBVIOUS
  <2>2. x \div Base \in Int /\ x % Base \in Limbs /\ x = (x \div Base) * Base + (x % Base)
    BY <2>1, Divided
  <2> QED
    BY <1>1, <2>2
<1>3. Base \in Nat /\ Base > 1 /\ r \in Nat /\ r < Base
  BY <1>2, BaseIs DEF Limbs
<1>4. q >= 0
  <2>1. SUFFICES ASSUME q < 0 PROVE FALSE
    BY <1>2
  <2>2. 0 - 1 - q \in Nat
    BY <1>2, <2>1
  <2>3. (0 - 1 - q) * Base \in Nat
    BY <1>3, <2>2, ScaledNat
  <2>4. (0 - 1 - q) * Base = 0 - Base - q * Base /\ q * Base \in Int
    BY <1>2, <1>3
  <2> QED
    BY <1>2, <1>3, <2>3, <2>4
<1>5. CASE q = 0
  BY <1>1, <1>5
<1>6. CASE q > 0
  <2>1. q \in Nat /\ Base - 2 \in Nat
    BY <1>2, <1>3, <1>6
  <2>2. q * (Base - 2) \in Nat
    BY <2>1, ScaledNat
  <2>3. q * (Base - 2) = q * Base - 2 * q /\ q * Base \in Int
    BY <1>2, <1>3
  <2>4. PICK p : p = q * Base
    OBVIOUS
  <2>5. p \in Int /\ p >= 2 * q /\ x = p + r
    BY <1>2, <2>1, <2>2, <2>3, <2>4
  <2>6. x >= 2 * q
    BY <1>3, <2>1, <2>5
  <2>7. q <= m
    BY <1>6, <2>1, <2>6
  <2> QED
    BY <1>1, <2>1, <2>7
<1> QED
  BY <1>2, <1>4, <1>5, <1>6

\* What is left of a number after each limb was taken.
LEMMA NumberLeft ==
  ASSUME NumbersAssumption, NEW n \in Int, NEW m \in Nat, m = Magnitude(n)
  PROVE  \E f : /\ f[0] = m /\ \A i \in 1 .. m : f[i] = f[i - 1] \div Base
                /\ \A i \in 0 .. m : f[i] \in 0 .. m - i
                /\ Number(n) = Finish(Data([i \in 1 .. m |-> f[i - 1] % Base], n >= 0))
<1> DEFINE T == 0 .. m
           Loop(f) == f = [i \in 0 .. m |-> IF i = 0 THEN m ELSE f[i - 1] \div Base]
           o == CHOOSE f : Loop(f)
           step == [p \in (1 .. m) \X T |-> p[2] \div Base]
<1>1. Number(n) = Finish(Data([i \in 1 .. m |-> o[i - 1] % Base], n >= 0))
  BY DEF Number
<1>2. \A x \in T : x \div Base \in T
  <2>1. \A x \in 0 .. m : x \in 0 .. m + 1
    OBVIOUS
  <2> QED
    BY <2>1, Halved
<1>3. \A i \in 1 .. m : \A x \in T : step[<<i, x>>] = x \div Base
  OBVIOUS
<1>4. m \in T
  OBVIOUS
<1> HIDE DEF T, step
<1>5. PICK f : Loops(f, m, T, m, step)
  <2>1. \A i \in 1 .. m : \A x \in T : step[<<i, x>>] \in T
    BY <1>2, <1>3
  <2> QED
    BY <1>4, <2>1, LoopExists
<1>6. Loop(f)
  <2> DEFINE F(i) == IF i = 0 THEN m ELSE f[i - 1] \div Base
  <2>1. \A i \in 0 .. m : i = 0 \/ (i \in 1 .. m /\ i - 1 \in 0 .. m)
    OBVIOUS
  <2>2. ASSUME NEW i \in 0 .. m PROVE f[i] = F(i)
    <3>1. CASE i = 0
      BY <1>5, <3>1 DEF Loops
    <3>2. CASE i \in 1 .. m /\ i - 1 \in 0 .. m
      <4>1. f[i] = step[<<i, f[i - 1]>>] /\ f[i - 1] \in T
        BY <1>5, <3>2 DEF Loops
      <4>2. f[i] = f[i - 1] \div Base
        BY <1>3, <3>2, <4>1
      <4>3. i # 0
        BY <3>2
      <4> QED
        BY <4>2, <4>3
    <3> QED
      BY <2>1, <3>1, <3>2
  <2>3. f = [i \in 0 .. m |-> F(i)]
    <3> HIDE DEF F
    <3> QED
      BY <1>5, <2>2 DEF Loops
  <2> QED
    BY <2>3
<1>7. Loop(o)
  <2> HIDE DEF Loop
  <2> QED
    BY <1>6
<1> HIDE DEF o
<1>8. o[0] = m /\ \A i \in 1 .. m : o[i] = o[i - 1] \div Base
  <2> DEFINE F(i) == IF i = 0 THEN m ELSE o[i - 1] \div Base
  <2>1. o = [i \in 0 .. m |-> F(i)]
    BY <1>7
  <2>2. \A i \in 0 .. m : o[i] = F(i)
    <3> HIDE DEF F
    <3> QED
      BY <2>1
  <2>3. 0 \in 0 .. m /\ \A i \in 1 .. m : i \in 0 .. m /\ i # 0
    OBVIOUS
  <2> QED
    BY <2>2, <2>3
<1> HIDE DEF Loop
<1>9. \A i \in 0 .. m : o[i] \in 0 .. m - i
  <2> DEFINE S == {i \in 0 .. m : o[i] \in 0 .. m - i}
  <2>1. 0 \in S
    BY <1>8
  <2>2. ASSUME NEW i \in 1 .. m, i - 1 \in S PROVE i \in S
    <3>1. PICK k : k = m - i
      OBVIOUS
    <3>2. k \in Nat /\ m - (i - 1) = k + 1
      BY <3>1
    <3>3. o[i - 1] \in 0 .. k + 1 /\ o[i] = o[i - 1] \div Base
      BY <1>8, <2>2, <3>2
    <3>4. o[i] \in 0 .. k
      BY <3>2, <3>3, Halved
    <3> QED
      BY <3>1, <3>4
  <2>3. \A i \in 0 .. m : i \in S
    <3> HIDE DEF S
    <3> QED
      BY <2>1, <2>2, Upwards
  <2> QED
    BY <2>3
<1> QED
  BY <1>1, <1>8, <1>9

LEMMA NumberIs ==
  ASSUME NumbersAssumption, NEW n \in Int
  PROVE  Proper(Number(n)) /\ Meaning(Number(n)) = n
<1>1. PICK m : m = Magnitude(n)
  OBVIOUS
<1>2. m \in Nat /\ (n >= 0 => n = m) /\ (~(n >= 0) => n = 0 - m)
  <2>1. m = IF n < 0 THEN -n ELSE n
    BY <1>1 DEF Magnitude
  <2> QED
    BY <2>1
<1>3. PICK f : /\ f[0] = m /\ \A i \in 1 .. m : f[i] = f[i - 1] \div Base
               /\ \A i \in 0 .. m : f[i] \in 0 .. m - i
               /\ Number(n) = Finish(Data([i \in 1 .. m |-> f[i - 1] % Base], n >= 0))
  BY <1>1, <1>2, NumberLeft
<1> DEFINE x == [i \in 1 .. m |-> f[i - 1] % Base]
           v == [i \in 1 .. m + 1 |-> f[i - 1]]
<1>4. \A i \in 0 .. m : f[i] \in Int
  BY <1>2, <1>3
<1>5. x \in Seq(Limbs) /\ Len(x) = m /\ \A i \in 1 .. m : x[i] = f[i - 1] % Base
  <2>1. \A i \in 1 .. m : f[i - 1] \in Int
    <3>1. \A i \in 1 .. m : i - 1 \in 0 .. m
      BY <1>2
    <3> QED
      BY <1>4, <3>1
  <2>2. \A i \in 1 .. m : f[i - 1] % Base \in Limbs
    BY <2>1, Divided
  <2>3. x \in [1 .. m -> Limbs] /\ \A i \in 1 .. m : x[i] = f[i - 1] % Base
    BY <2>2
  <2> HIDE DEF x
  <2> QED
    BY <1>2, <2>3, ListedIs
<1>6. v \in [1 .. m + 1 -> Int] /\ \A i \in 1 .. m + 1 : v[i] = f[i - 1]
  <2>1. \A i \in 1 .. m + 1 : i - 1 \in 0 .. m
    BY <1>2
  <2> QED
    BY <1>4, <2>1
<1> HIDE DEF x, v
<1>7. v[1] = m /\ v[m + 1] = 0
  <2>1. 1 \in 1 .. m + 1 /\ m + 1 \in 1 .. m + 1 /\ 1 - 1 = 0 /\ (m + 1) - 1 = m /\ m \in 0 .. m /\ m - m = 0
    BY <1>2
  <2>2. f[m] \in 0 .. m - m
    BY <1>3, <2>1
  <2>3. f[m] = 0
    BY <2>1, <2>2
  <2>4. v[1] = f[1 - 1] /\ v[m + 1] = f[(m + 1) - 1]
    BY <1>6, <2>1
  <2>5. v[1] = f[0] /\ v[m + 1] = f[m]
    BY <2>1, <2>4
  <2> QED
    BY <1>3, <2>3, <2>5
<1>8. Chain(v, x, m)
  <2>1. ASSUME NEW i \in 1 .. m PROVE v[i] = v[i + 1] * Base + x[i]
    <3>1. i \in 1 .. m + 1 /\ i + 1 \in 1 .. m + 1 /\ (i + 1) - 1 = i /\ i - 1 \in 0 .. m
      BY <1>2
    <3>2. PICK y : y = f[i - 1]
      OBVIOUS
    <3>3. y \in Int
      BY <1>4, <3>1, <3>2
    <3>4. y = (y \div Base) * Base + (y % Base)
      BY <3>3, Divided
    <3>5. v[i] = y /\ v[i + 1] = y \div Base /\ x[i] = y % Base
      BY <1>3, <1>5, <1>6, <3>1, <3>2
    <3> QED
      BY <3>4, <3>5
  <2> QED
    BY <1>6, <2>1 DEF Chain
<1>9. Amount(x) = m
  <2>1. \A i \in 1 .. m : x[i] = Limb(x, i)
    BY <1>5, LimbIs
  <2>2. Len(x) <= m /\ m \in Nat /\ x \in Seq(Limbs)
    BY <1>2, <1>5
  <2>3. Chain(v, x, m)
    BY <1>8
  <2>4. v[m + 1] = 0
    BY <1>7
  <2>5. v[1] = Amount(x)
    BY <2>1, <2>2, <2>3, <2>4, AmountIs
  <2> QED
    BY <1>7, <2>5
<1>10. Number(n) = Finish(Data(x, n >= 0))
  BY <1>3 DEF x
<1>11. PICK d : d = Data(x, n >= 0)
  OBVIOUS
<1>12. Sound(d) /\ Worth(d) = n
  <2>1. CASE n >= 0
    <3>1. (n >= 0) = TRUE
      BY <2>1
    <3>2. d = Data(x, TRUE)
      BY <1>11, <3>1
    <3> QED
      BY <1>2, <1>5, <1>9, <2>1, <3>2, DataIs
  <2>2. CASE ~(n >= 0)
    <3>1. (n >= 0) = FALSE
      BY <2>2
    <3>2. d = Data(x, FALSE)
      BY <1>11, <3>1
    <3> QED
      BY <1>2, <1>5, <1>9, <2>2, <3>2, DataIs
  <2> QED
    BY <2>1, <2>2
<1> QED
  BY <1>10, <1>11, <1>12, FinishIs

LEMMA NormalIs ==
  ASSUME NumbersAssumption, NEW v, Proper(v)
  PROVE  IsNormal(v)
<1>1. CASE \E n \in Payload : v = Small(n)
  BY <1>1 DEF Small, IsNormal
<1>2. CASE \E d : Sound(d) /\ v = Big(d) /\ Worth(d) \notin Payload
  <2>1. PICK d : Sound(d) /\ v = Big(d) /\ Worth(d) \notin Payload
    BY <1>2
  <2>2. v.kind = "big" /\ v.data = d
    BY <2>1 DEF Big
  <2>3. Meaning(v) \notin Payload
    BY <2>1, MeaningIs
  <2>4. PICK x : x = d.limbs
    OBVIOUS
  <2>5. Tight(x) /\ x \in Seq(Limbs)
    BY <2>1, <2>4 DEF Sound, Tight
  <2>6. x = Trimmed(x)
    BY <2>5, TrimmedIs
  <2>7. ToSet(x) \subseteq 0 .. Base - 1
    <3>1. \A i \in 1 .. Len(x) : x[i] \in Limbs
      BY <2>5, ElementOfSeq
    <3>2. DOMAIN x = 1 .. Len(x)
      BY <2>5, LenProperties
    <3> QED
      BY <3>1, <3>2 DEF ToSet, Limbs
  <2> QED
    BY <2>2, <2>3, <2>4, <2>6, <2>7 DEF IsNormal
<1> QED
  BY <1>1, <1>2 DEF Proper

\* Sums, differences, products and comparisons of numbers are exact, for limbs, payloads
\* and words of any size and for numbers of any size.
THEOREM ArithmeticAgreesHolds ==
  ASSUME NumbersAssumption, lhs \in Int, rhs \in Int
  PROVE  ArithmeticAgrees
<1>1. PICK m, n : m = lhs /\ n = rhs
  OBVIOUS
<1>2. PICK x, y : x = Number(lhs) /\ y = Number(rhs)
  OBVIOUS
<1>3. m \in Int /\ n \in Int
  BY <1>1
<1>4. Proper(x) /\ Proper(y) /\ Meaning(x) = m /\ Meaning(y) = n
  BY <1>1, <1>2, NumberIs
<1>5. StandsFor(x, m)
  BY <1>4, NormalIs DEF StandsFor
<1>6. StandsFor(Add(x, y), m + n)
  BY <1>4, AddIs, NormalIs DEF StandsFor
<1>7. StandsFor(Sub(x, y), m - n)
  BY <1>4, SubIs, NormalIs DEF StandsFor
<1>8. StandsFor(Mul(x, y), m * n)
  BY <1>4, MulIs, NormalIs DEF StandsFor
<1>9. StandsFor(Neg(x), -m)
  <2>1. -m = 0 - m
    BY <1>3
  <2>2. StandsFor(Neg(x), 0 - m)
    BY <1>4, NegIs, NormalIs DEF StandsFor
  <2> QED
    BY <2>1, <2>2
<1>10. Compare(x, y) = IF m < n THEN -1 ELSE IF m = n THEN 0 ELSE 1
  BY <1>4, CompareIs
<1> QED
  BY <1>1, <1>2, <1>5, <1>6, <1>7, <1>8, <1>9, <1>10 DEF ArithmeticAgrees
=============================================================================
