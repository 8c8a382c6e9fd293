----------------------------- MODULE HashTable -----------------------------
(***************************************************************************)
(* HashTable: the open addressing table behind dictionaries, environments  *)
(* and interned strings.  Hash codes and capacities are small, so that     *)
(* keys collide, clusters wrap around and the table grows.                 *)
(*                                                                         *)
(* An operator named ...Fault is no part of the model: it is a bug one     *)
(* could make in the definition after it, and a property has to notice it. *)
(***************************************************************************)
EXTENDS Naturals, FiniteSets

CONSTANTS
  Key, Value,
  HashCode,      \* what keys may hash to
  MinCapacity,   \* k_min_capacity
  LoadPercent,   \* k_load_percent
  Empty          \* an unoccupied bucket, and a value that is not there

\* What the two constants of table.hpp have to be: one entry fits into the first buckets
\* without filling them as far as they may be filled, and a bucket always stays unoccupied.
TableAssumption ==
  /\ HashCode \subseteq Nat
  /\ MinCapacity \in Nat \ {0} /\ LoadPercent \in 1 .. 100
  /\ 100 < MinCapacity * LoadPercent
  /\ Empty \notin Value \cup [key : Key, val : Value]

VARIABLES
  hash,      \* the keys' hash codes
  buckets,   \* m_buckets, from 0; no bucket until the first insertion
  size       \* m_size

table == <<hash, buckets, size>>

Unoccupied(capacity) == [i \in 0 .. capacity - 1 |-> Empty]
Capacity(b) == Cardinality(DOMAIN b)

TableInit == /\ hash \in [Key -> HashCode]
             /\ buckets = Unoccupied(0)
             /\ size = 0

\* The first bucket from a key's home on that is unoccupied or holds the key.
Slot(b, key) ==
  LET place(n) == (hash[key] + n) % Capacity(b)
      stops(n) == b[place(n)] = Empty \/ b[place(n)].key = key
  IN place(CHOOSE n \in 0 .. Capacity(b) - 1 : stops(n) /\ \A m \in 0 .. n - 1 : ~stops(m))

\* reinsert_into.
Reinserted(b, entry) == [b EXCEPT ![Slot(b, entry.key)] = entry]

\* grow_if_needed: the buckets for n entries and one more.
Grown(b, n) ==
  LET grown[i \in 0 .. Capacity(b)] ==
        IF i = 0 THEN Unoccupied(2 * Capacity(b))
        ELSE LET g == grown[i - 1] IN IF b[i - 1] = Empty THEN g ELSE Reinserted(g, b[i - 1])
  IN  IF b = Unoccupied(0) THEN Unoccupied(MinCapacity)
      ELSE IF (n + 1) * 100 < Capacity(b) * LoadPercent THEN b
      ELSE grown[Capacity(b)]

\* insert_or_assign.
Assigned(t, entry) ==
  LET b == Grown(t.buckets, t.size)
      i == Slot(b, entry.key)
  IN [buckets |-> [b EXCEPT ![i] = entry],
      size    |-> IF b[i] = Empty THEN t.size + 1 ELSE t.size]

\* Bucket i is vacated.
Vacated(t, i) == [buckets |-> [t.buckets EXCEPT ![i] = Empty], size |-> t.size - 1]

\* The hole is left open.
RehashedFault(t, hole) == t

\* erase's second loop: every entry of the cluster behind the hole is taken out and
\* put in again.
Rehashed(t, hole) ==
  LET scan(n) == (hole + n) % Capacity(t.buckets)
      round[n \in 0 .. Capacity(t.buckets)] ==
        IF n = 0 THEN [open |-> TRUE, t |-> t]
        ELSE LET c == round[n - 1] IN
             IF ~c.open \/ c.t.buckets[scan(n)] = Empty THEN [c EXCEPT !.open = FALSE]
             ELSE [c EXCEPT !.t = Assigned(Vacated(c.t, scan(n)), c.t.buckets[scan(n)])]
  IN round[Capacity(t.buckets)].t

Removed(t, key) ==
  LET i == Slot(t.buckets, key) IN
  IF t.buckets = Unoccupied(0) THEN t
  ELSE IF t.buckets[i] = Empty THEN t
  ELSE Rehashed(Vacated(t, i), i)

Becomes(t) == /\ buckets' = t.buckets /\ size' = t.size
              /\ UNCHANGED hash

Held == [buckets |-> buckets, size |-> size]

InsertOrAssign(key, val) == Becomes(Assigned(Held, [key |-> key, val |-> val]))

Erase(key) == Becomes(Removed(Held, key))

\* clear: the buckets stay, unoccupied.
Clear == Becomes([buckets |-> Unoccupied(Capacity(buckets)), size |-> 0])

TableNext == \/ \E key \in Key, val \in Value : InsertOrAssign(key, val)
             \/ \E key \in Key : Erase(key)
             \/ Clear
-----------------------------------------------------------------------------
(* Properties.                                                              *)

\* find_ptr: a key's value.
Found(key) == IF buckets = Unoccupied(0) THEN Empty
              ELSE LET e == buckets[Slot(buckets, key)] IN IF e = Empty THEN Empty ELSE e.val

\* What iterating from begin to end yields, bucket by bucket.
Listed == {i \in DOMAIN buckets : buckets[i] # Empty}

\* What a step of a map is: an assignment changes what is found of its key and of no other,
\* erasing leaves every other key to be found, and each key found is listed once and
\* counted; and a bucket stays unoccupied, without which a search for an absent key would
\* not end.
MapStep ==
  /\ \A key \in Key, val \in Value :
       InsertOrAssign(key, val)
       => \A k \in Key : Found(k)' = IF k = key THEN val ELSE Found(k)
  /\ \A key \in Key :
       Erase(key) => \A k \in Key : Found(k)' = IF k = key THEN Empty ELSE Found(k)
  /\ LET found == {k \in Key : Found(k) # Empty} IN
     /\ size' = Cardinality(found)' /\ size' = Cardinality(Listed)'
     /\ {buckets[i].key : i \in Listed}' = found'
     /\ size' < Capacity(buckets)'

\* The table is a map, however the clusters lie and wherever the table grows.  (TLC evaluates
\* an action before its subscript, so the subscript is repeated.)
IsMap == [][table' # table => MapStep]_table
=============================================================================
