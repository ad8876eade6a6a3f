----------------------------- MODULE HashTable ------------------------------
(***************************************************************************)
(* jstd::basic_hash_table<K, V> (main/jimi/jstd/hash_table.h): open        *)
(* addressing with linear probing over an array of pointers to nodes.      *)
(*                                                                         *)
(* The search for a key goes round the whole circle and does not stop at   *)
(* an empty bucket; the search for a place stops at nothing else, so that  *)
(* it only ends because one bucket is always empty.  Its allocations are   *)
(* plain `new`: where one fails the call ends by an exception.             *)
(*                                                                         *)
(* A bucket holds a node [key, val] or NoNode.  mask_ and buckets_ are     *)
(* always written together, so both are the length of the table; the hash  *)
(* a node keeps is the hash of its key.                                    *)
(***************************************************************************)
EXTENDS Integers, FiniteSets, Powers

CONSTANTS
  Keys,                     \* keys
  Vals,                     \* values
  None,                     \* what a lookup of an absent key shows
  Hash,                     \* Hash[k]: the hash code of k
  kDefaultInitialCapacity,  \* 64 in the code
  kMaximumCapacity,         \* 1 << 30 in the code
  Requests,                 \* the arguments of reserve, rehash, shrink_to_fit
  GrowthBound               \* bound of the model: insert doubles up to here

VARIABLES
  table,     \* table_: a node, or NoNode, for each bucket
  size,      \* size_: the number of keys stored
  scarce     \* whether the program may run out of memory

vars == <<table, size, scarce>>

NoNode == [key |-> None, val |-> None]
End == -1            \* the iterator end(); others are bucket numbers

buckets == Cardinality(DOMAIN table)
Empty(n) == [b \in 0 .. n - 1 |-> NoNode]

\* The answers an allocation may give.
Alloc == IF scarce THEN BOOLEAN ELSE {TRUE}

index_of(k, n) == Hash[k] % n

\* next_index, d times.
next_index(b, d, n) == (b + d) % n

\* reserve and rehash ask for at least twice the stored keys and for the
\* minimum capacity; shrink_to_fit does without the minimum.
calc_buckets(n) ==
  round_up_pow2(Lesser(kMaximumCapacity,
                       Greater(kDefaultInitialCapacity, Greater(n, 2 * size))))

calc_buckets_fast(n) ==
  round_up_pow2(Lesser(kMaximumCapacity, Greater(n, 2 * size)))

-----------------------------------------------------------------------------
(* Searching                                                               *)

\* The bucket that is d steps on from the first one of key k.
Step(k, d, n) == next_index(index_of(k, n), d, n)

\* The loop ends when it is back at the first bucket.
find_internal(k) ==
  LET hits == {d \in 0 .. buckets - 1 : table[Step(k, d, buckets)].key = k}
  IN  IF hits = {} THEN End ELSE Step(k, Least(hits), buckets)

\* The same loop written out again, for the callers.
find(k) == IF buckets = 0 THEN End ELSE find_internal(k)

Lookup(k) == LET b == find(k) IN IF b = End THEN None ELSE table[b].val

\* The first empty bucket of t on the way of key k.
Place(t, k) ==
  LET n == Cardinality(DOMAIN t)
      free == {d \in 0 .. n - 1 : t[Step(k, d, n)] = NoNode}
  IN  Step(k, Least(free), n)

-----------------------------------------------------------------------------
\* The constructor; `new` did not throw, or there is no table to speak of.
Init ==
  /\ scarce \in BOOLEAN
  /\ table = Empty(round_up_pow2(kDefaultInitialCapacity))
  /\ size = 0

\* rehash_insert puts the node where a search for its key would first find
\* room; nodes come in the order of the old buckets.
rehash_insert(t, node) == [t EXCEPT ![Place(t, node.key)] = node]

Rehashed(n) ==
  LET moved[b \in 0 .. buckets] ==
        IF b = 0 THEN Empty(n)
        ELSE IF table[b - 1] = NoNode THEN moved[b - 1]
        ELSE rehash_insert(moved[b - 1], table[b - 1])
  IN  moved[buckets]

\* rehash_internal: only ever a larger table.
rehash_internal(n) ==
  /\ n > buckets
  /\ table' = Rehashed(n)
  /\ UNCHANGED size

\* shrink_internal: any other size.
shrink_internal(n) ==
  /\ n # buckets
  /\ table' = Rehashed(n)
  /\ UNCHANGED size

\* reserve_internal: the larger table is empty, the nodes are not moved.
reserve_internal(n) ==
  /\ n > buckets
  /\ table' = Empty(n)
  /\ size' = 0

\* (faulty) The table is full when every bucket is.
LateFull == size >= buckets

Full == size >= (buckets * 3) \div 4

\* insert(const &, const &): a known key gets the new value.  A new one may
\* double the table; the second allocation is the node's.
insert(k, v) ==
  /\ buckets > 0
  /\ LET found == find_internal(k) IN
     IF found # End
     THEN /\ table' = [table EXCEPT ![found].val = v]
          /\ UNCHANGED size
     ELSE \E grown \in Alloc, got \in Alloc :
            LET big == IF Full THEN Rehashed(2 * buckets) ELSE table
            IN  /\ Full => 2 * buckets <= GrowthBound
                /\ IF Full /\ ~grown
                   THEN UNCHANGED <<table, size>>
                   ELSE IF ~got
                   THEN /\ table' = big
                        /\ UNCHANGED size
                   ELSE /\ table' = [big EXCEPT ![Place(big, k)] =
                                       [key |-> k, val |-> v]]
                        /\ size' = size + 1

\* insert(&&, &&) takes the same way and moves key and value instead of
\* copying them.
insert_rvalue(k, v) == insert(k, v)

\* The insert of a pair and the four forms of emplace end there too.
emplace(k, v) == insert(k, v)

\* erase(const &): the bucket is empty again, and nothing moves up.
erase(k) ==
  /\ find(k) # End
  /\ table' = [table EXCEPT ![find(k)] = NoNode]
  /\ size' = size - 1

erase_rvalue(k) == erase(k)

clear ==
  /\ table' = Empty(buckets)
  /\ size' = 0

\* The public names; where the allocation throws nothing has changed.
reserve(n) == reserve_internal(calc_buckets(n))
rehash(n) == rehash_internal(calc_buckets(n))
shrink_to_fit(n) == shrink_internal(calc_buckets_fast(n))

-----------------------------------------------------------------------------
(* Properties                                                              *)

\* The loops that look for a place (insert, rehash_insert) have no other end
\* than an empty bucket: there is always one, whatever was erased, shrunk or
\* interrupted by an exception; and no key has two buckets.
PlacesRemain ==
  /\ \E b \in DOMAIN table : table[b] = NoNode
  /\ size = Cardinality({b \in DOMAIN table : table[b] # NoNode})
  /\ \A k \in Keys : Cardinality({b \in DOMAIN table : table[b].key = k}) <= 1

\* Three quarters of the buckets are never exceeded, also when memory runs
\* out: an insert that cannot grow the table stores nothing.
LoadBounded == 4 * size <= 3 * buckets
=============================================================================
