----------------------------- MODULE HashMapEx ------------------------------
(***************************************************************************)
(* jstd::basic_hash_map_ex<K, V> (main/jimi/jstd/hash_map_ex.h): chains    *)
(* like those of hash_map, with the list heads in the table itself.  A     *)
(* bucket is the chain of its entries [key, val] from head_ on.            *)
(***************************************************************************)
EXTENDS Integers, FiniteSets, Sequences, Powers

CONSTANTS
  Keys, Vals, None, Hash,
  kDefaultInitialCapacity,  \* 64 in the code
  kMaximumCapacity,         \* 1 << 30 in the code
  Requests,                 \* the capacities callers ask for
  GrowthBound               \* bound of the model: insert doubles up to here

VARIABLES
  table,     \* table_: the chain of each bucket; empty for nullptr
  size,      \* size_: the number of keys stored
  scarce     \* whether the program may run out of memory

End == -1            \* the iterator end()

capacity == Cardinality(DOMAIN table)
threshold == (capacity * 3) \div 4
Empty(n) == [b \in 0 .. n - 1 |-> <<>>]

Alloc == IF scarce THEN BOOLEAN ELSE {TRUE}

index_of(k, n) == Hash[k] % n

calc_capacity(n) ==
  round_up_pow2(Lesser(kMaximumCapacity,
                       Greater(kDefaultInitialCapacity, Greater(n, 2 * size))))

calc_capacity_fast(n) ==
  round_up_pow2(Lesser(kMaximumCapacity, Greater(n, 2 * size)))

-----------------------------------------------------------------------------
(* hash_map_ex_list: the operations the map calls                          *)

push_first(chain, e) == <<e>>
push_front_fast(chain, e) == <<e>> \o chain

\* The entry at place `at`, the one that follows `before`, is taken out.
erase_fast(chain, at) ==
  SubSeq(chain, 1, at - 1) \o SubSeq(chain, at + 1, Len(chain))

Scan(chain, k) ==
  LET hits == {i \in DOMAIN chain : chain[i].key = k}
  IN  IF hits = {} THEN End ELSE Least(hits)

find_internal(k) == Scan(table[index_of(k, capacity)], k)
find_before(k) == Scan(table[index_of(k, capacity)], k)

\* find returns the address of the bucket, cast to an iterator.
find(k) ==
  IF capacity = 0 \/ Scan(table[index_of(k, capacity)], k) = End
  THEN End ELSE index_of(k, capacity)

Lookup(k) ==
  LET b == find(k)
  IN  IF b = End THEN None ELSE table[b][find_internal(k)].val

-----------------------------------------------------------------------------
\* The constructor: initialize may fail and leaves no table then.
Init ==
  /\ scarce \in BOOLEAN
  /\ \E n \in Requests, got \in Alloc :
       table = IF got THEN Empty(round_up_pow2(n)) ELSE <<>>
  /\ size = 0

\* An entry goes to the front of its chain in table t of n buckets.
push(t, e, n) ==
  [t EXCEPT ![index_of(e.key, n)] =
     IF @ = <<>> THEN push_first(@, e) ELSE push_front_fast(@, e)]

\* reinsert_list moves the entries of an old chain, one after the other.
reinsert_list(t, n, old) ==
  LET moved[i \in 0 .. Len(old)] ==
        IF i = 0 THEN t ELSE push(moved[i - 1], old[i], n)
  IN  moved[Len(old)]

\* All chains, in the order of the old buckets.
Rehashed(n) ==
  LET moved[b \in 0 .. capacity] ==
        IF b = 0 THEN Empty(n)
        ELSE reinsert_list(moved[b - 1], n, table[b - 1])
  IN  moved[capacity]

\* rehash_internal<force_shrink>: any other capacity, or only a larger one.
rehash_internal(n, force_shrink) ==
  /\ IF force_shrink THEN n # capacity ELSE n > capacity
  /\ table' = Rehashed(n)
  /\ UNCHANGED size

\* reserve_internal: the larger table is empty, the chains are not moved.
reserve_internal(n) ==
  /\ n > capacity
  /\ table' = Empty(n)
  /\ size' = 0

\* (faulty) The bucket found before the table doubled is used after it.
stale_insert(k, v) ==
  /\ capacity > 0
  /\ IF find_internal(k) # End
     THEN /\ table' = [table EXCEPT ![index_of(k, capacity)][find_internal(k)].val = v]
          /\ UNCHANGED size
     ELSE LET grows == size >= threshold
              big == IF grows THEN Rehashed(2 * capacity) ELSE table
          IN  /\ grows => 2 * capacity <= GrowthBound
              /\ table' = [big EXCEPT ![index_of(k, capacity)] =
                             push_front_fast(@, [key |-> k, val |-> v])]
              /\ size' = size + 1

\* insert(const &, const &): a known key gets the new value; a new one may
\* double the table, goes on with the old one when that failed, and is
\* dropped when its entry cannot be allocated.
insert(k, v) ==
  /\ capacity > 0
  /\ IF find_internal(k) # End
     THEN /\ table' = [table EXCEPT ![index_of(k, capacity)][find_internal(k)].val = v]
          /\ UNCHANGED size
     ELSE \E grown \in Alloc, got \in Alloc :
            LET grows == size >= threshold /\ grown
                big == IF grows THEN Rehashed(2 * capacity) ELSE table
                ix == index_of(k, Cardinality(DOMAIN big))
                e == [key |-> k, val |-> v]
            IN  /\ grows => 2 * capacity <= GrowthBound
                /\ IF ~got
                   THEN /\ table' = big
                        /\ UNCHANGED size
                   ELSE /\ table' = [big EXCEPT ![ix] =
                                       IF big[ix] = <<>> THEN push_first(@, e)
                                       ELSE push_front_fast(@, e)]
                        /\ size' = size + 1

\* insert(&&, &&) takes the same way; a known key's value is swapped in.
insert_rvalue(k, v) == insert(k, v)

\* The insert of a pair and the four forms of emplace end there too.
emplace(k, v) == insert(k, v)

\* erase(const &)
erase(k) ==
  /\ capacity > 0
  /\ find_before(k) # End
  /\ table' = [table EXCEPT ![index_of(k, capacity)] =
                 erase_fast(@, find_before(k))]
  /\ size' = size - 1

erase_rvalue(k) == erase(k)

clear ==
  /\ table' = Empty(capacity)
  /\ size' = 0

\* The public names; where the table cannot be allocated nothing happens.
reserve(n) == reserve_internal(calc_capacity(n))
rehash(n) == rehash_internal(calc_capacity(n), FALSE)
shrink_to_fit(n) == rehash_internal(calc_capacity_fast(n), TRUE)

-----------------------------------------------------------------------------
(* Properties                                                              *)

Places == UNION {{b} \X DOMAIN table[b] : b \in DOMAIN table}
EntryAt(p) == table[p[1]][p[2]]

\* Every entry is in the chain of its bucket, no key is there twice, and
\* size_ counts them, whichever allocation failed.
ListsSound ==
  /\ \A b \in DOMAIN table : \A i \in DOMAIN table[b] :
       index_of(table[b][i].key, capacity) = b
  /\ \A p, q \in Places : EntryAt(p).key = EntryAt(q).key => p = q
  /\ size = Cardinality(Places)

\* As long as memory suffices the threshold is never exceeded.
LoadBounded == scarce \/ size <= threshold
=============================================================================
