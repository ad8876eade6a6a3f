------------------------------ MODULE HashMap -------------------------------
(***************************************************************************)
(* jstd::basic_hash_map<K, V> (main/jimi/jstd/hash_map.h): a table of      *)
(* pointers to lists of entries.  A list is made when its bucket gets the  *)
(* first entry and stays, empty, when it loses the last one, until the     *)
(* table is rehashed.  The allocations give nullptr when they fail.        *)
(*                                                                         *)
(* The list of a bucket is [chain, size]: its entries [key, val] from      *)
(* head_ on along `next`, and its own counter size_; NoList is a null      *)
(* pointer.  capacity_ and mask_ are the length of the table, the          *)
(* threshold is written with them, for the default load factor 0.75.       *)
(***************************************************************************)
EXTENDS Integers, FiniteSets, Sequences, Powers

CONSTANTS
  Keys, Vals, None, Hash,
  kDefaultInitialCapacity,  \* 64 in the code
  kMaximumCapacity,         \* 1 << 30 in the code
  Requests,                 \* the capacities callers ask for
  GrowthBound               \* bound of the model: insert doubles up to here

VARIABLES
  table,     \* table_: a list, or NoList, for each bucket; empty for nullptr
  size,      \* size_: the number of keys stored
  scarce     \* whether the program may run out of memory

NoList == [chain |-> <<>>, size |-> -1]
End == -1            \* the iterator end()

capacity == Cardinality(DOMAIN table)
threshold == (capacity * 3) \div 4
Empty(n) == [b \in 0 .. n - 1 |-> NoList]

Alloc == IF scarce THEN BOOLEAN ELSE {TRUE}

index_of(k, n) == Hash[k] % n

calc_capacity(n) ==
  round_up_pow2(Lesser(kMaximumCapacity,
                       Greater(kDefaultInitialCapacity, Greater(n, 2 * size))))

calc_capacity_fast(n) ==
  round_up_pow2(Lesser(kMaximumCapacity, Greater(n, 2 * size)))

-----------------------------------------------------------------------------
(* hash_map_list                                                           *)

\* The constructor from an entry, and push_first(_fast) of an empty list.
new_list(e) == [chain |-> <<e>>, size |-> 1]
push_first_fast(list, e) == [chain |-> <<e>>, size |-> 1]
push_front_fast(list, e) ==
  [chain |-> <<e>> \o list.chain, size |-> list.size + 1]

\* (faulty) The first entry goes, whatever `before` says.
erase_first(list, at) ==
  [chain |-> Tail(list.chain), size |-> list.size - 1]

\* erase_fast takes the entry out that follows `before`, the first one when
\* there is none; `at` is its place.
erase_fast(list, at) ==
  [chain |-> SubSeq(list.chain, 1, at - 1)
               \o SubSeq(list.chain, at + 1, Len(list.chain)),
   size |-> list.size - 1]

\* destroy deletes every entry, clear resets the counter as well.
clear_list(list) == IF list = NoList THEN NoList ELSE [chain |-> <<>>, size |-> 0]

-----------------------------------------------------------------------------
(* Searching                                                               *)

\* The place of key k in its chain, End when it is not there.
Scan(chain, k) ==
  LET hits == {i \in DOMAIN chain : chain[i].key = k}
  IN  IF hits = {} THEN End ELSE Least(hits)

\* find_internal and find_before walk the list of one bucket; the second
\* returns the entry before as well, which the place stands for.
find_internal(k) == Scan(table[index_of(k, capacity)].chain, k)
find_before(k) == Scan(table[index_of(k, capacity)].chain, k)

\* find returns the address of the bucket, cast to an iterator: callers may
\* compare it with end() and nothing else.
find(k) ==
  IF capacity = 0 \/ Scan(table[index_of(k, capacity)].chain, k) = End
  THEN End ELSE index_of(k, capacity)

Lookup(k) ==
  LET b == find(k)
  IN  IF b = End THEN None ELSE table[b].chain[find_internal(k)].val

-----------------------------------------------------------------------------
\* The constructor: initialize may fail and leaves no table then.
Init ==
  /\ scarce \in BOOLEAN
  /\ \E n \in Requests, got \in Alloc :
       table = IF got THEN Empty(round_up_pow2(n)) ELSE <<>>
  /\ size = 0

\* An entry goes to the front of its list in table t of n buckets.
push(t, e, n) ==
  [t EXCEPT ![index_of(e.key, n)] =
     IF @ = NoList THEN new_list(e) ELSE push_front_fast(@, e)]

\* (faulty) Only the first entry is moved.
hasty_reinsert(t, n, old) == IF old = <<>> THEN t ELSE push(t, Head(old), n)

\* reinsert_list moves the entries of an old list, one after the other; where
\* a list object cannot be allocated it tries again, for as long as it takes.
reinsert_list(t, n, old) ==
  LET moved[i \in 0 .. Len(old)] ==
        IF i = 0 THEN t ELSE push(moved[i - 1], old[i], n)
  IN  moved[Len(old)]

\* All lists, in the order of the old buckets.
Rehashed(n) ==
  LET moved[b \in 0 .. capacity] ==
        IF b = 0 THEN Empty(n)
        ELSE reinsert_list(moved[b - 1], n, table[b - 1].chain)
  IN  moved[capacity]

\* rehash_internal<force_shrink>: any other capacity, or only a larger one.
rehash_internal(n, force_shrink) ==
  /\ IF force_shrink THEN n # capacity ELSE n > capacity
  /\ table' = Rehashed(n)
  /\ UNCHANGED size

\* reserve_internal: the larger table is empty, the lists are not moved.
reserve_internal(n) ==
  /\ n > capacity
  /\ table' = Empty(n)
  /\ size' = 0

\* insert(const &, const &): a known key gets the new value; a new one may
\* double the table, goes on with the old one when that failed, and is
\* dropped when its entry, or the list for it, cannot be allocated.
insert(k, v) ==
  /\ capacity > 0
  /\ IF find_internal(k) # End
     THEN /\ table' = [table EXCEPT
                         ![index_of(k, capacity)].chain[find_internal(k)].val = v]
          /\ UNCHANGED size
     ELSE \E grown \in Alloc, got \in Alloc, listed \in Alloc :
            LET grows == size >= threshold /\ grown
                big == IF grows THEN Rehashed(2 * capacity) ELSE table
                ix == index_of(k, Cardinality(DOMAIN big))
                e == [key |-> k, val |-> v]
            IN  /\ grows => 2 * capacity <= GrowthBound
                /\ IF ~got \/ (big[ix] = NoList /\ ~listed)
                   THEN /\ table' = big
                        /\ UNCHANGED size
                   ELSE /\ table' = [big EXCEPT ![ix] =
                                       IF big[ix] = NoList THEN new_list(e)
                                       ELSE IF big[ix].chain = <<>>
                                       THEN push_first_fast(big[ix], e)
                                       ELSE push_front_fast(big[ix], e)]
                        /\ size' = size + 1

\* insert(&&, &&) takes the same way; a known key's value is swapped in.
insert_rvalue(k, v) == insert(k, v)

\* The insert of a pair and the four forms of emplace end there too.
emplace(k, v) == insert(k, v)

\* erase(const &)
erase(k) ==
  /\ capacity > 0
  /\ find_before(k) # End
  /\ table' = [table EXCEPT ![index_of(k, capacity)] =
                 erase_fast(@, find_before(k))]
  /\ size' = size - 1

erase_rvalue(k) == erase(k)

\* clear empties the lists and keeps them.
clear ==
  /\ table' = [b \in DOMAIN table |-> clear_list(table[b])]
  /\ size' = 0

\* The public names; where the table cannot be allocated nothing happens.
reserve(n) == reserve_internal(calc_capacity(n))
rehash(n) == rehash_internal(calc_capacity(n), FALSE)
shrink_to_fit(n) == rehash_internal(calc_capacity_fast(n), TRUE)

-----------------------------------------------------------------------------
(* Properties                                                              *)

Places == UNION {{b} \X DOMAIN table[b].chain : b \in DOMAIN table}
EntryAt(p) == table[p[1]].chain[p[2]]

\* Every entry is in the list of its bucket, no key is there twice, each
\* list's own counter and the map's are right, whichever allocation failed.
ListsSound ==
  /\ \A b \in DOMAIN table :
       table[b] # NoList =>
         /\ table[b].size = Len(table[b].chain)
         /\ \A i \in DOMAIN table[b].chain :
              index_of(table[b].chain[i].key, capacity) = b
  /\ \A p, q \in Places : EntryAt(p).key = EntryAt(q).key => p = q
  /\ size = Cardinality(Places)

\* As long as memory suffices the threshold is never exceeded.
LoadBounded == scarce \/ size <= threshold
=============================================================================
