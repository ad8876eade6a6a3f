----------------------------- MODULE Dictionary -----------------------------
(***************************************************************************)
(* jstd::basic_dictionary<K, V> (main/jimi/jstd/dictionary.h): a chained   *)
(* hash table whose entries live in one array.                             *)
(*                                                                         *)
(* buckets_[b] points to the first entry of chain b; an entry points to    *)
(* the next one of its chain by its `next` field.  Entries are handed out  *)
(* from the array in order, count_ being the first one never handed out;   *)
(* an erased entry gets the hash kInvalidHash and is pushed on a free list *)
(* threaded through the same `next` field, and is handed out again first.  *)
(* A rehash copies the entries that survive to the front of a new array    *)
(* and rebuilds every chain.                                               *)
(*                                                                         *)
(* A pointer is a slot number of the entry array, or Null.  capacity_ and  *)
(* mask_ are always written together, so mask_ is derived.                 *)
(***************************************************************************)
EXTENDS Integers, FiniteSets, Powers

CONSTANTS
  Keys,          \* keys
  Vals,          \* values
  None,          \* what a lookup of an absent key shows
  HashBits,      \* width of hash_type (32 in the code)
  RawHash,       \* RawHash[k]: what jstd::hash computes, before hash_code
  MinCapacity,   \* kMinimumCapacity (16 in the code)
  MaxCapacity,   \* kMaximumCapacity (1 << 30 in the code)
  Requests,      \* the arguments callers give the constructor, reserve, ...
  AllocMayFail,  \* TRUE: the nothrow allocations may return nullptr
  GrowthBound    \* bound of the model: insert doubles the table up to here

Null == -1

kInvalidHash == Power2[HashBits] - 1
kReplacedHash == Power2[HashBits] - 2
Fresh == -2     \* the hash field of an entry that nothing was written to yet

ASSUME DictionaryAssumption ==
  /\ IsFiniteSet(Keys)
  /\ None \notin Vals
  /\ HashBits \in Nat \ {0}
  /\ RawHash \in [Keys -> 0 .. kInvalidHash]
  /\ MinCapacity \in Nat \ {0}
  /\ MaxCapacity \in Nat \ {0}
  /\ Requests \subseteq Nat
  /\ AllocMayFail \in BOOLEAN
  /\ GrowthBound \in Nat

VARIABLES
  buckets,       \* buckets_: heads of the chains; empty when it is nullptr
  entries,       \* entries_: [hash, key, val, next] of each slot
  count,         \* count_: slots handed out so far
  capacity,      \* capacity_: length of both arrays
  freeHead,      \* freelist_.head_
  freeSize,      \* freelist_.size_
  fault          \* the memory error or failed assertion that ended the run

vars == <<buckets, entries, count, capacity, freeHead, freeSize, fault>>

Faults == {"none", "zero capacity", "new entries too small",
           "read past the end", "write past the end", "no entries"}

Slots == 0 .. capacity - 1

\* An entry the code has not written: no key, no value.
Untouched == [hash |-> Fresh, key |-> None, val |-> None, next |-> Null]

\* hash_code never returns the value that marks an erased entry.
hash_code(k) == IF RawHash[k] # kInvalidHash THEN RawHash[k] ELSE kReplacedHash

\* hash & mask_, for a capacity that is a power of two; mask_ is 0 as long
\* as the entry array could not be allocated.
index_of(hash, cap) == IF cap = 0 THEN 0 ELSE hash % cap

calc_capacity(n) ==
  round_up_pow2(IF n < MinCapacity THEN MinCapacity
                ELSE IF n > MaxCapacity THEN MaxCapacity ELSE n)

\* Faulty variants, here and below, that the properties must tell from the
\* real operations.  This one rounds down.
small_shrink_capacity(n) ==
  IF n = 0 THEN 0 ELSE Power2[Least({i \in 0 .. n : Power2[i + 1] > n})]

calc_shrink_capacity(n) ==
  round_up_pow2(IF n > MaxCapacity THEN MaxCapacity ELSE n)

-----------------------------------------------------------------------------
(* Following the `next` pointers                                           *)

\* The slot reached from p in n hops; Null stays Null.
Hop == [s \in Slots \cup {Null} |-> IF s = Null THEN Null ELSE entries[s].next]
After(p) == Reached(Hop, p)

Visited(p) == {After(p)[n] : n \in 0 .. capacity} \ {Null}
Ends(p) == After(p)[capacity] = Null

\* The loop of find, find_internal and erase from pointer p on: it stays at
\* the first entry that has both the hash and the key, or at Null, where it
\* is after at most `capacity` rounds, because the chains end.
Holds(s, k) == entries[s].hash = hash_code(k) /\ entries[s].key = k
Search(k, p) ==
  LET round == [s \in Slots \cup {Null} |->
                  IF s = Null \/ Holds(s, k) THEN s ELSE entries[s].next]
  IN  Reached(round, p)[capacity]

BucketOf(k) == index_of(hash_code(k), capacity)

\* What find and find_internal return, Null standing for unsafe_end() (and
\* for the nullptr of find on a dictionary without buckets).
find(k) == IF buckets = <<>> THEN Null ELSE Search(k, buckets[BucketOf(k)])

Lookup(k) ==
  IF find(k) = Null THEN None ELSE entries[find(k)].val

\* size(): what the dictionary says it holds.
Size == count - freeSize

Handed == {i \in Slots : i < count}
Live == {i \in Handed : entries[i].hash \notin {kInvalidHash, Fresh}}
Erased == {i \in Handed : entries[i].hash = kInvalidHash}

-----------------------------------------------------------------------------
Empty(n) == [b \in 0 .. n - 1 |-> Null]
NoEntries(n) == [i \in 0 .. n - 1 |-> Untouched]

Alloc == IF AllocMayFail THEN BOOLEAN ELSE {TRUE}

\* The constructor: initialize() rounds the requested capacity up, then
\* allocates the buckets and, when that worked, the entries.
Init ==
  \E n \in Requests \ {0}, gotBuckets \in Alloc, gotEntries \in Alloc :
    LET cap == round_up_pow2(n)
        full == gotBuckets /\ gotEntries
    IN  /\ buckets = IF gotBuckets THEN Empty(cap) ELSE <<>>
        /\ entries = IF full THEN NoEntries(cap) ELSE <<>>
        /\ capacity = IF full THEN cap ELSE 0
        /\ count = 0
        /\ freeHead = Null
        /\ freeSize = 0
        /\ fault = "none"

-----------------------------------------------------------------------------
(* rehash_internal                                                         *)

\* An entry below count_ that no insertion wrote (see StaleSlots) holds
\* whatever the allocator left there.
Garbage == [hash : 0 .. kInvalidHash, key : Keys, val : Vals]
StaleSlots == {i \in Handed : entries[i].hash = Fresh}

\* The copy loop: slot i of the old array as the loop reads it, the slots it
\* keeps, and the old slot that becomes slot j of the new array.
Read(mem, i) == IF i \in StaleSlots THEN mem[i] ELSE entries[i]
Kept(mem) == {i \in Handed : Read(mem, i).hash # kInvalidHash}
Source(mem, j) ==
  CHOOSE i \in Kept(mem) : Cardinality({x \in Kept(mem) : x < i}) = j

\* The second loop pushes slots 0, 1, ... on the front of their new chain:
\* the head of chain b when the slots below n have been pushed.
HeadOf(mem, newCap, n, b) ==
  LET pushed == {j \in 0 .. n - 1 :
                   index_of(Read(mem, Source(mem, j)).hash, newCap) = b}
  IN  IF pushed = {} THEN Null
      ELSE CHOOSE j \in pushed : \A x \in pushed : x <= j

\* (faulty) The new buckets are chosen with the old mask.
OldMaskBuckets(mem, newCap) ==
  [b \in 0 .. newCap - 1 |->
     LET own == {j \in 0 .. Cardinality(Kept(mem)) - 1 :
                   index_of(Read(mem, Source(mem, j)).hash, capacity) = b}
     IN  IF own = {} THEN Null ELSE CHOOSE j \in own : \A x \in own : x <= j]

NewBuckets(mem, newCap) ==
  [b \in 0 .. newCap - 1 |-> HeadOf(mem, newCap, Cardinality(Kept(mem)), b)]

NewEntries(mem, newCap) ==
  [j \in 0 .. newCap - 1 |->
     IF j < Cardinality(Kept(mem))
     THEN LET e == Read(mem, Source(mem, j))
          IN  [hash |-> e.hash, key |-> e.key, val |-> e.val,
               next |-> HeadOf(mem, newCap, j, index_of(e.hash, newCap))]
     ELSE Untouched]

\* The whole of rehash_internal once both allocations succeeded.  count_ is
\* left as it was: only the free list is cleared.
Rehash(newCap, mem) ==
  IF count > capacity
  THEN /\ fault' = "read past the end"
       /\ UNCHANGED <<buckets, entries, count, capacity, freeHead, freeSize>>
  ELSE IF Cardinality(Kept(mem)) > newCap
  THEN /\ fault' = "new entries too small"
       /\ UNCHANGED <<buckets, entries, count, capacity, freeHead, freeSize>>
  ELSE /\ buckets' = NewBuckets(mem, newCap)
       /\ entries' = NewEntries(mem, newCap)
       /\ capacity' = newCap
       /\ freeHead' = Null
       /\ freeSize' = 0
       /\ UNCHANGED <<count, fault>>

-----------------------------------------------------------------------------
(* insert: both overloads, and emplace, which call it                      *)

\* The key is stored already: its value is replaced.
InsertUpdate(k, v) ==
  /\ find(k) # Null
  /\ entries' = [entries EXCEPT ![find(k)].val = v]
  /\ UNCHANGED <<buckets, count, capacity, freeHead, freeSize, fault>>

\* Slot s becomes the entry of k, at the front of its chain in tables (b, e).
Link(b, e, cap, s, k, v) ==
  LET ix == index_of(hash_code(k), cap)
  IN  /\ buckets' = [b EXCEPT ![ix] = s]
      /\ entries' = [e EXCEPT ![s] = [hash |-> hash_code(k), key |-> k,
                                      val |-> v, next |-> b[ix]]]

\* The free list has an entry: it is popped.
InsertReuse(k, v) ==
  /\ find(k) = Null
  /\ freeSize > 0
  /\ Link(buckets, entries, capacity, freeHead, k, v)
  /\ freeHead' = entries[freeHead].next
  /\ freeSize' = freeSize - 1
  /\ UNCHANGED <<count, capacity, fault>>

\* (faulty) The key is not searched first.
BlindInsertNext(k, v) ==
  /\ freeSize = 0
  /\ count < capacity
  /\ Link(buckets, entries, capacity, count, k, v)
  /\ count' = count + 1
  /\ UNCHANGED <<capacity, freeHead, freeSize, fault>>

\* The next slot of the array that was never handed out.
InsertNext(k, v) ==
  /\ find(k) = Null
  /\ freeSize = 0
  /\ count < capacity
  /\ Link(buckets, entries, capacity, count, k, v)
  /\ count' = count + 1
  /\ UNCHANGED <<capacity, freeHead, freeSize, fault>>

\* (faulty) The free list is forgotten when the array is full.
WastefulInsertGrow(k, v) ==
  /\ find(k) = Null
  /\ count = capacity
  /\ 2 * capacity <= GrowthBound
  /\ \E mem \in [StaleSlots -> Garbage] :
       LET cap == 2 * capacity
       IN  Link(NewBuckets(mem, cap), NewEntries(mem, cap), cap, count, k, v)
  /\ count' = count + 1
  /\ capacity' = 2 * capacity
  /\ freeHead' = Null
  /\ freeSize' = 0
  /\ UNCHANGED fault

\* The array is full: the table is doubled first.  Nothing is checked
\* afterwards, so that when the allocation failed the write is out of range.
InsertGrow(k, v) ==
  /\ find(k) = Null
  /\ freeSize = 0
  /\ count >= capacity
  /\ 2 * capacity <= GrowthBound
  /\ \E grown \in Alloc, mem \in [StaleSlots -> Garbage] :
       LET cap == 2 * capacity
           fits == /\ grown /\ capacity > 0
                   /\ count = capacity
                   /\ Cardinality(Kept(mem)) <= cap
       IN  IF fits
           THEN /\ Link(NewBuckets(mem, cap), NewEntries(mem, cap),
                        cap, count, k, v)
                /\ count' = count + 1
                /\ capacity' = cap
                /\ freeHead' = Null
                /\ freeSize' = 0
                /\ UNCHANGED fault
           ELSE /\ fault' = IF entries = <<>> THEN "no entries"
                            ELSE IF grown /\ count > capacity
                            THEN "read past the end"
                            ELSE "write past the end"
                /\ UNCHANGED <<buckets, entries, count, capacity,
                               freeHead, freeSize>>

\* With no buckets insert returns without a word.
Insert(k, v) ==
  /\ buckets # <<>>
  /\ \/ InsertUpdate(k, v)
     \/ InsertReuse(k, v)
     \/ InsertNext(k, v)
     \/ InsertGrow(k, v)

-----------------------------------------------------------------------------
(* erase and clear                                                         *)

\* (faulty) The entry is marked without joining the free list's chain.
LeakyErase(k) ==
  /\ find(k) # Null
  /\ LET s == find(k)
         gone == [hash |-> kInvalidHash, key |-> None, val |-> None,
                  next |-> Null]
     IN  IF buckets[BucketOf(k)] = s
         THEN /\ buckets' = [buckets EXCEPT ![BucketOf(k)] = entries[s].next]
              /\ entries' = [entries EXCEPT ![s] = gone]
         ELSE \E before \in Visited(buckets[BucketOf(k)]) :
                /\ entries[before].next = s
                /\ entries' = [entries EXCEPT
                                 ![before].next = entries[s].next,
                                 ![s] = gone]
                /\ UNCHANGED buckets
  /\ freeHead' = find(k)
  /\ freeSize' = freeSize + 1
  /\ UNCHANGED <<count, capacity, fault>>

\* The entry is unlinked from its chain (the entry before it, or the bucket,
\* takes over its next), marked, destroyed and pushed on the free list.
Erase(k) ==
  /\ find(k) # Null
  /\ LET s == find(k)
         gone == [hash |-> kInvalidHash, key |-> None, val |-> None,
                  next |-> freeHead]
     IN  IF buckets[BucketOf(k)] = s
         THEN /\ buckets' = [buckets EXCEPT ![BucketOf(k)] = entries[s].next]
              /\ entries' = [entries EXCEPT ![s] = gone]
         ELSE \E before \in Visited(buckets[BucketOf(k)]) :
                /\ entries[before].next = s
                /\ entries' = [entries EXCEPT
                                 ![before].next = entries[s].next,
                                 ![s] = gone]
                /\ UNCHANGED buckets
  /\ freeHead' = find(k)
  /\ freeSize' = freeSize + 1
  /\ UNCHANGED <<count, capacity, fault>>

\* (faulty) The free list is not emptied.
FreelistKeptClear ==
  /\ buckets' = Empty(capacity)
  /\ entries' = [i \in Slots |-> Untouched]
  /\ count' = 0
  /\ UNCHANGED <<capacity, freeHead, freeSize, fault>>

\* clear zeroes the buckets and forgets the entries: their memory keeps what
\* it held, but no slot counts as handed out any more.
Clear ==
  /\ buckets' = IF entries = <<>> THEN buckets ELSE Empty(capacity)
  /\ entries' = [i \in Slots |-> Untouched]
  /\ count' = 0
  /\ freeHead' = Null
  /\ freeSize' = 0
  /\ UNCHANGED <<capacity, fault>>

-----------------------------------------------------------------------------
(* reserve, rehash, resize and shrink_to_fit                               *)

\* reserve, rehash and resize do the same: they only ever grow the table.
Reserve(n) ==
  LET cap == calc_capacity(n)
  IN  /\ cap > capacity
      /\ \E mem \in [StaleSlots -> Garbage] : Rehash(cap, mem)

\* shrink_to_fit takes any capacity that differs, and does not compare it
\* with the number of entries stored.
ShrinkToFit(n) ==
  LET cap == calc_shrink_capacity(n)
  IN  /\ cap # capacity
      /\ IF cap = 0
         THEN /\ fault' = "zero capacity"
              /\ UNCHANGED <<buckets, entries, count, capacity,
                             freeHead, freeSize>>
         ELSE \E mem \in [StaleSlots -> Garbage] : Rehash(cap, mem)

-----------------------------------------------------------------------------
(* Callers                                                                 *)

Running == fault = "none"

\* Callers who may do anything.
Next ==
  /\ Running
  /\ \/ \E k \in Keys, v \in Vals : Insert(k, v)
     \/ \E k \in Keys : Erase(k)
     \/ Clear
     \/ \E n \in Requests : Reserve(n)
     \/ \E n \in Requests : ShrinkToFit(n)

Spec == Init /\ [][Next]_vars

\* Callers who change the capacity only while no erased entry waits on the
\* free list, and never below the number of entries: what the code relies on.
Tidy(n) == freeSize = 0 /\ n > 0 /\ n >= count

TidyNext ==
  /\ Running
  /\ \/ \E k \in Keys, v \in Vals : Insert(k, v)
     \/ \E k \in Keys : Erase(k)
     \/ Clear
     \/ \E n \in {m \in Requests : Tidy(m)} : Reserve(n)
     \/ \E n \in {m \in Requests : Tidy(m)} : ShrinkToFit(n)

TidySpec == Init /\ [][TidyNext]_vars

-----------------------------------------------------------------------------
(* Properties                                                              *)

Entry == [hash : {Fresh} \cup 0 .. kInvalidHash, key : Keys \cup {None},
          val : Vals \cup {None}, next : Slots \cup {Null}]

TypeOK ==
  /\ capacity \in {0} \cup {Power2[i] : i \in 0 .. capacity}
  /\ entries \in [Slots -> Entry]
  /\ capacity > 0 => buckets \in [Slots -> Slots \cup {Null}]
  /\ count \in Nat
  /\ freeHead \in Slots \cup {Null}
  /\ freeSize \in Nat
  /\ fault \in Faults

\* Every chain ends, and chain b links exactly the live entries whose hash
\* belongs to bucket b: no entry is lost, none is in two chains, no erased
\* entry is still linked (unlinking in erase, relinking in rehash_internal).
ChainsSound ==
  /\ TypeOK
  /\ capacity > 0 =>
       \A b \in Slots :
         /\ Ends(buckets[b])
         /\ Visited(buckets[b]) =
              {i \in Live : index_of(entries[i].hash, capacity) = b}

\* The free list ends, holds exactly the erased entries, and its size_ is
\* their number, although it shares the `next` field with the chains.
FreelistSound ==
  /\ Ends(freeHead)
  /\ Visited(freeHead) = Erased
  /\ freeSize = Cardinality(Erased)

\* No operation leaves the arrays.
NoFault == fault = "none"

\* An iterator returned by find stays good as long as the capacity is not
\* changed and its own key is not erased: no operation on another key moves
\* an entry (the callers keep iterators across inserts).
StableEntries ==
  [][capacity' = capacity =>
       \A k \in Keys :
         find(k) # Null /\ find(k)' # Null => find(k)' = find(k)]_vars

\* insert doubles the table only when every slot holds a stored key: erased
\* entries are always handed out again first.
GrowsOnlyWhenFull ==
  [][capacity' > capacity /\ count' > count
       => Cardinality(Live) = capacity]_vars

\* What the caller sees is a map: inserting, erasing and clearing change
\* exactly the keys they name, size() follows, and growing, shrinking and
\* recycling slots cannot be observed.
Abstract == INSTANCE MapSpec WITH map <- [k \in Keys |-> Lookup(k)],
                                  size <- Size
ImplementsMap == Abstract!Spec

\* If the table were rehashed now, the copy loop of rehash_internal would take
\* the stored entries and no others, whatever unwritten memory holds, and
\* their number, new_count, would be size().  The comment on the loop says the
\* first, the assertion behind it the second.
RehashCopiesStored ==
  count <= capacity =>
    \A mem \in [StaleSlots -> Garbage] :
      Kept(mem) = Live /\ Cardinality(Kept(mem)) = Size
=============================================================================
