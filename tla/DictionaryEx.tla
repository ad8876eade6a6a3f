---------------------------- MODULE DictionaryEx ----------------------------
(***************************************************************************)
(* jstd::basic_dictionary_ex<K, V> (main/jimi/jstd/dictionary_ex.h): the   *)
(* older chained table.  It differs from Dictionary in three ways.         *)
(*   - A rehash does not move the entries: the old ones stay where they    *)
(*     are and are relinked, and a new, larger array is opened for the     *)
(*     next insertions.  The old arrays are never used again otherwise.    *)
(*   - size_ is counted on its own.                                        *)
(*   - A search does not advance past an entry of equal hash whose key is  *)
(*     another one.  The loop is therefore modelled step by step, and its  *)
(*     end is a property to check.                                         *)
(*                                                                         *)
(* A pointer is <<array, slot>>, the arrays being numbered as they are     *)
(* allocated, or Null.  threshold_ and loadFactor_ are never read.         *)
(***************************************************************************)
EXTENDS Powers, FiniteSets, Sequences

CONSTANTS
  Keys,         \* keys
  Vals,         \* values
  None,         \* "no such key"
  Hash,         \* Hash[k]: what traits_.hash_code computes
  MinCapacity,  \* kDefaultInitialCapacity (64 in the code)
  MaxCapacity,  \* kMaximumCapacity (1 << 30 in the code)
  Requests,     \* the arguments callers give the constructor, reserve, ...
  ArrayBound    \* bound of the model: how many entry arrays are allocated

Null == <<0, 0>>
kInvalidHash == -1

ASSUME DictionaryExAssumption ==
  /\ IsFiniteSet(Keys)
  /\ None \notin Keys \cup Vals
  /\ Hash \in [Keys -> Nat]
  /\ MinCapacity \in Nat \ {0}
  /\ MaxCapacity \in Nat \ {0}
  /\ Requests \subseteq Nat \ {0, 1}
  /\ ArrayBound \in Nat

VARIABLES
  buckets,   \* buckets_: the head of each chain
  entry,     \* every entry ever allocated: [hash, key, val, next]
  array,     \* the number of the array entries_ points to
  size,      \* size_
  count,     \* count_: slots of that array handed out
  capacity,  \* capacity_: length of buckets_ and of that array
  free,      \* freelist_: [head, size]
  call,      \* the call in progress: [op, key, val, before, cur]
  ret        \* the value that the call, a find, has led to; or None

memory == <<buckets, entry, array, size, count, capacity, free>>
vars == <<buckets, entry, array, size, count, capacity, free, call, ret>>

Untouched == [hash |-> 0, key |-> None, val |-> None, next |-> Null]
EmptyFree == [head |-> Null, size |-> 0]
Idle == [op |-> "none", key |-> None, val |-> None,
         before |-> Null, cur |-> Null]

index_of(hash, cap) == hash % cap

Clamp(n, low) == IF n < low THEN low ELSE IF n > MaxCapacity THEN MaxCapacity
                 ELSE n
calc_capacity(n) == round_up_pow2(Clamp(n, MinCapacity))
calc_shrink_capacity(n) == round_up_pow2(Clamp(n, 0))

-----------------------------------------------------------------------------
(* Following the pointers                                                  *)

\* The entries met from p on; a walk longer than all entries is a circle and
\* is cut there.
Path(p) ==
  LET walk[n \in Nat] ==
        [q \in DOMAIN entry \cup {Null} |->
           IF n = 0 \/ q = Null THEN <<>>
           ELSE <<q>> \o walk[n - 1][entry[q].next]]
  IN  walk[Cardinality(DOMAIN entry) + 1][p]

SetOf(s) == {s[i] : i \in DOMAIN s}
Buckets == 0 .. capacity - 1
Chained == UNION {SetOf(Path(buckets[b])) : b \in Buckets}

\* Every chained entry, in the order in which a rehash meets them.
AllChained ==
  LET upTo[b \in 0 .. capacity] ==
        IF b = 0 THEN <<>> ELSE upTo[b - 1] \o Path(buckets[b - 1])
  IN  upTo[capacity]

-----------------------------------------------------------------------------
Init ==
  \E n \in Requests :
    LET cap == round_up_pow2(n)
    IN  /\ buckets = [b \in 0 .. cap - 1 |-> Null]
        /\ entry = [p \in {1} \X (0 .. cap - 1) |-> Untouched]
        /\ array = 1
        /\ size = 0
        /\ count = 0
        /\ capacity = cap
        /\ free = EmptyFree
        /\ call = Idle
        /\ ret = None

-----------------------------------------------------------------------------
(* rehash_internal and shrink_internal                                     *)

\* The tables after a rehash to cap buckets.  Every entry is pushed on the
\* front of its new chain in turn, and a new array is opened.
Rehashed(cap) ==
  LET seq == AllChained
      mine(b, n) == {i \in 1 .. n : index_of(entry[seq[i]].hash, cap) = b}
      top(b, n) == IF mine(b, n) = {} THEN Null
                   ELSE seq[CHOOSE i \in mine(b, n) :
                              \A j \in mine(b, n) : j <= i]
      place == [p \in SetOf(seq) |-> CHOOSE i \in DOMAIN seq : seq[i] = p]
  IN  [buckets |-> [b \in 0 .. cap - 1 |-> top(b, Len(seq))],
       entry |-> [p \in DOMAIN entry \cup {array + 1} \X (0 .. cap - 1) |->
                    IF p \notin DOMAIN entry THEN Untouched
                    ELSE IF p \in SetOf(seq)
                    THEN [entry[p] EXCEPT !.next =
                            top(index_of(entry[p].hash, cap), place[p] - 1)]
                    ELSE entry[p]],
       size |-> Len(seq)]

Rehash(cap, freelist) ==
  LET new == Rehashed(cap)
  IN  /\ buckets' = new.buckets
      /\ entry' = new.entry
      /\ size' = new.size
      /\ array' = array + 1
      /\ count' = 0
      /\ capacity' = cap
      /\ free' = freelist

-----------------------------------------------------------------------------
(* The search loop of find, insert and erase                               *)

Start(op, k, v) ==
  call' = [op |-> op, key |-> k, val |-> v, before |-> Null,
           cur |-> buckets[index_of(Hash[k], capacity)]]

Done == call' = Idle

\* insert has to double the table.
Full == free.size = 0 /\ (count >= capacity \/ size >= capacity)

CallFind(k) ==
  /\ call = Idle
  /\ Start("find", k, None)
  /\ ret' = None
  /\ UNCHANGED memory

CallInsert(k, v) ==
  /\ call = Idle
  /\ Full => array < ArrayBound
  /\ Start("insert", k, v)
  /\ ret' = None
  /\ UNCHANGED memory

CallErase(k) ==
  /\ call = Idle
  /\ Start("erase", k, None)
  /\ ret' = None
  /\ UNCHANGED memory

\* The entry under the cursor is the one looked for.
Match ==
  /\ call.cur # Null
  /\ entry[call.cur].hash = Hash[call.key]
  /\ entry[call.cur].key = call.key

\* (faulty) The cursor moves on only past entries of another bucket.
StuckScan ==
  /\ call # Idle /\ call.cur # Null /\ ~Match
  /\ call' = IF index_of(entry[call.cur].hash, capacity)
                   # index_of(Hash[call.key], capacity)
             THEN [call EXCEPT !.before = call.cur,
                               !.cur = entry[call.cur].next]
             ELSE call
  /\ UNCHANGED <<memory, ret>>

\* One round of the loop that does not find the key: the cursor moves on if
\* the hash differs, and stays where it is if only the key does.
Scan ==
  /\ call # Idle /\ call.cur # Null /\ ~Match
  /\ call' = IF entry[call.cur].hash # Hash[call.key]
             THEN [call EXCEPT !.before = call.cur,
                               !.cur = entry[call.cur].next]
             ELSE call
  /\ UNCHANGED <<memory, ret>>

FindHit ==
  /\ call.op = "find" /\ Match
  /\ ret' = entry[call.cur].val
  /\ Done
  /\ UNCHANGED memory

FindMiss ==
  /\ call.op = "find" /\ call.cur = Null
  /\ ret' = None
  /\ Done
  /\ UNCHANGED memory

-----------------------------------------------------------------------------
(* insert                                                                  *)

InsertUpdate ==
  /\ call.op = "insert" /\ Match
  /\ entry' = [entry EXCEPT ![call.cur].val = call.val]
  /\ Done
  /\ UNCHANGED <<buckets, array, size, count, capacity, free, ret>>

InsertMiss == call.op = "insert" /\ call.cur = Null

\* Entry p becomes the head of the chain of the key, in the tables given.
Linked(b, e, cap, p) ==
  LET ix == index_of(Hash[call.key], cap)
  IN  /\ buckets' = [b EXCEPT ![ix] = p]
      /\ entry' = [e EXCEPT ![p] = [hash |-> Hash[call.key], key |-> call.key,
                                    val |-> call.val, next |-> b[ix]]]

InsertReuse ==
  /\ InsertMiss /\ free.size > 0
  /\ Linked(buckets, entry, capacity, free.head)
  /\ free' = [head |-> entry[free.head].next, size |-> free.size - 1]
  /\ size' = size + 1
  /\ Done
  /\ UNCHANGED <<array, count, capacity, ret>>

InsertNext ==
  /\ InsertMiss /\ free.size = 0 /\ ~Full
  /\ Linked(buckets, entry, capacity, <<array, count>>)
  /\ count' = count + 1
  /\ size' = size + 1
  /\ Done
  /\ UNCHANGED <<array, capacity, free, ret>>

\* (faulty) The bucket is not computed again.
StaleInsertGrow ==
  /\ InsertMiss /\ Full
  /\ LET cap == 2 * capacity
         new == Rehashed(cap)
     IN  /\ Linked(new.buckets, new.entry, capacity, <<array + 1, 0>>)
         /\ size' = new.size + 1
         /\ capacity' = cap
  /\ array' = array + 1
  /\ count' = 1
  /\ free' = EmptyFree
  /\ Done
  /\ UNCHANGED ret

\* The table is doubled, which empties the free list, and the bucket is
\* computed again.
InsertGrow ==
  /\ InsertMiss /\ Full
  /\ LET cap == 2 * capacity
         new == Rehashed(cap)
     IN  /\ Linked(new.buckets, new.entry, cap, <<array + 1, 0>>)
         /\ size' = new.size + 1
         /\ capacity' = cap
  /\ array' = array + 1
  /\ count' = 1
  /\ free' = EmptyFree
  /\ Done
  /\ UNCHANGED ret

-----------------------------------------------------------------------------
(* erase, clear, reserve/rehash/resize, shrink_to                          *)

\* (faulty) The entry goes to the free list before the entry before it takes
\* over its next.
LateEraseHit ==
  /\ call.op = "erase" /\ Match
  /\ LET p == call.cur
         gone == [hash |-> kInvalidHash, key |-> None, val |-> None,
                  next |-> free.head]
     IN  /\ IF call.before # Null
            THEN /\ entry' = [entry EXCEPT ![call.before].next = free.head,
                                           ![p] = gone]
                 /\ UNCHANGED buckets
            ELSE /\ entry' = [entry EXCEPT ![p] = gone]
                 /\ buckets' = [buckets EXCEPT
                                  ![index_of(Hash[call.key], capacity)] =
                                    free.head]
         /\ free' = [head |-> p, size |-> free.size + 1]
  /\ size' = size - 1
  /\ Done
  /\ UNCHANGED <<array, count, capacity, ret>>

\* The entry is unlinked, marked and pushed on the free list.
EraseHit ==
  /\ call.op = "erase" /\ Match
  /\ LET p == call.cur
         gone == [hash |-> kInvalidHash, key |-> None, val |-> None,
                  next |-> free.head]
     IN  /\ IF call.before # Null
            THEN /\ entry' = [entry EXCEPT ![call.before].next = entry[p].next,
                                           ![p] = gone]
                 /\ UNCHANGED buckets
            ELSE /\ entry' = [entry EXCEPT ![p] = gone]
                 /\ buckets' = [buckets EXCEPT
                                  ![index_of(Hash[call.key], capacity)] =
                                    entry[p].next]
         /\ free' = [head |-> p, size |-> free.size + 1]
  /\ size' = size - 1
  /\ Done
  /\ UNCHANGED <<array, count, capacity, ret>>

EraseMiss ==
  /\ call.op = "erase" /\ call.cur = Null
  /\ Done
  /\ UNCHANGED <<memory, ret>>

\* (faulty) The free list stays.
FreelistKeptClear ==
  /\ call = Idle
  /\ buckets' = [b \in Buckets |-> Null]
  /\ entry' = [p \in DOMAIN entry |-> Untouched]
  /\ size' = 0
  /\ count' = 0
  /\ UNCHANGED <<array, capacity, free, call>>
  /\ ret' = None

\* clear zeroes the buckets and forgets every entry: no pointer leads to one
\* any more, so that what it held cannot be read again.
Clear ==
  /\ call = Idle
  /\ buckets' = [b \in Buckets |-> Null]
  /\ entry' = [p \in DOMAIN entry |-> Untouched]
  /\ size' = 0
  /\ count' = 0
  /\ free' = EmptyFree
  /\ ret' = None
  /\ UNCHANGED <<array, capacity, call>>

Reserve(n) ==
  /\ call = Idle /\ array < ArrayBound
  /\ calc_capacity(n) > capacity
  /\ Rehash(calc_capacity(n), EmptyFree)
  /\ ret' = None
  /\ UNCHANGED call

\* shrink_internal leaves the free list as it is: its entries are in the old
\* arrays, and are handed out again from there.
ShrinkTo(n) ==
  /\ call = Idle /\ array < ArrayBound
  /\ calc_shrink_capacity(n) # capacity
  /\ Rehash(calc_shrink_capacity(n), free)
  /\ ret' = None
  /\ UNCHANGED call

-----------------------------------------------------------------------------
Returns == FindHit \/ FindMiss \/ InsertUpdate \/ InsertReuse \/ InsertNext
             \/ InsertGrow \/ EraseHit \/ EraseMiss

Next ==
  \/ \E k \in Keys : CallFind(k) \/ CallErase(k)
  \/ \E k \in Keys, v \in Vals : CallInsert(k, v)
  \/ Scan
  \/ FindHit \/ FindMiss
  \/ InsertUpdate \/ InsertReuse \/ InsertNext \/ InsertGrow
  \/ EraseHit \/ EraseMiss
  \/ Clear
  \/ \E n \in Requests : Reserve(n) \/ ShrinkTo(n)

\* A call that was made runs: nothing keeps the processor from its next step.
Spec == Init /\ [][Next]_vars /\ WF_vars(Scan \/ Returns)

-----------------------------------------------------------------------------
(* Properties                                                              *)

Pointer == DOMAIN entry \cup {Null}
TypeOK ==
  /\ buckets \in [Buckets -> Pointer]
  /\ entry \in [DOMAIN entry ->
                  [hash : Nat \cup {kInvalidHash}, key : Keys \cup {None},
                   val : Vals \cup {None}, next : Pointer]]
  /\ count \in 0 .. capacity
  /\ size \in Nat
  /\ {array} \X Buckets \subseteq DOMAIN entry
  /\ free.head \in Pointer /\ free.size \in Nat
  /\ call.op \in {"none", "find", "insert", "erase"}
  /\ call.cur \in Pointer /\ call.before \in Pointer
  /\ ret \in Vals \cup {None}

\* Whatever arrays the entries lie in, each is in one place: in the chain of
\* its hash, on the free list, or, in the current array, not handed out yet.
\* size_ counts the first, the free list counts the second.
Unopened == {array} \X (count .. capacity - 1)
EntriesPartitioned ==
  LET seq == AllChained
      chained == SetOf(seq)
      freePath == Path(free.head)
      freed == SetOf(freePath)
  IN  /\ TypeOK
      /\ \A b \in Buckets : \A p \in SetOf(Path(buckets[b])) :
           entry[p].key # None /\ index_of(entry[p].hash, capacity) = b
      /\ Len(seq) = size /\ Cardinality(chained) = size
      /\ Len(freePath) = free.size /\ Cardinality(freed) = free.size
      /\ chained \cap freed = {}
      /\ Unopened \cap (chained \cup freed) = {}

\* What is stored under each key, wherever it is linked.
Stored ==
  LET live == Chained
      holding(k) == {p \in live : entry[p].key = k}
  IN  [k \in Keys |-> IF holding(k) = {} THEN None
                      ELSE entry[CHOOSE p \in holding(k) : TRUE].val]

\* A find that returns has found what is stored: no rehash, erasure or
\* recycling hides an entry from its search.
FindAnswers ==
  [][call.op = "find" /\ call' = Idle => ret' = Stored[call.key]]_vars

\* Every search comes to the end of its chain or to its key: find, insert and
\* erase return.
EveryCallReturns == call # Idle ~> call = Idle

\* What the caller sees is a map; the rounds of a search, and relinking the
\* entries of several arrays, cannot be observed.
Abstract == INSTANCE MapSpec WITH map <- Stored
ImplementsMap == Abstract!Spec
=============================================================================
