---------------------------- MODULE LRUHashTable ----------------------------
(***************************************************************************)
(* LeetCode::LRUHashTable (test/http_parser_test/LRUCache/LRUHashTable.h): *)
(* open addressing over two tables of the same fixed capacity.             *)
(*                                                                         *)
(* A key is looked for in a window of FirstLayerSearchStep slots of the    *)
(* first table, which is cut off at the end of the table, and then in the  *)
(* second table, from its second hash on and once around.  Either search   *)
(* gives up at a slot that was never used; the slot of a removed key is    *)
(* marked EmptyKey instead, which a search passes by.                      *)
(*                                                                         *)
(* The table is a record [first, second, size], and every operation is an  *)
(* operator from tables to tables, so that LRUCache can apply several in   *)
(* one call.                                                               *)
(***************************************************************************)
EXTENDS Integers, FiniteSets

CONSTANTS
  Keys,                  \* the keys in use: not the two marks below
  Values,                \* what is stored (list nodes, in the cache)
  NoValue,               \* the value field of a slot never used
  TableCapacity,         \* capacity_, a power of two
  FirstLayerSearchStep,  \* kFirstLayerSearchStep (6 in the code)
  XorKey                 \* XorKey[k] = k ^ 4491719

UnusedKey == -1
EmptyKey == -2

ASSUME TableAssumption ==
  /\ Keys \subseteq Nat
  /\ NoValue \notin Values
  /\ TableCapacity \in Nat \ {0}
  /\ FirstLayerSearchStep \in Nat \ {0}
  /\ XorKey \in [Keys -> Nat]

VARIABLE table

Index == 0 .. TableCapacity - 1
HashNode == [key : Keys \cup {UnusedKey, EmptyKey},
             value : Values \cup {NoValue}]
Table == [first : [Index -> HashNode], second : [Index -> HashNode],
          size : Nat]

\* init: memset makes every key UnusedKey.
Unused == [key |-> UnusedKey, value |-> NoValue]
EmptyTable == [first |-> [i \in Index |-> Unused],
               second |-> [i \in Index |-> Unused],
               size |-> 0]

getHash1(k) == k % TableCapacity
getHash2(k) == XorKey[k] % TableCapacity

-----------------------------------------------------------------------------
(* The two searches                                                        *)

\* The slots of the first table that are looked at for k.
Window(k) ==
  {i \in Index : getHash1(k) <= i /\ i < getHash1(k) + FirstLayerSearchStep}

\* The slot of the second table looked at after `step` slots.
Probe(k, step) ==
  IF getHash2(k) + step < TableCapacity
  THEN getHash2(k) + step
  ELSE getHash2(k) + step - TableCapacity

\* The first slot of each search whose key is one of `marks`.
Meets1(T, k, marks) == \E i \in Window(k) : T.first[i].key \in marks
Meets2(T, k, marks) == \E n \in Index : T.second[Probe(k, n)].key \in marks

First1(T, k, marks) ==
  CHOOSE i \in Window(k) :
    /\ T.first[i].key \in marks
    /\ \A j \in Window(k) : T.first[j].key \in marks => i <= j
First2(T, k, marks) ==
  Probe(k, CHOOSE n \in Index :
             /\ T.second[Probe(k, n)].key \in marks
             /\ \A m \in Index : T.second[Probe(k, m)].key \in marks => n <= m)

\* A search stops at k and at a slot never used.
Stop1(T, k) == First1(T, k, {UnusedKey, k})
Stop2(T, k) == First2(T, k, {UnusedKey, k})
Hit1(T, k) == Meets1(T, k, {UnusedKey, k}) /\ T.first[Stop1(T, k)].key = k
Hit2(T, k) == Meets2(T, k, {UnusedKey, k}) /\ T.second[Stop2(T, k)].key = k
End1(T, k) ==
  Meets1(T, k, {UnusedKey, k}) /\ T.first[Stop1(T, k)].key = UnusedKey
End2(T, k) ==
  Meets2(T, k, {UnusedKey, k}) /\ T.second[Stop2(T, k)].key = UnusedKey

\* A slot is <<layer, index>>; NotFound is nullptr.
NotFound == <<0, 0>>

find(T, k) ==
  IF Hit1(T, k) THEN <<1, Stop1(T, k)>>
  ELSE IF Hit2(T, k) THEN <<2, Stop2(T, k)>>
  ELSE NotFound

NodeAt(T, s) == IF s[1] = 1 THEN T.first[s[2]] ELSE T.second[s[2]]
Lookup(T, k) ==
  IF find(T, k) = NotFound THEN NoValue ELSE NodeAt(T, find(T, k)).value

-----------------------------------------------------------------------------
(* insert                                                                  *)

Put1(T, i, k, v) == [T EXCEPT !.first[i] = [key |-> k, value |-> v]]
Put2(T, i, k, v) == [T EXCEPT !.second[i] = [key |-> k, value |-> v]]
Grown(T) == [T EXCEPT !.size = @ + 1]

\* Faulty variants of Recycled, Inserted and Removed, which the properties
\* must tell from the real ones: only a removed slot of the first table is
\* taken again; a removed slot of the window is taken before the searches
\* end; a removed slot becomes unused; size_ is not decremented, or always.
ForgetfulRecycled(T, k, v) ==
  IF Meets1(T, k, {EmptyKey})
  THEN Grown(Put1(T, First1(T, k, {EmptyKey}), k, v)) ELSE T

\* The key is absent and both searches went all the way: the first removed
\* slot either of them met is taken, preferably of the first table.  With none
\* met the key is not stored, and the caller is not told.
Recycled(T, k, v) ==
  IF Meets1(T, k, {EmptyKey})
  THEN Grown(Put1(T, First1(T, k, {EmptyKey}), k, v))
  ELSE IF Meets2(T, k, {EmptyKey})
  THEN Grown(Put2(T, First2(T, k, {EmptyKey}), k, v))
  ELSE T

EagerInserted(T, k, v) ==
  IF Meets1(T, k, {EmptyKey, UnusedKey, k})
  THEN LET i == First1(T, k, {EmptyKey, UnusedKey, k})
       IN  IF T.first[i].key = k THEN Put1(T, i, k, v)
           ELSE Grown(Put1(T, i, k, v))
  ELSE IF End2(T, k) THEN Grown(Put2(T, Stop2(T, k), k, v))
  ELSE IF Hit2(T, k) THEN Put2(T, Stop2(T, k), k, v)
  ELSE Recycled(T, k, v)

Inserted(T, k, v) ==
  IF End1(T, k) THEN Grown(Put1(T, Stop1(T, k), k, v))
  ELSE IF Hit1(T, k) THEN Put1(T, Stop1(T, k), k, v)
  ELSE IF End2(T, k) THEN Grown(Put2(T, Stop2(T, k), k, v))
  ELSE IF Hit2(T, k) THEN Put2(T, Stop2(T, k), k, v)
  ELSE Recycled(T, k, v)

-----------------------------------------------------------------------------
(* remove and remove_if: the key of the slot becomes EmptyKey, its value   *)
(* stays                                                                   *)

WipedRemoved(T, k) ==
  IF Hit1(T, k)
  THEN [T EXCEPT !.first[Stop1(T, k)] = Unused, !.size = @ - 1]
  ELSE IF Hit2(T, k)
  THEN [T EXCEPT !.second[Stop2(T, k)] = Unused, !.size = @ - 1]
  ELSE T

UncountedRemoved(T, k) ==
  IF Hit1(T, k) THEN [T EXCEPT !.first[Stop1(T, k)].key = EmptyKey]
  ELSE IF Hit2(T, k) THEN [T EXCEPT !.second[Stop2(T, k)].key = EmptyKey]
  ELSE T

Removed(T, k) ==
  IF Hit1(T, k)
  THEN [T EXCEPT !.first[Stop1(T, k)].key = EmptyKey, !.size = @ - 1]
  ELSE IF Hit2(T, k)
  THEN [T EXCEPT !.second[Stop2(T, k)].key = EmptyKey, !.size = @ - 1]
  ELSE T

-----------------------------------------------------------------------------
Init == table = EmptyTable

Insert(k, v) == table' = Inserted(table, k, v)
Remove(k) == table' = Removed(table, k)

Next ==
  \/ \E k \in Keys, v \in Values : Insert(k, v)
  \/ \E k \in Keys : Remove(k)

Spec == Init /\ [][Next]_table

-----------------------------------------------------------------------------
(* Properties                                                              *)

TypeOK == table \in Table

\* The slots that hold a key.
Occupied(T) ==
  {s \in {1, 2} \X Index : NodeAt(T, s).key \in Keys}

\* Whatever was inserted and removed before, find arrives at every slot that
\* holds a key: neither a removed slot nor a free slot of the window hides
\* it, and no key sits in a second slot that find would never reach.
Findable(T) == \A s \in Occupied(T) : find(T, NodeAt(T, s).key) = s
EveryKeyFindable == Findable(table)

\* size_ is the number of keys stored, through every recycled and every
\* removed slot; it never becomes negative (size_++, size_--).
SizeCounts(T) == T.size = Cardinality(Occupied(T))
SizeIsOccupied == TypeOK /\ SizeCounts(table)

\* insert has no way to report that it found no slot; it never needs one as
\* long as fewer keys are stored than capacity_.
InsertFindsRoom ==
  table.size < TableCapacity =>
    \A k \in Keys, v \in Values : Lookup(Inserted(table, k, v), k) = v

\* A stored key stays in its slot until it is removed: pointers that find
\* returned stay good across operations on other keys.
StableSlots ==
  [][\A k \in Keys :
       find(table, k) # NotFound /\ find(table', k) # NotFound
         => find(table', k) = find(table, k)]_table

\* Each operation changes the map as its caller expects: insert stores its
\* key or, when no slot is left, changes nothing; remove forgets its key; and
\* no other key appears, disappears or changes its value.
Abstract == INSTANCE MapSpec
              WITH Vals <- Values, None <- NoValue,
                   map <- [k \in Keys |-> Lookup(table, k)],
                   size <- table.size
ImplementsMap == Abstract!Spec
=============================================================================
