----------------------------- MODULE LRUCaches ------------------------------
(***************************************************************************)
(* The LRU caches that the driver (test/http_parser_test/main.cpp) feeds   *)
(* with the same sequence of calls, side by side: LRUCache, V2 and V3.  V1 *)
(* is LRUSpec itself.                                                      *)
(*                                                                         *)
(* A call is one step of the first two.  A put of V3 may take further      *)
(* steps, one for each call it makes, and the next call waits for them.    *)
(***************************************************************************)
EXTENDS LRUCache

CONSTANTS
  HeapSize,                                    \* see LRUCacheV2
  HashBits, RawHash, MaxCapacity, GrowthBound  \* see Dictionary

VARIABLES
  list2, cache2, ret2,   \* V2
  list3, ret3, pend,     \* V3, and its dictionary:
  buckets, entries, count, capacity, freeHead, freeSize, fault

V2 == INSTANCE LRUCacheV2 WITH list <- list2, cache <- cache2, ret <- ret2
V3 == INSTANCE LRUCacheV3 WITH list <- list3, ret <- ret3

\* The heap has room for one node more than the cache, and the dictionary of
\* V3 is instantiated as Dictionary assumes.
ASSUME CachesAssumption ==
  /\ HeapSize \in Nat
  /\ HeapSize > Capacity
  /\ V3!D!DictionaryAssumption

allVars == <<list, cache, ret, list2, cache2, ret2, list3, ret3, pend,
             buckets, entries, count, capacity, freeHead, freeSize, fault>>

AllInit == Init /\ V2!Init /\ V3!Init

GetAll(k) == get(k) /\ V2!get(k) /\ V3!get(k)

PutAll(k, v) == put(k, v) /\ V2!put(k, v) /\ V3!put(k, v)

FinishPut ==
  /\ V3!TouchInsert \/ V3!TouchMove \/ V3!AddInsert
  /\ UNCHANGED <<list, cache, ret, list2, cache2, ret2>>

AllNext ==
  \/ \E k \in Keys : GetAll(k) \/ \E v \in Vals : PutAll(k, v)
  \/ FinishPut

AllSpec == AllInit /\ [][AllNext]_allVars

-----------------------------------------------------------------------------
(* Properties                                                              *)

\* What a cache holds, the most recent key first, along the nodes of `path`.
Contents(L, path) ==
  [i \in DOMAIN path |->
     [key |-> L.node[path[i]].key, value |-> L.node[path[i]].value]]

\* After every call all caches have given the same answers and hold the same
\* pairs in the same order (what the driver adds up in sumGet and sumVisit),
\* in spite of their different tables, allocations and directions of the
\* list: ImplementsLRU holds of each.
AnswersAgree ==
  /\ ret = ret2 /\ ret = ret3
  /\ Contents(list2, Backward(list2)) = Order
  /\ pend = V3!Idle => Contents(list3, Forward(list3)) = Order

\* The invariants of V2 and V3 (see there).
MapOwnsNodes == V2!MapOwnsNodes
DictionaryMatchesList == V3!DictionaryMatchesList
NeverRehashed == V3!NeverRehashed
=============================================================================
