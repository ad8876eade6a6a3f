----------------------------- MODULE LRUCacheV3 -----------------------------
(***************************************************************************)
(* LeetCode::V3::LRUCacheBase (test/http_parser_test/LRUCache/             *)
(* LRUCache_v3.h): the list of ListNodes over a jstd::dictionary from keys *)
(* to nodes.  It composes the whole Dictionary with the list: each step of *)
(* a put is one call of one of the two, and `pend` is what the put has     *)
(* still to do.  LRUCaches runs it side by side with the other caches.     *)
(***************************************************************************)
EXTENDS ListNodes

CONSTANTS
  Keys,
  Vals,
  Failed,       \* kFailedValue
  Capacity,     \* the capacity the cache is constructed with
  HashBits, RawHash, MaxCapacity, GrowthBound    \* see Dictionary

VARIABLES
  list,      \* list_
  ret,       \* what the last get returned
  pend,      \* the rest of the put in progress: [step, key, value, node]
  buckets, entries, count, capacity, freeHead, freeSize, fault  \* cache_

cache == <<buckets, entries, count, capacity, freeHead, freeSize, fault>>

Slots == 0 .. Capacity - 1

D == INSTANCE Dictionary
       WITH Vals <- Slots, None <- Nil, MinCapacity <- 1,
            Requests <- {Capacity}, AllocMayFail <- FALSE

Idle == [step |-> "none", key |-> Nothing, value |-> Nothing, node |-> Nil]

Init ==
  /\ list = EmptyList(Capacity)
  /\ ret = Failed
  /\ pend = Idle
  /\ D!Init

Cached(k) == D!find(k) # D!Null
NodeOf(k) == D!Lookup(k)

\* Faulty variants, here and below, that the properties must tell from the
\* real operations.  A key that is read keeps its place.
lazy_get(k) ==
  /\ pend = Idle
  /\ ret' = IF Cached(k) THEN list.node[NodeOf(k)].value ELSE Failed
  /\ UNCHANGED <<list, pend, cache>>

get(k) ==
  /\ pend = Idle
  /\ IF Cached(k)
     THEN /\ list' = move_to_front(list, NodeOf(k))
          /\ ret' = list.node[NodeOf(k)].value
     ELSE ret' = Failed /\ UNCHANGED list
  /\ UNCHANGED <<pend, cache>>

\* put of a cached key.
Refresh(k, v) ==
  /\ pend = Idle /\ Cached(k)
  /\ list' = move_to_front([list EXCEPT !.node[NodeOf(k)].value = v],
                           NodeOf(k))
  /\ UNCHANGED <<ret, pend, cache>>

\* (faulty) The new key enters the dictionary before the old one leaves it.
EarlyTouch(k, v) ==
  /\ pend = Idle /\ ~Cached(k) /\ SizeOf(list) >= Capacity
  /\ D!Insert(k, back(list))
  /\ pend' = [step |-> "move", key |-> k, value |-> v, node |-> back(list)]
  /\ UNCHANGED <<list, ret>>

\* put of a new key into a full cache (touch): the key at the back leaves the
\* dictionary, the new one enters it with the same node, and the node changes
\* its key and moves to the front.
Touch(k, v) ==
  /\ pend = Idle /\ ~Cached(k) /\ SizeOf(list) >= Capacity
  /\ back(list) # Nil
  /\ D!Erase(list.node[back(list)].key)
  /\ pend' = [step |-> "replace", key |-> k, value |-> v, node |-> back(list)]
  /\ UNCHANGED <<list, ret>>

TouchInsert ==
  /\ pend.step = "replace"
  /\ D!Insert(pend.key, pend.node)
  /\ pend' = [pend EXCEPT !.step = "move"]
  /\ UNCHANGED <<list, ret>>

\* (faulty) The node keeps its old key.
KeylessMove ==
  /\ pend.step = "move"
  /\ list' = move_to_front([list EXCEPT !.node[pend.node].value = pend.value],
                           pend.node)
  /\ pend' = Idle
  /\ UNCHANGED <<ret, cache>>

TouchMove ==
  /\ pend.step = "move"
  /\ list' = move_to_front([list EXCEPT !.node[pend.node].key = pend.key,
                                        !.node[pend.node].value = pend.value],
                           pend.node)
  /\ pend' = Idle
  /\ UNCHANGED <<ret, cache>>

\* put of a new key when there is room (add_new).
AddNew(k, v) ==
  /\ pend = Idle /\ ~Cached(k) /\ SizeOf(list) < Capacity
  /\ list' = PushedFront(list, k, v)
  /\ pend' = [step |-> "add", key |-> k, value |-> v, node |-> NewNode(list)]
  /\ UNCHANGED <<ret, cache>>

AddInsert ==
  /\ pend.step = "add"
  /\ D!Insert(pend.key, pend.node)
  /\ pend' = Idle
  /\ UNCHANGED <<list, ret>>

put(k, v) == Refresh(k, v) \/ Touch(k, v) \/ AddNew(k, v)

-----------------------------------------------------------------------------
(* Properties                                                              *)

\* Between two puts the dictionary and the list hold the same keys, and the
\* dictionary leads from each key to the node that holds it.
DictionaryMatchesList ==
  pend = Idle =>
    /\ \A n \in LinkedNodes(list) : NodeOf(list.node[n].key) = n
    /\ D!Size = Len(Forward(list))

\* The dictionary is never rehashed, whatever is evicted: it is constructed
\* large enough, and an evicted key leaves it before the new one enters, which
\* then takes over its entry.  (The nodes' iterators stay good.)
NeverRehashed == [][capacity' = capacity /\ fault' = "none"]_cache
=============================================================================
