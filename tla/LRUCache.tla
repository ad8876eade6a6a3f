------------------------------ MODULE LRUCache ------------------------------
(***************************************************************************)
(* LeetCode::LRUCacheBase (test/http_parser_test/LRUCache/LRUCache.h): the *)
(* linked list of ListNodes keeps the cached keys, most recent first, and  *)
(* the hash table of LRUHashTable maps each of them to its node.           *)
(*                                                                         *)
(* When the cache is full the node at the back of the list changes its key *)
(* in place: its old key leaves the table, the new one enters it, and the  *)
(* node moves to the front.  Neither the table nor the list ever grows.    *)
(***************************************************************************)
EXTENDS ListNodes

CONSTANTS
  Keys,                  \* the keys callers use
  Vals,                  \* the values they store
  Failed,                \* kFailedValue, what get returns on a miss
  Capacity,              \* the capacity the cache is constructed with
  DefaultTableCapacity,  \* LRUHashTable's kDefaultCapacity (32 in the code)
  FirstLayerSearchStep,
  XorKey

ASSUME CacheAssumption ==
  /\ Keys \subseteq Nat
  /\ XorKey \in [Keys -> Nat]
  /\ FirstLayerSearchStep \in Nat \ {0}
  /\ Capacity \in Nat \ {0}
  /\ DefaultTableCapacity \in Nat \ {0}
  /\ Failed \notin Vals
  /\ Nothing \notin Keys \cup Vals

\* LRUHashTable::calc_capacity doubles the default until it is enough.
calc_capacity(n) ==
  LET doubled[i \in Nat] ==
        IF i = 0 THEN DefaultTableCapacity ELSE 2 * doubled[i - 1]
  IN  doubled[Least({i \in 0 .. n : doubled[i] >= n})]

VARIABLES
  list,    \* list_
  cache,   \* cache_
  ret      \* what the last get returned

vars == <<list, cache, ret>>

Slots == 0 .. Capacity - 1

T == INSTANCE LRUHashTable
       WITH table <- cache, Values <- Slots, NoValue <- Nil,
            TableCapacity <- calc_capacity(Capacity)

Init ==
  /\ list = EmptyList(Capacity)
  /\ cache = T!EmptyTable
  /\ ret = Failed

\* The node that the table gives for a key.
Cached(k) == T!find(cache, k) # T!NotFound
NodeOf(k) == T!Lookup(cache, k)

\* Faulty variants, here and below, that the properties must tell from the
\* real operations.  A key that is read keeps its place.
LazyGet(k) ==
  /\ ret' = IF Cached(k) THEN list.node[NodeOf(k)].value ELSE Failed
  /\ UNCHANGED <<list, cache>>

get(k) ==
  IF Cached(k)
  THEN /\ list' = move_to_front(list, NodeOf(k))
       /\ ret' = list.node[NodeOf(k)].value
       /\ UNCHANGED cache
  ELSE /\ ret' = Failed
       /\ UNCHANGED <<list, cache>>

Refresh(k, v) ==
  /\ Cached(k)
  /\ list' = move_to_front([list EXCEPT !.node[NodeOf(k)].value = v],
                           NodeOf(k))
  /\ UNCHANGED cache

\* (faulty) The key that is evicted stays in the table.
StaleTouch(k, v) ==
  /\ ~Cached(k)
  /\ SizeOf(list) >= Capacity
  /\ back(list) # Nil
  /\ LET tail == back(list)
     IN  /\ cache' = T!Inserted(cache, k, tail)
         /\ list' = move_to_front([list EXCEPT !.node[tail].key = k,
                                               !.node[tail].value = v], tail)

\* touch: the least recent node is given to the new key.
touch(k, v) ==
  /\ ~Cached(k)
  /\ SizeOf(list) >= Capacity
  /\ back(list) # Nil
  /\ LET tail == back(list)
         old == list.node[tail].key
     IN  /\ cache' = IF k # old
                     THEN T!Inserted(T!Removed(cache, old), k, tail)
                     ELSE cache
         /\ list' = move_to_front([list EXCEPT !.node[tail].key = k,
                                               !.node[tail].value = v], tail)

\* add: a node that was never used.
add(k, v) ==
  /\ ~Cached(k)
  /\ SizeOf(list) < Capacity
  /\ list' = PushedFront(list, k, v)
  /\ cache' = T!Inserted(cache, k, NewNode(list))

put(k, v) ==
  /\ Refresh(k, v) \/ touch(k, v) \/ add(k, v)
  /\ UNCHANGED ret

Next == \E k \in Keys : get(k) \/ \E v \in Vals : put(k, v)

Spec == Init /\ [][Next]_vars

-----------------------------------------------------------------------------
(* Properties                                                              *)

TypeOK ==
  /\ list.size \in 0 .. Capacity
  /\ list.node \in [Slots -> [prev : Slots \cup {HeadNode, TailNode, Nil},
                              next : Slots \cup {HeadNode, TailNode, Nil},
                              key : Keys \cup {Nothing},
                              value : Vals \cup {Nothing}]]
  /\ cache \in T!Table
  /\ ret \in Vals \cup {Failed}

\* The list links exactly the nodes in use, and neither an insertion nor an
\* eviction is ever at a loss for a node.
NodesInUseAreLinked ==
  /\ LinkedNodes(list) = 0 .. list.size - 1
  /\ Len(Forward(list)) = list.size
  /\ list.freeHead = Nil

\* The table and the list hold the same keys: the table leads from the key of
\* a node in use to that very node (what get and put assert), and from no
\* other key to any node; the list links all of these nodes.
TableMatchesList ==
  /\ TypeOK
  /\ \A n \in 0 .. list.size - 1 : NodeOf(list.node[n].key) = n
  /\ \A k \in Keys :
       Cached(k) => /\ NodeOf(k) \in 0 .. list.size - 1
                    /\ list.node[NodeOf(k)].key = k
  /\ cache.size = list.size
  /\ NodesInUseAreLinked

\* get and put answer and evict as an LRU cache does, whatever the table
\* does to find the nodes.
Order ==
  LET f == Forward(list)
  IN  [i \in DOMAIN f |->
         [key |-> list.node[f[i]].key, value |-> list.node[f[i]].value]]
Abstract == INSTANCE LRUSpec WITH order <- Order
ImplementsLRU == Abstract!Spec
=============================================================================
