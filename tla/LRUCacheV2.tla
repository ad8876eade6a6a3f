----------------------------- MODULE LRUCacheV2 -----------------------------
(***************************************************************************)
(* LeetCode::V2::LRUCache (test/http_parser_test/LRUCache/LRUCache_v2.h):  *)
(* nodes of the heap in a doubly linked list, the most recent at the back, *)
(* and a std::unordered_map (external: a function) from keys to nodes.     *)
(*                                                                         *)
(* The list is the record of ListNodes, whose array stands for the heap:   *)
(* an address holds Raw as long as no node is allocated there.  LRUCaches  *)
(* runs it side by side with the other caches.                             *)
(***************************************************************************)
EXTENDS ListNodes

CONSTANTS
  Keys,
  Vals,
  Failed,     \* -1, what get returns on a miss
  Capacity,   \* capacity_
  HeapSize    \* bound of the model: addresses the allocator may return

VARIABLES
  list,    \* head_, tail_ and the nodes
  cache,   \* cache_: the node of each key, or Nil
  ret      \* what the last get returned

Heap == 0 .. HeapSize - 1
Allocated == {a \in Heap : list.node[a] # Raw}

Init ==
  /\ list = EmptyList(HeapSize)
  /\ cache = [k \in Keys |-> Nil]
  /\ ret = Failed

pushNode(L, n) == push_back_internal(L, n)
removeNode(L, n) == Unlink(L, n)

size(c) == Cardinality({k \in Keys : c[k] # Nil})

get(k) ==
  IF cache[k] # Nil
  THEN /\ list' = pushNode(removeNode(list, cache[k]), cache[k])
       /\ ret' = list.node[cache[k]].value
       /\ UNCHANGED cache
  ELSE /\ ret' = Failed
       /\ UNCHANGED <<list, cache>>

\* A cached key: its node goes to the back and then gets the value.
PutRefresh(k, v) ==
  /\ cache[k] # Nil
  /\ list' = [pushNode(removeNode(list, cache[k]), cache[k])
                EXCEPT !.node[cache[k]].value = v]
  /\ UNCHANGED <<cache, ret>>

\* Faulty variants of Evicted, which the properties must tell from the real
\* one: the node is not deleted, or stays in the map.
LeakyEvicted(L, c) ==
  [list  |-> removeNode(L, L.head.next),
   cache |-> [c EXCEPT ![L.node[L.head.next].key] = Nil]]
StaleEvicted(L, c) ==
  [list  |-> [removeNode(L, L.head.next) EXCEPT !.node[L.head.next] = Raw],
   cache |-> c]

\* The node at the front is unlinked and deleted, and its key leaves the map.
Evicted(L, c) ==
  LET top == L.head.next
  IN  [list  |-> [removeNode(L, top) EXCEPT !.node[top] = Raw],
       cache |-> [c EXCEPT ![L.node[top].key] = Nil]]

\* A new key: the cache makes room first if it is full, and the new node may
\* get the address of the one just deleted.
PutNew(k, v) ==
  /\ cache[k] = Nil
  /\ LET rest == IF size(cache) >= Capacity THEN Evicted(list, cache)
                 ELSE [list |-> list, cache |-> cache]
     IN  \E a \in {b \in Heap : rest.list.node[b] = Raw} :
           /\ list' = pushNode([rest.list EXCEPT
                                  !.node[a] = Node(Nil, Nil, k, v)], a)
           /\ cache' = [rest.cache EXCEPT ![k] = a]
  /\ UNCHANGED ret

put(k, v) == PutRefresh(k, v) \/ PutNew(k, v)

-----------------------------------------------------------------------------
(* Properties                                                              *)

\* The map leads from each key to a node that is allocated, linked and holds
\* that key, and every allocated node belongs to a key: nothing dangles after
\* a delete and nothing leaks.
MapOwnsNodes ==
  /\ \A k \in Keys :
       cache[k] # Nil => cache[k] \in Allocated /\ list.node[cache[k]].key = k
  /\ Allocated = {cache[k] : k \in Keys} \ {Nil}
  /\ Allocated = LinkedNodes(list)
=============================================================================
