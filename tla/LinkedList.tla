----------------------------- MODULE LinkedList -----------------------------
(***************************************************************************)
(* A ContinuousDoubleLinkedList and the callers that hold handles of its   *)
(* nodes.  The operations are those of ListNodes.                          *)
(***************************************************************************)
EXTENDS ListNodes

CONSTANTS
  Keys,          \* keys a node may hold
  Vals,          \* values a node may hold
  ListCapacity,  \* the capacity the list is constructed with
  Sizes          \* the capacities callers pass to resize

ASSUME ListAssumption ==
  /\ Nothing \notin Keys \cup Vals
  /\ ListCapacity \in Nat
  /\ Sizes \subseteq Nat

VARIABLES
  list,       \* the list object
  held,       \* held[n]: handles of node n that callers got from a push
  detached    \* nodes a caller created and has not linked yet

vars == <<list, held, detached>>

-----------------------------------------------------------------------------
(* The list and its callers                                                *)

Slots == DOMAIN list.node
AllSlots == UNION {0 .. cap - 1 : cap \in Sizes \cup {ListCapacity}}

Init ==
  /\ list = EmptyList(ListCapacity)
  /\ held = [n \in 0 .. ListCapacity - 1 |-> 0]
  /\ detached = {}

\* push_front(key, value) refuses when every node of the array was handed
\* out once, free nodes or not.
PushFront(k, v) ==
  /\ list.size < list.capacity
  /\ list' = PushedFront(list, k, v)
  /\ held' = [held EXCEPT ![NewNode(list)] = @ + 1]
  /\ UNCHANGED detached

\* create_new_node, with the caller to link the node later.
CreateNode(k, v) ==
  /\ list.size < list.capacity
  /\ list' = Created(list, k, v)
  /\ detached' = detached \cup {NewNode(list)}
  /\ UNCHANGED held

\* push_front(node) and push_back(node): once the array is handed out they
\* return without linking the node, and the caller keeps it.
PushNode(n) ==
  /\ n \in detached
  /\ list.size < list.capacity
  /\ \/ list' = push_front_internal(list, n)
     \/ list' = push_back_internal(list, n)
  /\ held' = [held EXCEPT ![n] = @ + 1]
  /\ detached' = detached \ {n}

\* remove, by a handle.
RemoveNode(n) ==
  /\ held[n] > 0
  /\ list.node[n].prev # Nil /\ list.node[n].next # Nil
  /\ list' = remove(list, n)
  /\ held' = [held EXCEPT ![n] = @ - 1]
  /\ UNCHANGED detached

\* pop_front and pop_back.
Pop ==
  /\ front(list) # Nil /\ back(list) # Nil
  /\ \E n \in {front(list), back(list)} :
       /\ list' = remove(list, n)
       /\ held' = [held EXCEPT ![n] = IF @ = 0 THEN 0 ELSE @ - 1]
  /\ UNCHANGED detached

\* move_to_front and move_to_back, by a handle.
MoveNode(n) ==
  /\ held[n] > 0
  /\ list.node[n].prev # Nil /\ list.node[n].next # Nil
  /\ \/ list' = move_to_front(list, n)
     \/ list' = move_to_back(list, n)
  /\ UNCHANGED <<held, detached>>

\* clear ends every handle.
Clear ==
  /\ list' = Cleared(list)
  /\ held' = [n \in Slots |-> 0]
  /\ detached' = {}

\* Growing frees the array and relinks nothing: callers may do it only while
\* no pointer leads into the array.
Grow(cap) ==
  /\ cap > list.capacity
  /\ ~PointedInto(list) /\ detached = {}
  /\ list' = Enlarged(list, cap)
  /\ held' = [n \in 0 .. cap - 1 |-> 0]
  /\ UNCHANGED detached

\* The code does not empty the free list when it clears the list, so that
\* callers need to clear it only while no removed node waits there; and no
\* list that holds a node survives being cut by resize.
Next ==
  \/ \E k \in Keys, v \in Vals : PushFront(k, v) \/ CreateNode(k, v)
  \/ \E n \in Slots : PushNode(n) \/ RemoveNode(n) \/ MoveNode(n)
  \/ Pop
  \/ list.freeSize = 0 /\ Clear
  \/ \E cap \in Sizes : Grow(cap)

Spec == Init /\ [][Next]_vars

-----------------------------------------------------------------------------
(* Properties                                                              *)

Pointer == Slots \cup {HeadNode, TailNode, Nil}
TypeOK ==
  /\ list.node \in [0 .. list.capacity - 1 ->
                      [prev : Pointer, next : Pointer,
                       key : Keys \cup {Nothing}, value : Vals \cup {Nothing}]]
  /\ list.head.next \in Pointer /\ list.tail.prev \in Pointer
  /\ list.size \in 0 .. list.capacity
  /\ list.freeHead \in Slots \cup {Nil} /\ list.freeSize \in Nat
  /\ held \in [Slots -> Nat]
  /\ detached \subseteq Slots

\* Front to back the list is the reverse of back to front: every unlinking
\* and relinking mends both neighbours.
WalksAgree ==
  LET f == Forward(list)
      b == Backward(list)
  IN  /\ Len(f) = Len(b)
      /\ \A i \in DOMAIN f : f[i] = b[Len(b) + 1 - i]

\* Every node handed out is linked, free or created by a caller, and only one
\* of these; the free list counts its nodes.
NodesPartitioned ==
  LET free == FreePath(list)
      freeSet == {free[i] : i \in DOMAIN free}
  IN  /\ TypeOK
      /\ Len(free) = list.freeSize
      /\ Cardinality(freeSet) = list.freeSize
      /\ LinkedNodes(list) \cap freeSet = {}
      /\ detached \cap (LinkedNodes(list) \cup freeSet) = {}
      /\ LinkedNodes(list) \cup freeSet \cup detached = 0 .. list.size - 1

\* The list is a sequence of distinct nodes, and each call rearranges it as
\* its name says and touches no other node's key or value.
Items(L) ==
  LET f == Forward(L)
  IN  [i \in DOMAIN f |-> [id |-> f[i], key |-> L.node[f[i]].key,
                           value |-> L.node[f[i]].value]]
Abstract == INSTANCE ListSpec WITH Handles <- AllSlots, items <- Items(list)
ImplementsList == Abstract!Spec

\* No node is handed out twice: the neighbours that remove and move_to_front
\* assert are there for every handle a caller holds.
HandlesAreLinked ==
  \A n \in Slots :
    held[n] > 0 => list.node[n].prev # Nil /\ list.node[n].next # Nil
=============================================================================
