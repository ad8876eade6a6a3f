----------------------------- MODULE ListNodes ------------------------------
(***************************************************************************)
(* The operations of LeetCode::ContinuousDoubleLinkedList                  *)
(* (test/http_parser_test/LRUCache/LinkedList.h): a doubly linked list     *)
(* whose nodes live in one array.  size_ is the number of nodes handed out *)
(* from the array; a removed node is pushed on a free list threaded        *)
(* through its `next` field.  Two nodes outside the array, head_ and       *)
(* tail_, close the list at both ends.                                     *)
(*                                                                         *)
(* The list is a record, and every operation is an operator on it, so that *)
(* LinkedList can state what callers of the list see and LRUCache can      *)
(* apply several operations in one call.  A pointer is an index of the     *)
(* array, HeadNode, TailNode or Nil.                                       *)
(***************************************************************************)
EXTENDS Integers, FiniteSets, Sequences, Pointers

CONSTANT Nothing   \* content of a node never handed out

HeadNode == -1
TailNode == -2
Nil == -3

Node(p, n, k, v) == [prev |-> p, next |-> n, key |-> k, value |-> v]
Raw == Node(Nil, Nil, Nothing, Nothing)

\* init: head_ and tail_ point at each other; the array is left as it is.
EmptyList(cap) ==
  [node |-> [p \in 0 .. cap - 1 |-> Raw],
   head |-> Node(Nil, TailNode, Nothing, Nothing),
   tail |-> Node(HeadNode, Nil, Nothing, Nothing),
   size |-> 0, capacity |-> cap, freeHead |-> Nil, freeSize |-> 0]

NodeAt(L, p) ==
  CASE p = HeadNode -> L.head [] p = TailNode -> L.tail [] OTHER -> L.node[p]

SetNext(L, p, q) ==
  CASE p = HeadNode -> [L EXCEPT !.head.next = q]
    [] p = TailNode -> [L EXCEPT !.tail.next = q]
    [] OTHER    -> [L EXCEPT !.node[p].next = q]

SetPrev(L, p, q) ==
  CASE p = HeadNode -> [L EXCEPT !.head.prev = q]
    [] p = TailNode -> [L EXCEPT !.tail.prev = q]
    [] OTHER    -> [L EXCEPT !.node[p].prev = q]

\* size()
SizeOf(L) == L.size - L.freeSize

-----------------------------------------------------------------------------
(* Linking and unlinking                                                   *)

\* (faulty) The node's own prev is forgotten.
HalfLinkBetween(L, n, p, q) ==
  LET own == [L EXCEPT !.node[n].next = q]
  IN  SetNext(SetPrev(own, q, n), p, n)

\* Node n between its new neighbours p and q.
LinkBetween(L, n, p, q) ==
  LET own == [L EXCEPT !.node[n].prev = p, !.node[n].next = q]
  IN  SetNext(SetPrev(own, q, n), p, n)

push_front_internal(L, n) == LinkBetween(L, n, HeadNode, L.head.next)
push_back_internal(L, n) == LinkBetween(L, n, L.tail.prev, TailNode)

\* Faulty variants of Unlink, which the properties must tell from the real
\* one: one neighbour is not mended.
HalfUnlinkNext(L, n) == SetNext(L, L.node[n].prev, L.node[n].next)
HalfUnlinkPrev(L, n) == SetPrev(L, L.node[n].next, L.node[n].prev)

Unlink(L, n) ==
  LET p == L.node[n].prev
      q == L.node[n].next
  IN  SetPrev(SetNext(L, p, q), q, p)

move_to_front(L, n) == push_front_internal(Unlink(L, n), n)
move_to_back(L, n) == push_back_internal(Unlink(L, n), n)

\* (faulty) The node is lost to the free list.
LeakyRemove(L, n) == Unlink(L, n)

\* remove, and remove_safe on a node that is linked.
remove(L, n) ==
  LET out == Unlink(L, n)
  IN  [out EXCEPT !.node[n].next = L.freeHead,
                  !.freeHead = n, !.freeSize = @ + 1]

\* create_new_node: the first free node, else the next one of the array.
NewNode(L) == IF L.freeSize = 0 THEN L.size ELSE L.freeHead

Created(L, k, v) ==
  LET n == NewNode(L)
      got == IF L.freeSize = 0
             THEN [L EXCEPT !.size = @ + 1]
             ELSE [L EXCEPT !.freeHead = L.node[n].next, !.freeSize = @ - 1]
  IN  [got EXCEPT !.node[n].key = k, !.node[n].value = v]

\* push_front_fast
PushedFront(L, k, v) == push_front_internal(Created(L, k, v), NewNode(L))

\* front and back: Nil when the list is empty.
front(L) == IF L.head.next = TailNode THEN Nil ELSE L.head.next
back(L) == IF L.tail.prev = HeadNode THEN Nil ELSE L.tail.prev

\* clear closes the list and hands the array out anew; the free list stays.
Cleared(L) ==
  [L EXCEPT !.size = 0, !.head = Node(Nil, TailNode, Nothing, Nothing),
            !.tail = Node(HeadNode, Nil, Nothing, Nothing)]

-----------------------------------------------------------------------------
(* Following the pointers                                                  *)

NextOf(L) ==
  [p \in DOMAIN L.node \cup {HeadNode, TailNode, Nil} |->
     IF p = Nil THEN Nil ELSE NodeAt(L, p).next]
PrevOf(L) ==
  [p \in DOMAIN L.node \cup {HeadNode, TailNode, Nil} |->
     IF p = Nil THEN Nil ELSE NodeAt(L, p).prev]

\* The nodes met from `first` on, by the pointers `hop`, up to the first of
\* `ends`; the walk is cut after capacity + 1 nodes, which only a circle needs.
PathAlong(L, hop, first, ends) ==
  LET at == Reached(hop, first)
      len == Least({n \in 0 .. L.capacity + 1 :
                      n = L.capacity + 1 \/ at[n] \in ends})
  IN  [i \in 1 .. len |-> at[i - 1]]

Forward(L) == PathAlong(L, NextOf(L), L.head.next, {TailNode, Nil})
Backward(L) == PathAlong(L, PrevOf(L), L.tail.prev, {HeadNode, Nil})
FreePath(L) == PathAlong(L, NextOf(L), L.freeHead, {Nil})

LinkedNodes(L) == {Forward(L)[i] : i \in DOMAIN Forward(L)}

-----------------------------------------------------------------------------
(* resize                                                                  *)

\* Growing copies the first size_ nodes to a new array and frees the old one.
\* Nothing is relinked: whatever pointed into the old array still does.
Enlarged(L, cap) ==
  [L EXCEPT !.node = [p \in 0 .. cap - 1 |-> IF p < L.size THEN @[p] ELSE Raw],
            !.capacity = cap]

PointedInto(L) ==
  \/ L.head.next # TailNode
  \/ L.freeHead # Nil
=============================================================================
