------------------------------ MODULE ListSpec ------------------------------
(***************************************************************************)
(* What a doubly linked list promises: a sequence of distinct nodes, each  *)
(* with a key and a value.  A node is named by the handle its push         *)
(* returned; the handle is good until the node is removed.                 *)
(***************************************************************************)
EXTENDS Integers, Sequences

CONSTANTS
  Handles,  \* the names a node may have
  Keys,
  Vals

VARIABLE items    \* the nodes from front to back: [id, key, value]

Item == [id : Handles, key : Keys, value : Vals]
Ids == {items[i].id : i \in DOMAIN items}
PlaceOf(id) == CHOOSE i \in DOMAIN items : items[i].id = id
ItemOf(id) == items[PlaceOf(id)]
Without(id) ==
  [i \in 1 .. Len(items) - 1 |->
     IF i < PlaceOf(id) THEN items[i] ELSE items[i + 1]]

TypeOK ==
  /\ items \in Seq(Item)
  /\ \A i, j \in DOMAIN items : items[i].id = items[j].id => i = j

Init == items = <<>>

\* A new node at the front or at the back, under a name no node has.
PushFront(x) == x.id \notin Ids /\ items' = <<x>> \o items
PushBack(x) == x.id \notin Ids /\ items' = Append(items, x)

Remove(id) == id \in Ids /\ items' = Without(id)

MoveToFront(id) == id \in Ids /\ items' = <<ItemOf(id)>> \o Without(id)
MoveToBack(id) == id \in Ids /\ items' = Append(Without(id), ItemOf(id))

Clear == items' = <<>>

Next ==
  \/ \E x \in Item : PushFront(x) \/ PushBack(x)
  \/ \E id \in Handles : Remove(id) \/ MoveToFront(id) \/ MoveToBack(id)
  \/ Clear

Spec == Init /\ [][Next]_items
=============================================================================
