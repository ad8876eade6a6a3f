-------------------------- MODULE LinkedListProofs --------------------------
(***************************************************************************)
(* The linked list is what its callers take it for, whatever the keys, the *)
(* values, the capacity and the sizes it is resized to.  The inductive     *)
(* invariant names the two threads that run through the array, the list    *)
(* and the free list; PointersProofs says what each operation does to      *)
(* them.                                                                   *)
(***************************************************************************)
EXTENDS LinkedList, PointersProofs

\* The list is whole, its loose nodes are those that callers created, and a
\* caller's handle is one handle of a linked node.
Good(n, e, m, f) ==
  /\ list.capacity \in Sizes \cup {ListCapacity}
  /\ Whole(list, list.capacity, Keys, Vals, n, e, m, f, detached)
  /\ held \in [ArrayOf(list.capacity) -> {0, 1}]
  /\ \A x \in ArrayOf(list.capacity) : held[x] = 1 => x \in NodesOf(e, n)

IInv == \E n, e, m, f : Good(n, e, m, f)

-----------------------------------------------------------------------------
(* The invariant and the invariants that the runs check                    *)

LEMMA GoodCapacity ==
  ASSUME ListAssumption, NEW n, NEW e, NEW m, NEW f, Good(n, e, m, f)
  PROVE  /\ list.capacity \in Nat
         /\ list \in ListType(list.capacity, Keys \cup {Nothing}, Vals \cup {Nothing})
         /\ Slots = ArrayOf(list.capacity)
         /\ ArrayOf(list.capacity) \subseteq AllSlots
<1>1. list.capacity \in Nat
  BY DEF ListAssumption, Good
<1>2. list \in ListType(list.capacity, Keys \cup {Nothing}, Vals \cup {Nothing})
  BY DEF Good, Whole
<1>3. Slots = ArrayOf(list.capacity)
  <2> DEFINE K0 == Keys \cup {Nothing}
             V0 == Vals \cup {Nothing}
  <2>1. list \in ListType(list.capacity, K0, V0)
    BY <1>2
  <2> HIDE DEF K0, V0
  <2> QED BY <1>1, <2>1, NextPrevTyped DEF Slots
<1>4. ArrayOf(list.capacity) \subseteq AllSlots
  BY DEF Good, AllSlots, ArrayOf
<1> QED BY <1>1, <1>2, <1>3, <1>4

LEMMA GoodTypeOK ==
  ASSUME ListAssumption, IInv
  PROVE  TypeOK
<1>1. PICK n, e, m, f : Good(n, e, m, f)
  BY DEF IInv
<1> DEFINE cap == list.capacity
           K0 == Keys \cup {Nothing}
           V0 == Vals \cup {Nothing}
<1>2. cap \in Nat /\ list \in ListType(cap, K0, V0) /\ Slots = ArrayOf(cap)
  BY <1>1, GoodCapacity
<1>3. list.size \in 0 .. cap /\ detached \subseteq ArrayOf(cap)
  BY <1>1, <1>2, WholeTypes DEF Good
<1>4. held \in [ArrayOf(cap) -> Nat]
  BY <1>1 DEF Good
<1>5. Pointer = PointersOf(cap)
  BY <1>2 DEF Pointer, PointersOf
<1>6. /\ list.node \in [ArrayOf(cap) -> NodeType(cap, K0, V0)]
      /\ list.head \in NodeType(cap, K0, V0) /\ list.tail \in NodeType(cap, K0, V0)
      /\ list.freeHead \in ArrayOf(cap) \cup {Nil} /\ list.freeSize \in Nat
  <2> HIDE DEF K0, V0, cap
  <2> QED BY <1>2 DEF ListType
<1>7. list.head.next \in Pointer /\ list.tail.prev \in Pointer
  BY <1>5, <1>6 DEF NodeType
<1>8. list.node \in [0 .. cap - 1 -> [prev : Pointer, next : Pointer,
                                      key : K0, value : V0]]
  BY <1>5, <1>6 DEF NodeType, ArrayOf
<1> QED BY <1>2, <1>3, <1>4, <1>6, <1>7, <1>8 DEF TypeOK

LEMMA GoodWalksAgree ==
  ASSUME ListAssumption, IInv
  PROVE  WalksAgree
<1>1. PICK n, e, m, f : Good(n, e, m, f)
  BY DEF IInv
<1> DEFINE cap == list.capacity
           K0 == Keys \cup {Nothing}
           V0 == Vals \cup {Nothing}
<1>2. cap \in Nat /\ list \in ListType(cap, K0, V0) /\ Thread(list, cap, n, e)
  BY <1>1, GoodCapacity DEF Good, Whole
<1>3. /\ n \in Nat
      /\ Forward(list) = [i \in 1 .. n |-> e[i]] /\ Len(Forward(list)) = n
      /\ Backward(list) = [i \in 1 .. n |-> e[n + 1 - i]]
      /\ Len(Backward(list)) = n
  <2> HIDE DEF K0, V0, cap
  <2> QED BY <1>2, ForwardIs, BackwardIs
<1>4. \A i \in 1 .. n : Forward(list)[i] = Backward(list)[n + 1 - i]
  <2> SUFFICES ASSUME NEW i \in 1 .. n
               PROVE  Forward(list)[i] = Backward(list)[n + 1 - i]
    OBVIOUS
  <2>1. n + 1 - i \in 1 .. n /\ n + 1 - (n + 1 - i) = i
    BY <1>3
  <2> QED BY <2>1, <1>3
<1> QED BY <1>3, <1>4 DEF WalksAgree

LEMMA GoodNodesPartitioned ==
  ASSUME ListAssumption, IInv
  PROVE  NodesPartitioned
<1>1. PICK n, e, m, f : Good(n, e, m, f)
  BY DEF IInv
<1> DEFINE cap == list.capacity
           K0 == Keys \cup {Nothing}
           V0 == Vals \cup {Nothing}
           free == FreePath(list)
           freeSet == {free[i] : i \in DOMAIN free}
<1>2. /\ cap \in Nat /\ list \in ListType(cap, K0, V0)
      /\ Thread(list, cap, n, e) /\ FreeThread(list, cap, m, f)
      /\ list.freeSize = m
      /\ Separate(list.size, NodesOf(e, n), NodesOf(f, m), detached)
  BY <1>1, GoodCapacity DEF Good, Whole
<1>3. /\ LinkedNodes(list) = NodesOf(e, n)
      /\ free = [i \in 1 .. m |-> f[i]] /\ Len(free) = m /\ DOMAIN free = 1 .. m
  <2>1. cap \in Nat /\ list \in ListType(cap, K0, V0)
        /\ Thread(list, cap, n, e) /\ FreeThread(list, cap, m, f)
    BY <1>2
  <2> HIDE DEF K0, V0, cap
  <2>2. LinkedNodes(list) = {e[i] : i \in 1 .. n}
    BY <2>1, ForwardIs
  <2>3. free = [i \in 1 .. m |-> f[i]] /\ Len(free) = m /\ DOMAIN free = 1 .. m
    BY <2>1, FreePathIs
  <2> QED BY <2>2, <2>3 DEF NodesOf
<1>4. freeSet = NodesOf(f, m)
  BY <1>3 DEF NodesOf
<1>5. Cardinality(freeSet) = m
  <2>1. m \in Nat /\ \A i, j \in 1 .. m : f[i] = f[j] => i = j
    BY <1>2 DEF FreeThread
  <2> DEFINE g == [i \in 1 .. m |-> f[i]]
  <2>2. g \in Bijection(1 .. m, NodesOf(f, m))
    <3>1. g \in [1 .. m -> NodesOf(f, m)]
      BY DEF NodesOf
    <3>2. \A a, b \in 1 .. m : g[a] = g[b] => a = b
      BY <2>1
    <3>3. \A y \in NodesOf(f, m) : \E a \in 1 .. m : g[a] = y
      BY DEF NodesOf
    <3> HIDE DEF g
    <3>4. g \in Injection(1 .. m, NodesOf(f, m))
      BY <3>1, <3>2 DEF Injection, IsInjective
    <3>5. g \in Surjection(1 .. m, NodesOf(f, m))
      BY <3>1, <3>3 DEF Surjection
    <3> QED BY <3>4, <3>5 DEF Bijection
  <2> HIDE DEF g
  <2>3. IsFiniteSet(1 .. m) /\ Cardinality(1 .. m) = m
    BY <2>1, FS_Interval
  <2>4. Cardinality(NodesOf(f, m)) = Cardinality(1 .. m)
    <3>1. ExistsBijection(1 .. m, NodesOf(f, m))
      BY <2>2 DEF ExistsBijection
    <3> QED BY <3>1, <2>3, FS_Bijection
  <2> QED BY <1>4, <2>3, <2>4
<1>6. /\ LinkedNodes(list) \cap freeSet = {}
      /\ detached \cap (LinkedNodes(list) \cup freeSet) = {}
      /\ LinkedNodes(list) \cup freeSet \cup detached = 0 .. list.size - 1
  BY <1>2, <1>3, <1>4 DEF Separate
<1>7. TypeOK
  BY GoodTypeOK
<1> QED BY <1>2, <1>3, <1>5, <1>6, <1>7 DEF NodesPartitioned

LEMMA GoodHandlesAreLinked ==
  ASSUME ListAssumption, IInv
  PROVE  HandlesAreLinked
<1>1. PICK n, e, m, f : Good(n, e, m, f)
  BY DEF IInv
<1>2. list.capacity \in Nat /\ Slots = ArrayOf(list.capacity)
  BY <1>1, GoodCapacity
<1>3. \A p \in 1 .. n : list.node[e[p]].next # Nil /\ list.node[e[p]].prev # Nil
  BY <1>1, <1>2, WholeEnds DEF Good
<1>4. ASSUME NEW x \in Slots, held[x] > 0
      PROVE  x \in NodesOf(e, n)
  <2>1. held[x] \in {0, 1}
    BY <1>1, <1>2 DEF Good
  <2> QED BY <2>1, <1>1, <1>2, <1>4 DEF Good
<1> QED BY <1>3, <1>4 DEF HandlesAreLinked, NodesOf

-----------------------------------------------------------------------------
(* The items of the list, as ListSpec sees them                            *)

\* What ListSpec says of each node.
Described(L) ==
  [y \in DOMAIN L.node |->
     [id |-> y, key |-> L.node[y].key, value |-> L.node[y].value]]

LEMMA DescribedType ==
  ASSUME NEW cap \in Nat, NEW K, NEW V, NEW L \in ListType(cap, K, V)
  PROVE  /\ Described(L) \in [ArrayOf(cap) ->
                                [id : ArrayOf(cap), key : K, value : V]]
         /\ \A y \in ArrayOf(cap) :
              Described(L)[y] = [id |-> y, key |-> L.node[y].key,
                                 value |-> L.node[y].value]
BY DEF Described, ListType, NodeType

LEMMA DescribedSame ==
  ASSUME NEW cap \in Nat, NEW K, NEW V, NEW L \in ListType(cap, K, V),
         NEW U \in ListType(cap, K, V),
         \A y \in ArrayOf(cap) : /\ U.node[y].key = L.node[y].key
                                 /\ U.node[y].value = L.node[y].value
  PROVE  Described(U) = Described(L)
<1>1. DOMAIN U.node = ArrayOf(cap) /\ DOMAIN L.node = ArrayOf(cap)
  BY DEF ListType
<1> QED BY <1>1 DEF Described

LEMMA ItemsAre ==
  ASSUME NEW cap \in Nat, NEW L, NEW n, NEW e, NEW m, NEW f, NEW loose,
         Whole(L, cap, Keys, Vals, n, e, m, f, loose)
  PROVE  /\ Items(L) = Along(Described(L), e, n)
         /\ DOMAIN Items(L) = 1 .. n
         /\ \A i \in 1 .. n :
              Items(L)[i] = [id |-> e[i], key |-> L.node[e[i]].key,
                             value |-> L.node[e[i]].value]
<1> DEFINE K0 == Keys \cup {Nothing}
           V0 == Vals \cup {Nothing}
<1>1. L \in ListType(cap, K0, V0) /\ Thread(L, cap, n, e)
  BY DEF Whole
<1>2. Forward(L) = [i \in 1 .. n |-> e[i]]
  <2> HIDE DEF K0, V0
  <2> QED BY <1>1, ForwardIs
<1>3. \A i \in 1 .. n : e[i] \in ArrayOf(cap) /\ DOMAIN L.node = ArrayOf(cap)
  BY <1>1 DEF Thread, ListType
<1>4. Items(L) = [i \in 1 .. n |-> [id |-> e[i], key |-> L.node[e[i]].key,
                                    value |-> L.node[e[i]].value]]
  BY <1>2 DEF Items
<1>5. \A i \in 1 .. n : Described(L)[e[i]]
                          = [id |-> e[i], key |-> L.node[e[i]].key,
                             value |-> L.node[e[i]].value]
  BY <1>3 DEF Described
<1>6. Items(L) = Along(Described(L), e, n)
  BY <1>4, <1>5 DEF Along
<1> QED BY <1>4, <1>6

\* The nodes of a thread under their names, and the list without one of them.
LEMMA AbstractIs ==
  ASSUME ListAssumption, NEW n, NEW e, NEW m, NEW f, Good(n, e, m, f)
  PROVE  /\ \A y : y \in Abstract!Ids <=> y \in NodesOf(e, n)
         /\ \A p \in 1 .. n :
              /\ Abstract!ItemOf(e[p]) = Described(list)[e[p]]
              /\ Abstract!Without(e[p])
                   = Along(Described(list), Dropped(e, n, p), n - 1)
<1> DEFINE cap == list.capacity
           items == Items(list)
           c == Described(list)
<1>1. cap \in Nat /\ Whole(list, cap, Keys, Vals, n, e, m, f, detached)
  BY GoodCapacity DEF Good
<1>2. /\ items = Along(c, e, n) /\ DOMAIN items = 1 .. n
      /\ \A i \in 1 .. n : items[i] = [id |-> e[i], key |-> list.node[e[i]].key,
                                       value |-> list.node[e[i]].value]
  <2> HIDE DEF cap
  <2> QED BY <1>1, ItemsAre
<1>3. /\ n \in Nat /\ \A i, j \in 1 .. n : e[i] = e[j] => i = j
      /\ \A i \in 1 .. n : e[i] \in ArrayOf(cap)
  BY <1>1 DEF Whole, Thread
<1>4. \A i \in 1 .. n : items[i].id = e[i]
  BY <1>2
<1>5. \A y : y \in Abstract!Ids <=> y \in NodesOf(e, n)
  BY <1>2, <1>4 DEF Abstract!Ids, NodesOf
<1>6. ASSUME NEW p \in 1 .. n
      PROVE  Abstract!PlaceOf(e[p]) = p
  <2> HIDE DEF items
  <2>1. \A i \in DOMAIN items : items[i].id = e[p] <=> i = p
    BY <1>2, <1>3, <1>4
  <2>2. p \in DOMAIN items
    BY <1>2
  <2> QED BY <2>1, <2>2 DEF Abstract!PlaceOf, items
<1>7. Len(items) = n
  <2> HIDE DEF c, items
  <2>1. Along(c, e, n) \in [1 .. n -> {c[e[i]] : i \in 1 .. n}]
    BY DEF Along
  <2>2. Len(Along(c, e, n)) = n
    BY <2>1, <1>3, IsSequence
  <2> QED BY <2>2, <1>2
<1>8. ASSUME NEW p \in 1 .. n
      PROVE  /\ Abstract!ItemOf(e[p]) = c[e[p]]
             /\ Abstract!Without(e[p]) = Along(c, Dropped(e, n, p), n - 1)
  <2>1. Abstract!PlaceOf(e[p]) = p
    BY <1>6
  <2>2. Abstract!ItemOf(e[p]) = items[p]
    BY <2>1 DEF Abstract!ItemOf
  <2>3. items[p] = c[e[p]]
    BY <1>2 DEF Along
  <2>4. Abstract!Without(e[p])
          = [i \in 1 .. n - 1 |-> IF i < p THEN items[i] ELSE items[i + 1]]
    BY <2>1, <1>7 DEF Abstract!Without
  <2>5. Along(c, Dropped(e, n, p), n - 1)
          = [i \in 1 .. n - 1 |-> IF i < p THEN Along(c, e, n)[i]
                                  ELSE Along(c, e, n)[i + 1]]
    BY <1>3, AlongDropped
  <2> HIDE DEF c, items
  <2> QED BY <2>2, <2>3, <2>4, <2>5, <1>2
<1> QED BY <1>5, <1>8

\* What a step has to show for the invariant to hold after it.
LEMMA GoodAfter ==
  ASSUME NEW cap \in Sizes \cup {ListCapacity}, NEW n, NEW e, NEW m, NEW f,
         Whole(list', cap, Keys, Vals, n, e, m, f, detached'),
         held' \in [ArrayOf(cap) -> {0, 1}],
         \A x \in ArrayOf(cap) : held'[x] = 1 => x \in NodesOf(e, n)
  PROVE  Good(n, e, m, f)' /\ IInv'
<1>1. list'.capacity = cap
  BY DEF Whole, ListType
<1> QED BY <1>1 DEF Good, IInv

\* A list whose newest node is at the front, or at the back.
LEMMA ItemsWithFront ==
  ASSUME NEW cap \in Nat, NEW U, NEW n \in Nat, NEW e, NEW m, NEW f, NEW loose,
         NEW x, Whole(U, cap, Keys, Vals, n + 1, Spliced(e, n, 0, x), m, f, loose)
  PROVE  Items(U) = <<Described(U)[x]>> \o Along(Described(U), e, n)
<1> DEFINE c == Described(U)
           d == Spliced(e, n, 0, x)
<1>1. Items(U) = Along(c, d, n + 1)
  <2> DEFINE l == n + 1
  <2>1. Whole(U, cap, Keys, Vals, l, d, m, f, loose)
    OBVIOUS
  <2> HIDE DEF l, d
  <2>2. Items(U) = Along(Described(U), d, l)
    BY <2>1, ItemsAre
  <2> QED BY <2>2 DEF l
<1> HIDE DEF c
<1>2. Along(c, Spliced(e, n, 0, x), n + 1) = <<c[x]>> \o Along(c, e, n)
  BY AlongFront
<1> QED BY <1>1, <1>2 DEF c

LEMMA ItemsWithBack ==
  ASSUME NEW cap \in Nat, NEW U, NEW n \in Nat, NEW e, NEW m, NEW f, NEW loose,
         NEW x, Whole(U, cap, Keys, Vals, n + 1, Spliced(e, n, n, x), m, f, loose)
  PROVE  Items(U) = Append(Along(Described(U), e, n), Described(U)[x])
<1> DEFINE c == Described(U)
           d == Spliced(e, n, n, x)
<1>1. Items(U) = Along(c, d, n + 1)
  <2> DEFINE l == n + 1
  <2>1. Whole(U, cap, Keys, Vals, l, d, m, f, loose)
    OBVIOUS
  <2> HIDE DEF l, d
  <2>2. Items(U) = Along(Described(U), d, l)
    BY <2>1, ItemsAre
  <2> QED BY <2>2 DEF l
<1> HIDE DEF c
<1>2. Along(c, Spliced(e, n, n, x), n + 1) = Append(Along(c, e, n), c[x])
  BY AlongBack
<1> QED BY <1>1, <1>2 DEF c

-----------------------------------------------------------------------------
(* The steps                                                               *)

LEMMA StepPushFront ==
  ASSUME ListAssumption, IInv, NEW k \in Keys, NEW v \in Vals, PushFront(k, v)
  PROVE  IInv' /\ Abstract!Next
<1>1. PICK n, e, m, f : Good(n, e, m, f)
  BY DEF IInv
<1> DEFINE cap == list.capacity
           x == NewNode(list)
           C == Created(list, k, v)
           new == [id |-> x, key |-> k, value |-> v]
           b == Described(list')
<1>2. /\ cap \in Nat /\ cap \in Sizes \cup {ListCapacity}
      /\ Whole(list, cap, Keys, Vals, n, e, m, f, detached)
      /\ ArrayOf(cap) \subseteq AllSlots
  BY <1>1, GoodCapacity DEF Good
<1>3. /\ list.size < cap /\ list' = push_front_internal(C, x)
      /\ held' = [held EXCEPT ![x] = @ + 1] /\ detached' = detached
  BY DEF PushFront, PushedFront
<1>4. /\ \E i, g : Whole(C, cap, Keys, Vals, n, e, i, g, detached \cup {x})
      /\ x \notin NodesOf(e, n) /\ x \notin detached /\ x \in ArrayOf(cap)
      /\ NewData(C, list, cap, x, k, v)
  <2> HIDE DEF cap, x, C
  <2>1. x = NewNode(list) /\ C = Created(list, k, v)
    BY DEF x, C
  <2> QED BY <2>1, <1>2, <1>3, WholeCreated
<1>5. PICK i, g : Whole(C, cap, Keys, Vals, n, e, i, g, detached \cup {x})
  BY <1>4
<1> HIDE DEF cap, x, C
<1>6. /\ n \in Nat /\ 0 \in 0 .. n
      /\ \A p \in 1 .. n : e[p] \in ArrayOf(cap)
  BY <1>2 DEF Whole, Thread
<1>7. list' = LinkBetween(C, x, e[0], e[0 + 1])
  BY <1>2, <1>3, <1>5, WholeEnds
<1>8. /\ Whole(list', cap, Keys, Vals, n + 1, Spliced(e, n, 0, x), i, g,
               (detached \cup {x}) \ {x})
      /\ SameButLinks(list', C)
  <2>1. x \in detached \cup {x}
    OBVIOUS
  <2> DEFINE loose == detached \cup {x}
  <2>2. Whole(C, cap, Keys, Vals, n, e, i, g, loose) /\ x \in loose
    BY <1>5
  <2> HIDE DEF loose
  <2>3. /\ Whole(list', cap, Keys, Vals, n + 1, Spliced(e, n, 0, x), i, g,
                 loose \ {x})
        /\ SameButLinks(list', C)
    BY <2>2, <1>2, <1>6, <1>7, WholeLinked
  <2> QED BY <2>3 DEF loose
<1>9. (detached \cup {x}) \ {x} = detached'
  BY <1>3, <1>4
<1>10. Whole(list', cap, Keys, Vals, n + 1, Spliced(e, n, 0, x), i, g, detached')
  BY <1>8, <1>9
<1>11. \A y : y \in NodesOf(Spliced(e, n, 0, x), n + 1)
                <=> y = x \/ y \in NodesOf(e, n)
  BY <1>6, SplicedNodes
<1>12. /\ held' \in [ArrayOf(cap) -> {0, 1}]
       /\ \A y \in ArrayOf(cap) :
            held'[y] = 1 => y \in NodesOf(Spliced(e, n, 0, x), n + 1)
  <2>1. /\ held \in [ArrayOf(cap) -> {0, 1}]
        /\ \A y \in ArrayOf(cap) : held[y] = 1 => y \in NodesOf(e, n)
    BY <1>1 DEF Good, cap
  <2>2. held[x] = 0
    BY <2>1, <1>4
  <2>3. held' = [held EXCEPT ![x] = 1]
    BY <2>2, <1>3
  <2> QED BY <2>1, <2>3, <1>4, <1>11
<1>13. IInv'
  <2> DEFINE l == n + 1
             d == Spliced(e, n, 0, x)
  <2>1. /\ Whole(list', cap, Keys, Vals, l, d, i, g, detached')
        /\ \A y \in ArrayOf(cap) : held'[y] = 1 => y \in NodesOf(d, l)
    BY <1>10, <1>12
  <2> HIDE DEF l, d
  <2> QED BY <2>1, <1>2, <1>12, GoodAfter
<1>14. Items(list') = <<b[x]>> \o Along(b, e, n)
  BY <1>2, <1>4, <1>6, <1>10, ItemsWithFront
<1>15. /\ b[x] = new
       /\ \A y \in NodesOf(e, n) : b[y] = Described(list)[y]
  <2>1. /\ DOMAIN C.node = ArrayOf(cap) /\ DOMAIN list'.node = ArrayOf(cap)
        /\ DOMAIN list.node = ArrayOf(cap)
    BY <1>2, <1>5, <1>10 DEF Whole, ListType
  <2>2. \A y \in ArrayOf(cap) :
          /\ list'.node[y].key = IF y = x THEN k ELSE list.node[y].key
          /\ list'.node[y].value = IF y = x THEN v ELSE list.node[y].value
    BY <2>1, <1>4, <1>8 DEF SameButLinks, NewData
  <2>3. \A y \in NodesOf(e, n) : y \in ArrayOf(cap) /\ y # x
    BY <1>4, <1>6 DEF NodesOf
  <2> QED BY <2>1, <2>2, <2>3, <1>4 DEF Described
<1>16. Along(b, e, n) = Items(list)
  <2>1. Along(b, e, n) = Along(Described(list), e, n)
    BY <1>6, <1>15, AlongSame
  <2> QED BY <2>1, <1>2, ItemsAre
<1>17. new \in Abstract!Item /\ new.id \notin Abstract!Ids
  <2>1. x \notin Abstract!Ids
    BY <1>1, <1>4, AbstractIs
  <2> QED BY <2>1, <1>2, <1>4 DEF Abstract!Item
<1>18. Abstract!PushFront(new)
  BY <1>14, <1>15, <1>16, <1>17 DEF Abstract!PushFront
<1> QED BY <1>13, <1>17, <1>18 DEF Abstract!Next

LEMMA StepCreateNode ==
  ASSUME ListAssumption, IInv, NEW k \in Keys, NEW v \in Vals, CreateNode(k, v)
  PROVE  IInv' /\ Items(list') = Items(list)
<1>1. PICK n, e, m, f : Good(n, e, m, f)
  BY DEF IInv
<1> DEFINE cap == list.capacity
           x == NewNode(list)
           b == Described(list')
<1>2. /\ cap \in Nat /\ cap \in Sizes \cup {ListCapacity}
      /\ Whole(list, cap, Keys, Vals, n, e, m, f, detached)
      /\ held \in [ArrayOf(cap) -> {0, 1}]
      /\ \A y \in ArrayOf(cap) : held[y] = 1 => y \in NodesOf(e, n)
  BY <1>1, GoodCapacity DEF Good
<1>3. /\ list.size < cap /\ list' = Created(list, k, v)
      /\ detached' = detached \cup {x} /\ held' = held
  BY DEF CreateNode
<1>4. /\ \E i, g : Whole(list', cap, Keys, Vals, n, e, i, g, detached \cup {x})
      /\ x \notin NodesOf(e, n) /\ x \notin detached /\ x \in ArrayOf(cap)
      /\ NewData(list', list, cap, x, k, v)
  <2> DEFINE C == Created(list, k, v)
  <2> HIDE DEF cap, x, C
  <2>1. x = NewNode(list) /\ C = Created(list, k, v)
    BY DEF x, C
  <2>2. /\ \E i, g : Whole(C, cap, Keys, Vals, n, e, i, g, detached \cup {x})
        /\ x \notin NodesOf(e, n) /\ x \notin detached /\ x \in ArrayOf(cap)
        /\ NewData(C, list, cap, x, k, v)
    <3>1. /\ cap \in Nat /\ Whole(list, cap, Keys, Vals, n, e, m, f, detached)
          /\ list.size < cap
      BY <1>2, <1>3
    <3> QED BY <3>1, <2>1, WholeCreated
  <2>3. list' = C
    BY <1>3 DEF C
  <2> QED BY <2>2, <2>3
<1>5. PICK i, g : Whole(list', cap, Keys, Vals, n, e, i, g, detached \cup {x})
  BY <1>4
<1> HIDE DEF cap, x
<1>6. Whole(list', cap, Keys, Vals, n, e, i, g, detached')
  BY <1>3, <1>5
<1>7. held' \in [ArrayOf(cap) -> {0, 1}]
      /\ \A y \in ArrayOf(cap) : held'[y] = 1 => y \in NodesOf(e, n)
  BY <1>2, <1>3
<1>8. IInv'
  BY <1>2, <1>6, <1>7, GoodAfter
<1>9. \A y \in NodesOf(e, n) : b[y] = Described(list)[y]
  <2>1. DOMAIN list'.node = ArrayOf(cap) /\ DOMAIN list.node = ArrayOf(cap)
    BY <1>2, <1>6 DEF Whole, ListType
  <2>2. \A y \in NodesOf(e, n) : y \in ArrayOf(cap) /\ y # x
    BY <1>2, <1>4 DEF NodesOf, Whole, Thread
  <2> QED BY <2>1, <2>2, <1>4 DEF Described, NewData
<1>10. Items(list') = Items(list)
  <2>1. n \in Nat
    BY <1>2 DEF Whole, Thread
  <2> HIDE DEF b
  <2>2. Along(b, e, n) = Along(Described(list), e, n)
    BY <2>1, <1>9, AlongSame
  <2>3. Items(list) = Along(Described(list), e, n)
    BY <1>2, ItemsAre
  <2>4. Items(list') = Along(b, e, n)
    BY <1>2, <1>6, ItemsAre DEF b
  <2> QED BY <2>2, <2>3, <2>4
<1> QED BY <1>8, <1>10

\* A node that a caller created goes to one end of the list.
LEMMA StepPushNode ==
  ASSUME ListAssumption, IInv, NEW x, PushNode(x)
  PROVE  IInv' /\ Abstract!Next
<1>1. PICK n, e, m, f : Good(n, e, m, f)
  BY DEF IInv
<1> DEFINE cap == list.capacity
           b == Described(list')
           K0 == Keys \cup {Nothing}
           V0 == Vals \cup {Nothing}
           d(p) == Spliced(e, n, p, x)
<1>2. /\ cap \in Nat /\ cap \in Sizes \cup {ListCapacity}
      /\ Whole(list, cap, Keys, Vals, n, e, m, f, detached)
      /\ held \in [ArrayOf(cap) -> {0, 1}]
      /\ \A y \in ArrayOf(cap) : held[y] = 1 => y \in NodesOf(e, n)
      /\ ArrayOf(cap) \subseteq AllSlots
  BY <1>1, GoodCapacity DEF Good
<1>3. /\ x \in detached /\ held' = [held EXCEPT ![x] = @ + 1]
      /\ detached' = detached \ {x}
      /\ \/ list' = push_front_internal(list, x)
         \/ list' = push_back_internal(list, x)
  BY DEF PushNode
<1> HIDE DEF cap
<1>4. /\ n \in Nat /\ x \in ArrayOf(cap) /\ x \notin NodesOf(e, n)
      /\ x \in 0 .. list.size - 1
  <2>1. n \in Nat /\ detached \subseteq ArrayOf(cap)
    BY <1>2, WholeTypes
  <2> QED BY <2>1, <1>2, <1>3 DEF Whole, Separate
<1>5. PICK p \in {0, n} : list' = LinkBetween(list, x, e[p], e[p + 1])
                          /\ (p = 0 => list' = push_front_internal(list, x))
                          /\ (p # 0 => list' = push_back_internal(list, x))
  <2>1. /\ push_front_internal(list, x) = LinkBetween(list, x, e[0], e[0 + 1])
        /\ push_back_internal(list, x) = LinkBetween(list, x, e[n], e[n + 1])
    BY <1>2, WholeEnds
  <2> QED BY <2>1, <1>3
<1>6. p \in 0 .. n
  BY <1>4, <1>5
<1>7. /\ Whole(list', cap, Keys, Vals, n + 1, d(p), m, f, detached')
      /\ SameButLinks(list', list)
  <2>1. /\ Whole(list', cap, Keys, Vals, n + 1, d(p), m, f, detached \ {x})
        /\ SameButLinks(list', list)
    BY <1>2, <1>3, <1>5, <1>6, WholeLinked
  <2> QED BY <2>1, <1>3
<1>8. \A y : y \in NodesOf(d(p), n + 1) <=> y = x \/ y \in NodesOf(e, n)
  BY <1>4, <1>6, SplicedNodes
<1>9. held' \in [ArrayOf(cap) -> {0, 1}]
      /\ \A y \in ArrayOf(cap) : held'[y] = 1 => y \in NodesOf(d(p), n + 1)
  <2>1. held[x] = 0
    BY <1>2, <1>4
  <2>2. held' = [held EXCEPT ![x] = 1]
    BY <2>1, <1>3
  <2> HIDE DEF d
  <2> QED BY <2>2, <1>2, <1>4, <1>8
<1>10. IInv'
  <2> DEFINE l == n + 1
             t == d(p)
  <2>1. /\ Whole(list', cap, Keys, Vals, l, t, m, f, detached')
        /\ \A y \in ArrayOf(cap) : held'[y] = 1 => y \in NodesOf(t, l)
    BY <1>7, <1>9
  <2> HIDE DEF l, t
  <2> QED BY <2>1, <1>2, <1>9, GoodAfter
<1>11. b = Described(list)
  <2>1. DOMAIN list'.node = ArrayOf(cap) /\ DOMAIN list.node = ArrayOf(cap)
    BY <1>2, <1>7 DEF Whole, ListType
  <2> QED BY <2>1, <1>7 DEF Described, SameButLinks
<1>12. Items(list) = Along(b, e, n)
  <2>1. Items(list) = Along(Described(list), e, n)
    BY <1>2, ItemsAre
  <2> HIDE DEF b
  <2> QED BY <2>1, <1>11
<1>13. b[x] \in Abstract!Item /\ b[x].id \notin Abstract!Ids
  <2>1. x \notin Abstract!Ids
    BY <1>1, <1>4, AbstractIs
  <2>2. DOMAIN list.node = ArrayOf(cap)
    BY <1>2 DEF Whole, ListType
  <2>3. b[x] = [id |-> x, key |-> list.node[x].key, value |-> list.node[x].value]
    BY <2>2, <1>4, <1>11 DEF Described
  <2>4. list.node[x].key \in Keys /\ list.node[x].value \in Vals
    BY <1>2, <1>4 DEF Whole
  <2> QED BY <2>1, <2>3, <2>4, <1>2, <1>4 DEF Abstract!Item
<1>14. Abstract!PushFront(b[x]) \/ Abstract!PushBack(b[x])
  <2>1. CASE p = 0
    <3>1. Whole(list', cap, Keys, Vals, n + 1, Spliced(e, n, 0, x), m, f, detached')
      BY <2>1, <1>7
    <3>2. Items(list') = <<b[x]>> \o Along(b, e, n)
      BY <3>1, <1>2, <1>4, ItemsWithFront
    <3> QED BY <3>2, <1>12, <1>13 DEF Abstract!PushFront
  <2>2. CASE p = n
    <3>1. Whole(list', cap, Keys, Vals, n + 1, Spliced(e, n, n, x), m, f, detached')
      BY <2>2, <1>7
    <3>2. Items(list') = Append(Along(b, e, n), b[x])
      BY <3>1, <1>2, <1>4, ItemsWithBack
    <3> QED BY <3>2, <1>12, <1>13 DEF Abstract!PushBack
  <2> QED BY <2>1, <2>2, <1>5
<1> QED BY <1>10, <1>13, <1>14 DEF Abstract!Next

\* The p-th node is removed; no handle of it is left.
LEMMA RemoveAt ==
  ASSUME ListAssumption, NEW n, NEW e, NEW m, NEW f, Good(n, e, m, f),
         NEW p \in 1 .. n, list' = remove(list, e[p]), detached' = detached,
         held' \in [ArrayOf(list.capacity) -> {0, 1}],
         \A y \in ArrayOf(list.capacity) :
           held'[y] = 1 => y # e[p] /\ y \in NodesOf(e, n)
  PROVE  IInv' /\ Abstract!Next
<1> DEFINE cap == list.capacity
           x == e[p]
           U == Unlink(list, x)
           d == Dropped(e, n, p)
           b == Described(list')
<1>1. /\ cap \in Nat /\ cap \in Sizes \cup {ListCapacity}
      /\ Whole(list, cap, Keys, Vals, n, e, m, f, detached)
      /\ ArrayOf(cap) \subseteq AllSlots
  BY GoodCapacity DEF Good
<1> HIDE DEF cap, U
<1>2. /\ n \in Nat /\ \A i, j \in 1 .. n : e[i] = e[j] => i = j
      /\ \A i \in 1 .. n : e[i] \in ArrayOf(cap)
  BY <1>1 DEF Whole, Thread
<1>3. /\ Whole(U, cap, Keys, Vals, n - 1, d, m, f, detached \cup {x})
      /\ SameButLinks(U, list)
  BY <1>1, WholeUnlinked DEF U
<1>4. list' = Freed(U, x)
  <2>1. U.freeHead = list.freeHead
    BY <1>3 DEF SameButLinks
  <2> QED BY <2>1 DEF remove, Freed, U
<1> HIDE DEF d
<1>5. /\ Whole(list', cap, Keys, Vals, n - 1, d, m + 1, Pushed(f, m, x),
               (detached \cup {x}) \ {x})
      /\ SameData(list', U, cap)
  <2> DEFINE loose == detached \cup {x}
             l == n - 1
  <2>1. Whole(U, cap, Keys, Vals, l, d, m, f, loose) /\ x \in loose
    BY <1>3
  <2> HIDE DEF loose, l, x
  <2>2. /\ Whole(list', cap, Keys, Vals, l, d, m + 1, Pushed(f, m, x), loose \ {x})
        /\ SameData(list', U, cap)
    BY <2>1, <1>1, <1>4, WholeFreed
  <2> QED BY <2>2 DEF loose, l
<1>6. (detached \cup {x}) \ {x} = detached'
  <2>1. x \notin detached
    BY <1>1 DEF Whole, Separate, NodesOf
  <2> QED BY <2>1
<1>7. Whole(list', cap, Keys, Vals, n - 1, d, m + 1, Pushed(f, m, x), detached')
  BY <1>5, <1>6
<1>8. \A y : y \in NodesOf(d, n - 1) <=> y # x /\ y \in NodesOf(e, n)
  BY <1>2, DroppedNodes DEF d
<1>9. held' \in [ArrayOf(cap) -> {0, 1}]
      /\ \A y \in ArrayOf(cap) : held'[y] = 1 => y \in NodesOf(d, n - 1)
  BY <1>8 DEF cap
<1>10. IInv'
  <2> DEFINE l == n - 1
             i == m + 1
             g == Pushed(f, m, x)
  <2>1. /\ Whole(list', cap, Keys, Vals, l, d, i, g, detached')
        /\ \A y \in ArrayOf(cap) : held'[y] = 1 => y \in NodesOf(d, l)
    BY <1>7, <1>9
  <2> HIDE DEF l, i, g
  <2> QED BY <2>1, <1>1, <1>9, GoodAfter
<1>11. b = Described(list)
  <2>1. DOMAIN list'.node = ArrayOf(cap) /\ DOMAIN list.node = ArrayOf(cap)
        /\ DOMAIN U.node = ArrayOf(cap)
    BY <1>1, <1>3, <1>7 DEF Whole, ListType
  <2> QED BY <2>1, <1>3, <1>5 DEF Described, SameButLinks, SameData
<1>12. Items(list') = Along(b, d, n - 1)
  <2> DEFINE l == n - 1
             i == m + 1
             g == Pushed(f, m, x)
  <2>1. Whole(list', cap, Keys, Vals, l, d, i, g, detached')
    BY <1>7
  <2> HIDE DEF l, i, g, b
  <2>2. Items(list') = Along(b, d, l)
    BY <2>1, <1>1, ItemsAre DEF b
  <2> QED BY <2>2 DEF l
<1>13. Items(list') = Abstract!Without(x)
  BY <1>11, <1>12, AbstractIs DEF d
<1>14. x \in Abstract!Ids /\ x \in AllSlots
  BY <1>1, <1>2, AbstractIs DEF NodesOf
<1> QED BY <1>10, <1>13, <1>14 DEF Abstract!Next, Abstract!Remove

LEMMA StepRemoveNode ==
  ASSUME ListAssumption, IInv, NEW x \in Slots, RemoveNode(x)
  PROVE  IInv' /\ Abstract!Next
<1>1. PICK n, e, m, f : Good(n, e, m, f)
  BY DEF IInv
<1>2. /\ Slots = ArrayOf(list.capacity)
      /\ held \in [ArrayOf(list.capacity) -> {0, 1}]
      /\ \A y \in ArrayOf(list.capacity) : held[y] = 1 => y \in NodesOf(e, n)
  BY <1>1, GoodCapacity DEF Good
<1>3. /\ held[x] > 0 /\ list' = remove(list, x) /\ detached' = detached
      /\ held' = [held EXCEPT ![x] = held[x] - 1]
  BY DEF RemoveNode
<1>4. held[x] = 1 /\ held' = [held EXCEPT ![x] = 0]
  <2>1. held[x] \in {0, 1}
    BY <1>2
  <2>2. held[x] = 1
    BY <2>1, <1>3
  <2>3. held[x] - 1 = 0
    BY <2>2
  <2> QED BY <2>2, <2>3, <1>3
<1>5. PICK p \in 1 .. n : x = e[p]
  BY <1>2, <1>4 DEF NodesOf
<1>6. /\ held' \in [ArrayOf(list.capacity) -> {0, 1}]
      /\ \A y \in ArrayOf(list.capacity) :
           held'[y] = 1 => y # e[p] /\ y \in NodesOf(e, n)
  BY <1>2, <1>4, <1>5
<1>7. list' = remove(list, e[p])
  BY <1>3, <1>5
<1> QED BY <1>1, <1>3, <1>6, <1>7, RemoveAt

LEMMA StepPop ==
  ASSUME ListAssumption, IInv, Pop
  PROVE  IInv' /\ Abstract!Next
<1>1. PICK n, e, m, f : Good(n, e, m, f)
  BY DEF IInv
<1> DEFINE cap == list.capacity
<1>2. /\ cap \in Nat /\ Whole(list, cap, Keys, Vals, n, e, m, f, detached)
      /\ held \in [ArrayOf(cap) -> {0, 1}]
      /\ \A y \in ArrayOf(cap) : held[y] = 1 => y \in NodesOf(e, n)
  BY <1>1, GoodCapacity DEF Good
<1>3. PICK x \in {front(list), back(list)} :
        /\ list' = remove(list, x)
        /\ held' = [held EXCEPT ![x] = IF @ = 0 THEN 0 ELSE @ - 1]
  BY DEF Pop
<1>4. detached' = detached /\ front(list) # Nil /\ back(list) # Nil
  BY DEF Pop
<1> HIDE DEF cap
<1>5. list.head.next = e[1] /\ list.tail.prev = e[n]
  BY <1>2, WholeEnds
<1>6. n \in Nat /\ e[n + 1] = TailNode /\ \A i \in 1 .. n : e[i] \in ArrayOf(cap)
  BY <1>2 DEF Whole, Thread
<1>7. front(list) = e[1] /\ back(list) = e[n] /\ e[1] # TailNode
  BY <1>4, <1>5 DEF front, back
<1>8. n # 0
  BY <1>6, <1>7
<1>9. PICK p \in 1 .. n : x = e[p]
  <2>1. 1 \in 1 .. n /\ n \in 1 .. n
    BY <1>6, <1>8
  <2> QED BY <2>1, <1>3, <1>7
<1>10. held' = [held EXCEPT ![x] = 0]
  <2> DEFINE v == IF held[x] = 0 THEN 0 ELSE held[x] - 1
  <2>1. held[x] \in {0, 1}
    BY <1>2, <1>6, <1>9
  <2>2. v = 0
    BY <2>1
  <2>3. held' = [held EXCEPT ![x] = v]
    BY <1>3
  <2> QED BY <2>2, <2>3
<1>11. /\ held' \in [ArrayOf(cap) -> {0, 1}]
       /\ \A y \in ArrayOf(cap) :
            held'[y] = 1 => y # e[p] /\ y \in NodesOf(e, n)
  <2>1. x \in ArrayOf(cap)
    BY <1>6, <1>9
  <2>2. \A y \in ArrayOf(cap) : held'[y] = IF y = x THEN 0 ELSE held[y]
    BY <2>1, <1>2, <1>10
  <2>3. held' \in [ArrayOf(cap) -> {0, 1}]
    BY <2>1, <1>2, <1>10
  <2> QED BY <2>2, <2>3, <1>2, <1>9
<1>12. list' = remove(list, e[p])
  BY <1>3, <1>9
<1> QED BY <1>1, <1>4, <1>11, <1>12, RemoveAt DEF cap

\* A node is unlinked and linked again at one end.
LEMMA StepMoveNode ==
  ASSUME ListAssumption, IInv, NEW x \in Slots, MoveNode(x)
  PROVE  IInv' /\ Abstract!Next
<1>1. PICK n, e, m, f : Good(n, e, m, f)
  BY DEF IInv
<1> DEFINE cap == list.capacity
           U == Unlink(list, x)
           b == Described(list')
<1>2. /\ cap \in Nat /\ cap \in Sizes \cup {ListCapacity}
      /\ Whole(list, cap, Keys, Vals, n, e, m, f, detached)
      /\ held \in [ArrayOf(cap) -> {0, 1}]
      /\ \A y \in ArrayOf(cap) : held[y] = 1 => y \in NodesOf(e, n)
      /\ ArrayOf(cap) \subseteq AllSlots /\ Slots = ArrayOf(cap)
  BY <1>1, GoodCapacity DEF Good
<1>3. /\ held[x] > 0 /\ held' = held /\ detached' = detached
      /\ \/ list' = push_front_internal(U, x)
         \/ list' = push_back_internal(U, x)
  BY DEF MoveNode, move_to_front, move_to_back
<1> HIDE DEF cap
<1>4. x \in NodesOf(e, n) /\ x \in ArrayOf(cap)
  <2>1. held[x] \in {0, 1}
    BY <1>2
  <2>2. held[x] = 1
    BY <2>1, <1>3
  <2> QED BY <2>2, <1>2
<1>5. PICK p \in 1 .. n : x = e[p]
  BY <1>4 DEF NodesOf
<1>6. /\ n \in Nat /\ \A i, j \in 1 .. n : e[i] = e[j] => i = j
      /\ n - 1 \in Nat
  BY <1>2 DEF Whole, Thread
<1> DEFINE l == n - 1
           d == Dropped(e, n, p)
           t(q) == Spliced(d, l, q, x)
           loose == detached \cup {x}
<1>7. /\ Whole(U, cap, Keys, Vals, l, d, m, f, loose)
      /\ SameButLinks(U, list)
  <2>1. U = Unlink(list, e[p])
    BY <1>5
  <2> HIDE DEF U
  <2>2. /\ Whole(U, cap, Keys, Vals, n - 1, Dropped(e, n, p), m, f,
                 detached \cup {e[p]})
        /\ SameButLinks(U, list)
    BY <2>1, <1>2, WholeUnlinked
  <2> QED BY <2>2, <1>5
<1>8. \A y : y \in NodesOf(d, l) <=> y # x /\ y \in NodesOf(e, n)
  BY <1>5, <1>6, DroppedNodes
<1>9. l \in Nat /\ x \in loose
  BY <1>6
<1>10. loose \ {x} = detached'
  <2>1. x \notin detached
    BY <1>2, <1>4 DEF Whole, Separate
  <2> QED BY <2>1, <1>3
<1> HIDE DEF U, l, d, loose
<1>11. PICK q \in {0, l} : list' = LinkBetween(U, x, d[q], d[q + 1])
                           /\ (q = 0 => list' = push_front_internal(U, x))
                           /\ (q # 0 => list' = push_back_internal(U, x))
  <2>1. /\ push_front_internal(U, x) = LinkBetween(U, x, d[0], d[0 + 1])
        /\ push_back_internal(U, x) = LinkBetween(U, x, d[l], d[l + 1])
    BY <1>2, <1>7, WholeEnds
  <2> QED BY <2>1, <1>3
<1>12. q \in 0 .. l
  BY <1>9, <1>11
<1>13. /\ Whole(list', cap, Keys, Vals, l + 1, t(q), m, f, detached')
       /\ SameButLinks(list', U)
  <2>1. list' = LinkBetween(U, x, d[q], d[q + 1])
    BY <1>11
  <2>2. cap \in Nat /\ Whole(U, cap, Keys, Vals, l, d, m, f, loose)
    BY <1>2, <1>7
  <2> HIDE DEF t
  <2>3. /\ Whole(list', cap, Keys, Vals, l + 1, Spliced(d, l, q, x), m, f,
                 loose \ {x})
        /\ SameButLinks(list', U)
    <3>1. ASSUME NEW W, W = LinkBetween(U, x, d[q], d[q + 1])
          PROVE  /\ Whole(W, cap, Keys, Vals, l + 1, Spliced(d, l, q, x), m, f,
                          loose \ {x})
                 /\ SameButLinks(W, U)
      BY ONLY <2>2, <1>9, <1>12, <3>1, WholeLinked
    <3> QED BY ONLY <2>1, <3>1
  <2> QED BY <2>3, <1>10 DEF t
<1>14. \A y : y \in NodesOf(t(q), l + 1) <=> y = x \/ y \in NodesOf(d, l)
  <2>1. l \in Nat /\ q \in 0 .. l
    BY <1>9, <1>12
  <2> HIDE DEF t
  <2>2. \A y : y \in NodesOf(Spliced(d, l, q, x), l + 1)
                <=> y = x \/ y \in NodesOf(d, l)
    BY ONLY <2>1, SplicedNodes
  <2> QED BY <2>2 DEF t
<1>15. held' \in [ArrayOf(cap) -> {0, 1}]
       /\ \A y \in ArrayOf(cap) : held'[y] = 1 => y \in NodesOf(t(q), l + 1)
  <2> HIDE DEF t
  <2> QED BY <1>2, <1>3, <1>4, <1>8, <1>14
<1>16. IInv'
  <2> DEFINE i == l + 1
             g == t(q)
  <2>1. /\ Whole(list', cap, Keys, Vals, i, g, m, f, detached')
        /\ \A y \in ArrayOf(cap) : held'[y] = 1 => y \in NodesOf(g, i)
    BY <1>13, <1>15
  <2> HIDE DEF i, g
  <2> QED BY <2>1, <1>2, <1>15, GoodAfter
<1>17. b = Described(list)
  <2>1. DOMAIN list'.node = ArrayOf(cap) /\ DOMAIN list.node = ArrayOf(cap)
        /\ DOMAIN U.node = ArrayOf(cap)
    BY <1>2, <1>7, <1>13 DEF Whole, ListType
  <2> QED BY <2>1, <1>7, <1>13 DEF Described, SameButLinks
<1>18. /\ x \in Abstract!Ids /\ x \in AllSlots
       /\ Abstract!ItemOf(x) = b[x] /\ Abstract!Without(x) = Along(b, d, l)
  <2>1. /\ \A y : y \in Abstract!Ids <=> y \in NodesOf(e, n)
        /\ \A i \in 1 .. n :
             /\ Abstract!ItemOf(e[i]) = Described(list)[e[i]]
             /\ Abstract!Without(e[i])
                  = Along(Described(list), Dropped(e, n, i), n - 1)
    BY <1>1, AbstractIs
  <2> HIDE DEF b
  <2> QED BY <2>1, <1>2, <1>4, <1>5, <1>17 DEF d, l
<1>19. Abstract!MoveToFront(x) \/ Abstract!MoveToBack(x)
  <2>1. CASE q = 0
    <3>1. Whole(list', cap, Keys, Vals, l + 1, Spliced(d, l, 0, x), m, f, detached')
      BY <2>1, <1>13
    <3>2. Items(list') = <<b[x]>> \o Along(b, d, l)
      BY <3>1, <1>2, <1>9, ItemsWithFront
    <3> QED BY <3>2, <1>18 DEF Abstract!MoveToFront
  <2>2. CASE q = l
    <3>1. Whole(list', cap, Keys, Vals, l + 1, Spliced(d, l, l, x), m, f, detached')
      BY <2>2, <1>13
    <3>2. Items(list') = Append(Along(b, d, l), b[x])
      BY <3>1, <1>2, <1>9, ItemsWithBack
    <3> QED BY <3>2, <1>18 DEF Abstract!MoveToBack
  <2> QED BY <2>1, <2>2, <1>11
<1> QED BY <1>16, <1>18, <1>19 DEF Abstract!Next

LEMMA EmptyItems ==
  ASSUME NEW cap \in Nat, NEW L, NEW e, NEW m, NEW f, NEW loose,
         Whole(L, cap, Keys, Vals, 0, e, m, f, loose)
  PROVE  Items(L) = <<>>
<1>1. Items(L) = Along(Described(L), e, 0)
  BY ItemsAre
<1> QED BY <1>1 DEF Along

LEMMA StepClear ==
  ASSUME ListAssumption, IInv, list.freeSize = 0, Clear
  PROVE  IInv' /\ Abstract!Next
<1>1. PICK n, e, m, f : Good(n, e, m, f)
  BY DEF IInv
<1> DEFINE cap == list.capacity
<1>2. /\ cap \in Nat /\ cap \in Sizes \cup {ListCapacity}
      /\ Whole(list, cap, Keys, Vals, n, e, m, f, detached)
      /\ Slots = ArrayOf(cap)
  BY <1>1, GoodCapacity DEF Good
<1>3. list' = Cleared(list) /\ held' = [x \in Slots |-> 0] /\ detached' = {}
  BY DEF Clear
<1> HIDE DEF cap
<1>4. Whole(list', cap, Keys, Vals, 0, EndsOnly, 0, NoneFree, detached')
  <2>1. Whole(Cleared(list), cap, Keys, Vals, 0, EndsOnly, 0, NoneFree, {})
    BY <1>2, WholeCleared
  <2> QED BY <2>1, <1>3
<1>5. /\ held' \in [ArrayOf(cap) -> {0, 1}]
      /\ \A y \in ArrayOf(cap) : held'[y] = 1 => y \in NodesOf(EndsOnly, 0)
  BY <1>2, <1>3
<1>6. IInv'
  BY <1>2, <1>4, <1>5, GoodAfter
<1>7. Items(list') = <<>>
  BY <1>2, <1>4, EmptyItems
<1> QED BY <1>6, <1>7 DEF Abstract!Next, Abstract!Clear

LEMMA StepGrow ==
  ASSUME ListAssumption, IInv, NEW more \in Sizes, Grow(more)
  PROVE  IInv' /\ Items(list') = Items(list)
<1>1. PICK n, e, m, f : Good(n, e, m, f)
  BY DEF IInv
<1> DEFINE cap == list.capacity
<1>2. /\ cap \in Nat /\ Whole(list, cap, Keys, Vals, n, e, m, f, detached)
      /\ more \in Nat /\ more \in Sizes \cup {ListCapacity}
  BY <1>1, GoodCapacity DEF Good, ListAssumption
<1>3. /\ more > cap /\ ~PointedInto(list) /\ detached = {} /\ detached' = {}
      /\ list' = Enlarged(list, more) /\ held' = [x \in 0 .. more - 1 |-> 0]
  BY DEF Grow
<1> HIDE DEF cap
<1>4. n = 0 /\ Whole(list', more, Keys, Vals, 0, EndsOnly, 0, NoneFree, {})
  <2>1. Whole(list, cap, Keys, Vals, n, e, m, f, {})
    BY <1>2, <1>3
  <2>2. n = 0 /\ Whole(Enlarged(list, more), more, Keys, Vals, 0, EndsOnly,
                       0, NoneFree, {})
    BY <2>1, <1>2, <1>3, WholeEnlarged
  <2> QED BY <2>2, <1>3
<1>5. /\ held' \in [ArrayOf(more) -> {0, 1}]
      /\ \A y \in ArrayOf(more) : held'[y] = 1 => y \in NodesOf(EndsOnly, 0)
  BY <1>3 DEF ArrayOf
<1>6. IInv'
  <2>1. Whole(list', more, Keys, Vals, 0, EndsOnly, 0, NoneFree, detached')
    BY <1>3, <1>4
  <2> QED BY <2>1, <1>2, <1>5, GoodAfter
<1>7. Items(list') = <<>>
  BY <1>2, <1>4, EmptyItems
<1>8. Items(list) = <<>>
  <2>1. Whole(list, cap, Keys, Vals, 0, e, m, f, detached)
    BY <1>2, <1>4
  <2> QED BY <2>1, <1>2, EmptyItems
<1> QED BY <1>6, <1>7, <1>8

-----------------------------------------------------------------------------
(* The theorems                                                            *)

LEMMA InitGood ==
  ASSUME ListAssumption, Init
  PROVE  IInv /\ Items(list) = <<>>
<1>1. /\ list = EmptyList(ListCapacity) /\ ListCapacity \in Nat
      /\ held = [x \in 0 .. ListCapacity - 1 |-> 0] /\ detached = {}
  BY DEF Init, ListAssumption
<1>2. Whole(list, ListCapacity, Keys, Vals, 0, EndsOnly, 0, NoneFree, detached)
  <2>1. Whole(EmptyList(ListCapacity), ListCapacity, Keys, Vals,
              0, EndsOnly, 0, NoneFree, {})
    BY <1>1, WholeEmpty
  <2> QED BY <2>1, <1>1
<1>3. list.capacity = ListCapacity
  BY <1>1 DEF EmptyList
<1>4. /\ held \in [ArrayOf(ListCapacity) -> {0, 1}]
      /\ \A y \in ArrayOf(ListCapacity) : held[y] = 1 => y \in NodesOf(EndsOnly, 0)
  BY <1>1 DEF ArrayOf
<1>5. Good(0, EndsOnly, 0, NoneFree)
  BY <1>2, <1>3, <1>4 DEF Good
<1>6. Items(list) = <<>>
  BY <1>1, <1>2, EmptyItems
<1> QED BY <1>5, <1>6 DEF IInv

LEMMA NextGood ==
  ASSUME ListAssumption, IInv, [Next]_vars
  PROVE  IInv' /\ (Abstract!Next \/ Items(list') = Items(list))
<1>1. CASE UNCHANGED vars
  BY <1>1 DEF vars, IInv, Good
<1>2. ASSUME NEW k \in Keys, NEW v \in Vals, PushFront(k, v) \/ CreateNode(k, v)
      PROVE  IInv' /\ (Abstract!Next \/ Items(list') = Items(list))
  BY <1>2, StepPushFront, StepCreateNode
<1>3. ASSUME NEW x \in Slots, PushNode(x) \/ RemoveNode(x) \/ MoveNode(x)
      PROVE  IInv' /\ Abstract!Next
  BY <1>3, StepPushNode, StepRemoveNode, StepMoveNode
<1>4. CASE Pop
  BY <1>4, StepPop
<1>5. CASE list.freeSize = 0 /\ Clear
  BY <1>5, StepClear
<1>6. ASSUME NEW cap \in Sizes, Grow(cap)
      PROVE  IInv' /\ Items(list') = Items(list)
  BY <1>6, StepGrow
<1> QED BY <1>1, <1>2, <1>3, <1>4, <1>5, <1>6 DEF Next

\* The two threads survive every call a caller may make, in every order: no
\* push, remove, move, clear or resize of ContinuousDoubleLinkedList leaves a
\* neighbour with a stale pointer.
THEOREM ListAlwaysGood == Spec => []IInv
<1> USE ListAssumption
<1>1. Init => IInv
  BY InitGood
<1>2. IInv /\ [Next]_vars => IInv'
  BY NextGood
<1> QED BY <1>1, <1>2, PTL DEF Spec

\* Every pointer of every node leads to a node of the array, to one of the two
\* end nodes or nowhere, and the counters stay within the array.
THEOREM TypeCorrect == Spec => []TypeOK
<1>1. IInv => TypeOK
  BY ListAssumption, GoodTypeOK
<1> QED BY <1>1, ListAlwaysGood, PTL

\* Following next from head and following prev from tail meet the same nodes
\* in opposite orders, after every call of the list.
THEOREM WalksAlwaysAgree == Spec => []WalksAgree
<1>1. IInv => WalksAgree
  BY ListAssumption, GoodWalksAgree
<1> QED BY <1>1, ListAlwaysGood, PTL

\* push_free and pop_free neither lose a node nor hand one out twice: every
\* node below size is in the list, in the free list or with the caller that
\* created it, and in only one of these.
THEOREM NodesAlwaysPartitioned == Spec => []NodesPartitioned
<1>1. IInv => NodesPartitioned
  BY ListAssumption, GoodNodesPartitioned
<1> QED BY <1>1, ListAlwaysGood, PTL

\* remove and move_to_front find both neighbours of a node as long as its
\* caller holds a handle of it: the assertions of unlink_node never fail.
THEOREM HandlesAlwaysLinked == Spec => []HandlesAreLinked
<1>1. IInv => HandlesAreLinked
  BY ListAssumption, GoodHandlesAreLinked
<1> QED BY <1>1, ListAlwaysGood, PTL

\* The array of nodes with its two pointer chains and its free list
\* implements a sequence of distinct nodes: each call pushes, removes or moves
\* one item of the sequence and keeps all the others, their keys, their values
\* and their order.
THEOREM ListRefinement == Spec => ImplementsList
<1> USE ListAssumption
<1>1. Init => Abstract!Init
  BY InitGood DEF Abstract!Init
<1>2. IInv /\ [Next]_vars => [Abstract!Next]_(Items(list))
  BY NextGood
<1> QED
  BY <1>1, <1>2, ListAlwaysGood, PTL DEF Spec, ImplementsList, Abstract!Spec
=============================================================================
