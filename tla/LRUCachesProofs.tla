--------------------------- MODULE LRUCachesProofs --------------------------
(***************************************************************************)
(* The LRU caches are LRU caches and agree with one another, whatever the  *)
(* keys, the values, the capacity and the hashes.                          *)
(*                                                                         *)
(* V2 comes first: a thread over the heap runs through its list, and every *)
(* call follows a given order of pairs.  Then LRUCache, which sets that    *)
(* order: its table is known through a few lemmas, which restate what      *)
(* LRUHashTableProofs shows, its list through the thread that runs through *)
(* its nodes (PointersProofs).  Then V3, whose list has such a thread too  *)
(* and whose dictionary is known through what DictionaryProofs shows of    *)
(* its lookups.  Last the caches side by side.                             *)
(***************************************************************************)
EXTENDS LRUCaches, PointersProofs

\* A put of a cached key writes the value of its node.
Revalued(L, x, v) == [L EXCEPT !.node[x].value = v]

-----------------------------------------------------------------------------
(* V2: the list under LRUCache's names                                      *)

\* The list of V2 is a list of ListNodes.
LEMMA SameNodes2 ==
  /\ V2!Nil = Nil /\ V2!Raw = Raw /\ V2!HeadNode = HeadNode
  /\ V2!TailNode = TailNode
  /\ \A n : V2!EmptyList(n) = EmptyList(n)
  /\ \A p, n, k, v : V2!Node(p, n, k, v) = Node(p, n, k, v)
  /\ \A L, n : V2!Unlink(L, n) = Unlink(L, n)
  /\ \A L, n : V2!push_back_internal(L, n) = push_back_internal(L, n)
  /\ \A L : V2!LinkedNodes(L) = LinkedNodes(L)
<1>1. /\ V2!Nil = Nil /\ V2!HeadNode = HeadNode /\ V2!TailNode = TailNode
  BY DEF V2!Nil, Nil, V2!HeadNode, HeadNode, V2!TailNode, TailNode
<1>2. \A p, n, k, v : V2!Node(p, n, k, v) = Node(p, n, k, v)
  BY DEF V2!Node, Node
<1>3. V2!Raw = Raw
  BY <1>1, <1>2 DEF V2!Raw, Raw
<1>4. \A n : V2!EmptyList(n) = EmptyList(n)
  BY <1>1, <1>2, <1>3 DEF V2!EmptyList, EmptyList
<1>5. \A L, p, q : /\ V2!SetNext(L, p, q) = SetNext(L, p, q)
                   /\ V2!SetPrev(L, p, q) = SetPrev(L, p, q)
  BY <1>1 DEF V2!SetNext, SetNext, V2!SetPrev, SetPrev
<1>6. \A L, n : V2!Unlink(L, n) = Unlink(L, n)
  BY <1>5 DEF V2!Unlink, Unlink
<1>7. \A L, n, p, q : V2!LinkBetween(L, n, p, q) = LinkBetween(L, n, p, q)
  BY <1>5 DEF V2!LinkBetween, LinkBetween
<1>8. \A L, n : V2!push_back_internal(L, n) = push_back_internal(L, n)
  BY <1>1, <1>7 DEF V2!push_back_internal, push_back_internal
<1>9. \A L : V2!LinkedNodes(L) = LinkedNodes(L)
  <2>1. \A hop, first : V2!Reached(hop, first) = Reached(hop, first)
    BY DEF V2!Reached, Reached
  <2>2. \A S : V2!Least(S) = Least(S)
    BY DEF V2!Least, Least
  <2>3. \A L, hop, first, ends : V2!PathAlong(L, hop, first, ends) = PathAlong(L, hop, first, ends)
    BY <2>1, <2>2 DEF V2!PathAlong, PathAlong
  <2>4. \A L, p : V2!NodeAt(L, p) = NodeAt(L, p)
    BY <1>1 DEF V2!NodeAt, NodeAt
  <2>5. \A L : V2!NextOf(L) = NextOf(L)
    BY <1>1, <2>4 DEF V2!NextOf, NextOf
  <2>6. \A L : V2!Forward(L) = Forward(L)
    BY <1>1, <2>3, <2>5 DEF V2!Forward, Forward
  <2> QED BY <2>6 DEF V2!LinkedNodes, LinkedNodes
<1> QED BY <1>1, <1>2, <1>3, <1>4, <1>6, <1>8, <1>9

-----------------------------------------------------------------------------
(* The list of V2: a thread over the heap                                  *)

Heap == ArrayOf(HeapSize)
KeyOrNone == Keys \cup {Nothing}
ValOrNone == Vals \cup {Nothing}

\* The thread e of n nodes runs through L, and every address of the heap that
\* is neither on it nor in `loose` is unallocated.
Strung(L, e, n, loose) ==
  /\ L \in ListType(HeapSize, KeyOrNone, ValOrNone)
  /\ Thread(L, HeapSize, n, e)
  /\ \A y \in Heap : y \notin NodesOf(e, n) \cup loose => L.node[y] = Raw

\* Links that change elsewhere leave a node as it was.
LEMMA SameNode ==
  ASSUME NEW cap \in Nat, NEW K, NEW V, NEW L \in ListType(cap, K, V),
         NEW U \in ListType(cap, K, V), SameButLinks(U, L),
         NEW y \in ArrayOf(cap), NextOf(U)[y] = NextOf(L)[y],
         PrevOf(U)[y] = PrevOf(L)[y]
  PROVE  U.node[y] = L.node[y]
<1>1. U.node[y] \in NodeType(cap, K, V) /\ L.node[y] \in NodeType(cap, K, V)
      /\ DOMAIN L.node = ArrayOf(cap)
  BY DEF ListType
<1>2. /\ U.node[y].next = L.node[y].next /\ U.node[y].prev = L.node[y].prev
      /\ U.node[y].key = L.node[y].key /\ U.node[y].value = L.node[y].value
  BY <1>1, NextPrevTyped DEF SameButLinks
<1> QED BY <1>1, <1>2 DEF NodeType

LEMMA StrungTypes ==
  ASSUME CachesAssumption, NEW L, NEW e, NEW n, NEW loose,
         Strung(L, e, n, loose)
  PROVE  /\ HeapSize \in Nat /\ n \in Nat /\ n <= HeapSize
         /\ \A p \in 1 .. n : e[p] \in Heap /\ e[p] \in NodesOf(e, n)
         /\ \A p, q \in 1 .. n : e[p] = e[q] => p = q
         /\ \A p \in 0 .. n : /\ e[p] \in PointersOf(HeapSize) \ {Nil}
                              /\ e[p + 1] \in PointersOf(HeapSize) \ {Nil}
         /\ L.head.next = e[1] /\ L.tail.prev = e[n]
         /\ \A p \in 1 .. n : /\ L.node[e[p]].prev = e[p - 1]
                              /\ L.node[e[p]].next = e[p + 1]
<1>1. HeapSize \in Nat /\ Thread(L, HeapSize, n, e)
      /\ L \in ListType(HeapSize, KeyOrNone, ValOrNone)
  BY DEF CachesAssumption, Strung
<1>2. /\ n \in Nat /\ e \in [0 .. n + 1 -> PointersOf(HeapSize)]
      /\ e[0] = HeadNode /\ e[n + 1] = TailNode
      /\ \A i \in 1 .. n : e[i] \in Heap
      /\ \A i, j \in 1 .. n : e[i] = e[j] => i = j
      /\ \A i \in 0 .. n : NextOf(L)[e[i]] = e[i + 1]
      /\ \A i \in 1 .. n + 1 : PrevOf(L)[e[i]] = e[i - 1]
  BY <1>1 DEF Thread, Heap
<1>3. n <= HeapSize
  BY <1>1, <1>2, FewerThanSlots DEF Heap
<1>4. \A p \in 0 .. n : /\ e[p] \in PointersOf(HeapSize) \ {Nil}
                        /\ e[p + 1] \in PointersOf(HeapSize) \ {Nil}
  <2>1. \A p \in 0 .. n + 1 : p = 0 \/ p = n + 1 \/ p \in 1 .. n
    BY <1>2
  <2>2. \A p \in 0 .. n + 1 : e[p] \in PointersOf(HeapSize) /\ e[p] # Nil
    BY <1>1, <1>2, <2>1, NodePointers DEF Heap
  <2>3. \A p \in 0 .. n : p \in 0 .. n + 1 /\ p + 1 \in 0 .. n + 1
    BY <1>2
  <2> QED BY <2>2, <2>3
<1>5. L.head.next = e[1] /\ L.tail.prev = e[n]
  <2>1. 0 \in 0 .. n /\ n + 1 \in 1 .. n + 1 /\ 0 + 1 = 1 /\ (n + 1) - 1 = n
    BY <1>2
  <2>2. NextOf(L)[HeadNode] = L.head.next /\ PrevOf(L)[TailNode] = L.tail.prev
    BY <1>1, NextPrevTyped
  <2> QED BY <1>2, <2>1, <2>2
<1>6. \A p \in 1 .. n : /\ L.node[e[p]].prev = e[p - 1]
                        /\ L.node[e[p]].next = e[p + 1]
  <2>1. \A x \in Heap : /\ NextOf(L)[x] = L.node[x].next
                        /\ PrevOf(L)[x] = L.node[x].prev
    BY <1>1, NextPrevTyped DEF Heap
  <2>2. \A p \in 1 .. n : p \in 0 .. n /\ p \in 1 .. n + 1
    BY <1>2
  <2> QED BY <1>2, <2>1, <2>2
<1>7. \A p \in 1 .. n : e[p] \in NodesOf(e, n)
  BY DEF NodesOf
<1> QED BY <1>1, <1>2, <1>3, <1>4, <1>5, <1>6, <1>7

\* A node is taken out (removeNode).
LEMMA StrungUnlinked ==
  ASSUME CachesAssumption, NEW L, NEW e, NEW n, Strung(L, e, n, {}),
         NEW p \in 1 .. n, NEW U, U = Unlink(L, e[p])
  PROVE  Strung(U, Dropped(e, n, p), n - 1, {e[p]}) /\ SameButLinks(U, L)
<1> DEFINE x == e[p]
           d == Dropped(e, n, p)
<1>1. /\ HeapSize \in Nat /\ n \in Nat /\ x \in Heap
      /\ \A i, j \in 1 .. n : e[i] = e[j] => i = j
      /\ p - 1 \in 0 .. n /\ p \in 0 .. n /\ (p - 1) + 1 = p
      /\ L.node[x].prev = e[p - 1] /\ L.node[x].next = e[p + 1]
  BY StrungTypes
<1>2. /\ L \in ListType(HeapSize, KeyOrNone, ValOrNone) /\ Thread(L, HeapSize, n, e)
      /\ \A y \in Heap : y \notin NodesOf(e, n) => L.node[y] = Raw
  BY DEF Strung
<1>3. e[p - 1] \in PointersOf(HeapSize) \ {Nil} /\ e[p + 1] \in PointersOf(HeapSize) \ {Nil}
  BY <1>1, StrungTypes
<1>4. /\ U \in ListType(HeapSize, KeyOrNone, ValOrNone)
      /\ NextOf(U) = [NextOf(L) EXCEPT ![e[p - 1]] = e[p + 1]]
      /\ PrevOf(U) = [PrevOf(L) EXCEPT ![e[p + 1]] = e[p - 1]]
      /\ SameButLinks(U, L)
  <2>1. L.node[x].prev # Nil /\ L.node[x].next # Nil /\ x \in ArrayOf(HeapSize)
    BY <1>1, <1>3 DEF Heap
  <2>2. LET W == Unlink(L, x)
            a == L.node[x].prev
            b == L.node[x].next
        IN  /\ W \in ListType(HeapSize, KeyOrNone, ValOrNone)
            /\ NextOf(W) = [NextOf(L) EXCEPT ![a] = b]
            /\ PrevOf(W) = [PrevOf(L) EXCEPT ![b] = a]
            /\ SameButLinks(W, L)
    BY ONLY <1>1, <1>2, <2>1, UnlinkEffect
  <2> QED BY <2>2, <1>1
<1>5. /\ NextOf(L) \in [PointersOf(HeapSize) -> PointersOf(HeapSize)]
      /\ PrevOf(L) \in [PointersOf(HeapSize) -> PointersOf(HeapSize)]
  BY <1>1, <1>2, NextPrevTyped
<1>6. Thread(U, HeapSize, n - 1, d)
  BY <1>1, <1>2, <1>4, <1>5, ThreadUnlinked
<1>7. ASSUME NEW y \in Heap, y \notin NodesOf(d, n - 1) \cup {x}
      PROVE  U.node[y] = Raw
  <2>1. y \notin NodesOf(e, n)
    BY <1>1, <1>7, DroppedNodes
  <2>2. L.node[y] = Raw
    BY <1>2, <2>1
  <2>3. y # e[p - 1] /\ y # e[p + 1]
    <3>1. \A i \in 0 .. n + 1 : i \in 1 .. n \/ i = 0 \/ i = n + 1
      BY <1>1
    <3>2. e[0] = HeadNode /\ e[n + 1] = TailNode
      BY <1>2 DEF Thread
    <3>3. \A i \in 0 .. n + 1 : e[i] # y
      BY <2>1, <3>1, <3>2, <1>1, NodePointers DEF NodesOf, Heap
    <3>4. p - 1 \in 0 .. n + 1 /\ p + 1 \in 0 .. n + 1
      BY <1>1
    <3> QED BY <3>3, <3>4
  <2>4. y \in PointersOf(HeapSize)
    BY DEF Heap, PointersOf
  <2>5. NextOf(U)[y] = NextOf(L)[y] /\ PrevOf(U)[y] = PrevOf(L)[y]
    BY <1>4, <1>5, <2>3, <2>4
  <2>6. U.node[y] = L.node[y]
    <3>1. y \in ArrayOf(HeapSize) /\ HeapSize \in Nat
      BY <1>1 DEF Heap
    <3>2. /\ L \in ListType(HeapSize, KeyOrNone, ValOrNone) /\ U \in ListType(HeapSize, KeyOrNone, ValOrNone)
          /\ SameButLinks(U, L)
      BY <1>2, <1>4
    <3> QED BY ONLY <2>5, <3>1, <3>2, SameNode
  <2> QED BY <2>2, <2>6
<1> QED BY <1>4, <1>6, <1>7 DEF Strung

\* A node is appended (pushNode).
LEMMA StrungPushed ==
  ASSUME CachesAssumption, NEW L, NEW e, NEW n, NEW x \in Heap,
         Strung(L, e, n, {x}), x \notin NodesOf(e, n),
         NEW U, U = push_back_internal(L, x)
  PROVE  Strung(U, Spliced(e, n, n, x), n + 1, {}) /\ SameButLinks(U, L)
<1> DEFINE d == Spliced(e, n, n, x)
<1>1. /\ HeapSize \in Nat /\ n \in Nat /\ L.tail.prev = e[n] /\ n \in 0 .. n
  BY StrungTypes
<1>2. /\ L \in ListType(HeapSize, KeyOrNone, ValOrNone) /\ Thread(L, HeapSize, n, e)
      /\ \A y \in Heap : y \notin NodesOf(e, n) \cup {x} => L.node[y] = Raw
  BY DEF Strung
<1>3. e[n] \in PointersOf(HeapSize) \ {Nil} /\ e[n + 1] \in PointersOf(HeapSize) \ {Nil}
  BY <1>1, StrungTypes
<1>4. U = LinkBetween(L, x, e[n], e[n + 1])
  BY <1>1, <1>2 DEF push_back_internal, Thread
<1>5. /\ U \in ListType(HeapSize, KeyOrNone, ValOrNone)
      /\ NextOf(U) = [NextOf(L) EXCEPT ![x] = e[n + 1], ![e[n]] = x]
      /\ PrevOf(U) = [PrevOf(L) EXCEPT ![x] = e[n], ![e[n + 1]] = x]
      /\ SameButLinks(U, L)
  <2>1. x \in ArrayOf(HeapSize)
    BY DEF Heap
  <2>2. LET W == LinkBetween(L, x, e[n], e[n + 1])
        IN  /\ W \in ListType(HeapSize, KeyOrNone, ValOrNone)
            /\ NextOf(W) = [NextOf(L) EXCEPT ![x] = e[n + 1], ![e[n]] = x]
            /\ PrevOf(W) = [PrevOf(L) EXCEPT ![x] = e[n], ![e[n + 1]] = x]
            /\ SameButLinks(W, L)
    BY ONLY <1>1, <1>2, <1>3, <2>1, LinkBetweenEffect
  <2> QED BY <2>2, <1>4
<1>6. /\ NextOf(L) \in [PointersOf(HeapSize) -> PointersOf(HeapSize)]
      /\ PrevOf(L) \in [PointersOf(HeapSize) -> PointersOf(HeapSize)]
  BY <1>1, <1>2, NextPrevTyped
<1>7. Thread(U, HeapSize, n + 1, d)
  <2>1. x \in ArrayOf(HeapSize) /\ \A i \in 1 .. n : e[i] # x
    BY DEF Heap, NodesOf
  <2> QED BY <2>1, <1>1, <1>2, <1>5, <1>6, ThreadLinked
<1>8. ASSUME NEW y \in Heap, y \notin NodesOf(d, n + 1) \cup {}
      PROVE  U.node[y] = Raw
  <2>1. y \notin NodesOf(e, n) /\ y # x
    BY <1>1, <1>8, SplicedNodes
  <2>2. L.node[y] = Raw
    BY <1>2, <2>1
  <2>3. y # e[n] /\ y # e[n + 1]
    <3>1. n \in 1 .. n \/ n = 0
      BY <1>1
    <3>2. e[0] = HeadNode /\ e[n + 1] = TailNode
      BY <1>2 DEF Thread
    <3> QED BY <2>1, <3>1, <3>2, <1>1, NodePointers DEF NodesOf, Heap
  <2>4. y \in PointersOf(HeapSize)
    BY DEF Heap, PointersOf
  <2>5. NextOf(U)[y] = NextOf(L)[y] /\ PrevOf(U)[y] = PrevOf(L)[y]
    BY <1>5, <1>6, <2>1, <2>3, <2>4
  <2>6. U.node[y] = L.node[y]
    <3>1. y \in ArrayOf(HeapSize) /\ HeapSize \in Nat
      BY <1>1 DEF Heap
    <3>2. /\ L \in ListType(HeapSize, KeyOrNone, ValOrNone) /\ U \in ListType(HeapSize, KeyOrNone, ValOrNone)
          /\ SameButLinks(U, L)
      BY <1>2, <1>5
    <3> QED BY ONLY <2>5, <3>1, <3>2, SameNode
  <2> QED BY <2>2, <2>6
<1> QED BY <1>5, <1>7, <1>8 DEF Strung

Written(L, x, N) == [L EXCEPT !.node[x] = N]

\* A node that is not linked is allocated, written or deleted.
LEMMA StrungWritten ==
  ASSUME CachesAssumption, NEW L, NEW e, NEW n, NEW loose,
         Strung(L, e, n, loose), NEW x \in Heap, x \notin NodesOf(e, n),
         NEW N \in NodeType(HeapSize, KeyOrNone, ValOrNone),
         NEW U, U = Written(L, x, N)
  PROVE  /\ Strung(U, e, n, loose \cup {x})
         /\ N = Raw => Strung(U, e, n, loose \ {x})
<1>1. HeapSize \in Nat /\ n \in Nat
  BY StrungTypes
<1>2. /\ L \in ListType(HeapSize, KeyOrNone, ValOrNone) /\ Thread(L, HeapSize, n, e)
      /\ \A y \in Heap : y \notin NodesOf(e, n) \cup loose => L.node[y] = Raw
  BY DEF Strung
<1>3. U \in ListType(HeapSize, KeyOrNone, ValOrNone) /\ U.head = L.head /\ U.tail = L.tail
      /\ \A y \in Heap : U.node[y] = IF y = x THEN N ELSE L.node[y]
  BY <1>2 DEF Written, ListType, Heap
<1>4. /\ \A y \in Heap : NextOf(L)[y] = L.node[y].next /\ PrevOf(L)[y] = L.node[y].prev
      /\ \A y \in Heap : NextOf(U)[y] = U.node[y].next /\ PrevOf(U)[y] = U.node[y].prev
      /\ NextOf(L)[HeadNode] = L.head.next /\ PrevOf(L)[TailNode] = L.tail.prev
      /\ NextOf(U)[HeadNode] = U.head.next /\ PrevOf(U)[TailNode] = U.tail.prev
  <2>1. ASSUME NEW M \in ListType(HeapSize, KeyOrNone, ValOrNone)
        PROVE  /\ \A y \in Heap : NextOf(M)[y] = M.node[y].next
                                  /\ PrevOf(M)[y] = M.node[y].prev
               /\ NextOf(M)[HeadNode] = M.head.next
               /\ PrevOf(M)[TailNode] = M.tail.prev
    BY ONLY <1>1, <2>1, NextPrevTyped DEF Heap
  <2> QED BY ONLY <1>2, <1>3, <2>1
<1>5. /\ e[0] = HeadNode /\ e[n + 1] = TailNode
      /\ \A i \in 1 .. n : e[i] \in Heap /\ e[i] # x
  BY <1>2 DEF Thread, Heap, NodesOf
<1>6. \A i \in 0 .. n : NextOf(U)[e[i]] = NextOf(L)[e[i]]
  <2>1. \A i \in 0 .. n : i = 0 \/ i \in 1 .. n
    BY <1>1
  <2> QED BY <2>1, <1>3, <1>4, <1>5
<1>7. \A i \in 1 .. n + 1 : PrevOf(U)[e[i]] = PrevOf(L)[e[i]]
  <2>1. \A i \in 1 .. n + 1 : i = n + 1 \/ i \in 1 .. n
    BY <1>1
  <2> QED BY <2>1, <1>3, <1>4, <1>5
<1>8. Thread(U, HeapSize, n, e)
  BY <1>2, <1>6, <1>7, ThreadKept
<1> QED BY <1>2, <1>3, <1>8 DEF Strung

\* A node that is used again goes to the back.
Backed(e, n, p) == Spliced(Dropped(e, n, p), n - 1, n - 1, e[p])

LEMMA StrungTurned ==
  ASSUME CachesAssumption, NEW L, NEW e, NEW n, Strung(L, e, n, {}),
         NEW p \in 1 .. n, NEW U, U = push_back_internal(Unlink(L, e[p]), e[p])
  PROVE  Strung(U, Backed(e, n, p), n, {}) /\ SameData(U, L, HeapSize)
<1> DEFINE x == e[p]
           W == Unlink(L, x)
           d == Dropped(e, n, p)
           l == n - 1
<1>1. /\ HeapSize \in Nat /\ n \in Nat /\ x \in Heap
      /\ \A i, j \in 1 .. n : e[i] = e[j] => i = j
      /\ l + 1 = n
  BY StrungTypes
<1>2. Strung(W, d, l, {x}) /\ SameButLinks(W, L)
  BY StrungUnlinked
<1>3. x \notin NodesOf(d, l)
  BY <1>1, DroppedNodes
<1>4. DOMAIN L.node = Heap /\ DOMAIN W.node = Heap
  BY <1>2 DEF Strung, ListType, Heap
<1> HIDE DEF W, d, l, x
<1>5. U = push_back_internal(W, x)
  BY DEF W, x
<1>6. Strung(U, Spliced(d, l, l, x), l + 1, {}) /\ SameButLinks(U, W)
  BY <1>1, <1>2, <1>3, <1>5, StrungPushed
<1>7. SameData(U, L, HeapSize)
  BY <1>2, <1>4, <1>6 DEF SameButLinks, SameData, Heap
<1> QED BY <1>1, <1>6, <1>7 DEF Backed, d, l, x

-----------------------------------------------------------------------------
(* What a call does to the order                                           *)

Paired(k, v) == [key |-> k, value |-> v]
PairAt(L, x) == Paired(L.node[x].key, L.node[x].value)

\* Of m pairs, the p-th gives way to x, which comes to the front.
Renews(s, t, m, p, x) ==
  \A i \in 1 .. m :
    t[i] = IF i = 1 THEN x ELSE IF i <= p THEN s[i - 1] ELSE s[i]

\* Pair x comes in front of m others.
Adds(s, t, m, x) == \A i \in 1 .. m + 1 : t[i] = IF i = 1 THEN x ELSE s[i - 1]

-----------------------------------------------------------------------------
(* V2: the map and the list                                                *)

\* The map leads from the key of each linked node to that node, and from no
\* other key to any.
Owns(C, L, e, n) ==
  /\ C \in [Keys -> Heap \cup {Nil}]
  /\ \A x \in NodesOf(e, n) : /\ L.node[x].key \in Keys
                              /\ L.node[x].value \in Vals
                              /\ C[L.node[x].key] = x
  /\ \A k \in Keys :
       C[k] # Nil => C[k] \in NodesOf(e, n) /\ L.node[C[k]].key = k

\* From the back, the nodes hold the first n pairs of s.
Mirrors(L, e, n, s) == \A i \in 1 .. n : s[i] = PairAt(L, e[n + 1 - i])

Good2(L, C, e, n, s) ==
  Strung(L, e, n, {}) /\ Owns(C, L, e, n) /\ Mirrors(L, e, n, s)

\* A key is in the map exactly when the order has it, at the place of its node.
LEMMA OwnedPlace ==
  ASSUME CachesAssumption, NEW L, NEW C, NEW e, NEW n, NEW s,
         Good2(L, C, e, n, s), NEW k \in Keys
  PROVE  /\ \A p \in 1 .. n :
              s[p].key = k => /\ C[k] = e[n + 1 - p] /\ C[k] # Nil
                              /\ s[p].value = L.node[C[k]].value
         /\ C[k] # Nil => \E p \in 1 .. n : s[p].key = k
<1>1. /\ n \in Nat /\ HeapSize \in Nat
      /\ \A p \in 1 .. n : e[p] \in Heap /\ e[p] \in NodesOf(e, n)
  BY StrungTypes DEF Good2
<1>2. ASSUME NEW p \in 1 .. n, s[p].key = k
      PROVE  /\ C[k] = e[n + 1 - p] /\ C[k] # Nil
             /\ s[p].value = L.node[C[k]].value
  <2>1. n + 1 - p \in 1 .. n
    BY <1>1
  <2>2. s[p] = PairAt(L, e[n + 1 - p])
    BY DEF Good2, Mirrors
  <2>3. C[L.node[e[n + 1 - p]].key] = e[n + 1 - p]
    BY <1>1, <2>1 DEF Good2, Owns
  <2>4. e[n + 1 - p] # Nil
    BY <1>1, <2>1, NodePointers DEF Heap
  <2> QED BY <1>2, <2>2, <2>3, <2>4 DEF PairAt, Paired
<1>3. ASSUME C[k] # Nil
      PROVE  \E p \in 1 .. n : s[p].key = k
  <2>1. C[k] \in NodesOf(e, n) /\ L.node[C[k]].key = k
    BY <1>3 DEF Good2, Owns
  <2>2. PICK q \in 1 .. n : C[k] = e[q]
    BY <2>1 DEF NodesOf
  <2>3. n + 1 - q \in 1 .. n /\ n + 1 - (n + 1 - q) = q
    BY <1>1
  <2>4. s[n + 1 - q] = PairAt(L, e[n + 1 - (n + 1 - q)])
    BY <2>3 DEF Good2, Mirrors
  <2>5. s[n + 1 - q] = PairAt(L, e[q])
    BY <2>3, <2>4
  <2> QED BY <2>1, <2>2, <2>3, <2>5 DEF PairAt, Paired
<1> QED BY <1>2, <1>3

\* As many keys are in the map as nodes are linked.
LEMMA OwnedCount ==
  ASSUME CachesAssumption, NEW L, NEW C, NEW e, NEW n, NEW s,
         Good2(L, C, e, n, s)
  PROVE  V2!size(C) = n
<1> DEFINE S == {k \in Keys : C[k] # Nil}
           f == [p \in 1 .. n |-> L.node[e[p]].key]
<1>1. /\ n \in Nat /\ HeapSize \in Nat
      /\ \A p \in 1 .. n : e[p] \in Heap /\ e[p] \in NodesOf(e, n)
      /\ \A p, q \in 1 .. n : e[p] = e[q] => p = q
  BY StrungTypes DEF Good2
<1>2. /\ \A x \in NodesOf(e, n) : L.node[x].key \in Keys /\ C[L.node[x].key] = x
      /\ \A k \in Keys :
           C[k] # Nil => C[k] \in NodesOf(e, n) /\ L.node[C[k]].key = k
  BY DEF Good2, Owns
<1>3. \A p \in 1 .. n : f[p] \in S /\ C[f[p]] = e[p]
  BY <1>1, <1>2, NodePointers DEF Heap
<1>4. \A k \in S : \E p \in 1 .. n : f[p] = k
  BY <1>2 DEF NodesOf
<1>5. f \in Bijection(1 .. n, S)
  <2>1. f \in [1 .. n -> S]
    BY <1>3
  <2>2. \A p, q \in 1 .. n : f[p] = f[q] => p = q
    BY <1>1, <1>3
  <2> HIDE DEF f, S
  <2> QED BY <1>4, <2>1, <2>2 DEF Bijection, Injection, Surjection, IsInjective
<1>6. ExistsBijection(1 .. n, S)
  BY <1>5 DEF ExistsBijection
<1>7. Cardinality(S) = n
  <2> HIDE DEF S
  <2> QED BY <1>1, <1>6, FS_CountingElements
<1>8. V2!size(C) = V2!Cardinality(S)
  BY SameNodes2 DEF V2!size
<1>9. V2!Cardinality(S) = Cardinality(S)
  <2> HIDE DEF S
  <2> QED BY DEF V2!Cardinality, Cardinality
<1> QED BY <1>7, <1>8, <1>9

\* A node in use is read or written, and goes to the back.
LEMMA OwnedRenewed ==
  ASSUME CachesAssumption, NEW L, NEW C, NEW e, NEW n, NEW s,
         Good2(L, C, e, n, s), NEW p \in 1 .. n,
         NEW k \in Keys, s[p].key = k, NEW v \in Vals,
         NEW U, Strung(U, Backed(e, n, n + 1 - p), n, {}),
         NewData(U, L, HeapSize, C[k], k, v),
         NEW t, Renews(s, t, n, p, Paired(k, v))
  PROVE  Good2(U, C, Backed(e, n, n + 1 - p), n, t)
<1> DEFINE q == n + 1 - p
           x == C[k]
           g == Backed(e, n, q)
<1>1. /\ n \in Nat /\ HeapSize \in Nat /\ q \in 1 .. n
      /\ \A i \in 1 .. n : e[i] \in Heap /\ e[i] \in NodesOf(e, n)
      /\ \A i, j \in 1 .. n : e[i] = e[j] => i = j
  BY StrungTypes DEF Good2
<1>2. x = e[q] /\ x \in NodesOf(e, n) /\ L.node[x].key = k
  <2>1. x = e[q] /\ x # Nil
    BY OwnedPlace
  <2> QED BY <2>1, <1>1 DEF Good2, Owns
<1>3. \A y \in Heap : U.node[y].key = L.node[y].key
  BY <1>2 DEF NewData, Heap
<1>4. \A i \in 1 .. n :
        g[i] = IF i = n THEN e[q] ELSE IF i < q THEN e[i] ELSE e[i + 1]
  BY <1>1 DEF Backed, Spliced, Dropped
<1>5. \A y : y \in NodesOf(g, n) <=> y \in NodesOf(e, n)
  <2>1. \A i \in 1 .. n : \E j \in 1 .. n : g[i] = e[j]
    <3>1. ASSUME NEW i \in 1 .. n
          PROVE  \E j \in 1 .. n : g[i] = e[j]
      <4>1. CASE i = n
        BY <4>1, <1>1, <1>4
      <4>2. CASE i # n /\ i < q
        BY <4>2, <1>1, <1>4
      <4>3. CASE i # n /\ ~(i < q)
        <5>1. i + 1 \in 1 .. n
          BY <4>3, <1>1
        <5> QED BY <5>1, <4>3, <1>4
      <4> QED BY <4>1, <4>2, <4>3
    <3> QED BY <3>1
  <2>2. \A j \in 1 .. n : \E i \in 1 .. n : g[i] = e[j]
    <3>1. ASSUME NEW j \in 1 .. n
          PROVE  \E i \in 1 .. n : g[i] = e[j]
      <4>1. CASE j = q
        <5>1. n \in 1 .. n
          BY <1>1
        <5> QED BY <4>1, <5>1, <1>4
      <4>2. CASE j < q
        <5>1. j # n
          BY <4>2, <1>1
        <5> QED BY <4>2, <5>1, <1>4
      <4>3. CASE j > q
        <5>1. j - 1 \in 1 .. n /\ j - 1 # n /\ ~(j - 1 < q) /\ (j - 1) + 1 = j
          BY <4>3, <1>1
        <5>2. g[j - 1] = e[(j - 1) + 1]
          BY <5>1, <1>4
        <5> QED BY <5>1, <5>2
      <4> QED BY <4>1, <4>2, <4>3, <1>1
    <3> QED BY <3>1
  <2> HIDE DEF g
  <2> QED BY <2>1, <2>2 DEF NodesOf
<1>6. \A y \in NodesOf(e, n) : y \in Heap
  BY <1>1 DEF NodesOf
<1>7. Owns(C, U, g, n)
  <2>1. \A y \in NodesOf(e, n) : U.node[y].value \in Vals
    BY <1>2, <1>6 DEF NewData, Heap, Good2, Owns
  <2> HIDE DEF g, x
  <2> QED BY <1>3, <1>5, <1>6, <2>1 DEF Good2, Owns
<1>8. Mirrors(U, g, n, t)
  <2> SUFFICES ASSUME NEW i \in 1 .. n
               PROVE  t[i] = PairAt(U, g[n + 1 - i])
    BY DEF Mirrors
  <2> DEFINE j == n + 1 - i
  <2>1. j \in 1 .. n
    BY <1>1
  <2>2. \A y \in Heap \ {x} : PairAt(U, y) = PairAt(L, y)
    BY DEF PairAt, NewData, Heap
  <2>3. \A m \in 1 .. n : s[m] = PairAt(L, e[n + 1 - m])
    BY DEF Good2, Mirrors
  <2>4. t[i] = IF i = 1 THEN Paired(k, v)
               ELSE IF i <= p THEN s[i - 1] ELSE s[i]
    BY DEF Renews
  <2> HIDE DEF g, x
  <2>5. CASE i = 1
    <3>1. g[j] = x
      BY <2>1, <2>5, <1>1, <1>2, <1>4
    <3>2. x \in ArrayOf(HeapSize) /\ x = C[k]
      BY <1>2, <1>6 DEF Heap, x
    <3>3. PairAt(U, x) = Paired(k, v)
      BY <3>2 DEF PairAt, NewData
    <3> QED BY <2>4, <2>5, <3>1, <3>3
  <2>6. CASE i # 1 /\ i <= p
    <3>1. j # n /\ ~(j < q) /\ j + 1 \in 1 .. n /\ j + 1 # q
          /\ i - 1 \in 1 .. n /\ n + 1 - (i - 1) = j + 1
      BY <2>1, <2>6, <1>1
    <3>2. g[j] = e[j + 1] /\ e[j + 1] # x /\ e[j + 1] \in Heap
      BY <2>1, <3>1, <1>1, <1>2, <1>4
    <3>3. s[i - 1] = PairAt(L, e[j + 1])
      BY <2>3, <3>1
    <3> QED BY <2>2, <2>4, <2>6, <3>2, <3>3
  <2>7. CASE i # 1 /\ ~(i <= p)
    <3>1. j # n /\ j < q /\ j # q
      BY <2>1, <2>7, <1>1
    <3>2. g[j] = e[j] /\ e[j] # x /\ e[j] \in Heap
      BY <2>1, <3>1, <1>1, <1>2, <1>4
    <3>3. s[i] = PairAt(L, e[j])
      BY <2>3
    <3> QED BY <2>2, <2>4, <2>7, <3>2, <3>3
  <2> QED BY <2>5, <2>6, <2>7
<1> QED BY <1>7, <1>8 DEF Good2

\* A new node for a key that is not in the map.
LEMMA OwnedAdded ==
  ASSUME CacheAssumption, CachesAssumption, NEW L, NEW C, NEW e, NEW n, NEW s,
         Good2(L, C, e, n, s), NEW a \in Heap, L.node[a] = Raw,
         NEW k \in Keys, NEW v \in Vals, C[k] = Nil,
         NEW U, U = push_back_internal(Written(L, a, Node(Nil, Nil, k, v)), a),
         NEW D, D = [C EXCEPT ![k] = a],
         NEW t, Adds(s, t, n, Paired(k, v))
  PROVE  Good2(U, D, Spliced(e, n, n, a), n + 1, t)
<1> DEFINE W == Written(L, a, Node(Nil, Nil, k, v))
           g == Spliced(e, n, n, a)
           N == Node(Nil, Nil, k, v)
<1>1. /\ n \in Nat /\ HeapSize \in Nat
      /\ \A i \in 1 .. n : e[i] \in Heap /\ e[i] \in NodesOf(e, n)
      /\ \A i, j \in 1 .. n : e[i] = e[j] => i = j
  BY StrungTypes DEF Good2
<1>2. /\ Strung(L, e, n, {}) /\ Owns(C, L, e, n) /\ Mirrors(L, e, n, s)
  BY DEF Good2
<1>3. a \notin NodesOf(e, n)
  <2>1. Raw.key = Nothing
    BY DEF Raw, Node
  <2>2. Nothing \notin Keys
    BY DEF CacheAssumption
  <2> QED BY <1>2, <2>1, <2>2 DEF Owns
<1>4. N \in NodeType(HeapSize, KeyOrNone, ValOrNone)
  BY DEF Node, NodeType, PointersOf, KeyOrNone, ValOrNone
<1>5. /\ Strung(W, e, n, {a})
      /\ \A y \in Heap : W.node[y] = IF y = a THEN N ELSE L.node[y]
  <2> HIDE DEF N
  <2>1. W = Written(L, a, N)
    BY DEF N
  <2> HIDE DEF W
  <2> DEFINE none == {}
  <2>2. CachesAssumption /\ Strung(L, e, n, none) /\ a \in Heap
    BY <1>2
  <2>3. none \cup {a} = {a}
    OBVIOUS
  <2> HIDE DEF none
  <2>4. Strung(W, e, n, none \cup {a})
    BY <1>3, <1>4, <2>1, <2>2, StrungWritten
  <2>5. \A y \in Heap : W.node[y] = IF y = a THEN N ELSE L.node[y]
    BY <1>2, <2>1 DEF Written, Strung, ListType, Heap
  <2> QED BY <2>3, <2>4, <2>5
<1> HIDE DEF W
<1>6. Strung(U, g, n + 1, {}) /\ SameButLinks(U, W)
  <2>1. U = push_back_internal(W, a)
    BY DEF W
  <2> QED BY <2>1, <1>3, <1>5, StrungPushed
<1>7. \A y \in Heap : PairAt(U, y) = IF y = a THEN Paired(k, v)
                                     ELSE PairAt(L, y)
  <2>1. DOMAIN W.node = Heap
    BY <1>5 DEF Strung, ListType, Heap
  <2>2. \A y \in Heap : U.node[y].key = W.node[y].key
                        /\ U.node[y].value = W.node[y].value
    BY <1>6, <2>1 DEF SameButLinks
  <2>3. N.key = k /\ N.value = v
    BY DEF Node
  <2> HIDE DEF N
  <2> QED BY <1>5, <2>2, <2>3 DEF PairAt
<1>8. \A y \in Heap :
        /\ U.node[y].key = IF y = a THEN k ELSE L.node[y].key
        /\ U.node[y].value = IF y = a THEN v ELSE L.node[y].value
  BY <1>7 DEF PairAt, Paired
<1>9. \A y : y \in NodesOf(g, n + 1) <=> y \in NodesOf(e, n) \/ y = a
  <2>1. n \in 0 .. n
    BY <1>1
  <2> QED BY <1>1, <2>1, SplicedNodes
<1>10. \A y \in NodesOf(e, n) : y \in Heap /\ y # a
  BY <1>1, <1>3 DEF NodesOf
<1>11. a # Nil
  BY <1>1, NodePointers DEF Heap
<1>12. \A q \in Keys : D[q] = IF q = k THEN a ELSE C[q]
  BY <1>2 DEF Owns
<1>13. Owns(D, U, g, n + 1)
  <2>1. D \in [Keys -> Heap \cup {Nil}]
    BY <1>2 DEF Owns
  <2>2. ASSUME NEW x \in NodesOf(g, n + 1)
        PROVE  /\ U.node[x].key \in Keys /\ U.node[x].value \in Vals
               /\ D[U.node[x].key] = x
    <3>1. CASE x = a
      BY <3>1, <1>8, <1>12
    <3>2. CASE x # a
      <4>1. x \in NodesOf(e, n) /\ x \in Heap
        BY <2>2, <3>2, <1>9, <1>10
      <4>2. /\ L.node[x].key \in Keys /\ L.node[x].value \in Vals
            /\ C[L.node[x].key] = x
        BY <4>1, <1>2 DEF Owns
      <4>3. x # Nil
        BY <4>1, <1>1, NodePointers DEF Heap
      <4>4. L.node[x].key # k
        BY <4>2, <4>3
      <4> QED BY <3>2, <4>1, <4>2, <4>4, <1>8, <1>12
    <3> QED BY <3>1, <3>2
  <2>3. ASSUME NEW q \in Keys, D[q] # Nil
        PROVE  D[q] \in NodesOf(g, n + 1) /\ U.node[D[q]].key = q
    <3>1. CASE q = k
      BY <3>1, <1>8, <1>9, <1>12
    <3>2. CASE q # k
      <4>1. D[q] = C[q]
        BY <3>2, <1>12
      <4>2. C[q] \in NodesOf(e, n) /\ L.node[C[q]].key = q
        BY <4>1, <2>3, <1>2 DEF Owns
      <4> QED BY <4>1, <4>2, <1>8, <1>9, <1>10
    <3> QED BY <3>1, <3>2
  <2> HIDE DEF g
  <2> QED BY <2>1, <2>2, <2>3 DEF Owns
<1>14. Mirrors(U, g, n + 1, t)
  <2> SUFFICES ASSUME NEW i \in 1 .. n + 1
               PROVE  t[i] = PairAt(U, g[(n + 1) + 1 - i])
    BY DEF Mirrors
  <2> DEFINE j == (n + 1) + 1 - i
  <2>1. t[i] = IF i = 1 THEN Paired(k, v) ELSE s[i - 1]
    BY DEF Adds
  <2>2. \A m \in 0 .. n + 2 : g[m] = IF m <= n THEN e[m]
                                     ELSE IF m = n + 1 THEN a ELSE e[m - 1]
    BY DEF Spliced
  <2> HIDE DEF g
  <2>3. CASE i = 1
    <3>1. j = n + 1 /\ j \in 0 .. n + 2 /\ ~(j <= n)
      BY <2>3, <1>1
    <3>2. g[j] = a
      BY <2>2, <3>1
    <3> QED BY <2>1, <2>3, <3>2, <1>7
  <2>4. CASE i # 1
    <3>1. /\ i - 1 \in 1 .. n /\ n + 1 - (i - 1) = j /\ j \in 1 .. n
          /\ j \in 0 .. n + 2 /\ j <= n
      BY <2>4, <1>1
    <3>2. s[i - 1] = PairAt(L, e[n + 1 - (i - 1)])
      BY <3>1, <1>2 DEF Mirrors
    <3>3. g[j] = e[j]
      BY <2>2, <3>1
    <3>4. e[j] \in Heap /\ e[j] # a
      BY <3>1, <1>1, <1>10
    <3> QED BY <2>1, <2>4, <3>1, <3>2, <3>3, <3>4, <1>7
  <2> QED BY <2>3, <2>4
<1> QED BY <1>6, <1>13, <1>14 DEF Good2

\* The node at the front, with the last pair of the order, is deleted.
LEMMA OwnedEvicted ==
  ASSUME CacheAssumption, CachesAssumption, NEW L, NEW C, NEW e, NEW n, NEW s,
         Good2(L, C, e, n, s), n # 0,
         NEW E, E = V2!Evicted(L, C)
  PROVE  Good2(E.list, E.cache, Dropped(e, n, 1), n - 1, s)
<1> DEFINE x == e[1]
           k == L.node[x].key
           d == Dropped(e, n, 1)
           l == n - 1
           M == Unlink(L, x)
           U == [M EXCEPT !.node[x] = Raw]
           D == [C EXCEPT ![k] = Nil]
<1>1. /\ n \in Nat /\ HeapSize \in Nat /\ L.head.next = x
      /\ \A i \in 1 .. n : e[i] \in Heap /\ e[i] \in NodesOf(e, n)
      /\ \A i, j \in 1 .. n : e[i] = e[j] => i = j
  BY StrungTypes DEF Good2
<1>2. /\ Strung(L, e, n, {}) /\ Owns(C, L, e, n) /\ Mirrors(L, e, n, s)
  BY DEF Good2
<1>3. 1 \in 1 .. n /\ l \in Nat /\ l + 1 = n /\ x \in Heap /\ x \in NodesOf(e, n)
  BY <1>1
<1>4. E.list = U /\ E.cache = D
  BY <1>1, SameNodes2 DEF V2!Evicted, V2!removeNode
<1>5. Strung(M, d, l, {x}) /\ SameButLinks(M, L)
  BY <1>2, <1>3, StrungUnlinked
<1>6. \A y : y \in NodesOf(d, l) <=> y # x /\ y \in NodesOf(e, n)
  BY <1>1, <1>3, DroppedNodes
<1>7. \A y \in NodesOf(e, n) : y \in Heap
  BY <1>1 DEF NodesOf
<1> HIDE DEF M, d, l, x
<1>8. /\ Strung(U, d, l, {})
      /\ \A y \in Heap : U.node[y] = IF y = x THEN Raw ELSE M.node[y]
  <2>1. Raw \in NodeType(HeapSize, KeyOrNone, ValOrNone)
    BY DEF Raw, Node, NodeType, PointersOf, KeyOrNone, ValOrNone
  <2>2. {x} \ {x} = {}
    OBVIOUS
  <2>3. x \notin NodesOf(d, l)
    BY <1>6
  <2>4. Strung(U, d, l, {x} \ {x})
    <3>1. CachesAssumption /\ Strung(M, d, l, {x}) /\ x \in Heap
          /\ U = Written(M, x, Raw)
      BY <1>3, <1>5 DEF Written
    <3> HIDE DEF U
    <3> QED BY ONLY <2>1, <2>3, <3>1, StrungWritten
  <2>5. \A y \in Heap : U.node[y] = IF y = x THEN Raw ELSE M.node[y]
    BY <1>5 DEF Strung, ListType, Heap
  <2> QED BY <2>2, <2>4, <2>5
<1> HIDE DEF U
<1>9. \A y \in Heap : y # x => /\ U.node[y].key = L.node[y].key
                               /\ U.node[y].value = L.node[y].value
                               /\ PairAt(U, y) = PairAt(L, y)
  <2>1. DOMAIN L.node = Heap
    BY <1>2 DEF Strung, ListType, Heap
  <2> QED BY <1>5, <1>8, <2>1 DEF SameButLinks, PairAt
<1>10. k \in Keys /\ C[k] = x
  BY <1>2, <1>3 DEF Owns
<1>11. \A q \in Keys : D[q] = IF q = k THEN Nil ELSE C[q]
  BY <1>2 DEF Owns
<1>12. Owns(D, U, d, l)
  <2>1. D \in [Keys -> Heap \cup {Nil}]
    BY <1>2 DEF Owns
  <2>2. ASSUME NEW y \in NodesOf(d, l)
        PROVE  /\ U.node[y].key \in Keys /\ U.node[y].value \in Vals
               /\ D[U.node[y].key] = y
    <3>1. y # x /\ y \in NodesOf(e, n) /\ y \in Heap
      BY <2>2, <1>6, <1>7
    <3>2. /\ L.node[y].key \in Keys /\ L.node[y].value \in Vals
          /\ C[L.node[y].key] = y
      BY <3>1, <1>2 DEF Owns
    <3>3. L.node[y].key # k
      BY <3>1, <3>2, <1>10
    <3> HIDE DEF k, D
    <3> QED BY <3>1, <3>2, <3>3, <1>9, <1>11
  <2>3. ASSUME NEW q \in Keys, D[q] # Nil
        PROVE  D[q] \in NodesOf(d, l) /\ U.node[D[q]].key = q
    <3>1. q # k /\ D[q] = C[q]
      BY <2>3, <1>11
    <3>2. C[q] \in NodesOf(e, n) /\ L.node[C[q]].key = q
      BY <3>1, <2>3, <1>2 DEF Owns
    <3>3. C[q] # x
      BY <3>1, <3>2
    <3> HIDE DEF k, D
    <3> QED BY <3>1, <3>2, <3>3, <1>6, <1>7, <1>9
  <2> HIDE DEF D
  <2> QED BY <2>1, <2>2, <2>3 DEF Owns
<1>13. Mirrors(U, d, l, s)
  <2> SUFFICES ASSUME NEW i \in 1 .. l
               PROVE  s[i] = PairAt(U, d[l + 1 - i])
    BY DEF Mirrors
  <2>1. /\ i \in 1 .. n /\ n + 1 - i \in 1 .. n /\ n + 1 - i # 1
        /\ l + 1 - i \in 0 .. n /\ ~(l + 1 - i < 1)
        /\ (l + 1 - i) + 1 = n + 1 - i
    BY <1>3, <1>1
  <2>2. s[i] = PairAt(L, e[n + 1 - i])
    BY <2>1, <1>2 DEF Mirrors
  <2>3. d[l + 1 - i] = e[n + 1 - i]
    BY <2>1 DEF Dropped, d
  <2>4. e[n + 1 - i] # x /\ e[n + 1 - i] \in Heap
    BY <2>1, <1>1, <1>3 DEF x
  <2> QED BY <2>2, <2>3, <2>4, <1>9
<1> QED BY <1>4, <1>8, <1>12, <1>13 DEF Good2, d, l

-----------------------------------------------------------------------------
(* The steps of V2                                                         *)

LEMMA RewritesNode ==
  ASSUME NEW cap, NEW K, NEW V, NEW L \in ListType(cap, K, V),
         NEW x \in ArrayOf(cap)
  PROVE  \A v : Revalued(L, x, v) = Rewritten(L, x, L.node[x].key, v)
<1> DEFINE N(k, v) == [prev |-> L.node[x].prev, next |-> L.node[x].next,
                       key |-> k, value |-> v]
<1>3. ASSUME NEW k, NEW v
      PROVE  Rewritten(L, x, k, v)
               = [L EXCEPT !.node = [L.node EXCEPT ![x] = N(k, v)]]
  <2>1. Rewritten(L, x, k, v)
          = [L EXCEPT !.node = [L.node EXCEPT
                                  ![x] = [L.node[x] EXCEPT !.key = k, !.value = v]]]
    BY DEF Rewritten, ListType
  <2>2. [L.node[x] EXCEPT !.key = k, !.value = v] = N(k, v)
    <3> DEFINE r == L.node[x]
               q == [prev |-> r.prev, next |-> r.next, key |-> k, value |-> r.value]
    <3>1. r \in NodeType(cap, K, V)
      BY DEF ListType
    <3>2. [r EXCEPT !.key = k] = q
      BY <3>1 DEF NodeType
    <3>3. [r EXCEPT !.key = k, !.value = v] = [q EXCEPT !.value = v]
      BY <3>2
    <3>4. [q EXCEPT !.value = v] = N(k, v)
      OBVIOUS
    <3> QED BY <3>3, <3>4
  <2> HIDE DEF N
  <2> QED BY <2>1, <2>2
<1>5. ASSUME NEW v
      PROVE  Revalued(L, x, v)
               = [L EXCEPT !.node = [L.node EXCEPT ![x] = N(L.node[x].key, v)]]
  <2>1. Revalued(L, x, v)
          = [L EXCEPT !.node = [L.node EXCEPT
                                  ![x] = [L.node[x] EXCEPT !.value = v]]]
    BY DEF Revalued, ListType
  <2>2. [L.node[x] EXCEPT !.value = v] = N(L.node[x].key, v)
    BY DEF ListType, NodeType
  <2> HIDE DEF N
  <2> QED BY <2>1, <2>2
<1> HIDE DEF N
<1> QED BY <1>3, <1>5

\* A node of the thread gets a value.
LEMMA StrungRevalued ==
  ASSUME CachesAssumption, NEW L, NEW e, NEW n, Strung(L, e, n, {}),
         NEW x, x \in NodesOf(e, n), L.node[x].key \in KeyOrNone, NEW v \in Vals,
         NEW U, U = Revalued(L, x, v)
  PROVE  /\ Strung(U, e, n, {})
         /\ NewData(U, L, HeapSize, x, L.node[x].key, v)
<1> DEFINE k == L.node[x].key
<1>1. /\ n \in Nat /\ HeapSize \in Nat
      /\ \A i \in 1 .. n : e[i] \in Heap
  BY StrungTypes
<1>2. /\ L \in ListType(HeapSize, KeyOrNone, ValOrNone) /\ Thread(L, HeapSize, n, e)
      /\ \A y \in Heap : y \notin NodesOf(e, n) => L.node[y] = Raw
  BY DEF Strung
<1>3. x \in ArrayOf(HeapSize)
  BY <1>1 DEF NodesOf, Heap
<1>4. U = Rewritten(L, x, k, v)
  <2> QED BY <1>2, <1>3, RewritesNode
<1>5. k \in KeyOrNone /\ v \in ValOrNone
  BY DEF ValOrNone
<1> HIDE DEF k
<1>6. /\ U \in ListType(HeapSize, KeyOrNone, ValOrNone)
      /\ NextOf(U) = NextOf(L) /\ PrevOf(U) = PrevOf(L)
      /\ NewData(U, L, HeapSize, x, k, v)
  BY <1>1, <1>2, <1>3, <1>4, <1>5, RewrittenEffect
<1>7. Thread(U, HeapSize, n, e)
  BY <1>2, <1>6, ThreadKept
<1>8. \A y \in Heap : y # x => U.node[y] = L.node[y]
  BY <1>2, <1>4 DEF Rewritten, ListType, Heap
<1>9. \A y \in Heap : y \notin NodesOf(e, n) \cup {} => U.node[y] = Raw
  BY <1>2, <1>8
<1> QED BY <1>6, <1>7, <1>9 DEF Strung, k

Absent(s, n, k) == \A i \in 1 .. n : s[i].key # k

\* The node of the p-th pair of the order.
LEMMA OwnedNode ==
  ASSUME CachesAssumption, NEW L, NEW C, NEW e, NEW n, NEW s,
         Good2(L, C, e, n, s), NEW p \in 1 .. n, NEW k \in Keys, s[p].key = k
  PROVE  /\ n + 1 - p \in 1 .. n /\ C[k] = e[n + 1 - p]
         /\ C[k] # Nil /\ C[k] \in Heap
         /\ L.node[C[k]].key = k /\ L.node[C[k]].value \in Vals
         /\ s[p] = Paired(k, L.node[C[k]].value)
<1> DEFINE q == n + 1 - p
<1>1. /\ n \in Nat /\ HeapSize \in Nat
      /\ \A i \in 1 .. n : e[i] \in Heap /\ e[i] \in NodesOf(e, n)
  BY StrungTypes DEF Good2
<1>2. q \in 1 .. n
  BY <1>1
<1>3. C[k] = e[q] /\ C[k] # Nil
  BY OwnedPlace
<1>4. e[q] \in Heap /\ e[q] \in NodesOf(e, n)
  BY <1>1, <1>2
<1>5. L.node[C[k]].key = k /\ L.node[C[k]].value \in Vals
  BY <1>3, <1>4 DEF Good2, Owns
<1>6. s[p] = Paired(k, L.node[C[k]].value)
  BY <1>3, <1>5 DEF Good2, Mirrors, PairAt
<1> QED BY <1>2, <1>3, <1>4, <1>5, <1>6

\* The node at the back is one of the thread.
LEMMA BackedHas ==
  ASSUME NEW n \in Nat, NEW e, NEW q \in 1 .. n
  PROVE  e[q] \in NodesOf(Backed(e, n, q), n)
<1>1. Backed(e, n, q)[n] = e[q] /\ n \in 1 .. n
  BY DEF Backed, Spliced
<1> QED BY <1>1 DEF NodesOf

\* get.
LEMMA OwnedGet ==
  ASSUME CachesAssumption, NEW e, NEW n, NEW s, Good2(list2, cache2, e, n, s),
         NEW k \in Keys, V2!get(k), NEW t,
         \/ \E p \in 1 .. n : s[p].key = k /\ Renews(s, t, n, p, s[p])
         \/ Absent(s, n, k) /\ t = s
  PROVE  /\ \E g : Good2(list2', cache2', g, n, t)
         /\ \A p \in 1 .. n : s[p].key = k => ret2' = s[p].value
         /\ Absent(s, n, k) => ret2' = Failed
<1> DEFINE C == cache2
           L == list2
<1>1. CASE C[k] = Nil
  <2>1. Absent(s, n, k)
    BY <1>1, OwnedPlace DEF Absent
  <2>2. list2' = L /\ cache2' = C /\ ret2' = Failed
    BY <1>1, SameNodes2 DEF V2!get
  <2>3. t = s
    BY <2>1 DEF Absent
  <2>4. Good2(list2', cache2', e, n, t)
    BY <2>2, <2>3
  <2> QED BY <2>1, <2>2, <2>4 DEF Absent
<1>2. CASE C[k] # Nil
  <2>1. ~Absent(s, n, k)
    BY <1>2, OwnedPlace DEF Absent
  <2>2. PICK p \in 1 .. n : s[p].key = k /\ Renews(s, t, n, p, s[p])
    BY <2>1
  <2>3. /\ list2' = push_back_internal(Unlink(L, C[k]), C[k])
        /\ cache2' = C /\ ret2' = L.node[C[k]].value
    BY <1>2, SameNodes2 DEF V2!get, V2!pushNode, V2!removeNode
  <2> DEFINE v == L.node[C[k]].value
             g == Backed(e, n, n + 1 - p)
  <2>4. /\ Strung(list2', g, n, {}) /\ SameData(list2', L, HeapSize)
        /\ L.node[C[k]].key = k /\ v \in Vals
        /\ s[p] = Paired(k, v)
    <3> DEFINE q == n + 1 - p
    <3>1. /\ q \in 1 .. n /\ C[k] = e[q]
          /\ L.node[C[k]].key = k /\ v \in Vals
          /\ s[p] = Paired(k, v)
      BY <2>2, OwnedNode
    <3>2. Strung(L, e, n, {}) /\ list2' = push_back_internal(Unlink(L, e[q]), e[q])
      BY <2>3, <3>1 DEF Good2
    <3> HIDE DEF q, L, C
    <3>3. Strung(list2', Backed(e, n, q), n, {}) /\ SameData(list2', L, HeapSize)
      BY <3>1, <3>2, StrungTurned
    <3> QED BY <3>1, <3>3 DEF q
  <2>5. NewData(list2', L, HeapSize, C[k], k, v)
    BY <2>4 DEF SameData, NewData
  <2> HIDE DEF C, L, v, g
  <2>6. Good2(list2', C, g, n, t)
    <3>1. /\ Good2(L, C, e, n, s) /\ s[p].key = k
          /\ Renews(s, t, n, p, Paired(k, v))
          /\ Strung(list2', Backed(e, n, n + 1 - p), n, {})
      BY <2>2, <2>4 DEF C, L, g
    <3>2. v \in Vals
      BY <2>4
    <3>3. Good2(list2', C, Backed(e, n, n + 1 - p), n, t)
      BY ONLY CachesAssumption, k \in Keys, p \in 1 .. n, <2>5, <3>1, <3>2, OwnedRenewed
    <3> QED BY <3>3 DEF g
  <2>7. \E f : Good2(list2', cache2', f, n, t)
    BY <2>3, <2>6
  <2>8. \A i \in 1 .. n : s[i].key = k => ret2' = s[i].value
    BY <2>3, OwnedPlace DEF C, L
  <2> QED BY <2>1, <2>7, <2>8
<1> QED BY <1>1, <1>2

\* put of a cached key.
LEMMA OwnedRefreshed ==
  ASSUME CachesAssumption, NEW e, NEW n, NEW s, Good2(list2, cache2, e, n, s),
         NEW k \in Keys, NEW v \in Vals, V2!PutRefresh(k, v), NEW t,
         NEW p \in 1 .. n, s[p].key = k,
         Renews(s, t, n, p, Paired(k, v))
  PROVE  \E g : Good2(list2', cache2', g, n, t)
<1> DEFINE C == cache2
           L == list2
           g == Backed(e, n, n + 1 - p)
           x == C[k]
           W == push_back_internal(Unlink(L, x), x)
<1>1. /\ list2' = [W EXCEPT !.node[x].value = v] /\ cache2' = C
  BY SameNodes2 DEF V2!PutRefresh, V2!pushNode, V2!removeNode
<1>2. /\ Strung(W, g, n, {}) /\ SameData(W, L, HeapSize)
      /\ x \in NodesOf(g, n) /\ L.node[x].key = k /\ x \in Heap
  <2> DEFINE q == n + 1 - p
  <2>1. /\ q \in 1 .. n /\ x = e[q] /\ L.node[x].key = k /\ x \in Heap
    BY ONLY CachesAssumption, Good2(list2, cache2, e, n, s), p \in 1 .. n,
            k \in Keys, s[p].key = k, OwnedNode
  <2>2. Strung(L, e, n, {}) /\ W = push_back_internal(Unlink(L, e[q]), e[q])
    BY <2>1 DEF Good2
  <2> HIDE DEF q, L, C, W, x
  <2>3. Strung(W, Backed(e, n, q), n, {}) /\ SameData(W, L, HeapSize)
    BY <2>1, <2>2, StrungTurned
  <2>4. n \in Nat
    BY <2>2, StrungTypes
  <2>5. x \in NodesOf(Backed(e, n, q), n)
    BY <2>1, <2>4, BackedHas
  <2> QED BY <2>1, <2>3, <2>5 DEF q
<1> HIDE DEF C, L, g, x, W
<1>3. W.node[x].key = k /\ k \in KeyOrNone
  BY <1>2 DEF SameData, Heap, KeyOrNone
<1>4. list2' = Revalued(W, x, v)
  BY <1>1 DEF Revalued
<1>5. /\ Strung(list2', g, n, {})
      /\ NewData(list2', W, HeapSize, x, W.node[x].key, v)
  BY <1>2, <1>3, <1>4, StrungRevalued
<1>6. NewData(list2', L, HeapSize, x, k, v)
  BY <1>2, <1>3, <1>5 DEF NewData, SameData
<1>7. Good2(list2', C, g, n, t)
  <2>1. /\ Good2(L, C, e, n, s) /\ NewData(list2', L, HeapSize, C[k], k, v)
        /\ Strung(list2', Backed(e, n, n + 1 - p), n, {})
    BY <1>5, <1>6 DEF C, L, g, x
  <2>2. Good2(list2', C, Backed(e, n, n + 1 - p), n, t)
    BY <2>1, OwnedRenewed
  <2> QED BY <2>2 DEF g
<1> QED BY <1>1, <1>7

\* put of a new key, into a cache that has room or has to make some.
LEMMA OwnedPut ==
  ASSUME CacheAssumption, CachesAssumption,
         NEW e, NEW n, NEW s, Good2(list2, cache2, e, n, s),
         NEW k \in Keys, NEW v \in Vals, V2!PutNew(k, v),
         NEW t, NEW m,
         \/ n = Capacity /\ m = n /\ Renews(s, t, n, n, Paired(k, v))
         \/ n < Capacity /\ m = n + 1 /\ Adds(s, t, n, Paired(k, v))
  PROVE  \E g : Good2(list2', cache2', g, m, t)
<1> DEFINE x == Paired(k, v)
           E == V2!Evicted(list2, cache2)
           rest == IF V2!size(cache2) >= Capacity THEN E
                   ELSE [list |-> list2, cache |-> cache2]
           R == rest.list
           D == rest.cache
<1>1. /\ cache2[k] = Nil
      /\ \E a \in Heap :
           /\ R.node[a] = Raw
           /\ list2' = push_back_internal(
                         Written(R, a, Node(Nil, Nil, k, v)), a)
           /\ cache2' = [D EXCEPT ![k] = a]
  BY SameNodes2 DEF V2!PutNew, V2!pushNode, V2!Heap, Heap, ArrayOf, Written
<1>2. /\ n \in Nat /\ V2!size(cache2) = n /\ Capacity \in Nat \ {0}
  BY StrungTypes, OwnedCount DEF Good2, CacheAssumption
<1>3. \E d, l : /\ Good2(R, D, d, l, s) /\ D[k] = Nil /\ l + 1 = m
                /\ l \in Nat /\ Adds(s, t, l, x)
  <2>1. CASE n < Capacity
    <3>1. R = list2 /\ D = cache2
      BY <2>1, <1>2
    <3> HIDE DEF R, D, x
    <3>2. Good2(R, D, e, n, s) /\ D[k] = Nil /\ n + 1 = m /\ Adds(s, t, n, x)
      BY <2>1, <3>1, <1>1, <1>2 DEF x
    <3> QED BY <3>2, <1>2
  <2>2. CASE n = Capacity
    <3>1. R = E.list /\ D = E.cache /\ n # 0
      BY <2>2, <1>2
    <3>2. Good2(E.list, E.cache, Dropped(e, n, 1), n - 1, s)
      BY <3>1, OwnedEvicted
    <3>3. E.cache[k] = Nil
      <4>1. cache2 \in [Keys -> Heap \cup {Nil}]
        BY DEF Good2, Owns
      <4>2. \E q : E.cache = [cache2 EXCEPT ![q] = Nil]
        BY SameNodes2 DEF V2!Evicted
      <4> HIDE DEF E
      <4> QED BY <4>1, <4>2, <1>1
    <3>4. n - 1 \in Nat /\ (n - 1) + 1 = m /\ m = n
      BY <2>2, <1>2
    <3>5. Adds(s, t, n - 1, x)
      <4>1. Renews(s, t, n, n, x)
        BY <2>2, <1>2
      <4> SUFFICES ASSUME NEW i \in 1 .. (n - 1) + 1
                   PROVE  t[i] = IF i = 1 THEN x ELSE s[i - 1]
        BY DEF Adds
      <4>2. i \in 1 .. n /\ i <= n
        BY <1>2
      <4> HIDE DEF x
      <4> QED BY <4>1, <4>2 DEF Renews
    <3> HIDE DEF E, R, D, x
    <3> QED BY <3>1, <3>2, <3>3, <3>4, <3>5
  <2> QED BY <2>1, <2>2
<1> HIDE DEF R, D
<1>4. PICK d, l : /\ Good2(R, D, d, l, s) /\ D[k] = Nil /\ l + 1 = m
                  /\ l \in Nat /\ Adds(s, t, l, x)
  BY <1>3
<1>5. PICK a \in Heap :
        /\ R.node[a] = Raw
        /\ list2' = push_back_internal(
                      Written(R, a, Node(Nil, Nil, k, v)), a)
        /\ cache2' = [D EXCEPT ![k] = a]
  BY <1>1
<1>6. Good2(list2', cache2', Spliced(d, l, l, a), l + 1, t)
  BY <1>4, <1>5, OwnedAdded
<1> QED BY <1>4, <1>6

\* The cache is constructed.
LEMMA OwnedInit ==
  ASSUME CachesAssumption, V2!Init, NEW s
  PROVE  Good2(list2, cache2, EndsOnly, 0, s) /\ ret2 = Failed
<1>1. /\ list2 = EmptyList(HeapSize) /\ cache2 = [k \in Keys |-> Nil]
      /\ ret2 = Failed
  BY SameNodes2 DEF V2!Init
<1>2. HeapSize \in Nat
  BY DEF CachesAssumption
<1>3. Whole(EmptyList(HeapSize), HeapSize, Keys, Vals, 0, EndsOnly, 0, NoneFree, {})
  BY <1>2, WholeEmpty
<1>4. \A y \in Heap : list2.node[y] = Raw
  BY <1>1 DEF EmptyList, Heap, ArrayOf
<1>5. Strung(list2, EndsOnly, 0, {})
  BY <1>1, <1>3, <1>4 DEF Whole, Strung, KeyOrNone, ValOrNone
<1>6. NodesOf(EndsOnly, 0) = {}
  BY DEF NodesOf
<1>7. Owns(cache2, list2, EndsOnly, 0)
  BY <1>1, <1>6 DEF Owns
<1>8. Mirrors(list2, EndsOnly, 0, s)
  BY DEF Mirrors
<1> QED BY <1>1, <1>5, <1>7, <1>8 DEF Good2

\* What MapOwnsNodes and AnswersAgree say of it.
LEMMA OwnedMeans ==
  ASSUME CacheAssumption, CachesAssumption,
         NEW e, NEW n, NEW s, Good2(list2, cache2, e, n, s)
  PROVE  /\ V2!MapOwnsNodes
         /\ Backward(list2) = [i \in 1 .. n |-> e[n + 1 - i]]
         /\ Contents(list2, Backward(list2)) = [i \in 1 .. n |-> s[i]]
<1>1. /\ HeapSize \in Nat /\ n \in Nat
      /\ \A i \in 1 .. n : e[i] \in Heap /\ e[i] \in NodesOf(e, n)
  BY StrungTypes DEF Good2
<1>2. /\ list2 \in ListType(HeapSize, KeyOrNone, ValOrNone) /\ Thread(list2, HeapSize, n, e)
      /\ \A y \in Heap : y \notin NodesOf(e, n) => list2.node[y] = Raw
      /\ Owns(cache2, list2, e, n) /\ Mirrors(list2, e, n, s)
  BY DEF Good2, Strung
<1>3. Backward(list2) = [i \in 1 .. n |-> e[n + 1 - i]]
  BY <1>1, <1>2, BackwardIs
<1>4. Contents(list2, Backward(list2)) = [i \in 1 .. n |-> s[i]]
  BY <1>2, <1>3 DEF Contents, Mirrors, PairAt, Paired
<1>5. LinkedNodes(list2) = NodesOf(e, n)
  <2>1. /\ HeapSize \in Nat /\ list2 \in ListType(HeapSize, KeyOrNone, ValOrNone)
        /\ Thread(list2, HeapSize, n, e)
    BY <1>1, <1>2
  <2>2. LinkedNodes(list2) = {e[i] : i \in 1 .. n}
    BY ONLY <2>1, ForwardIs
  <2> QED BY <2>2 DEF NodesOf
<1>6. \A y \in NodesOf(e, n) : y \in Heap /\ y # Nil
  BY <1>1, NodePointers DEF NodesOf, Heap
<1>7. V2!Allocated = NodesOf(e, n)
  <2>1. V2!Allocated = {y \in Heap : list2.node[y] # Raw}
    BY SameNodes2 DEF V2!Allocated, V2!Heap, Heap, ArrayOf
  <2>2. \A y \in NodesOf(e, n) : list2.node[y] # Raw
    <3>1. Raw.key = Nothing
      BY DEF Raw, Node
    <3>2. Nothing \notin Keys
      BY DEF CacheAssumption
    <3> QED BY <1>2, <3>1, <3>2 DEF Owns
  <2> QED BY <2>1, <2>2, <1>2, <1>6
<1>8. NodesOf(e, n) = {cache2[k] : k \in Keys} \ {Nil}
  <2>1. \A y \in NodesOf(e, n) : \E k \in Keys : cache2[k] = y
    BY <1>2 DEF Owns
  <2>2. \A k \in Keys : cache2[k] # Nil => cache2[k] \in NodesOf(e, n)
    BY <1>2 DEF Owns
  <2> DEFINE M == {cache2[k] : k \in Keys}
  <2>3. \A y : y \in M <=> \E k \in Keys : y = cache2[k]
    OBVIOUS
  <2> HIDE DEF M
  <2>4. \A y : y \in NodesOf(e, n) <=> y \in M /\ y # Nil
    BY ONLY <2>1, <2>2, <2>3, <1>6
  <2>5. NodesOf(e, n) = M \ {Nil}
    BY ONLY <2>4
  <2> QED BY <2>5 DEF M
<1>9. \A k \in Keys : cache2[k] # Nil =>
        cache2[k] \in NodesOf(e, n) /\ list2.node[cache2[k]].key = k
  BY <1>2 DEF Owns
<1>10. V2!MapOwnsNodes
  <2>0. \A L : V2!LinkedNodes(L) = LinkedNodes(L)
    BY ONLY SameNodes2, Zenon
  <2>1. V2!LinkedNodes(list2) = NodesOf(e, n)
    BY ONLY <2>0, <1>5
  <2>2. V2!Nil = Nil
    BY ONLY SameNodes2, Zenon
  <2>3. \A k \in Keys : cache2[k] # V2!Nil =>
          cache2[k] \in V2!Allocated /\ list2.node[cache2[k]].key = k
    BY <2>2, <1>7, <1>9
  <2>4. V2!Allocated = {cache2[k] : k \in Keys} \ {V2!Nil}
    BY <2>2, <1>7, <1>8
  <2>5. V2!Allocated = V2!LinkedNodes(list2)
    BY <2>1, <1>7
  <2> QED BY ONLY <2>3, <2>4, <2>5 DEF V2!MapOwnsNodes
<1> QED BY <1>3, <1>4, <1>10

-----------------------------------------------------------------------------
(* LRUCache                                                                *)

P == INSTANCE LRUHashTableProofs
       WITH table <- cache, Values <- Slots, NoValue <- Nil,
            TableCapacity <- calc_capacity(Capacity)

-----------------------------------------------------------------------------
(* The table                                                               *)

\* Doubling arrives at a capacity that is enough, whatever it starts from
\* (calc_capacity).
LEMMA CapacityIsEnough ==
  ASSUME CacheAssumption
  PROVE  /\ calc_capacity(Capacity) \in Nat \ {0}
         /\ calc_capacity(Capacity) >= Capacity
<1> DEFINE Doubles(g) ==
             g = [i \in Nat |-> IF i = 0 THEN DefaultTableCapacity
                                ELSE 2 * g[i - 1]]
           d == CHOOSE g : Doubles(g)
           Positive == Nat \ {0}
           double == [x \in Positive |-> 2 * x]
           S == {i \in 0 .. Capacity : d[i] >= Capacity}
<1>1. DefaultTableCapacity \in Positive /\ Capacity \in Positive
  BY DEF CacheAssumption
<1>2. PICK h \in [Nat -> Positive] :
        /\ h[0] = DefaultTableCapacity
        /\ \A n \in Nat : h[n + 1] = double[h[n]]
  <2>1. double \in [Positive -> Positive]
    OBVIOUS
  <2>2. DefaultTableCapacity \in Positive
    BY <1>1
  <2> HIDE DEF double, Positive
  <2>3. \E h \in [Nat -> Positive] :
          h[0] = DefaultTableCapacity /\ \A n \in Nat : h[n + 1] = double[h[n]]
    BY ONLY <2>1, <2>2, Recursion
  <2> QED BY <2>3
<1>3. Doubles(h)
  <2>1. ASSUME NEW n \in Nat
        PROVE  h[n] = IF n = 0 THEN DefaultTableCapacity ELSE 2 * h[n - 1]
    <3>1. CASE n # 0
      <4>1. n - 1 \in Nat /\ (n - 1) + 1 = n
        BY <3>1
      <4> QED BY <1>2, <3>1, <4>1
    <3> QED BY <1>2, <3>1
  <2> QED BY <1>2, <2>1
<1>4. Doubles(d)
  <2> HIDE DEF Doubles
  <2> QED BY <1>3
<1>5. calc_capacity(Capacity) = d[Least(S)]
  BY DEF calc_capacity
<1> HIDE DEF d
<1>6. d[0] = DefaultTableCapacity /\ \A n \in Nat : d[n + 1] = 2 * d[n]
  <2>1. \A i \in Nat : d[i] = IF i = 0 THEN DefaultTableCapacity
                              ELSE 2 * d[i - 1]
    BY <1>4
  <2>2. \A n \in Nat : n + 1 \in Nat /\ n + 1 # 0 /\ (n + 1) - 1 = n
    OBVIOUS
  <2> QED BY <2>1, <2>2
<1>7. \A n \in Nat : d[n] \in Nat /\ d[n] > n
  <2> DEFINE Large == {n \in Nat : d[n] \in Nat /\ d[n] > n}
  <2>1. 0 \in Large
    BY <1>1, <1>6
  <2>2. ASSUME NEW n \in Nat, n \in Large
        PROVE  n + 1 \in Large
    BY <1>6, <2>2
  <2> HIDE DEF Large
  <2>3. Nat \subseteq Large
    BY <2>1, <2>2, SetInduction
  <2> QED BY <2>3 DEF Large
<1>8. S \in SUBSET Nat /\ S # {}
  <2>1. Capacity \in S
    BY <1>1, <1>7
  <2> QED BY <2>1, <1>1
<1>9. Least(S) \in S
  <2> HIDE DEF S
  <2> QED BY <1>8, LeastIsLeast
<1> QED BY <1>1, <1>5, <1>7, <1>9

LEMMA TableAssumed ==
  ASSUME CacheAssumption
  PROVE  P!TableAssumption
BY CapacityIsEnough DEF CacheAssumption, P!TableAssumption, Slots, Nil

\* The table's operations, under the name LRUCache knows them by and under the
\* one the lemmas are about.
LEMMA SameSearches ==
  ASSUME NEW C, NEW k
  PROVE  /\ T!Index = P!Index /\ T!UnusedKey = P!UnusedKey
         /\ T!EmptyKey = P!EmptyKey
         /\ \A marks : /\ T!Meets1(C, k, marks) = P!Meets1(C, k, marks)
                       /\ T!First1(C, k, marks) = P!First1(C, k, marks)
                       /\ T!Meets2(C, k, marks) = P!Meets2(C, k, marks)
                       /\ T!First2(C, k, marks) = P!First2(C, k, marks)
<1>1. /\ T!Index = P!Index /\ T!UnusedKey = P!UnusedKey
      /\ T!EmptyKey = P!EmptyKey
  BY DEF T!Index, P!Index, T!UnusedKey, P!UnusedKey, T!EmptyKey, P!EmptyKey
<1>2. T!Window(k) = P!Window(k)
  BY <1>1 DEF T!Window, P!Window, T!getHash1, P!getHash1
<1>3. \A n : T!Probe(k, n) = P!Probe(k, n)
  BY DEF T!Probe, P!Probe, T!getHash2, P!getHash2
<1>4. \A marks : /\ T!Meets1(C, k, marks) = P!Meets1(C, k, marks)
                 /\ T!First1(C, k, marks) = P!First1(C, k, marks)
  BY <1>2 DEF T!Meets1, P!Meets1, T!First1, P!First1
<1>5. \A marks : /\ T!Meets2(C, k, marks) = P!Meets2(C, k, marks)
                 /\ T!First2(C, k, marks) = P!First2(C, k, marks)
  BY <1>1, <1>3 DEF T!Meets2, P!Meets2, T!First2, P!First2
<1> QED BY <1>1, <1>4, <1>5

LEMMA SameFind ==
  ASSUME NEW C, NEW k
  PROVE  /\ T!find(C, k) = P!find(C, k)
         /\ T!Lookup(C, k) = P!Lookup(C, k)
         /\ T!NotFound = P!NotFound
         /\ T!Hit1(C, k) = P!Hit1(C, k) /\ T!Hit2(C, k) = P!Hit2(C, k)
         /\ T!End1(C, k) = P!End1(C, k) /\ T!End2(C, k) = P!End2(C, k)
         /\ T!Stop1(C, k) = P!Stop1(C, k) /\ T!Stop2(C, k) = P!Stop2(C, k)
<1>1. T!Stop1(C, k) = P!Stop1(C, k) /\ T!Stop2(C, k) = P!Stop2(C, k)
  BY SameSearches DEF T!Stop1, P!Stop1, T!Stop2, P!Stop2
<1>2. /\ T!Hit1(C, k) = P!Hit1(C, k) /\ T!Hit2(C, k) = P!Hit2(C, k)
      /\ T!End1(C, k) = P!End1(C, k) /\ T!End2(C, k) = P!End2(C, k)
  BY <1>1, SameSearches
     DEF T!Hit1, P!Hit1, T!Hit2, P!Hit2, T!End1, P!End1, T!End2, P!End2
<1>3. T!find(C, k) = P!find(C, k) /\ T!NotFound = P!NotFound
  BY <1>1, <1>2 DEF T!find, P!find, T!NotFound, P!NotFound
<1> QED
  BY <1>1, <1>2, <1>3 DEF T!Lookup, P!Lookup, T!NodeAt, P!NodeAt

LEMMA SameChanges ==
  ASSUME NEW C, NEW k
  PROVE  /\ \A v : T!Inserted(C, k, v) = P!Inserted(C, k, v)
         /\ T!Removed(C, k) = P!Removed(C, k)
<1>1. \A U, i, v : /\ T!Put1(U, i, k, v) = P!Put1(U, i, k, v)
                   /\ T!Put2(U, i, k, v) = P!Put2(U, i, k, v)
                   /\ T!Grown(U) = P!Grown(U)
  BY DEF T!Put1, P!Put1, T!Put2, P!Put2, T!Grown, P!Grown
<1>2. \A v : T!Recycled(C, k, v) = P!Recycled(C, k, v)
  BY <1>1, SameSearches DEF T!Recycled, P!Recycled
<1>3. \A v : T!Inserted(C, k, v) = P!Inserted(C, k, v)
  BY <1>1, <1>2, SameFind DEF T!Inserted, P!Inserted
<1>4. T!Removed(C, k) = P!Removed(C, k)
  BY SameFind, SameSearches DEF T!Removed, P!Removed
<1> QED BY <1>3, <1>4

\* A key is found in a table exactly when the table gives a node for it.
LEMMA FoundHasNode ==
  ASSUME CacheAssumption, NEW C, P!Sound(C), NEW k \in Keys
  PROVE  /\ (T!find(C, k) = T!NotFound) <=> (T!Lookup(C, k) = Nil)
         /\ P!Held(C, k) <=> T!Lookup(C, k) # Nil
<1>1. P!Layout(C)
  BY DEF P!Sound
<1>2. P!Held(C, k) <=> P!Lookup(C, k) # Nil
  BY <1>1, TableAssumed, P!HeldHasValue DEF P!HeldHasValue
<1>3. ~P!Held(C, k) => P!find(C, k) = P!NotFound
  BY <1>1, TableAssumed, P!FindIsSlot DEF P!FindIsSlot
<1>4. P!find(C, k) = P!NotFound => P!Lookup(C, k) = Nil
  BY DEF P!Lookup
<1> QED BY <1>2, <1>3, <1>4, SameFind

\* An insertion in a table that holds fewer keys than the cache has nodes.
LEMMA TableInserted ==
  ASSUME CacheAssumption, NEW C, P!Sound(C), C.size < Capacity,
         NEW k \in Keys, NEW x \in Slots, T!Lookup(C, k) = Nil,
         NEW U, U = T!Inserted(C, k, x)
  PROVE  /\ P!Sound(U) /\ U.size = C.size + 1
         /\ T!Lookup(U, k) = x
         /\ \A q \in Keys \ {k} : T!Lookup(U, q) = T!Lookup(C, q)
<1>1. U = P!Inserted(C, k, x)
  BY SameChanges
<1>2. ~P!NoRoom(C, U, k)
  <2>1. \/ ~(\A i \in P!Index : C.second[i].key \in Keys)
        \/ C.size >= calc_capacity(Capacity)
    BY TableAssumed, P!NoRoomIsFull DEF P!NoRoomIsFull
  <2>2. C.size \in Int
    BY DEF P!Sound, P!Layout, P!Slotted
  <2>3. ~(C.size >= calc_capacity(Capacity))
    BY <2>2, CapacityIsEnough DEF CacheAssumption
  <2> QED BY <2>1, <2>3 DEF P!NoRoom
<1>3. ~P!Held(C, k)
  BY FoundHasNode
<1>4. P!Sound(U)
  BY <1>1, TableAssumed, P!InsertedSound DEF P!InsertedSound
<1>5. U.size = C.size + 1
  BY <1>1, <1>2, <1>3, TableAssumed, P!SizeInserted DEF P!SizeInserted
<1>6. /\ P!Lookup(U, k) = x
      /\ \A q \in Keys \ {k} : P!Lookup(U, q) = P!Lookup(C, q)
  BY <1>1, <1>2, TableAssumed, P!LookupInserted DEF P!LookupInserted
<1> QED BY <1>4, <1>5, <1>6, SameFind

LEMMA TableRemoved ==
  ASSUME CacheAssumption, NEW C, P!Sound(C),
         NEW k \in Keys, T!Lookup(C, k) # Nil, NEW U, U = T!Removed(C, k)
  PROVE  /\ P!Sound(U) /\ U.size = C.size - 1
         /\ T!Lookup(U, k) = Nil
         /\ \A q \in Keys \ {k} : T!Lookup(U, q) = T!Lookup(C, q)
<1>1. U = P!Removed(C, k) /\ P!Held(C, k)
  BY SameChanges, FoundHasNode
<1>2. P!Sound(U)
  BY <1>1, TableAssumed, P!RemovedSound DEF P!RemovedSound
<1>3. /\ P!Lookup(U, k) = Nil /\ U.size = C.size - 1
      /\ \A q \in Keys \ {k} : P!Lookup(U, q) = P!Lookup(C, q)
  BY <1>1, TableAssumed, P!LookupRemoved DEF P!LookupRemoved
<1> QED BY <1>2, <1>3, SameFind

LEMMA TableEmpty ==
  ASSUME CacheAssumption
  PROVE  /\ P!Sound(T!EmptyTable) /\ T!EmptyTable.size = 0
         /\ \A k \in Keys : T!Lookup(T!EmptyTable, k) = Nil
<1>1. T!EmptyTable = P!EmptyTable
  BY SameSearches DEF T!EmptyTable, P!EmptyTable, T!Unused, P!Unused
<1>2. P!Sound(T!EmptyTable)
  BY <1>1, TableAssumed, P!EmptyIsSound DEF P!EmptyIsSound
<1>3. T!EmptyTable.size = 0
  BY DEF T!EmptyTable
<1>4. \A k \in Keys : ~P!Held(T!EmptyTable, k)
  <2>1. \A i \in P!Index : /\ P!EmptyTable.first[i].key = P!UnusedKey
                          /\ P!EmptyTable.second[i].key = P!UnusedKey
    BY DEF P!EmptyTable, P!Unused
  <2>2. \A k \in Keys : \A n \in P!Index : P!Probe(k, n) \in P!Index
    BY TableAssumed, P!ProbeCovers DEF P!ProbeCovers
  <2>3. P!UnusedKey \notin Keys
    BY DEF P!UnusedKey, CacheAssumption
  <2> QED BY <1>1, <2>1, <2>2, <2>3 DEF P!Held, P!Holds1, P!Holds2
<1> QED BY <1>2, <1>3, <1>4, FoundHasNode

LEMMA TableTyped ==
  ASSUME CacheAssumption, NEW C, P!Sound(C)
  PROVE  C \in T!Table
<1>1. T!Table = P!Table
  BY SameSearches DEF T!Table, P!Table, T!HashNode, P!HashNode
<1>2. P!Cardinality(P!Occupied(C)) \in Nat
  BY TableAssumed, P!OccupiedFinite DEF P!OccupiedFinite
<1>3. C \in P!Table
  BY <1>2 DEF P!Sound, P!Layout, P!SizeCounts, P!Slotted, P!Table
<1> QED BY <1>1, <1>3

-----------------------------------------------------------------------------
(* The list of a cache                                                     *)

\* The nodes in use are linked, along the thread e, and no node is free.
Chain(L, e) == Whole(L, Capacity, Keys, Vals, L.size, e, 0, NoneFree, {})

LEMMA ChainIs ==
  ASSUME CacheAssumption, NEW L, NEW e, Chain(L, e)
  PROVE  /\ L \in ListType(Capacity, Keys \cup {Nothing}, Vals \cup {Nothing})
         /\ L.size \in 0 .. Capacity /\ L.freeSize = 0 /\ L.freeHead = Nil
         /\ \A y : y \in NodesOf(e, L.size) <=> y \in 0 .. L.size - 1
         /\ \A p \in 1 .. L.size : e[p] \in 0 .. L.size - 1 /\ e[p] \in Slots
         /\ \A p, q \in 1 .. L.size : e[p] = e[q] => p = q
         /\ \A x \in 0 .. L.size - 1 :
              /\ L.node[x].key \in Keys /\ L.node[x].value \in Vals
              /\ x \in Slots
<1>1. Capacity \in Nat
  BY DEF CacheAssumption
<1>2. /\ L \in ListType(Capacity, Keys \cup {Nothing}, Vals \cup {Nothing})
      /\ L.size <= Capacity /\ Thread(L, Capacity, L.size, e)
      /\ FreeThread(L, Capacity, 0, NoneFree) /\ L.freeSize = 0
      /\ Separate(L.size, NodesOf(e, L.size), NodesOf(NoneFree, 0), {})
      /\ \A x \in 0 .. L.size - 1 : L.node[x].key \in Keys /\ L.node[x].value \in Vals
  BY DEF Chain, Whole
<1>3. L.size \in 0 .. Capacity
  BY <1>1, <1>2 DEF Thread
<1>4. \A y : y \in NodesOf(e, L.size) <=> y \in 0 .. L.size - 1
  <2>1. NodesOf(NoneFree, 0) = {}
    BY DEF NodesOf
  <2> QED BY <2>1, <1>2 DEF Separate
<1>5. \A p \in 1 .. L.size : e[p] \in NodesOf(e, L.size)
  BY DEF NodesOf
<1>6. \A x \in 0 .. L.size - 1 : x \in Slots
  BY <1>1, <1>3 DEF Slots
<1>7. L.freeHead = Nil
  BY <1>2 DEF FreeThread, NoneFree
<1> QED BY <1>2, <1>3, <1>4, <1>5, <1>6, <1>7 DEF Thread

LEMMA ChainEmpty ==
  ASSUME CacheAssumption
  PROVE  Chain(EmptyList(Capacity), EndsOnly) /\ EmptyList(Capacity).size = 0
<1>1. Capacity \in Nat
  BY DEF CacheAssumption
<1>2. Whole(EmptyList(Capacity), Capacity, Keys, Vals, 0, EndsOnly, 0, NoneFree, {})
  BY <1>1, WholeEmpty
<1>3. EmptyList(Capacity).size = 0
  BY DEF EmptyList
<1> QED BY <1>2, <1>3 DEF Chain

LEMMA ChainFronted ==
  ASSUME CacheAssumption, NEW L, NEW e, Chain(L, e),
         NEW p \in 1 .. L.size, NEW U, U = move_to_front(L, e[p])
  PROVE  /\ Chain(U, Fronted(e, L.size, p)) /\ U.size = L.size
         /\ SameData(U, L, Capacity)
<1> DEFINE n == L.size
<1>1. Capacity \in Nat
  BY DEF CacheAssumption
<1>2. Whole(L, Capacity, Keys, Vals, n, e, 0, NoneFree, {}) /\ p \in 1 .. n
  BY DEF Chain
<1>3. /\ Whole(U, Capacity, Keys, Vals, n, Fronted(e, n, p), 0, NoneFree, {})
      /\ SameButLinks(U, L)
  <2> HIDE DEF n
  <2> QED BY <1>1, <1>2, WholeFronted
<1>4. U.size = n
  BY <1>3 DEF SameButLinks
<1>5. DOMAIN L.node = ArrayOf(Capacity)
  BY <1>2 DEF Whole, ListType
<1> QED BY <1>3, <1>4, <1>5 DEF Chain, SameButLinks, SameData

LEMMA ChainRewritten ==
  ASSUME CacheAssumption, NEW L, NEW e, Chain(L, e),
         NEW x \in 0 .. L.size - 1, NEW k \in Keys, NEW v \in Vals,
         NEW U, U = Rewritten(L, x, k, v)
  PROVE  /\ Chain(U, e) /\ U.size = L.size
         /\ NewData(U, L, Capacity, x, k, v)
<1> DEFINE n == L.size
<1>1. Capacity \in Nat
  BY DEF CacheAssumption
<1>2. Whole(L, Capacity, Keys, Vals, n, e, 0, NoneFree, {})
  BY DEF Chain
<1>3. /\ Whole(U, Capacity, Keys, Vals, n, e, 0, NoneFree, {})
      /\ U.size = L.size
      /\ NewData(U, L, Capacity, x, k, v)
  <2> HIDE DEF n
  <2> QED BY <1>1, <1>2, WholeRewritten
<1> QED BY <1>3 DEF Chain

LEMMA ChainAdded ==
  ASSUME CacheAssumption, NEW L, NEW e, Chain(L, e), L.size < Capacity,
         NEW k \in Keys, NEW v \in Vals, NEW U, U = PushedFront(L, k, v)
  PROVE  /\ NewNode(L) = L.size
         /\ Chain(U, Spliced(e, L.size, 0, L.size)) /\ U.size = L.size + 1
         /\ NewData(U, L, Capacity, L.size, k, v)
<1> DEFINE n == L.size
           x == NewNode(L)
           C == Created(L, k, v)
           loose == {} \cup {x}
<1>1. Capacity \in Nat /\ L.freeSize = 0 /\ n \in Nat
  BY ChainIs DEF CacheAssumption
<1>2. Whole(L, Capacity, Keys, Vals, n, e, 0, NoneFree, {})
  BY DEF Chain
<1>3. /\ Whole(C, Capacity, Keys, Vals, n, e, 0, NoneFree, loose)
      /\ x = L.size /\ C.size = L.size + 1
      /\ x \notin NodesOf(e, n) /\ x \notin {} /\ x \in ArrayOf(Capacity)
      /\ NewData(C, L, Capacity, x, k, v)
  <2>1. x = NewNode(L) /\ C = Created(L, k, v)
    OBVIOUS
  <2> HIDE DEF n, x, C
  <2> QED BY <2>1, <1>1, <1>2, WholeTaken
<1>4. U = push_front_internal(C, x)
  BY DEF PushedFront
<1>5. x \in loose /\ loose \ {x} = {}
  OBVIOUS
<1> HIDE DEF x, C, loose
<1>6. U = LinkBetween(C, x, e[0], e[0 + 1])
  <2> HIDE DEF n
  <2> QED BY <1>1, <1>3, <1>4, WholeEnds
<1>7. 0 \in 0 .. n
  BY <1>1
<1>8. /\ Whole(U, Capacity, Keys, Vals, n + 1, Spliced(e, n, 0, x), 0, NoneFree,
               loose \ {x})
      /\ SameButLinks(U, C)
  <2> HIDE DEF n
  <2> QED BY <1>1, <1>3, <1>5, <1>6, <1>7, WholeLinked
<1>9. U.size = n + 1
  BY <1>3, <1>8 DEF SameButLinks
<1>10. Chain(U, Spliced(e, n, 0, n))
  BY <1>3, <1>5, <1>8, <1>9 DEF Chain
<1>11. DOMAIN C.node = ArrayOf(Capacity)
  BY <1>3 DEF Whole, ListType
<1>12. NewData(U, L, Capacity, n, k, v)
  BY <1>3, <1>8, <1>11 DEF SameButLinks, NewData
<1> QED BY <1>3, <1>9, <1>10, <1>12 DEF x

-----------------------------------------------------------------------------
(* The table and the list of a cache                                       *)

\* The table leads from the key of each node in use to that node, and from no
\* other key to any node.
Matches(L, C) ==
  /\ C.size = L.size
  /\ \A x \in 0 .. L.size - 1 : T!Lookup(C, L.node[x].key) = x
  /\ \A k \in Keys :
       T!Lookup(C, k) # Nil => /\ T!Lookup(C, k) \in 0 .. L.size - 1
                                /\ L.node[T!Lookup(C, k)].key = k

\* Nodes that move keep their keys, as does one that is overwritten with a key
\* it holds already.
LEMMA MatchesMoved ==
  ASSUME NEW L, NEW C, Matches(L, C), NEW U, U.size = L.size,
         \A x \in 0 .. L.size - 1 : U.node[x].key = L.node[x].key
  PROVE  Matches(U, C)
BY DEF Matches

\* A new node, for a key the table does not hold (add).
LEMMA MatchesAdded ==
  ASSUME CacheAssumption, NEW L, NEW e, Chain(L, e), NEW C, P!Sound(C),
         Matches(L, C), L.size < Capacity,
         NEW k \in Keys, NEW v, T!Lookup(C, k) = Nil,
         NEW U, U.size = L.size + 1, NewData(U, L, Capacity, L.size, k, v),
         NEW D, D = T!Inserted(C, k, L.size)
  PROVE  Matches(U, D) /\ P!Sound(D)
<1> DEFINE n == L.size
<1>1. /\ n \in Nat /\ Capacity \in Nat
      /\ \A x \in 0 .. n - 1 : L.node[x].key \in Keys /\ x \in Slots
  BY ChainIs DEF CacheAssumption
<1>2. n \in Slots /\ C.size = n
  BY <1>1 DEF Slots, Matches
<1>3. /\ P!Sound(D) /\ D.size = n + 1 /\ T!Lookup(D, k) = n
      /\ \A q \in Keys \ {k} : T!Lookup(D, q) = T!Lookup(C, q)
  BY <1>2, TableInserted
<1>4. /\ U.node[n].key = k
      /\ \A x \in 0 .. n - 1 : U.node[x].key = L.node[x].key /\ x # n
  BY <1>1, <1>2 DEF NewData, ArrayOf, Slots
<1>5. \A x \in 0 .. n : T!Lookup(D, U.node[x].key) = x
  <2>1. ASSUME NEW x \in 0 .. n - 1
        PROVE  T!Lookup(D, U.node[x].key) = x
    <3>1. T!Lookup(C, L.node[x].key) = x /\ x # Nil
      BY DEF Matches, Nil
    <3>2. L.node[x].key \in Keys \ {k}
      BY <3>1, <1>1
    <3> QED BY <3>1, <3>2, <1>3, <1>4
  <2>2. \A x \in 0 .. n : x \in 0 .. n - 1 \/ x = n
    BY <1>1
  <2> QED BY <2>1, <2>2, <1>3, <1>4
<1>6. ASSUME NEW q \in Keys, T!Lookup(D, q) # Nil
      PROVE  T!Lookup(D, q) \in 0 .. n /\ U.node[T!Lookup(D, q)].key = q
  <2>1. CASE q = k
    BY <2>1, <1>1, <1>3, <1>4
  <2>2. CASE q # k
    <3>1. T!Lookup(D, q) = T!Lookup(C, q)
      BY <2>2, <1>3
    <3>2. T!Lookup(C, q) \in 0 .. n - 1 /\ L.node[T!Lookup(C, q)].key = q
      BY <3>1, <1>6 DEF Matches
    <3> QED BY <3>1, <3>2, <1>1, <1>4
  <2> QED BY <2>1, <2>2
<1>7. U.size - 1 = n
  BY <1>1
<1> QED BY <1>3, <1>5, <1>6, <1>7 DEF Matches

\* A node in use changes its key: the old key leaves the table, the new one
\* enters it (touch).
LEMMA MatchesReplaced ==
  ASSUME CacheAssumption, NEW L, NEW e, Chain(L, e), NEW C, P!Sound(C),
         Matches(L, C), NEW x \in 0 .. L.size - 1,
         NEW k \in Keys, NEW v, T!Lookup(C, k) = Nil,
         NEW U, U.size = L.size, NewData(U, L, Capacity, x, k, v),
         NEW D, D = T!Inserted(T!Removed(C, L.node[x].key), k, x)
  PROVE  Matches(U, D) /\ P!Sound(D)
<1> DEFINE n == L.size
           old == L.node[x].key
           R == T!Removed(C, old)
<1>1. /\ n \in Nat /\ n <= Capacity /\ Capacity \in Nat
      /\ \A y \in 0 .. n - 1 : L.node[y].key \in Keys /\ y \in Slots
  BY ChainIs DEF CacheAssumption
<1>2. /\ old \in Keys /\ T!Lookup(C, old) = x /\ x # Nil /\ old # k
      /\ C.size = n
  BY <1>1 DEF Matches, Nil
<1>3. /\ P!Sound(R) /\ R.size = n - 1 /\ T!Lookup(R, old) = Nil
      /\ \A q \in Keys \ {old} : T!Lookup(R, q) = T!Lookup(C, q)
  <2> HIDE DEF R, old
  <2>1. R = T!Removed(C, old)
    BY DEF R
  <2> QED BY <2>1, <1>2, TableRemoved
<1> HIDE DEF R
<1>4. /\ P!Sound(D) /\ T!Lookup(D, k) = x /\ D.size = n
      /\ \A q \in Keys \ {k} : T!Lookup(D, q) = T!Lookup(R, q)
  <2>1. /\ D = T!Inserted(R, k, x) /\ x \in Slots /\ R.size < Capacity
        /\ T!Lookup(R, k) = Nil
    BY <1>1, <1>2, <1>3 DEF R
  <2>2. /\ P!Sound(D) /\ T!Lookup(D, k) = x /\ D.size = R.size + 1
        /\ \A q \in Keys \ {k} : T!Lookup(D, q) = T!Lookup(R, q)
    BY <2>1, <1>3, TableInserted
  <2> QED BY <2>2, <1>1, <1>3
<1>5. \A y \in 0 .. n - 1 : U.node[y].key = IF y = x THEN k ELSE L.node[y].key
  BY <1>1 DEF NewData, ArrayOf, Slots
<1>6. ASSUME NEW y \in 0 .. n - 1
      PROVE  T!Lookup(D, U.node[y].key) = y
  <2>1. CASE y = x
    BY <2>1, <1>4, <1>5
  <2>2. CASE y # x
    <3> DEFINE q == L.node[y].key
    <3>1. T!Lookup(C, q) = y /\ y # Nil /\ q \in Keys
      BY <1>1 DEF Matches, Nil
    <3>2. q # k /\ q # old
      BY <3>1, <2>2, <1>2
    <3>3. T!Lookup(D, q) = T!Lookup(C, q)
      BY <3>1, <3>2, <1>3, <1>4
    <3> QED BY <3>1, <3>3, <2>2, <1>5
  <2> QED BY <2>1, <2>2
<1>7. ASSUME NEW q \in Keys, T!Lookup(D, q) # Nil
      PROVE  /\ T!Lookup(D, q) \in 0 .. n - 1
             /\ U.node[T!Lookup(D, q)].key = q
  <2>1. CASE q = k
    BY <2>1, <1>4, <1>5
  <2>2. CASE q # k
    <3>1. T!Lookup(D, q) = T!Lookup(R, q) /\ q # old
      BY <2>2, <1>3, <1>4, <1>7
    <3>2. T!Lookup(D, q) = T!Lookup(C, q)
      BY <3>1, <1>3
    <3>3. T!Lookup(C, q) \in 0 .. n - 1 /\ L.node[T!Lookup(C, q)].key = q
      BY <3>2, <1>7 DEF Matches
    <3>4. T!Lookup(C, q) # x
      BY <3>1, <3>3
    <3> QED BY <3>2, <3>3, <3>4, <1>5
  <2> QED BY <2>1, <2>2
<1> QED BY <1>4, <1>6, <1>7 DEF Matches

-----------------------------------------------------------------------------
(* What the cache holds, in order                                          *)

PairsOf(L) ==
  [x \in ArrayOf(Capacity) |->
     [key |-> L.node[x].key, value |-> L.node[x].value]]

\* Order, for any list.
OrderOf(L) ==
  LET f == Forward(L)
  IN  [i \in DOMAIN f |->
         [key |-> L.node[f[i]].key, value |-> L.node[f[i]].value]]

LEMMA OrderIs ==
  ASSUME CacheAssumption, NEW L, NEW e, Chain(L, e)
  PROVE  /\ OrderOf(L) = Along(PairsOf(L), e, L.size)
         /\ DOMAIN OrderOf(L) = 1 .. L.size /\ Len(OrderOf(L)) = L.size
         /\ \A i \in 1 .. L.size :
              /\ OrderOf(L)[i] = PairsOf(L)[e[i]]
              /\ OrderOf(L)[i].key = L.node[e[i]].key
              /\ OrderOf(L)[i].value = L.node[e[i]].value
         /\ LinkedNodes(L) = NodesOf(e, L.size) /\ Len(Forward(L)) = L.size
<1> DEFINE n == L.size
           K0 == Keys \cup {Nothing}
           V0 == Vals \cup {Nothing}
<1>1. /\ Capacity \in Nat /\ L \in ListType(Capacity, K0, V0)
      /\ Thread(L, Capacity, n, e)
  BY DEF CacheAssumption, Chain, Whole
<1>2. /\ n \in Nat /\ Forward(L) = [i \in 1 .. n |-> e[i]]
      /\ Len(Forward(L)) = n /\ LinkedNodes(L) = {e[i] : i \in 1 .. n}
  <2> HIDE DEF n, K0, V0
  <2> QED BY <1>1, ForwardIs
<1>3. OrderOf(L) = [i \in 1 .. n |-> [key |-> L.node[e[i]].key,
                                      value |-> L.node[e[i]].value]]
  BY <1>2 DEF OrderOf
<1>4. \A i \in 1 .. n : PairsOf(L)[e[i]] = [key |-> L.node[e[i]].key,
                                            value |-> L.node[e[i]].value]
  BY <1>1 DEF PairsOf, Thread
<1>5. OrderOf(L) = Along(PairsOf(L), e, n)
  BY <1>3, <1>4 DEF Along
<1>6. Len(Along(PairsOf(L), e, n)) = n
  <2> DEFINE c == PairsOf(L)
  <2> HIDE DEF c, n
  <2>1. Along(c, e, n) \in [1 .. n -> {c[e[i]] : i \in 1 .. n}]
    BY DEF Along
  <2>2. Len(Along(c, e, n)) = n
    BY <2>1, <1>2, IsSequence
  <2> QED BY <2>2 DEF c
<1>7. DOMAIN OrderOf(L) = 1 .. n /\ Len(OrderOf(L)) = n
  BY <1>3, <1>5, <1>6
<1>8. \A i \in 1 .. n : /\ OrderOf(L)[i] = PairsOf(L)[e[i]]
                         /\ OrderOf(L)[i].key = L.node[e[i]].key
                         /\ OrderOf(L)[i].value = L.node[e[i]].value
  <2> HIDE DEF n
  <2> QED BY <1>3, <1>4
<1>9. LinkedNodes(L) = NodesOf(e, n)
  BY <1>2 DEF NodesOf
<1> QED BY <1>2, <1>5, <1>7, <1>8, <1>9

\* What a read or a write leaves in front.
LEMMA OrderFronted ==
  ASSUME CacheAssumption, NEW L, NEW e, Chain(L, e), NEW p \in 1 .. L.size,
         NEW U, Chain(U, Fronted(e, L.size, p)), U.size = L.size
  PROVE  OrderOf(U) = <<PairsOf(U)[e[p]]>>
                        \o Along(PairsOf(U), Dropped(e, L.size, p), L.size - 1)
<1> DEFINE c == PairsOf(U)
           d == Dropped(e, L.size, p)
           l == L.size - 1
           g == Fronted(e, L.size, p)
           x == e[p]
<1>1. L.size \in Nat /\ l \in Nat /\ l + 1 = U.size
  BY ChainIs
<1>2. OrderOf(U) = Along(c, g, U.size)
  <2> HIDE DEF g
  <2>1. Chain(U, g)
    BY DEF g
  <2>2. OrderOf(U) = Along(PairsOf(U), g, U.size)
    BY ONLY CacheAssumption, <2>1, OrderIs
  <2> QED BY <2>2
<1>3. g = Spliced(d, l, 0, x)
  BY DEF Fronted
<1> HIDE DEF c, d, l, g, x
<1>4. Along(c, Spliced(d, l, 0, x), l + 1) = <<c[x]>> \o Along(c, d, l)
  BY <1>1, AlongFront
<1> QED BY <1>1, <1>2, <1>3, <1>4 DEF c, d, l, x

-----------------------------------------------------------------------------
(* The invariant                                                           *)

\* The list links the nodes in use, the table is sound and matches the list.
Good(e) ==
  /\ Chain(list, e) /\ P!Sound(cache) /\ Matches(list, cache)
  /\ ret \in Vals \cup {Failed}

IInv == \E e : Good(e)

\* A key that find meets has a node of the list, and no other key has.
LEMMA CachedNode ==
  ASSUME CacheAssumption, NEW e, Good(e), NEW k \in Keys
  PROVE  /\ Cached(k) <=> NodeOf(k) # Nil
         /\ Cached(k) => /\ NodeOf(k) \in 0 .. list.size - 1
                         /\ list.node[NodeOf(k)].key = k
                         /\ \E p \in 1 .. list.size : NodeOf(k) = e[p]
         /\ \A x \in 0 .. list.size - 1 :
              list.node[x].key = k => Cached(k) /\ NodeOf(k) = x
<1>1. Chain(list, e) /\ P!Sound(cache) /\ Matches(list, cache)
  BY DEF Good
<1>2. Cached(k) <=> NodeOf(k) # Nil
  BY <1>1, FoundHasNode DEF Cached, NodeOf
<1>3. Cached(k) => /\ NodeOf(k) \in 0 .. list.size - 1
                   /\ list.node[NodeOf(k)].key = k
  BY <1>1, <1>2 DEF Matches, NodeOf
<1>4. Cached(k) => \E p \in 1 .. list.size : NodeOf(k) = e[p]
  <2>1. \A y \in 0 .. list.size - 1 : y \in NodesOf(e, list.size)
    BY <1>1, ChainIs
  <2> QED BY <2>1, <1>3 DEF NodesOf
<1>5. \A x \in 0 .. list.size - 1 :
        list.node[x].key = k => Cached(k) /\ NodeOf(k) = x
  BY <1>1, <1>2 DEF Matches, NodeOf, Nil
<1> QED BY <1>2, <1>3, <1>4, <1>5

\* What the abstract cache sees: the same keys cached, and the pair of a key
\* taken out of the order where its node is taken out of the thread.
LEMMA AbstractIs ==
  ASSUME CacheAssumption, NEW e, Good(e), NEW k \in Keys
  PROVE  /\ Abstract!Cached(k) <=> Cached(k)
         /\ ~Cached(k) => Abstract!Others(k) = Order
         /\ \A p \in 1 .. list.size :
              Cached(k) /\ NodeOf(k) = e[p] =>
                /\ Abstract!PairOf(k) = PairsOf(list)[e[p]]
                /\ Abstract!Others(k)
                     = Along(PairsOf(list), Dropped(e, list.size, p),
                             list.size - 1)
<1> DEFINE n == list.size
           c == PairsOf(list)
<1>1. /\ Order = Along(c, e, n) /\ DOMAIN Order = 1 .. n /\ Len(Order) = n
      /\ \A i \in 1 .. n : /\ Order[i] = c[e[i]]
                           /\ Order[i].key = list.node[e[i]].key
  <2>1. Order = OrderOf(list) /\ Chain(list, e)
    BY DEF Order, OrderOf, Good
  <2> QED BY <2>1, OrderIs
<1>2. /\ \A i \in 1 .. n : e[i] \in 0 .. n - 1
      /\ \A i, j \in 1 .. n : e[i] = e[j] => i = j
      /\ n \in Nat
  BY ChainIs DEF Good
<1>3. \A i \in 1 .. n : Order[i].key = k => Cached(k) /\ NodeOf(k) = e[i]
  <2>1. \A x \in 0 .. n - 1 : list.node[x].key = k => Cached(k) /\ NodeOf(k) = x
    BY CachedNode
  <2> SUFFICES ASSUME NEW i \in 1 .. n, Order[i].key = k
               PROVE  Cached(k) /\ NodeOf(k) = e[i]
    OBVIOUS
  <2> HIDE DEF n, c
  <2>2. e[i] \in 0 .. n - 1 /\ list.node[e[i]].key = k
    BY <1>1, <1>2
  <2> QED BY ONLY <2>1, <2>2
<1>4. \A i \in 1 .. n : Cached(k) /\ NodeOf(k) = e[i] => Order[i].key = k
  BY <1>1, CachedNode
<1>5. Cached(k) => \E i \in 1 .. n : NodeOf(k) = e[i]
  BY CachedNode
<1> HIDE DEF n, c
<1>6. Abstract!Cached(k) <=> Cached(k)
  BY <1>1, <1>3, <1>4, <1>5 DEF Abstract!Cached
<1>7. ~Cached(k) => Abstract!Others(k) = Order
  BY <1>6 DEF Abstract!Others
<1>8. ASSUME NEW p \in 1 .. n, Cached(k), NodeOf(k) = e[p]
      PROVE  /\ Abstract!PairOf(k) = c[e[p]]
             /\ Abstract!Others(k) = Along(c, Dropped(e, n, p), n - 1)
  <2>1. \A i \in DOMAIN Order : Order[i].key = k <=> i = p
    BY <1>1, <1>2, <1>3, <1>4, <1>8
  <2>2. Abstract!PlaceOf(k) = p
    BY <2>1, <1>1 DEF Abstract!PlaceOf
  <2>3. Abstract!PairOf(k) = c[e[p]]
    BY <2>2, <1>1 DEF Abstract!PairOf
  <2>4. Abstract!Others(k)
          = [i \in 1 .. n - 1 |-> IF i < p THEN Order[i] ELSE Order[i + 1]]
    BY <2>2, <1>1, <1>6, <1>8 DEF Abstract!Others
  <2>5. Along(c, Dropped(e, n, p), n - 1)
          = [i \in 1 .. n - 1 |-> IF i < p THEN Along(c, e, n)[i]
                                  ELSE Along(c, e, n)[i + 1]]
    BY <1>2, AlongDropped
  <2> QED BY <2>3, <2>4, <2>5, <1>1
<1> QED BY <1>6, <1>7, <1>8 DEF n, c

\* The node of a thread that is overwritten and moved to the front.
LEMMA Renewed ==
  ASSUME CacheAssumption, NEW L, NEW e, Chain(L, e), NEW p \in 1 .. L.size,
         NEW k \in Keys, NEW v \in Vals,
         NEW U, U = move_to_front(Rewritten(L, e[p], k, v), e[p])
  PROVE  /\ Chain(U, Fronted(e, L.size, p)) /\ U.size = L.size
         /\ NewData(U, L, Capacity, e[p], k, v)
         /\ OrderOf(U) = <<[key |-> k, value |-> v]>>
                           \o Along(PairsOf(L), Dropped(e, L.size, p), L.size - 1)
<1> DEFINE n == L.size
           x == e[p]
           W == Rewritten(L, x, k, v)
           d == Dropped(e, n, p)
           l == n - 1
<1>1. /\ x \in 0 .. n - 1 /\ x \in Slots /\ n \in Nat /\ l \in Nat
      /\ \A i, j \in 1 .. n : e[i] = e[j] => i = j
      /\ \A y : y \in NodesOf(e, n) <=> y \in 0 .. n - 1
      /\ \A y \in 0 .. n - 1 : y \in Slots
  BY ChainIs
<1>2. Chain(W, e) /\ W.size = n /\ NewData(W, L, Capacity, x, k, v)
  BY <1>1, ChainRewritten
<1>3. /\ Chain(U, Fronted(e, n, p)) /\ U.size = n /\ SameData(U, W, Capacity)
  <2> HIDE DEF W, n
  <2>1. U = move_to_front(W, e[p]) /\ p \in 1 .. W.size
    BY <1>2 DEF W, n
  <2> QED BY <2>1, <1>2, ChainFronted
<1>4. NewData(U, L, Capacity, x, k, v)
  BY <1>2, <1>3 DEF NewData, SameData
<1>5. OrderOf(U) = <<PairsOf(U)[x]>> \o Along(PairsOf(U), d, l)
  BY <1>3, OrderFronted
<1>6. Slots = ArrayOf(Capacity)
  BY DEF Slots, ArrayOf
<1>7. PairsOf(U)[x] = [key |-> k, value |-> v]
  BY <1>1, <1>4, <1>6 DEF PairsOf, NewData
<1>8. \A y \in NodesOf(d, l) : PairsOf(U)[y] = PairsOf(L)[y]
  <2>1. \A y : y \in NodesOf(d, l) <=> y # x /\ y \in NodesOf(e, n)
    BY <1>1, DroppedNodes
  <2>2. \A y \in ArrayOf(Capacity) \ {x} : PairsOf(U)[y] = PairsOf(L)[y]
    BY <1>4 DEF PairsOf, NewData
  <2> HIDE DEF d, l, n, x
  <2> QED BY <2>1, <2>2, <1>1, <1>6
<1>9. Along(PairsOf(U), d, l) = Along(PairsOf(L), d, l)
  <2> HIDE DEF d, l
  <2> QED BY <1>1, <1>8, AlongSame
<1> QED BY <1>3, <1>4, <1>5, <1>7, <1>9

\* A read writes nothing, and a put of a cached key its value only.
LEMMA Rewrites ==
  ASSUME CacheAssumption, NEW L, NEW e, Chain(L, e), NEW x \in 0 .. L.size - 1
  PROVE  /\ L = Rewritten(L, x, L.node[x].key, L.node[x].value)
         /\ \A v : Revalued(L, x, v) = Rewritten(L, x, L.node[x].key, v)
<1> DEFINE K0 == Keys \cup {Nothing}
           V0 == Vals \cup {Nothing}
           N(k, v) == [prev |-> L.node[x].prev, next |-> L.node[x].next,
                       key |-> k, value |-> v]
<1>1. L \in ListType(Capacity, K0, V0) /\ x \in ArrayOf(Capacity)
  BY ChainIs DEF ArrayOf, Slots
<1> HIDE DEF K0, V0
<1>2. L.node[x] = N(L.node[x].key, L.node[x].value)
  BY <1>1 DEF ListType, NodeType
<1>3. ASSUME NEW k, NEW v
      PROVE  Rewritten(L, x, k, v)
               = [L EXCEPT !.node = [L.node EXCEPT ![x] = N(k, v)]]
  <2>1. Rewritten(L, x, k, v)
          = [L EXCEPT !.node = [L.node EXCEPT
                                  ![x] = [L.node[x] EXCEPT !.key = k, !.value = v]]]
    BY <1>1 DEF Rewritten, ListType
  <2>2. [L.node[x] EXCEPT !.key = k, !.value = v] = N(k, v)
    <3> DEFINE r == L.node[x]
               q == [prev |-> r.prev, next |-> r.next, key |-> k, value |-> r.value]
    <3>1. r \in NodeType(Capacity, K0, V0)
      BY <1>1 DEF ListType
    <3>2. [r EXCEPT !.key = k] = q
      BY <3>1 DEF NodeType
    <3>3. [r EXCEPT !.key = k, !.value = v] = [q EXCEPT !.value = v]
      BY <3>2
    <3>4. [q EXCEPT !.value = v] = N(k, v)
      OBVIOUS
    <3> QED BY <3>3, <3>4
  <2> HIDE DEF N
  <2> QED BY <2>1, <2>2
<1>4. L = [L EXCEPT !.node = [L.node EXCEPT ![x] = L.node[x]]]
  BY <1>1 DEF ListType
<1>5. ASSUME NEW v
      PROVE  Revalued(L, x, v)
               = [L EXCEPT !.node = [L.node EXCEPT ![x] = N(L.node[x].key, v)]]
  <2>1. Revalued(L, x, v)
          = [L EXCEPT !.node = [L.node EXCEPT
                                  ![x] = [L.node[x] EXCEPT !.value = v]]]
    BY <1>1 DEF Revalued, ListType
  <2>2. [L.node[x] EXCEPT !.value = v] = N(L.node[x].key, v)
    BY <1>1 DEF ListType, NodeType
  <2> HIDE DEF N
  <2> QED BY <2>1, <2>2
<1>6. L = Rewritten(L, x, L.node[x].key, L.node[x].value)
  <2> HIDE DEF N
  <2> QED BY <1>2, <1>3, <1>4
<1>7. \A v : Revalued(L, x, v) = Rewritten(L, x, L.node[x].key, v)
  <2> HIDE DEF N
  <2> QED BY <1>3, <1>5
<1> QED BY <1>6, <1>7

-----------------------------------------------------------------------------
(* The steps                                                               *)

LEMMA OrderNow ==
  ASSUME TRUE
  PROVE  Order = OrderOf(list) /\ Order' = OrderOf(list')
BY DEF Order, OrderOf

\* A key that is read or written again: its node gets the value, which a read
\* leaves as it is, and moves to the front.
LEMMA StepRenew ==
  ASSUME CacheAssumption, NEW e, Good(e), NEW k \in Keys, NEW v \in Vals,
         Cached(k), cache' = cache, ret' \in Vals \cup {Failed},
         list' = move_to_front(Rewritten(list, NodeOf(k), k, v), NodeOf(k))
  PROVE  /\ IInv'
         /\ Order' = <<[key |-> k, value |-> v]>> \o Abstract!Others(k)
<1> DEFINE n == list.size
<1>1. Chain(list, e) /\ P!Sound(cache) /\ Matches(list, cache)
  BY DEF Good
<1>2. PICK p \in 1 .. n : NodeOf(k) = e[p]
  BY CachedNode
<1>3. list.node[e[p]].key = k
  BY <1>2, CachedNode
<1>4. /\ Chain(list', Fronted(e, n, p)) /\ list'.size = n
      /\ NewData(list', list, Capacity, e[p], k, v)
      /\ OrderOf(list') = <<[key |-> k, value |-> v]>>
                            \o Along(PairsOf(list), Dropped(e, n, p), n - 1)
  <2>1. list' = move_to_front(Rewritten(list, e[p], k, v), e[p])
    BY <1>2
  <2> QED BY <1>1, <2>1, Renewed
<1>5. Abstract!Others(k) = Along(PairsOf(list), Dropped(e, n, p), n - 1)
  BY <1>2, AbstractIs
<1>6. \A x \in 0 .. n - 1 : list'.node[x].key = list.node[x].key
  <2>1. \A x \in 0 .. n - 1 : x \in Slots
    BY <1>1, ChainIs
  <2> QED BY <2>1, <1>3, <1>4 DEF NewData, Slots, ArrayOf
<1>7. Matches(list', cache')
  <2>1. Matches(list', cache)
    BY <1>1, <1>4, <1>6, MatchesMoved
  <2> QED BY <2>1
<1>8. Good(Fronted(e, n, p))'
  BY <1>1, <1>4, <1>7 DEF Good
<1> QED BY <1>4, <1>5, <1>8, OrderNow DEF IInv

LEMMA StepGet ==
  ASSUME CacheAssumption, IInv, NEW k \in Keys, get(k)
  PROVE  IInv' /\ Abstract!Get(k)
<1>1. PICK e : Good(e)
  BY DEF IInv
<1>2. CASE ~Cached(k)
  <2>1. /\ list' = list /\ cache' = cache /\ ret' = Failed
    BY <1>2 DEF get
  <2>2. Good(e)'
    BY <1>1, <2>1 DEF Good
  <2>3. Order' = Order
    BY <2>1, OrderNow
  <2>4. ~Abstract!Cached(k)
    BY <1>1, <1>2, AbstractIs
  <2> QED BY <2>1, <2>2, <2>3, <2>4 DEF IInv, Abstract!Get
<1>3. CASE Cached(k)
  <2> DEFINE x == NodeOf(k)
             v == list.node[x].value
  <2>1. /\ list' = move_to_front(list, x) /\ ret' = v /\ cache' = cache
    BY <1>3 DEF get
  <2>2. x \in 0 .. list.size - 1 /\ list.node[x].key = k
    BY <1>1, <1>3, CachedNode
  <2>3. Chain(list, e) /\ v \in Vals
    BY <1>1, <2>2, ChainIs DEF Good
  <2>4. list = Rewritten(list, x, k, v)
    <3>1. list = Rewritten(list, x, list.node[x].key, list.node[x].value)
      BY <2>2, <2>3, Rewrites
    <3> QED BY <3>1, <2>2
  <2>5. list' = move_to_front(Rewritten(list, x, k, v), x)
    BY <2>1, <2>4
  <2>6. /\ IInv'
        /\ Order' = <<[key |-> k, value |-> v]>> \o Abstract!Others(k)
    BY <1>1, <1>3, <2>1, <2>3, <2>5, StepRenew
  <2>7. Abstract!Cached(k)
    BY <1>1, <1>3, AbstractIs
  <2>8. Abstract!PairOf(k) = [key |-> k, value |-> v]
    <3>1. PICK p \in 1 .. list.size : x = e[p]
      BY <1>1, <1>3, CachedNode
    <3>2. Abstract!PairOf(k) = PairsOf(list)[e[p]]
      BY <1>1, <1>3, <3>1, AbstractIs
    <3>3. x \in ArrayOf(Capacity)
      BY <2>2, <2>3, ChainIs DEF Slots, ArrayOf
    <3> QED BY <3>1, <3>2, <3>3, <2>2 DEF PairsOf
  <2> QED BY <2>1, <2>6, <2>7, <2>8 DEF Abstract!Get
<1> QED BY <1>2, <1>3

\* What the abstract cache does for a pair that comes to the front, when the
\* pair fits and when the least recent one has to go.
LEMMA PutInFront ==
  ASSUME CacheAssumption, NEW k \in Keys, NEW v \in Vals, NEW S,
         NEW others \in Seq(S), [key |-> k, value |-> v] \in S,
         Abstract!Others(k) = others, ret' = ret,
         \/ /\ Len(others) < Capacity
            /\ Order' = <<[key |-> k, value |-> v]>> \o others
         \/ /\ Len(others) = Capacity
            /\ Order' = <<[key |-> k, value |-> v]>>
                          \o [i \in 1 .. Capacity - 1 |-> others[i]]
  PROVE  Abstract!Put(k, v)
<1> DEFINE x == [key |-> k, value |-> v]
           longer == <<x>> \o others
           cut == [i \in 1 .. Capacity - 1 |-> others[i]]
<1>1. /\ Capacity \in Nat \ {0} /\ Len(others) \in Nat
  BY DEF CacheAssumption
<1>2. /\ Len(longer) = Len(others) + 1 /\ longer \in Seq(S)
      /\ \A i \in 1 .. Len(others) + 1 :
           longer[i] = IF i = 1 THEN x ELSE others[i - 1]
  <2> HIDE DEF x
  <2>1. x \in S
    BY DEF x
  <2> QED BY <1>1, <2>1
<1>3. CASE Len(others) < Capacity /\ Order' = longer
  <2> HIDE DEF longer
  <2>1. ~(Len(longer) > Capacity)
    BY <1>1, <1>2, <1>3
  <2> QED BY <2>1, <1>3 DEF Abstract!Put, longer
<1>4. CASE Len(others) = Capacity /\ Order' = <<x>> \o cut
  <2>1. cut \in Seq(S) /\ Len(cut) = Capacity - 1
    <3>1. \A i \in 1 .. Capacity - 1 : others[i] \in S
      BY <1>1, <1>4
    <3> DEFINE m == Capacity - 1
    <3>2. cut \in [1 .. m -> S] /\ m \in Nat
      BY <3>1, <1>1
    <3> HIDE DEF cut, m
    <3>3. cut \in Seq(S) /\ Len(cut) = m
      BY <3>2, IsSequence
    <3> QED BY <3>3 DEF m
  <2>2. \A i \in 1 .. Capacity - 1 : cut[i] = others[i]
    OBVIOUS
  <2> HIDE DEF cut, longer, x
  <2>3. /\ Len(<<x>> \o cut) = Capacity
        /\ \A i \in 1 .. Capacity : (<<x>> \o cut)[i] = longer[i]
    <3>1. x \in S
      BY DEF x
    <3> QED BY <3>1, <2>1, <2>2, <1>1, <1>2, <1>4
  <2>4. /\ Len(SubSeq(longer, 1, Capacity)) = Capacity
        /\ \A i \in 1 .. Capacity : SubSeq(longer, 1, Capacity)[i] = longer[i]
    BY <1>1, <1>2, <1>4
  <2>5. SubSeq(longer, 1, Capacity) = <<x>> \o cut
    <3>1. SubSeq(longer, 1, Capacity) \in Seq(S) /\ <<x>> \o cut \in Seq(S)
      <4>1. x \in S
        BY DEF x
      <4> QED BY <4>1, <2>1, <1>1, <1>2, <1>4
    <3> QED BY <3>1, <2>3, <2>4, SeqEqual
  <2>6. Len(longer) > Capacity
    BY <1>1, <1>2, <1>4
  <2> QED BY <2>5, <2>6, <1>4 DEF Abstract!Put, longer, x
<1> QED BY <1>3, <1>4

LEMMA StepRefresh ==
  ASSUME CacheAssumption, IInv, NEW k \in Keys, NEW v \in Vals,
         Refresh(k, v), ret' = ret
  PROVE  IInv' /\ Abstract!Put(k, v)
<1>1. PICK e : Good(e)
  BY DEF IInv
<1> DEFINE x == NodeOf(k)
           n == list.size
           c == PairsOf(list)
<1>2. /\ Cached(k) /\ cache' = cache
      /\ list' = move_to_front([list EXCEPT !.node[x].value = v], x)
  BY DEF Refresh
<1>3. x \in 0 .. n - 1 /\ list.node[x].key = k
  BY <1>1, <1>2, CachedNode
<1>4. Chain(list, e) /\ ret' \in Vals \cup {Failed}
  BY <1>1 DEF Good
<1>5. list' = move_to_front(Rewritten(list, x, k, v), x)
  <2> HIDE DEF x
  <2>1. Revalued(list, x, v) = Rewritten(list, x, list.node[x].key, v)
    BY <1>3, <1>4, Rewrites
  <2>2. list' = move_to_front(Revalued(list, x, v), x)
    BY <1>2 DEF Revalued
  <2> QED BY <2>1, <2>2, <1>3
<1>6. /\ IInv'
      /\ Order' = <<[key |-> k, value |-> v]>> \o Abstract!Others(k)
  BY <1>1, <1>2, <1>4, <1>5, StepRenew
<1>7. PICK p \in 1 .. n : x = e[p]
  BY <1>1, <1>2, CachedNode
<1>8. /\ n \in 0 .. Capacity /\ Capacity \in Nat
      /\ \A i \in 1 .. n : e[i] \in Slots /\ e[i] \in 0 .. n - 1
      /\ \A y \in 0 .. n - 1 : list.node[y].key \in Keys /\ list.node[y].value \in Vals
  BY <1>4, ChainIs DEF CacheAssumption
<1> DEFINE d == Dropped(e, n, p)
           l == n - 1
           others == Along(c, d, l)
<1>9. Abstract!Others(k) = others
  BY <1>1, <1>2, <1>7, AbstractIs
<1>10. others \in Seq([key : Keys, value : Vals]) /\ Len(others) = l
  <2>1. l \in Nat /\ n \in Nat /\ p \in 1 .. n
    BY <1>7, <1>8
  <2>2. \A i \in 1 .. l : c[d[i]] \in [key : Keys, value : Vals]
    <3>1. ASSUME NEW i \in 1 .. l
          PROVE  \E j \in 1 .. n : d[i] = e[j]
      <4>1. d[i] = e[i] \/ d[i] = e[i + 1]
        BY <2>1 DEF Dropped
      <4>2. i \in 1 .. n /\ i + 1 \in 1 .. n
        BY <2>1
      <4> QED BY <4>1, <4>2
    <3>2. \A j \in 1 .. n : c[e[j]] \in [key : Keys, value : Vals]
      BY <1>8 DEF PairsOf, Slots, ArrayOf
    <3> QED BY <3>1, <3>2
  <2> HIDE DEF c, d, l
  <2>3. others \in [1 .. l -> [key : Keys, value : Vals]]
    BY <2>2 DEF Along
  <2> QED BY <2>1, <2>3, IsSequence
<1>11. Len(others) < Capacity
  BY <1>7, <1>8, <1>10
<1> QED
  <2> HIDE DEF others
  <2> QED BY <1>6, <1>9, <1>10, <1>11, PutInFront

\* The key of a cache that is full takes the node at the back.
LEMMA StepTouch ==
  ASSUME CacheAssumption, IInv, NEW k \in Keys, NEW v \in Vals,
         touch(k, v), ret' = ret
  PROVE  IInv' /\ Abstract!Put(k, v)
<1>1. PICK e : Good(e)
  BY DEF IInv
<1> DEFINE n == list.size
           x == back(list)
           c == PairsOf(list)
           S == [key : Keys, value : Vals]
<1>2. /\ ~Cached(k) /\ SizeOf(list) >= Capacity /\ x # Nil
      /\ cache' = IF k # list.node[x].key
                  THEN T!Inserted(T!Removed(cache, list.node[x].key), k, x)
                  ELSE cache
      /\ list' = move_to_front([list EXCEPT !.node[x].key = k,
                                            !.node[x].value = v], x)
  BY DEF touch
<1>3. Chain(list, e) /\ P!Sound(cache) /\ Matches(list, cache)
      /\ ret' \in Vals \cup {Failed}
  BY <1>1 DEF Good
<1>4. /\ n \in 0 .. Capacity /\ Capacity \in Nat \ {0} /\ list.freeSize = 0
      /\ \A i \in 1 .. n : e[i] \in Slots /\ e[i] \in 0 .. n - 1
      /\ \A y \in 0 .. n - 1 : list.node[y].key \in Keys /\ list.node[y].value \in Vals
  BY <1>3, ChainIs DEF CacheAssumption
<1>5. n = Capacity /\ n \in 1 .. n
  BY <1>2, <1>4 DEF SizeOf
<1>6. x = e[n]
  <2>1. Whole(list, Capacity, Keys, Vals, n, e, 0, NoneFree, {}) /\ Capacity \in Nat
    BY <1>3, <1>4 DEF Chain
  <2> HIDE DEF n
  <2>2. list.tail.prev = e[n]
    BY <2>1, WholeEnds
  <2> QED BY <2>2, <1>2 DEF back
<1> HIDE DEF x
<1>7. x \in 0 .. n - 1 /\ list.node[x].key # k
  <2>1. x \in 0 .. n - 1
    BY <1>4, <1>5, <1>6
  <2> QED BY <2>1, <1>1, <1>2, CachedNode
<1>8. list' = move_to_front(Rewritten(list, e[n], k, v), e[n])
  <2>1. [list EXCEPT !.node[x].key = k, !.node[x].value = v]
          = Rewritten(list, x, k, v)
    BY DEF Rewritten
  <2> QED BY <2>1, <1>2, <1>6
<1>9. /\ Chain(list', Fronted(e, n, n)) /\ list'.size = n
      /\ NewData(list', list, Capacity, e[n], k, v)
      /\ OrderOf(list') = <<[key |-> k, value |-> v]>>
                            \o Along(c, Dropped(e, n, n), n - 1)
  <2> DEFINE p == n
  <2>1. p \in 1 .. list.size
    BY <1>5
  <2>2. list' = move_to_front(Rewritten(list, e[p], k, v), e[p])
    BY <1>8
  <2> HIDE DEF p
  <2>3. /\ Chain(list', Fronted(e, list.size, p)) /\ list'.size = list.size
        /\ NewData(list', list, Capacity, e[p], k, v)
        /\ OrderOf(list') = <<[key |-> k, value |-> v]>>
             \o Along(PairsOf(list), Dropped(e, list.size, p), list.size - 1)
    BY <2>1, <2>2, <1>3, Renewed
  <2> QED BY <2>3 DEF p
<1>10. Matches(list', cache') /\ P!Sound(cache')
  <2>1. cache' = T!Inserted(T!Removed(cache, list.node[x].key), k, x)
    BY <1>2, <1>7
  <2>2. T!Lookup(cache, k) = Nil
    BY <1>1, <1>2, CachedNode DEF NodeOf
  <2>3. NewData(list', list, Capacity, x, k, v)
    BY <1>6, <1>9
  <2> QED BY <2>1, <2>2, <2>3, <1>3, <1>7, <1>9, MatchesReplaced
<1>11. IInv'
  <2>1. Good(Fronted(e, n, n))'
    BY <1>3, <1>9, <1>10 DEF Good
  <2> QED BY <2>1 DEF IInv
<1>12. /\ Abstract!Others(k) = Order /\ Order = Along(c, e, n)
       /\ Len(Order) = n
  <2>1. Order = Along(c, e, n) /\ Len(Order) = n
    BY <1>3, OrderIs, OrderNow
  <2> QED BY <2>1, <1>1, <1>2, AbstractIs
<1>13. Order \in Seq(S)
  <2>1. \A i \in 1 .. n : c[e[i]] \in S
    BY <1>4 DEF PairsOf, Slots, ArrayOf
  <2> HIDE DEF c, S, n
  <2>2. Along(c, e, n) \in [1 .. n -> S] /\ n \in Nat
    BY <2>1, <1>4 DEF Along
  <2>3. Along(c, e, n) \in Seq(S)
    BY <2>2, IsSequence
  <2> QED BY <2>3, <1>12
<1>14. Along(c, Dropped(e, n, n), n - 1) = [i \in 1 .. Capacity - 1 |-> Order[i]]
  <2>1. \A i \in 1 .. n - 1 : Dropped(e, n, n)[i] = e[i] /\ i \in 1 .. n
    BY <1>4 DEF Dropped
  <2>2. \A i \in 1 .. n : Order[i] = c[e[i]]
    BY <1>12 DEF Along
  <2> HIDE DEF c
  <2> QED BY <2>1, <2>2, <1>5 DEF Along
<1>15. Order' = <<[key |-> k, value |-> v]>>
                  \o [i \in 1 .. Capacity - 1 |-> Order[i]]
  BY <1>9, <1>14, OrderNow
<1>16. [key |-> k, value |-> v] \in S
  OBVIOUS
<1> QED
  <2> HIDE DEF S
  <2> QED BY <1>5, <1>11, <1>12, <1>13, <1>15, <1>16, PutInFront

\* A new key while nodes are left gets the next one.
LEMMA StepAdd ==
  ASSUME CacheAssumption, IInv, NEW k \in Keys, NEW v \in Vals,
         add(k, v), ret' = ret
  PROVE  IInv' /\ Abstract!Put(k, v)
<1>1. PICK e : Good(e)
  BY DEF IInv
<1> DEFINE n == list.size
           c == PairsOf(list)
           b == PairsOf(list')
           d == Spliced(e, n, 0, n)
           S == [key : Keys, value : Vals]
<1>2. /\ ~Cached(k) /\ SizeOf(list) < Capacity
      /\ list' = PushedFront(list, k, v)
      /\ cache' = T!Inserted(cache, k, NewNode(list))
  BY DEF add
<1>3. Chain(list, e) /\ P!Sound(cache) /\ Matches(list, cache)
      /\ ret' \in Vals \cup {Failed}
  BY <1>1 DEF Good
<1>4. /\ n \in Nat /\ n < Capacity /\ Capacity \in Nat
      /\ \A i \in 1 .. n : e[i] \in Slots /\ e[i] \in 0 .. n - 1
      /\ \A y : y \in NodesOf(e, n) <=> y \in 0 .. n - 1
      /\ \A y \in 0 .. n - 1 : list.node[y].key \in Keys /\ list.node[y].value \in Vals
      /\ \A y \in 0 .. n - 1 : y \in Slots
  <2>1. list.freeSize = 0 /\ n \in 0 .. Capacity
    BY <1>3, ChainIs
  <2> QED BY <2>1, <1>2, <1>3, ChainIs DEF SizeOf, CacheAssumption
<1>5. /\ NewNode(list) = n
      /\ Chain(list', d) /\ list'.size = n + 1
      /\ NewData(list', list, Capacity, n, k, v)
  BY <1>2, <1>3, <1>4, ChainAdded
<1>6. Matches(list', cache') /\ P!Sound(cache')
  <2>1. T!Lookup(cache, k) = Nil
    BY <1>1, <1>2, CachedNode DEF NodeOf
  <2>2. cache' = T!Inserted(cache, k, list.size)
    BY <1>2, <1>5
  <2> QED BY <2>1, <2>2, <1>3, <1>4, <1>5, MatchesAdded
<1>7. IInv'
  <2>1. PICK g : g = d
    OBVIOUS
  <2>2. Good(g)'
    BY <2>1, <1>3, <1>5, <1>6 DEF Good
  <2> QED BY <2>2 DEF IInv
<1>8. /\ Abstract!Others(k) = Order /\ Order = Along(c, e, n)
      /\ Len(Order) = n
  <2>1. Order = Along(c, e, n) /\ Len(Order) = n
    BY <1>3, OrderIs, OrderNow
  <2> QED BY <2>1, <1>1, <1>2, AbstractIs
<1>9. Order \in Seq(S)
  <2>1. \A i \in 1 .. n : c[e[i]] \in S
    BY <1>4 DEF PairsOf, Slots, ArrayOf
  <2> HIDE DEF c, S, n
  <2>2. Along(c, e, n) \in [1 .. n -> S] /\ n \in Nat
    BY <2>1, <1>4 DEF Along
  <2>3. Along(c, e, n) \in Seq(S)
    BY <2>2, IsSequence
  <2> QED BY <2>3, <1>8
<1>10. Order' = <<b[n]>> \o Along(b, e, n)
  <2> DEFINE l == n + 1
  <2>1. Order' = Along(b, d, l)
    <3> HIDE DEF d
    <3>1. OrderOf(list') = Along(b, d, list'.size)
      BY <1>5, OrderIs
    <3> QED BY <3>1, <1>5, OrderNow
  <2> HIDE DEF b, n
  <2>2. Along(b, Spliced(e, n, 0, n), n + 1) = <<b[n]>> \o Along(b, e, n)
    BY <1>4, AlongFront
  <2> QED BY <2>1, <2>2
<1>11. b[n] = [key |-> k, value |-> v]
  <2>1. n \in ArrayOf(Capacity)
    BY <1>4 DEF ArrayOf
  <2> QED BY <2>1, <1>5 DEF PairsOf, NewData
<1>12. Along(b, e, n) = Order
  <2>1. \A y \in NodesOf(e, n) : b[y] = c[y]
    <3>1. \A y \in 0 .. n - 1 : y # n /\ y \in ArrayOf(Capacity)
      BY <1>4 DEF ArrayOf
    <3> QED BY <3>1, <1>4, <1>5 DEF PairsOf, NewData
  <2> HIDE DEF b, c, n
  <2>2. Along(b, e, n) = Along(c, e, n)
    BY <2>1, <1>4, AlongSame
  <2> QED BY <2>2, <1>8
<1>13. Order' = <<[key |-> k, value |-> v]>> \o Order
  BY <1>10, <1>11, <1>12
<1>14. [key |-> k, value |-> v] \in S
  OBVIOUS
<1>15. Abstract!Others(k) = Order /\ Len(Order) < Capacity
  BY <1>4, <1>8
<1>16. Abstract!Put(k, v)
  <2> HIDE DEF S, n, c, b, d
  <2> QED BY <1>9, <1>13, <1>14, <1>15, PutInFront
<1> QED BY <1>7, <1>16

LEMMA InitGood ==
  ASSUME CacheAssumption, Init
  PROVE  IInv /\ Abstract!Init
<1>1. /\ list = EmptyList(Capacity) /\ cache = T!EmptyTable /\ ret = Failed
  BY DEF Init
<1>2. Chain(list, EndsOnly) /\ list.size = 0
  BY <1>1, ChainEmpty
<1>3. P!Sound(cache) /\ cache.size = 0 /\ \A k \in Keys : T!Lookup(cache, k) = Nil
  BY <1>1, TableEmpty
<1>4. Matches(list, cache)
  BY <1>2, <1>3 DEF Matches
<1>5. Order = <<>>
  <2>1. OrderOf(list) = Along(PairsOf(list), EndsOnly, 0)
    BY <1>2, OrderIs
  <2> QED BY <2>1, OrderNow DEF Along
<1>6. Good(EndsOnly)
  BY <1>1, <1>2, <1>3, <1>4 DEF Good
<1> QED BY <1>1, <1>5, <1>6 DEF IInv, Abstract!Init

LEMMA NextGood ==
  ASSUME CacheAssumption, IInv, [Next]_vars
  PROVE  IInv' /\ [Abstract!Next]_<<Order, ret>>
<1>1. CASE UNCHANGED vars
  BY <1>1, OrderNow DEF vars, IInv, Good
<1>2. ASSUME NEW k \in Keys, get(k)
      PROVE  IInv' /\ Abstract!Next
  BY <1>2, StepGet DEF Abstract!Next
<1>3. ASSUME NEW k \in Keys, NEW v \in Vals, put(k, v)
      PROVE  IInv' /\ Abstract!Next
  <2>1. IInv' /\ Abstract!Put(k, v)
    BY <1>3, StepRefresh, StepTouch, StepAdd DEF put
  <2> QED BY <2>1 DEF Abstract!Next
<1> QED BY <1>1, <1>2, <1>3 DEF Next

\* The invariant and the invariants the runs check.
LEMMA GoodTypeOK ==
  ASSUME CacheAssumption, IInv
  PROVE  TypeOK
<1>1. PICK e : Good(e)
  BY DEF IInv
<1>2. /\ list \in ListType(Capacity, Keys \cup {Nothing}, Vals \cup {Nothing})
      /\ list.size \in 0 .. Capacity
  BY <1>1, ChainIs DEF Good
<1>3. cache \in T!Table
  BY <1>1, TableTyped DEF Good
<1> QED
  BY <1>1, <1>2, <1>3
     DEF Good, TypeOK, ListType, NodeType, PointersOf, ArrayOf, Slots

LEMMA GoodTableMatchesList ==
  ASSUME CacheAssumption, IInv
  PROVE  TableMatchesList
<1>1. PICK e : Good(e)
  BY DEF IInv
<1>2. Chain(list, e) /\ Matches(list, cache)
  BY <1>1 DEF Good
<1>3. NodesInUseAreLinked
  <2>1. LinkedNodes(list) = NodesOf(e, list.size) /\ Len(Forward(list)) = list.size
    BY <1>2, OrderIs
  <2>2. list.freeHead = Nil
        /\ \A y : y \in NodesOf(e, list.size) <=> y \in 0 .. list.size - 1
    BY <1>2, ChainIs
  <2>3. NodesOf(e, list.size) = 0 .. list.size - 1
    BY <2>2
  <2> QED BY <2>1, <2>2, <2>3 DEF NodesInUseAreLinked
<1>4. \A n \in 0 .. list.size - 1 : NodeOf(list.node[n].key) = n
  BY <1>2 DEF Matches, NodeOf
<1>5. \A k \in Keys :
        Cached(k) => /\ NodeOf(k) \in 0 .. list.size - 1
                     /\ list.node[NodeOf(k)].key = k
  BY <1>1, CachedNode
<1>6. cache.size = list.size
  BY <1>2 DEF Matches
<1> QED BY <1>3, <1>4, <1>5, <1>6, GoodTypeOK DEF TableMatchesList

-----------------------------------------------------------------------------
(* Theorems about LRUCache                                                 *)

\* Through every get and put, LRUCacheBase keeps its list whole, its table
\* sound and the two in agreement: neither an eviction nor a reused node
\* leaves a stale entry in the other structure.
THEOREM CacheAlwaysGood == Spec => []IInv
<1>1. Init => IInv
  BY CacheAssumption, InitGood
<1>2. IInv /\ [Next]_vars => IInv'
  BY CacheAssumption, NextGood
<1> QED BY <1>1, <1>2, PTL DEF Spec

\* Every field of the list, of the table and of the answer keeps its type;
\* no node beyond the capacity is ever handed out.
THEOREM TypeCorrect == Spec => []TypeOK
<1>1. IInv => TypeOK
  BY CacheAssumption, GoodTypeOK
<1> QED BY <1>1, CacheAlwaysGood, PTL

\* After every call the table leads from the key of each node of the list to
\* that node, and from no other key to any node; both have the same size, and
\* the list links every node that was handed out (what get and put assert).
THEOREM TableAlwaysMatchesList == Spec => []TableMatchesList
<1>1. IInv => TableMatchesList
  BY CacheAssumption, GoodTableMatchesList
<1> QED BY <1>1, CacheAlwaysGood, PTL

\* LRUCacheBase is an LRU cache: get answers with the value that was last put
\* under the key, each call moves its key to the front, and a put into a full
\* cache drops exactly the key that was used least recently.
THEOREM CacheRefinement == Spec => ImplementsLRU
<1>1. Init => Abstract!Init
  BY CacheAssumption, InitGood
<1>2. IInv /\ [Next]_vars => [Abstract!Next]_<<Order, ret>>
  BY CacheAssumption, NextGood
<1> QED
  BY <1>1, <1>2, CacheAlwaysGood, PTL DEF Spec, ImplementsLRU, Abstract!Spec

-----------------------------------------------------------------------------
(* The first cache's list, and V3's                                        *)

\* The order along a thread, pair by pair.
LEMMA OrderAt ==
  ASSUME CacheAssumption, NEW L, NEW e, Chain(L, e)
  PROVE  /\ L.size \in Nat /\ L.size <= Capacity
         /\ DOMAIN OrderOf(L) = 1 .. L.size
         /\ \A i \in 1 .. L.size : /\ OrderOf(L)[i] = PairAt(L, e[i])
                                   /\ e[i] \in 0 .. L.size - 1 /\ e[i] \in Slots
         /\ \A i, j \in 1 .. L.size : e[i] = e[j] => i = j
<1>1. /\ L.size \in 0 .. Capacity /\ Capacity \in Nat
      /\ \A i \in 1 .. L.size : e[i] \in 0 .. L.size - 1 /\ e[i] \in Slots
      /\ \A i, j \in 1 .. L.size : e[i] = e[j] => i = j
  BY ChainIs DEF CacheAssumption
<1>2. /\ DOMAIN OrderOf(L) = 1 .. L.size
      /\ \A i \in 1 .. L.size : OrderOf(L)[i] = PairsOf(L)[e[i]]
  BY OrderIs
<1>3. \A x \in Slots : PairsOf(L)[x] = PairAt(L, x)
  BY DEF PairsOf, PairAt, Paired, Slots, ArrayOf
<1> QED BY <1>1, <1>2, <1>3

\* Only one node holds a pair that is new.
LEMMA NewPairs ==
  ASSUME NEW L, NEW U, NEW x \in Slots, NEW k, NEW v,
         NewData(U, L, Capacity, x, k, v)
  PROVE  /\ PairAt(U, x) = Paired(k, v)
         /\ \A y \in Slots \ {x} : PairAt(U, y) = PairAt(L, y)
<1>1. Slots = ArrayOf(Capacity)
  BY DEF Slots, ArrayOf
<1>2. \A y \in Slots : /\ U.node[y].key = IF y = x THEN k ELSE L.node[y].key
                       /\ U.node[y].value = IF y = x THEN v ELSE L.node[y].value
  BY <1>1 DEF NewData
<1> QED BY <1>2 DEF PairAt

\* What a list that brings a pair to the front, and one that gets a new node,
\* make of their order.
LEMMA FrontedOrder ==
  ASSUME CacheAssumption, NEW L, NEW e, Chain(L, e), NEW p \in 1 .. L.size,
         NEW k, NEW v, NEW U, Chain(U, Fronted(e, L.size, p)), U.size = L.size,
         NewData(U, L, Capacity, e[p], k, v)
  PROVE  Renews(OrderOf(L), OrderOf(U), L.size, p, Paired(k, v))
<1> DEFINE n == L.size
           g == Fronted(e, n, p)
           x == e[p]
<1>1. /\ n \in Nat
      /\ \A i \in 1 .. n : OrderOf(L)[i] = PairAt(L, e[i]) /\ e[i] \in Slots
      /\ \A i, j \in 1 .. n : e[i] = e[j] => i = j
  BY OrderAt
<1>2. \A i \in 1 .. n : OrderOf(U)[i] = PairAt(U, g[i])
  <2> HIDE DEF g
  <2>1. Chain(U, g)
    BY DEF g
  <2>2. \A i \in 1 .. U.size : OrderOf(U)[i] = PairAt(U, g[i])
    BY ONLY CacheAssumption, <2>1, OrderAt
  <2> QED BY <2>2
<1>3. \A i \in 1 .. n :
        g[i] = IF i = 1 THEN e[p] ELSE IF i <= p THEN e[i - 1] ELSE e[i]
  BY <1>1 DEF Fronted, Spliced, Dropped
<1>4. /\ PairAt(U, x) = Paired(k, v)
      /\ \A y \in Slots \ {x} : PairAt(U, y) = PairAt(L, y)
  BY <1>1, NewPairs
<1> SUFFICES ASSUME NEW i \in 1 .. n
             PROVE  OrderOf(U)[i] = IF i = 1 THEN Paired(k, v)
                                    ELSE IF i <= p THEN OrderOf(L)[i - 1]
                                    ELSE OrderOf(L)[i]
  BY DEF Renews
<1> HIDE DEF n, g
<1>5. CASE i = 1
  BY <1>2, <1>3, <1>4, <1>5
<1>6. CASE i # 1 /\ i <= p
  <2>1. i - 1 \in 1 .. n /\ i - 1 # p /\ p \in 1 .. n
    BY <1>1, <1>6 DEF n
  <2>2. e[i - 1] \in Slots \ {x} /\ g[i] = e[i - 1]
    BY <2>1, <1>1, <1>3, <1>6
  <2>3. OrderOf(U)[i] = OrderOf(L)[i - 1]
    BY <2>1, <2>2, <1>1, <1>2, <1>4
  <2> QED BY <2>3, <1>6
<1>7. CASE i # 1 /\ ~(i <= p)
  <2>1. i # p /\ p \in 1 .. n
    BY <1>1, <1>7 DEF n
  <2>2. e[i] \in Slots \ {x} /\ g[i] = e[i]
    BY <2>1, <1>1, <1>3, <1>7
  <2>3. OrderOf(U)[i] = OrderOf(L)[i]
    BY <2>2, <1>1, <1>2, <1>4
  <2> QED BY <2>3, <1>7
<1> QED BY <1>5, <1>6, <1>7

LEMMA AddedOrder ==
  ASSUME CacheAssumption, NEW L, NEW e, Chain(L, e), L.size < Capacity,
         NEW k, NEW v, NEW U, Chain(U, Spliced(e, L.size, 0, L.size)),
         U.size = L.size + 1, NewData(U, L, Capacity, L.size, k, v)
  PROVE  Adds(OrderOf(L), OrderOf(U), L.size, Paired(k, v))
<1> DEFINE n == L.size
           g == Spliced(e, n, 0, n)
<1>1. /\ n \in Nat /\ n \in Slots
      /\ \A i \in 1 .. n : OrderOf(L)[i] = PairAt(L, e[i]) /\ e[i] \in Slots
                           /\ e[i] \in 0 .. n - 1
  <2>1. n \in Nat /\ Capacity \in Nat
    BY OrderAt DEF CacheAssumption
  <2> QED BY <2>1, OrderAt DEF Slots
<1>2. \A i \in 1 .. n + 1 : OrderOf(U)[i] = PairAt(U, g[i])
  <2> HIDE DEF g
  <2>1. Chain(U, g)
    BY DEF g
  <2>2. \A i \in 1 .. U.size : OrderOf(U)[i] = PairAt(U, g[i])
    BY ONLY CacheAssumption, <2>1, OrderAt
  <2> QED BY <2>2
<1>3. \A i \in 1 .. n + 1 : g[i] = IF i = 1 THEN n ELSE e[i - 1]
  BY <1>1 DEF Spliced
<1>4. /\ PairAt(U, n) = Paired(k, v)
      /\ \A y \in Slots \ {n} : PairAt(U, y) = PairAt(L, y)
  BY <1>1, NewPairs
<1> SUFFICES ASSUME NEW i \in 1 .. n + 1
             PROVE  OrderOf(U)[i] = IF i = 1 THEN Paired(k, v)
                                    ELSE OrderOf(L)[i - 1]
  BY DEF Adds
<1> HIDE DEF n, g
<1>5. CASE i = 1
  BY <1>2, <1>3, <1>4, <1>5
<1>6. CASE i # 1
  <2>1. i - 1 \in 1 .. n
    BY <1>1, <1>6
  <2>2. e[i - 1] \in Slots \ {n} /\ g[i] = e[i - 1]
    BY <2>1, <1>1, <1>3, <1>6
  <2>3. OrderOf(U)[i] = OrderOf(L)[i - 1]
    BY <2>1, <2>2, <1>1, <1>2, <1>4
  <2> QED BY <2>3, <1>6
<1> QED BY <1>5, <1>6

\* A node that is overwritten and moved to the front, in the order.
LEMMA RenewedOrder ==
  ASSUME CacheAssumption, NEW L, NEW e, Chain(L, e), NEW p \in 1 .. L.size,
         NEW k \in Keys, NEW v \in Vals,
         NEW U, U = move_to_front(Rewritten(L, e[p], k, v), e[p])
  PROVE  /\ Chain(U, Fronted(e, L.size, p)) /\ U.size = L.size
         /\ NewData(U, L, Capacity, e[p], k, v)
         /\ Renews(OrderOf(L), OrderOf(U), L.size, p, Paired(k, v))
<1>1. /\ Chain(U, Fronted(e, L.size, p)) /\ U.size = L.size
      /\ NewData(U, L, Capacity, e[p], k, v)
  <2>1. /\ Chain(U, Fronted(e, L.size, p)) /\ U.size = L.size
        /\ NewData(U, L, Capacity, e[p], k, v)
        /\ OrderOf(U) = <<[key |-> k, value |-> v]>>
             \o Along(PairsOf(L), Dropped(e, L.size, p), L.size - 1)
    BY Renewed
  <2> QED BY <2>1
<1>2. Renews(OrderOf(L), OrderOf(U), L.size, p, Paired(k, v))
  BY <1>1, FrontedOrder
<1> QED BY <1>1, <1>2

\* The first cache has the keys of the order.
LEMMA CachedPlace ==
  ASSUME CacheAssumption, NEW e, Good(e), NEW k \in Keys
  PROVE  /\ Chain(list, e)
         /\ ~Cached(k) => Absent(OrderOf(list), list.size, k)
         /\ Cached(k) => \E p \in 1 .. list.size :
                           /\ OrderOf(list)[p].key = k /\ NodeOf(k) = e[p]
                           /\ list.node[e[p]].key = k
<1>1. Chain(list, e)
  BY DEF Good
<1>2. /\ \A i \in 1 .. list.size : /\ OrderOf(list)[i] = PairAt(list, e[i])
                                   /\ e[i] \in 0 .. list.size - 1
  BY <1>1, OrderAt
<1>3. \A i \in 1 .. list.size : OrderOf(list)[i].key = list.node[e[i]].key
  <2>1. \A x : PairAt(list, x).key = list.node[x].key
    BY DEF PairAt, Paired
  <2> QED BY <1>2, <2>1
<1>4. /\ Cached(k) => /\ list.node[NodeOf(k)].key = k
                      /\ \E p \in 1 .. list.size : NodeOf(k) = e[p]
      /\ \A x \in 0 .. list.size - 1 : list.node[x].key = k => Cached(k)
  BY CachedNode
<1>5. ~Cached(k) => Absent(OrderOf(list), list.size, k)
  BY <1>2, <1>3, <1>4 DEF Absent
<1>6. Cached(k) => \E p \in 1 .. list.size :
                     /\ OrderOf(list)[p].key = k /\ NodeOf(k) = e[p]
                     /\ list.node[e[p]].key = k
  BY <1>3, <1>4
<1> QED BY <1>1, <1>5, <1>6

\* What get does to the order of the first cache.
LEMMA GetOrder ==
  ASSUME CacheAssumption, IInv, NEW k \in Keys, get(k)
  PROVE  /\ list'.size = list.size
         /\ \/ \E p \in 1 .. list.size :
                 /\ OrderOf(list)[p].key = k
                 /\ Renews(OrderOf(list), OrderOf(list'), list.size, p,
                           OrderOf(list)[p])
                 /\ ret' = OrderOf(list)[p].value
            \/ /\ Absent(OrderOf(list), list.size, k) /\ ret' = Failed
               /\ OrderOf(list') = OrderOf(list)
<1>1. PICK e : Good(e)
  BY DEF IInv
<1>2. CASE ~Cached(k)
  <2>1. list' = list /\ ret' = Failed
    BY <1>2 DEF get
  <2>2. Absent(OrderOf(list), list.size, k)
    BY <1>1, <1>2, CachedPlace
  <2> QED BY <2>1, <2>2
<1>3. CASE Cached(k)
  <2>1. PICK p \in 1 .. list.size :
          /\ OrderOf(list)[p].key = k /\ NodeOf(k) = e[p]
          /\ list.node[e[p]].key = k
    BY <1>1, <1>3, CachedPlace
  <2> DEFINE v == list.node[e[p]].value
  <2>2. /\ list' = move_to_front(list, e[p]) /\ ret' = v
    BY <1>3, <2>1 DEF get
  <2>3. Chain(list, e) /\ e[p] \in 0 .. list.size - 1
    BY <1>1, ChainIs DEF Good
  <2>4. v \in Vals
    BY <2>3, ChainIs
  <2>5. list = Rewritten(list, e[p], k, v)
    <3>1. list = Rewritten(list, e[p], list.node[e[p]].key, v)
      BY <2>3, Rewrites
    <3> QED BY <3>1, <2>1
  <2>6. list' = move_to_front(Rewritten(list, e[p], k, v), e[p])
    BY <2>2, <2>5
  <2>7. /\ list'.size = list.size
        /\ Renews(OrderOf(list), OrderOf(list'), list.size, p, Paired(k, v))
    <3> HIDE DEF v
    <3> QED BY <2>3, <2>4, <2>6, RenewedOrder
  <2>8. OrderOf(list)[p] = Paired(k, v)
    BY <2>1, <2>3, OrderAt DEF PairAt
  <2>9. ret' = OrderOf(list)[p].value
    BY <2>2, <2>8 DEF Paired
  <2> QED BY <2>1, <2>7, <2>8, <2>9
<1> QED BY <1>2, <1>3

\* What put does to it.
LEMMA PutOrder ==
  ASSUME CacheAssumption, IInv, NEW k \in Keys, NEW v \in Vals, put(k, v)
  PROVE  \/ /\ list'.size = list.size
            /\ \E p \in 1 .. list.size :
                 /\ OrderOf(list)[p].key = k
                 /\ Renews(OrderOf(list), OrderOf(list'), list.size, p,
                           Paired(k, v))
         \/ /\ list'.size = list.size /\ list.size = Capacity
            /\ Absent(OrderOf(list), list.size, k)
            /\ Renews(OrderOf(list), OrderOf(list'), list.size, list.size,
                      Paired(k, v))
         \/ /\ list'.size = list.size + 1 /\ list.size < Capacity
            /\ Absent(OrderOf(list), list.size, k)
            /\ Adds(OrderOf(list), OrderOf(list'), list.size, Paired(k, v))
<1>1. PICK e : Good(e)
  BY DEF IInv
<1>2. /\ Chain(list, e) /\ list.size \in Nat /\ list.size <= Capacity
      /\ Capacity \in Nat \ {0}
      /\ \A i \in 1 .. list.size : e[i] \in 0 .. list.size - 1
  BY <1>1, OrderAt DEF Good, CacheAssumption
<1>3. SizeOf(list) = list.size
  BY <1>2, ChainIs DEF SizeOf
<1>4. CASE Refresh(k, v)
  <2>1. Cached(k)
    BY <1>4 DEF Refresh
  <2>2. PICK p \in 1 .. list.size :
          /\ OrderOf(list)[p].key = k /\ NodeOf(k) = e[p]
          /\ list.node[e[p]].key = k
    BY <1>1, <2>1, CachedPlace
  <2>3. list' = move_to_front(Revalued(list, e[p], v), e[p])
    BY <1>4, <2>2 DEF Refresh, Revalued
  <2>4. Revalued(list, e[p], v) = Rewritten(list, e[p], k, v)
    BY <1>2, <2>2, Rewrites
  <2>5. list' = move_to_front(Rewritten(list, e[p], k, v), e[p])
    BY <2>3, <2>4
  <2>6. /\ list'.size = list.size
        /\ Renews(OrderOf(list), OrderOf(list'), list.size, p, Paired(k, v))
    BY <1>2, <2>5, RenewedOrder
  <2> QED BY <2>2, <2>6
<1>5. CASE touch(k, v)
  <2>1. /\ ~Cached(k) /\ list.size >= Capacity /\ back(list) # Nil
        /\ list' = move_to_front(Rewritten(list, back(list), k, v), back(list))
    BY <1>3, <1>5 DEF touch, Rewritten
  <2>2. list.size = Capacity /\ list.size \in 1 .. list.size
    BY <1>2, <2>1
  <2> DEFINE p == list.size
  <2>3. back(list) = e[p]
    <3>1. Whole(list, Capacity, Keys, Vals, p, e, 0, NoneFree, {}) /\ Capacity \in Nat
      BY <1>2 DEF Chain
    <3> HIDE DEF p
    <3>2. list.tail.prev = e[p]
      BY <3>1, WholeEnds
    <3> QED BY <3>2, <2>1 DEF back
  <2>4. /\ list'.size = list.size
        /\ Renews(OrderOf(list), OrderOf(list'), list.size, p, Paired(k, v))
    <3>1. list' = move_to_front(Rewritten(list, e[p], k, v), e[p])
      BY <2>1, <2>3
    <3>2. p \in 1 .. list.size
      BY <2>2
    <3> HIDE DEF p
    <3> QED BY <1>2, <3>1, <3>2, RenewedOrder
  <2>5. Absent(OrderOf(list), list.size, k)
    BY <1>1, <2>1, CachedPlace
  <2> QED BY <2>2, <2>4, <2>5
<1>6. CASE add(k, v)
  <2>1. /\ ~Cached(k) /\ list.size < Capacity /\ list' = PushedFront(list, k, v)
    BY <1>3, <1>6 DEF add
  <2>2. /\ Chain(list', Spliced(e, list.size, 0, list.size))
        /\ list'.size = list.size + 1
        /\ NewData(list', list, Capacity, list.size, k, v)
    BY <1>2, <2>1, ChainAdded
  <2>3. Adds(OrderOf(list), OrderOf(list'), list.size, Paired(k, v))
    BY <1>2, <2>1, <2>2, AddedOrder
  <2>4. Absent(OrderOf(list), list.size, k)
    BY <1>1, <2>1, CachedPlace
  <2> QED BY <2>1, <2>2, <2>3, <2>4
<1> QED BY <1>4, <1>5, <1>6 DEF put

-----------------------------------------------------------------------------
(* V3: the dictionary and the list                                         *)

KeysOf(L) == [x \in Slots |-> L.node[x].key]
Renamed(kf, x, k) == [kf EXCEPT ![x] = k]

\* The lookups lk lead from the key of each node of S to that node, and from
\* no other key to any.
Binds(lk, kf, S) ==
  /\ \A x \in S : x \in Slots /\ kf[x] \in Keys /\ lk[kf[x]] = x
  /\ \A q \in Keys : lk[q] # Nil => lk[q] \in S /\ kf[lk[q]] = q

\* A node that leaves and one that enters.
LEMMA BindsLess ==
  ASSUME NEW lk, DOMAIN lk = Keys, NEW kf, NEW S, Binds(lk, kf, S),
         NEW x \in S, NEW lu, lu = [lk EXCEPT ![kf[x]] = Nil]
  PROVE  Binds(lu, kf, S \ {x})
<1>1. /\ \A y \in S : y \in Slots /\ kf[y] \in Keys /\ lk[kf[y]] = y
      /\ \A q \in Keys : lk[q] # Nil => lk[q] \in S /\ kf[lk[q]] = q
  BY DEF Binds
<1>2. \A q \in Keys : lu[q] = IF q = kf[x] THEN Nil ELSE lk[q]
  BY <1>1
<1>3. ASSUME NEW y \in S \ {x}
      PROVE  y \in Slots /\ kf[y] \in Keys /\ lu[kf[y]] = y
  <2>1. kf[y] # kf[x] /\ kf[y] \in Keys /\ lk[kf[y]] = y /\ y \in Slots
    BY <1>1
  <2> QED BY <2>1, <1>2
<1>4. ASSUME NEW q \in Keys, lu[q] # Nil
      PROVE  lu[q] \in S \ {x} /\ kf[lu[q]] = q
  <2>1. q # kf[x] /\ lu[q] = lk[q]
    BY <1>2, <1>4
  <2> QED BY <2>1, <1>1, <1>4
<1> QED BY <1>3, <1>4 DEF Binds

LEMMA BindsMore ==
  ASSUME NEW lk, DOMAIN lk = Keys, NEW kf, NEW S, Binds(lk, kf, S),
         NEW x \in Slots, x \notin S, NEW k \in Keys, lk[k] = Nil,
         NEW lu, lu = [lk EXCEPT ![k] = x],
         NEW ku, ku[x] = k, \A y \in S : ku[y] = kf[y]
  PROVE  Binds(lu, ku, S \cup {x})
<1>1. /\ \A y \in S : y \in Slots /\ kf[y] \in Keys /\ lk[kf[y]] = y
      /\ \A q \in Keys : lk[q] # Nil => lk[q] \in S /\ kf[lk[q]] = q
  BY DEF Binds
<1>2. \A q \in Keys : lu[q] = IF q = k THEN x ELSE lk[q]
  OBVIOUS
<1>3. \A y \in Slots : y # Nil
  BY DEF Slots, Nil
<1>4. ASSUME NEW y \in S \cup {x}
      PROVE  y \in Slots /\ ku[y] \in Keys /\ lu[ku[y]] = y
  <2>1. CASE y = x
    BY <2>1, <1>2
  <2>2. CASE y \in S
    <3>1. ku[y] = kf[y] /\ kf[y] \in Keys /\ lk[kf[y]] = y /\ y \in Slots
      BY <2>2, <1>1
    <3>2. kf[y] # k
      BY <3>1, <1>3
    <3> QED BY <3>1, <3>2, <1>2
  <2> QED BY <2>1, <2>2
<1>5. ASSUME NEW q \in Keys, lu[q] # Nil
      PROVE  lu[q] \in S \cup {x} /\ ku[lu[q]] = q
  <2>1. CASE q = k
    BY <2>1, <1>2
  <2>2. CASE q # k
    <3>1. lu[q] = lk[q] /\ lk[q] # Nil
      BY <2>2, <1>2, <1>5
    <3> QED BY <3>1, <1>1
  <2> QED BY <2>1, <2>2
<1> QED BY <1>4, <1>5 DEF Binds

LEMMA BindsSame ==
  ASSUME NEW lk, NEW kf, NEW S, Binds(lk, kf, S),
         NEW ku, \A y \in S : ku[y] = kf[y]
  PROVE  Binds(lk, ku, S)
BY DEF Binds

\* The key of a lookup and its place in the order.
LEMMA BoundPlace ==
  ASSUME CacheAssumption, NEW L, NEW e, Chain(L, e),
         NEW lk, Binds(lk, KeysOf(L), 0 .. L.size - 1), NEW k \in Keys
  PROVE  /\ lk[k] = Nil => Absent(OrderOf(L), L.size, k)
         /\ lk[k] # Nil =>
              \E p \in 1 .. L.size :
                /\ lk[k] = e[p] /\ OrderOf(L)[p].key = k /\ L.node[e[p]].key = k
                /\ \A q \in 1 .. L.size : OrderOf(L)[q].key = k => q = p
<1>1. /\ \A i \in 1 .. L.size : /\ OrderOf(L)[i] = PairAt(L, e[i])
                                /\ e[i] \in 0 .. L.size - 1 /\ e[i] \in Slots
      /\ \A i, j \in 1 .. L.size : e[i] = e[j] => i = j
  BY OrderAt
<1>2. \A i \in 1 .. L.size : OrderOf(L)[i].key = L.node[e[i]].key
  <2>1. \A x : PairAt(L, x).key = L.node[x].key
    BY DEF PairAt, Paired
  <2> QED BY <1>1, <2>1
<1>3. /\ \A x \in 0 .. L.size - 1 : /\ x \in Slots /\ L.node[x].key \in Keys
                                    /\ lk[L.node[x].key] = x
      /\ \A q \in Keys :
           lk[q] # Nil => lk[q] \in 0 .. L.size - 1 /\ L.node[lk[q]].key = q
  <2>1. \A x \in Slots : KeysOf(L)[x] = L.node[x].key
    BY DEF KeysOf
  <2> QED BY <2>1 DEF Binds
<1>4. \A x \in Slots : x # Nil
  BY DEF Slots, Nil
<1>5. \A i \in 1 .. L.size : OrderOf(L)[i].key = k => lk[k] = e[i] /\ lk[k] # Nil
  BY <1>1, <1>2, <1>3, <1>4
<1>6. lk[k] = Nil => Absent(OrderOf(L), L.size, k)
  BY <1>5 DEF Absent
<1>7. ASSUME lk[k] # Nil
      PROVE  \E p \in 1 .. L.size :
                /\ lk[k] = e[p] /\ OrderOf(L)[p].key = k /\ L.node[e[p]].key = k
                /\ \A q \in 1 .. L.size : OrderOf(L)[q].key = k => q = p
  <2>1. lk[k] \in 0 .. L.size - 1 /\ L.node[lk[k]].key = k
    BY <1>3, <1>7
  <2>2. \A y : y \in NodesOf(e, L.size) <=> y \in 0 .. L.size - 1
    BY ChainIs
  <2>3. PICK p \in 1 .. L.size : lk[k] = e[p]
    BY <2>1, <2>2 DEF NodesOf
  <2>4. \A q \in 1 .. L.size : OrderOf(L)[q].key = k => q = p
    BY <2>3, <1>1, <1>5
  <2> QED BY <2>1, <2>3, <2>4, <1>2
<1> QED BY <1>6, <1>7

\* Two orders of one length that agree at every place.
LEMMA OrdersEqual ==
  ASSUME CacheAssumption, NEW L, NEW e, Chain(L, e), NEW U, NEW d, Chain(U, d),
         U.size = L.size,
         \A i \in 1 .. L.size : OrderOf(L)[i] = OrderOf(U)[i]
  PROVE  OrderOf(L) = OrderOf(U)
<1>1. DOMAIN OrderOf(L) = 1 .. L.size
  BY OrderAt
<1>2. DOMAIN OrderOf(U) = 1 .. U.size
  BY OrderAt
<1>3. /\ OrderOf(L) = [i \in DOMAIN OrderOf(L) |-> OrderOf(L)[i]]
      /\ OrderOf(U) = [i \in DOMAIN OrderOf(U) |-> OrderOf(U)[i]]
  BY DEF OrderOf
<1> QED BY <1>1, <1>2, <1>3

\* What a call leaves is determined by what was there.
LEMMA RenewsOnce ==
  ASSUME NEW s, NEW t, NEW u, NEW n, NEW p, NEW x,
         Renews(s, t, n, p, x), Renews(s, u, n, p, x)
  PROVE  \A i \in 1 .. n : t[i] = u[i]
BY DEF Renews

LEMMA AddsOnce ==
  ASSUME NEW s, NEW t, NEW u, NEW n, NEW x, Adds(s, t, n, x), Adds(s, u, n, x)
  PROVE  \A i \in 1 .. n + 1 : t[i] = u[i]
BY DEF Adds

-----------------------------------------------------------------------------
(* V3: the dictionary                                                      *)

DP == INSTANCE DictionaryProofs
        WITH Vals <- V3!Slots, None <- V3!Nil, MinCapacity <- 1,
             Requests <- {Capacity}, AllocMayFail <- FALSE

\* The list of V3 is one of ListNodes as well.
LEMMA SameNodes3 ==
  /\ V3!Nil = Nil /\ V3!Slots = Slots
  /\ \A n : V3!EmptyList(n) = EmptyList(n)
  /\ \A L, n : V3!move_to_front(L, n) = move_to_front(L, n)
  /\ \A L, k, v : V3!PushedFront(L, k, v) = PushedFront(L, k, v)
  /\ \A L : /\ V3!NewNode(L) = NewNode(L) /\ V3!back(L) = back(L)
            /\ V3!SizeOf(L) = SizeOf(L)
            /\ V3!Forward(L) = Forward(L) /\ V3!LinkedNodes(L) = LinkedNodes(L)
<1>1. /\ V3!Nil = Nil /\ V3!HeadNode = HeadNode /\ V3!TailNode = TailNode
      /\ V3!Slots = Slots
  BY DEF V3!Nil, Nil, V3!HeadNode, HeadNode, V3!TailNode, TailNode,
         V3!Slots, Slots
<1>2. \A p, n, k, v : V3!Node(p, n, k, v) = Node(p, n, k, v)
  BY DEF V3!Node, Node
<1>3. V3!Raw = Raw
  BY <1>1, <1>2 DEF V3!Raw, Raw
<1>4. \A n : V3!EmptyList(n) = EmptyList(n)
  BY <1>1, <1>2, <1>3 DEF V3!EmptyList, EmptyList
<1>5. \A L, p, q : /\ V3!SetNext(L, p, q) = SetNext(L, p, q)
                   /\ V3!SetPrev(L, p, q) = SetPrev(L, p, q)
  BY <1>1 DEF V3!SetNext, SetNext, V3!SetPrev, SetPrev
<1>6. \A L, n : V3!Unlink(L, n) = Unlink(L, n)
  BY <1>5 DEF V3!Unlink, Unlink
<1>7. \A L, n, p, q : V3!LinkBetween(L, n, p, q) = LinkBetween(L, n, p, q)
  BY <1>5 DEF V3!LinkBetween, LinkBetween
<1>8. \A L, n : V3!push_front_internal(L, n) = push_front_internal(L, n)
  BY <1>1, <1>7 DEF V3!push_front_internal, push_front_internal
<1>9. \A L, n : V3!move_to_front(L, n) = move_to_front(L, n)
  BY <1>6, <1>8 DEF V3!move_to_front, move_to_front
<1>10. \A L : V3!NewNode(L) = NewNode(L) /\ V3!back(L) = back(L)
              /\ V3!SizeOf(L) = SizeOf(L)
  BY <1>1 DEF V3!NewNode, NewNode, V3!back, back, V3!SizeOf, SizeOf
<1>11. \A L, k, v : V3!Created(L, k, v) = Created(L, k, v)
  <2> SUFFICES ASSUME NEW L, NEW k, NEW v
               PROVE  V3!Created(L, k, v) = Created(L, k, v)
    OBVIOUS
  <2>1. V3!NewNode(L) = NewNode(L)
    BY <1>10
  <2> QED BY <2>1 DEF V3!Created, Created
<1>12. \A L, k, v : V3!PushedFront(L, k, v) = PushedFront(L, k, v)
  BY <1>8, <1>10, <1>11 DEF V3!PushedFront, PushedFront
<1>13. \A L : V3!Forward(L) = Forward(L)
  <2>1. \A hop, first : V3!Reached(hop, first) = Reached(hop, first)
    BY DEF V3!Reached, Reached
  <2>2. \A S : V3!Least(S) = Least(S)
    BY DEF V3!Least, Least
  <2>3. \A L, hop, first, ends : V3!PathAlong(L, hop, first, ends) = PathAlong(L, hop, first, ends)
    BY <2>1, <2>2 DEF V3!PathAlong, PathAlong
  <2>4. \A L, p : V3!NodeAt(L, p) = NodeAt(L, p)
    BY <1>1 DEF V3!NodeAt, NodeAt
  <2>5. \A L : V3!NextOf(L) = NextOf(L)
    BY <1>1, <2>4 DEF V3!NextOf, NextOf
  <2> QED BY <1>1, <2>3, <2>5 DEF V3!Forward, Forward
<1>14. \A L : V3!LinkedNodes(L) = LinkedNodes(L)
  BY <1>13 DEF V3!LinkedNodes, LinkedNodes
<1> QED BY <1>1, <1>4, <1>9, <1>10, <1>12, <1>13, <1>14

\* The dictionary of V3 is the one that DictionaryProofs is about.
LEMMA SameDictionary ==
  /\ V3!D!DictionaryAssumption => DP!DictionaryAssumption
  /\ V3!D!Null = DP!Null
  /\ \A k : /\ V3!D!find(k) = DP!find(k) /\ V3!D!Lookup(k) = DP!Lookup(k)
            /\ V3!D!Erase(k) => DP!Erase(k)
            /\ \A v : V3!D!Insert(k, v) =>
                 \/ DP!InsertUpdate(k, v) \/ DP!InsertReuse(k, v)
                 \/ DP!InsertNext(k, v)
                 \/ DP!find(k) = DP!Null /\ freeSize = 0 /\ count >= capacity
  /\ V3!D!Size = DP!Size
  /\ V3!D!Init => DP!Init
<1>1. /\ V3!D!Null = DP!Null /\ V3!D!Fresh = DP!Fresh /\ V3!D!Slots = DP!Slots
      /\ V3!D!Size = DP!Size /\ V3!D!Untouched = DP!Untouched
      /\ V3!D!Alloc = DP!Alloc
  BY DEF V3!D!Null, DP!Null, V3!D!Fresh, DP!Fresh, V3!D!Slots, DP!Slots,
         V3!D!Size, DP!Size, V3!D!Untouched, DP!Untouched, V3!D!Alloc, DP!Alloc
<1>2. /\ \A hop, first : V3!D!Reached(hop, first) = DP!Reached(hop, first)
      /\ \A S : V3!D!Least(S) = DP!Least(S)
  BY DEF V3!D!Reached, DP!Reached, V3!D!Least, DP!Least
<1>3. V3!D!Power2 = DP!Power2
  BY <1>2 DEF V3!D!Power2, DP!Power2
<1>4. /\ V3!D!kInvalidHash = DP!kInvalidHash
      /\ V3!D!kReplacedHash = DP!kReplacedHash
  BY <1>3 DEF V3!D!kInvalidHash, DP!kInvalidHash,
              V3!D!kReplacedHash, DP!kReplacedHash
<1>5. /\ \A k : V3!D!hash_code(k) = DP!hash_code(k)
      /\ \A h, c : V3!D!index_of(h, c) = DP!index_of(h, c)
  BY <1>4 DEF V3!D!hash_code, DP!hash_code, V3!D!index_of, DP!index_of
<1>6. \A k : V3!D!BucketOf(k) = DP!BucketOf(k)
  BY <1>5 DEF V3!D!BucketOf, DP!BucketOf
<1>7. \A s, k : V3!D!Holds(s, k) = DP!Holds(s, k)
  BY <1>5 DEF V3!D!Holds, DP!Holds
<1>8. \A k, p : V3!D!Search(k, p) = DP!Search(k, p)
  BY <1>1, <1>2, <1>7 DEF V3!D!Search, DP!Search
<1>9. \A k : V3!D!find(k) = DP!find(k)
  BY <1>1, <1>6, <1>8 DEF V3!D!find, DP!find
<1>10. \A k : V3!D!Lookup(k) = DP!Lookup(k)
  BY <1>1, <1>9 DEF V3!D!Lookup, DP!Lookup
<1>11. \A p : V3!D!Visited(p) = DP!Visited(p)
  <2>1. V3!D!Hop = DP!Hop
    BY <1>1 DEF V3!D!Hop, DP!Hop
  <2>2. \A p : V3!D!After(p) = DP!After(p)
    BY <1>2, <2>1 DEF V3!D!After, DP!After
  <2> QED BY <1>1, <2>2 DEF V3!D!Visited, DP!Visited
<1>12. \A k : V3!D!Erase(k) => DP!Erase(k)
  BY <1>1, <1>4, <1>6, <1>9, <1>11 DEF V3!D!Erase, DP!Erase
<1>13. \A b, e, c, s, k, v : V3!D!Link(b, e, c, s, k, v) <=> DP!Link(b, e, c, s, k, v)
  BY <1>5 DEF V3!D!Link, DP!Link
<1>14. ASSUME NEW k, NEW v, V3!D!Insert(k, v)
       PROVE  \/ DP!InsertUpdate(k, v) \/ DP!InsertReuse(k, v)
              \/ DP!InsertNext(k, v)
              \/ DP!find(k) = DP!Null /\ freeSize = 0 /\ count >= capacity
  <2>1. V3!D!InsertUpdate(k, v) => DP!InsertUpdate(k, v)
    BY <1>1, <1>9 DEF V3!D!InsertUpdate, DP!InsertUpdate
  <2>2. V3!D!InsertReuse(k, v) => DP!InsertReuse(k, v)
    BY <1>1, <1>9, <1>13 DEF V3!D!InsertReuse, DP!InsertReuse
  <2>3. V3!D!InsertNext(k, v) => DP!InsertNext(k, v)
    BY <1>1, <1>9, <1>13 DEF V3!D!InsertNext, DP!InsertNext
  <2>4. V3!D!InsertGrow(k, v)
          => DP!find(k) = DP!Null /\ freeSize = 0 /\ count >= capacity
    BY <1>1, <1>9 DEF V3!D!InsertGrow
  <2> QED BY <1>14, <2>1, <2>2, <2>3, <2>4 DEF V3!D!Insert
<1>15. V3!D!Init => DP!Init
  <2>1. \A n : V3!D!round_up_pow2(n) = DP!round_up_pow2(n)
    BY <1>2, <1>3 DEF V3!D!round_up_pow2, DP!round_up_pow2
  <2>2. \A n : V3!D!Empty(n) = DP!Empty(n) /\ V3!D!NoEntries(n) = DP!NoEntries(n)
    BY <1>1 DEF V3!D!Empty, DP!Empty, V3!D!NoEntries, DP!NoEntries
  <2> QED BY <1>1, <2>1, <2>2 DEF V3!D!Init, DP!Init
<1>16. V3!D!DictionaryAssumption => DP!DictionaryAssumption
  BY <1>4 DEF V3!D!DictionaryAssumption, DP!DictionaryAssumption,
              V3!D!IsFiniteSet, DP!IsFiniteSet
<1> QED BY <1>1, <1>9, <1>10, <1>12, <1>14, <1>15, <1>16

\* What the dictionary leads to from each key, and what it always is.
Led == [q \in Keys |-> DP!Lookup(q)]
DictGood == DP!TIInv /\ fault = "none" /\ capacity >= Capacity

\* The dictionary of V3 meets the assumptions DictionaryProofs makes, and what
\* its lookups give.
LEMMA DictAssumed ==
  ASSUME CachesAssumption
  PROVE  DP!DictionaryAssumption
BY SameDictionary DEF CachesAssumption

LEMMA DictTyped ==
  ASSUME CachesAssumption, DictGood
  PROVE  /\ capacity \in Nat /\ count \in Nat /\ freeSize \in Nat
         /\ \A q \in Keys : /\ Led[q] \in Slots \cup {Nil}
                            /\ Led[q] = Nil <=> DP!find(q) = DP!Null
                            /\ \A w \in Slots : Led[q] = w <=> DP!Holding(q, w)
<1>1. DP!TIInv /\ DP!DictionaryAssumption
  BY DictAssumed DEF DictGood
<1>2. /\ V3!Nil = Nil /\ V3!Slots = Slots
  BY SameNodes3
<1>3. DP!TypeOK
  BY <1>1 DEF DP!TIInv, DP!IInv
<1>4. capacity \in Nat
  <2>1. capacity \in DP!Capacities
    BY <1>1, <1>3, DP!Typed DEF DP!Typed
  <2> QED BY <1>1, <2>1, DP!CapacityTyped DEF DP!CapacityTyped
<1>5. count \in Nat /\ freeSize \in Nat
  BY <1>3 DEF DP!TypeOK
<1>6. \A q \in Keys : Led[q] = DP!Lookup(q)
  BY DEF Led
<1>7. \A q \in Keys : DP!Lookup(q) = V3!Nil <=> DP!find(q) = DP!Null
  BY <1>1, DP!NoneFound DEF DP!NoneFound
<1>8. \A q \in Keys : /\ DP!Lookup(q) \in V3!Slots \cup {V3!Nil}
                      /\ \A v \in V3!Slots : DP!Lookup(q) = v <=> DP!Holding(q, v)
  BY <1>1, DP!LookupIs DEF DP!LookupIs
<1> QED BY <1>2, <1>4, <1>5, <1>6, <1>7, <1>8

\* The lookups after a step.
LEMMA DictLed ==
  ASSUME CachesAssumption, DictGood, DP!TIInv', NEW g \in [Keys -> Slots \cup {Nil}],
         \A q \in Keys, w \in Slots : DP!Holding(q, w)' <=> g[q] = w
  PROVE  Led' = g
<1>1. DP!TIInv /\ DP!DictionaryAssumption
  BY DictAssumed DEF DictGood
<1>2. V3!Nil = Nil /\ V3!Slots = Slots
  BY SameNodes3
<1>3. \A q \in Keys : g[q] \in V3!Slots \cup {V3!Nil}
  BY <1>2
<1>4. \A q \in Keys, w \in V3!Slots : DP!Holding(q, w)' <=> g[q] = w
  BY <1>2
<1>5. \A q \in Keys : (DP!Lookup(q))' = g[q]
  BY <1>1, <1>3, <1>4, DP!LookupsNext DEF DP!LookupsNext
<1> QED BY <1>5 DEF Led

\* A key enters: while fewer keys are stored than the cache has nodes, the
\* dictionary has an erased entry or one never used, and is not rehashed.
LEMMA DictInserted ==
  ASSUME CacheAssumption, CachesAssumption, DictGood,
         NEW k \in Keys, NEW x \in Slots, V3!D!Insert(k, x),
         Led[k] = Nil, V3!D!Size < Capacity
  PROVE  /\ DictGood' /\ capacity' = capacity
         /\ V3!D!Size' = V3!D!Size + 1 /\ Led' = [Led EXCEPT ![k] = x]
<1>1. DP!TIInv /\ DP!DictionaryAssumption
  BY DictAssumed DEF DictGood
<1>2. V3!Nil = Nil /\ V3!Slots = Slots /\ x \in V3!Slots
  BY SameNodes3
<1>3. V3!D!Size = count - freeSize /\ V3!D!Size' = count' - freeSize'
  BY DEF V3!D!Size
<1>4. capacity \in Nat /\ count \in Nat /\ freeSize \in Nat
  BY DictTyped
<1>5. DP!find(k) = DP!Null
  BY DictTyped
<1>6. DP!InsertReuse(k, x) \/ DP!InsertNext(k, x)
  <2>1. ~DP!InsertUpdate(k, x)
    BY <1>5 DEF DP!InsertUpdate
  <2>2. ~(freeSize = 0 /\ count >= capacity)
    BY <1>3, <1>4 DEF CacheAssumption, DictGood
  <2> QED BY <2>1, <2>2, SameDictionary
<1>7. /\ DP!IInv' /\ DP!Kempt' /\ DP!HeldPut(k, x)
      /\ capacity' = capacity /\ fault' = fault
      /\ count' - freeSize' = count - freeSize + 1
  <2>1. CASE DP!InsertReuse(k, x)
    <3>1. DP!IInv'
      BY <1>1, <1>2, <2>1, DP!InsertReuseKeeps DEF DP!InsertReuseKeeps, DP!TIInv
    <3>2. DP!Kempt' /\ DP!HeldPut(k, x)
      BY <1>1, <1>2, <2>1, DP!TidyReuse DEF DP!TidyReuse
    <3> QED BY <1>4, <2>1, <3>1, <3>2 DEF DP!InsertReuse
  <2>2. CASE DP!InsertNext(k, x)
    <3>1. DP!IInv'
      BY <1>1, <1>2, <2>2, DP!InsertNextKeeps DEF DP!InsertNextKeeps, DP!TIInv
    <3>2. DP!Kempt' /\ DP!HeldPut(k, x)
      BY <1>1, <1>2, <2>2, DP!TidyNextSlot DEF DP!TidyNextSlot
    <3> QED BY <1>4, <2>2, <3>1, <3>2 DEF DP!InsertNext
  <2> QED BY <1>6, <2>1, <2>2
<1>8. DP!TIInv'
  BY <1>7 DEF DP!TIInv
<1>9. DictGood'
  BY <1>7, <1>8 DEF DictGood
<1> DEFINE g == [Led EXCEPT ![k] = x]
<1>10. /\ g \in [Keys -> Slots \cup {Nil}]
       /\ \A q \in Keys, w \in Slots : DP!Holding(q, w)' <=> g[q] = w
  <2>1. \A q \in Keys : Led[q] \in Slots \cup {Nil}
    BY DictTyped
  <2>2. Led \in [Keys -> Slots \cup {Nil}]
    BY <2>1 DEF Led
  <2>3. \A q \in Keys : g[q] = IF q = k THEN x ELSE Led[q]
    BY <2>2
  <2>4. \A q \in Keys, w \in Slots :
          DP!Holding(q, w)' <=> IF q = k THEN w = x ELSE DP!Holding(q, w)
    BY <1>2, <1>7 DEF DP!HeldPut
  <2>5. \A q \in Keys, w \in Slots : Led[q] = w <=> DP!Holding(q, w)
    BY DictTyped
  <2>6. g \in [Keys -> Slots \cup {Nil}]
    BY <2>2
  <2> HIDE DEF g
  <2> QED BY <2>3, <2>4, <2>5, <2>6
<1> HIDE DEF g
<1>11. Led' = g
  BY <1>8, <1>10, DictLed
<1> QED BY <1>3, <1>7, <1>9, <1>11 DEF g

\* A key leaves.
LEMMA DictErased ==
  ASSUME CachesAssumption, DictGood, NEW k \in Keys, V3!D!Erase(k)
  PROVE  /\ DictGood' /\ capacity' = capacity
         /\ V3!D!Size' = V3!D!Size - 1 /\ Led' = [Led EXCEPT ![k] = Nil]
<1>1. DP!TIInv /\ DP!DictionaryAssumption
  BY DictAssumed DEF DictGood
<1>2. V3!Nil = Nil /\ V3!Slots = Slots
  BY SameNodes3
<1>3. V3!D!Size = count - freeSize /\ V3!D!Size' = count' - freeSize'
  BY DEF V3!D!Size
<1>4. count \in Nat /\ freeSize \in Nat
  BY DictTyped
<1>5. DP!Erase(k)
  BY SameDictionary
<1>6. /\ DP!IInv' /\ DP!Kempt' /\ DP!HeldLess(k)
      /\ capacity' = capacity /\ fault' = fault
      /\ count' - freeSize' = count - freeSize - 1
  <2>1. DP!IInv'
    BY <1>1, <1>5, DP!EraseKeeps DEF DP!EraseKeeps, DP!TIInv
  <2>2. DP!Kempt' /\ DP!HeldLess(k)
    BY <1>1, <1>5, DP!TidyErase DEF DP!TidyErase
  <2> QED BY <1>4, <1>5, <2>1, <2>2 DEF DP!Erase
<1>7. DP!TIInv'
  BY <1>6 DEF DP!TIInv
<1>8. DictGood'
  BY <1>6, <1>7 DEF DictGood
<1> DEFINE g == [Led EXCEPT ![k] = Nil]
<1>9. /\ g \in [Keys -> Slots \cup {Nil}]
      /\ \A q \in Keys, w \in Slots : DP!Holding(q, w)' <=> g[q] = w
  <2>1. \A q \in Keys : Led[q] \in Slots \cup {Nil}
    BY DictTyped
  <2>2. Led \in [Keys -> Slots \cup {Nil}]
    BY <2>1 DEF Led
  <2>3. \A q \in Keys : g[q] = IF q = k THEN Nil ELSE Led[q]
    BY <2>2
  <2>4. \A q \in Keys, w \in Slots :
          DP!Holding(q, w)' <=> q # k /\ DP!Holding(q, w)
    BY <1>2, <1>6 DEF DP!HeldLess
  <2>5. \A q \in Keys, w \in Slots : Led[q] = w <=> DP!Holding(q, w)
    BY DictTyped
  <2>6. g \in [Keys -> Slots \cup {Nil}]
    BY <2>2
  <2>7. \A w \in Slots : w # Nil
    BY DEF Slots, Nil
  <2> HIDE DEF g
  <2> QED BY <2>3, <2>4, <2>5, <2>6, <2>7
<1> HIDE DEF g
<1>10. Led' = g
  BY <1>7, <1>9, DictLed
<1> QED BY <1>3, <1>6, <1>8, <1>10 DEF g

\* The dictionary is constructed.
LEMMA DictInit ==
  ASSUME CacheAssumption, CachesAssumption, V3!D!Init
  PROVE  /\ DictGood /\ V3!D!Size = 0
         /\ \A q \in Keys : Led[q] = Nil
<1>1. DP!DictionaryAssumption /\ DP!Init
  BY DictAssumed, SameDictionary
<1>2. DP!IInv /\ DP!Kempt /\ fault = "none"
  BY <1>1, DP!InitEstablishes DEF DP!InitEstablishes
<1>3. count = 0 /\ freeSize = 0
  BY <1>1 DEF DP!Init
<1>4. capacity >= Capacity
  <2>1. capacity = DP!round_up_pow2(Capacity)
    BY <1>1 DEF DP!Init, DP!Alloc
  <2>2. Capacity \in Nat
    BY DEF CacheAssumption
  <2>3. DP!round_up_pow2(Capacity) >= Capacity
    BY <1>1, <2>2, DP!RoundedUp DEF DP!RoundedUp
  <2> QED BY <2>1, <2>3
<1>5. DictGood
  BY <1>2, <1>4 DEF DictGood, DP!TIInv
<1>6. V3!D!Size = 0
  BY <1>3 DEF V3!D!Size
<1>7. \A q \in Keys : Led[q] = Nil
  <2>1. DP!Live = {}
    <3>1. \A i \in DP!Slots : ~(i < count)
      BY <1>3 DEF DP!Slots
    <3> QED BY <3>1 DEF DP!Live, DP!Handed
  <2>2. \A q \in Keys, w \in Slots : ~DP!Holding(q, w)
    BY <2>1 DEF DP!Holding
  <2> QED BY <1>5, <2>2, DictTyped
<1> QED BY <1>5, <1>6, <1>7

\* The dictionary is left alone.
LEMMA DictSame ==
  ASSUME CachesAssumption, DictGood, UNCHANGED V3!cache
  PROVE  /\ DictGood' /\ capacity' = capacity
         /\ V3!D!Size' = V3!D!Size /\ Led' = Led
<1>1. /\ buckets' = buckets /\ entries' = entries /\ count' = count
      /\ capacity' = capacity /\ freeHead' = freeHead /\ freeSize' = freeSize
      /\ fault' = fault
  BY DEF V3!cache
<1>2. DP!TIInv /\ DP!DictionaryAssumption
  BY DictAssumed DEF DictGood
<1>3. DP!TypeOK
  BY <1>2 DEF DP!TIInv, DP!IInv
<1>4. fault' \in DP!Faults
  BY <1>1, <1>3 DEF DP!TypeOK
<1>5. DP!IInv'
  BY <1>1, <1>2, <1>4, DP!FaultKeeps DEF DP!FaultKeeps, DP!TIInv
<1>6. DP!Kempt' /\ DP!HeldSame
  BY <1>1, <1>2, DP!TidyFault DEF DP!TidyFault
<1>7. DP!TIInv'
  BY <1>5, <1>6 DEF DP!TIInv
<1>8. DictGood'
  BY <1>1, <1>7 DEF DictGood
<1>9. V3!D!Size' = V3!D!Size
  BY <1>1 DEF V3!D!Size
<1> DEFINE g == Led
<1>10. /\ g \in [Keys -> Slots \cup {Nil}]
       /\ \A q \in Keys, w \in Slots : DP!Holding(q, w)' <=> g[q] = w
  <2>1. V3!Slots = Slots
    BY SameNodes3
  <2>2. \A q \in Keys, w \in Slots : DP!Holding(q, w)' <=> DP!Holding(q, w)
    BY <1>6, <2>1 DEF DP!HeldSame
  <2>3. \A q \in Keys : /\ Led[q] \in Slots \cup {Nil}
                        /\ \A w \in Slots : Led[q] = w <=> DP!Holding(q, w)
    BY DictTyped
  <2>4. Led \in [Keys -> Slots \cup {Nil}]
    BY <2>3 DEF Led
  <2> QED BY <2>2, <2>3, <2>4
<1>11. PICK h : h = g
  OBVIOUS
<1>12. Led' = h
  <2> HIDE DEF g
  <2>1. /\ h \in [Keys -> Slots \cup {Nil}]
        /\ \A q \in Keys, w \in Slots : DP!Holding(q, w)' <=> h[q] = w
    BY <1>10, <1>11
  <2> QED BY <1>7, <2>1, DictLed
<1> QED BY <1>1, <1>8, <1>9, <1>11, <1>12

-----------------------------------------------------------------------------
(* V3 and the first cache                                                  *)

Pending(s, k, v, x) == [step |-> s, key |-> k, value |-> v, node |-> x]

\* Between two calls the dictionary leads to the nodes of the list, and the
\* list is in the first cache's order.
Idling ==
  /\ pend = V3!Idle
  /\ Binds(Led, KeysOf(list3), 0 .. list3.size - 1)
  /\ V3!D!Size = list3.size
  /\ OrderOf(list3) = OrderOf(list)

\* In a put of a new key into a full cache, whose order the first cache has
\* already: the key at the back is out of the dictionary, ...
Replacing(e) ==
  \E k \in Keys, v \in Vals :
    /\ pend = Pending("replace", k, v, e[list3.size])
    /\ list3.size = Capacity
    /\ Binds(Led, KeysOf(list3), (0 .. list3.size - 1) \ {e[list3.size]})
    /\ V3!D!Size = list3.size - 1
    /\ Led[k] = Nil
    /\ Renews(OrderOf(list3), OrderOf(list), list3.size, list3.size, Paired(k, v))

\* ... then the new key is in, while its node still holds the old one.
Moving(e) ==
  \E k \in Keys, v \in Vals :
    /\ pend = Pending("move", k, v, e[list3.size])
    /\ list3.size = Capacity
    /\ Binds(Led, Renamed(KeysOf(list3), e[list3.size], k), 0 .. list3.size - 1)
    /\ V3!D!Size = list3.size
    /\ Renews(OrderOf(list3), OrderOf(list), list3.size, list3.size, Paired(k, v))

\* In a put with room left: the newest node is in the list, its key not yet in
\* the dictionary.
Adding ==
  \E k \in Keys, v \in Vals :
    /\ pend = Pending("add", k, v, list3.size - 1)
    /\ list3.size > 0
    /\ list3.node[list3.size - 1].key = k
    /\ Binds(Led, KeysOf(list3), 0 .. list3.size - 2)
    /\ V3!D!Size = list3.size - 1
    /\ Led[k] = Nil
    /\ OrderOf(list3) = OrderOf(list)

Good3(e) ==
  /\ Chain(list3, e) /\ list3.size = list.size
  /\ DictGood /\ ret3 = ret
  /\ Idling \/ Replacing(e) \/ Moving(e) \/ Adding

\* The phase is the step that is pending.
LEMMA Phases ==
  ASSUME NEW e, Good3(e)
  PROVE  /\ pend.step \in {"none", "replace", "move", "add"}
         /\ pend = V3!Idle => Idling
         /\ pend.step = "none" <=> pend = V3!Idle
         /\ pend.step = "replace" => Replacing(e)
         /\ pend.step = "move" => Moving(e)
         /\ pend.step = "add" => Adding
<1>1. \A s, k, v, x : Pending(s, k, v, x).step = s
  BY DEF Pending
<1>2. V3!Idle.step = "none"
  BY DEF V3!Idle
<1>3. Idling => pend.step = "none" /\ pend = V3!Idle
  BY <1>2 DEF Idling
<1>4. /\ Replacing(e) => pend.step = "replace"
      /\ Moving(e) => pend.step = "move"
      /\ Adding => pend.step = "add"
  BY <1>1 DEF Replacing, Moving, Adding
<1> QED BY <1>2, <1>3, <1>4 DEF Good3

\* What V3 looks up.
LEMMA Cached3 ==
  ASSUME CachesAssumption, DictGood, NEW k \in Keys
  PROVE  /\ V3!Cached(k) <=> Led[k] # Nil
         /\ V3!NodeOf(k) = Led[k]
<1>1. Led[k] = DP!Lookup(k)
  BY DEF Led
<1>2. Led[k] = Nil <=> DP!find(k) = DP!Null
  BY DictTyped
<1> QED BY <1>1, <1>2, SameDictionary DEF V3!Cached, V3!NodeOf

\* No node in use changes its key.
KeysStay(U, L) == \A x \in 0 .. L.size - 1 : U.node[x].key = L.node[x].key

\* An idle V3 agrees with the first cache when it stays idle, the dictionary is
\* left alone and its list is in the new order.
LEMMA StillIdle ==
  ASSUME CacheAssumption, CachesAssumption, NEW e, Good3(e), Idling,
         UNCHANGED <<V3!cache, pend>>, ret3' = ret',
         NEW g, Chain(list3', g), list3'.size = list3.size,
         list'.size = list.size,
         KeysStay(list3', list3),
         OrderOf(list3') = OrderOf(list')
  PROVE  Good3(g)'
<1>1. /\ Chain(list3, e) /\ list3.size = list.size /\ DictGood
      /\ pend = V3!Idle /\ V3!D!Size = list3.size
      /\ Binds(Led, KeysOf(list3), 0 .. list3.size - 1)
  BY DEF Good3, Idling
<1>2. DictGood' /\ V3!D!Size' = V3!D!Size /\ Led' = Led
  BY <1>1, DictSame
<1>3. Binds(Led, KeysOf(list3'), 0 .. list3.size - 1)
  <2>1. \A x \in 0 .. list3.size - 1 : KeysOf(list3')[x] = KeysOf(list3)[x]
    <3>1. \A x \in 0 .. list3.size - 1 : x \in Slots
      BY <1>1, ChainIs
    <3> QED BY <3>1 DEF KeysOf, KeysStay
  <2> DEFINE ku == KeysOf(list3')
  <2>2. \A x \in 0 .. list3.size - 1 : ku[x] = KeysOf(list3)[x]
    BY <2>1
  <2> HIDE DEF ku
  <2>3. Binds(Led, ku, 0 .. list3.size - 1)
    BY <1>1, <2>2, BindsSame
  <2> QED BY <2>3 DEF ku
<1>4. Idling'
  BY <1>1, <1>2, <1>3 DEF Idling, V3!Idle
<1> QED BY <1>1, <1>2, <1>4 DEF Good3

\* get: V3 moves the pair that the first cache moves, or neither has it.
LEMMA Get3 ==
  ASSUME CacheAssumption, CachesAssumption, IInv, NEW e, Good3(e),
         NEW k \in Keys, get(k), V3!get(k)
  PROVE  \E g : Good3(g)'
<1>1. pend = V3!Idle /\ UNCHANGED <<V3!cache, pend>>
  BY DEF V3!get, V3!cache
<1>2. Idling /\ Chain(list3, e) /\ list3.size = list.size /\ DictGood /\ ret3 = ret
  BY <1>1, Phases DEF Good3
<1> DEFINE n == list3.size
           s == OrderOf(list)
<1>3. OrderOf(list3) = s /\ Binds(Led, KeysOf(list3), 0 .. n - 1)
  BY <1>2 DEF Idling
<1>4. /\ V3!Cached(k) <=> Led[k] # Nil
      /\ V3!NodeOf(k) = Led[k]
  BY <1>2, Cached3
<1>5. PICK d : Chain(list', d)
  BY StepGet DEF IInv, Good
<1>6. /\ list'.size = list.size
      /\ \/ \E p \in 1 .. n : /\ s[p].key = k /\ ret' = s[p].value
                              /\ Renews(s, OrderOf(list'), n, p, s[p])
         \/ Absent(s, n, k) /\ ret' = Failed /\ OrderOf(list') = s
  BY <1>2, GetOrder
<1>7. /\ Led[k] = Nil => Absent(s, n, k)
      /\ Led[k] # Nil =>
           \E p \in 1 .. n :
             /\ Led[k] = e[p] /\ s[p].key = k /\ list3.node[e[p]].key = k
             /\ \A q \in 1 .. n : s[q].key = k => q = p
  <2> DEFINE lk == Led
  <2> HIDE DEF lk
  <2>1. Binds(lk, KeysOf(list3), 0 .. list3.size - 1)
    BY <1>3 DEF lk
  <2>2. /\ lk[k] = Nil => Absent(OrderOf(list3), list3.size, k)
        /\ lk[k] # Nil =>
             \E p \in 1 .. list3.size :
               /\ lk[k] = e[p] /\ OrderOf(list3)[p].key = k
               /\ list3.node[e[p]].key = k
               /\ \A q \in 1 .. list3.size : OrderOf(list3)[q].key = k => q = p
    BY <1>2, <2>1, BoundPlace
  <2> QED BY <2>2, <1>3 DEF lk
<1>8. CASE Led[k] = Nil
  <2>1. list3' = list3 /\ ret3' = Failed
    BY <1>4, <1>8 DEF V3!get
  <2>2. ret' = Failed /\ OrderOf(list') = s
    BY <1>6, <1>7, <1>8 DEF Absent
  <2>3. KeysStay(list3', list3)
    BY <2>1 DEF KeysStay
  <2>4. Good3(e)'
    BY <1>1, <1>2, <1>3, <1>6, <2>1, <2>2, <2>3, StillIdle
  <2> QED BY <2>4
<1>9. CASE Led[k] # Nil
  <2>1. PICK p \in 1 .. n :
          /\ Led[k] = e[p] /\ s[p].key = k /\ list3.node[e[p]].key = k
          /\ \A q \in 1 .. n : s[q].key = k => q = p
    BY <1>7, <1>9
  <2> DEFINE v == list3.node[e[p]].value
  <2>2. list3' = move_to_front(list3, e[p]) /\ ret3' = v
    BY <1>4, <1>9, <2>1, SameNodes3 DEF V3!get
  <2>3. e[p] \in 0 .. n - 1 /\ v \in Vals
    BY <1>2, ChainIs
  <2>4. s[p] = Paired(k, v)
    BY <1>2, <1>3, <2>1, OrderAt DEF PairAt
  <2>5. ret' = v /\ Renews(s, OrderOf(list'), n, p, Paired(k, v))
    <3>1. Paired(k, v).value = v
      BY DEF Paired
    <3> HIDE DEF v, n, s
    <3> QED BY <1>6, <2>1, <2>4, <3>1 DEF Absent
  <2>6. list3' = move_to_front(Rewritten(list3, e[p], k, v), e[p])
    <3>1. list3 = Rewritten(list3, e[p], list3.node[e[p]].key, v)
      BY <1>2, <2>3, Rewrites
    <3> QED BY <3>1, <2>1, <2>2
  <2> HIDE DEF v
  <2>7. /\ Chain(list3', Fronted(e, n, p)) /\ list3'.size = n
        /\ NewData(list3', list3, Capacity, e[p], k, v)
        /\ Renews(s, OrderOf(list3'), n, p, Paired(k, v))
    <3>1. /\ Chain(list3', Fronted(e, list3.size, p)) /\ list3'.size = list3.size
          /\ NewData(list3', list3, Capacity, e[p], k, v)
          /\ Renews(OrderOf(list3), OrderOf(list3'), list3.size, p, Paired(k, v))
      BY <1>2, <2>3, <2>6, RenewedOrder
    <3> QED BY <3>1, <1>3
  <2>8. \A i \in 1 .. n : OrderOf(list3')[i] = OrderOf(list')[i]
    BY <2>5, <2>7, RenewsOnce
  <2>9. PICK g : Chain(list3', g) /\ list3'.size = list3.size
    BY <2>7
  <2>10. OrderOf(list3') = OrderOf(list')
    BY <1>2, <1>5, <1>6, <2>8, <2>9, OrdersEqual
  <2>11. KeysStay(list3', list3)
    <3>1. \A x \in 0 .. list3.size - 1 : x \in ArrayOf(Capacity)
      BY <1>2, ChainIs DEF Slots, ArrayOf
    <3> QED BY <3>1, <2>1, <2>7 DEF NewData, KeysStay
  <2>12. ret3' = ret'
    BY <2>2, <2>5 DEF v
  <2>13. Good3(g)'
    <3>1. list'.size = list.size
      BY <1>6
    <3> HIDE DEF n, s
    <3> QED BY <1>1, <1>2, <3>1, <2>9, <2>10, <2>11, <2>12, StillIdle
  <2> QED BY <2>13
<1> QED BY <1>8, <1>9

\* Between two calls V3 finds the keys that the order has.
LEMMA IdlePlace ==
  ASSUME CacheAssumption, CachesAssumption, NEW e, Good3(e), Idling,
         NEW k \in Keys
  PROVE  /\ V3!Cached(k) <=> Led[k] # Nil
         /\ V3!NodeOf(k) = Led[k]
         /\ Led[k] = Nil => Absent(OrderOf(list), list.size, k)
         /\ Led[k] # Nil =>
              \E p \in 1 .. list.size :
                /\ Led[k] = e[p] /\ OrderOf(list)[p].key = k
                /\ list3.node[e[p]].key = k
                /\ \A q \in 1 .. list.size : OrderOf(list)[q].key = k => q = p
<1>1. /\ Chain(list3, e) /\ list3.size = list.size /\ DictGood
      /\ OrderOf(list3) = OrderOf(list)
      /\ Binds(Led, KeysOf(list3), 0 .. list3.size - 1)
  BY DEF Good3, Idling
<1>2. V3!Cached(k) <=> Led[k] # Nil
  BY <1>1, Cached3
<1>3. V3!NodeOf(k) = Led[k]
  BY <1>1, Cached3
<1> DEFINE lk == Led
<1> HIDE DEF lk
<1>4. Binds(lk, KeysOf(list3), 0 .. list3.size - 1)
  BY <1>1 DEF lk
<1>5. /\ lk[k] = Nil => Absent(OrderOf(list3), list3.size, k)
      /\ lk[k] # Nil =>
           \E p \in 1 .. list3.size :
             /\ lk[k] = e[p] /\ OrderOf(list3)[p].key = k
             /\ list3.node[e[p]].key = k
             /\ \A q \in 1 .. list3.size : OrderOf(list3)[q].key = k => q = p
  BY <1>1, <1>4, BoundPlace
<1> QED BY <1>1, <1>2, <1>3, <1>5 DEF lk

\* put of a cached key.
LEMMA Refresh3 ==
  ASSUME CacheAssumption, CachesAssumption, IInv, NEW e, Good3(e),
         NEW k \in Keys, NEW v \in Vals, put(k, v), V3!Refresh(k, v)
  PROVE  \E g : Good3(g)'
<1>1. /\ pend = V3!Idle /\ UNCHANGED <<V3!cache, pend>> /\ ret3' = ret3
      /\ V3!Cached(k)
  BY DEF V3!Refresh, V3!cache
<1>2. Idling /\ Chain(list3, e) /\ list3.size = list.size /\ ret3 = ret
      /\ OrderOf(list3) = OrderOf(list)
  BY <1>1, Phases DEF Good3, Idling
<1>3. ret' = ret
  BY DEF put
<1>4. PICK d : Chain(list', d)
  BY <1>3, StepRefresh, StepTouch, StepAdd DEF put, IInv, Good
<1>5. V3!NodeOf(k) = Led[k] /\ Led[k] # Nil
  BY <1>1, <1>2, IdlePlace
<1>6. PICK p \in 1 .. list.size :
        /\ Led[k] = e[p] /\ OrderOf(list)[p].key = k
        /\ list3.node[e[p]].key = k
        /\ \A q \in 1 .. list.size : OrderOf(list)[q].key = k => q = p
  BY <1>2, <1>5, IdlePlace
<1>7. /\ list'.size = list.size
      /\ Renews(OrderOf(list), OrderOf(list'), list.size, p, Paired(k, v))
  <2>1. ~Absent(OrderOf(list), list.size, k)
    BY <1>6 DEF Absent
  <2>2. /\ list'.size = list.size
        /\ \E q \in 1 .. list.size :
             /\ OrderOf(list)[q].key = k
             /\ Renews(OrderOf(list), OrderOf(list'), list.size, q, Paired(k, v))
    BY <2>1, PutOrder
  <2> QED BY <2>2, <1>6
<1>8. e[p] \in 0 .. list3.size - 1 /\ p \in 1 .. list3.size
  BY <1>2, ChainIs
<1>9. list3' = move_to_front(Rewritten(list3, e[p], k, v), e[p])
  <2>1. list3' = move_to_front(Revalued(list3, e[p], v), e[p])
    BY <1>5, <1>6, SameNodes3 DEF V3!Refresh, Revalued
  <2>2. Revalued(list3, e[p], v) = Rewritten(list3, e[p], k, v)
    BY <1>2, <1>6, <1>8, Rewrites
  <2> QED BY <2>1, <2>2
<1>10. /\ Chain(list3', Fronted(e, list3.size, p)) /\ list3'.size = list3.size
       /\ NewData(list3', list3, Capacity, e[p], k, v)
       /\ Renews(OrderOf(list3), OrderOf(list3'), list3.size, p, Paired(k, v))
  BY <1>2, <1>8, <1>9, RenewedOrder
<1>11. PICK g : Chain(list3', g)
  BY <1>10
<1>12. \A i \in 1 .. list3.size : OrderOf(list3')[i] = OrderOf(list')[i]
  <2>1. Renews(OrderOf(list3), OrderOf(list'), list3.size, p, Paired(k, v))
    BY <1>2, <1>7
  <2> QED BY <2>1, <1>10, RenewsOnce
<1>13. OrderOf(list3') = OrderOf(list')
  <2>1. list'.size = list3'.size /\ list3'.size = list3.size
    BY <1>2, <1>7, <1>10
  <2> QED BY <2>1, <1>4, <1>11, <1>12, OrdersEqual
<1>14. KeysStay(list3', list3)
  <2>1. \A x \in 0 .. list3.size - 1 : x \in ArrayOf(Capacity)
    BY <1>2, ChainIs DEF Slots, ArrayOf
  <2> QED BY <2>1, <1>6, <1>10 DEF NewData, KeysStay
<1>15. ret3' = ret' /\ list3'.size = list3.size /\ list'.size = list.size
  BY <1>1, <1>2, <1>3, <1>7, <1>10
<1>16. Good3(g)'
  BY <1>1, <1>2, <1>11, <1>13, <1>14, <1>15, StillIdle
<1> QED BY <1>16

\* The node at the back of a full list.
LEMMA BackNode ==
  ASSUME CacheAssumption, NEW L, NEW e, Chain(L, e), L.size >= Capacity
  PROVE  /\ L.size = Capacity /\ L.size \in 1 .. L.size
         /\ e[L.size] \in 0 .. L.size - 1 /\ e[L.size] \in Slots
         /\ L.tail.prev = e[L.size] /\ back(L) = e[L.size]
<1> DEFINE n == L.size
<1>1. n = Capacity /\ n \in 1 .. n /\ Capacity \in Nat \ {0}
  BY OrderAt DEF CacheAssumption
<1>2. e[n] \in 0 .. n - 1 /\ e[n] \in Slots
  BY <1>1, OrderAt
<1>3. L.tail.prev = e[n]
  <2>1. Whole(L, Capacity, Keys, Vals, n, e, 0, NoneFree, {}) /\ Capacity \in Nat
    BY <1>1 DEF Chain
  <2> HIDE DEF n
  <2> QED BY <2>1, WholeEnds
<1>4. back(L) = e[n]
  <2>1. e[n] # HeadNode
    BY <1>2 DEF Slots, HeadNode
  <2> QED BY <2>1, <1>3 DEF back
<1> QED BY <1>1, <1>2, <1>3, <1>4

\* put of a new key into a full cache, in three steps: V3 erases a key, ...
LEMMA Touch3 ==
  ASSUME CacheAssumption, CachesAssumption, IInv, NEW e, Good3(e),
         NEW k \in Keys, NEW v \in Vals, put(k, v), V3!Touch(k, v)
  PROVE  Good3(e)' /\ capacity' = capacity
<1>1. /\ Chain(list3, e) /\ list3.size = list.size /\ DictGood /\ ret3 = ret
      /\ pend = V3!Idle /\ ~V3!Cached(k) /\ list3' = list3 /\ ret3' = ret3
      /\ V3!SizeOf(list3) >= Capacity
  BY DEF Good3, V3!Touch
<1>2. Idling
  BY <1>1, Phases
<1>3. /\ OrderOf(list3) = OrderOf(list) /\ V3!D!Size = list3.size
      /\ Binds(Led, KeysOf(list3), 0 .. list3.size - 1)
  BY <1>2 DEF Idling
<1>4. Led[k] = Nil /\ Absent(OrderOf(list), list.size, k)
  BY <1>1, <1>2, IdlePlace
<1>5. list3.size >= Capacity
  <2>1. V3!SizeOf(list3) = list3.size - list3.freeSize
    BY SameNodes3 DEF SizeOf
  <2>2. list3.freeSize = 0 /\ list3.size \in Nat
    BY <1>1, ChainIs, OrderAt
  <2> QED BY <2>1, <2>2, <1>1
<1> DEFINE x == e[list3.size]
           old == list3.node[x].key
<1>6. /\ list3.size = Capacity /\ x \in 0 .. list3.size - 1 /\ x \in Slots
      /\ V3!back(list3) = x
  BY <1>1, <1>5, BackNode, SameNodes3
<1>7. /\ V3!D!Erase(old) /\ old \in Keys
      /\ pend' = Pending("replace", k, v, x)
  <2>1. old \in Keys
    BY <1>1, <1>6, ChainIs
  <2> QED BY <2>1, <1>6 DEF V3!Touch, Pending
<1>8. /\ DictGood' /\ capacity' = capacity
      /\ V3!D!Size' = V3!D!Size - 1 /\ Led' = [Led EXCEPT ![old] = Nil]
  <2> HIDE DEF old
  <2> QED BY <1>1, <1>7, DictErased
<1>9. Binds(Led', KeysOf(list3), (0 .. list3.size - 1) \ {x})
  <2> DEFINE lk == Led
             lu == Led'
             kf == KeysOf(list3)
             S == 0 .. list3.size - 1
  <2>1. DOMAIN lk = Keys
    BY DEF Led
  <2>2. kf[x] = old
    BY <1>6 DEF KeysOf
  <2>3. lu = [lk EXCEPT ![kf[x]] = Nil]
    BY <2>2, <1>8
  <2>4. Binds(lk, kf, S) /\ x \in S
    BY <1>3, <1>6
  <2> HIDE DEF lk, lu, kf, S, x
  <2>5. Binds(lu, kf, S \ {x})
    BY <2>1, <2>3, <2>4, BindsLess
  <2> QED BY <2>5 DEF lu, kf, S
<1>10. Led'[k] = Nil
  <2>1. DOMAIN Led = Keys
    BY DEF Led
  <2> QED BY <2>1, <1>4, <1>8
<1>11. /\ list'.size = list.size
       /\ Renews(OrderOf(list), OrderOf(list'), list.size, list.size, Paired(k, v))
  <2>1. ~(list.size < Capacity)
    BY <1>1, <1>6 DEF CacheAssumption
  <2>2. \A q \in 1 .. list.size : OrderOf(list)[q].key # k
    BY <1>4 DEF Absent
  <2> QED BY <2>1, <2>2, PutOrder
<1>12. Replacing(e)'
  <2>1. Renews(OrderOf(list3), OrderOf(list'), list3.size, list3.size, Paired(k, v))
    BY <1>1, <1>3, <1>11
  <2>2. V3!D!Size' = list3.size - 1
    BY <1>3, <1>8
  <2> QED BY <2>1, <2>2, <1>1, <1>6, <1>7, <1>9, <1>10 DEF Replacing
<1>13. ret' = ret
  BY DEF put
<1> QED BY <1>1, <1>8, <1>11, <1>12, <1>13 DEF Good3

\* put of a new key with room left, in two steps: the list, ...
LEMMA AddNew3 ==
  ASSUME CacheAssumption, CachesAssumption, IInv, NEW e, Good3(e),
         NEW k \in Keys, NEW v \in Vals, put(k, v), V3!AddNew(k, v)
  PROVE  \E g : Good3(g)'
<1>1. /\ Chain(list3, e) /\ list3.size = list.size /\ DictGood /\ ret3 = ret
      /\ pend = V3!Idle /\ ~V3!Cached(k) /\ ret3' = ret3
      /\ UNCHANGED V3!cache /\ V3!SizeOf(list3) < Capacity
  BY DEF Good3, V3!AddNew, V3!cache
<1>2. Idling
  BY <1>1, Phases
<1>3. /\ OrderOf(list3) = OrderOf(list) /\ V3!D!Size = list3.size
      /\ Binds(Led, KeysOf(list3), 0 .. list3.size - 1)
  BY <1>2 DEF Idling
<1>4. Led[k] = Nil /\ Absent(OrderOf(list), list.size, k)
  BY <1>1, <1>2, IdlePlace
<1>5. list3.size < Capacity /\ list3.size \in Nat
  <2>1. V3!SizeOf(list3) = list3.size - list3.freeSize
    BY SameNodes3 DEF SizeOf
  <2>2. list3.freeSize = 0 /\ list3.size \in Nat
    BY <1>1, ChainIs, OrderAt
  <2> QED BY <2>1, <2>2, <1>1
<1>6. /\ list3' = PushedFront(list3, k, v)
      /\ pend' = Pending("add", k, v, NewNode(list3))
  BY SameNodes3 DEF V3!AddNew, Pending
<1>7. /\ NewNode(list3) = list3.size
      /\ Chain(list3', Spliced(e, list3.size, 0, list3.size))
      /\ list3'.size = list3.size + 1
      /\ NewData(list3', list3, Capacity, list3.size, k, v)
  BY <1>1, <1>5, <1>6, ChainAdded
<1>8. PICK g : Chain(list3', g)
  BY <1>7
<1>9. Adds(OrderOf(list3), OrderOf(list3'), list3.size, Paired(k, v))
  BY <1>1, <1>5, <1>7, AddedOrder
<1>10. /\ list'.size = list.size + 1
       /\ Adds(OrderOf(list), OrderOf(list'), list.size, Paired(k, v))
  <2>1. list.size # Capacity
    BY <1>1, <1>5 DEF CacheAssumption
  <2>2. \A q \in 1 .. list.size : OrderOf(list)[q].key # k
    BY <1>4 DEF Absent
  <2> QED BY <2>1, <2>2, PutOrder
<1>11. PICK d : Chain(list', d)
  <2>1. ret' = ret
    BY DEF put
  <2> QED BY <2>1, StepRefresh, StepTouch, StepAdd DEF put, IInv, Good
<1>12. OrderOf(list3') = OrderOf(list')
  <2>1. Adds(OrderOf(list3), OrderOf(list'), list3.size, Paired(k, v))
    BY <1>1, <1>3, <1>10
  <2>2. \A i \in 1 .. list3.size + 1 : OrderOf(list3')[i] = OrderOf(list')[i]
    BY <2>1, <1>9, AddsOnce
  <2>3. list'.size = list3'.size /\ list3'.size = list3.size + 1
    BY <1>1, <1>7, <1>10
  <2> QED BY <2>2, <2>3, <1>8, <1>11, OrdersEqual
<1>13. DictGood' /\ V3!D!Size' = V3!D!Size /\ Led' = Led
  BY <1>1, DictSame
<1>14. /\ list3'.size - 1 = list3.size /\ list3'.size - 2 = list3.size - 1
       /\ list3'.size > 0
  BY <1>5, <1>7
<1>15. list3'.node[list3.size].key = k
  <2>1. list3.size \in ArrayOf(Capacity)
    BY <1>5 DEF ArrayOf, CacheAssumption
  <2> QED BY <2>1, <1>7 DEF NewData
<1>16. Binds(Led', KeysOf(list3'), 0 .. list3'.size - 2)
  <2> DEFINE ku == KeysOf(list3')
             kf == KeysOf(list3)
             S == 0 .. list3.size - 1
  <2>1. \A x \in S : ku[x] = kf[x]
    <3>1. \A x \in S : x \in Slots /\ x \in ArrayOf(Capacity) /\ x # list3.size
      BY <1>5 DEF ArrayOf, Slots, CacheAssumption
    <3> QED BY <3>1, <1>7 DEF KeysOf, NewData
  <2> HIDE DEF ku, kf, S
  <2>2. Binds(Led, kf, S)
    BY <1>3 DEF kf, S
  <2>3. Binds(Led, ku, S)
    BY <2>1, <2>2, BindsSame
  <2> QED BY <2>3, <1>13, <1>14 DEF ku, S
<1>17. V3!D!Size' = list3'.size - 1 /\ Led'[k] = Nil
  BY <1>3, <1>4, <1>13, <1>14
<1>18. pend' = Pending("add", k, v, list3'.size - 1)
  BY <1>6, <1>7, <1>14
<1>19. Adding'
  BY <1>12, <1>14, <1>15, <1>16, <1>17, <1>18 DEF Adding
<1>20. ret3' = ret' /\ list3'.size = list'.size
  BY <1>1, <1>7, <1>10 DEF put
<1> QED BY <1>8, <1>13, <1>19, <1>20 DEF Good3

\* The pending step of a put, whose fields it takes.
LEMMA PendingIs ==
  ASSUME NEW s, NEW k, NEW v, NEW x
  PROVE  /\ Pending(s, k, v, x).key = k /\ Pending(s, k, v, x).value = v
         /\ Pending(s, k, v, x).node = x /\ Pending(s, k, v, x).step = s
BY DEF Pending

\* ... inserts the new one, which takes the entry just erased, ...
LEMMA TouchInsert3 ==
  ASSUME CacheAssumption, CachesAssumption, NEW e, Good3(e), V3!TouchInsert,
         list' = list, ret' = ret
  PROVE  Good3(e)' /\ capacity' = capacity
<1>1. /\ Chain(list3, e) /\ list3.size = list.size /\ DictGood /\ ret3 = ret
      /\ pend.step = "replace" /\ V3!D!Insert(pend.key, pend.node)
      /\ pend' = [pend EXCEPT !.step = "move"]
      /\ list3' = list3 /\ ret3' = ret3
  BY DEF Good3, V3!TouchInsert
<1>2. Replacing(e)
  BY <1>1, Phases
<1> DEFINE x == e[list3.size]
<1>3. PICK k \in Keys, v \in Vals :
        /\ pend = Pending("replace", k, v, x)
        /\ list3.size = Capacity
        /\ Binds(Led, KeysOf(list3), (0 .. list3.size - 1) \ {x})
        /\ V3!D!Size = list3.size - 1
        /\ Led[k] = Nil
        /\ Renews(OrderOf(list3), OrderOf(list), list3.size, list3.size, Paired(k, v))
  BY <1>2 DEF Replacing
<1>4. x \in 0 .. list3.size - 1 /\ x \in Slots /\ Capacity \in Nat \ {0}
  BY <1>1, <1>3, BackNode DEF CacheAssumption
<1>5. pend' = Pending("move", k, v, x)
  BY <1>1, <1>3 DEF Pending
<1>6. V3!D!Insert(k, x)
  <2> HIDE DEF x
  <2>1. pend.key = k /\ pend.node = x
    BY <1>3, PendingIs
  <2> QED BY <2>1, <1>1
<1>7. /\ DictGood' /\ capacity' = capacity
      /\ V3!D!Size' = V3!D!Size + 1 /\ Led' = [Led EXCEPT ![k] = x]
  <2>1. V3!D!Size < Capacity
    BY <1>3, <1>4
  <2> HIDE DEF x
  <2> QED BY <2>1, <1>1, <1>3, <1>4, <1>6, DictInserted
<1>8. Binds(Led', Renamed(KeysOf(list3), x, k), 0 .. list3.size - 1)
  <2> DEFINE lk == Led
             lu == Led'
             kf == KeysOf(list3)
             ku == Renamed(kf, x, k)
             S == (0 .. list3.size - 1) \ {x}
  <2>1. DOMAIN lk = Keys /\ lk[k] = Nil /\ Binds(lk, kf, S)
    BY <1>3 DEF Led
  <2>2. lu = [lk EXCEPT ![k] = x]
    BY <1>7
  <2>3. ku[x] = k /\ \A y \in S : ku[y] = kf[y]
    <3>1. \A y \in S : y # x
      OBVIOUS
    <3>2. x \in DOMAIN kf
      BY <1>4 DEF KeysOf
    <3> HIDE DEF kf, S, x
    <3> QED BY <3>1, <3>2 DEF Renamed
  <2>4. x \notin S /\ S \cup {x} = 0 .. list3.size - 1
    BY <1>4
  <2> HIDE DEF lk, lu, kf, ku, S, x
  <2>5. Binds(lu, ku, S \cup {x})
    BY <2>1, <2>2, <2>3, <2>4, <1>4, BindsMore
  <2> QED BY <2>4, <2>5 DEF lu, ku, kf
<1>9. V3!D!Size' = list3.size
  BY <1>3, <1>4, <1>7
<1>10. Moving(e)'
  <2>1. Renews(OrderOf(list3'), OrderOf(list'), list3'.size, list3'.size, Paired(k, v))
    BY <1>1, <1>3
  <2>2. e[list3'.size] = x /\ list3' = list3
    BY <1>1
  <2> HIDE DEF x
  <2> QED BY <2>1, <2>2, <1>3, <1>5, <1>8, <1>9 DEF Moving
<1> QED BY <1>1, <1>7, <1>10 DEF Good3

\* ... and gives the node its key and moves it.
LEMMA TouchMove3 ==
  ASSUME CacheAssumption, CachesAssumption, IInv, NEW e, Good3(e),
         V3!TouchMove, list' = list, ret' = ret
  PROVE  \E g : Good3(g)'
<1>1. /\ Chain(list3, e) /\ list3.size = list.size /\ DictGood /\ ret3 = ret
      /\ pend.step = "move" /\ ret3' = ret3 /\ pend' = V3!Idle
      /\ UNCHANGED V3!cache
  BY DEF Good3, V3!TouchMove, V3!cache
<1>2. Moving(e)
  BY <1>1, Phases
<1> DEFINE x == e[list3.size]
<1>3. PICK k \in Keys, v \in Vals :
        /\ pend = Pending("move", k, v, x)
        /\ list3.size = Capacity
        /\ Binds(Led, Renamed(KeysOf(list3), x, k), 0 .. list3.size - 1)
        /\ V3!D!Size = list3.size
        /\ Renews(OrderOf(list3), OrderOf(list), list3.size, list3.size, Paired(k, v))
  BY <1>2 DEF Moving
<1>4. /\ x \in 0 .. list3.size - 1 /\ x \in Slots
      /\ list3.size \in 1 .. list3.size
  <2>1. list3.size >= Capacity
    BY <1>3 DEF CacheAssumption
  <2> QED BY <2>1, <1>1, BackNode
<1>5. list3' = move_to_front(Rewritten(list3, x, k, v), x)
  <2> HIDE DEF x
  <2>1. pend.key = k /\ pend.value = v /\ pend.node = x
    BY <1>3, PendingIs
  <2> QED BY <2>1, SameNodes3 DEF V3!TouchMove, Rewritten
<1>6. /\ Chain(list3', Fronted(e, list3.size, list3.size))
      /\ list3'.size = list3.size
      /\ NewData(list3', list3, Capacity, x, k, v)
      /\ Renews(OrderOf(list3), OrderOf(list3'), list3.size, list3.size, Paired(k, v))
  <2> DEFINE p == list3.size
  <2>1. p \in 1 .. list3.size
    BY <1>4
  <2>2. list3' = move_to_front(Rewritten(list3, e[p], k, v), e[p])
    BY <1>5
  <2> HIDE DEF p
  <2>3. /\ Chain(list3', Fronted(e, list3.size, p)) /\ list3'.size = list3.size
        /\ NewData(list3', list3, Capacity, e[p], k, v)
        /\ Renews(OrderOf(list3), OrderOf(list3'), list3.size, p, Paired(k, v))
    BY <2>1, <2>2, <1>1, RenewedOrder
  <2> QED BY <2>3 DEF p
<1>7. PICK g : Chain(list3', g)
  BY <1>6
<1>8. OrderOf(list3') = OrderOf(list')
  <2>1. PICK d : Chain(list, d)
    BY DEF IInv, Good
  <2>2. \A i \in 1 .. list3.size : OrderOf(list3')[i] = OrderOf(list)[i]
    BY <1>3, <1>6, RenewsOnce
  <2>3. list.size = list3'.size /\ list3'.size = list3.size
    BY <1>1, <1>6
  <2>4. OrderOf(list3') = OrderOf(list)
    BY <2>1, <2>2, <2>3, <1>7, OrdersEqual
  <2> QED BY <2>4
<1>9. DictGood' /\ V3!D!Size' = V3!D!Size /\ Led' = Led
  BY <1>1, DictSame
<1>10. Binds(Led', KeysOf(list3'), 0 .. list3'.size - 1)
  <2> DEFINE kf == Renamed(KeysOf(list3), x, k)
             ku == KeysOf(list3')
             S == 0 .. list3.size - 1
  <2>1. \A y \in S : ku[y] = kf[y]
    <3>1. \A y \in S : y \in Slots /\ y \in ArrayOf(Capacity)
      BY <1>1, ChainIs DEF Slots, ArrayOf
    <3>2. \A y \in Slots : kf[y] = IF y = x THEN k ELSE list3.node[y].key
      BY <1>4 DEF Renamed, KeysOf
    <3> HIDE DEF kf, x
    <3> QED BY <3>1, <3>2, <1>6 DEF KeysOf, NewData
  <2> HIDE DEF ku, kf, S
  <2>2. Binds(Led, kf, S)
    BY <1>3 DEF kf, S
  <2>3. Binds(Led, ku, S)
    BY <2>1, <2>2, BindsSame
  <2> QED BY <2>3, <1>6, <1>9 DEF ku, S
<1>11. Idling'
  <2>1. V3!D!Size' = list3'.size
    BY <1>3, <1>6, <1>9
  <2> QED BY <2>1, <1>1, <1>8, <1>10 DEF Idling, V3!Idle
<1>12. ret3' = ret' /\ list3'.size = list'.size
  BY <1>1, <1>6
<1> QED BY <1>7, <1>9, <1>11, <1>12 DEF Good3

\* ... then the dictionary.
LEMMA AddInsert3 ==
  ASSUME CacheAssumption, CachesAssumption, NEW e, Good3(e), V3!AddInsert,
         list' = list, ret' = ret
  PROVE  Good3(e)' /\ capacity' = capacity
<1>1. /\ Chain(list3, e) /\ list3.size = list.size /\ DictGood /\ ret3 = ret
      /\ pend.step = "add" /\ V3!D!Insert(pend.key, pend.node)
      /\ pend' = V3!Idle /\ list3' = list3 /\ ret3' = ret3
  BY DEF Good3, V3!AddInsert
<1>2. Adding
  BY <1>1, Phases
<1> DEFINE x == list3.size - 1
<1>3. PICK k \in Keys, v \in Vals :
        /\ pend = Pending("add", k, v, x)
        /\ list3.size > 0
        /\ list3.node[x].key = k
        /\ Binds(Led, KeysOf(list3), 0 .. list3.size - 2)
        /\ V3!D!Size = x
        /\ Led[k] = Nil
        /\ OrderOf(list3) = OrderOf(list)
  BY <1>2 DEF Adding
<1>4. /\ x \in Slots /\ list3.size \in Nat /\ x < Capacity
      /\ x \notin 0 .. list3.size - 2
      /\ (0 .. list3.size - 2) \cup {x} = 0 .. list3.size - 1
  <2>1. list3.size \in Nat /\ list3.size <= Capacity /\ Capacity \in Nat
    BY <1>1, OrderAt DEF CacheAssumption
  <2> QED BY <2>1, <1>3 DEF Slots
<1>5. V3!D!Insert(k, x)
  <2> HIDE DEF x
  <2>1. pend.key = k /\ pend.node = x
    BY <1>3, PendingIs
  <2> QED BY <2>1, <1>1
<1>6. /\ DictGood' /\ capacity' = capacity
      /\ V3!D!Size' = V3!D!Size + 1 /\ Led' = [Led EXCEPT ![k] = x]
  <2>1. V3!D!Size < Capacity
    BY <1>3, <1>4
  <2> HIDE DEF x
  <2> QED BY <2>1, <1>1, <1>3, <1>4, <1>5, DictInserted
<1>7. Binds(Led', KeysOf(list3), 0 .. list3.size - 1)
  <2> DEFINE lk == Led
             lu == Led'
             kf == KeysOf(list3)
             S == 0 .. list3.size - 2
  <2>1. DOMAIN lk = Keys /\ lk[k] = Nil /\ Binds(lk, kf, S)
    BY <1>3 DEF Led
  <2>2. lu = [lk EXCEPT ![k] = x]
    BY <1>6
  <2>3. kf[x] = k
    BY <1>3, <1>4 DEF KeysOf
  <2>4. x \notin S /\ S \cup {x} = 0 .. list3.size - 1
    BY <1>4
  <2> HIDE DEF lk, lu, kf, S, x
  <2>5. Binds(lu, kf, S \cup {x})
    BY <2>1, <2>2, <2>3, <2>4, <1>4, BindsMore
  <2> QED BY <2>4, <2>5 DEF lu, kf
<1>8. V3!D!Size' = list3.size
  BY <1>3, <1>4, <1>6
<1>9. Idling'
  <2> HIDE DEF x
  <2> QED BY <1>1, <1>3, <1>7, <1>8 DEF Idling, V3!Idle
<1> QED BY <1>1, <1>6, <1>9 DEF Good3

\* V3 is constructed.
LEMMA Init3 ==
  ASSUME CacheAssumption, CachesAssumption, Init, V3!Init
  PROVE  Good3(EndsOnly)
<1>1. /\ list3 = EmptyList(Capacity) /\ ret3 = Failed /\ pend = V3!Idle
      /\ V3!D!Init
  BY SameNodes3 DEF V3!Init
<1>2. list = EmptyList(Capacity) /\ ret = Failed
  BY DEF Init
<1>3. Chain(list3, EndsOnly) /\ list3.size = 0
  BY <1>1, ChainEmpty
<1>4. /\ DictGood /\ V3!D!Size = 0
      /\ \A q \in Keys : Led[q] = Nil
  BY <1>1, DictInit
<1>5. Binds(Led, KeysOf(list3), 0 .. list3.size - 1)
  <2>1. \A x \in 0 .. list3.size - 1 : FALSE
    BY <1>3
  <2> QED BY <2>1, <1>4 DEF Binds
<1>6. Idling
  BY <1>1, <1>2, <1>3, <1>4, <1>5 DEF Idling
<1> QED BY <1>1, <1>2, <1>3, <1>4, <1>6 DEF Good3

-----------------------------------------------------------------------------
(* The caches side by side                                                 *)

\* Each cache is in order, V2 and V3 in that of the first.
AllInv ==
  /\ IInv
  /\ \E e : Good2(list2, cache2, e, list.size, OrderOf(list))
  /\ \E e : Good3(e)
  /\ ret2 = ret

\* The caches are constructed.
LEMMA AllInitGood ==
  ASSUME CacheAssumption, CachesAssumption, AllInit
  PROVE  AllInv
<1>1. Init /\ V2!Init /\ V3!Init
  BY DEF AllInit
<1>2. IInv /\ list.size = 0 /\ ret = Failed
  BY <1>1, InitGood DEF Init, EmptyList
<1>3. Good2(list2, cache2, EndsOnly, list.size, OrderOf(list)) /\ ret2 = Failed
  <2> DEFINE s == OrderOf(list)
  <2> HIDE DEF s
  <2>1. Good2(list2, cache2, EndsOnly, 0, s) /\ ret2 = Failed
    BY <1>1, OwnedInit
  <2> QED BY <2>1, <1>2 DEF s
<1>4. Good3(EndsOnly)
  BY <1>1, Init3
<1> QED BY <1>2, <1>3, <1>4 DEF AllInv

\* All caches get.
LEMMA AllGet ==
  ASSUME CacheAssumption, CachesAssumption, AllInv, NEW k \in Keys, GetAll(k)
  PROVE  AllInv'
<1>1. IInv /\ get(k) /\ V2!get(k) /\ V3!get(k)
  BY DEF AllInv, GetAll
<1>2. IInv'
  BY <1>1, StepGet
<1> DEFINE n == list.size
           s == OrderOf(list)
           t == OrderOf(list')
<1>3. PICK e : Good2(list2, cache2, e, n, s)
  BY DEF AllInv
<1>4. /\ list'.size = n
      /\ \/ \E p \in 1 .. n : /\ s[p].key = k /\ Renews(s, t, n, p, s[p])
                              /\ ret' = s[p].value
         \/ Absent(s, n, k) /\ ret' = Failed /\ t = s
  BY <1>1, GetOrder
<1> HIDE DEF n, s, t
<1>5. /\ \E g : Good2(list2', cache2', g, n, t)
      /\ \A p \in 1 .. n : s[p].key = k => ret2' = s[p].value
      /\ Absent(s, n, k) => ret2' = Failed
  <2>1. \/ \E p \in 1 .. n : s[p].key = k /\ Renews(s, t, n, p, s[p])
        \/ Absent(s, n, k) /\ t = s
    BY <1>4
  <2> QED BY ONLY CachesAssumption, <1>1, <1>3, <2>1, OwnedGet
<1>6. ret2' = ret'
  BY <1>4, <1>5
<1>7. \E g : Good2(list2', cache2', g, list'.size, OrderOf(list'))
  BY <1>4, <1>5 DEF t
<1>8. \E g : Good3(g)'
  BY <1>1, Get3 DEF AllInv
<1> QED BY <1>2, <1>6, <1>7, <1>8 DEF AllInv

\* All caches put.
LEMMA AllPut ==
  ASSUME CacheAssumption, CachesAssumption, AllInv,
         NEW k \in Keys, NEW v \in Vals, PutAll(k, v)
  PROVE  AllInv' /\ capacity' = capacity
<1>1. IInv /\ put(k, v) /\ V2!put(k, v) /\ V3!put(k, v) /\ ret' = ret
  BY DEF AllInv, PutAll, put
<1>2. IInv'
  BY <1>1, StepRefresh, StepTouch, StepAdd DEF put
<1> DEFINE n == list.size
           m == list'.size
           s == OrderOf(list)
           t == OrderOf(list')
<1>3. PICK e : Good2(list2, cache2, e, n, s)
  BY DEF AllInv
<1>4. \/ /\ m = n
         /\ \E p \in 1 .. n : s[p].key = k /\ Renews(s, t, n, p, Paired(k, v))
      \/ /\ m = n /\ n = Capacity /\ Absent(s, n, k)
         /\ Renews(s, t, n, n, Paired(k, v))
      \/ /\ m = n + 1 /\ n < Capacity /\ Absent(s, n, k)
         /\ Adds(s, t, n, Paired(k, v))
  BY <1>1, PutOrder
<1> HIDE DEF n, m, s, t
<1>5. /\ cache2[k] # Nil => \E p \in 1 .. n : s[p].key = k
      /\ \A p \in 1 .. n : s[p].key = k => cache2[k] # Nil
  BY <1>3, OwnedPlace
<1>6. (\E g : Good2(list2', cache2', g, m, t)) /\ ret2' = ret2
  <2>1. CASE V2!PutRefresh(k, v)
    <3>1. cache2[k] # Nil /\ ret2' = ret2
      BY <2>1, SameNodes2 DEF V2!PutRefresh
    <3>2. ~Absent(s, n, k)
      BY <3>1, <1>5 DEF Absent
    <3>3. PICK p \in 1 .. n : s[p].key = k /\ Renews(s, t, n, p, Paired(k, v))
      BY <3>2, <1>4
    <3>4. \E g : Good2(list2', cache2', g, n, t)
      BY <2>1, <3>3, <1>3, OwnedRefreshed
    <3> QED BY <3>1, <3>2, <3>4, <1>4
  <2>2. CASE V2!PutNew(k, v)
    <3>1. cache2[k] = Nil /\ ret2' = ret2
      BY <2>2, SameNodes2 DEF V2!PutNew
    <3>2. \A p \in 1 .. n : s[p].key # k
      BY <3>1, <1>5
    <3>3. \/ n = Capacity /\ m = n /\ Renews(s, t, n, n, Paired(k, v))
          \/ n < Capacity /\ m = n + 1 /\ Adds(s, t, n, Paired(k, v))
      BY <3>2, <1>4
    <3>4. \E g : Good2(list2', cache2', g, m, t)
      BY <2>2, <3>3, <1>3, OwnedPut
    <3> QED BY <3>1, <3>4
  <2> QED BY <2>1, <2>2, <1>1 DEF V2!put
<1>7. (\E g : Good3(g)') /\ capacity' = capacity
  <2>1. PICK g : Good3(g)
    BY DEF AllInv
  <2>2. CASE V3!Refresh(k, v)
    <3>1. capacity' = capacity
      BY <2>2 DEF V3!Refresh, V3!cache
    <3> QED BY <2>1, <2>2, <3>1, <1>1, Refresh3
  <2>3. CASE V3!Touch(k, v)
    BY <2>1, <2>3, <1>1, Touch3
  <2>4. CASE V3!AddNew(k, v)
    <3>1. capacity' = capacity
      BY <2>4 DEF V3!AddNew, V3!cache
    <3> QED BY <2>1, <2>4, <3>1, <1>1, AddNew3
  <2> QED BY <2>2, <2>3, <2>4, <1>1 DEF V3!put
<1>8. ret2' = ret'
  BY <1>1, <1>6 DEF AllInv
<1> QED BY <1>2, <1>6, <1>7, <1>8 DEF AllInv, m, t

\* V3 takes a further step of its put; the others have done theirs.
LEMMA AllFinish ==
  ASSUME CacheAssumption, CachesAssumption, AllInv, FinishPut
  PROVE  AllInv' /\ capacity' = capacity
<1>1. /\ list' = list /\ cache' = cache /\ ret' = ret
      /\ list2' = list2 /\ cache2' = cache2 /\ ret2' = ret2
      /\ V3!TouchInsert \/ V3!TouchMove \/ V3!AddInsert
  BY DEF FinishPut
<1>2. IInv'
  BY <1>1 DEF AllInv, IInv, Good
<1>3. \E e : Good2(list2', cache2', e, list'.size, OrderOf(list'))
  BY <1>1 DEF AllInv
<1>4. (\E g : Good3(g)') /\ capacity' = capacity
  <2>1. PICK g : Good3(g)
    BY DEF AllInv
  <2>2. IInv
    BY DEF AllInv
  <2>3. CASE V3!TouchInsert
    BY <2>1, <2>3, <1>1, TouchInsert3
  <2>4. CASE V3!TouchMove
    <3>1. capacity' = capacity
      BY <2>4 DEF V3!TouchMove, V3!cache
    <3> QED BY <2>1, <2>2, <2>4, <3>1, <1>1, TouchMove3
  <2>5. CASE V3!AddInsert
    BY <2>1, <2>5, <1>1, AddInsert3
  <2> QED BY <2>3, <2>4, <2>5, <1>1
<1>5. ret2' = ret'
  BY <1>1 DEF AllInv
<1> QED BY <1>2, <1>3, <1>4, <1>5 DEF AllInv

\* Nothing happens.
LEMMA AllStill ==
  ASSUME CacheAssumption, CachesAssumption, AllInv, UNCHANGED allVars
  PROVE  AllInv'
<1>1. /\ list' = list /\ cache' = cache /\ ret' = ret
      /\ list2' = list2 /\ cache2' = cache2 /\ ret2' = ret2
      /\ list3' = list3 /\ ret3' = ret3 /\ pend' = pend
      /\ UNCHANGED V3!cache
  BY DEF allVars, V3!cache
<1>2. IInv'
  BY <1>1 DEF AllInv, IInv, Good
<1>3. \E e : Good2(list2', cache2', e, list'.size, OrderOf(list'))
  BY <1>1 DEF AllInv
<1>4. PICK e : Good3(e)
  BY DEF AllInv
<1>5. DictGood' /\ V3!D!Size' = V3!D!Size /\ Led' = Led
  BY <1>1, <1>4, DictSame DEF Good3
<1>6. /\ Idling => Idling'
      /\ Replacing(e) => Replacing(e)'
      /\ Moving(e) => Moving(e)'
      /\ Adding => Adding'
  <2>1. Idling => Idling'
    BY <1>1, <1>5 DEF Idling, V3!Idle
  <2>2. Replacing(e) => Replacing(e)'
    BY <1>1, <1>5 DEF Replacing
  <2>3. Moving(e) => Moving(e)'
    BY <1>1, <1>5 DEF Moving
  <2>4. Adding => Adding'
    BY <1>1, <1>5 DEF Adding
  <2> QED BY <2>1, <2>2, <2>3, <2>4
<1>7. Good3(e)'
  BY <1>1, <1>4, <1>5, <1>6 DEF Good3
<1>8. ret2' = ret'
  BY <1>1 DEF AllInv
<1> QED BY <1>2, <1>3, <1>7, <1>8 DEF AllInv

LEMMA AllNextGood ==
  ASSUME CacheAssumption, CachesAssumption, AllInv, [AllNext]_allVars
  PROVE  AllInv'
<1>1. CASE UNCHANGED allVars
  BY <1>1, AllStill
<1>2. ASSUME NEW k \in Keys, GetAll(k)
      PROVE  AllInv'
  BY <1>2, AllGet
<1>3. ASSUME NEW k \in Keys, NEW v \in Vals, PutAll(k, v)
      PROVE  AllInv'
  BY <1>3, AllPut
<1>4. CASE FinishPut
  BY <1>4, AllFinish
<1> QED BY <1>1, <1>2, <1>3, <1>4 DEF AllNext

\* The first cache takes a step of its own, or none; the dictionary keeps its
\* capacity.
LEMMA AllNextSteps ==
  ASSUME CacheAssumption, CachesAssumption, AllInv, [AllNext]_allVars
  PROVE  [Next]_vars /\ capacity' = capacity
<1>1. CASE UNCHANGED allVars
  BY <1>1 DEF allVars, vars
<1>2. ASSUME NEW k \in Keys, GetAll(k)
      PROVE  Next /\ capacity' = capacity
  BY <1>2 DEF GetAll, Next, V3!get, V3!cache
<1>3. ASSUME NEW k \in Keys, NEW v \in Vals, PutAll(k, v)
      PROVE  Next /\ capacity' = capacity
  <2>1. capacity' = capacity
    BY <1>3, AllPut
  <2> QED BY <1>3, <2>1 DEF PutAll, Next
<1>4. CASE FinishPut
  <2>1. capacity' = capacity
    BY <1>4, AllFinish
  <2> QED BY <1>4, <2>1 DEF FinishPut, vars
<1> QED BY <1>1, <1>2, <1>3, <1>4 DEF AllNext

\* The invariant means that answers, orders and V2's nodes are right.
LEMMA GoodAnswersAgree ==
  ASSUME CacheAssumption, CachesAssumption, AllInv
  PROVE  AnswersAgree /\ MapOwnsNodes
<1>1. PICK e : Good2(list2, cache2, e, list.size, OrderOf(list))
  BY DEF AllInv
<1>2. PICK d : Chain(list, d)
  BY DEF AllInv, IInv, Good
<1>3. PICK g : Good3(g)
  BY DEF AllInv
<1> DEFINE s == OrderOf(list)
           n == list.size
<1>4. DOMAIN s = 1 .. n /\ s = [i \in DOMAIN s |-> s[i]]
  <2>1. s = [i \in DOMAIN s |-> s[i]]
    BY DEF OrderOf
  <2> HIDE DEF s, n
  <2>2. DOMAIN s = 1 .. n
    BY <1>2, OrderAt DEF s, n
  <2> QED BY <2>1, <2>2
<1>5. /\ V2!MapOwnsNodes
      /\ Contents(list2, Backward(list2)) = [i \in 1 .. n |-> s[i]]
  <2> HIDE DEF s, n
  <2>1. Good2(list2, cache2, e, n, s)
    BY <1>1 DEF s, n
  <2>2. /\ V2!MapOwnsNodes
        /\ Backward(list2) = [i \in 1 .. n |-> e[n + 1 - i]]
        /\ Contents(list2, Backward(list2)) = [i \in 1 .. n |-> s[i]]
    BY <2>1, OwnedMeans
  <2> QED BY <2>2
<1>6. Contents(list2, Backward(list2)) = s
  <2> HIDE DEF s
  <2> QED BY <1>4, <1>5
<1>7. pend = V3!Idle => Contents(list3, Forward(list3)) = s
  <2>1. Contents(list3, Forward(list3)) = OrderOf(list3)
    BY DEF Contents, OrderOf
  <2>2. pend = V3!Idle => OrderOf(list3) = OrderOf(list)
    BY <1>3, Phases DEF Idling
  <2> QED BY <2>1, <2>2
<1>8. ret = ret2 /\ ret = ret3
  BY <1>3 DEF AllInv, Good3
<1>9. Order = s
  BY OrderNow
<1> QED BY <1>5, <1>6, <1>7, <1>8, <1>9 DEF AnswersAgree, MapOwnsNodes

\* The invariant and V3's, between two calls.
LEMMA GoodDictionaryMatchesList ==
  ASSUME CacheAssumption, CachesAssumption, AllInv
  PROVE  DictionaryMatchesList
<1> SUFFICES ASSUME pend = V3!Idle
             PROVE  /\ \A x \in V3!LinkedNodes(list3) : V3!NodeOf(list3.node[x].key) = x
                    /\ V3!D!Size = Len(V3!Forward(list3))
  BY DEF DictionaryMatchesList, V3!DictionaryMatchesList
<1>1. PICK e : Good3(e)
  BY DEF AllInv
<1>2. Idling /\ Chain(list3, e) /\ DictGood
  BY <1>1, Phases DEF Good3
<1>3. /\ V3!D!Size = list3.size
      /\ Binds(Led, KeysOf(list3), 0 .. list3.size - 1)
  BY <1>2 DEF Idling
<1>4. /\ LinkedNodes(list3) = NodesOf(e, list3.size)
      /\ Len(Forward(list3)) = list3.size
  BY <1>2, OrderIs
<1>5. \A x \in LinkedNodes(list3) : V3!NodeOf(list3.node[x].key) = x
  <2> SUFFICES ASSUME NEW x \in LinkedNodes(list3)
               PROVE  V3!NodeOf(list3.node[x].key) = x
    OBVIOUS
  <2>1. x \in 0 .. list3.size - 1
    BY <1>2, <1>4, ChainIs
  <2>2. x \in Slots
    BY <1>2, <2>1, ChainIs
  <2>3. KeysOf(list3)[x] = list3.node[x].key
    BY <2>2 DEF KeysOf
  <2>4. list3.node[x].key \in Keys /\ Led[list3.node[x].key] = x
    BY <2>1, <2>3, <1>3 DEF Binds
  <2>5. V3!NodeOf(list3.node[x].key) = Led[list3.node[x].key]
    BY <1>2, <2>4, Cached3
  <2> QED BY <2>4, <2>5
<1> QED BY <1>3, <1>4, <1>5, SameNodes3

-----------------------------------------------------------------------------
(* Theorems about the caches side by side                                  *)

\* However the driver's calls interleave with the steps of V3's puts, the
\* lists, the map, the table and the dictionary of the three caches stay
\* whole and hold the first cache's pairs in its order.
THEOREM CachesAlwaysGood == AllSpec => []AllInv
<1>1. AllInit => AllInv
  BY CacheAssumption, CachesAssumption, AllInitGood
<1>2. AllInv /\ [AllNext]_allVars => AllInv'
  BY CacheAssumption, CachesAssumption, AllNextGood
<1> QED BY <1>1, <1>2, PTL DEF AllSpec

\* After every call V1 (LRUSpec), LRUCache, V2 and V3 have given the same
\* answers and hold the same pairs in the same order, what the driver compares
\* by its sums, whatever the keys hash to and the allocator returns.
THEOREM AnswersAlwaysAgree == AllSpec => []AnswersAgree
<1>1. AllInv => AnswersAgree
  BY CacheAssumption, CachesAssumption, GoodAnswersAgree
<1> QED BY <1>1, CachesAlwaysGood, PTL

\* V2 frees exactly the nodes it evicts: its map never leads to memory that
\* was deleted or belongs to another key, and no node leaks.
THEOREM MapAlwaysOwnsNodes == AllSpec => []MapOwnsNodes
<1>1. AllInv => MapOwnsNodes
  BY CacheAssumption, CachesAssumption, GoodAnswersAgree
<1> QED BY <1>1, CachesAlwaysGood, PTL

\* Between two calls the dictionary of V3 leads from the key of each node of
\* its list to that node and holds no other key.
THEOREM DictionaryAlwaysMatchesList == AllSpec => []DictionaryMatchesList
<1>1. AllInv => DictionaryMatchesList
  BY CacheAssumption, CachesAssumption, GoodDictionaryMatchesList
<1> QED BY <1>1, CachesAlwaysGood, PTL

\* No put of V3 rehashes its dictionary or makes it run out of entries, though
\* every eviction erases a key and inserts another one.
THEOREM DictionaryNeverRehashed == AllSpec => NeverRehashed
<1>1. AllInv /\ [AllNext]_allVars => [capacity' = capacity /\ fault' = "none"]_(V3!cache)
  <2>1. AllInv' => fault' = "none"
    BY DEF AllInv, Good3, DictGood
  <2> QED BY <2>1, CacheAssumption, CachesAssumption, AllNextGood, AllNextSteps
<1> QED
  BY <1>1, CachesAlwaysGood, PTL DEF AllSpec, NeverRehashed, V3!NeverRehashed

\* Side by side with the others, LRUCacheBase takes its own steps only: all
\* that is proved of it alone holds there.
LEMMA FirstCacheAlone == AllSpec => Spec
<1>1. AllInit => Init
  BY DEF AllInit
<1>2. AllInv /\ [AllNext]_allVars => [Next]_vars
  BY CacheAssumption, CachesAssumption, AllNextSteps
<1> QED BY <1>1, <1>2, CachesAlwaysGood, PTL DEF AllSpec, Spec

\* LRUCacheBase is an LRU cache in the company of the others, too.
THEOREM FirstCacheRefinement == AllSpec => ImplementsLRU
<1> QED BY FirstCacheAlone, CacheRefinement, PTL

\* V2, whose list has its most recent node at the back.
Abstract2 == INSTANCE LRUSpec WITH order <- Contents(list2, Backward(list2)), ret <- ret2

\* The order of V2 being that of LRUCache, so are its calls.
LEMMA SameCalls2 ==
  ASSUME AnswersAgree, AnswersAgree', [Abstract!Next]_<<Order, ret>>
  PROVE  [Abstract2!Next]_<<Contents(list2, Backward(list2)), ret2>>
<1>1. /\ Contents(list2, Backward(list2)) = Order /\ ret2 = ret
      /\ Contents(list2, Backward(list2))' = Order' /\ ret2' = ret'
  BY DEF AnswersAgree
<1>2. \A k : Abstract2!Cached(k) <=> Abstract!Cached(k)
  BY ONLY <1>1 DEF Abstract2!Cached, Abstract!Cached
<1>3. \A k : Abstract2!PlaceOf(k) = Abstract!PlaceOf(k)
  BY ONLY <1>1 DEF Abstract2!PlaceOf, Abstract!PlaceOf
<1>4. \A k : Abstract2!PairOf(k) = Abstract!PairOf(k)
  BY ONLY <1>1, <1>3 DEF Abstract2!PairOf, Abstract!PairOf
<1>5. \A k : Abstract2!Others(k) = Abstract!Others(k)
  BY ONLY <1>1, <1>2, <1>3 DEF Abstract2!Others, Abstract!Others
<1>6. ASSUME NEW k \in Keys, Abstract!Get(k)
      PROVE  Abstract2!Get(k)
  BY ONLY <1>6, <1>1, <1>2, <1>4, <1>5 DEF Abstract2!Get, Abstract!Get
<1>7. ASSUME NEW k \in Keys, NEW v \in Vals, Abstract!Put(k, v)
      PROVE  Abstract2!Put(k, v)
  BY ONLY <1>7, <1>1, <1>5 DEF Abstract2!Put, Abstract!Put
<1>8. CASE UNCHANGED <<Order, ret>>
  BY ONLY <1>8, <1>1
<1> QED BY <1>6, <1>7, <1>8 DEF Abstract2!Next, Abstract!Next

\* V2 is an LRU cache: with nodes that come from any free address and go back
\* as soon as their key is evicted.
THEOREM SecondCacheRefinement == AllSpec => Abstract2!Spec
<1>1. Abstract!Init /\ AnswersAgree => Abstract2!Init
  BY DEF Abstract!Init, Abstract2!Init, AnswersAgree
<1>2. AnswersAgree /\ AnswersAgree' /\ [Abstract!Next]_<<Order, ret>>
        => [Abstract2!Next]_<<Contents(list2, Backward(list2)), ret2>>
  BY SameCalls2
<1> QED
  BY <1>1, <1>2, FirstCacheRefinement, AnswersAlwaysAgree, PTL
     DEF ImplementsLRU, Abstract!Spec, Abstract2!Spec
=============================================================================
