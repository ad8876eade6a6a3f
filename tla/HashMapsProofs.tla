--------------------------- MODULE HashMapsProofs ---------------------------
(***************************************************************************)
(* Proofs about HashMaps: the three containers keep their layouts sound,   *)
(* grow in time, and are maps.                                             *)
(*                                                                         *)
(* What a container stores is a set of entries (Entry), whatever places    *)
(* they have in it; each operation adds one, removes one, replaces one,    *)
(* drops all or moves them.                                                *)
(***************************************************************************)
EXTENDS HashMaps, Sequences, PointersProofs

Entry == [key : Keys, val : Vals]

LEMMA SameTools ==
  ASSUME NEW n
  PROVE  /\ T!round_up_pow2(n) = round_up_pow2(n)
         /\ M!round_up_pow2(n) = round_up_pow2(n)
         /\ X!round_up_pow2(n) = round_up_pow2(n)
BY DEF T!round_up_pow2, T!Power2, T!Reached, T!Least, round_up_pow2, Power2, Reached, Least,
  M!round_up_pow2, M!Power2, M!Reached, M!Least, X!round_up_pow2, X!Power2, X!Reached, X!Least

LEMMA SameCount ==
  ASSUME NEW S
  PROVE  /\ T!Cardinality(S) = Cardinality(S)
         /\ M!Cardinality(S) = Cardinality(S)
         /\ X!Cardinality(S) = Cardinality(S)
BY DEF Cardinality, T!Cardinality, M!Cardinality, X!Cardinality

-----------------------------------------------------------------------------
(* Sets of entries                                                         *)

With(E, e) == E \cup {e}
Without(E, e) == E \ {e}

\* No entry of E has key k.
Lacks(E, k) == \A e \in E : e.key # k

\* n entries with different keys.
Stock(E, n) ==
  /\ E \subseteq Entry
  /\ \A e, f \in E : e.key = f.key => e = f
  /\ IsFiniteSet(E)
  /\ Cardinality(E) = n

LEMMA StockNone == Stock({}, 0)
BY FS_EmptySet DEF Stock

LEMMA StockCounts ==
  ASSUME NEW E, NEW n, Stock(E, n)
  PROVE  n \in Nat
BY FS_CardinalityType DEF Stock

LEMMA StockWith ==
  ASSUME NEW E, NEW n, NEW e \in Entry, Stock(E, n), Lacks(E, e.key)
  PROVE  Stock(With(E, e), n + 1)
<1>1. e \notin E
  BY DEF Lacks
<1>2. IsFiniteSet(E \cup {e}) /\ Cardinality(E \cup {e}) = n + 1
  BY <1>1, FS_AddElement DEF Stock
<1> QED BY <1>2 DEF Stock, With, Lacks

LEMMA StockWithout ==
  ASSUME NEW E, NEW n, NEW e \in E, Stock(E, n)
  PROVE  Stock(Without(E, e), n - 1) /\ Lacks(Without(E, e), e.key) /\ e \in Entry
<1>1. IsFiniteSet(E \ {e}) /\ Cardinality(E \ {e}) = n - 1
  BY FS_RemoveElement DEF Stock
<1> QED BY <1>1 DEF Stock, Without, Lacks

LEMMA StockLess ==
  ASSUME NEW E, NEW n, NEW F \in SUBSET E, Stock(E, n)
  PROVE  Stock(F, Cardinality(F)) /\ Cardinality(F) <= n
<1>1. IsFiniteSet(F) /\ Cardinality(F) <= n
  BY FS_Subset DEF Stock
<1> QED BY <1>1 DEF Stock

\* Two entries of one key are one entry.
LEMMA StockDistinct ==
  ASSUME NEW E, NEW n, Stock(E, n), NEW e \in E, NEW f \in E, e.key = f.key
  PROVE  e = f
BY DEF Stock

-----------------------------------------------------------------------------
(* What a lookup shows                                                     *)

\* C shows, for each key, the value of its entry in E, or None.
Shows(C, E) ==
  /\ C \in [Keys -> Vals \cup {None}]
  /\ \A k \in Keys, v \in Vals : C[k] = v <=> [key |-> k, val |-> v] \in E

\* What a call does to the contents C and the size n.
Puts(C, D, m, n, k, v) ==
  /\ D = [C EXCEPT ![k] = v]
  /\ n = IF C[k] = None THEN m + 1 ELSE m
Drops(C, D, m, n, k) ==
  /\ C[k] # None
  /\ D = [C EXCEPT ![k] = None]
  /\ n = m - 1

LEMMA EntryIs ==
  ASSUME NEW e \in Entry
  PROVE  e.key \in Keys /\ e.val \in Vals /\ e = [key |-> e.key, val |-> e.val]
BY DEF Entry

LEMMA NoneApart == None \notin Keys /\ None \notin Vals /\ IsFiniteSet(Keys)
BY HashMapsAssumption

LEMMA ShownSame ==
  ASSUME NEW C, NEW D, NEW E, Shows(C, E), Shows(D, E)
  PROVE  C = D
<1>1. ASSUME NEW k \in Keys
      PROVE  C[k] = D[k]
  BY DEF Shows
<1> QED BY <1>1 DEF Shows

LEMMA ShownNone ==
  ASSUME NEW C, Shows(C, {})
  PROVE  C = [k \in Keys |-> None]
<1>1. ASSUME NEW k \in Keys
      PROVE  C[k] = None
  BY DEF Shows
<1> QED BY <1>1 DEF Shows

LEMMA ShownLacks ==
  ASSUME NEW C, NEW E, NEW k \in Keys, Shows(C, E), E \subseteq Entry
  PROVE  C[k] = None <=> Lacks(E, k)
<1>1. ASSUME Lacks(E, k)
      PROVE  C[k] = None
  <2>1. \A v \in Vals : [key |-> k, val |-> v] \notin E
    BY <1>1 DEF Lacks
  <2> QED BY <2>1 DEF Shows
<1>2. ASSUME ~Lacks(E, k)
      PROVE  C[k] # None
  <2>1. PICK e \in E : e.key = k
    BY <1>2 DEF Lacks
  <2>2. e.val \in Vals /\ [key |-> k, val |-> e.val] = e
    BY <2>1, EntryIs
  <2>3. C[k] = e.val
    BY <2>1, <2>2 DEF Shows
  <2> QED BY <2>2, <2>3, NoneApart
<1> QED BY <1>1, <1>2

LEMMA ShownWith ==
  ASSUME NEW C, NEW D, NEW E, NEW n, NEW e \in Entry,
         Stock(E, n), Lacks(E, e.key), Shows(C, E), Shows(D, With(E, e))
  PROVE  Puts(C, D, n, n + 1, e.key, e.val)
<1>1. e.key \in Keys /\ e.val \in Vals /\ e = [key |-> e.key, val |-> e.val]
  BY EntryIs
<1>2. C[e.key] = None
  BY <1>1, ShownLacks DEF Stock
<1>3. D[e.key] = e.val
  BY <1>1 DEF Shows, With
<1>4. ASSUME NEW k \in Keys, k # e.key
      PROVE  D[k] = C[k]
  <2>1. \A v \in Vals : D[k] = v <=> C[k] = v
    <3> SUFFICES ASSUME NEW v \in Vals
                 PROVE  D[k] = v <=> C[k] = v
      OBVIOUS
    <3>1. [key |-> k, val |-> v] # e
      BY <1>4
    <3> QED BY <3>1 DEF Shows, With
  <2> QED BY <2>1 DEF Shows
<1>5. D = [C EXCEPT ![e.key] = e.val]
  BY <1>1, <1>3, <1>4 DEF Shows
<1> QED BY <1>2, <1>5 DEF Puts

LEMMA ShownWithout ==
  ASSUME NEW C, NEW D, NEW E, NEW n, NEW e \in E,
         Stock(E, n), Shows(C, E), Shows(D, Without(E, e))
  PROVE  Drops(C, D, n, n - 1, e.key)
<1>1. e \in Entry
  BY DEF Stock
<1>2. e.key \in Keys /\ e.val \in Vals /\ e = [key |-> e.key, val |-> e.val]
  BY <1>1, EntryIs
<1>3. C[e.key] = e.val
  BY <1>2 DEF Shows
<1>4. D[e.key] = None
  <2>1. Lacks(Without(E, e), e.key) /\ Without(E, e) \subseteq Entry
    BY StockWithout DEF Stock
  <2> QED BY <1>2, <2>1, ShownLacks
<1>5. ASSUME NEW k \in Keys, k # e.key
      PROVE  D[k] = C[k]
  <2>1. \A v \in Vals : D[k] = v <=> C[k] = v
    <3> SUFFICES ASSUME NEW v \in Vals
                 PROVE  D[k] = v <=> C[k] = v
      OBVIOUS
    <3>1. [key |-> k, val |-> v] # e
      BY <1>5
    <3> QED BY <3>1 DEF Shows, Without
  <2> QED BY <2>1 DEF Shows
<1>6. D = [C EXCEPT ![e.key] = None]
  BY <1>2, <1>4, <1>5 DEF Shows
<1> QED BY <1>2, <1>3, <1>6, NoneApart DEF Drops

\* An entry gives way to another of its key.
LEMMA ShownInstead ==
  ASSUME NEW C, NEW D, NEW E, NEW n, NEW e \in E, NEW f \in Entry, e.key = f.key,
         Stock(E, n), Shows(C, E), Shows(D, With(Without(E, e), f))
  PROVE  /\ Puts(C, D, n, n, f.key, f.val)
         /\ Stock(With(Without(E, e), f), n)
<1> DEFINE F == Without(E, e)
<1>1. Stock(F, n - 1) /\ Lacks(F, f.key)
  BY StockWithout
<1>2. n \in Nat /\ n - 1 \in Nat /\ (n - 1) + 1 = n
  BY <1>1, StockCounts
<1>3. Stock(With(F, f), n)
  <2> HIDE DEF F
  <2>1. Stock(With(F, f), (n - 1) + 1)
    BY <1>1, StockWith
  <2> QED BY <1>2, <2>1
<1>4. e \in Entry
  BY DEF Stock
<1>5. f.key \in Keys /\ f.val \in Vals /\ f = [key |-> f.key, val |-> f.val]
      /\ e.val \in Vals /\ e = [key |-> f.key, val |-> e.val]
  BY <1>4, EntryIs
<1>6. C[f.key] # None /\ D[f.key] = f.val
  BY <1>5, NoneApart DEF Shows, With
<1>7. ASSUME NEW k \in Keys, k # f.key
      PROVE  D[k] = C[k]
  <2>1. \A v \in Vals : D[k] = v <=> C[k] = v
    <3> SUFFICES ASSUME NEW v \in Vals
                 PROVE  D[k] = v <=> C[k] = v
      OBVIOUS
    <3>1. [key |-> k, val |-> v] # f /\ [key |-> k, val |-> v] # e
      BY <1>7
    <3> QED BY <3>1 DEF Shows, With, Without
  <2> QED BY <2>1 DEF Shows
<1>8. D = [C EXCEPT ![f.key] = f.val]
  BY <1>5, <1>6, <1>7 DEF Shows
<1> QED BY <1>3, <1>6, <1>8 DEF Puts

-----------------------------------------------------------------------------
(* hash_table: the ways through the table                                  *)

NoNode == T!NoNode
NodeOrNone == Entry \cup {NoNode}

\* A table of n buckets with no key in two of them.
TableOK(t, n) ==
  /\ n \in Nat \ {0}
  /\ t \in [0 .. n - 1 -> NodeOrNone]
  /\ \A b, c \in 0 .. n - 1 : t[b] # NoNode /\ t[b].key = t[c].key => b = c

\* The entries in the first n buckets of a table.
NodesBelow(t, n) == {e \in Entry : \E b \in 0 .. n - 1 : t[b] = e}

LEMMA NoNodeIs == NoNode = [key |-> None, val |-> None] /\ NoNode \notin Entry
BY NoneApart DEF NoNode, T!NoNode, Entry

LEMMA NodeOfKey ==
  ASSUME NEW t, NEW n, TableOK(t, n), NEW b \in 0 .. n - 1
  PROVE  /\ t[b] \in Entry \/ t[b] = NoNode
         /\ t[b].key \in Keys => t[b] \in Entry
         /\ t[b] # NoNode => t[b] \in Entry
<1>1. t[b] \in Entry \/ t[b] = NoNode
  BY DEF TableOK, NodeOrNone
<1> QED BY <1>1, NoNodeIs, NoneApart

LEMMA HashIn ==
  ASSUME NEW k \in Keys, NEW n \in Nat \ {0}
  PROVE  Hash[k] % n \in 0 .. n - 1
<1>1. Hash[k] \in Nat
  BY HashMapsAssumption
<1> QED BY <1>1

\* The way of a key goes through every bucket.
LEMMA StepsReach ==
  ASSUME NEW k \in Keys, NEW n \in Nat \ {0}
  PROVE  /\ \A d \in Nat : T!Step(k, d, n) \in 0 .. n - 1
         /\ \A b \in 0 .. n - 1 : \E d \in 0 .. n - 1 : T!Step(k, d, n) = b
<1>1. PICK h \in 0 .. n - 1 : h = Hash[k] % n
  BY HashIn
<1>2. \A d \in Nat : T!Step(k, d, n) = (h + d) % n
  BY <1>1 DEF T!Step, T!next_index, T!index_of
<1>3. \A d \in Nat : T!Step(k, d, n) \in 0 .. n - 1
  BY <1>2
<1>4. ASSUME NEW b \in 0 .. n - 1
      PROVE  \E d \in 0 .. n - 1 : T!Step(k, d, n) = b
  <2>1. CASE b >= h
    <3>1. b - h \in 0 .. n - 1 /\ (h + (b - h)) % n = b
      BY <2>1
    <3>2. T!Step(k, b - h, n) = b
      BY <1>2, <3>1
    <3> QED BY <3>1, <3>2
  <2>2. CASE b < h
    <3>1. b - h + n \in 0 .. n - 1 /\ h + (b - h + n) = b + n
      BY <2>2
    <3>2. (b + n) % n = b
      OBVIOUS
    <3>3. T!Step(k, b - h + n, n) = (h + (b - h + n)) % n
      BY <1>2, <3>1
    <3> QED BY <3>1, <3>2, <3>3
  <2> QED BY <2>1, <2>2
<1> QED BY <1>3, <1>4

\* The number of buckets is the length of the table.
LEMMA Buckets ==
  ASSUME NEW t, NEW n \in Nat, DOMAIN t = 0 .. n - 1
  PROVE  Cardinality(DOMAIN t) = n
BY BelowCounted

LEMMA TableFindIs ==
  ASSUME NEW k \in Keys, NEW n, TableOK(table, n)
  PROVE  \/ /\ T!find_internal(k) = T!End
            /\ Lacks(NodesBelow(table, n), k)
         \/ /\ T!find_internal(k) \in 0 .. n - 1
            /\ T!find_internal(k) # T!End
            /\ table[T!find_internal(k)].key = k
<1>1. n \in Nat \ {0} /\ DOMAIN table = 0 .. n - 1
  BY DEF TableOK
<1>2. T!buckets = n
  BY <1>1, Buckets, SameCount DEF T!buckets
<1> DEFINE hits == {d \in 0 .. n - 1 : table[T!Step(k, d, n)].key = k}
<1>3. T!find_internal(k) = IF hits = {} THEN T!End ELSE T!Step(k, Least(hits), n)
  BY <1>2 DEF T!find_internal, T!Least, Least
<1>4. CASE hits = {}
  <2>1. ASSUME NEW e \in NodesBelow(table, n)
        PROVE  e.key # k
    <3>1. PICK b \in 0 .. n - 1 : table[b] = e
      BY DEF NodesBelow
    <3>2. PICK d \in 0 .. n - 1 : T!Step(k, d, n) = b
      BY <1>1, StepsReach
    <3> QED BY <1>4, <3>1, <3>2
  <2> QED BY <1>3, <1>4, <2>1 DEF Lacks
<1>5. CASE hits # {}
  <2>1. hits \in SUBSET Nat
    OBVIOUS
  <2>2. Least(hits) \in hits
    <3> HIDE DEF hits
    <3> QED BY <1>5, <2>1, LeastIsLeast
  <2>3. Least(hits) \in Nat /\ table[T!Step(k, Least(hits), n)].key = k
    BY <2>2
  <2> HIDE DEF hits
  <2>4. T!Step(k, Least(hits), n) \in 0 .. n - 1
    BY <1>1, <2>3, StepsReach
  <2>5. T!Step(k, Least(hits), n) # T!End
    BY <2>4 DEF T!End
  <2> QED BY <1>3, <1>5, <2>3, <2>4, <2>5
<1> QED BY <1>4, <1>5

\* What hash_table shows is what lies in its buckets.
LEMMA TableShows ==
  ASSUME NEW n, TableOK(table, n)
  PROVE  Shows([k \in Keys |-> T!Lookup(k)], NodesBelow(table, n))
<1>1. n \in Nat \ {0} /\ DOMAIN table = 0 .. n - 1
  BY DEF TableOK
<1>2. T!buckets # 0
  BY <1>1, Buckets, SameCount DEF T!buckets
<1>3. ASSUME NEW k \in Keys
      PROVE  /\ T!Lookup(k) \in Vals \cup {None}
             /\ \A v \in Vals : T!Lookup(k) = v
                                  <=> [key |-> k, val |-> v] \in NodesBelow(table, n)
  <2> DEFINE b == T!find_internal(k)
  <2>1. T!Lookup(k) = IF b = T!End THEN None ELSE table[b].val
    BY <1>2 DEF T!Lookup, T!find
  <2>2. CASE b = T!End /\ Lacks(NodesBelow(table, n), k)
    <3>1. \A v \in Vals : [key |-> k, val |-> v] \notin NodesBelow(table, n)
      BY <2>2 DEF Lacks
    <3>2. T!Lookup(k) = None
      BY <2>1, <2>2
    <3> QED BY <3>1, <3>2, NoneApart
  <2>3. CASE b \in 0 .. n - 1 /\ b # T!End /\ table[b].key = k
    <3> HIDE DEF b
    <3>1. table[b] \in Entry /\ table[b] # NoNode
      BY <2>3, NodeOfKey, NoNodeIs
    <3>2. table[b].val \in Vals /\ table[b] = [key |-> k, val |-> table[b].val]
      BY <2>3, <3>1, EntryIs
    <3>3. ASSUME NEW v \in Vals
          PROVE  table[b].val = v <=> [key |-> k, val |-> v] \in NodesBelow(table, n)
      <4>1. ASSUME table[b].val = v
            PROVE  [key |-> k, val |-> v] \in NodesBelow(table, n)
        BY <2>3, <3>1, <3>2, <4>1 DEF NodesBelow
      <4>2. ASSUME [key |-> k, val |-> v] \in NodesBelow(table, n)
            PROVE  table[b].val = v
        <5>1. PICK c \in 0 .. n - 1 : table[c] = [key |-> k, val |-> v]
          BY <4>2 DEF NodesBelow
        <5>2. b = c
          BY <2>3, <3>1, <5>1 DEF TableOK
        <5> QED BY <5>1, <5>2
      <4> QED BY <4>1, <4>2
    <3> QED BY <2>1, <2>3, <3>2, <3>3
  <2> QED BY <2>2, <2>3, TableFindIs
<1> QED BY <1>3 DEF Shows

\* As long as fewer keys are stored than there are buckets, one is empty.
LEMMA RoomLeft ==
  ASSUME NEW t, NEW n, NEW m, TableOK(t, n), Stock(NodesBelow(t, n), m), m < n
  PROVE  \E b \in 0 .. n - 1 : t[b] = NoNode
<1> SUFFICES ASSUME \A b \in 0 .. n - 1 : t[b] # NoNode
             PROVE  FALSE
  OBVIOUS
<1>1. n \in Nat /\ m \in Nat
  BY StockCounts DEF TableOK
<1> DEFINE f == [b \in 0 .. n - 1 |-> t[b]]
<1>2. ASSUME NEW b \in 0 .. n - 1
      PROVE  t[b] \in Entry /\ t[b] \in NodesBelow(t, n)
  <2>1. t[b] \in Entry
    BY NodeOfKey
  <2> QED BY <2>1 DEF NodesBelow
<1>3. f \in [0 .. n - 1 -> NodesBelow(t, n)]
  BY <1>2
<1>4. \A b, c \in 0 .. n - 1 : f[b] = f[c] => b = c
  BY DEF TableOK
<1>5. \A e \in NodesBelow(t, n) : \E b \in 0 .. n - 1 : f[b] = e
  BY DEF NodesBelow
<1>6. IsFiniteSet(0 .. n - 1) /\ Cardinality(0 .. n - 1) = n
  BY <1>1, BelowCounted
<1>7. Cardinality(NodesBelow(t, n)) = Cardinality(0 .. n - 1)
  <2> DEFINE B == 0 .. n - 1
             C == NodesBelow(t, n)
  <2>1. /\ f \in [B -> C] /\ IsFiniteSet(B)
        /\ \A b, c \in B : f[b] = f[c] => b = c
        /\ \A e \in C : \E b \in B : f[b] = e
    BY <1>3, <1>4, <1>5, <1>6
  <2> HIDE DEF f, B, C
  <2>2. Cardinality(C) = Cardinality(B)
    BY ONLY <2>1, SameNumber
  <2> QED BY <2>2 DEF B, C
<1> QED BY <1>1, <1>6, <1>7 DEF Stock

\* An empty table.
LEMMA TableEmpty ==
  ASSUME NEW n \in Nat \ {0}
  PROVE  TableOK(T!Empty(n), n) /\ NodesBelow(T!Empty(n), n) = {}
<1>1. T!Empty(n) = [b \in 0 .. n - 1 |-> NoNode]
  BY DEF T!Empty, NoNode
<1>2. NodesBelow(T!Empty(n), n) = {}
  BY <1>1, NoNodeIs DEF NodesBelow
<1>3. TableOK(T!Empty(n), n)
  BY <1>1 DEF TableOK, NodeOrNone
<1> QED BY <1>2, <1>3

\* Where there is room the place of a key is an empty bucket.
LEMMA PlaceIs ==
  ASSUME NEW t, NEW n, NEW k \in Keys, TableOK(t, n),
         \E b \in 0 .. n - 1 : t[b] = NoNode
  PROVE  T!Place(t, k) \in 0 .. n - 1 /\ t[T!Place(t, k)] = NoNode
<1>1. n \in Nat \ {0} /\ DOMAIN t = 0 .. n - 1
  BY DEF TableOK
<1> DEFINE free == {d \in 0 .. n - 1 : t[T!Step(k, d, n)] = NoNode}
<1>2. T!Place(t, k) = T!Step(k, Least(free), n)
  <2>1. T!Cardinality(DOMAIN t) = n
    BY <1>1, Buckets, SameCount
  <2> QED BY <2>1 DEF T!Place, T!Least, Least, NoNode
<1>3. free # {}
  <2>1. PICK b \in 0 .. n - 1 : t[b] = NoNode
    OBVIOUS
  <2>2. PICK d \in 0 .. n - 1 : T!Step(k, d, n) = b
    BY <1>1, StepsReach
  <2> QED BY <2>1, <2>2
<1>4. free \in SUBSET Nat
  OBVIOUS
<1>5. Least(free) \in free
  <2> HIDE DEF free
  <2> QED BY <1>3, <1>4, LeastIsLeast
<1>6. Least(free) \in Nat /\ t[T!Step(k, Least(free), n)] = NoNode
  BY <1>5
<1> HIDE DEF free
<1> QED BY <1>1, <1>2, <1>6, StepsReach

\* Writing an entry to an empty bucket.
LEMMA TablePut ==
  ASSUME NEW t, NEW n, NEW b \in 0 .. n - 1, NEW e \in Entry,
         TableOK(t, n), t[b] = NoNode, Lacks(NodesBelow(t, n), e.key)
  PROVE  /\ TableOK([t EXCEPT ![b] = e], n)
         /\ NodesBelow([t EXCEPT ![b] = e], n) = With(NodesBelow(t, n), e)
<1> DEFINE u == [t EXCEPT ![b] = e]
<1>1. n \in Nat \ {0} /\ t \in [0 .. n - 1 -> NodeOrNone] /\ e # NoNode
  BY NoNodeIs DEF TableOK
<1>2. u \in [0 .. n - 1 -> NodeOrNone] /\ u[b] = e /\ \A c \in 0 .. n - 1 : c # b => u[c] = t[c]
  BY <1>1 DEF NodeOrNone
<1> HIDE DEF u
<1>3. ASSUME NEW c \in 0 .. n - 1, t[c] # NoNode
      PROVE  t[c].key # e.key
  <2>1. t[c] \in Entry
    BY <1>3, NodeOfKey
  <2>2. t[c] \in NodesBelow(t, n)
    BY <2>1 DEF NodesBelow
  <2> QED BY <2>2 DEF Lacks
<1>4. e.key # NoNode.key
  BY NoNodeIs, NoneApart, EntryIs
<1>5. ASSUME NEW c \in 0 .. n - 1, NEW d \in 0 .. n - 1, u[c] # NoNode, u[c].key = u[d].key
      PROVE  c = d
  <2>1. CASE c = b
    BY <1>2, <1>3, <1>4, <1>5, <2>1
  <2>2. CASE c # b /\ d = b
    BY <1>2, <1>3, <1>5, <2>2
  <2>3. CASE c # b /\ d # b
    BY <1>2, <1>5, <2>3 DEF TableOK
  <2> QED BY <2>1, <2>2, <2>3
<1>6. TableOK(u, n)
  BY <1>1, <1>2, <1>5 DEF TableOK
<1>7. NodesBelow(u, n) = With(NodesBelow(t, n), e)
  <2>1. ASSUME NEW f \in Entry
        PROVE  (\E c \in 0 .. n - 1 : u[c] = f)
                 <=> (\E c \in 0 .. n - 1 : t[c] = f) \/ f = e
    BY <1>2, NoNodeIs
  <2> QED BY <2>1 DEF NodesBelow, With
<1> QED BY <1>6, <1>7 DEF u

\* Emptying a bucket.
LEMMA TableCut ==
  ASSUME NEW t, NEW n, NEW b \in 0 .. n - 1, TableOK(t, n), t[b] # NoNode
  PROVE  /\ TableOK([t EXCEPT ![b] = NoNode], n)
         /\ t[b] \in NodesBelow(t, n)
         /\ NodesBelow([t EXCEPT ![b] = NoNode], n) = Without(NodesBelow(t, n), t[b])
         /\ [t EXCEPT ![b] = NoNode][b] = NoNode
<1> DEFINE u == [t EXCEPT ![b] = NoNode]
<1>1. n \in Nat \ {0} /\ t \in [0 .. n - 1 -> NodeOrNone]
  BY DEF TableOK
<1>2. u \in [0 .. n - 1 -> NodeOrNone] /\ u[b] = NoNode /\ \A c \in 0 .. n - 1 : c # b => u[c] = t[c]
  BY <1>1 DEF NodeOrNone
<1> HIDE DEF u
<1>3. t[b] \in Entry
  BY NodeOfKey
<1>4. t[b].key # NoNode.key
  BY <1>3, NoNodeIs, NoneApart, EntryIs
<1>5. ASSUME NEW c \in 0 .. n - 1, NEW d \in 0 .. n - 1, u[c] # NoNode, u[c].key = u[d].key
      PROVE  c = d
  <2>1. c # b /\ u[c] = t[c] /\ t[c] # NoNode
    BY <1>2, <1>5
  <2>2. d # b
    <3>1. t[c].key # NoNode.key
      <4>1. t[c] \in Entry
        BY <2>1, NodeOfKey
      <4> QED BY <4>1, NoNodeIs, NoneApart, EntryIs
    <3> QED BY <1>2, <1>5, <2>1, <3>1
  <2> QED BY <1>2, <1>5, <2>1, <2>2 DEF TableOK
<1>6. TableOK(u, n)
  BY <1>1, <1>2, <1>5 DEF TableOK
<1>7. NodesBelow(u, n) = Without(NodesBelow(t, n), t[b])
  <2>1. ASSUME NEW f \in Entry
        PROVE  (\E c \in 0 .. n - 1 : u[c] = f)
                 <=> (\E c \in 0 .. n - 1 : t[c] = f) /\ f # t[b]
    <3>1. ASSUME NEW c \in 0 .. n - 1, u[c] = f
          PROVE  (\E d \in 0 .. n - 1 : t[d] = f) /\ f # t[b]
      <4>1. c # b /\ t[c] = f
        BY <1>2, <3>1, NoNodeIs
      <4>2. f # NoNode
        BY NoNodeIs
      <4> QED BY <4>1, <4>2 DEF TableOK
    <3>2. ASSUME NEW c \in 0 .. n - 1, t[c] = f, f # t[b]
          PROVE  \E d \in 0 .. n - 1 : u[d] = f
      BY <1>2, <3>2
    <3> QED BY <3>1, <3>2
  <2> QED BY <2>1 DEF NodesBelow, Without
<1>8. t[b] \in NodesBelow(t, n)
  BY <1>3 DEF NodesBelow
<1> QED BY <1>2, <1>6, <1>7, <1>8 DEF u

\* Writing another entry of its key to a bucket.
LEMMA TableChange ==
  ASSUME NEW t, NEW n, NEW m, NEW b \in 0 .. n - 1, NEW e \in Entry,
         TableOK(t, n), Stock(NodesBelow(t, n), m), t[b].key = e.key
  PROVE  /\ TableOK([t EXCEPT ![b] = e], n)
         /\ t[b] \in NodesBelow(t, n)
         /\ NodesBelow([t EXCEPT ![b] = e], n)
              = With(Without(NodesBelow(t, n), t[b]), e)
<1> DEFINE u == [t EXCEPT ![b] = NoNode]
<1>1. t[b] \in Entry /\ t[b] # NoNode
  BY EntryIs, NodeOfKey, NoNodeIs
<1>2. /\ TableOK(u, n)
      /\ t[b] \in NodesBelow(t, n)
      /\ NodesBelow(u, n) = Without(NodesBelow(t, n), t[b])
      /\ u[b] = NoNode
  BY <1>1, TableCut
<1>3. [u EXCEPT ![b] = e] = [t EXCEPT ![b] = e]
  BY DEF TableOK
<1> HIDE DEF u
<1>4. Lacks(NodesBelow(u, n), e.key)
  BY <1>2, StockWithout
<1>5. /\ TableOK([u EXCEPT ![b] = e], n)
      /\ NodesBelow([u EXCEPT ![b] = e], n) = With(NodesBelow(u, n), e)
  BY <1>2, <1>4, TablePut
<1> QED BY <1>2, <1>3, <1>5

-----------------------------------------------------------------------------
(* hash_table: the rehash                                                  *)

LEMMA BelowGrows ==
  ASSUME NEW t, NEW m, NEW b \in 0 .. m - 1, TableOK(t, m)
  PROVE  /\ NodesBelow(t, b) \subseteq NodesBelow(t, m)
         /\ t[b] = NoNode => NodesBelow(t, b + 1) = NodesBelow(t, b)
         /\ t[b] # NoNode => /\ NodesBelow(t, b + 1) = With(NodesBelow(t, b), t[b])
                             /\ Lacks(NodesBelow(t, b), t[b].key)
                             /\ t[b] \in Entry
<1>1. m \in Nat /\ b \in Nat /\ b < m
  BY DEF TableOK
<1>2. \A c \in 0 .. b - 1 : c \in 0 .. m - 1 /\ c # b
  BY <1>1
<1>3. NodesBelow(t, b) \subseteq NodesBelow(t, m)
  BY <1>2 DEF NodesBelow
<1>4. \A c : c \in 0 .. (b + 1) - 1 <=> c \in 0 .. b - 1 \/ c = b
  BY <1>1
<1>5. ASSUME t[b] = NoNode
      PROVE  NodesBelow(t, b + 1) = NodesBelow(t, b)
  BY <1>4, <1>5, NoNodeIs DEF NodesBelow
<1>6. ASSUME t[b] # NoNode
      PROVE  /\ NodesBelow(t, b + 1) = With(NodesBelow(t, b), t[b])
             /\ Lacks(NodesBelow(t, b), t[b].key)
             /\ t[b] \in Entry
  <2>1. t[b] \in Entry
    BY <1>6, NodeOfKey
  <2>2. NodesBelow(t, b + 1) = With(NodesBelow(t, b), t[b])
    BY <1>4, <2>1 DEF NodesBelow, With
  <2>3. ASSUME NEW e \in NodesBelow(t, b)
        PROVE  e.key # t[b].key
    <3>1. PICK c \in 0 .. b - 1 : t[c] = e
      BY DEF NodesBelow
    <3>2. c # b /\ c \in 0 .. m - 1
      BY <1>2
    <3> QED BY <1>6, <3>1, <3>2 DEF TableOK
  <2> QED BY <2>1, <2>2, <2>3 DEF Lacks
<1> QED BY <1>3, <1>5, <1>6

\* The loop of the rehash is a function that takes a bucket at a time.
LEMMA TableMoves ==
  ASSUME NEW m, NEW n \in Nat \ {0}, TableOK(table, m)
  PROVE  \E moved :
           /\ T!Rehashed(n) = moved[m]
           /\ moved[0] = T!Empty(n)
           /\ \A b \in 1 .. m :
                moved[b] = IF table[b - 1] = NoNode THEN moved[b - 1]
                           ELSE T!rehash_insert(moved[b - 1], table[b - 1])
<1>1. m \in Nat \ {0} /\ DOMAIN table = 0 .. m - 1
  BY DEF TableOK
<1>2. T!buckets = m
  BY <1>1, Buckets, SameCount DEF T!buckets
<1> DEFINE After(t, b) == IF table[b - 1] = NoNode THEN t
                          ELSE T!rehash_insert(t, table[b - 1])
           Walks(g) == g = [b \in 0 .. m |-> IF b = 0 THEN T!Empty(n)
                                             ELSE After(g[b - 1], b)]
           moved == CHOOSE g : Walks(g)
           S == [0 .. n - 1 -> NodeOrNone]
           step == [b \in 1 .. m |-> [t \in S |-> After(t, b)]]
<1>3. T!Rehashed(n) = moved[m]
  BY <1>2 DEF T!Rehashed, NoNode
<1>4. \A t \in S, b \in 1 .. m : After(t, b) \in S
  <2> SUFFICES ASSUME NEW t \in S, NEW b \in 1 .. m, table[b - 1] # NoNode
               PROVE  T!rehash_insert(t, table[b - 1]) \in S
    OBVIOUS
  <2>1. b - 1 \in 0 .. m - 1
    BY <1>1
  <2>2. table[b - 1] \in NodeOrNone
    BY <2>1 DEF TableOK
  <2> QED BY <2>2 DEF T!rehash_insert
<1>5. T!Empty(n) \in S
  BY TableEmpty DEF TableOK
<1>6. step \in [1 .. m -> [S -> S]]
  BY <1>4
<1>7. \A b \in 1 .. m, t \in S : step[b][t] = After(t, b)
  OBVIOUS
<1> HIDE DEF step, S
<1>8. PICK h \in [0 .. m -> S] :
        h[0] = T!Empty(n) /\ \A i \in 1 .. m : h[i] = step[i][h[i - 1]]
  <2> DEFINE first == T!Empty(n)
  <2>1. first \in S /\ m \in Nat
    BY <1>1, <1>5
  <2> HIDE DEF first
  <2>2. \E h \in [0 .. m -> S] :
          h[0] = first /\ \A i \in 1 .. m : h[i] = step[i][h[i - 1]]
    BY ONLY <1>6, <2>1, StepByStep
  <2> QED BY <2>2 DEF first
<1>9. Walks(h)
  <2>1. ASSUME NEW b \in 0 .. m, b # 0
        PROVE  h[b] = After(h[b - 1], b)
    <3>1. b \in 1 .. m /\ b - 1 \in 0 .. m
      BY <1>1, <2>1
    <3>2. h[b - 1] \in S
      BY <1>8, <3>1
    <3> QED BY <1>7, <1>8, <3>1, <3>2
  <2> HIDE DEF After
  <2> QED BY <1>8, <2>1
<1>10. Walks(moved)
  <2> HIDE DEF Walks
  <2> QED BY <1>9
<1> HIDE DEF moved
<1>11. moved[0] = T!Empty(n) /\ \A b \in 1 .. m : moved[b] = After(moved[b - 1], b)
  <2> HIDE DEF After
  <2> QED BY <1>1, <1>10
<1> QED BY <1>3, <1>11

\* It moves every entry, as long as the new table has room for all.
LEMMA TableRehashed ==
  ASSUME NEW m, NEW n \in Nat, NEW s, TableOK(table, m),
         Stock(NodesBelow(table, m), s), s < n
  PROVE  /\ TableOK(T!Rehashed(n), n)
         /\ NodesBelow(T!Rehashed(n), n) = NodesBelow(table, m)
<1>1. m \in Nat \ {0} /\ n \in Nat \ {0} /\ s \in Nat
  BY StockCounts DEF TableOK
<1>2. PICK moved :
           /\ T!Rehashed(n) = moved[m]
           /\ moved[0] = T!Empty(n)
           /\ \A b \in 1 .. m :
                moved[b] = IF table[b - 1] = NoNode THEN moved[b - 1]
                           ELSE T!rehash_insert(moved[b - 1], table[b - 1])
  BY ONLY <1>1, TableMoves, TableOK(table, m)
<1> DEFINE Good(b) == /\ TableOK(moved[b], n)
                      /\ NodesBelow(moved[b], n) = NodesBelow(table, b)
           Goods == {b \in Nat : b <= m => Good(b)}
<1>3. 0 \in Goods
  <2>1. NodesBelow(table, 0) = {}
    BY DEF NodesBelow
  <2> QED BY <1>1, <1>2, <2>1, TableEmpty
<1>4. ASSUME NEW b \in Nat, b \in Goods
      PROVE  b + 1 \in Goods
  <2> SUFFICES ASSUME b + 1 <= m
               PROVE  Good(b + 1)
    OBVIOUS
  <2>1. b \in 0 .. m - 1 /\ b + 1 \in 1 .. m /\ (b + 1) - 1 = b /\ b <= m
    BY <1>1
  <2>2. Good(b)
    BY <1>4, <2>1
  <2> DEFINE t == moved[b]
             e == table[b]
  <2>3. moved[b + 1] = IF e = NoNode THEN t ELSE T!rehash_insert(t, e)
    BY <1>2, <2>1
  <2>4. CASE e = NoNode
    BY <2>1, <2>2, <2>3, <2>4, BelowGrows
  <2>5. CASE e # NoNode
    <3>1. /\ NodesBelow(table, b + 1) = With(NodesBelow(table, b), e)
          /\ Lacks(NodesBelow(table, b), e.key)
          /\ e \in Entry
      BY <2>1, <2>5, BelowGrows
    <3>2. e.key \in Keys
      BY <3>1, EntryIs
    <3>3. Stock(NodesBelow(t, n), Cardinality(NodesBelow(t, n)))
          /\ Cardinality(NodesBelow(t, n)) <= s
      BY <2>1, <2>2, BelowGrows, StockLess
    <3>4. Cardinality(NodesBelow(t, n)) < n
      BY <1>1, <3>3, StockCounts
    <3>5. TableOK(t, n) /\ \E c \in 0 .. n - 1 : t[c] = NoNode
      BY <2>2, <3>3, <3>4, RoomLeft
    <3> HIDE DEF e, t
    <3>6. T!Place(t, e.key) \in 0 .. n - 1 /\ t[T!Place(t, e.key)] = NoNode
      BY <3>2, <3>5, PlaceIs
    <3> DEFINE p == T!Place(t, e.key)
    <3>7. T!rehash_insert(t, e) = [t EXCEPT ![p] = e]
      BY DEF T!rehash_insert
    <3>8. Lacks(NodesBelow(t, n), e.key)
      BY <2>2, <3>1 DEF t
    <3> HIDE DEF p
    <3>9. /\ TableOK([t EXCEPT ![p] = e], n)
          /\ NodesBelow([t EXCEPT ![p] = e], n) = With(NodesBelow(t, n), e)
      BY <3>1, <3>5, <3>6, <3>8, TablePut DEF p
    <3>10. NodesBelow(t, n) = NodesBelow(table, b)
      BY <2>2 DEF t
    <3> QED BY <2>3, <2>5, <3>1, <3>7, <3>9, <3>10 DEF e
  <2> QED BY <2>4, <2>5
<1> HIDE DEF Goods
<1>5. m \in Goods
  BY <1>1, <1>3, <1>4, SetInduction
<1>6. Good(m)
  BY <1>1, <1>5 DEF Goods
<1> QED BY <1>2, <1>6

-----------------------------------------------------------------------------
(* Capacities                                                              *)

\* The largest capacity there is.
Largest == round_up_pow2(kMaximumCapacity)

LEMMA RoundUpType ==
  ASSUME NEW n \in Nat \ {0}
  PROVE  round_up_pow2(n) \in Nat \ {0} /\ round_up_pow2(n) >= n
<1>1. round_up_pow2(n) \in Capacities /\ round_up_pow2(n) >= n /\ round_up_pow2(n) # 0
  BY RoundedUp
<1>2. \A i \in Nat : Power2[i] \in Nat \ {0}
  BY PowersDouble
<1> QED BY <1>1, <1>2 DEF Capacities

LEMMA LargestIs == Largest \in Nat /\ Largest >= kMaximumCapacity
BY HashMapsAssumption, RoundUpType DEF Largest

\* What a capacity made of a request is.
LEMMA CapacityMade ==
  ASSUME NEW x \in Nat \ {0}
  PROVE  /\ round_up_pow2(Lesser(kMaximumCapacity, x)) \in Nat \ {0}
         /\ round_up_pow2(Lesser(kMaximumCapacity, x)) <= Largest
         /\ \/ round_up_pow2(Lesser(kMaximumCapacity, x)) >= x
            \/ round_up_pow2(Lesser(kMaximumCapacity, x)) = Largest
<1>1. kMaximumCapacity \in Nat \ {0}
  BY HashMapsAssumption
<1>2. CASE kMaximumCapacity < x
  <2>1. Lesser(kMaximumCapacity, x) = kMaximumCapacity
    BY <1>2 DEF Lesser
  <2> QED BY <1>1, <2>1, RoundUpType, LargestIs DEF Largest
<1>3. CASE ~(kMaximumCapacity < x)
  <2>1. Lesser(kMaximumCapacity, x) = x /\ x <= kMaximumCapacity
    BY <1>1, <1>3 DEF Lesser
  <2>2. round_up_pow2(x) <= Largest
    BY <1>1, <2>1, RoundedInOrder DEF Largest
  <2> QED BY <2>1, <2>2, RoundUpType
<1> QED BY <1>2, <1>3

\* The two ways in which all three tables make a capacity of a request n,
\* where s keys are stored.
LEMMA Calculated ==
  ASSUME NEW n \in Nat \ {0}, NEW s \in Nat
  PROVE  /\ Greater(n, 2 * s) \in Nat \ {0}
         /\ Greater(n, 2 * s) >= 2 * s
         /\ Greater(kDefaultInitialCapacity, Greater(n, 2 * s)) \in Nat \ {0}
         /\ Greater(kDefaultInitialCapacity, Greater(n, 2 * s)) >= 2 * s
BY HashMapsAssumption DEF Greater

Requested(c, s) ==
  /\ c \in Nat \ {0}
  /\ c <= Largest
  /\ c >= 2 * s \/ c = Largest

LEMMA RequestedIs ==
  ASSUME NEW n \in Nat \ {0}, NEW s \in Nat
  PROVE  /\ Requested(round_up_pow2(Lesser(kMaximumCapacity, Greater(n, 2 * s))), s)
         /\ Requested(round_up_pow2(Lesser(kMaximumCapacity,
              Greater(kDefaultInitialCapacity, Greater(n, 2 * s)))), s)
<1> DEFINE x == Greater(n, 2 * s)
           y == Greater(kDefaultInitialCapacity, Greater(n, 2 * s))
<1>1. x \in Nat \ {0} /\ x >= 2 * s /\ y \in Nat \ {0} /\ y >= 2 * s
  BY Calculated
<1> HIDE DEF x, y
<1>2. ASSUME NEW z \in Nat \ {0}, z >= 2 * s
      PROVE  Requested(round_up_pow2(Lesser(kMaximumCapacity, z)), s)
  <2> DEFINE c == round_up_pow2(Lesser(kMaximumCapacity, z))
  <2>1. c \in Nat \ {0} /\ c <= Largest /\ (c >= z \/ c = Largest)
    BY CapacityMade
  <2> HIDE DEF c
  <2>2. c >= 2 * s \/ c = Largest
    BY <1>2, <2>1
  <2> QED BY <2>1, <2>2 DEF Requested, c
<1> QED BY <1>1, <1>2 DEF x, y

LEMMA TableCalculates ==
  ASSUME NEW n \in Requests, size \in Nat
  PROVE  Requested(T!calc_buckets(n), size) /\ Requested(T!calc_buckets_fast(n), size)
<1>1. n \in Nat \ {0}
  BY HashMapsAssumption
<1> QED BY <1>1, RequestedIs, SameTools
     DEF T!calc_buckets, T!calc_buckets_fast, T!Lesser, T!Greater, Lesser, Greater

-----------------------------------------------------------------------------
(* hash_table: the calls                                                   *)

\* n buckets hold `size` keys, and three quarters are not exceeded.
TableFilled(n) ==
  /\ TableOK(table, n)
  /\ Stock(NodesBelow(table, n), size)
  /\ 4 * size <= 3 * n
  /\ n <= Largest

TableSound == \E n : TableFilled(n)

TableContents == [k \in Keys |-> T!Lookup(k)]
TableShown == \A n : TableOK(table, n) => Shows(TableContents, NodesBelow(table, n))

LEMMA TableShowsAlways == TableShown
BY TableShows DEF TableShown, TableContents

LEMMA TableFilledIs ==
  ASSUME NEW n, TableFilled(n)
  PROVE  /\ n \in Nat \ {0} /\ size \in Nat /\ size < n /\ T!buckets = n
         /\ TableOK(table, n) /\ Stock(NodesBelow(table, n), size)
         /\ 4 * size <= 3 * n /\ n <= Largest
<1>1. n \in Nat \ {0} /\ size \in Nat /\ DOMAIN table = 0 .. n - 1 /\ 4 * size <= 3 * n
  BY StockCounts DEF TableFilled, TableOK
<1>2. T!buckets = n
  BY <1>1, Buckets, SameCount DEF T!buckets
<1>3. size < n
  BY <1>1
<1> QED BY <1>1, <1>2, <1>3 DEF TableFilled

LEMMA TableStarts ==
  ASSUME T!Init
  PROVE  TableSound /\ TableContents = [k \in Keys |-> None]
<1> DEFINE n == round_up_pow2(kDefaultInitialCapacity)
<1>1. kDefaultInitialCapacity \in Nat \ {0} /\ kMaximumCapacity \in Nat \ {0}
      /\ kDefaultInitialCapacity <= kMaximumCapacity
  BY HashMapsAssumption
<1>2. n \in Nat \ {0} /\ n <= Largest
  BY <1>1, RoundUpType, RoundedInOrder DEF Largest
<1>3. table = T!Empty(n) /\ size = 0
  BY SameTools DEF T!Init
<1> HIDE DEF n
<1>4. TableOK(table, n) /\ NodesBelow(table, n) = {}
  BY <1>2, <1>3, TableEmpty
<1>5. TableFilled(n)
  BY <1>2, <1>3, <1>4, StockNone DEF TableFilled
<1>6. Shows(TableContents, {})
  BY <1>4, TableShowsAlways DEF TableShown
<1> QED BY <1>5, <1>6, ShownNone DEF TableSound

\* What an insertion may come to: the pair is stored, or memory ran out.
Inserted(C, D, k, v) ==
  \/ Puts(C, D, size, size', k, v)
  \/ scarce /\ C[k] = None /\ D = C /\ size' = size

LEMMA TableInsertsKnown ==
  ASSUME NEW k \in Keys, NEW v \in Vals, NEW n, TableFilled(n),
         T!insert(k, v), T!find_internal(k) # T!End
  PROVE  TableSound' /\ Puts(TableContents, TableContents', size, size', k, v)
<1>1. /\ n \in Nat \ {0} /\ TableOK(table, n) /\ Stock(NodesBelow(table, n), size)
      /\ 4 * size <= 3 * n /\ n <= Largest
  BY TableFilledIs
<1> DEFINE b == T!find_internal(k)
           e == [key |-> k, val |-> v]
<1>2. b \in 0 .. n - 1 /\ table[b].key = k
  BY <1>1, TableFindIs
<1>3. table' = [table EXCEPT ![b].val = v] /\ size' = size
  BY DEF T!insert
<1>4. e \in Entry /\ e.key = k /\ e.val = v
  BY DEF Entry
<1> HIDE DEF b
<1>5. table[b] \in Entry
  BY <1>1, <1>2, NodeOfKey
<1>6. table' = [table EXCEPT ![b] = e]
  <2>1. [table[b] EXCEPT !.val = v] = e
    BY <1>2, <1>5 DEF Entry
  <2> QED BY <1>3, <2>1
<1> HIDE DEF e
<1>7. /\ TableOK([table EXCEPT ![b] = e], n)
      /\ table[b] \in NodesBelow(table, n)
      /\ NodesBelow([table EXCEPT ![b] = e], n)
           = With(Without(NodesBelow(table, n), table[b]), e)
  <2>1. table[b].key = e.key
    BY <1>2, <1>4
  <2>2. e \in Entry /\ b \in 0 .. n - 1 /\ TableOK(table, n)
        /\ Stock(NodesBelow(table, n), size)
    BY <1>1, <1>2, <1>4
  <2> QED BY ONLY <2>1, <2>2, TableChange
<1>8. TableOK(table', n)
      /\ NodesBelow(table', n) = With(Without(NodesBelow(table, n), table[b]), e)
  BY <1>6, <1>7
<1>9. Shows(TableContents, NodesBelow(table, n))
  BY <1>1, TableShowsAlways DEF TableShown
<1>10. Shows(TableContents', NodesBelow(table', n))
  <2>1. TableShown'
    BY TableShowsAlways, PTL
  <2> QED BY <1>8, <2>1 DEF TableShown
<1>11. /\ Puts(TableContents, TableContents', size, size, e.key, e.val)
       /\ Stock(NodesBelow(table', n), size)
  <2> DEFINE C == TableContents
             D == TableContents'
  <2>1. Shows(C, NodesBelow(table, n))
    BY <1>9
  <2>2. Shows(D, With(Without(NodesBelow(table, n), table[b]), e))
    BY <1>8, <1>10
  <2>3. table[b].key = e.key
    BY <1>2, <1>4
  <2> HIDE DEF C, D
  <2>4. /\ Puts(C, D, size, size, e.key, e.val)
        /\ Stock(With(Without(NodesBelow(table, n), table[b]), e), size)
    BY <1>1, <1>4, <1>7, <2>1, <2>2, <2>3, ShownInstead
  <2> QED BY <1>8, <2>4 DEF C, D
<1>12. TableFilled(n)'
  BY <1>1, <1>3, <1>8, <1>11 DEF TableFilled
<1> QED BY <1>3, <1>4, <1>11, <1>12 DEF TableSound

\* A table with the same entries shows the same.
LEMMA TableMoved ==
  ASSUME NEW n, NEW N, TableFilled(n), TableOK(table', N), N <= Largest, 4 * size <= 3 * N,
         NodesBelow(table', N) = NodesBelow(table, n), size' = size
  PROVE  TableSound' /\ TableContents' = TableContents
<1>1. TableOK(table, n) /\ Stock(NodesBelow(table, n), size)
  BY TableFilledIs
<1>2. TableFilled(N)'
  BY <1>1 DEF TableFilled
<1>3. TableShown /\ TableShown'
  BY TableShowsAlways, PTL
<1>4. Shows(TableContents, NodesBelow(table, n))
  BY <1>1, <1>3 DEF TableShown
<1>5. Shows(TableContents', NodesBelow(table, n))
  BY <1>3 DEF TableShown
<1> HIDE DEF TableContents
<1>6. TableContents' = TableContents
  <2> DEFINE C == TableContents
             D == TableContents'
  <2>1. Shows(C, NodesBelow(table, n)) /\ Shows(D, NodesBelow(table, n))
    BY <1>4, <1>5
  <2> HIDE DEF C, D
  <2>2. C = D
    BY <2>1, ShownSame
  <2> QED BY <2>2 DEF C, D
<1> QED BY <1>2, <1>6 DEF TableSound

\* Doubling the table.
LEMMA TableDoubles ==
  ASSUME NEW n, TableFilled(n), 2 * n <= Largest
  PROVE  /\ TableOK(T!Rehashed(2 * n), 2 * n)
         /\ NodesBelow(T!Rehashed(2 * n), 2 * n) = NodesBelow(table, n)
<1>1. n \in Nat \ {0} /\ size \in Nat /\ size < n /\ TableOK(table, n)
      /\ Stock(NodesBelow(table, n), size)
  BY TableFilledIs
<1> DEFINE N == 2 * n
<1>2. N \in Nat /\ size < N
  BY <1>1
<1> HIDE DEF N
<1>3. TableOK(T!Rehashed(N), N) /\ NodesBelow(T!Rehashed(N), N) = NodesBelow(table, n)
  BY <1>1, <1>2, TableRehashed
<1> QED BY <1>3 DEF N

LEMMA TableInsertsNew ==
  ASSUME NEW k \in Keys, NEW v \in Vals, NEW n, TableFilled(n), scarce \in BOOLEAN,
         T!insert(k, v), T!find_internal(k) = T!End
  PROVE  TableSound' /\ Inserted(TableContents, TableContents', k, v)
<1>1. /\ n \in Nat \ {0} /\ TableOK(table, n) /\ Stock(NodesBelow(table, n), size)
      /\ 4 * size <= 3 * n /\ n <= Largest /\ size \in Nat /\ T!buckets = n
  BY TableFilledIs
<1>2. Lacks(NodesBelow(table, n), k)
  BY <1>1, TableFindIs
<1>3. TableContents[k] = None
  <2>1. Shows(TableContents, NodesBelow(table, n))
    BY <1>1, TableShowsAlways DEF TableShown
  <2> HIDE DEF TableContents
  <2> QED BY <1>1, <1>2, <2>1, ShownLacks DEF Stock
<1>4. PICK grown \in T!Alloc, got \in T!Alloc :
        LET big == IF T!Full THEN T!Rehashed(2 * n) ELSE table
        IN  /\ T!Full => 2 * n <= GrowthBound
            /\ IF T!Full /\ ~grown
               THEN UNCHANGED <<table, size>>
               ELSE IF ~got
               THEN /\ table' = big
                    /\ UNCHANGED size
               ELSE /\ table' = [big EXCEPT ![T!Place(big, k)] =
                                       [key |-> k, val |-> v]]
                    /\ size' = size + 1
  BY <1>1 DEF T!insert
<1>5. grown \in BOOLEAN /\ got \in BOOLEAN /\ (~grown \/ ~got => scarce)
  BY DEF T!Alloc
<1> DEFINE big == IF T!Full THEN T!Rehashed(2 * n) ELSE table
           e == [key |-> k, val |-> v]
<1>6. PICK N : N = IF T!Full THEN 2 * n ELSE n
  OBVIOUS
<1>7. N \in Nat \ {0} /\ N <= Largest /\ 4 * (size + 1) <= 3 * N
  <2>1. T!Full <=> size >= (n * 3) \div 4
    BY <1>1 DEF T!Full
  <2>2. CASE T!Full
    <3>1. 2 * n <= GrowthBound /\ GrowthBound <= kMaximumCapacity
          /\ GrowthBound \in Nat /\ kMaximumCapacity \in Nat
      BY <1>4, <2>2, HashMapsAssumption
    <3>2. 2 * n <= Largest
      BY <1>1, <3>1, LargestIs
    <3>3. 4 * (size + 1) <= 3 * (2 * n)
      <4>1. CASE n = 1
        BY <1>1, <4>1
      <4>2. CASE n >= 2
        BY <1>1, <4>2
      <4> QED BY <1>1, <4>1, <4>2
    <3> QED BY <1>1, <1>6, <2>2, <3>2, <3>3
  <2>3. CASE ~T!Full
    <3>1. size < (n * 3) \div 4
      BY <1>1, <2>1, <2>3
    <3>2. 4 * ((n * 3) \div 4) <= n * 3 /\ (n * 3) \div 4 \in Nat
      BY <1>1
    <3>3. 4 * (size + 1) <= 3 * n
      BY <1>1, <3>1, <3>2
    <3> QED BY <1>1, <1>6, <2>3, <3>3
  <2> QED BY <2>2, <2>3
<1>8. TableOK(big, N) /\ NodesBelow(big, N) = NodesBelow(table, n)
  <2>1. CASE T!Full
    BY <1>6, <1>7, <2>1, TableDoubles
  <2>2. CASE ~T!Full
    BY <1>1, <1>6, <2>2
  <2> QED BY <2>1, <2>2
<1>9. CASE T!Full /\ ~grown
  <2>1. table' = table /\ size' = size /\ scarce
    BY <1>4, <1>5, <1>9
  <2>2. TableOK(table', n) /\ NodesBelow(table', n) = NodesBelow(table, n)
    BY <1>1, <2>1
  <2>3. TableSound' /\ TableContents' = TableContents
    BY <1>1, <2>1, <2>2, TableMoved
  <2> QED BY <1>3, <2>1, <2>3 DEF Inserted
<1>10. CASE ~(T!Full /\ ~grown) /\ ~got
  <2>1. table' = big /\ size' = size /\ scarce
    BY <1>4, <1>5, <1>10
  <2> HIDE DEF big
  <2>2. TableOK(table', N) /\ NodesBelow(table', N) = NodesBelow(table, n)
    BY <1>8, <2>1
  <2>3. 4 * size <= 3 * N
    BY <1>1, <1>7
  <2>4. TableSound' /\ TableContents' = TableContents
    BY <1>7, <2>1, <2>2, <2>3, TableMoved
  <2> QED BY <1>3, <2>1, <2>4 DEF Inserted
<1>11. CASE ~(T!Full /\ ~grown) /\ got
  <2> DEFINE p == T!Place(big, k)
  <2>1. table' = [big EXCEPT ![p] = e] /\ size' = size + 1
    BY <1>4, <1>11
  <2> HIDE DEF big
  <2>2. e \in Entry /\ e.key = k /\ e.val = v
    BY DEF Entry
  <2> HIDE DEF e
  <2>3. Stock(NodesBelow(big, N), size) /\ size < N
    BY <1>1, <1>7, <1>8
  <2>4. \E b \in 0 .. N - 1 : big[b] = NoNode
    BY <1>8, <2>3, RoomLeft
  <2>5. p \in 0 .. N - 1 /\ big[p] = NoNode
    BY <1>8, <2>4, PlaceIs
  <2> HIDE DEF p
  <2>6. Lacks(NodesBelow(big, N), e.key)
    BY <1>2, <1>8, <2>2
  <2>7. TableOK(table', N) /\ NodesBelow(table', N) = With(NodesBelow(table, n), e)
    <3>1. /\ TableOK([big EXCEPT ![p] = e], N)
          /\ NodesBelow([big EXCEPT ![p] = e], N) = With(NodesBelow(big, N), e)
      BY ONLY <1>8, <2>2, <2>5, <2>6, TablePut
    <3> QED BY <1>8, <2>1, <3>1
  <2>8. Stock(NodesBelow(table', N), size')
    BY <1>1, <1>2, <2>1, <2>2, <2>7, StockWith
  <2>9. TableFilled(N)'
    BY <1>7, <2>1, <2>7, <2>8 DEF TableFilled
  <2>10. TableShown /\ TableShown'
    BY TableShowsAlways, PTL
  <2>11. Shows(TableContents, NodesBelow(table, n))
         /\ Shows(TableContents', With(NodesBelow(table, n), e))
    BY <1>1, <2>7, <2>10 DEF TableShown
  <2> DEFINE C == TableContents
             D == TableContents'
  <2>12. Shows(C, NodesBelow(table, n)) /\ Shows(D, With(NodesBelow(table, n), e))
    BY <2>11
  <2> HIDE DEF C, D
  <2>13. Puts(C, D, size, size + 1, e.key, e.val)
    BY <1>1, <1>2, <2>2, <2>12, ShownWith
  <2>14. Inserted(TableContents, TableContents', k, v)
    BY <2>1, <2>2, <2>13 DEF Inserted, C, D
  <2> QED BY <2>9, <2>14 DEF TableSound
<1> QED BY <1>5, <1>9, <1>10, <1>11

LEMMA TableInserts ==
  ASSUME NEW k \in Keys, NEW v \in Vals, TableSound, scarce \in BOOLEAN,
         T!insert(k, v) \/ T!insert_rvalue(k, v) \/ T!emplace(k, v)
  PROVE  TableSound' /\ Inserted(TableContents, TableContents', k, v)
<1>1. PICK n : TableFilled(n)
  BY DEF TableSound
<1>2. T!insert(k, v)
  BY DEF T!insert_rvalue, T!emplace
<1>3. CASE T!find_internal(k) = T!End
  BY <1>1, <1>2, <1>3, TableInsertsNew
<1>4. CASE T!find_internal(k) # T!End
  <2>1. TableSound' /\ Puts(TableContents, TableContents', size, size', k, v)
    BY <1>1, <1>2, <1>4, TableInsertsKnown
  <2> QED BY <2>1 DEF Inserted
<1> QED BY <1>3, <1>4

LEMMA TableErases ==
  ASSUME NEW k \in Keys, TableSound, T!erase(k) \/ T!erase_rvalue(k)
  PROVE  TableSound' /\ Drops(TableContents, TableContents', size, size', k)
<1>1. PICK n : TableFilled(n)
  BY DEF TableSound
<1>2. /\ n \in Nat \ {0} /\ TableOK(table, n) /\ Stock(NodesBelow(table, n), size)
      /\ 4 * size <= 3 * n /\ n <= Largest /\ size \in Nat /\ T!buckets = n
  BY <1>1, TableFilledIs
<1>3. T!erase(k)
  BY DEF T!erase_rvalue
<1> DEFINE b == T!find_internal(k)
           e == table[b]
           E == NodesBelow(table, n)
<1>4. b # T!End /\ table' = [table EXCEPT ![b] = NoNode] /\ size' = size - 1
  BY <1>2, <1>3 DEF T!erase, T!find, NoNode
<1>5. b \in 0 .. n - 1 /\ e.key = k
  BY <1>2, <1>4, TableFindIs
<1> HIDE DEF b
<1>6. e \in Entry /\ e # NoNode
  BY <1>2, <1>5, NodeOfKey, NoNodeIs
<1>7. /\ TableOK(table', n)
      /\ e \in E
      /\ NodesBelow(table', n) = Without(E, e)
  <2>1. /\ TableOK([table EXCEPT ![b] = NoNode], n)
        /\ table[b] \in NodesBelow(table, n)
        /\ NodesBelow([table EXCEPT ![b] = NoNode], n)
             = Without(NodesBelow(table, n), table[b])
    BY <1>2, <1>5, <1>6, TableCut
  <2> QED BY <1>4, <2>1
<1>8. TableShown /\ TableShown'
  BY TableShowsAlways, PTL
<1> DEFINE C == TableContents
           D == TableContents'
<1>9. Shows(C, E) /\ Shows(D, Without(E, e)) /\ Stock(E, size)
  BY <1>2, <1>7, <1>8 DEF TableShown
<1>10. Stock(NodesBelow(table', n), size - 1)
  <2> HIDE DEF C, D, e, E
  <2> QED BY <1>7, <1>9, StockWithout
<1>11. Drops(C, D, size, size - 1, e.key)
  <2> HIDE DEF C, D, e, E
  <2> QED BY <1>7, <1>9, ShownWithout
<1>12. TableFilled(n)'
  BY <1>2, <1>4, <1>7, <1>10 DEF TableFilled
<1> QED BY <1>4, <1>5, <1>11, <1>12 DEF TableSound

\* An empty table, of another capacity or the same.
LEMMA TableEmptied ==
  ASSUME NEW n \in Nat \ {0}, n <= Largest, table' = T!Empty(n), size' = 0
  PROVE  TableSound' /\ TableContents' = [k \in Keys |-> None]
<1>1. TableOK(table', n) /\ NodesBelow(table', n) = {}
  BY TableEmpty
<1>2. TableFilled(n)'
  BY <1>1, StockNone DEF TableFilled
<1>3. TableShown'
  BY TableShowsAlways, PTL
<1> DEFINE D == TableContents'
<1>4. Shows(D, {})
  BY <1>1, <1>3 DEF TableShown
<1>5. D = [k \in Keys |-> None]
  <2> HIDE DEF D
  <2> QED BY <1>4, ShownNone
<1> QED BY <1>2, <1>5 DEF TableSound

LEMMA TableClears ==
  ASSUME TableSound, T!clear
  PROVE  TableSound' /\ TableContents' = [k \in Keys |-> None] /\ size' = 0
<1>1. PICK n : TableFilled(n)
  BY DEF TableSound
<1>2. n \in Nat \ {0} /\ n <= Largest /\ table' = T!Empty(n) /\ size' = 0
  BY <1>1, TableFilledIs DEF T!clear
<1> QED BY <1>2, TableEmptied

LEMMA TableReserves ==
  ASSUME NEW n \in Requests, TableSound, T!reserve(n)
  PROVE  /\ TableSound' /\ TableContents' = [k \in Keys |-> None] /\ size' = 0
         /\ capacity' # capacity
<1>1. PICK m : TableFilled(m)
  BY DEF TableSound
<1>2. m \in Nat \ {0} /\ size \in Nat /\ T!buckets = m
  BY <1>1, TableFilledIs
<1> DEFINE c == T!calc_buckets(n)
<1>3. c > m /\ table' = T!Empty(c) /\ size' = 0
  BY <1>2 DEF T!reserve, T!reserve_internal
<1>4. c \in Nat \ {0} /\ c <= Largest
  BY <1>2, TableCalculates DEF Requested
<1> HIDE DEF c
<1>5. capacity = m
  BY <1>2, SameCount DEF capacity, T!buckets
<1>6. capacity' = c
  <2>1. DOMAIN table' = 0 .. c - 1
    BY <1>3 DEF T!Empty
  <2> QED BY <1>4, <2>1, Buckets DEF capacity
<1> QED BY <1>3, <1>4, <1>5, <1>6, TableEmptied

LEMMA TableRehashes ==
  ASSUME NEW n \in Requests, TableSound, T!rehash(n) \/ T!shrink_to_fit(n)
  PROVE  TableSound' /\ TableContents' = TableContents /\ size' = size
<1>1. PICK m : TableFilled(m)
  BY DEF TableSound
<1>2. /\ m \in Nat \ {0} /\ size \in Nat /\ T!buckets = m /\ TableOK(table, m)
      /\ Stock(NodesBelow(table, m), size) /\ 4 * size <= 3 * m /\ m <= Largest
  BY <1>1, TableFilledIs
<1>3. PICK c : /\ table' = T!Rehashed(c) /\ size' = size
               /\ Requested(c, size)
  BY <1>2, TableCalculates
     DEF T!rehash, T!rehash_internal, T!shrink_to_fit, T!shrink_internal
<1>4. c \in Nat \ {0} /\ c <= Largest /\ (c >= 2 * size \/ c = Largest)
  BY <1>3 DEF Requested
<1>5. 4 * size <= 3 * c
  BY <1>2, <1>4, LargestIs
<1>6. size < c
  BY <1>2, <1>4, <1>5
<1>7. TableOK(T!Rehashed(c), c) /\ NodesBelow(T!Rehashed(c), c) = NodesBelow(table, m)
  BY <1>2, <1>4, <1>6, TableRehashed
<1>8. TableOK(table', c) /\ NodesBelow(table', c) = NodesBelow(table, m)
  BY <1>3, <1>7
<1> QED BY <1>1, <1>3, <1>4, <1>5, <1>8, TableMoved

\* The places of a sound table, counted: as many as entries, one for a key.
LEMMA TableLayout ==
  ASSUME TableSound
  PROVE  T!PlacesRemain /\ T!LoadBounded
<1>1. PICK n : TableFilled(n)
  BY DEF TableSound
<1>2. /\ n \in Nat \ {0} /\ TableOK(table, n) /\ Stock(NodesBelow(table, n), size)
      /\ 4 * size <= 3 * n /\ size \in Nat /\ T!buckets = n /\ size < n
  BY <1>1, TableFilledIs
<1>3. DOMAIN table = 0 .. n - 1
  BY <1>2 DEF TableOK
<1>4. \E b \in DOMAIN table : table[b] = T!NoNode
  BY <1>2, <1>3, RoomLeft DEF NoNode
<1>5. size = T!Cardinality({b \in DOMAIN table : table[b] # T!NoNode})
  <2> DEFINE B == {b \in DOMAIN table : table[b] # T!NoNode}
             C == NodesBelow(table, n)
             f == [b \in B |-> table[b]]
  <2>1. \A b \in B : table[b] \in C
    <3> SUFFICES ASSUME NEW b \in B
                 PROVE  table[b] \in C
      OBVIOUS
    <3>1. table[b] \in Entry
      BY <1>2, <1>3, NodeOfKey DEF NoNode
    <3> QED BY <1>3, <3>1 DEF NodesBelow
  <2>2. f \in [B -> C]
    BY <2>1
  <2>3. \A b, c \in B : f[b] = f[c] => b = c
    BY <1>2, <1>3 DEF TableOK, NoNode
  <2>4. \A e \in C : \E b \in B : f[b] = e
    <3> SUFFICES ASSUME NEW e \in C
                 PROVE  \E b \in B : f[b] = e
      OBVIOUS
    <3>1. PICK b \in 0 .. n - 1 : table[b] = e
      BY DEF NodesBelow
    <3>2. b \in B
      BY <1>3, <3>1, NoNodeIs DEF NoNode, NodesBelow
    <3> QED BY <3>1, <3>2
  <2>5. IsFiniteSet(C) /\ Cardinality(C) = size
    BY <1>2 DEF Stock
  <2> HIDE DEF B, C, f
  <2>6. Cardinality(C) = Cardinality(B)
    BY ONLY <2>2, <2>3, <2>4, <2>5, SameNumberBack
  <2>7. T!Cardinality(B) = Cardinality(B)
    BY SameCount
  <2> QED BY <2>5, <2>6, <2>7 DEF B
<1>6. ASSUME NEW k \in Keys
      PROVE  T!Cardinality({b \in DOMAIN table : table[b].key = k}) <= 1
  <2> DEFINE B == {b \in DOMAIN table : table[b].key = k}
  <2>1. T!Cardinality(B) = Cardinality(B)
    BY SameCount
  <2>2. CASE B = {}
    <3>1. Cardinality(B) = 0
      BY <2>2, FS_EmptySet
    <3> QED BY <2>1, <3>1
  <2>3. CASE B # {}
    <3>1. PICK b \in B : TRUE
      BY <2>3
    <3>2. \A c \in B : c = b
      <4>1. \A c \in B : c \in 0 .. n - 1 /\ table[c].key = k
        BY <1>3
      <4>2. table[b] # NoNode
        BY <4>1, NoNodeIs, NoneApart
      <4> QED BY <1>2, <4>1, <4>2 DEF TableOK
    <3>3. B = {b}
      BY <3>1, <3>2
    <3>4. Cardinality(B) = 1
      <4> HIDE DEF B
      <4> QED BY <3>3, FS_Singleton
    <3> QED BY <2>1, <3>4
  <2> QED BY <2>2, <2>3
<1> QED BY <1>2, <1>4, <1>5, <1>6 DEF T!PlacesRemain, T!LoadBounded

-----------------------------------------------------------------------------
(* Chains of entries                                                       *)

\* A chain without two entries of one key, and the entries on it.
Keyed(s) ==
  /\ s \in Seq(Entry)
  /\ \A i, j \in 1 .. Len(s) : s[i].key = s[j].key => i = j
Links(s) == {e \in Entry : \E i \in 1 .. Len(s) : s[i] = e}

LEMMA LinkIs ==
  ASSUME NEW s, Keyed(s), NEW i \in 1 .. Len(s)
  PROVE  s[i] \in Entry /\ s[i] \in Links(s)
BY DEF Keyed, Links

LEMMA NoLinks == Keyed(<<>>) /\ Links(<<>>) = {}
BY DEF Keyed, Links

\* push_front_fast.
LEMMA FrontLinked ==
  ASSUME NEW s, NEW e \in Entry, Keyed(s), Lacks(Links(s), e.key)
  PROVE  Keyed(<<e>> \o s) /\ Links(<<e>> \o s) = With(Links(s), e)
<1> DEFINE u == <<e>> \o s
<1>1. s \in Seq(Entry) /\ Len(s) \in Nat
  BY DEF Keyed
<1>2. /\ u \in Seq(Entry) /\ Len(u) = Len(s) + 1 /\ u[1] = e
      /\ \A i \in 1 .. Len(s) : u[i + 1] = s[i]
  BY <1>1
<1> HIDE DEF u
<1>3. \A i \in 2 .. Len(u) : i - 1 \in 1 .. Len(s) /\ u[i] = s[i - 1]
  <2> SUFFICES ASSUME NEW i \in 2 .. Len(u)
               PROVE  i - 1 \in 1 .. Len(s) /\ u[i] = s[i - 1]
    OBVIOUS
  <2>1. i - 1 \in 1 .. Len(s) /\ (i - 1) + 1 = i
    BY <1>1, <1>2
  <2>2. u[(i - 1) + 1] = s[i - 1]
    BY <1>2, <2>1
  <2> QED BY <2>1, <2>2
<1>4. \A i \in 1 .. Len(s) : s[i].key # e.key
  BY LinkIs DEF Lacks
<1>5. ASSUME NEW i \in 1 .. Len(u), NEW j \in 1 .. Len(u), u[i].key = u[j].key
      PROVE  i = j
  <2>1. CASE i = 1 /\ j = 1
    BY <2>1
  <2>2. CASE i = 1 /\ j # 1
    <3>1. j \in 2 .. Len(u)
      BY <1>1, <1>2, <2>2
    <3> QED BY <1>2, <1>3, <1>4, <1>5, <2>2, <3>1
  <2>3. CASE i # 1 /\ j = 1
    <3>1. i \in 2 .. Len(u)
      BY <1>1, <1>2, <2>3
    <3> QED BY <1>2, <1>3, <1>4, <1>5, <2>3, <3>1
  <2>4. CASE i # 1 /\ j # 1
    <3>1. i \in 2 .. Len(u) /\ j \in 2 .. Len(u)
      BY <1>1, <1>2, <2>4
    <3>2. i - 1 = j - 1
      BY <1>3, <1>5, <3>1 DEF Keyed
    <3> QED BY <3>1, <3>2
  <2> QED BY <2>1, <2>2, <2>3, <2>4
<1>6. ASSUME NEW f \in Entry
      PROVE  (\E i \in 1 .. Len(u) : u[i] = f)
               <=> (\E i \in 1 .. Len(s) : s[i] = f) \/ f = e
  <2>1. ASSUME NEW i \in 1 .. Len(u), u[i] = f
        PROVE  (\E j \in 1 .. Len(s) : s[j] = f) \/ f = e
    <3>1. i = 1 \/ i \in 2 .. Len(u)
      BY <1>1, <1>2
    <3> QED BY <1>2, <1>3, <2>1, <3>1
  <2>2. ASSUME NEW i \in 1 .. Len(s), s[i] = f
        PROVE  \E j \in 1 .. Len(u) : u[j] = f
    <3>1. i + 1 \in 1 .. Len(u)
      BY <1>1, <1>2
    <3> QED BY <1>2, <2>2, <3>1
  <2>3. ASSUME f = e
        PROVE  \E j \in 1 .. Len(u) : u[j] = f
    <3>1. 1 \in 1 .. Len(u)
      BY <1>1, <1>2
    <3> QED BY <1>2, <2>3, <3>1
  <2> QED BY <2>1, <2>2, <2>3
<1>7. Keyed(u)
  BY <1>2, <1>5 DEF Keyed
<1>8. Links(u) = With(Links(s), e)
  BY <1>6 DEF Links, With
<1> QED BY <1>7, <1>8 DEF u

\* A new value for a known key.
LEMMA LinkChanged ==
  ASSUME NEW s, NEW i \in 1 .. Len(s), NEW e \in Entry, Keyed(s), s[i].key = e.key
  PROVE  /\ Keyed([s EXCEPT ![i] = e])
         /\ Len([s EXCEPT ![i] = e]) = Len(s)
         /\ Links([s EXCEPT ![i] = e]) = With(Without(Links(s), s[i]), e)
<1> DEFINE u == [s EXCEPT ![i] = e]
<1>1. s \in Seq(Entry) /\ Len(s) \in Nat
  BY DEF Keyed
<1>2. /\ u \in Seq(Entry) /\ Len(u) = Len(s) /\ u[i] = e
      /\ \A j \in 1 .. Len(s) : j # i => u[j] = s[j]
  BY <1>1
<1> HIDE DEF u
<1>3. \A j \in 1 .. Len(s) : u[j].key = s[j].key
  BY <1>2
<1>4. Keyed(u)
  BY <1>2, <1>3 DEF Keyed
<1>5. \A j \in 1 .. Len(s) : j # i => s[j] # s[i] /\ s[j] # e
  BY DEF Keyed
<1>6. ASSUME NEW f \in Entry
      PROVE  (\E j \in 1 .. Len(u) : u[j] = f)
               <=> ((\E j \in 1 .. Len(s) : s[j] = f) /\ f # s[i]) \/ f = e
  BY <1>2, <1>5
<1>7. Links(u) = With(Without(Links(s), s[i]), e)
  BY <1>6 DEF Links, With, Without
<1> QED BY <1>2, <1>4, <1>7 DEF u

\* erase_fast.
Cut(s, at) == SubSeq(s, 1, at - 1) \o SubSeq(s, at + 1, Len(s))

LEMMA LinkCut ==
  ASSUME NEW s, NEW at \in 1 .. Len(s), Keyed(s)
  PROVE  /\ Keyed(Cut(s, at))
         /\ Len(Cut(s, at)) = Len(s) - 1
         /\ Links(Cut(s, at)) = Without(Links(s), s[at])
<1> DEFINE u == Cut(s, at)
           l == SubSeq(s, 1, at - 1)
           r == SubSeq(s, at + 1, Len(s))
<1>1. s \in Seq(Entry) /\ Len(s) \in Nat
  BY DEF Keyed
<1>2. /\ l \in Seq(Entry) /\ Len(l) = at - 1
      /\ \A j \in 1 .. at - 1 : l[j] = s[j]
  BY <1>1
<1>3. /\ r \in Seq(Entry) /\ Len(r) = Len(s) - at
      /\ \A j \in 1 .. Len(s) - at : r[j] = s[at + j]
  BY <1>1
<1>4. u = l \o r
  BY DEF Cut
<1> HIDE DEF l, r, u
<1>5. /\ u \in Seq(Entry) /\ Len(u) = Len(s) - 1
      /\ \A j \in 1 .. at - 1 : u[j] = l[j]
      /\ \A j \in at .. Len(s) - 1 : u[j] = r[j - (at - 1)]
  BY <1>1, <1>2, <1>3, <1>4, SMTT(20)
<1> DEFINE Old(j) == IF j < at THEN j ELSE j + 1
<1>6. \A j \in 1 .. Len(u) : Old(j) \in 1 .. Len(s) /\ Old(j) # at /\ u[j] = s[Old(j)]
  <2> SUFFICES ASSUME NEW j \in 1 .. Len(u)
               PROVE  Old(j) \in 1 .. Len(s) /\ Old(j) # at /\ u[j] = s[Old(j)]
    OBVIOUS
  <2>1. CASE j < at
    BY <1>1, <1>2, <1>5, <2>1
  <2>2. CASE j >= at
    <3>1. j - (at - 1) \in 1 .. Len(s) - at /\ at + (j - (at - 1)) = j + 1
          /\ j \in at .. Len(s) - 1 /\ j + 1 \in 1 .. Len(s)
      BY <1>1, <1>5, <2>2
    <3>2. u[j] = s[j + 1]
      BY <1>3, <1>5, <3>1
    <3> QED BY <2>2, <3>1, <3>2
  <2> QED BY <2>1, <2>2
<1>7. \A j \in 1 .. Len(s) : j # at => \E i \in 1 .. Len(u) : Old(i) = j
  <2> SUFFICES ASSUME NEW j \in 1 .. Len(s), j # at
               PROVE  \E i \in 1 .. Len(u) : Old(i) = j
    OBVIOUS
  <2>1. CASE j < at
    <3>1. j \in 1 .. Len(u) /\ Old(j) = j
      BY <1>1, <1>5, <2>1
    <3> QED BY <3>1
  <2>2. CASE j > at
    <3>1. j - 1 \in 1 .. Len(u) /\ Old(j - 1) = j
      BY <1>1, <1>5, <2>2
    <3> QED BY <3>1
  <2> QED BY <2>1, <2>2
<1>8. \A i, j \in 1 .. Len(u) : Old(i) = Old(j) => i = j
  BY <1>1, <1>5
<1> HIDE DEF Old
<1>9. Keyed(u)
  BY <1>5, <1>6, <1>8 DEF Keyed
<1>10. \A j \in 1 .. Len(s) : j # at => s[j] # s[at]
  BY DEF Keyed
<1>11. ASSUME NEW f \in Entry
       PROVE  (\E j \in 1 .. Len(u) : u[j] = f)
                <=> (\E j \in 1 .. Len(s) : s[j] = f) /\ f # s[at]
  <2>1. ASSUME NEW j \in 1 .. Len(u), u[j] = f
        PROVE  (\E i \in 1 .. Len(s) : s[i] = f) /\ f # s[at]
    BY <1>6, <1>10, <2>1
  <2>2. ASSUME NEW j \in 1 .. Len(s), s[j] = f, f # s[at]
        PROVE  \E i \in 1 .. Len(u) : u[i] = f
    BY <1>6, <1>7, <2>2
  <2> QED BY <2>1, <2>2
<1>12. Links(u) = Without(Links(s), s[at])
  BY <1>11 DEF Links, Without
<1> QED BY <1>5, <1>9, <1>12 DEF u

-----------------------------------------------------------------------------
(* Tables of chains                                                        *)

\* Chains of n buckets, each entry in the one its hash names.
ChainsOK(c, n) ==
  /\ n \in Nat
  /\ c \in [0 .. n - 1 -> Seq(Entry)]
  /\ \A b \in 0 .. n - 1 :
       /\ Keyed(c[b])
       /\ \A e \in Links(c[b]) : Hash[e.key] % n = b

\* The entries on the first n chains.
ChainedBelow(c, n) == {e \in Entry : \E b \in 0 .. n - 1 : e \in Links(c[b])}

LEMMA ChainsEmpty ==
  ASSUME NEW n \in Nat
  PROVE  /\ ChainsOK([b \in 0 .. n - 1 |-> <<>>], n)
         /\ ChainedBelow([b \in 0 .. n - 1 |-> <<>>], n) = {}
BY NoLinks DEF ChainsOK, ChainedBelow

\* An entry lies on the chain of its key only.
LEMMA ChainOf ==
  ASSUME NEW c, NEW n, NEW e \in ChainedBelow(c, n), ChainsOK(c, n)
  PROVE  /\ Hash[e.key] % n \in 0 .. n - 1
         /\ e \in Links(c[Hash[e.key] % n])
<1>1. PICK b \in 0 .. n - 1 : e \in Links(c[b])
  BY DEF ChainedBelow
<1>2. Hash[e.key] % n = b
  BY <1>1 DEF ChainsOK
<1> QED BY <1>1, <1>2

\* What becomes of the table when one chain s becomes u.
LEMMA ChainTaken ==
  ASSUME NEW c, NEW n, NEW b \in 0 .. n - 1, NEW u, ChainsOK(c, n), Keyed(u),
         \A e \in Links(u) : Hash[e.key] % n = b
  PROVE  /\ ChainsOK([c EXCEPT ![b] = u], n)
         /\ \A e : e \in ChainedBelow([c EXCEPT ![b] = u], n)
                     <=> \/ e \in Links(u)
                         \/ e \in ChainedBelow(c, n) /\ e \notin Links(c[b])
<1> DEFINE d == [c EXCEPT ![b] = u]
<1>1. d \in [0 .. n - 1 -> Seq(Entry)] /\ d[b] = u /\ \A x \in 0 .. n - 1 : x # b => d[x] = c[x]
  BY DEF ChainsOK, Keyed
<1> HIDE DEF d
<1>2. ChainsOK(d, n)
  BY <1>1 DEF ChainsOK
<1>3. ASSUME NEW e
      PROVE  e \in ChainedBelow(d, n)
               <=> \/ e \in Links(u)
                   \/ e \in ChainedBelow(c, n) /\ e \notin Links(c[b])
  <2>1. ASSUME e \in ChainedBelow(d, n)
        PROVE  \/ e \in Links(u)
               \/ e \in ChainedBelow(c, n) /\ e \notin Links(c[b])
    <3>1. PICK x \in 0 .. n - 1 : e \in Links(d[x]) /\ e \in Entry
      BY <2>1 DEF ChainedBelow
    <3>2. CASE x = b
      BY <1>1, <3>1, <3>2
    <3>3. CASE x # b
      <4>1. e \in Links(c[x])
        BY <1>1, <3>1, <3>3
      <4>2. Hash[e.key] % n = x
        BY <4>1 DEF ChainsOK
      <4>3. e \notin Links(c[b])
        BY <3>3, <4>2 DEF ChainsOK
      <4> QED BY <3>1, <4>1, <4>3 DEF ChainedBelow
    <3> QED BY <3>2, <3>3
  <2>2. ASSUME e \in Links(u)
        PROVE  e \in ChainedBelow(d, n)
    BY <1>1, <2>2 DEF ChainedBelow, Links
  <2>3. ASSUME e \in ChainedBelow(c, n), e \notin Links(c[b])
        PROVE  e \in ChainedBelow(d, n)
    <3>1. PICK x \in 0 .. n - 1 : e \in Links(c[x]) /\ e \in Entry
      BY <2>3 DEF ChainedBelow
    <3>2. x # b
      BY <2>3, <3>1
    <3> QED BY <1>1, <3>1, <3>2 DEF ChainedBelow
  <2> QED BY <2>1, <2>2, <2>3
<1> QED BY <1>2, <1>3 DEF d

\* An entry of a new key at the front of its chain.
FrontedIn(c, n, e) == [c EXCEPT ![Hash[e.key] % n] = <<e>> \o c[Hash[e.key] % n]]

LEMMA ChainPut ==
  ASSUME NEW c, NEW n, NEW e \in Entry, ChainsOK(c, n), n # 0,
         Lacks(ChainedBelow(c, n), e.key)
  PROVE  /\ ChainsOK(FrontedIn(c, n, e), n)
         /\ ChainedBelow(FrontedIn(c, n, e), n) = With(ChainedBelow(c, n), e)
<1>1. PICK b \in 0 .. n - 1 : b = Hash[e.key] % n
  BY EntryIs, HashIn DEF ChainsOK
<1> DEFINE s == c[b]
           u == <<e>> \o s
<1>2. Keyed(s) /\ \A f \in Links(s) : Hash[f.key] % n = b
  BY DEF ChainsOK
<1>3. Lacks(Links(s), e.key)
  BY DEF Lacks, ChainedBelow, Links
<1>4. Keyed(u) /\ Links(u) = With(Links(s), e)
  BY <1>2, <1>3, FrontLinked
<1>5. \A f \in Links(u) : Hash[f.key] % n = b
  BY <1>1, <1>2, <1>4 DEF With
<1> HIDE DEF u
<1>6. /\ ChainsOK([c EXCEPT ![b] = u], n)
      /\ \A f : f \in ChainedBelow([c EXCEPT ![b] = u], n)
                  <=> \/ f \in Links(u)
                      \/ f \in ChainedBelow(c, n) /\ f \notin Links(c[b])
  BY <1>4, <1>5, ChainTaken
<1>7. FrontedIn(c, n, e) = [c EXCEPT ![b] = u]
  BY <1>1 DEF FrontedIn, u
<1>8. \A f \in Links(s) : f \in ChainedBelow(c, n)
  BY DEF ChainedBelow, Links
<1>9. ChainedBelow([c EXCEPT ![b] = u], n) = With(ChainedBelow(c, n), e)
  BY <1>4, <1>6, <1>8 DEF With
<1> QED BY <1>6, <1>7, <1>9

\* Entry f is at place i of chain b.
HasAt(c, b, i, f) == i \in 1 .. Len(c[b]) /\ c[b][i] = f

\* A new value for a known key, at place i of chain b.
ChangedAt(c, b, i, e) == [c EXCEPT ![b] = [c[b] EXCEPT ![i] = e]]

LEMMA ChainChange ==
  ASSUME NEW c, NEW n, NEW b \in 0 .. n - 1, NEW e \in Entry, NEW i, NEW f, ChainsOK(c, n),
         HasAt(c, b, i, f), f.key = e.key
  PROVE  /\ ChainsOK(ChangedAt(c, b, i, e), n)
         /\ f \in ChainedBelow(c, n)
         /\ ChainedBelow(ChangedAt(c, b, i, e), n)
              = With(Without(ChainedBelow(c, n), f), e)
<1> DEFINE s == c[b]
           u == [s EXCEPT ![i] = e]
<1>1. i \in 1 .. Len(s) /\ s[i] = f
  BY DEF HasAt
<1>2. Keyed(s) /\ \A g \in Links(s) : Hash[g.key] % n = b
  BY DEF ChainsOK
<1>3. f \in Links(s) /\ f \in Entry /\ f.key = e.key
  BY <1>1, <1>2, LinkIs
<1>4. Keyed(u) /\ Links(u) = With(Without(Links(s), f), e)
  BY <1>1, <1>2, LinkChanged
<1>5. \A g \in Links(u) : Hash[g.key] % n = b
  BY <1>2, <1>3, <1>4 DEF With, Without
<1>6. \A g \in Links(s) : g \in ChainedBelow(c, n)
  BY DEF ChainedBelow, Links
<1> HIDE DEF u
<1>7. /\ ChainsOK([c EXCEPT ![b] = u], n)
      /\ \A g : g \in ChainedBelow([c EXCEPT ![b] = u], n)
                  <=> \/ g \in Links(u)
                      \/ g \in ChainedBelow(c, n) /\ g \notin Links(c[b])
  BY <1>4, <1>5, ChainTaken
<1>8. ChainedBelow([c EXCEPT ![b] = u], n) = With(Without(ChainedBelow(c, n), f), e)
  BY <1>3, <1>4, <1>6, <1>7 DEF With, Without
<1> QED BY <1>3, <1>6, <1>7, <1>8 DEF u, ChangedAt

\* Place i of chain b taken out.
CutAt(c, b, i) == [c EXCEPT ![b] = Cut(c[b], i)]

LEMMA ChainCut ==
  ASSUME NEW c, NEW n, NEW b \in 0 .. n - 1, ChainsOK(c, n),
         NEW i \in 1 .. Len(c[b])
  PROVE  /\ ChainsOK(CutAt(c, b, i), n)
         /\ c[b][i] \in ChainedBelow(c, n)
         /\ ChainedBelow(CutAt(c, b, i), n)
              = Without(ChainedBelow(c, n), c[b][i])
<1> DEFINE s == c[b]
           f == s[i]
           u == Cut(s, i)
<1>1. Keyed(s) /\ \A g \in Links(s) : Hash[g.key] % n = b
  BY DEF ChainsOK
<1>2. f \in Links(s) /\ f \in Entry
  BY <1>1, LinkIs
<1>3. Keyed(u) /\ Links(u) = Without(Links(s), f)
  BY <1>1, LinkCut
<1>4. \A g \in Links(u) : Hash[g.key] % n = b
  BY <1>1, <1>2, <1>3 DEF With, Without
<1>5. \A g \in Links(s) : g \in ChainedBelow(c, n)
  BY DEF ChainedBelow, Links
<1> HIDE DEF u
<1>6. /\ ChainsOK([c EXCEPT ![b] = u], n)
      /\ \A g : g \in ChainedBelow([c EXCEPT ![b] = u], n)
                  <=> \/ g \in Links(u)
                      \/ g \in ChainedBelow(c, n) /\ g \notin Links(c[b])
  BY <1>3, <1>4, ChainTaken
<1> HIDE DEF f
<1>7. ChainedBelow([c EXCEPT ![b] = u], n) = Without(ChainedBelow(c, n), f)
  BY <1>2, <1>3, <1>5, <1>6 DEF Without
<1> QED BY <1>2, <1>5, <1>6, <1>7 DEF f, u, CutAt

-----------------------------------------------------------------------------
(* Searching chains                                                        *)

\* What Scan of both maps computes.
Found(s, k) ==
  LET hits == {i \in DOMAIN s : s[i].key = k}
  IN  IF hits = {} THEN -1 ELSE Least(hits)

LEMMA SameScan ==
  ASSUME NEW s, NEW k
  PROVE  /\ M!Scan(s, k) = Found(s, k) /\ X!Scan(s, k) = Found(s, k)
         /\ M!End = -1 /\ X!End = -1
BY DEF M!Scan, X!Scan, M!Least, X!Least, Least, M!End, X!End, Found

LEMMA FoundIs ==
  ASSUME NEW s, NEW k, Keyed(s)
  PROVE  \/ Found(s, k) = -1 /\ Lacks(Links(s), k)
         \/ /\ Found(s, k) \in 1 .. Len(s) /\ Found(s, k) # -1
            /\ s[Found(s, k)].key = k
<1> DEFINE hits == {i \in DOMAIN s : s[i].key = k}
<1>1. DOMAIN s = 1 .. Len(s) /\ Len(s) \in Nat
  BY DEF Keyed
<1>2. Found(s, k) = IF hits = {} THEN -1 ELSE Least(hits)
  BY DEF Found
<1>3. CASE hits = {}
  BY <1>1, <1>2, <1>3 DEF Lacks, Links
<1>4. CASE hits # {}
  <2>1. hits \in SUBSET Nat
    BY <1>1
  <2>2. Least(hits) \in hits
    <3> HIDE DEF hits
    <3> QED BY <1>4, <2>1, LeastIsLeast
  <2>3. Least(hits) \in 1 .. Len(s) /\ s[Least(hits)].key = k
    BY <1>1, <2>2
  <2> QED BY <1>1, <1>2, <1>4, <2>3
<1> QED BY <1>3, <1>4

\* What a lookup shows in chains c of n buckets.
ShownIn(c, n) ==
  [k \in Keys |->
     IF n = 0 \/ Found(c[Hash[k] % n], k) = -1 THEN None
     ELSE c[Hash[k] % n][Found(c[Hash[k] % n], k)].val]

LEMMA ChainsShow ==
  ASSUME NEW c, NEW n, ChainsOK(c, n)
  PROVE  Shows(ShownIn(c, n), ChainedBelow(c, n))
<1>1. CASE n = 0
  <2>1. 0 .. n - 1 = {}
    BY <1>1
  <2>2. ChainedBelow(c, n) = {}
    BY <2>1 DEF ChainedBelow
  <2> QED BY <1>1, <2>2, NoneApart DEF Shows, ShownIn
<1>2. CASE n # 0
  <2>1. n \in Nat \ {0}
    BY <1>2 DEF ChainsOK
  <2>2. ASSUME NEW k \in Keys
        PROVE  /\ ShownIn(c, n)[k] \in Vals \cup {None}
               /\ \A v \in Vals : ShownIn(c, n)[k] = v
                                    <=> [key |-> k, val |-> v] \in ChainedBelow(c, n)
    <3>1. PICK b \in 0 .. n - 1 : b = Hash[k] % n
      BY <2>1, HashIn
    <3> DEFINE s == c[b]
               i == Found(s, k)
    <3>2. Keyed(s)
      BY DEF ChainsOK
    <3>3. ShownIn(c, n)[k] = IF i = -1 THEN None ELSE s[i].val
      BY <1>2, <3>1 DEF ShownIn
    <3>4. ASSUME NEW v \in Vals
          PROVE  [key |-> k, val |-> v] \in ChainedBelow(c, n)
                   <=> [key |-> k, val |-> v] \in Links(s)
      <4> DEFINE e == [key |-> k, val |-> v]
      <4>1. e \in Entry /\ e.key = k
        BY DEF Entry
      <4> HIDE DEF e
      <4>2. e \in ChainedBelow(c, n) => e \in Links(s)
        BY <3>1, <4>1, ChainOf
      <4>3. e \in Links(s) => e \in ChainedBelow(c, n)
        BY <4>1 DEF ChainedBelow
      <4> QED BY <4>2, <4>3 DEF e
    <3> HIDE DEF i
    <3>5. CASE i = -1 /\ Lacks(Links(s), k)
      <4>1. \A v \in Vals : [key |-> k, val |-> v] \notin Links(s)
        BY <3>5 DEF Lacks
      <4> QED BY <3>3, <3>4, <3>5, <4>1, NoneApart
    <3>6. CASE i \in 1 .. Len(s) /\ i # -1 /\ s[i].key = k
      <4>1. s[i] \in Entry /\ s[i] \in Links(s)
        BY <3>2, <3>6, LinkIs
      <4>2. s[i].val \in Vals /\ s[i] = [key |-> k, val |-> s[i].val]
        BY <3>6, <4>1, EntryIs
      <4>3. ASSUME NEW v \in Vals, [key |-> k, val |-> v] \in Links(s)
            PROVE  s[i].val = v
        <5>1. PICK j \in 1 .. Len(s) : s[j] = [key |-> k, val |-> v]
          BY <4>3 DEF Links
        <5>2. i = j
          BY <3>2, <3>6, <5>1 DEF Keyed
        <5> QED BY <5>1, <5>2
      <4> QED BY <3>3, <3>4, <3>6, <4>1, <4>2, <4>3
    <3> QED BY <3>2, <3>5, <3>6, FoundIs DEF i
  <2>3. ShownIn(c, n) = [k \in Keys |-> ShownIn(c, n)[k]]
    BY DEF ShownIn
  <2> QED BY <2>2, <2>3 DEF Shows
<1> QED BY <1>1, <1>2

-----------------------------------------------------------------------------
(* Moving entries, some at a time                                          *)

Apart(E, F) == \A e \in E, f \in F : e.key # f.key
Both(E, F) == E \cup F

\* The parts up to the n-th.
Parts(part, n) == {e \in Entry : \E i \in 1 .. n : e \in part[i]}


\* If each step takes in its part of the entries, m steps take in all parts.
LEMMA Absorbs ==
  ASSUME NEW m \in Nat, NEW good, NEW held, NEW part, 0 \in good,
         \A i \in 1 .. m :
           i - 1 \in good /\ Apart(held[i - 1], part[i])
             => i \in good /\ held[i] = Both(held[i - 1], part[i]),
         \A i \in 1 .. m : part[i] \subseteq Entry /\ Apart(held[0], part[i]),
         \A i, j \in 1 .. m : i # j => Apart(part[i], part[j])
  PROVE  m \in good /\ held[m] = Both(held[0], Parts(part, m))
<1> DEFINE Fine(n) == n \in good /\ held[n] = Both(held[0], Parts(part, n))
           Fines == {n \in Nat : n <= m => Fine(n)}
<1>1. 0 \in Fines
  <2>1. Parts(part, 0) = {}
    BY DEF Parts
  <2> QED BY <2>1 DEF Both
<1>2. ASSUME NEW n \in Nat, n \in Fines
      PROVE  n + 1 \in Fines
  <2> SUFFICES ASSUME n + 1 <= m
               PROVE  Fine(n + 1)
    OBVIOUS
  <2>1. n + 1 \in 1 .. m /\ (n + 1) - 1 = n /\ \A i \in 1 .. n : i \in 1 .. m /\ i # n + 1
    OBVIOUS
  <2>2. n \in good /\ held[n] = Both(held[0], Parts(part, n))
    BY <1>2, <2>1
  <2>3. Apart(Parts(part, n), part[n + 1])
    <3>1. \A i \in 1 .. n : Apart(part[i], part[n + 1])
      BY <2>1
    <3> QED BY <3>1 DEF Apart, Parts
  <2>4. Apart(held[n], part[n + 1])
    <3>1. Apart(held[0], part[n + 1])
      BY <2>1
    <3> QED BY <2>2, <2>3, <3>1 DEF Apart, Both
  <2>5. n + 1 \in good /\ held[n + 1] = Both(held[n], part[n + 1])
    BY <2>1, <2>2, <2>4
  <2>6. Parts(part, n + 1) = Both(Parts(part, n), part[n + 1])
    <3>1. \A i : i \in 1 .. n + 1 <=> i \in 1 .. n \/ i = n + 1
      OBVIOUS
    <3>2. part[n + 1] \subseteq Entry
      BY <2>1
    <3> QED BY <3>1, <3>2 DEF Parts, Both
  <2> QED BY <2>2, <2>5, <2>6 DEF Both
<1> HIDE DEF Fines
<1>3. m \in Fines
  BY <1>1, <1>2, SetInduction
<1> QED BY <1>3 DEF Fines

\* The entries of a chain, one at a time.
Single(s) == [i \in 1 .. Len(s) |-> {s[i]}]

LEMMA Singles ==
  ASSUME NEW s, Keyed(s)
  PROVE  /\ \A i \in 1 .. Len(s) : Single(s)[i] \subseteq Entry /\ Single(s)[i] = {s[i]}
         /\ \A i, j \in 1 .. Len(s) : i # j => Apart(Single(s)[i], Single(s)[j])
         /\ Parts(Single(s), Len(s)) = Links(s)
<1>1. \A i \in 1 .. Len(s) : s[i] \in Entry
  BY LinkIs
<1>2. \A i \in 1 .. Len(s) : Single(s)[i] = {s[i]}
  BY DEF Single
<1>3. \A i, j \in 1 .. Len(s) : i # j => Apart(Single(s)[i], Single(s)[j])
  BY <1>2 DEF Apart, Keyed
<1>4. Parts(Single(s), Len(s)) = Links(s)
  BY <1>2 DEF Parts, Links
<1> QED BY <1>1, <1>2, <1>3, <1>4

\* The chains of a table, one at a time.
Bucketwise(c, m) == [b \in 1 .. m |-> Links(c[b - 1])]

LEMMA Bucketwises ==
  ASSUME NEW c, NEW m, ChainsOK(c, m)
  PROVE  /\ \A b \in 1 .. m : /\ Bucketwise(c, m)[b] \subseteq Entry
                              /\ Bucketwise(c, m)[b] = Links(c[b - 1])
                              /\ Keyed(c[b - 1])
         /\ \A a, b \in 1 .. m : a # b => Apart(Bucketwise(c, m)[a], Bucketwise(c, m)[b])
         /\ Parts(Bucketwise(c, m), m) = ChainedBelow(c, m)
<1>1. m \in Nat
  BY DEF ChainsOK
<1>2. \A b \in 1 .. m : Bucketwise(c, m)[b] = Links(c[b - 1]) /\ b - 1 \in 0 .. m - 1
  BY <1>1 DEF Bucketwise
<1>3. \A b \in 1 .. m : Links(c[b - 1]) \subseteq Entry /\ Keyed(c[b - 1])
  BY <1>2 DEF Links, ChainsOK
<1>4. ASSUME NEW a \in 1 .. m, NEW b \in 1 .. m, a # b
      PROVE  Apart(Bucketwise(c, m)[a], Bucketwise(c, m)[b])
  <2>1. \A e \in Links(c[a - 1]) : Hash[e.key] % m = a - 1
    BY <1>2 DEF ChainsOK
  <2>2. \A e \in Links(c[b - 1]) : Hash[e.key] % m = b - 1
    BY <1>2 DEF ChainsOK
  <2>3. a - 1 # b - 1
    BY <1>1, <1>4
  <2>4. ASSUME NEW e \in Links(c[a - 1]), NEW f \in Links(c[b - 1])
        PROVE  e.key # f.key
    BY <2>1, <2>2, <2>3
  <2> QED BY <1>2, <2>4 DEF Apart
<1>5. Parts(Bucketwise(c, m), m) = ChainedBelow(c, m)
  <2>1. ASSUME NEW e \in Entry
        PROVE  (\E i \in 1 .. m : e \in Bucketwise(c, m)[i])
                 <=> (\E b \in 0 .. m - 1 : e \in Links(c[b]))
    <3>1. ASSUME NEW b \in 0 .. m - 1, e \in Links(c[b])
          PROVE  \E i \in 1 .. m : e \in Bucketwise(c, m)[i]
      <4>1. b + 1 \in 1 .. m /\ (b + 1) - 1 = b
        BY <1>1
      <4>2. e \in Bucketwise(c, m)[b + 1]
        BY <1>2, <3>1, <4>1
      <4> QED BY <4>1, <4>2
    <3>2. ASSUME NEW i \in 1 .. m, e \in Bucketwise(c, m)[i]
          PROVE  \E b \in 0 .. m - 1 : e \in Links(c[b])
      BY <1>2, <3>2
    <3> QED BY <3>1, <3>2
  <2> QED BY <2>1 DEF Parts, ChainedBelow
<1> QED BY <1>2, <1>3, <1>4, <1>5

\* What each step keeps is there after all steps.
LEMMA StepsStay ==
  ASSUME NEW S, NEW m \in Nat, NEW h, h[0] \in S,
         \A i \in 1 .. m : h[i - 1] \in S => h[i] \in S
  PROVE  \A i \in 0 .. m : h[i] \in S
<1> DEFINE Fines == {i \in Nat : i <= m => h[i] \in S}
<1>1. 0 \in Fines
  OBVIOUS
<1>2. ASSUME NEW i \in Nat, i \in Fines
      PROVE  i + 1 \in Fines
  <2> SUFFICES ASSUME i + 1 <= m
               PROVE  h[i + 1] \in S
    OBVIOUS
  <2>1. i + 1 \in 1 .. m /\ (i + 1) - 1 = i /\ h[i] \in S
    BY <1>2
  <2> QED BY <2>1
<1> HIDE DEF Fines
<1>3. Nat \subseteq Fines
  BY <1>1, <1>2, SetInduction
<1> QED BY <1>3 DEF Fines

-----------------------------------------------------------------------------
(* hash_map_ex: the rehash                                                 *)

\* Tables of n chains, whatever lies on them.
ChainTables(n) == [0 .. n - 1 -> Seq(Entry)]

LEMMA ExPushType ==
  ASSUME NEW n, NEW t \in ChainTables(n), NEW e \in Entry
  PROVE  X!push(t, e, n) \in ChainTables(n)
<1> DEFINE x == X!index_of(e.key, n)
           s == IF t[x] = <<>> THEN <<e>> ELSE <<e>> \o t[x]
<1>1. X!push(t, e, n) = [t EXCEPT ![x] = s]
  BY DEF X!push, X!push_first, X!push_front_fast
<1>2. t \in [0 .. n - 1 -> Seq(Entry)]
  BY DEF ChainTables
<1> HIDE DEF x
<1>3. x \in 0 .. n - 1 => s \in Seq(Entry)
  BY <1>2
<1> HIDE DEF s
<1> QED BY <1>1, <1>2, <1>3 DEF ChainTables

LEMMA ExPushed ==
  ASSUME NEW n, NEW t, NEW e \in Entry, ChainsOK(t, n), n # 0,
         Lacks(ChainedBelow(t, n), e.key)
  PROVE  /\ ChainsOK(X!push(t, e, n), n)
         /\ ChainedBelow(X!push(t, e, n), n) = With(ChainedBelow(t, n), e)
<1>1. PICK b \in 0 .. n - 1 : b = Hash[e.key] % n
  BY EntryIs, HashIn DEF ChainsOK
<1>2. X!push(t, e, n) = FrontedIn(t, n, e)
  <2>1. X!push(t, e, n) = [t EXCEPT ![b] = IF t[b] = <<>> THEN <<e>> ELSE <<e>> \o t[b]]
    BY <1>1 DEF X!push, X!push_first, X!push_front_fast, X!index_of
  <2>2. t[b] = <<>> => <<e>> \o t[b] = <<e>>
    OBVIOUS
  <2> QED BY <1>1, <2>1, <2>2 DEF FrontedIn
<1> QED BY <1>2, ChainPut

LEMMA ExEmptyIs ==
  ASSUME NEW n \in Nat
  PROVE  ChainsOK(X!Empty(n), n) /\ ChainedBelow(X!Empty(n), n) = {}
BY ChainsEmpty DEF X!Empty

LEMMA ExListMoves ==
  ASSUME NEW n, NEW t, NEW old, t \in ChainTables(n), old \in Seq(Entry)
  PROVE  /\ X!reinsert_list(t, n, old) \in ChainTables(n)
         /\ \E moved :
              /\ X!reinsert_list(t, n, old) = moved[Len(old)]
              /\ moved[0] = t
              /\ \A i \in 1 .. Len(old) : moved[i] = X!push(moved[i - 1], old[i], n)
<1> DEFINE m == Len(old)
           Walks(g) == g = [i \in 0 .. m |-> IF i = 0 THEN t
                                             ELSE X!push(g[i - 1], old[i], n)]
           moved == CHOOSE g : Walks(g)
           S == ChainTables(n)
           step == [i \in 1 .. m |-> [u \in S |-> X!push(u, old[i], n)]]
<1>1. X!reinsert_list(t, n, old) = moved[m]
  BY DEF X!reinsert_list
<1>2. m \in Nat /\ \A i \in 1 .. m : old[i] \in Entry
  OBVIOUS
<1>3. step \in [1 .. m -> [S -> S]]
  BY <1>2, ExPushType
<1>4. \A i \in 1 .. m, u \in S : step[i][u] = X!push(u, old[i], n)
  OBVIOUS
<1> HIDE DEF step, S, m
<1>5. PICK h \in [0 .. m -> S] : h[0] = t /\ \A i \in 1 .. m : h[i] = step[i][h[i - 1]]
  <2> DEFINE first == t
  <2>1. first \in S /\ m \in Nat
    BY <1>2 DEF S
  <2> HIDE DEF first
  <2>2. \E h \in [0 .. m -> S] :
          h[0] = first /\ \A i \in 1 .. m : h[i] = step[i][h[i - 1]]
    BY ONLY <1>3, <2>1, StepByStep
  <2> QED BY <2>2 DEF first
<1>6. Walks(h)
  <2>1. ASSUME NEW i \in 0 .. m, i # 0
        PROVE  h[i] = X!push(h[i - 1], old[i], n)
    <3>1. i \in 1 .. m /\ i - 1 \in 0 .. m
      BY <1>2, <2>1
    <3>2. h[i - 1] \in S
      BY <1>5, <3>1
    <3> QED BY <1>4, <1>5, <3>1, <3>2
  <2> QED BY <1>5, <2>1
<1>7. Walks(moved)
  <2> HIDE DEF Walks
  <2> QED BY <1>6
<1> HIDE DEF moved
<1>8. moved[0] = t /\ \A i \in 1 .. m : moved[i] = X!push(moved[i - 1], old[i], n)
  BY <1>2, <1>7
<1>9. moved[m] \in S
  <2>1. moved[0] \in S /\ \A i \in 1 .. m : moved[i - 1] \in S => moved[i] \in S
    BY <1>2, <1>8, ExPushType DEF S
  <2>2. \A i \in 0 .. m : moved[i] \in S
    BY ONLY <1>2, <2>1, StepsStay
  <2> QED BY <1>2, <2>2
<1> QED BY <1>1, <1>8, <1>9 DEF S, m

\* A chain whose keys are new moves as a whole.
LEMMA ExListMoved ==
  ASSUME NEW n, NEW t, NEW old, ChainsOK(t, n), n # 0, Keyed(old),
         Apart(ChainedBelow(t, n), Links(old))
  PROVE  /\ ChainsOK(X!reinsert_list(t, n, old), n)
         /\ ChainedBelow(X!reinsert_list(t, n, old), n)
              = Both(ChainedBelow(t, n), Links(old))
<1>1. t \in ChainTables(n) /\ old \in Seq(Entry)
  BY DEF ChainsOK, ChainTables, Keyed
<1>2. PICK moved :
        /\ X!reinsert_list(t, n, old) = moved[Len(old)]
        /\ moved[0] = t
        /\ \A i \in 1 .. Len(old) : moved[i] = X!push(moved[i - 1], old[i], n)
  BY <1>1, ExListMoves
<1> DEFINE m == Len(old)
           good == {i \in 0 .. m : ChainsOK(moved[i], n)}
           held == [i \in 0 .. m |-> ChainedBelow(moved[i], n)]
           part == Single(old)
<1>3. m \in Nat
  BY <1>1
<1>4. 0 \in good /\ held[0] = ChainedBelow(t, n)
  BY <1>2, <1>3
<1>5. \A i \in 1 .. m : /\ part[i] \subseteq Entry
                        /\ part[i] = {old[i]}
                        /\ old[i] \in Entry
                        /\ old[i] \in Links(old)
  BY Singles, LinkIs
<1>6. \A i, j \in 1 .. m : i # j => Apart(part[i], part[j])
  BY Singles
<1>7. Parts(part, m) = Links(old)
  BY Singles
<1> HIDE DEF part
<1>8. ASSUME NEW i \in 1 .. m, i - 1 \in good, Apart(held[i - 1], part[i])
      PROVE  i \in good /\ held[i] = Both(held[i - 1], part[i])
  <2>1. i \in 0 .. m /\ i - 1 \in 0 .. m
    BY <1>3
  <2>2. ChainsOK(moved[i - 1], n) /\ held[i - 1] = ChainedBelow(moved[i - 1], n)
    BY <1>8, <2>1
  <2>3. Lacks(ChainedBelow(moved[i - 1], n), old[i].key)
    BY <1>5, <1>8, <2>2 DEF Lacks, Apart
  <2>4. /\ ChainsOK(X!push(moved[i - 1], old[i], n), n)
        /\ ChainedBelow(X!push(moved[i - 1], old[i], n), n)
             = With(ChainedBelow(moved[i - 1], n), old[i])
    BY <1>5, <2>2, <2>3, ExPushed
  <2>5. /\ ChainsOK(moved[i], n)
        /\ ChainedBelow(moved[i], n) = With(ChainedBelow(moved[i - 1], n), old[i])
    BY <1>2, <2>4
  <2> QED BY <1>5, <2>1, <2>2, <2>5 DEF With, Both
<1>9. \A i \in 1 .. m : part[i] \subseteq Entry /\ Apart(held[0], part[i])
  BY <1>4, <1>5 DEF Apart
<1>10. \A i \in 1 .. m : i - 1 \in good /\ Apart(held[i - 1], part[i])
                          => i \in good /\ held[i] = Both(held[i - 1], part[i])
  BY <1>8
<1> HIDE DEF good, held, m
<1>11. m \in good /\ held[m] = Both(held[0], Parts(part, m))
  BY ONLY <1>3, <1>4, <1>6, <1>9, <1>10, Absorbs
<1>12. ChainsOK(moved[m], n) /\ held[m] = ChainedBelow(moved[m], n)
  BY <1>3, <1>11 DEF good, held
<1> QED BY <1>2, <1>4, <1>7, <1>11, <1>12 DEF m

LEMMA ExMoves ==
  ASSUME NEW m, NEW n \in Nat, ChainsOK(table, m)
  PROVE  \E moved :
           /\ X!Rehashed(n) = moved[m]
           /\ moved[0] = X!Empty(n)
           /\ \A b \in 1 .. m :
                moved[b] = X!reinsert_list(moved[b - 1], n, table[b - 1])
<1>1. m \in Nat /\ DOMAIN table = 0 .. m - 1
  BY DEF ChainsOK
<1>2. X!capacity = m
  BY <1>1, Buckets, SameCount DEF X!capacity
<1> DEFINE Walks(g) == g = [b \in 0 .. m |->
                              IF b = 0 THEN X!Empty(n)
                              ELSE X!reinsert_list(g[b - 1], n, table[b - 1])]
           moved == CHOOSE g : Walks(g)
           S == ChainTables(n)
           step == [b \in 1 .. m |->
                      [u \in S |-> X!reinsert_list(u, n, table[b - 1])]]
           first == X!Empty(n)
<1>3. X!Rehashed(n) = moved[m]
  BY <1>2 DEF X!Rehashed
<1>4. \A b \in 1 .. m : table[b - 1] \in Seq(Entry)
  <2> SUFFICES ASSUME NEW b \in 1 .. m
               PROVE  table[b - 1] \in Seq(Entry)
    OBVIOUS
  <2>1. b - 1 \in 0 .. m - 1
    BY <1>1
  <2> QED BY <2>1 DEF ChainsOK
<1>5. step \in [1 .. m -> [S -> S]]
  BY <1>4, ExListMoves
<1>6. \A b \in 1 .. m, u \in S :
        step[b][u] = X!reinsert_list(u, n, table[b - 1])
  OBVIOUS
<1>7. first \in S
  BY DEF X!Empty, ChainTables
<1> HIDE DEF step, S, first
<1>8. PICK h \in [0 .. m -> S] : h[0] = first /\ \A i \in 1 .. m : h[i] = step[i][h[i - 1]]
  BY ONLY <1>1, <1>5, <1>7, StepByStep, SMTT(20)
<1>9. Walks(h)
  <2>1. ASSUME NEW b \in 0 .. m, b # 0
        PROVE  h[b] = X!reinsert_list(h[b - 1], n, table[b - 1])
    <3>1. b \in 1 .. m /\ b - 1 \in 0 .. m
      BY <1>1, <2>1
    <3>2. h[b - 1] \in S
      BY <1>8, <3>1
    <3> QED BY <1>6, <1>8, <3>1, <3>2
  <2> QED BY <1>8, <2>1 DEF first
<1>10. Walks(moved)
  <2> HIDE DEF Walks
  <2> QED BY <1>9
<1> HIDE DEF moved
<1>11. /\ moved[0] = X!Empty(n)
       /\ \A b \in 1 .. m :
            moved[b] = X!reinsert_list(moved[b - 1], n, table[b - 1])
  BY <1>1, <1>10
<1> QED BY <1>3, <1>11

\* The rehash moves every entry.
LEMMA ExRehashed ==
  ASSUME NEW m, NEW n \in Nat \ {0}, ChainsOK(table, m)
  PROVE  /\ ChainsOK(X!Rehashed(n), n)
         /\ ChainedBelow(X!Rehashed(n), n) = ChainedBelow(table, m)
<1>1. PICK moved :
        /\ X!Rehashed(n) = moved[m]
        /\ moved[0] = X!Empty(n)
        /\ \A b \in 1 .. m :
             moved[b] = X!reinsert_list(moved[b - 1], n, table[b - 1])
  BY ExMoves
<1> DEFINE good == {b \in 0 .. m : ChainsOK(moved[b], n)}
           held == [b \in 0 .. m |-> ChainedBelow(moved[b], n)]
           c == table
           part == Bucketwise(c, m)
<1>2. m \in Nat /\ ChainsOK(c, m) /\ ChainedBelow(table, m) = ChainedBelow(c, m)
  BY DEF ChainsOK
<1>3. 0 \in good /\ held[0] = {}
  BY <1>1, <1>2, ExEmptyIs
<1>4. \A b \in 1 .. m : /\ part[b] \subseteq Entry
                        /\ part[b] = Links(table[b - 1])
                        /\ Keyed(table[b - 1])
  <2>1. \A b \in 1 .. m : c[b - 1] = table[b - 1]
    BY <1>2
  <2> HIDE DEF c
  <2> QED BY <1>2, <2>1, Bucketwises
<1>5. \A a, b \in 1 .. m : a # b => Apart(part[a], part[b])
  BY <1>2, Bucketwises
<1>6. Parts(part, m) = ChainedBelow(c, m)
  BY <1>2, Bucketwises
<1> HIDE DEF part, c
<1>7. ASSUME NEW b \in 1 .. m, b - 1 \in good, Apart(held[b - 1], part[b])
      PROVE  b \in good /\ held[b] = Both(held[b - 1], part[b])
  <2>1. b \in 0 .. m /\ b - 1 \in 0 .. m
    BY <1>2
  <2>2. ChainsOK(moved[b - 1], n) /\ held[b - 1] = ChainedBelow(moved[b - 1], n)
    BY <1>7, <2>1
  <2>3. part[b] = Links(table[b - 1]) /\ Keyed(table[b - 1])
    BY <1>4
  <2> DEFINE old == table[b - 1]
  <2>4. Apart(ChainedBelow(moved[b - 1], n), Links(old))
    BY <1>7, <2>2, <2>3
  <2> HIDE DEF old
  <2>5. /\ ChainsOK(X!reinsert_list(moved[b - 1], n, old), n)
        /\ ChainedBelow(X!reinsert_list(moved[b - 1], n, old), n)
             = Both(ChainedBelow(moved[b - 1], n), Links(old))
    BY <2>2, <2>3, <2>4, ExListMoved DEF old
  <2>6. moved[b] = X!reinsert_list(moved[b - 1], n, old)
    BY <1>1 DEF old
  <2>7. ChainsOK(moved[b], n) /\ ChainedBelow(moved[b], n) = Both(held[b - 1], part[b])
    BY <2>2, <2>3, <2>5, <2>6 DEF old
  <2> QED BY <2>1, <2>7
<1>8. \A b \in 1 .. m : b - 1 \in good /\ Apart(held[b - 1], part[b])
                          => b \in good /\ held[b] = Both(held[b - 1], part[b])
  BY <1>7
<1>9. \A b \in 1 .. m : part[b] \subseteq Entry /\ Apart(held[0], part[b])
  BY <1>3, <1>4 DEF Apart
<1> HIDE DEF good, held
<1>10. m \in good /\ held[m] = Both(held[0], Parts(part, m))
  <2>1. m \in Nat /\ 0 \in good
    BY <1>2, <1>3
  <2> QED BY ONLY <1>5, <1>8, <1>9, <2>1, Absorbs
<1>11. ChainsOK(moved[m], n) /\ held[m] = ChainedBelow(moved[m], n)
  BY <1>2, <1>10 DEF good, held
<1> QED BY <1>1, <1>2, <1>3, <1>6, <1>10, <1>11 DEF Both

-----------------------------------------------------------------------------
(* hash_map: lists, and the rehash                                         *)

\* Tables of n lists, whatever lies on them.
ListTables(n) == [0 .. n - 1 -> [chain : Seq(Entry), size : Int]]

\* The chains of its lists.
ChainsIn(t, n) == [b \in 0 .. n - 1 |-> t[b].chain]
ListedBelow(t, n) == ChainedBelow(ChainsIn(t, n), n)

\* Each list counts its entries.
ListsOK(t, n) ==
  /\ t \in ListTables(n)
  /\ \A b \in 0 .. n - 1 : t[b] = M!NoList \/ t[b].size = Len(t[b].chain)
  /\ ChainsOK(ChainsIn(t, n), n)

LEMMA NoListIs == M!NoList = [chain |-> <<>>, size |-> -1]
BY DEF M!NoList

LEMMA MapEmptyIs ==
  ASSUME NEW n \in Nat
  PROVE  ListsOK(M!Empty(n), n) /\ ListedBelow(M!Empty(n), n) = {}
<1>1. M!Empty(n) \in ListTables(n)
  BY NoListIs DEF M!Empty, ListTables
<1>2. ChainsIn(M!Empty(n), n) = [b \in 0 .. n - 1 |-> <<>>]
  BY NoListIs DEF M!Empty, ChainsIn
<1>3. \A b \in 0 .. n - 1 : M!Empty(n)[b] = M!NoList
  BY DEF M!Empty
<1> QED BY <1>1, <1>2, <1>3, ChainsEmpty DEF ListsOK, ListedBelow

LEMMA MapPushType ==
  ASSUME NEW n, NEW t \in ListTables(n), NEW e \in Entry
  PROVE  M!push(t, e, n) \in ListTables(n)
<1> DEFINE x == M!index_of(e.key, n)
           L == [chain : Seq(Entry), size : Int]
           l == IF t[x] = M!NoList THEN M!new_list(e) ELSE M!push_front_fast(t[x], e)
<1>1. M!push(t, e, n) = [t EXCEPT ![x] = l]
  BY DEF M!push
<1>2. t \in [0 .. n - 1 -> L]
  BY DEF ListTables
<1> HIDE DEF x
<1>3. x \in 0 .. n - 1 => l \in L
  BY <1>2 DEF M!new_list, M!push_front_fast
<1> HIDE DEF l, L
<1>4. [t EXCEPT ![x] = l] \in [0 .. n - 1 -> L]
  BY <1>2, <1>3
<1> QED BY <1>1, <1>4 DEF ListTables, L

\* One list in place of another.
ListOf(s) == [chain |-> s, size |-> Len(s)]
PutList(t, b, s) == [t EXCEPT ![b] = ListOf(s)]
PutChain(c, b, s) == [c EXCEPT ![b] = s]

LEMMA ListTaken ==
  ASSUME NEW t, NEW n, NEW b \in 0 .. n - 1, NEW s, s \in Seq(Entry), ListsOK(t, n),
         ChainsOK(PutChain(ChainsIn(t, n), b, s), n)
  PROVE  /\ ListsOK(PutList(t, b, s), n)
         /\ ListedBelow(PutList(t, b, s), n)
              = ChainedBelow(PutChain(ChainsIn(t, n), b, s), n)
<1> DEFINE u == PutList(t, b, s)
           l == ListOf(s)
<1>1. l \in [chain : Seq(Entry), size : Int] /\ l.chain = s /\ l.size = Len(s)
  BY DEF ListOf
<1> HIDE DEF l
<1>2. u \in ListTables(n) /\ u[b] = l /\ \A x \in 0 .. n - 1 : x # b => u[x] = t[x]
  BY <1>1 DEF ListsOK, ListTables, PutList, l
<1> HIDE DEF u
<1>3. ChainsIn(u, n) = PutChain(ChainsIn(t, n), b, s)
  BY <1>1, <1>2 DEF ChainsIn, PutChain
<1>4. \A x \in 0 .. n - 1 : u[x] = M!NoList \/ u[x].size = Len(u[x].chain)
  BY <1>1, <1>2 DEF ListsOK
<1> QED BY <1>2, <1>3, <1>4 DEF ListsOK, ListedBelow, u

LEMMA MapPushed ==
  ASSUME NEW n, NEW t, NEW e \in Entry, ListsOK(t, n), n # 0,
         Lacks(ListedBelow(t, n), e.key)
  PROVE  /\ ListsOK(M!push(t, e, n), n)
         /\ ListedBelow(M!push(t, e, n), n) = With(ListedBelow(t, n), e)
<1> DEFINE c == ChainsIn(t, n)
<1>1. ChainsOK(c, n) /\ Lacks(ChainedBelow(c, n), e.key)
  BY DEF ListsOK, ListedBelow
<1>2. PICK b \in 0 .. n - 1 : b = Hash[e.key] % n
  BY <1>1, EntryIs, HashIn DEF ChainsOK
<1> DEFINE s == <<e>> \o t[b].chain
           l == [chain |-> s, size |-> Len(s)]
<1>3. t[b] \in [chain : Seq(Entry), size : Int]
  BY DEF ListsOK, ListTables
<1>4. s \in Seq(Entry) /\ Len(s) = Len(t[b].chain) + 1
  BY <1>3
<1>5. M!push(t, e, n) = [t EXCEPT ![b] = l]
  <2>1. M!push(t, e, n) = [t EXCEPT ![b] = IF t[b] = M!NoList THEN M!new_list(e)
                                           ELSE M!push_front_fast(t[b], e)]
    BY <1>2 DEF M!push, M!index_of
  <2>2. CASE t[b] = M!NoList
    <3>1. t[b].chain = <<>>
      BY <2>2, NoListIs
    <3>2. M!new_list(e) = [chain |-> <<e>>, size |-> 1]
      BY DEF M!new_list
    <3>3. s = <<e>> /\ Len(s) = 1
      BY <3>1
    <3> QED BY <2>1, <2>2, <3>2, <3>3
  <2>3. CASE t[b] # M!NoList
    <3>1. t[b].size = Len(t[b].chain)
      BY <2>3 DEF ListsOK
    <3>2. M!push_front_fast(t[b], e) = l
      BY <1>4, <3>1 DEF M!push_front_fast
    <3> QED BY <2>1, <2>3, <3>2
  <2> QED BY <2>2, <2>3
<1>6. FrontedIn(c, n, e) = PutChain(c, b, s)
  BY <1>2 DEF FrontedIn, ChainsIn, PutChain
<1>7. /\ ChainsOK(FrontedIn(c, n, e), n)
      /\ ChainedBelow(FrontedIn(c, n, e), n) = With(ChainedBelow(c, n), e)
  <2> HIDE DEF c
  <2> QED BY <1>1, <1>2, ChainPut
<1> HIDE DEF s
<1>8. /\ ListsOK(PutList(t, b, s), n)
      /\ ListedBelow(PutList(t, b, s), n) = ChainedBelow(FrontedIn(c, n, e), n)
  BY <1>4, <1>6, <1>7, ListTaken
<1>9. M!push(t, e, n) = PutList(t, b, s)
  BY <1>5 DEF PutList, ListOf
<1> QED BY <1>7, <1>8, <1>9 DEF ListedBelow

LEMMA MapListMoves ==
  ASSUME NEW n, NEW t, NEW old, t \in ListTables(n), old \in Seq(Entry)
  PROVE  /\ M!reinsert_list(t, n, old) \in ListTables(n)
         /\ \E moved :
              /\ M!reinsert_list(t, n, old) = moved[Len(old)]
              /\ moved[0] = t
              /\ \A i \in 1 .. Len(old) : moved[i] = M!push(moved[i - 1], old[i], n)
<1> DEFINE m == Len(old)
           Walks(g) == g = [i \in 0 .. m |-> IF i = 0 THEN t
                                             ELSE M!push(g[i - 1], old[i], n)]
           moved == CHOOSE g : Walks(g)
           S == ListTables(n)
           step == [i \in 1 .. m |-> [u \in S |-> M!push(u, old[i], n)]]
<1>1. M!reinsert_list(t, n, old) = moved[m]
  BY DEF M!reinsert_list
<1>2. m \in Nat /\ \A i \in 1 .. m : old[i] \in Entry
  OBVIOUS
<1>3. step \in [1 .. m -> [S -> S]]
  BY <1>2, MapPushType
<1>4. \A i \in 1 .. m, u \in S : step[i][u] = M!push(u, old[i], n)
  OBVIOUS
<1> HIDE DEF step, S, m
<1>5. PICK h \in [0 .. m -> S] : h[0] = t /\ \A i \in 1 .. m : h[i] = step[i][h[i - 1]]
  <2> DEFINE first == t
  <2>1. first \in S /\ m \in Nat
    BY <1>2 DEF S
  <2> HIDE DEF first
  <2>2. \E h \in [0 .. m -> S] :
          h[0] = first /\ \A i \in 1 .. m : h[i] = step[i][h[i - 1]]
    BY ONLY <1>3, <2>1, StepByStep
  <2> QED BY <2>2 DEF first
<1>6. Walks(h)
  <2>1. ASSUME NEW i \in 0 .. m, i # 0
        PROVE  h[i] = M!push(h[i - 1], old[i], n)
    <3>1. i \in 1 .. m /\ i - 1 \in 0 .. m
      BY <1>2, <2>1
    <3>2. h[i - 1] \in S
      BY <1>5, <3>1
    <3> QED BY <1>4, <1>5, <3>1, <3>2
  <2> QED BY <1>5, <2>1
<1>7. Walks(moved)
  <2> HIDE DEF Walks
  <2> QED BY <1>6
<1> HIDE DEF moved
<1>8. moved[0] = t /\ \A i \in 1 .. m : moved[i] = M!push(moved[i - 1], old[i], n)
  BY <1>2, <1>7
<1>9. moved[m] \in S
  <2>1. moved[0] \in S /\ \A i \in 1 .. m : moved[i - 1] \in S => moved[i] \in S
    BY <1>2, <1>8, MapPushType DEF S
  <2>2. \A i \in 0 .. m : moved[i] \in S
    BY ONLY <1>2, <2>1, StepsStay
  <2> QED BY <1>2, <2>2
<1> QED BY <1>1, <1>8, <1>9 DEF S, m

\* A chain whose keys are new moves as a whole.
LEMMA MapListMoved ==
  ASSUME NEW n, NEW t, NEW old, ListsOK(t, n), n # 0, Keyed(old),
         Apart(ListedBelow(t, n), Links(old))
  PROVE  /\ ListsOK(M!reinsert_list(t, n, old), n)
         /\ ListedBelow(M!reinsert_list(t, n, old), n)
              = Both(ListedBelow(t, n), Links(old))
<1>1. t \in ListTables(n) /\ old \in Seq(Entry)
  BY DEF ListsOK, ChainsOK, ListTables, Keyed
<1>2. PICK moved :
        /\ M!reinsert_list(t, n, old) = moved[Len(old)]
        /\ moved[0] = t
        /\ \A i \in 1 .. Len(old) : moved[i] = M!push(moved[i - 1], old[i], n)
  BY <1>1, MapListMoves
<1> DEFINE m == Len(old)
           good == {i \in 0 .. m : ListsOK(moved[i], n)}
           held == [i \in 0 .. m |-> ListedBelow(moved[i], n)]
           part == Single(old)
<1>3. m \in Nat
  BY <1>1
<1>4. 0 \in good /\ held[0] = ListedBelow(t, n)
  BY <1>2, <1>3
<1>5. \A i \in 1 .. m : /\ part[i] \subseteq Entry
                        /\ part[i] = {old[i]}
                        /\ old[i] \in Entry
                        /\ old[i] \in Links(old)
  BY Singles, LinkIs
<1>6. \A i, j \in 1 .. m : i # j => Apart(part[i], part[j])
  BY Singles
<1>7. Parts(part, m) = Links(old)
  BY Singles
<1> HIDE DEF part
<1>8. ASSUME NEW i \in 1 .. m, i - 1 \in good, Apart(held[i - 1], part[i])
      PROVE  i \in good /\ held[i] = Both(held[i - 1], part[i])
  <2>1. i \in 0 .. m /\ i - 1 \in 0 .. m
    BY <1>3
  <2>2. ListsOK(moved[i - 1], n) /\ held[i - 1] = ListedBelow(moved[i - 1], n)
    BY <1>8, <2>1
  <2>3. Lacks(ListedBelow(moved[i - 1], n), old[i].key)
    BY <1>5, <1>8, <2>2 DEF Lacks, Apart
  <2>4. /\ ListsOK(M!push(moved[i - 1], old[i], n), n)
        /\ ListedBelow(M!push(moved[i - 1], old[i], n), n)
             = With(ListedBelow(moved[i - 1], n), old[i])
    BY <1>5, <2>2, <2>3, MapPushed
  <2>5. /\ ListsOK(moved[i], n)
        /\ ListedBelow(moved[i], n) = With(ListedBelow(moved[i - 1], n), old[i])
    BY <1>2, <2>4
  <2> QED BY <1>5, <2>1, <2>2, <2>5 DEF With, Both
<1>9. \A i \in 1 .. m : part[i] \subseteq Entry /\ Apart(held[0], part[i])
  BY <1>4, <1>5 DEF Apart
<1>10. \A i \in 1 .. m : i - 1 \in good /\ Apart(held[i - 1], part[i])
                          => i \in good /\ held[i] = Both(held[i - 1], part[i])
  BY <1>8
<1> HIDE DEF good, held, m
<1>11. m \in good /\ held[m] = Both(held[0], Parts(part, m))
  BY ONLY <1>3, <1>4, <1>6, <1>9, <1>10, Absorbs
<1>12. ListsOK(moved[m], n) /\ held[m] = ListedBelow(moved[m], n)
  BY <1>3, <1>11 DEF good, held
<1> QED BY <1>2, <1>4, <1>7, <1>11, <1>12 DEF m

LEMMA MapMoves ==
  ASSUME NEW m, NEW n \in Nat, ListsOK(table, m)
  PROVE  \E moved :
           /\ M!Rehashed(n) = moved[m]
           /\ moved[0] = M!Empty(n)
           /\ \A b \in 1 .. m :
                moved[b] = M!reinsert_list(moved[b - 1], n, table[b - 1].chain)
<1>1. m \in Nat /\ DOMAIN table = 0 .. m - 1
  BY DEF ListsOK, ChainsOK, ListTables
<1>2. M!capacity = m
  BY <1>1, Buckets, SameCount DEF M!capacity
<1> DEFINE Walks(g) == g = [b \in 0 .. m |->
                              IF b = 0 THEN M!Empty(n)
                              ELSE M!reinsert_list(g[b - 1], n, table[b - 1].chain)]
           moved == CHOOSE g : Walks(g)
           S == ListTables(n)
           step == [b \in 1 .. m |->
                      [u \in S |-> M!reinsert_list(u, n, table[b - 1].chain)]]
           first == M!Empty(n)
<1>3. M!Rehashed(n) = moved[m]
  BY <1>2 DEF M!Rehashed
<1>4. \A b \in 1 .. m : table[b - 1].chain \in Seq(Entry)
  <2> SUFFICES ASSUME NEW b \in 1 .. m
               PROVE  table[b - 1].chain \in Seq(Entry)
    OBVIOUS
  <2>1. b - 1 \in 0 .. m - 1
    BY <1>1
  <2> QED BY <2>1 DEF ListsOK, ChainsOK, ListTables
<1>5. step \in [1 .. m -> [S -> S]]
  BY <1>4, MapListMoves
<1>6. \A b \in 1 .. m, u \in S :
        step[b][u] = M!reinsert_list(u, n, table[b - 1].chain)
  OBVIOUS
<1>7. first \in S
  BY DEF M!Empty, ListTables, M!NoList
<1> HIDE DEF step, S, first
<1>8. PICK h \in [0 .. m -> S] : h[0] = first /\ \A i \in 1 .. m : h[i] = step[i][h[i - 1]]
  BY ONLY <1>1, <1>5, <1>7, StepByStep, SMTT(20)
<1>9. Walks(h)
  <2>1. ASSUME NEW b \in 0 .. m, b # 0
        PROVE  h[b] = M!reinsert_list(h[b - 1], n, table[b - 1].chain)
    <3>1. b \in 1 .. m /\ b - 1 \in 0 .. m
      BY <1>1, <2>1
    <3>2. h[b - 1] \in S
      BY <1>8, <3>1
    <3> QED BY <1>6, <1>8, <3>1, <3>2
  <2> QED BY <1>8, <2>1 DEF first
<1>10. Walks(moved)
  <2> HIDE DEF Walks
  <2> QED BY <1>9
<1> HIDE DEF moved
<1>11. /\ moved[0] = M!Empty(n)
       /\ \A b \in 1 .. m :
            moved[b] = M!reinsert_list(moved[b - 1], n, table[b - 1].chain)
  BY <1>1, <1>10
<1> QED BY <1>3, <1>11

\* The rehash moves every entry.
LEMMA MapRehashed ==
  ASSUME NEW m, NEW n \in Nat \ {0}, ListsOK(table, m)
  PROVE  /\ ListsOK(M!Rehashed(n), n)
         /\ ListedBelow(M!Rehashed(n), n) = ListedBelow(table, m)
<1>1. PICK moved :
        /\ M!Rehashed(n) = moved[m]
        /\ moved[0] = M!Empty(n)
        /\ \A b \in 1 .. m :
             moved[b] = M!reinsert_list(moved[b - 1], n, table[b - 1].chain)
  BY MapMoves
<1> DEFINE good == {b \in 0 .. m : ListsOK(moved[b], n)}
           held == [b \in 0 .. m |-> ListedBelow(moved[b], n)]
           c == ChainsIn(table, m)
           part == Bucketwise(c, m)
<1>2. m \in Nat /\ ChainsOK(c, m) /\ ListedBelow(table, m) = ChainedBelow(c, m)
  BY DEF ListsOK, ChainsOK, ListedBelow
<1>3. 0 \in good /\ held[0] = {}
  BY <1>1, <1>2, MapEmptyIs
<1>4. \A b \in 1 .. m : /\ part[b] \subseteq Entry
                        /\ part[b] = Links(table[b - 1].chain)
                        /\ Keyed(table[b - 1].chain)
  <2>1. \A b \in 1 .. m : c[b - 1] = table[b - 1].chain
    BY <1>2 DEF ChainsIn
  <2> HIDE DEF c
  <2> QED BY <1>2, <2>1, Bucketwises
<1>5. \A a, b \in 1 .. m : a # b => Apart(part[a], part[b])
  BY <1>2, Bucketwises
<1>6. Parts(part, m) = ChainedBelow(c, m)
  BY <1>2, Bucketwises
<1> HIDE DEF part, c
<1>7. ASSUME NEW b \in 1 .. m, b - 1 \in good, Apart(held[b - 1], part[b])
      PROVE  b \in good /\ held[b] = Both(held[b - 1], part[b])
  <2>1. b \in 0 .. m /\ b - 1 \in 0 .. m
    BY <1>2
  <2>2. ListsOK(moved[b - 1], n) /\ held[b - 1] = ListedBelow(moved[b - 1], n)
    BY <1>7, <2>1
  <2>3. part[b] = Links(table[b - 1].chain) /\ Keyed(table[b - 1].chain)
    BY <1>4
  <2> DEFINE old == table[b - 1].chain
  <2>4. Apart(ListedBelow(moved[b - 1], n), Links(old))
    BY <1>7, <2>2, <2>3
  <2> HIDE DEF old
  <2>5. /\ ListsOK(M!reinsert_list(moved[b - 1], n, old), n)
        /\ ListedBelow(M!reinsert_list(moved[b - 1], n, old), n)
             = Both(ListedBelow(moved[b - 1], n), Links(old))
    BY <2>2, <2>3, <2>4, MapListMoved DEF old
  <2>6. moved[b] = M!reinsert_list(moved[b - 1], n, old)
    BY <1>1 DEF old
  <2>7. ListsOK(moved[b], n) /\ ListedBelow(moved[b], n) = Both(held[b - 1], part[b])
    BY <2>2, <2>3, <2>5, <2>6 DEF old
  <2> QED BY <2>1, <2>7
<1>8. \A b \in 1 .. m : b - 1 \in good /\ Apart(held[b - 1], part[b])
                          => b \in good /\ held[b] = Both(held[b - 1], part[b])
  BY <1>7
<1>9. \A b \in 1 .. m : part[b] \subseteq Entry /\ Apart(held[0], part[b])
  BY <1>3, <1>4 DEF Apart
<1> HIDE DEF good, held
<1>10. m \in good /\ held[m] = Both(held[0], Parts(part, m))
  <2>1. m \in Nat /\ 0 \in good
    BY <1>2, <1>3
  <2> QED BY ONLY <1>5, <1>8, <1>9, <2>1, Absorbs
<1>11. ListsOK(moved[m], n) /\ held[m] = ListedBelow(moved[m], n)
  BY <1>2, <1>10 DEF good, held
<1> QED BY <1>1, <1>2, <1>3, <1>6, <1>10, <1>11 DEF Both

-----------------------------------------------------------------------------
(* The load of the two maps                                                *)

\* No caller of a constructor asks for more than the largest capacity.
Modest == \A r \in Requests : r <= kMaximumCapacity

\* What n buckets with s keys keep to.
Kept(n, s, poor) == Modest => n <= Largest /\ (poor \/ 4 * s <= 3 * n)

LEMMA KeptGrowing ==
  ASSUME NEW n \in Nat \ {0}, NEW s \in Nat, NEW poor, NEW grows \in BOOLEAN, NEW N,
         Kept(n, s, poor), N = IF grows THEN 2 * n ELSE n,
         grows => 2 * n <= GrowthBound,
         poor \/ (grows <=> s >= (n * 3) \div 4)
  PROVE  N \in Nat \ {0} /\ Kept(N, s, poor) /\ Kept(N, s + 1, poor)
<1>1. CASE grows
  <2>1. N = 2 * n /\ N \in Nat \ {0}
    BY <1>1
  <2>2. 2 * n <= GrowthBound /\ GrowthBound <= kMaximumCapacity
        /\ GrowthBound \in Nat /\ kMaximumCapacity \in Nat
    BY <1>1, HashMapsAssumption
  <2>3. N <= Largest
    BY <2>1, <2>2, LargestIs
  <2>4. 4 * s <= 3 * n => 4 * (s + 1) <= 3 * N /\ 4 * s <= 3 * N
    <3>1. CASE n = 1
      BY <2>1, <3>1
    <3>2. CASE n >= 2
      BY <2>1, <3>2
    <3> QED BY <3>1, <3>2
  <2> QED BY <2>1, <2>3, <2>4 DEF Kept
<1>2. CASE ~grows
  <2>1. N = n /\ (poor \/ s < (n * 3) \div 4)
    BY <1>2
  <2>2. 4 * ((n * 3) \div 4) <= n * 3 /\ (n * 3) \div 4 \in Nat
    OBVIOUS
  <2>3. poor \/ 4 * (s + 1) <= 3 * n
    BY <2>1, <2>2
  <2> QED BY <2>1, <2>3 DEF Kept
<1> QED BY <1>1, <1>2

LEMMA KeptRequested ==
  ASSUME NEW n \in Nat, NEW s \in Nat, NEW c, NEW poor, Kept(n, s, poor), Requested(c, s)
  PROVE  c \in Nat \ {0} /\ Kept(c, s, poor) /\ Kept(c, 0, poor)
<1>1. c \in Nat \ {0} /\ c <= Largest /\ (c >= 2 * s \/ c = Largest)
  BY DEF Requested
<1>2. 4 * s <= 3 * n /\ n <= Largest => 4 * s <= 3 * c
  BY <1>1, LargestIs
<1> QED BY <1>1, <1>2 DEF Kept

LEMMA KeptNone ==
  ASSUME NEW n \in Nat, NEW s, NEW poor, Kept(n, s, poor)
  PROVE  Kept(n, 0, poor)
BY DEF Kept

\* A new map has the capacity asked for, or none.
LEMMA KeptAtFirst ==
  ASSUME NEW r \in Requests, NEW poor
  PROVE  /\ round_up_pow2(r) \in Nat
         /\ Kept(round_up_pow2(r), 0, poor)
         /\ Kept(0, 0, poor)
<1>1. r \in Nat \ {0} /\ kMaximumCapacity \in Nat
  BY HashMapsAssumption
<1>2. round_up_pow2(r) \in Nat
  BY <1>1, RoundUpType
<1>3. Modest => round_up_pow2(r) <= Largest
  BY <1>1, RoundedInOrder DEF Modest, Largest
<1> QED BY <1>2, <1>3, LargestIs DEF Kept

-----------------------------------------------------------------------------
(* hash_map_ex: the calls *)

ExContents == [k \in Keys |-> X!Lookup(k)]
ExShown == \A n : ChainsOK(table, n) => Shows(ExContents, ChainedBelow(table, n))

LEMMA ExCapacity ==
  ASSUME NEW n, ChainsOK(table, n)
  PROVE  n \in Nat /\ X!capacity = n /\ DOMAIN table = 0 .. n - 1
<1>1. n \in Nat /\ DOMAIN table = 0 .. n - 1
  BY DEF ChainsOK
<1> QED BY <1>1, Buckets, SameCount DEF X!capacity

\* Where the search for a key looks, and what it finds.
LEMMA ExFinds ==
  ASSUME NEW k \in Keys, NEW n, ChainsOK(table, n), n # 0
  PROVE  /\ X!index_of(k, n) = Hash[k] % n
         /\ Hash[k] % n \in 0 .. n - 1
         /\ Keyed(table[Hash[k] % n])
         /\ X!find_internal(k) = Found(table[Hash[k] % n], k)
         /\ X!find_before(k) = Found(table[Hash[k] % n], k)
         /\ X!End = -1
<1>1. n \in Nat \ {0} /\ X!capacity = n
  BY ExCapacity
<1>2. Hash[k] % n \in 0 .. n - 1
  BY <1>1, HashIn
<1>3. Keyed(table[Hash[k] % n])
  BY <1>2 DEF ChainsOK
<1> QED BY <1>1, <1>2, <1>3, SameScan
     DEF X!index_of, X!find_internal, X!find_before

LEMMA ExShowsAlways == ExShown
<1> SUFFICES ASSUME NEW n, ChainsOK(table, n)
             PROVE  Shows(ExContents, ChainedBelow(table, n))
  BY DEF ExShown
<1> DEFINE c == table
<1>1. ChainsOK(c, n) /\ ChainedBelow(table, n) = ChainedBelow(c, n)
  BY DEF ChainsOK
<1>2. ASSUME NEW k \in Keys
      PROVE  X!Lookup(k) = ShownIn(c, n)[k]
  <2>1. CASE n = 0
    <3>1. X!capacity = 0
      BY <2>1, ExCapacity
    <3> QED BY <2>1, <3>1 DEF X!Lookup, X!find, ShownIn
  <2>2. CASE n # 0
    <3> DEFINE b == Hash[k] % n
               s == table[b]
    <3>1. /\ X!index_of(k, n) = b /\ b \in 0 .. n - 1
          /\ X!find_internal(k) = Found(s, k)
          /\ X!capacity = n /\ b # -1
          /\ X!End = -1 /\ X!Scan(s, k) = Found(s, k)
      BY <2>2, ExFinds, ExCapacity, SameScan
    <3>2. c[b] = s
      BY <3>1
    <3>3. X!Lookup(k) = IF Found(s, k) = -1 THEN None ELSE s[Found(s, k)].val
      BY <2>2, <3>1 DEF X!Lookup, X!find
    <3> HIDE DEF c, b
    <3> QED BY <2>2, <3>2, <3>3 DEF ShownIn, b
  <2> QED BY <2>1, <2>2
<1>3. ExContents = ShownIn(c, n)
  <2> HIDE DEF c
  <2>1. ExContents = [k \in Keys |-> ShownIn(c, n)[k]]
    BY <1>2 DEF ExContents
  <2>2. ShownIn(c, n) = [k \in Keys |-> ShownIn(c, n)[k]]
    BY DEF ShownIn
  <2> QED BY <2>1, <2>2
<1>4. Shows(ShownIn(c, n), ChainedBelow(c, n))
  <2> HIDE DEF c
  <2> QED BY <1>1, ChainsShow
<1> QED BY <1>1, <1>3, <1>4

\* n buckets hold `size` keys.
ExFilled(n) ==
  /\ ChainsOK(table, n)
  /\ Stock(ChainedBelow(table, n), size)
  /\ Kept(n, size, scarce)

ExSound == \E n : ExFilled(n)

LEMMA ExFilledIs ==
  ASSUME NEW n, ExFilled(n)
  PROVE  /\ n \in Nat /\ size \in Nat /\ X!capacity = n
         /\ ChainsOK(table, n) /\ Stock(ChainedBelow(table, n), size)
         /\ Kept(n, size, scarce)
         /\ Shows(ExContents, ChainedBelow(table, n))
BY StockCounts, ExCapacity, ExShowsAlways DEF ExFilled, ExShown

\* The three ways in which a call changes what is stored.
LEMMA ExMoved ==
  ASSUME NEW n, NEW N, ExFilled(n), ChainsOK(table', N), scarce' = scarce,
         Kept(N, size, scarce), ChainedBelow(table', N) = ChainedBelow(table, n), size' = size
  PROVE  ExSound' /\ ExContents' = ExContents
<1>1. Stock(ChainedBelow(table, n), size) /\ Shows(ExContents, ChainedBelow(table, n))
  BY ExFilledIs
<1>2. ExFilled(N)'
  BY <1>1 DEF ExFilled
<1>3. ExShown'
  BY ExShowsAlways, PTL
<1> DEFINE C == ExContents
           D == ExContents'
<1>4. Shows(C, ChainedBelow(table, n)) /\ Shows(D, ChainedBelow(table, n))
  BY <1>1, <1>3 DEF ExShown
<1>5. C = D
  <2> HIDE DEF C, D
  <2> QED BY <1>4, ShownSame
<1> QED BY <1>2, <1>5 DEF ExSound

LEMMA ExAdded ==
  ASSUME NEW n, NEW N, NEW e \in Entry, ExFilled(n), ChainsOK(table', N), scarce' = scarce,
         Kept(N, size + 1, scarce), Lacks(ChainedBelow(table, n), e.key),
         ChainedBelow(table', N) = With(ChainedBelow(table, n), e), size' = size + 1
  PROVE  /\ ExSound'
         /\ Puts(ExContents, ExContents', size, size', e.key, e.val)
<1>1. Stock(ChainedBelow(table, n), size) /\ Shows(ExContents, ChainedBelow(table, n))
  BY ExFilledIs
<1>2. Stock(ChainedBelow(table', N), size')
  BY <1>1, StockWith
<1>3. ExFilled(N)'
  BY <1>2 DEF ExFilled
<1>4. ExShown'
  BY ExShowsAlways, PTL
<1> DEFINE C == ExContents
           D == ExContents'
<1>5. Shows(C, ChainedBelow(table, n)) /\ Shows(D, With(ChainedBelow(table, n), e))
  BY <1>1, <1>4 DEF ExShown
<1>6. Puts(C, D, size, size + 1, e.key, e.val)
  <2> HIDE DEF C, D
  <2> QED BY <1>1, <1>5, ShownWith
<1> QED BY <1>3, <1>6 DEF ExSound

LEMMA ExChanged ==
  ASSUME NEW n, NEW e \in Entry, NEW f \in ChainedBelow(table, n), f.key = e.key,
         ExFilled(n), ChainsOK(table', n), scarce' = scarce,
         ChainedBelow(table', n) = With(Without(ChainedBelow(table, n), f), e), size' = size
  PROVE  /\ ExSound'
         /\ Puts(ExContents, ExContents', size, size', e.key, e.val)
<1>1. /\ Stock(ChainedBelow(table, n), size) /\ Shows(ExContents, ChainedBelow(table, n))
      /\ Kept(n, size, scarce)
  BY ExFilledIs
<1>2. ExShown'
  BY ExShowsAlways, PTL
<1> DEFINE C == ExContents
           D == ExContents'
           E == ChainedBelow(table, n)
<1>3. Shows(C, E) /\ Shows(D, With(Without(E, f), e)) /\ Stock(E, size) /\ f \in E
  BY <1>1, <1>2 DEF ExShown
<1>4. Puts(C, D, size, size, e.key, e.val) /\ Stock(With(Without(E, f), e), size)
  <2> HIDE DEF C, D, E
  <2> QED BY <1>3, ShownInstead
<1>5. ExFilled(n)'
  BY <1>1, <1>4 DEF ExFilled
<1> QED BY <1>4, <1>5 DEF ExSound

LEMMA ExRemoved ==
  ASSUME NEW n, NEW e \in ChainedBelow(table, n), ExFilled(n), ChainsOK(table', n),
         scarce' = scarce,
         ChainedBelow(table', n) = Without(ChainedBelow(table, n), e), size' = size - 1
  PROVE  /\ ExSound'
         /\ Drops(ExContents, ExContents', size, size', e.key)
<1>1. /\ Stock(ChainedBelow(table, n), size) /\ Shows(ExContents, ChainedBelow(table, n))
      /\ Kept(n, size, scarce) /\ size \in Nat /\ n \in Nat
  BY ExFilledIs
<1>2. ExShown'
  BY ExShowsAlways, PTL
<1> DEFINE C == ExContents
           D == ExContents'
           E == ChainedBelow(table, n)
<1>3. Shows(C, E) /\ Shows(D, Without(E, e)) /\ Stock(E, size) /\ e \in E
  BY <1>1, <1>2 DEF ExShown
<1>4. Drops(C, D, size, size - 1, e.key) /\ Stock(Without(E, e), size - 1)
  <2> HIDE DEF C, D, E
  <2> QED BY <1>3, ShownWithout, StockWithout
<1>5. Kept(n, size - 1, scarce)
  BY <1>1 DEF Kept
<1>6. ExFilled(n)'
  BY <1>4, <1>5 DEF ExFilled
<1> QED BY <1>4, <1>6 DEF ExSound

LEMMA ExEmptied ==
  ASSUME NEW n, ChainsOK(table', n), ChainedBelow(table', n) = {}, size' = 0,
         Kept(n, 0, scarce')
  PROVE  ExSound' /\ ExContents' = [k \in Keys |-> None]
<1>1. ExFilled(n)'
  BY StockNone DEF ExFilled
<1>2. ExShown'
  BY ExShowsAlways, PTL
<1> DEFINE D == ExContents'
<1>3. Shows(D, {})
  BY <1>2 DEF ExShown
<1>4. D = [k \in Keys |-> None]
  <2> HIDE DEF D
  <2> QED BY <1>3, ShownNone
<1> QED BY <1>1, <1>4 DEF ExSound

-----------------------------------------------------------------------------
(* hash_map: the calls *)

MapContents == [k \in Keys |-> M!Lookup(k)]
MapShown == \A n : ListsOK(table, n) => Shows(MapContents, ListedBelow(table, n))

LEMMA MapCapacity ==
  ASSUME NEW n, ListsOK(table, n)
  PROVE  n \in Nat /\ M!capacity = n /\ DOMAIN table = 0 .. n - 1
<1>1. n \in Nat /\ DOMAIN table = 0 .. n - 1
  BY DEF ListsOK, ListTables, ChainsOK
<1> QED BY <1>1, Buckets, SameCount DEF M!capacity

\* Where the search for a key looks, and what it finds.
LEMMA MapFinds ==
  ASSUME NEW k \in Keys, NEW n, ListsOK(table, n), n # 0
  PROVE  /\ M!index_of(k, n) = Hash[k] % n
         /\ Hash[k] % n \in 0 .. n - 1
         /\ Keyed(table[Hash[k] % n].chain)
         /\ M!find_internal(k) = Found(table[Hash[k] % n].chain, k)
         /\ M!find_before(k) = Found(table[Hash[k] % n].chain, k)
         /\ M!End = -1
<1>1. n \in Nat \ {0} /\ M!capacity = n
  BY MapCapacity
<1>2. Hash[k] % n \in 0 .. n - 1
  BY <1>1, HashIn
<1>3. Keyed(table[Hash[k] % n].chain)
  BY <1>2 DEF ListsOK, ListTables, ChainsOK, ChainsIn
<1> QED BY <1>1, <1>2, <1>3, SameScan
     DEF M!index_of, M!find_internal, M!find_before

LEMMA MapShowsAlways == MapShown
<1> SUFFICES ASSUME NEW n, ListsOK(table, n)
             PROVE  Shows(MapContents, ListedBelow(table, n))
  BY DEF MapShown
<1> DEFINE c == ChainsIn(table, n)
<1>1. ChainsOK(c, n) /\ ListedBelow(table, n) = ChainedBelow(c, n)
  BY DEF ListsOK, ListTables, ChainsOK, ListedBelow
<1>2. ASSUME NEW k \in Keys
      PROVE  M!Lookup(k) = ShownIn(c, n)[k]
  <2>1. CASE n = 0
    <3>1. M!capacity = 0
      BY <2>1, MapCapacity
    <3> QED BY <2>1, <3>1 DEF M!Lookup, M!find, ShownIn
  <2>2. CASE n # 0
    <3> DEFINE b == Hash[k] % n
               s == table[b].chain
    <3>1. /\ M!index_of(k, n) = b /\ b \in 0 .. n - 1
          /\ M!find_internal(k) = Found(s, k)
          /\ M!capacity = n /\ b # -1
          /\ M!End = -1 /\ M!Scan(s, k) = Found(s, k)
      BY <2>2, MapFinds, MapCapacity, SameScan
    <3>2. c[b] = s
      BY <3>1 DEF ChainsIn
    <3>3. M!Lookup(k) = IF Found(s, k) = -1 THEN None ELSE s[Found(s, k)].val
      BY <2>2, <3>1 DEF M!Lookup, M!find
    <3> HIDE DEF c, b
    <3> QED BY <2>2, <3>2, <3>3 DEF ShownIn, b
  <2> QED BY <2>1, <2>2
<1>3. MapContents = ShownIn(c, n)
  <2> HIDE DEF c
  <2>1. MapContents = [k \in Keys |-> ShownIn(c, n)[k]]
    BY <1>2 DEF MapContents
  <2>2. ShownIn(c, n) = [k \in Keys |-> ShownIn(c, n)[k]]
    BY DEF ShownIn
  <2> QED BY <2>1, <2>2
<1>4. Shows(ShownIn(c, n), ChainedBelow(c, n))
  <2> HIDE DEF c
  <2> QED BY <1>1, ChainsShow
<1> QED BY <1>1, <1>3, <1>4

\* n buckets hold `size` keys.
MapFilled(n) ==
  /\ ListsOK(table, n)
  /\ Stock(ListedBelow(table, n), size)
  /\ Kept(n, size, scarce)

MapSound == \E n : MapFilled(n)

LEMMA MapFilledIs ==
  ASSUME NEW n, MapFilled(n)
  PROVE  /\ n \in Nat /\ size \in Nat /\ M!capacity = n
         /\ ListsOK(table, n) /\ Stock(ListedBelow(table, n), size)
         /\ Kept(n, size, scarce)
         /\ Shows(MapContents, ListedBelow(table, n))
BY StockCounts, MapCapacity, MapShowsAlways DEF MapFilled, MapShown

\* The three ways in which a call changes what is stored.
LEMMA MapMoved ==
  ASSUME NEW n, NEW N, MapFilled(n), ListsOK(table', N), scarce' = scarce,
         Kept(N, size, scarce), ListedBelow(table', N) = ListedBelow(table, n), size' = size
  PROVE  MapSound' /\ MapContents' = MapContents
<1>1. Stock(ListedBelow(table, n), size) /\ Shows(MapContents, ListedBelow(table, n))
  BY MapFilledIs
<1>2. MapFilled(N)'
  BY <1>1 DEF MapFilled
<1>3. MapShown'
  BY MapShowsAlways, PTL
<1> DEFINE C == MapContents
           D == MapContents'
<1>4. Shows(C, ListedBelow(table, n)) /\ Shows(D, ListedBelow(table, n))
  BY <1>1, <1>3 DEF MapShown
<1>5. C = D
  <2> HIDE DEF C, D
  <2> QED BY <1>4, ShownSame
<1> QED BY <1>2, <1>5 DEF MapSound

LEMMA MapAdded ==
  ASSUME NEW n, NEW N, NEW e \in Entry, MapFilled(n), ListsOK(table', N), scarce' = scarce,
         Kept(N, size + 1, scarce), Lacks(ListedBelow(table, n), e.key),
         ListedBelow(table', N) = With(ListedBelow(table, n), e), size' = size + 1
  PROVE  /\ MapSound'
         /\ Puts(MapContents, MapContents', size, size', e.key, e.val)
<1>1. Stock(ListedBelow(table, n), size) /\ Shows(MapContents, ListedBelow(table, n))
  BY MapFilledIs
<1>2. Stock(ListedBelow(table', N), size')
  BY <1>1, StockWith
<1>3. MapFilled(N)'
  BY <1>2 DEF MapFilled
<1>4. MapShown'
  BY MapShowsAlways, PTL
<1> DEFINE C == MapContents
           D == MapContents'
<1>5. Shows(C, ListedBelow(table, n)) /\ Shows(D, With(ListedBelow(table, n), e))
  BY <1>1, <1>4 DEF MapShown
<1>6. Puts(C, D, size, size + 1, e.key, e.val)
  <2> HIDE DEF C, D
  <2> QED BY <1>1, <1>5, ShownWith
<1> QED BY <1>3, <1>6 DEF MapSound

LEMMA MapChanged ==
  ASSUME NEW n, NEW e \in Entry, NEW f \in ListedBelow(table, n), f.key = e.key,
         MapFilled(n), ListsOK(table', n), scarce' = scarce,
         ListedBelow(table', n) = With(Without(ListedBelow(table, n), f), e), size' = size
  PROVE  /\ MapSound'
         /\ Puts(MapContents, MapContents', size, size', e.key, e.val)
<1>1. /\ Stock(ListedBelow(table, n), size) /\ Shows(MapContents, ListedBelow(table, n))
      /\ Kept(n, size, scarce)
  BY MapFilledIs
<1>2. MapShown'
  BY MapShowsAlways, PTL
<1> DEFINE C == MapContents
           D == MapContents'
           E == ListedBelow(table, n)
<1>3. Shows(C, E) /\ Shows(D, With(Without(E, f), e)) /\ Stock(E, size) /\ f \in E
  BY <1>1, <1>2 DEF MapShown
<1>4. Puts(C, D, size, size, e.key, e.val) /\ Stock(With(Without(E, f), e), size)
  <2> HIDE DEF C, D, E
  <2> QED BY <1>3, ShownInstead
<1>5. MapFilled(n)'
  BY <1>1, <1>4 DEF MapFilled
<1> QED BY <1>4, <1>5 DEF MapSound

LEMMA MapRemoved ==
  ASSUME NEW n, NEW e \in ListedBelow(table, n), MapFilled(n), ListsOK(table', n),
         scarce' = scarce,
         ListedBelow(table', n) = Without(ListedBelow(table, n), e), size' = size - 1
  PROVE  /\ MapSound'
         /\ Drops(MapContents, MapContents', size, size', e.key)
<1>1. /\ Stock(ListedBelow(table, n), size) /\ Shows(MapContents, ListedBelow(table, n))
      /\ Kept(n, size, scarce) /\ size \in Nat /\ n \in Nat
  BY MapFilledIs
<1>2. MapShown'
  BY MapShowsAlways, PTL
<1> DEFINE C == MapContents
           D == MapContents'
           E == ListedBelow(table, n)
<1>3. Shows(C, E) /\ Shows(D, Without(E, e)) /\ Stock(E, size) /\ e \in E
  BY <1>1, <1>2 DEF MapShown
<1>4. Drops(C, D, size, size - 1, e.key) /\ Stock(Without(E, e), size - 1)
  <2> HIDE DEF C, D, E
  <2> QED BY <1>3, ShownWithout, StockWithout
<1>5. Kept(n, size - 1, scarce)
  BY <1>1 DEF Kept
<1>6. MapFilled(n)'
  BY <1>4, <1>5 DEF MapFilled
<1> QED BY <1>4, <1>6 DEF MapSound

LEMMA MapEmptied ==
  ASSUME NEW n, ListsOK(table', n), ListedBelow(table', n) = {}, size' = 0,
         Kept(n, 0, scarce')
  PROVE  MapSound' /\ MapContents' = [k \in Keys |-> None]
<1>1. MapFilled(n)'
  BY StockNone DEF MapFilled
<1>2. MapShown'
  BY MapShowsAlways, PTL
<1> DEFINE D == MapContents'
<1>3. Shows(D, {})
  BY <1>2 DEF MapShown
<1>4. D = [k \in Keys |-> None]
  <2> HIDE DEF D
  <2> QED BY <1>3, ShownNone
<1> QED BY <1>1, <1>4 DEF MapSound

LEMMA ExKnown ==
  ASSUME NEW k \in Keys, NEW v \in Vals, NEW n, ChainsOK(table, n), n # 0,
         X!insert(k, v), X!find_internal(k) # X!End
  PROVE  /\ size' = size /\ ChainsOK(table', n)
         /\ \E f \in ChainedBelow(table, n) :
              /\ f.key = k
              /\ ChainedBelow(table', n)
                   = With(Without(ChainedBelow(table, n), f), [key |-> k, val |-> v])
<1> DEFINE b == Hash[k] % n
           s == table[b]
           i == Found(s, k)
           e == [key |-> k, val |-> v]
<1>1. /\ b \in 0 .. n - 1 /\ Keyed(s) /\ i # -1 /\ X!index_of(k, n) = b
      /\ X!find_internal(k) = i /\ X!capacity = n
  BY ExFinds, ExCapacity
<1>2. table' = [table EXCEPT ![b][i].val = v] /\ size' = size
  BY <1>1 DEF X!insert
<1>3. i \in 1 .. Len(s) /\ s[i].key = k
  BY <1>1, FoundIs
<1> HIDE DEF i
<1>4. s[i] \in Entry /\ e \in Entry /\ e.key = k
  BY <1>1, <1>3, LinkIs DEF Entry
<1>5. table' = ChangedAt(table, b, i, e)
  <2>1. [s[i] EXCEPT !.val = v] = e
    BY <1>3, <1>4 DEF Entry
  <2> HIDE DEF e
  <2> QED BY <1>2, <2>1 DEF ChangedAt
<1> HIDE DEF e, b
<1>6. PICK f : f = s[i]
  OBVIOUS
<1>7. HasAt(table, b, i, f) /\ f.key = e.key
  BY <1>3, <1>4, <1>6 DEF HasAt
<1>8. /\ ChainsOK(ChangedAt(table, b, i, e), n)
      /\ f \in ChainedBelow(table, n)
      /\ ChainedBelow(ChangedAt(table, b, i, e), n)
           = With(Without(ChainedBelow(table, n), f), e)
  BY <1>1, <1>4, <1>7, ChainChange
<1> QED BY <1>2, <1>3, <1>5, <1>6, <1>8 DEF e

LEMMA ExErased ==
  ASSUME NEW k \in Keys, NEW n, ChainsOK(table, n), X!erase(k)
  PROVE  /\ size' = size - 1 /\ ChainsOK(table', n)
         /\ \E f \in ChainedBelow(table, n) :
              /\ f.key = k
              /\ ChainedBelow(table', n) = Without(ChainedBelow(table, n), f)
<1> DEFINE b == Hash[k] % n
           s == table[b]
           i == Found(s, k)
<1>1. n # 0 /\ X!capacity = n /\ X!find_before(k) # X!End
  BY ExCapacity DEF X!erase
<1>2. /\ b \in 0 .. n - 1 /\ Keyed(s) /\ i # -1 /\ X!index_of(k, n) = b
      /\ X!find_before(k) = i
  BY <1>1, ExFinds
<1>3. table' = [table EXCEPT ![b] = Cut(s, i)] /\ size' = size - 1
  BY <1>1, <1>2 DEF X!erase, X!erase_fast, Cut
<1>4. i \in 1 .. Len(s) /\ s[i].key = k
  BY <1>2, FoundIs
<1> HIDE DEF i, b
<1>5. /\ ChainsOK(CutAt(table, b, i), n)
      /\ table[b][i] \in ChainedBelow(table, n)
      /\ ChainedBelow(CutAt(table, b, i), n)
           = Without(ChainedBelow(table, n), table[b][i])
  BY <1>2, <1>4, ChainCut
<1> QED BY <1>3, <1>4, <1>5 DEF CutAt

LEMMA ExCleared ==
  ASSUME NEW n, ChainsOK(table, n), X!clear
  PROVE  ChainsOK(table', n) /\ ChainedBelow(table', n) = {} /\ size' = 0
BY ExCapacity, ExEmptyIs DEF X!clear

\* What insert writes for a new key is what the rehash's push writes.
ExWrites(k, v, n, grows, big, N) ==
  /\ grows \in BOOLEAN
  /\ big = (IF grows THEN X!Rehashed(2 * n) ELSE table)
  /\ N = (IF grows THEN 2 * n ELSE n)
  /\ grows => 2 * n <= GrowthBound
  /\ scarce \/ (grows <=> size >= (n * 3) \div 4)
  /\ \/ scarce /\ table' = big /\ size' = size
     \/ ChainsOK(big, N) => /\ table' = X!push(big, [key |-> k, val |-> v], N)
                            /\ size' = size + 1

LEMMA ExInsertion ==
  ASSUME NEW k \in Keys, NEW v \in Vals, NEW n, ChainsOK(table, n), n # 0,
         X!insert(k, v), X!find_internal(k) = X!End, scarce \in BOOLEAN
  PROVE  \E grows, big, N : ExWrites(k, v, n, grows, big, N)
<1>1. n \in Nat \ {0} /\ X!capacity = n /\ X!threshold = (n * 3) \div 4
  BY ExCapacity DEF X!threshold
<1>2. PICK grown \in X!Alloc, got \in X!Alloc :
        LET grows == size >= X!threshold /\ grown
            big == IF grows THEN X!Rehashed(2 * X!capacity) ELSE table
            ix == X!index_of(k, X!Cardinality(DOMAIN big))
            e == [key |-> k, val |-> v]
        IN  /\ grows => 2 * X!capacity <= GrowthBound
            /\ IF ~got
               THEN /\ table' = big
                    /\ UNCHANGED size
               ELSE /\ table' = [big EXCEPT ![ix] =
                                   IF big[ix] = <<>> THEN X!push_first(big[ix], e)
                                   ELSE X!push_front_fast(big[ix], e)]
                    /\ size' = size + 1
  BY <1>1 DEF X!insert
<1>3. grown \in BOOLEAN /\ got \in BOOLEAN /\ (~grown \/ ~got => scarce)
  BY DEF X!Alloc
<1>4. PICK grows \in BOOLEAN : grows <=> size >= X!threshold /\ grown
  <2>1. (size >= X!threshold /\ grown) \in BOOLEAN
    OBVIOUS
  <2> QED BY <2>1
<1>5. PICK big : big = IF grows THEN X!Rehashed(2 * n) ELSE table
  OBVIOUS
<1>6. PICK N : N = IF grows THEN 2 * n ELSE n
  OBVIOUS
<1>7. /\ grows => 2 * n <= GrowthBound
      /\ IF ~got THEN table' = big /\ size' = size
         ELSE /\ size' = size + 1
              /\ table' = [big EXCEPT ![X!index_of(k, X!Cardinality(DOMAIN big))] =
                             IF big[X!index_of(k, X!Cardinality(DOMAIN big))] = <<>>
                             THEN X!push_first(big[X!index_of(k, X!Cardinality(DOMAIN big))],
                                               [key |-> k, val |-> v])
                             ELSE X!push_front_fast(
                                    big[X!index_of(k, X!Cardinality(DOMAIN big))],
                                    [key |-> k, val |-> v])]
  BY <1>1, <1>2, <1>4, <1>5
<1>8. ASSUME ChainsOK(big, N), got
      PROVE  table' = X!push(big, [key |-> k, val |-> v], N) /\ size' = size + 1
  <2>1. X!Cardinality(DOMAIN big) = N
    <3>1. N \in Nat /\ DOMAIN big = 0 .. N - 1
      BY <1>8 DEF ChainsOK
    <3> QED BY <3>1, Buckets, SameCount
  <2> QED BY <1>7, <1>8, <2>1 DEF X!push
<1>9. \/ scarce /\ table' = big /\ size' = size
      \/ ChainsOK(big, N) => /\ table' = X!push(big, [key |-> k, val |-> v], N)
                             /\ size' = size + 1
  BY <1>3, <1>7, <1>8
<1>10. scarce \/ (grows <=> size >= (n * 3) \div 4)
  BY <1>1, <1>3, <1>4
<1>11. (grows => 2 * n <= GrowthBound) /\ grows \in BOOLEAN
  BY <1>1, <1>4, <1>7
<1> QED BY <1>5, <1>6, <1>9, <1>10, <1>11 DEF ExWrites

LEMMA ExInserts ==
  ASSUME NEW k \in Keys, NEW v \in Vals, ExSound, scarce \in BOOLEAN, scarce' = scarce,
         X!insert(k, v) \/ X!insert_rvalue(k, v) \/ X!emplace(k, v)
  PROVE  ExSound' /\ Inserted(ExContents, ExContents', k, v)
<1>1. PICK n : ExFilled(n)
  BY DEF ExSound
<1>2. X!insert(k, v)
  BY DEF X!insert_rvalue, X!emplace
<1>3. /\ n \in Nat \ {0} /\ size \in Nat /\ X!capacity = n
      /\ ChainsOK(table, n) /\ Stock(ChainedBelow(table, n), size)
      /\ Kept(n, size, scarce)
      /\ Shows(ExContents, ChainedBelow(table, n))
  <2>1. X!capacity > 0
    BY <1>2 DEF X!insert
  <2> QED BY <1>1, <2>1, ExFilledIs
<1> DEFINE e == [key |-> k, val |-> v]
<1>4. e \in Entry /\ e.key = k /\ e.val = v
  BY DEF Entry
<1>5. CASE X!find_internal(k) # X!End
  <2>1. /\ size' = size /\ ChainsOK(table', n)
        /\ \E f \in ChainedBelow(table, n) :
             /\ f.key = k
             /\ ChainedBelow(table', n) = With(Without(ChainedBelow(table, n), f), e)
    BY <1>2, <1>3, <1>5, ExKnown
  <2> HIDE DEF e
  <2>2. PICK f \in ChainedBelow(table, n) :
          f.key = k /\ ChainedBelow(table', n) = With(Without(ChainedBelow(table, n), f), e)
    BY <2>1
  <2>3. /\ ExSound'
        /\ Puts(ExContents, ExContents', size, size', e.key, e.val)
    BY <1>1, <1>4, <2>1, <2>2, ExChanged
  <2> QED BY <1>4, <2>3 DEF Inserted
<1>6. CASE X!find_internal(k) = X!End
  <2>1. PICK grows, big, N : ExWrites(k, v, n, grows, big, N)
    BY <1>2, <1>3, <1>6, ExInsertion
  <2>2. /\ grows \in BOOLEAN
        /\ big = (IF grows THEN X!Rehashed(2 * n) ELSE table)
        /\ N = (IF grows THEN 2 * n ELSE n)
        /\ grows => 2 * n <= GrowthBound
        /\ scarce \/ (grows <=> size >= (n * 3) \div 4)
        /\ \/ scarce /\ table' = big /\ size' = size
           \/ ChainsOK(big, N) => /\ table' = X!push(big, e, N)
                                  /\ size' = size + 1
    BY <2>1 DEF ExWrites
  <2> HIDE DEF e
  <2>3. N \in Nat \ {0} /\ Kept(N, size, scarce) /\ Kept(N, size + 1, scarce)
    <3>1. /\ grows \in BOOLEAN /\ N = (IF grows THEN 2 * n ELSE n)
          /\ grows => 2 * n <= GrowthBound
          /\ scarce \/ (grows <=> size >= (n * 3) \div 4)
      BY <2>2
    <3> QED BY <1>3, <3>1, KeptGrowing
  <2>4. ChainsOK(big, N) /\ ChainedBelow(big, N) = ChainedBelow(table, n)
    <3>1. CASE grows
      <4>1. big = X!Rehashed(N)
        BY <2>2, <3>1
      <4> QED BY <1>3, <2>3, <4>1, ExRehashed
    <3>2. CASE ~grows
      BY <1>3, <2>2, <3>2
    <3> QED BY <3>1, <3>2
  <2>5. Lacks(ChainedBelow(table, n), k)
    <3> DEFINE s == table[Hash[k] % n]
    <3>1. Keyed(s) /\ Found(s, k) = -1 /\ Hash[k] % n \in 0 .. n - 1
      BY <1>3, <1>6, ExFinds
    <3>2. Lacks(Links(s), k)
      <4> HIDE DEF s
      <4> QED BY <3>1, FoundIs
    <3>3. ASSUME NEW f \in ChainedBelow(table, n), f.key = k
          PROVE  f \in Links(s)
      BY <1>3, <3>1, <3>3, ChainOf DEF ChainsOK
    <3> HIDE DEF s
    <3> QED BY <3>2, <3>3 DEF Lacks
  <2>6. CASE scarce /\ table' = big /\ size' = size
    <3>1. ChainsOK(table', N) /\ ChainedBelow(table', N) = ChainedBelow(table, n)
      BY <2>4, <2>6
    <3>2. ExSound' /\ ExContents' = ExContents
      BY <1>1, <2>3, <2>6, <3>1, ExMoved
    <3>3. ExContents[k] = None
      <4> DEFINE C == ExContents
      <4>1. Shows(C, ChainedBelow(table, n)) /\ ChainedBelow(table, n) \subseteq Entry
        BY <1>3 DEF Stock
      <4> HIDE DEF C
      <4>2. C[k] = None
        BY <2>5, <4>1, ShownLacks
      <4> QED BY <4>2 DEF C
    <3> QED BY <2>6, <3>2, <3>3 DEF Inserted
  <2>7. CASE table' = X!push(big, e, N) /\ size' = size + 1
    <3>1. Lacks(ChainedBelow(big, N), e.key)
      BY <1>4, <2>4, <2>5
    <3>2. /\ ChainsOK(X!push(big, e, N), N)
          /\ ChainedBelow(X!push(big, e, N), N) = With(ChainedBelow(big, N), e)
      BY <1>4, <2>3, <2>4, <3>1, ExPushed
    <3>3. ChainsOK(table', N) /\ ChainedBelow(table', N) = With(ChainedBelow(table, n), e)
      BY <2>4, <2>7, <3>2
    <3>4. Lacks(ChainedBelow(table, n), e.key)
      BY <1>4, <2>5
    <3>5. ExSound' /\ Puts(ExContents, ExContents', size, size', e.key, e.val)
      BY <1>1, <1>4, <2>3, <2>7, <3>3, <3>4, ExAdded
    <3> QED BY <1>4, <3>5 DEF Inserted
  <2> QED BY <2>2, <2>4, <2>6, <2>7
<1> QED BY <1>5, <1>6

LEMMA ExErases ==
  ASSUME NEW k \in Keys, ExSound, scarce' = scarce,
         X!erase(k) \/ X!erase_rvalue(k)
  PROVE  ExSound' /\ Drops(ExContents, ExContents', size, size', k)
<1>1. PICK n : ExFilled(n)
  BY DEF ExSound
<1>2. X!erase(k)
  BY DEF X!erase_rvalue
<1>3. ChainsOK(table, n)
  BY <1>1, ExFilledIs
<1>4. size' = size - 1 /\ ChainsOK(table', n)
  BY <1>2, <1>3, ExErased
<1>5. PICK f \in ChainedBelow(table, n) :
        f.key = k /\ ChainedBelow(table', n) = Without(ChainedBelow(table, n), f)
  BY <1>2, <1>3, ExErased
<1>6. ExSound' /\ Drops(ExContents, ExContents', size, size', f.key)
  BY <1>1, <1>4, <1>5, ExRemoved
<1> QED BY <1>5, <1>6

LEMMA ExClears ==
  ASSUME ExSound, scarce' = scarce, X!clear
  PROVE  ExSound' /\ ExContents' = [k \in Keys |-> None] /\ size' = 0
<1>1. PICK n : ExFilled(n)
  BY DEF ExSound
<1>2. n \in Nat /\ ChainsOK(table, n) /\ Kept(n, size, scarce)
  BY <1>1, ExFilledIs
<1>3. ChainsOK(table', n) /\ ChainedBelow(table', n) = {} /\ size' = 0
  BY <1>2, ExCleared
<1>4. Kept(n, 0, scarce')
  BY <1>2, KeptNone
<1> QED BY <1>3, <1>4, ExEmptied

LEMMA ExCalculates ==
  ASSUME NEW n \in Requests, size \in Nat
  PROVE  /\ Requested(X!calc_capacity(n), size)
         /\ Requested(X!calc_capacity_fast(n), size)
<1>1. n \in Nat \ {0}
  BY HashMapsAssumption
<1> QED BY <1>1, RequestedIs, SameTools
     DEF X!calc_capacity, X!calc_capacity_fast, X!Lesser, X!Greater, Lesser, Greater

LEMMA ExReserves ==
  ASSUME NEW n \in Requests, ExSound, scarce' = scarce, X!reserve(n)
  PROVE  /\ ExSound' /\ ExContents' = [k \in Keys |-> None] /\ size' = 0
         /\ capacity' # capacity
<1>1. PICK m : ExFilled(m)
  BY DEF ExSound
<1>2. /\ m \in Nat /\ size \in Nat /\ X!capacity = m /\ ChainsOK(table, m)
      /\ Kept(m, size, scarce)
  BY <1>1, ExFilledIs
<1> DEFINE c == X!calc_capacity(n)
<1>3. c > m /\ table' = X!Empty(c) /\ size' = 0
  BY <1>2 DEF X!reserve, X!reserve_internal
<1>4. Requested(c, size)
  BY <1>2, ExCalculates
<1> HIDE DEF c
<1>5. c \in Nat \ {0} /\ Kept(c, 0, scarce)
  BY <1>2, <1>4, KeptRequested
<1>6. ChainsOK(table', c) /\ ChainedBelow(table', c) = {}
  BY <1>3, <1>5, ExEmptyIs
<1>7. capacity = m
  BY <1>2, SameCount DEF capacity, X!capacity
<1>8. capacity' = c
  <2>1. DOMAIN table' = 0 .. c - 1
    BY <1>3 DEF X!Empty
  <2> QED BY <1>5, <2>1, Buckets DEF capacity
<1>9. Kept(c, 0, scarce')
  BY <1>5
<1>10. c # m
  BY <1>2, <1>3, <1>5
<1> QED BY <1>3, <1>6, <1>7, <1>8, <1>9, <1>10, ExEmptied

LEMMA ExRehashes ==
  ASSUME NEW n \in Requests, ExSound, scarce' = scarce,
         X!rehash(n) \/ X!shrink_to_fit(n)
  PROVE  ExSound' /\ ExContents' = ExContents /\ size' = size
<1>1. PICK m : ExFilled(m)
  BY DEF ExSound
<1>2. /\ m \in Nat /\ size \in Nat /\ ChainsOK(table, m) /\ Kept(m, size, scarce)
  BY <1>1, ExFilledIs
<1>3. PICK c : table' = X!Rehashed(c) /\ size' = size /\ Requested(c, size)
  BY <1>2, ExCalculates
     DEF X!rehash, X!rehash_internal, X!shrink_to_fit
<1>4. c \in Nat \ {0} /\ Kept(c, size, scarce)
  BY <1>2, <1>3, KeptRequested
<1>5. ChainsOK(table', c) /\ ChainedBelow(table', c) = ChainedBelow(table, m)
  BY <1>2, <1>3, <1>4, ExRehashed
<1> QED BY <1>1, <1>3, <1>4, <1>5, ExMoved

LEMMA ExStarts ==
  ASSUME X!Init
  PROVE  ExSound /\ ExContents = [k \in Keys |-> None]
<1>1. PICK n : n \in Nat /\ table = X!Empty(n) /\ Kept(n, 0, scarce)
  <2>1. PICK r \in Requests :
          table = X!Empty(round_up_pow2(r)) \/ table = <<>>
    BY SameTools DEF X!Init
  <2>2. <<>> = X!Empty(0)
    BY DEF X!Empty
  <2> QED BY <2>1, <2>2, KeptAtFirst
<1>2. size = 0
  BY DEF X!Init
<1>3. ChainsOK(table, n) /\ ChainedBelow(table, n) = {}
  BY <1>1, ExEmptyIs
<1>4. ExFilled(n)
  BY <1>1, <1>2, <1>3, StockNone DEF ExFilled
<1> DEFINE C == ExContents
<1>5. Shows(C, {})
  BY <1>3, <1>4, ExFilledIs
<1>6. C = [k \in Keys |-> None]
  <2> HIDE DEF C
  <2> QED BY <1>5, ShownNone
<1> QED BY <1>4, <1>6 DEF ExSound

LEMMA NotNoList ==
  ASSUME NEW t, NEW n, NEW b \in 0 .. n - 1, ListsOK(t, n)
  PROVE  /\ t[b] \in [chain : Seq(Entry), size : Int]
         /\ t[b].chain \in Seq(Entry)
         /\ t[b].chain # <<>> \/ t[b] # M!NoList => t[b].size = Len(t[b].chain)
<1>1. t[b] \in [chain : Seq(Entry), size : Int]
  BY DEF ListsOK, ListTables
<1>2. t[b] = M!NoList \/ t[b].size = Len(t[b].chain)
  BY DEF ListsOK
<1>3. t[b] = M!NoList => t[b].chain = <<>>
  BY NoListIs
<1> QED BY <1>1, <1>2, <1>3

LEMMA SameList ==
  ASSUME NEW t, NEW n, NEW b \in 0 .. n - 1, ListsOK(t, n), t[b].chain # <<>>
  PROVE  t[b] = ListOf(t[b].chain)
<1>1. PICK l : l = t[b]
  OBVIOUS
<1>2. l \in [chain : Seq(Entry), size : Int] /\ l.size = Len(l.chain)
  BY <1>1, NotNoList
<1>3. l = [chain |-> l.chain, size |-> l.size]
  BY <1>2
<1> QED BY <1>1, <1>2, <1>3 DEF ListOf

\* A new value on list b, and place i of it taken out.
LEMMA ListChanged ==
  ASSUME NEW t, NEW n, NEW b \in 0 .. n - 1, NEW i, NEW e \in Entry, ListsOK(t, n),
         i \in 1 .. Len(t[b].chain), t[b].chain[i].key = e.key
  PROVE  /\ ListsOK(PutList(t, b, [t[b].chain EXCEPT ![i] = e]), n)
         /\ t[b].chain[i] \in ListedBelow(t, n)
         /\ ListedBelow(PutList(t, b, [t[b].chain EXCEPT ![i] = e]), n)
              = With(Without(ListedBelow(t, n), t[b].chain[i]), e)
<1>1. PICK c : c = ChainsIn(t, n)
  OBVIOUS
<1>2. PICK s : s = t[b].chain
  OBVIOUS
<1>3. PICK u : u = [s EXCEPT ![i] = e]
  OBVIOUS
<1>4. ChainsOK(c, n) /\ ListedBelow(t, n) = ChainedBelow(c, n)
  BY <1>1 DEF ListsOK, ListedBelow
<1>5. c[b] = s /\ s \in Seq(Entry)
  BY <1>1, <1>2, NotNoList DEF ChainsIn
<1>6. i \in 1 .. Len(s)
  BY <1>2
<1>7. PICK f : f = s[i]
  OBVIOUS
<1>8. HasAt(c, b, i, f) /\ f.key = e.key
  BY <1>2, <1>5, <1>6, <1>7 DEF HasAt
<1>9. /\ ChainsOK(ChangedAt(c, b, i, e), n)
      /\ f \in ChainedBelow(c, n)
      /\ ChainedBelow(ChangedAt(c, b, i, e), n)
           = With(Without(ChainedBelow(c, n), f), e)
  BY <1>4, <1>8, ChainChange
<1>10. u \in Seq(Entry)
  BY <1>3, <1>5, <1>6
<1>11. PutChain(c, b, u) = ChangedAt(c, b, i, e)
  BY <1>3, <1>5 DEF PutChain, ChangedAt
<1>12. /\ ListsOK(PutList(t, b, u), n)
       /\ ListedBelow(PutList(t, b, u), n) = ChainedBelow(PutChain(c, b, u), n)
  BY <1>1, <1>9, <1>10, <1>11, ListTaken
<1> QED BY <1>2, <1>3, <1>4, <1>5, <1>9, <1>11, <1>12, <1>7

LEMMA ListCut ==
  ASSUME NEW t, NEW n, NEW b \in 0 .. n - 1, NEW i, ListsOK(t, n),
         i \in 1 .. Len(t[b].chain)
  PROVE  /\ ListsOK(PutList(t, b, Cut(t[b].chain, i)), n)
         /\ t[b].chain[i] \in ListedBelow(t, n)
         /\ ListedBelow(PutList(t, b, Cut(t[b].chain, i)), n)
              = Without(ListedBelow(t, n), t[b].chain[i])
<1>1. PICK c : c = ChainsIn(t, n)
  OBVIOUS
<1>2. PICK s : s = t[b].chain
  OBVIOUS
<1>3. PICK u : u = Cut(s, i)
  OBVIOUS
<1>4. ChainsOK(c, n) /\ ListedBelow(t, n) = ChainedBelow(c, n)
  BY <1>1 DEF ListsOK, ListedBelow
<1>5. c[b] = s /\ s \in Seq(Entry) /\ Keyed(s)
  BY <1>1, <1>2, <1>4, NotNoList DEF ChainsIn, ChainsOK
<1>6. i \in 1 .. Len(c[b])
  BY <1>2, <1>5
<1>7. /\ ChainsOK(CutAt(c, b, i), n)
      /\ c[b][i] \in ChainedBelow(c, n)
      /\ ChainedBelow(CutAt(c, b, i), n) = Without(ChainedBelow(c, n), c[b][i])
  BY <1>4, <1>6, ChainCut
<1>8. u \in Seq(Entry)
  BY <1>2, <1>3, <1>5, LinkCut DEF Keyed
<1>9. PutChain(c, b, u) = CutAt(c, b, i)
  BY <1>3, <1>5 DEF PutChain, CutAt
<1>10. /\ ListsOK(PutList(t, b, u), n)
       /\ ListedBelow(PutList(t, b, u), n) = ChainedBelow(PutChain(c, b, u), n)
  BY <1>1, <1>7, <1>8, <1>9, ListTaken
<1> QED BY <1>2, <1>3, <1>4, <1>5, <1>7, <1>9, <1>10

LEMMA MapKnown ==
  ASSUME NEW k \in Keys, NEW v \in Vals, NEW n, ListsOK(table, n), n # 0,
         M!insert(k, v), M!find_internal(k) # M!End
  PROVE  /\ size' = size /\ ListsOK(table', n)
         /\ \E f \in ListedBelow(table, n) :
              /\ f.key = k
              /\ ListedBelow(table', n)
                   = With(Without(ListedBelow(table, n), f), [key |-> k, val |-> v])
<1>1. PICK b : b = Hash[k] % n
  OBVIOUS
<1>2. PICK s : s = table[b].chain
  OBVIOUS
<1>3. PICK i : i = Found(s, k)
  OBVIOUS
<1>4. PICK e : e = [key |-> k, val |-> v]
  OBVIOUS
<1>5. /\ b \in 0 .. n - 1 /\ Keyed(s) /\ i # -1 /\ M!index_of(k, n) = b
      /\ M!find_internal(k) = i /\ M!capacity = n
  BY <1>1, <1>2, <1>3, MapFinds, MapCapacity
<1>6. table' = [table EXCEPT ![b].chain[i].val = v] /\ size' = size
  BY <1>5 DEF M!insert
<1>7. i \in 1 .. Len(s) /\ s[i].key = k
  BY <1>3, <1>5, FoundIs
<1>8. s[i] \in Entry /\ e \in Entry /\ e.key = k
  BY <1>4, <1>5, <1>7, LinkIs DEF Entry
<1>9. PICK u : u = [s EXCEPT ![i] = e]
  OBVIOUS
<1>10. s \in Seq(Entry) /\ s # <<>> /\ Len(u) = Len(s)
  BY <1>5, <1>7, <1>8, <1>9 DEF Keyed
<1>11. table' = PutList(table, b, u)
  <2>1. [s[i] EXCEPT !.val = v] = e
    BY <1>4, <1>7, <1>8 DEF Entry
  <2>2. table' = [table EXCEPT ![b] = [table[b] EXCEPT !.chain = u]]
    BY <1>2, <1>6, <1>9, <2>1
  <2>3. table[b] = ListOf(s)
    BY <1>2, <1>5, <1>10, SameList
  <2>4. [table[b] EXCEPT !.chain = u] = ListOf(u)
    BY <1>10, <2>3 DEF ListOf
  <2> QED BY <2>2, <2>4 DEF PutList
<1>12. ListsOK(table, n) /\ i \in 1 .. Len(table[b].chain) /\ table[b].chain[i].key = e.key
  BY <1>2, <1>7, <1>8
<1>13. /\ ListsOK(PutList(table, b, u), n)
       /\ s[i] \in ListedBelow(table, n)
       /\ ListedBelow(PutList(table, b, u), n)
            = With(Without(ListedBelow(table, n), s[i]), e)
  <2>1. b \in 0 .. n - 1 /\ e \in Entry
    BY <1>5, <1>8
  <2>2. PICK t : t = table
    OBVIOUS
  <2>3. ListsOK(t, n) /\ i \in 1 .. Len(t[b].chain) /\ t[b].chain[i].key = e.key
        /\ t[b].chain = s
    BY <1>2, <1>12, <2>2
  <2>4. /\ ListsOK(PutList(t, b, [t[b].chain EXCEPT ![i] = e]), n)
        /\ t[b].chain[i] \in ListedBelow(t, n)
        /\ ListedBelow(PutList(t, b, [t[b].chain EXCEPT ![i] = e]), n)
             = With(Without(ListedBelow(t, n), t[b].chain[i]), e)
    BY ONLY <2>1, <2>3, ListChanged
  <2> QED BY <1>9, <2>2, <2>3, <2>4
<1> QED BY <1>4, <1>6, <1>7, <1>11, <1>13

LEMMA MapErased ==
  ASSUME NEW k \in Keys, NEW n, ListsOK(table, n), M!erase(k)
  PROVE  /\ size' = size - 1 /\ ListsOK(table', n)
         /\ \E f \in ListedBelow(table, n) :
              /\ f.key = k
              /\ ListedBelow(table', n) = Without(ListedBelow(table, n), f)
<1>1. n # 0 /\ M!capacity = n /\ M!find_before(k) # M!End
  BY MapCapacity DEF M!erase
<1>2. PICK b : b = Hash[k] % n
  OBVIOUS
<1>3. PICK s : s = table[b].chain
  OBVIOUS
<1>4. PICK i : i = Found(s, k)
  OBVIOUS
<1>5. /\ b \in 0 .. n - 1 /\ Keyed(s) /\ i # -1 /\ M!index_of(k, n) = b
      /\ M!find_before(k) = i
  BY <1>1, <1>2, <1>3, <1>4, MapFinds
<1>6. table' = [table EXCEPT ![b] = M!erase_fast(table[b], i)] /\ size' = size - 1
  BY <1>1, <1>5 DEF M!erase
<1>7. i \in 1 .. Len(s) /\ s[i].key = k
  BY <1>4, <1>5, FoundIs
<1>8. PICK u : u = Cut(s, i)
  OBVIOUS
<1>9. s # <<>> /\ Len(u) = Len(s) - 1
  BY <1>5, <1>7, <1>8, LinkCut
<1>10. table' = PutList(table, b, u)
  <2>1. table[b] = ListOf(s)
    BY <1>3, <1>5, <1>9, SameList
  <2>2. table[b].chain = s /\ table[b].size = Len(s)
    BY <2>1 DEF ListOf
  <2>3. M!erase_fast(table[b], i) = ListOf(u)
    BY <1>8, <1>9, <2>2 DEF M!erase_fast, Cut, ListOf
  <2> QED BY <1>6, <2>3 DEF PutList
<1>11. /\ ListsOK(PutList(table, b, u), n)
       /\ s[i] \in ListedBelow(table, n)
       /\ ListedBelow(PutList(table, b, u), n) = Without(ListedBelow(table, n), s[i])
  <2>1. b \in 0 .. n - 1 /\ ListsOK(table, n) /\ i \in 1 .. Len(table[b].chain)
    BY <1>3, <1>5, <1>7
  <2>2. PICK t : t = table
    OBVIOUS
  <2>3. b \in 0 .. n - 1 /\ ListsOK(t, n) /\ i \in 1 .. Len(t[b].chain) /\ t[b].chain = s
    BY <1>3, <2>1, <2>2
  <2>4. /\ ListsOK(PutList(t, b, Cut(t[b].chain, i)), n)
        /\ t[b].chain[i] \in ListedBelow(t, n)
        /\ ListedBelow(PutList(t, b, Cut(t[b].chain, i)), n)
             = Without(ListedBelow(t, n), t[b].chain[i])
    BY ONLY <2>3, ListCut
  <2> QED BY <1>8, <2>2, <2>3, <2>4
<1> QED BY <1>6, <1>7, <1>10, <1>11

LEMMA MapCleared ==
  ASSUME NEW n, ListsOK(table, n), M!clear
  PROVE  ListsOK(table', n) /\ ListedBelow(table', n) = {} /\ size' = 0
<1>1. n \in Nat /\ DOMAIN table = 0 .. n - 1
  BY MapCapacity
<1>2. table' = [b \in 0 .. n - 1 |-> M!clear_list(table[b])] /\ size' = 0
  BY <1>1 DEF M!clear
<1>3. PICK t : t = table'
  OBVIOUS
<1>4. \A b \in 0 .. n - 1 : t[b] = M!NoList \/ t[b] = ListOf(<<>>)
  BY <1>2, <1>3 DEF M!clear_list, ListOf
<1>5. ListOf(<<>>).chain = <<>> /\ ListOf(<<>>).size = Len(ListOf(<<>>).chain)
      /\ ListOf(<<>>) \in [chain : Seq(Entry), size : Int]
  BY DEF ListOf
<1>6. M!NoList.chain = <<>> /\ M!NoList \in [chain : Seq(Entry), size : Int]
  BY NoListIs
<1>7. \A b \in 0 .. n - 1 : /\ t[b].chain = <<>>
                            /\ t[b] = M!NoList \/ t[b].size = Len(t[b].chain)
                            /\ t[b] \in [chain : Seq(Entry), size : Int]
  BY <1>4, <1>5, <1>6
<1>8. t \in ListTables(n)
  BY <1>2, <1>3, <1>7 DEF ListTables
<1>9. ChainsIn(t, n) = [b \in 0 .. n - 1 |-> <<>>]
  BY <1>7 DEF ChainsIn
<1>10. ListsOK(t, n) /\ ListedBelow(t, n) = {}
  BY <1>1, <1>7, <1>8, <1>9, ChainsEmpty DEF ListsOK, ListedBelow
<1> QED BY <1>2, <1>3, <1>10

\* What insert writes for a new key is what the rehash's push writes.
MapWrites(k, v, n, grows, big, N) ==
  /\ grows \in BOOLEAN
  /\ big = (IF grows THEN M!Rehashed(2 * n) ELSE table)
  /\ N = (IF grows THEN 2 * n ELSE n)
  /\ grows => 2 * n <= GrowthBound
  /\ scarce \/ (grows <=> size >= (n * 3) \div 4)
  /\ \/ scarce /\ table' = big /\ size' = size
     \/ ListsOK(big, N) => /\ table' = M!push(big, [key |-> k, val |-> v], N)
                           /\ size' = size + 1

LEMMA MapInsertion ==
  ASSUME NEW k \in Keys, NEW v \in Vals, NEW n, ListsOK(table, n), n # 0,
         M!insert(k, v), M!find_internal(k) = M!End, scarce \in BOOLEAN
  PROVE  \E grows, big, N : MapWrites(k, v, n, grows, big, N)
<1>1. n \in Nat \ {0} /\ M!capacity = n /\ M!threshold = (n * 3) \div 4
  BY MapCapacity DEF M!threshold
<1>2. PICK grown \in M!Alloc, got \in M!Alloc, listed \in M!Alloc :
        LET grows == size >= M!threshold /\ grown
            big == IF grows THEN M!Rehashed(2 * M!capacity) ELSE table
            ix == M!index_of(k, M!Cardinality(DOMAIN big))
            e == [key |-> k, val |-> v]
        IN  /\ grows => 2 * M!capacity <= GrowthBound
            /\ IF ~got \/ (big[ix] = M!NoList /\ ~listed)
               THEN /\ table' = big
                    /\ UNCHANGED size
               ELSE /\ table' = [big EXCEPT ![ix] =
                                   IF big[ix] = M!NoList THEN M!new_list(e)
                                   ELSE IF big[ix].chain = <<>>
                                   THEN M!push_first_fast(big[ix], e)
                                   ELSE M!push_front_fast(big[ix], e)]
                    /\ size' = size + 1
  BY <1>1 DEF M!insert
<1>3. grown \in BOOLEAN /\ got \in BOOLEAN /\ listed \in BOOLEAN
      /\ (~grown \/ ~got \/ ~listed => scarce)
  BY DEF M!Alloc
<1>4. PICK grows \in BOOLEAN : grows <=> size >= M!threshold /\ grown
  <2>1. (size >= M!threshold /\ grown) \in BOOLEAN
    OBVIOUS
  <2> QED BY <2>1
<1>5. PICK big : big = IF grows THEN M!Rehashed(2 * n) ELSE table
  OBVIOUS
<1>6. PICK N : N = IF grows THEN 2 * n ELSE n
  OBVIOUS
<1> DEFINE ix == M!index_of(k, M!Cardinality(DOMAIN big))
           e == [key |-> k, val |-> v]
<1>7. /\ grows => 2 * n <= GrowthBound
      /\ \/ scarce /\ table' = big /\ size' = size
         \/ /\ size' = size + 1
            /\ table' = [big EXCEPT ![ix] =
                           IF big[ix] = M!NoList THEN M!new_list(e)
                           ELSE IF big[ix].chain = <<>>
                           THEN M!push_first_fast(big[ix], e)
                           ELSE M!push_front_fast(big[ix], e)]
  BY <1>1, <1>2, <1>3, <1>4, <1>5
<1>8. ASSUME ListsOK(big, N),
             table' = [big EXCEPT ![ix] =
                         IF big[ix] = M!NoList THEN M!new_list(e)
                         ELSE IF big[ix].chain = <<>>
                         THEN M!push_first_fast(big[ix], e)
                         ELSE M!push_front_fast(big[ix], e)]
      PROVE  table' = M!push(big, e, N)
  <2>1. N \in Nat \ {0} /\ DOMAIN big = 0 .. N - 1
    BY <1>1, <1>6, <1>8 DEF ListsOK, ListTables
  <2>2. M!Cardinality(DOMAIN big) = N
    BY <2>1, Buckets, SameCount
  <2>3. ix = Hash[k] % N /\ ix \in 0 .. N - 1
    BY <2>1, <2>2, HashIn DEF M!index_of
  <2>4. ASSUME big[ix] # M!NoList, big[ix].chain = <<>>
        PROVE  M!push_first_fast(big[ix], e) = M!push_front_fast(big[ix], e)
    <3>1. PICK b : b = ix
      OBVIOUS
    <3>2. big[b].size = Len(big[b].chain)
      BY <1>8, <2>3, <2>4, <3>1, NotNoList
    <3>3. PICK l : l = big[b]
      OBVIOUS
    <3>4. l.chain = <<>> /\ l.size = Len(l.chain)
      BY <2>4, <3>1, <3>2, <3>3
    <3>5. l.size = 0
      BY <3>4
    <3>6. <<e>> \o l.chain = <<e>> /\ l.size + 1 = 1
      BY <3>4, <3>5
    <3>7. M!push_first_fast(l, e) = M!push_front_fast(l, e)
      BY <3>6 DEF M!push_first_fast, M!push_front_fast
    <3> QED BY <3>1, <3>3, <3>7
  <2>5. e.key = k
    OBVIOUS
  <2>6. M!push(big, e, N) = [big EXCEPT ![ix] = IF big[ix] = M!NoList THEN M!new_list(e)
                                                ELSE M!push_front_fast(big[ix], e)]
    BY <2>2, <2>5 DEF M!push
  <2> HIDE DEF ix, e
  <2> QED BY <1>8, <2>4, <2>6
<1> HIDE DEF ix, e
<1> QED BY <1>1, <1>3, <1>4, <1>5, <1>6, <1>7, <1>8 DEF e, MapWrites

LEMMA MapInserts ==
  ASSUME NEW k \in Keys, NEW v \in Vals, MapSound, scarce \in BOOLEAN, scarce' = scarce,
         M!insert(k, v) \/ M!insert_rvalue(k, v) \/ M!emplace(k, v)
  PROVE  MapSound' /\ Inserted(MapContents, MapContents', k, v)
<1>1. PICK n : MapFilled(n)
  BY DEF MapSound
<1>2. M!insert(k, v)
  BY DEF M!insert_rvalue, M!emplace
<1>3. /\ n \in Nat \ {0} /\ size \in Nat /\ M!capacity = n
      /\ ListsOK(table, n) /\ Stock(ListedBelow(table, n), size)
      /\ Kept(n, size, scarce)
      /\ Shows(MapContents, ListedBelow(table, n))
  <2>1. M!capacity > 0
    BY <1>2 DEF M!insert
  <2> QED BY <1>1, <2>1, MapFilledIs
<1> DEFINE e == [key |-> k, val |-> v]
<1>4. e \in Entry /\ e.key = k /\ e.val = v
  BY DEF Entry
<1>5. CASE M!find_internal(k) # M!End
  <2>1. /\ size' = size /\ ListsOK(table', n)
        /\ \E f \in ListedBelow(table, n) :
             /\ f.key = k
             /\ ListedBelow(table', n) = With(Without(ListedBelow(table, n), f), e)
    BY <1>2, <1>3, <1>5, MapKnown
  <2> HIDE DEF e
  <2>2. PICK f \in ListedBelow(table, n) :
          f.key = k /\ ListedBelow(table', n) = With(Without(ListedBelow(table, n), f), e)
    BY <2>1
  <2>3. /\ MapSound'
        /\ Puts(MapContents, MapContents', size, size', e.key, e.val)
    BY <1>1, <1>4, <2>1, <2>2, MapChanged
  <2> QED BY <1>4, <2>3 DEF Inserted
<1>6. CASE M!find_internal(k) = M!End
  <2>1. PICK grows, big, N : MapWrites(k, v, n, grows, big, N)
    BY <1>2, <1>3, <1>6, MapInsertion
  <2>2. /\ grows \in BOOLEAN
        /\ big = (IF grows THEN M!Rehashed(2 * n) ELSE table)
        /\ N = (IF grows THEN 2 * n ELSE n)
        /\ grows => 2 * n <= GrowthBound
        /\ scarce \/ (grows <=> size >= (n * 3) \div 4)
        /\ \/ scarce /\ table' = big /\ size' = size
           \/ ListsOK(big, N) => /\ table' = M!push(big, e, N)
                                 /\ size' = size + 1
    BY <2>1 DEF MapWrites
  <2> HIDE DEF e
  <2>3. N \in Nat \ {0} /\ Kept(N, size, scarce) /\ Kept(N, size + 1, scarce)
    <3>1. /\ grows \in BOOLEAN /\ N = (IF grows THEN 2 * n ELSE n)
          /\ grows => 2 * n <= GrowthBound
          /\ scarce \/ (grows <=> size >= (n * 3) \div 4)
      BY <2>2
    <3> QED BY <1>3, <3>1, KeptGrowing
  <2>4. ListsOK(big, N) /\ ListedBelow(big, N) = ListedBelow(table, n)
    <3>1. CASE grows
      <4>1. big = M!Rehashed(N)
        BY <2>2, <3>1
      <4> QED BY <1>3, <2>3, <4>1, MapRehashed
    <3>2. CASE ~grows
      BY <1>3, <2>2, <3>2
    <3> QED BY <3>1, <3>2
  <2>5. Lacks(ListedBelow(table, n), k)
    <3> DEFINE s == table[Hash[k] % n].chain
    <3>1. Keyed(s) /\ Found(s, k) = -1 /\ Hash[k] % n \in 0 .. n - 1
      BY <1>3, <1>6, MapFinds
    <3>2. Lacks(Links(s), k)
      <4> HIDE DEF s
      <4> QED BY <3>1, FoundIs
    <3>3. ASSUME NEW f \in ListedBelow(table, n), f.key = k
          PROVE  f \in Links(s)
      BY <1>3, <3>1, <3>3, ChainOf DEF ListsOK, ListTables, ChainsOK, ListedBelow, ChainsIn
    <3> HIDE DEF s
    <3> QED BY <3>2, <3>3 DEF Lacks
  <2>6. CASE scarce /\ table' = big /\ size' = size
    <3>1. ListsOK(table', N) /\ ListedBelow(table', N) = ListedBelow(table, n)
      BY <2>4, <2>6
    <3>2. MapSound' /\ MapContents' = MapContents
      BY <1>1, <2>3, <2>6, <3>1, MapMoved
    <3>3. MapContents[k] = None
      <4> DEFINE C == MapContents
      <4>1. Shows(C, ListedBelow(table, n)) /\ ListedBelow(table, n) \subseteq Entry
        BY <1>3 DEF Stock
      <4> HIDE DEF C
      <4>2. C[k] = None
        BY <2>5, <4>1, ShownLacks
      <4> QED BY <4>2 DEF C
    <3> QED BY <2>6, <3>2, <3>3 DEF Inserted
  <2>7. CASE table' = M!push(big, e, N) /\ size' = size + 1
    <3>1. Lacks(ListedBelow(big, N), e.key)
      BY <1>4, <2>4, <2>5
    <3>2. /\ ListsOK(M!push(big, e, N), N)
          /\ ListedBelow(M!push(big, e, N), N) = With(ListedBelow(big, N), e)
      BY <1>4, <2>3, <2>4, <3>1, MapPushed
    <3>3. ListsOK(table', N) /\ ListedBelow(table', N) = With(ListedBelow(table, n), e)
      BY <2>4, <2>7, <3>2
    <3>4. Lacks(ListedBelow(table, n), e.key)
      BY <1>4, <2>5
    <3>5. MapSound' /\ Puts(MapContents, MapContents', size, size', e.key, e.val)
      BY <1>1, <1>4, <2>3, <2>7, <3>3, <3>4, MapAdded
    <3> QED BY <1>4, <3>5 DEF Inserted
  <2> QED BY <2>2, <2>4, <2>6, <2>7
<1> QED BY <1>5, <1>6

LEMMA MapErases ==
  ASSUME NEW k \in Keys, MapSound, scarce' = scarce,
         M!erase(k) \/ M!erase_rvalue(k)
  PROVE  MapSound' /\ Drops(MapContents, MapContents', size, size', k)
<1>1. PICK n : MapFilled(n)
  BY DEF MapSound
<1>2. M!erase(k)
  BY DEF M!erase_rvalue
<1>3. ListsOK(table, n)
  BY <1>1, MapFilledIs
<1>4. size' = size - 1 /\ ListsOK(table', n)
  BY <1>2, <1>3, MapErased
<1>5. PICK f \in ListedBelow(table, n) :
        f.key = k /\ ListedBelow(table', n) = Without(ListedBelow(table, n), f)
  BY <1>2, <1>3, MapErased
<1>6. MapSound' /\ Drops(MapContents, MapContents', size, size', f.key)
  BY <1>1, <1>4, <1>5, MapRemoved
<1> QED BY <1>5, <1>6

LEMMA MapClears ==
  ASSUME MapSound, scarce' = scarce, M!clear
  PROVE  MapSound' /\ MapContents' = [k \in Keys |-> None] /\ size' = 0
<1>1. PICK n : MapFilled(n)
  BY DEF MapSound
<1>2. n \in Nat /\ ListsOK(table, n) /\ Kept(n, size, scarce)
  BY <1>1, MapFilledIs
<1>3. ListsOK(table', n) /\ ListedBelow(table', n) = {} /\ size' = 0
  BY <1>2, MapCleared
<1>4. Kept(n, 0, scarce')
  BY <1>2, KeptNone
<1> QED BY <1>3, <1>4, MapEmptied

LEMMA MapCalculates ==
  ASSUME NEW n \in Requests, size \in Nat
  PROVE  /\ Requested(M!calc_capacity(n), size)
         /\ Requested(M!calc_capacity_fast(n), size)
<1>1. n \in Nat \ {0}
  BY HashMapsAssumption
<1> QED BY <1>1, RequestedIs, SameTools
     DEF M!calc_capacity, M!calc_capacity_fast, M!Lesser, M!Greater, Lesser, Greater

LEMMA MapReserves ==
  ASSUME NEW n \in Requests, MapSound, scarce' = scarce, M!reserve(n)
  PROVE  /\ MapSound' /\ MapContents' = [k \in Keys |-> None] /\ size' = 0
         /\ capacity' # capacity
<1>1. PICK m : MapFilled(m)
  BY DEF MapSound
<1>2. /\ m \in Nat /\ size \in Nat /\ M!capacity = m /\ ListsOK(table, m)
      /\ Kept(m, size, scarce)
  BY <1>1, MapFilledIs
<1> DEFINE c == M!calc_capacity(n)
<1>3. c > m /\ table' = M!Empty(c) /\ size' = 0
  BY <1>2 DEF M!reserve, M!reserve_internal
<1>4. Requested(c, size)
  BY <1>2, MapCalculates
<1> HIDE DEF c
<1>5. c \in Nat \ {0} /\ Kept(c, 0, scarce)
  BY <1>2, <1>4, KeptRequested
<1>6. ListsOK(table', c) /\ ListedBelow(table', c) = {}
  BY <1>3, <1>5, MapEmptyIs
<1>7. capacity = m
  BY <1>2, SameCount DEF capacity, M!capacity
<1>8. capacity' = c
  <2>1. DOMAIN table' = 0 .. c - 1
    BY <1>3 DEF M!Empty
  <2> QED BY <1>5, <2>1, Buckets DEF capacity
<1>9. Kept(c, 0, scarce')
  BY <1>5
<1>10. c # m
  BY <1>2, <1>3, <1>5
<1> QED BY <1>3, <1>6, <1>7, <1>8, <1>9, <1>10, MapEmptied

LEMMA MapRehashes ==
  ASSUME NEW n \in Requests, MapSound, scarce' = scarce,
         M!rehash(n) \/ M!shrink_to_fit(n)
  PROVE  MapSound' /\ MapContents' = MapContents /\ size' = size
<1>1. PICK m : MapFilled(m)
  BY DEF MapSound
<1>2. /\ m \in Nat /\ size \in Nat /\ ListsOK(table, m) /\ Kept(m, size, scarce)
  BY <1>1, MapFilledIs
<1>3. PICK c : table' = M!Rehashed(c) /\ size' = size /\ Requested(c, size)
  BY <1>2, MapCalculates
     DEF M!rehash, M!rehash_internal, M!shrink_to_fit
<1>4. c \in Nat \ {0} /\ Kept(c, size, scarce)
  BY <1>2, <1>3, KeptRequested
<1>5. ListsOK(table', c) /\ ListedBelow(table', c) = ListedBelow(table, m)
  BY <1>2, <1>3, <1>4, MapRehashed
<1> QED BY <1>1, <1>3, <1>4, <1>5, MapMoved

LEMMA MapStarts ==
  ASSUME M!Init
  PROVE  MapSound /\ MapContents = [k \in Keys |-> None]
<1>1. PICK n : n \in Nat /\ table = M!Empty(n) /\ Kept(n, 0, scarce)
  <2>1. PICK r \in Requests :
          table = M!Empty(round_up_pow2(r)) \/ table = <<>>
    BY SameTools DEF M!Init
  <2>2. <<>> = M!Empty(0)
    BY DEF M!Empty
  <2> QED BY <2>1, <2>2, KeptAtFirst
<1>2. size = 0
  BY DEF M!Init
<1>3. ListsOK(table, n) /\ ListedBelow(table, n) = {}
  BY <1>1, MapEmptyIs
<1>4. MapFilled(n)
  BY <1>1, <1>2, <1>3, StockNone DEF MapFilled
<1> DEFINE C == MapContents
<1>5. Shows(C, {})
  BY <1>3, <1>4, MapFilledIs
<1>6. C = [k \in Keys |-> None]
  <2> HIDE DEF C
  <2> QED BY <1>5, ShownNone
<1> QED BY <1>4, <1>6 DEF MapSound

-----------------------------------------------------------------------------
(* The layouts of the two maps                                             *)

\* The places of n chains.
Spots(c, n) == UNION {{b} \X DOMAIN c[b] : b \in 0 .. n - 1}
EntryAt(c, p) == c[p[1]][p[2]]

LEMMA SpotIs ==
  ASSUME NEW c, NEW n, ChainsOK(c, n)
  PROVE  /\ \A b \in 0 .. n - 1 : DOMAIN c[b] = 1 .. Len(c[b]) /\ Keyed(c[b])
         /\ \A p \in Spots(c, n) :
              /\ p[1] \in 0 .. n - 1 /\ p[2] \in 1 .. Len(c[p[1]])
              /\ p = <<p[1], p[2]>>
         /\ \A b \in 0 .. n - 1 : \A i \in 1 .. Len(c[b]) : <<b, i>> \in Spots(c, n)
<1>1. \A b \in 0 .. n - 1 : DOMAIN c[b] = 1 .. Len(c[b]) /\ Keyed(c[b])
  BY DEF ChainsOK, Keyed
<1>2. ASSUME NEW p \in Spots(c, n)
      PROVE  /\ p[1] \in 0 .. n - 1 /\ p[2] \in 1 .. Len(c[p[1]])
             /\ p = <<p[1], p[2]>>
  <2>1. PICK b \in 0 .. n - 1 : p \in {b} \X DOMAIN c[b]
    BY <1>2 DEF Spots
  <2> QED BY <1>1, <2>1
<1>3. ASSUME NEW b \in 0 .. n - 1, NEW i \in 1 .. Len(c[b])
      PROVE  <<b, i>> \in Spots(c, n)
  <2>1. <<b, i>> \in {b} \X DOMAIN c[b]
    BY <1>1
  <2> QED BY <2>1 DEF Spots
<1> QED BY <1>1, <1>2, <1>3

LEMMA ChainsLaidOut ==
  ASSUME NEW c, NEW n, NEW s, ChainsOK(c, n), Stock(ChainedBelow(c, n), s)
  PROVE  /\ \A b \in 0 .. n - 1 : \A i \in DOMAIN c[b] : Hash[c[b][i].key] % n = b
         /\ \A p, q \in Spots(c, n) : EntryAt(c, p).key = EntryAt(c, q).key => p = q
         /\ s = Cardinality(Spots(c, n))
<1> DEFINE B == Spots(c, n)
           C == ChainedBelow(c, n)
           f == [p \in B |-> EntryAt(c, p)]
<1>1. \A b \in 0 .. n - 1 : \A i \in DOMAIN c[b] : Hash[c[b][i].key] % n = b
  BY SpotIs, LinkIs DEF ChainsOK
<1>2. ASSUME NEW p \in B
      PROVE  EntryAt(c, p) \in C
  <2>1. EntryAt(c, p) \in Links(c[p[1]]) /\ p[1] \in 0 .. n - 1 /\ EntryAt(c, p) \in Entry
    BY SpotIs, LinkIs DEF EntryAt
  <2> QED BY <2>1 DEF ChainedBelow
<1>3. ASSUME NEW p \in B, NEW q \in B, EntryAt(c, p).key = EntryAt(c, q).key
      PROVE  p = q
  <2>1. p[1] = q[1]
    <3>1. Hash[EntryAt(c, p).key] % n = p[1]
      BY <1>1, SpotIs DEF EntryAt
    <3>2. Hash[EntryAt(c, q).key] % n = q[1]
      BY <1>1, SpotIs DEF EntryAt
    <3> QED BY <1>3, <3>1, <3>2
  <2>2. p[2] = q[2]
    <3>1. PICK u : u = c[p[1]]
      OBVIOUS
    <3>2. Keyed(u) /\ p[2] \in 1 .. Len(u) /\ q[2] \in 1 .. Len(u)
      BY <2>1, <3>1, SpotIs
    <3>3. u[p[2]].key = u[q[2]].key
      BY <1>3, <2>1, <3>1 DEF EntryAt
    <3> QED BY <3>2, <3>3 DEF Keyed
  <2>3. p = <<p[1], p[2]>> /\ q = <<q[1], q[2]>>
    BY SpotIs
  <2> QED BY <2>1, <2>2, <2>3
<1>4. ASSUME NEW e \in C
      PROVE  \E p \in B : EntryAt(c, p) = e
  <2>1. PICK b \in 0 .. n - 1 : e \in Links(c[b])
    BY DEF ChainedBelow
  <2>2. PICK i \in 1 .. Len(c[b]) : c[b][i] = e
    BY <2>1 DEF Links
  <2>3. <<b, i>> \in B
    BY SpotIs
  <2>4. EntryAt(c, <<b, i>>) = e
    BY <2>2 DEF EntryAt
  <2> QED BY <2>3, <2>4
<1>5. IsFiniteSet(C) /\ Cardinality(C) = s
  BY DEF Stock
<1> HIDE DEF B, C
<1>6. f \in [B -> C]
  BY <1>2
<1>7. \A p, q \in B : f[p] = f[q] => p = q
  BY <1>3
<1>8. \A e \in C : \E p \in B : f[p] = e
  BY <1>4
<1> HIDE DEF f
<1>9. Cardinality(C) = Cardinality(B)
  BY ONLY <1>5, <1>6, <1>7, <1>8, SameNumberBack
<1> QED BY <1>1, <1>3, <1>5, <1>9 DEF B

\* With a modest caller, that the threshold is kept to.
LEMMA KeptBounds ==
  ASSUME NEW n \in Nat, NEW s \in Nat, NEW poor, Kept(n, s, poor), Modest
  PROVE  poor \/ s <= (n * 3) \div 4
<1>1. poor \/ 4 * s <= 3 * n
  BY DEF Kept
<1>2. 4 * s <= 3 * n => s <= (n * 3) \div 4
  OBVIOUS
<1> QED BY <1>1, <1>2

LEMMA ExLayout ==
  ASSUME ExSound
  PROVE  X!ListsSound /\ (Modest => X!LoadBounded)
<1>1. PICK n : ExFilled(n)
  BY DEF ExSound
<1>2. /\ n \in Nat /\ size \in Nat /\ X!capacity = n
      /\ ChainsOK(table, n) /\ Stock(ChainedBelow(table, n), size)
      /\ Kept(n, size, scarce)
  BY <1>1, ExFilledIs
<1>3. DOMAIN table = 0 .. n - 1
  BY <1>2, ExCapacity
<1>4. X!Places = Spots(table, n)
  BY <1>3 DEF X!Places, Spots
<1>5. \A p : X!EntryAt(p) = EntryAt(table, p)
  BY DEF X!EntryAt, EntryAt
<1>6. /\ \A b \in 0 .. n - 1 : \A i \in DOMAIN table[b] : Hash[table[b][i].key] % n = b
      /\ \A p, q \in Spots(table, n) : EntryAt(table, p).key = EntryAt(table, q).key => p = q
      /\ size = Cardinality(Spots(table, n))
  BY <1>2, ChainsLaidOut
<1>7. size = X!Cardinality(X!Places)
  BY <1>4, <1>6, SameCount
<1>8. X!ListsSound
  BY <1>2, <1>3, <1>4, <1>5, <1>6, <1>7 DEF X!ListsSound, X!index_of
<1>9. Modest => X!LoadBounded
  <2>1. X!threshold = (n * 3) \div 4
    BY <1>2 DEF X!threshold
  <2> QED BY <1>2, <2>1, KeptBounds DEF X!LoadBounded
<1> QED BY <1>8, <1>9

LEMMA MapLayout ==
  ASSUME MapSound
  PROVE  M!ListsSound /\ (Modest => M!LoadBounded)
<1>1. PICK n : MapFilled(n)
  BY DEF MapSound
<1>2. /\ n \in Nat /\ size \in Nat /\ M!capacity = n
      /\ ListsOK(table, n) /\ Stock(ListedBelow(table, n), size)
      /\ Kept(n, size, scarce)
  BY <1>1, MapFilledIs
<1>3. DOMAIN table = 0 .. n - 1
  BY <1>2, MapCapacity
<1>4. PICK c : c = ChainsIn(table, n)
  OBVIOUS
<1>5. /\ ChainsOK(c, n) /\ Stock(ChainedBelow(c, n), size)
      /\ \A b \in 0 .. n - 1 : c[b] = table[b].chain
  BY <1>2, <1>4 DEF ListsOK, ListedBelow, ChainsIn
<1>6. /\ \A b \in 0 .. n - 1 : \A i \in DOMAIN c[b] : Hash[c[b][i].key] % n = b
      /\ \A p, q \in Spots(c, n) : EntryAt(c, p).key = EntryAt(c, q).key => p = q
      /\ size = Cardinality(Spots(c, n))
  BY <1>5, ChainsLaidOut
<1>7. M!Places = Spots(c, n)
  BY <1>3, <1>5 DEF M!Places, Spots
<1>8. \A p \in Spots(c, n) : M!EntryAt(p) = EntryAt(c, p)
  BY <1>5, SpotIs DEF M!EntryAt, EntryAt
<1>9. size = M!Cardinality(M!Places)
  BY <1>6, <1>7, SameCount
<1>10. \A b \in DOMAIN table :
         table[b] # M!NoList =>
           /\ table[b].size = Len(table[b].chain)
           /\ \A i \in DOMAIN table[b].chain :
                M!index_of(table[b].chain[i].key, M!capacity) = b
  <2>1. \A b \in 0 .. n - 1 : table[b] # M!NoList => table[b].size = Len(table[b].chain)
    BY <1>2 DEF ListsOK
  <2>2. \A b \in 0 .. n - 1 : \A i \in DOMAIN table[b].chain :
          M!index_of(table[b].chain[i].key, M!capacity) = b
    BY <1>2, <1>5, <1>6 DEF M!index_of
  <2> QED BY <1>3, <2>1, <2>2
<1>11. M!ListsSound
  BY <1>6, <1>7, <1>8, <1>9, <1>10 DEF M!ListsSound
<1>12. Modest => M!LoadBounded
  <2>1. M!threshold = (n * 3) \div 4
    BY <1>2 DEF M!threshold
  <2> QED BY <1>2, <2>1, KeptBounds DEF M!LoadBounded
<1> QED BY <1>11, <1>12

-----------------------------------------------------------------------------
(* The program                                                             *)

\* The container in use is sound.
Sound ==
  /\ kind \in Kinds
  /\ scarce \in BOOLEAN
  /\ kind = "hash_table" => TableSound
  /\ kind = "hash_map" => MapSound
  /\ kind = "hash_map_ex" => ExSound

NoPairs == [k \in Keys |-> None]

ContentsAre ==
  /\ kind = "hash_table" => Contents = TableContents
  /\ kind = "hash_map" => Contents = MapContents
  /\ kind = "hash_map_ex" => Contents = ExContents

LEMMA ContentsKnown == ContentsAre
<1>1. ASSUME kind = "hash_table"
      PROVE  Contents = TableContents
  BY <1>1 DEF Contents, Lookup, TableContents
<1>2. ASSUME kind = "hash_map"
      PROVE  Contents = MapContents
  BY <1>2 DEF Contents, Lookup, MapContents
<1>3. ASSUME kind = "hash_map_ex"
      PROVE  Contents = ExContents
  BY <1>3 DEF Contents, Lookup, ExContents
<1> QED BY <1>1, <1>2, <1>3 DEF ContentsAre

LEMMA SoundAtFirst ==
  ASSUME Init
  PROVE  Sound /\ Contents = NoPairs /\ size = 0
<1>1. kind \in Kinds
  BY DEF Init
<1>2. CASE kind = "hash_table"
  <2>1. T!Init
    BY <1>2 DEF Init
  <2>2. size = 0 /\ scarce \in BOOLEAN
    BY <2>1 DEF T!Init
  <2> QED BY <1>1, <1>2, <2>1, <2>2, TableStarts, ContentsKnown DEF Sound, NoPairs, ContentsAre
<1>3. CASE kind = "hash_map"
  <2>1. M!Init
    BY <1>3 DEF Init
  <2>2. size = 0 /\ scarce \in BOOLEAN
    BY <2>1 DEF M!Init
  <2> QED BY <1>1, <1>3, <2>1, <2>2, MapStarts, ContentsKnown DEF Sound, NoPairs, ContentsAre
<1>4. CASE kind = "hash_map_ex"
  <2>1. X!Init
    BY <1>4 DEF Init
  <2>2. size = 0 /\ scarce \in BOOLEAN
    BY <2>1 DEF X!Init
  <2> QED BY <1>1, <1>4, <2>1, <2>2, ExStarts, ContentsKnown DEF Sound, NoPairs, ContentsAre
<1> QED BY <1>1, <1>2, <1>3, <1>4 DEF Kinds

\* What the container in use does is what the program sees.
LEMMA SeenByKind ==
  ASSUME Sound, UNCHANGED <<kind, scarce>>
  PROVE  /\ kind \in Kinds /\ scarce \in BOOLEAN /\ scarce' = scarce
         /\ kind = "hash_table"
              => /\ TableSound
                 /\ Contents = TableContents /\ Contents' = TableContents'
                 /\ TableSound' => Sound'
         /\ kind = "hash_map"
              => /\ MapSound
                 /\ Contents = MapContents /\ Contents' = MapContents'
                 /\ MapSound' => Sound'
         /\ kind = "hash_map_ex"
              => /\ ExSound
                 /\ Contents = ExContents /\ Contents' = ExContents'
                 /\ ExSound' => Sound'
<1>1. ContentsAre /\ ContentsAre'
  BY ContentsKnown, PTL
<1>2. kind' = kind /\ scarce' = scarce
  OBVIOUS
<1> QED BY <1>1, <1>2 DEF Sound, ContentsAre

LEMMA SoundInserts ==
  ASSUME NEW k \in Keys, NEW v \in Vals, Sound, UNCHANGED <<kind, scarce>>, Insert(k, v)
  PROVE  Sound' /\ Inserted(Contents, Contents', k, v)
<1>1. kind \in Kinds
  BY SeenByKind
<1>2. CASE kind = "hash_table"
  <2>1. T!insert(k, v) \/ T!insert_rvalue(k, v) \/ T!emplace(k, v)
    BY <1>2 DEF Insert
  <2>2. TableSound' /\ Inserted(TableContents, TableContents', k, v)
    BY <1>2, <2>1, SeenByKind, TableInserts
  <2>3. Sound' /\ Contents = TableContents /\ Contents' = TableContents'
    BY <1>2, <2>2, SeenByKind
  <2> QED BY <2>2, <2>3
<1>3. CASE kind = "hash_map"
  <2>1. M!insert(k, v) \/ M!insert_rvalue(k, v) \/ M!emplace(k, v)
    BY <1>3 DEF Insert
  <2>2. MapSound' /\ Inserted(MapContents, MapContents', k, v)
    BY <1>3, <2>1, SeenByKind, MapInserts
  <2>3. Sound' /\ Contents = MapContents /\ Contents' = MapContents'
    BY <1>3, <2>2, SeenByKind
  <2> QED BY <2>2, <2>3
<1>4. CASE kind = "hash_map_ex"
  <2>1. X!insert(k, v) \/ X!insert_rvalue(k, v) \/ X!emplace(k, v)
    BY <1>4 DEF Insert
  <2>2. ExSound' /\ Inserted(ExContents, ExContents', k, v)
    BY <1>4, <2>1, SeenByKind, ExInserts
  <2>3. Sound' /\ Contents = ExContents /\ Contents' = ExContents'
    BY <1>4, <2>2, SeenByKind
  <2> QED BY <2>2, <2>3
<1> QED BY <1>1, <1>2, <1>3, <1>4 DEF Kinds

LEMMA SoundErases ==
  ASSUME NEW k \in Keys, Sound, UNCHANGED <<kind, scarce>>, Erase(k)
  PROVE  Sound' /\ Drops(Contents, Contents', size, size', k)
<1>1. kind \in Kinds
  BY SeenByKind
<1>2. CASE kind = "hash_table"
  <2>1. T!erase(k) \/ T!erase_rvalue(k)
    BY <1>2 DEF Erase
  <2>2. TableSound' /\ Drops(TableContents, TableContents', size, size', k)
    BY <1>2, <2>1, SeenByKind, TableErases
  <2>3. Sound' /\ Contents = TableContents /\ Contents' = TableContents'
    BY <1>2, <2>2, SeenByKind
  <2> QED BY <2>2, <2>3
<1>3. CASE kind = "hash_map"
  <2>1. M!erase(k) \/ M!erase_rvalue(k)
    BY <1>3 DEF Erase
  <2>2. MapSound' /\ Drops(MapContents, MapContents', size, size', k)
    BY <1>3, <2>1, SeenByKind, MapErases
  <2>3. Sound' /\ Contents = MapContents /\ Contents' = MapContents'
    BY <1>3, <2>2, SeenByKind
  <2> QED BY <2>2, <2>3
<1>4. CASE kind = "hash_map_ex"
  <2>1. X!erase(k) \/ X!erase_rvalue(k)
    BY <1>4 DEF Erase
  <2>2. ExSound' /\ Drops(ExContents, ExContents', size, size', k)
    BY <1>4, <2>1, SeenByKind, ExErases
  <2>3. Sound' /\ Contents = ExContents /\ Contents' = ExContents'
    BY <1>4, <2>2, SeenByKind
  <2> QED BY <2>2, <2>3
<1> QED BY <1>1, <1>2, <1>3, <1>4 DEF Kinds

LEMMA SoundClears ==
  ASSUME Sound, UNCHANGED <<kind, scarce>>, Clear
  PROVE  Sound' /\ Contents' = NoPairs /\ size' = 0
<1>1. kind \in Kinds
  BY SeenByKind
<1>2. CASE kind = "hash_table"
  <2>1. T!clear
    BY <1>2 DEF Clear
  <2>2. TableSound' /\ TableContents' = NoPairs /\ size' = 0
    BY <1>2, <2>1, SeenByKind, TableClears DEF NoPairs
  <2>3. Sound' /\ Contents = TableContents /\ Contents' = TableContents'
    BY <1>2, <2>2, SeenByKind
  <2> QED BY <2>2, <2>3
<1>3. CASE kind = "hash_map"
  <2>1. M!clear
    BY <1>3 DEF Clear
  <2>2. MapSound' /\ MapContents' = NoPairs /\ size' = 0
    BY <1>3, <2>1, SeenByKind, MapClears DEF NoPairs
  <2>3. Sound' /\ Contents = MapContents /\ Contents' = MapContents'
    BY <1>3, <2>2, SeenByKind
  <2> QED BY <2>2, <2>3
<1>4. CASE kind = "hash_map_ex"
  <2>1. X!clear
    BY <1>4 DEF Clear
  <2>2. ExSound' /\ ExContents' = NoPairs /\ size' = 0
    BY <1>4, <2>1, SeenByKind, ExClears DEF NoPairs
  <2>3. Sound' /\ Contents = ExContents /\ Contents' = ExContents'
    BY <1>4, <2>2, SeenByKind
  <2> QED BY <2>2, <2>3
<1> QED BY <1>1, <1>2, <1>3, <1>4 DEF Kinds

LEMMA SoundReserves ==
  ASSUME NEW n \in Requests, Sound, UNCHANGED <<kind, scarce>>, Reserve(n)
  PROVE  Sound' /\ Contents' = NoPairs /\ size' = 0 /\ capacity' # capacity
<1>1. kind \in Kinds
  BY SeenByKind
<1>2. CASE kind = "hash_table"
  <2>1. T!reserve(n)
    BY <1>2 DEF Reserve
  <2>2. TableSound' /\ TableContents' = NoPairs /\ size' = 0 /\ capacity' # capacity
    BY <1>2, <2>1, SeenByKind, TableReserves DEF NoPairs
  <2>3. Sound' /\ Contents = TableContents /\ Contents' = TableContents'
    BY <1>2, <2>2, SeenByKind
  <2> QED BY <2>2, <2>3
<1>3. CASE kind = "hash_map"
  <2>1. M!reserve(n)
    BY <1>3 DEF Reserve
  <2>2. MapSound' /\ MapContents' = NoPairs /\ size' = 0 /\ capacity' # capacity
    BY <1>3, <2>1, SeenByKind, MapReserves DEF NoPairs
  <2>3. Sound' /\ Contents = MapContents /\ Contents' = MapContents'
    BY <1>3, <2>2, SeenByKind
  <2> QED BY <2>2, <2>3
<1>4. CASE kind = "hash_map_ex"
  <2>1. X!reserve(n)
    BY <1>4 DEF Reserve
  <2>2. ExSound' /\ ExContents' = NoPairs /\ size' = 0 /\ capacity' # capacity
    BY <1>4, <2>1, SeenByKind, ExReserves DEF NoPairs
  <2>3. Sound' /\ Contents = ExContents /\ Contents' = ExContents'
    BY <1>4, <2>2, SeenByKind
  <2> QED BY <2>2, <2>3
<1> QED BY <1>1, <1>2, <1>3, <1>4 DEF Kinds

LEMMA SoundRehashes ==
  ASSUME NEW n \in Requests, Sound, UNCHANGED <<kind, scarce>>, Rehash(n)
  PROVE  Sound' /\ Contents' = Contents /\ size' = size
<1>1. kind \in Kinds
  BY SeenByKind
<1>2. CASE kind = "hash_table"
  <2>1. T!rehash(n) \/ T!shrink_to_fit(n)
    BY <1>2 DEF Rehash
  <2>2. TableSound' /\ TableContents' = TableContents /\ size' = size
    BY <1>2, <2>1, SeenByKind, TableRehashes
  <2>3. Sound' /\ Contents = TableContents /\ Contents' = TableContents'
    BY <1>2, <2>2, SeenByKind
  <2> QED BY <2>2, <2>3
<1>3. CASE kind = "hash_map"
  <2>1. M!rehash(n) \/ M!shrink_to_fit(n)
    BY <1>3 DEF Rehash
  <2>2. MapSound' /\ MapContents' = MapContents /\ size' = size
    BY <1>3, <2>1, SeenByKind, MapRehashes
  <2>3. Sound' /\ Contents = MapContents /\ Contents' = MapContents'
    BY <1>3, <2>2, SeenByKind
  <2> QED BY <2>2, <2>3
<1>4. CASE kind = "hash_map_ex"
  <2>1. X!rehash(n) \/ X!shrink_to_fit(n)
    BY <1>4 DEF Rehash
  <2>2. ExSound' /\ ExContents' = ExContents /\ size' = size
    BY <1>4, <2>1, SeenByKind, ExRehashes
  <2>3. Sound' /\ Contents = ExContents /\ Contents' = ExContents'
    BY <1>4, <2>2, SeenByKind
  <2> QED BY <2>2, <2>3
<1> QED BY <1>1, <1>2, <1>3, <1>4 DEF Kinds

LEMMA SoundStays ==
  ASSUME Sound, UNCHANGED vars
  PROVE  Sound' /\ Contents' = Contents /\ size' = size
<1>1. /\ kind \in Kinds /\ table' = table /\ size' = size /\ scarce' = scarce
      /\ UNCHANGED <<kind, scarce>>
  BY DEF vars, Sound
<1>2. CASE kind = "hash_table"
  <2>1. PICK n : TableFilled(n)
    BY <1>1, <1>2, SeenByKind DEF TableSound
  <2>2. /\ TableOK(table', n) /\ n <= Largest /\ 4 * size <= 3 * n
        /\ NodesBelow(table', n) = NodesBelow(table, n)
    BY <1>1, <2>1, TableFilledIs
  <2>3. TableSound' /\ TableContents' = TableContents
    BY <1>1, <2>1, <2>2, TableMoved
  <2> QED BY <1>1, <1>2, <2>3, SeenByKind
<1>3. CASE kind = "hash_map"
  <2>1. PICK n : MapFilled(n)
    BY <1>1, <1>3, SeenByKind DEF MapSound
  <2>2. /\ ListsOK(table', n) /\ Kept(n, size, scarce)
        /\ ListedBelow(table', n) = ListedBelow(table, n)
    BY <1>1, <2>1, MapFilledIs
  <2>3. MapSound' /\ MapContents' = MapContents
    BY <1>1, <2>1, <2>2, MapMoved
  <2> QED BY <1>1, <1>3, <2>3, SeenByKind
<1>4. CASE kind = "hash_map_ex"
  <2>1. PICK n : ExFilled(n)
    BY <1>1, <1>4, SeenByKind DEF ExSound
  <2>2. /\ ChainsOK(table', n) /\ Kept(n, size, scarce)
        /\ ChainedBelow(table', n) = ChainedBelow(table, n)
    BY <1>1, <2>1, ExFilledIs
  <2>3. ExSound' /\ ExContents' = ExContents
    BY <1>1, <2>1, <2>2, ExMoved
  <2> QED BY <1>1, <1>4, <2>3, SeenByKind
<1> QED BY <1>1, <1>2, <1>3, <1>4 DEF Kinds

\* The container in use is sound in every reachable state, for all keys,
\* values, hash functions and capacities, whichever allocations fail.
THEOREM AlwaysSound == Spec => []Sound
<1>1. Init => Sound
  BY SoundAtFirst
<1>2. Sound /\ [Next]_vars => Sound'
  <2> SUFFICES ASSUME Sound, [Next]_vars
               PROVE  Sound'
    OBVIOUS
  <2>1. CASE UNCHANGED vars
    BY <2>1, SoundStays
  <2>2. CASE Next
    BY <2>2, SoundInserts, SoundErases, SoundClears, SoundReserves, SoundRehashes DEF Next
  <2> QED BY <2>1, <2>2
<1> QED BY <1>1, <1>2, PTL DEF Spec

\* Each container keeps its layout sound: open addressing leaves a bucket
\* empty and stores a key once, chains hold what belongs to them, and the
\* counters count.
THEOREM LayoutAlwaysSound == Spec => []LayoutSound
<1>1. Sound => LayoutSound
  BY TableLayout, MapLayout, ExLayout DEF Sound, LayoutSound
<1> QED BY <1>1, AlwaysSound, PTL

\* Where no caller asks a constructor for more than the largest capacity,
\* the tables grow in time.
THEOREM AlwaysGrownInTime ==
  ASSUME Modest
  PROVE  Spec => []GrownInTime
<1>1. Sound => GrownInTime
  BY TableLayout, MapLayout, ExLayout DEF Sound, GrownInTime
<1> QED BY <1>1, AlwaysSound, PTL

\* What a step does is what was called for.
EffectOf(op, k, v, old, new) ==
  /\ op = "insert" => \/ new = [old EXCEPT ![k] = v]
                      \/ scarce /\ old[k] = None /\ new = old
  /\ op = "erase" => new = [old EXCEPT ![k] = None]
  /\ op = "rehash" => new = old
  /\ op = "clear" \/ (op = "reserve" /\ capacity' > capacity)
       => new = [x \in Keys |-> None]
  /\ op = "reserve" /\ capacity' = capacity => new = old

LEMMA StepTakesEffect ==
  ASSUME Sound, Next
  PROVE  EffectOf(called'.op, called'.key, called'.val, Contents, Contents')
<1>1. UNCHANGED <<kind, scarce>>
  BY DEF Next
<1> DEFINE C == Contents
           D == Contents'
<1>2. ASSUME NEW k \in Keys, NEW v \in Vals, Insert(k, v)
      PROVE  EffectOf(called'.op, called'.key, called'.val, C, D)
  <2>1. called'.op = "insert" /\ called'.key = k /\ called'.val = v
    BY <1>2 DEF Insert, Call
  <2>2. Inserted(C, D, k, v)
    BY <1>1, <1>2, SoundInserts
  <2> HIDE DEF C, D
  <2> QED BY <2>1, <2>2 DEF EffectOf, Inserted, Puts
<1>3. ASSUME NEW k \in Keys, Erase(k)
      PROVE  EffectOf(called'.op, called'.key, called'.val, C, D)
  <2>1. called'.op = "erase" /\ called'.key = k
    BY <1>3 DEF Erase, Call
  <2>2. Drops(C, D, size, size', k)
    BY <1>1, <1>3, SoundErases
  <2> HIDE DEF C, D
  <2> QED BY <2>1, <2>2 DEF EffectOf, Drops
<1>4. ASSUME Clear
      PROVE  EffectOf(called'.op, called'.key, called'.val, C, D)
  <2>1. called'.op = "clear"
    BY <1>4 DEF Clear, Call
  <2>2. D = NoPairs
    BY <1>1, <1>4, SoundClears
  <2> HIDE DEF C, D
  <2> QED BY <2>1, <2>2 DEF EffectOf, NoPairs
<1>5. ASSUME NEW n \in Requests, Reserve(n)
      PROVE  EffectOf(called'.op, called'.key, called'.val, C, D)
  <2>1. called'.op = "reserve"
    BY <1>5 DEF Reserve, Call
  <2>2. D = NoPairs /\ capacity' # capacity
    BY <1>1, <1>5, SoundReserves
  <2> HIDE DEF C, D
  <2> QED BY <2>1, <2>2 DEF EffectOf, NoPairs
<1>6. ASSUME NEW n \in Requests, Rehash(n)
      PROVE  EffectOf(called'.op, called'.key, called'.val, C, D)
  <2>1. called'.op = "rehash"
    BY <1>6 DEF Rehash, Call
  <2>2. D = C
    BY <1>1, <1>6, SoundRehashes
  <2> HIDE DEF C, D
  <2> QED BY <2>1, <2>2 DEF EffectOf
<1> QED BY <1>2, <1>3, <1>4, <1>5, <1>6 DEF Next

\* What a call does to the contents is what was asked, all of it or, where
\* memory ran out, nothing of it; only reserve drops what was stored.
THEOREM CallsAlwaysTakeEffect == Spec => CallsTakeEffect
<1> DEFINE Effect == EffectOf(called'.op, called'.key, called'.val, Contents, Contents')
<1>1. Sound /\ [Next]_vars => [Effect]_vars
  BY StepTakesEffect
<1>2. Spec => [][Effect]_vars
  <2> HIDE DEF Effect
  <2> QED BY <1>1, AlwaysSound, PTL DEF Spec
<1> QED BY <1>2 DEF CallsTakeEffect, EffectOf

\* Each container implements a map: a step of a call maps to the same step
\* of MapSpec, a rehash and an insertion without memory to a stutter.
THEOREM ContainersAreMaps == Spec => ImplementsMap
<1>1. Init => Abstract!Init
  BY SoundAtFirst DEF Abstract!Init, NoPairs
<1>2. Sound /\ [Next]_vars => [Abstract!Next]_Abstract!vars
  <2> SUFFICES ASSUME Sound, [Next]_vars
               PROVE  Abstract!Next \/ (Contents' = Contents /\ size' = size)
    BY DEF Abstract!vars
  <2> DEFINE C == Contents
             D == Contents'
  <2>1. CASE UNCHANGED vars
    BY <2>1, SoundStays
  <2>2. ASSUME NEW k \in Keys, NEW v \in Vals, Insert(k, v), UNCHANGED <<kind, scarce>>
        PROVE  Abstract!Next \/ (D = C /\ size' = size)
    <3>1. Inserted(C, D, k, v)
      BY <2>2, SoundInserts
    <3>2. ASSUME Puts(C, D, size, size', k, v)
          PROVE  Abstract!Put(k, v)
      BY <3>2 DEF Puts, Abstract!Put
    <3> HIDE DEF C, D
    <3> QED BY <3>1, <3>2 DEF Inserted, Abstract!Next
  <2>3. ASSUME NEW k \in Keys, Erase(k), UNCHANGED <<kind, scarce>>
        PROVE  Abstract!Next
    <3>1. Drops(C, D, size, size', k)
      BY <2>3, SoundErases
    <3>2. Abstract!Remove(k)
      BY <3>1 DEF Drops, Abstract!Remove
    <3> QED BY <3>2 DEF Abstract!Next
  <2>4. ASSUME D = NoPairs, size' = 0
        PROVE  Abstract!Next
    <3>1. Abstract!Clear
      BY <2>4 DEF Abstract!Clear, NoPairs
    <3> QED BY <3>1 DEF Abstract!Next
  <2>5. ASSUME NEW n \in Requests, Rehash(n), UNCHANGED <<kind, scarce>>
        PROVE  D = C /\ size' = size
    BY <2>5, SoundRehashes
  <2>6. ASSUME Clear \/ (\E n \in Requests : Reserve(n)), UNCHANGED <<kind, scarce>>
        PROVE  D = NoPairs /\ size' = 0
    BY <2>6, SoundClears, SoundReserves
  <2> HIDE DEF C, D
  <2>7. CASE Next
    <3>1. Abstract!Next \/ (D = C /\ size' = size)
      BY <2>2, <2>3, <2>4, <2>5, <2>6, <2>7 DEF Next
    <3> QED BY <3>1 DEF C, D
  <2> QED BY <2>1, <2>7
<1> QED BY <1>1, <1>2, AlwaysSound, PTL DEF Spec, ImplementsMap, Abstract!Spec
=============================================================================
