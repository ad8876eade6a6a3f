------------------------ MODULE LRUHashTableProofs -------------------------
(***************************************************************************)
(* Proofs about LRUHashTable, for every set of keys, capacity, window and  *)
(* second hash.                                                            *)
(*                                                                         *)
(* The argument rests on one invariant, Sound: every key lies where its    *)
(* search passes, no slot before it on that search was never used, and no  *)
(* key has two slots.  A slot that was used never becomes unused again,    *)
(* so that no operation cuts the search of a key off.                      *)
(***************************************************************************)
EXTENDS LRUHashTable, FiniteSetTheorems, WellFoundedInduction, TLAPS

-----------------------------------------------------------------------------
(* The searches                                                            *)

\* A nonempty set of natural numbers has a least element.
LEMMA NatMinimum ==
  ASSUME NEW S \in SUBSET Nat, S # {}
  PROVE  \E x \in S : \A y \in S : x <= y
<1> DEFINE R == OpToRel(<, Nat)
<1>1. IsWellFoundedOn(R, Nat)
  BY NatLessThanWellFounded
<1>2. PICK x \in S : \A y \in S : ~(<<y, x>> \in R)
  <2> HIDE DEF R
  <2> QED BY <1>1, WFMin
<1>3. \A a, b \in Nat : a < b => <<a, b>> \in R
  BY DEF OpToRel
<1>4. \A y \in S : ~(y < x)
  <2> HIDE DEF R
  <2> QED BY <1>2, <1>3
<1> QED BY <1>4

\* Slots of a table whose size field may be any integer.
Slotted == [first : [Index -> HashNode], second : [Index -> HashNode],
            size : Int]

\* A key's two hashes are slots, and its own window is never empty.
LEMMA HashInIndex ==
  ASSUME NEW k \in Keys
  PROVE  /\ getHash1(k) \in Index /\ getHash2(k) \in Index
         /\ getHash1(k) \in Window(k)
         /\ Window(k) \subseteq Index
<1>1. /\ k \in Nat /\ XorKey[k] \in Nat
      /\ TableCapacity \in Nat /\ TableCapacity > 0
      /\ FirstLayerSearchStep \in Nat /\ FirstLayerSearchStep > 0
  BY TableAssumption
<1>2. \A a \in Nat : a % TableCapacity \in Index
  BY <1>1 DEF Index
<1>3. getHash1(k) \in Index /\ getHash2(k) \in Index
  BY <1>1, <1>2 DEF getHash1, getHash2
<1>4. getHash1(k) \in Window(k)
  BY <1>1, <1>3 DEF Window, Index
<1> QED BY <1>3, <1>4 DEF Window

\* The probes of the second table meet every slot, and each of them once.
LEMMA ProbeCovers ==
  ASSUME NEW k \in Keys
  PROVE  /\ \A n \in Index : Probe(k, n) \in Index
         /\ \A n, m \in Index : Probe(k, n) = Probe(k, m) => n = m
         /\ \A i \in Index : \E n \in Index : Probe(k, n) = i
<1>1. /\ getHash2(k) \in Nat /\ getHash2(k) < TableCapacity
      /\ TableCapacity \in Nat
  BY HashInIndex, TableAssumption DEF Index
<1>2. \A n \in Index : Probe(k, n) \in Index
  BY <1>1 DEF Probe, Index
<1>3. \A n, m \in Index : Probe(k, n) = Probe(k, m) => n = m
  BY <1>1 DEF Probe, Index
<1>4. ASSUME NEW i \in Index
      PROVE  \E n \in Index : Probe(k, n) = i
  <2>1. CASE i >= getHash2(k)
    <3>1. i - getHash2(k) \in Index /\ Probe(k, i - getHash2(k)) = i
      BY <1>1, <2>1 DEF Probe, Index
    <3> QED BY <3>1
  <2>2. CASE i < getHash2(k)
    <3> DEFINE n == i + TableCapacity - getHash2(k)
    <3>1. n \in Index /\ Probe(k, n) = i
      BY <1>1, <2>2 DEF Probe, Index
    <3> QED BY <3>1
  <2> QED BY <1>1, <2>1, <2>2 DEF Index
<1> QED BY <1>2, <1>3, <1>4

\* A search of the first table that meets a mark stops at the first slot that
\* has one.
LEMMA First1Found ==
  ASSUME NEW T \in Slotted, NEW k \in Keys, NEW marks, Meets1(T, k, marks)
  PROVE  /\ First1(T, k, marks) \in Window(k)
         /\ T.first[First1(T, k, marks)].key \in marks
         /\ \A j \in Window(k) :
              T.first[j].key \in marks => First1(T, k, marks) <= j
<1> DEFINE S == {i \in Window(k) : T.first[i].key \in marks}
<1>1. S \in SUBSET Nat /\ S # {}
  BY TableAssumption DEF Meets1, Window, Index
<1>2. PICK x \in S : \A y \in S : x <= y
  <2> HIDE DEF S
  <2> QED BY <1>1, NatMinimum
<1>3. \E i \in Window(k) :
        /\ T.first[i].key \in marks
        /\ \A j \in Window(k) : T.first[j].key \in marks => i <= j
  BY <1>2
<1> QED BY <1>3 DEF First1

\* The same of the second table, whose slots are counted along the probes.
LEMMA First2Found ==
  ASSUME NEW T \in Slotted, NEW k \in Keys, NEW marks, Meets2(T, k, marks)
  PROVE  \E n \in Index :
           /\ First2(T, k, marks) = Probe(k, n)
           /\ T.second[Probe(k, n)].key \in marks
           /\ \A m \in Index :
                T.second[Probe(k, m)].key \in marks => n <= m
<1> DEFINE S == {n \in Index : T.second[Probe(k, n)].key \in marks}
           Least(n) == /\ T.second[Probe(k, n)].key \in marks
                       /\ \A m \in Index :
                            T.second[Probe(k, m)].key \in marks => n <= m
<1>1. S \in SUBSET Nat /\ S # {}
  BY TableAssumption DEF Meets2, Index
<1>2. PICK x \in S : \A y \in S : x <= y
  <2> HIDE DEF S
  <2> QED BY <1>1, NatMinimum
<1>3. \E n \in Index : Least(n)
  BY <1>2
<1>4. /\ (CHOOSE n \in Index : Least(n)) \in Index
      /\ Least(CHOOSE n \in Index : Least(n))
  <2> HIDE DEF Least
  <2> QED BY <1>3
<1>5. First2(T, k, marks) = Probe(k, CHOOSE n \in Index : Least(n))
  BY DEF First2
<1> QED BY <1>4, <1>5

-----------------------------------------------------------------------------
(* The invariant                                                           *)

\* No slot of the first search of k before slot i was never used.
Open1(T, k, i) ==
  \A j \in Window(k) : j < i => T.first[j].key # UnusedKey
\* No slot of the whole first search was, and none of the second search
\* before probe n.
Open2(T, k, n) ==
  /\ \A j \in Window(k) : T.first[j].key # UnusedKey
  /\ \A m \in Index : m < n => T.second[Probe(k, m)].key # UnusedKey

Holds1(T, k, i) == T.first[i].key = k
Holds2(T, k, n) == T.second[Probe(k, n)].key = k

\* No key has two slots.
OneSlot(T) ==
  \A k \in Keys :
    /\ \A i, j \in Index : Holds1(T, k, i) /\ Holds1(T, k, j) => i = j
    /\ \A n, m \in Index : Holds2(T, k, n) /\ Holds2(T, k, m) => n = m
    /\ \A i, n \in Index : ~(Holds1(T, k, i) /\ Holds2(T, k, n))

\* A slot that holds a key holds a value too.
Filled(T) ==
  \A i \in Index : /\ T.first[i].key \in Keys => T.first[i].value \in Values
                   /\ T.second[i].key \in Keys => T.second[i].value \in Values

Layout(T) ==
  /\ T \in Slotted
  /\ \A k \in Keys, i \in Index :
       Holds1(T, k, i) => i \in Window(k) /\ Open1(T, k, i)
  /\ \A k \in Keys, n \in Index : Holds2(T, k, n) => Open2(T, k, n)
  /\ OneSlot(T)
  /\ Filled(T)

Sound(T) == Layout(T) /\ SizeCounts(T)

\* The marks of unused and removed slots are no keys.
LEMMA MarksAreNoKeys == UnusedKey \notin Keys /\ EmptyKey \notin Keys
  BY TableAssumption DEF UnusedKey, EmptyKey

\* The first search of a key ends in one of three ways: at the key, at a slot
\* never used before it, or nowhere.
LEMMA Search1 ==
  ASSUME NEW T \in Slotted, NEW k \in Keys
  PROVE  /\ Hit1(T, k) => /\ Stop1(T, k) \in Window(k)
                          /\ Holds1(T, k, Stop1(T, k))
                          /\ Open1(T, k, Stop1(T, k))
         /\ End1(T, k) => /\ Stop1(T, k) \in Window(k)
                          /\ T.first[Stop1(T, k)].key = UnusedKey
                          /\ Open1(T, k, Stop1(T, k))
                          /\ \A j \in Window(k) :
                               j < Stop1(T, k) => ~Holds1(T, k, j)
         /\ ~Hit1(T, k) /\ ~End1(T, k) =>
              \A j \in Window(k) : /\ T.first[j].key # UnusedKey
                                   /\ ~Holds1(T, k, j)
         /\ ~(Hit1(T, k) /\ End1(T, k))
<1> DEFINE marks == {UnusedKey, k}
<1>1. CASE Meets1(T, k, marks)
  <2>1. /\ Stop1(T, k) \in Window(k)
        /\ T.first[Stop1(T, k)].key \in marks
        /\ \A j \in Window(k) : T.first[j].key \in marks => Stop1(T, k) <= j
    BY <1>1, First1Found DEF Stop1
  <2>2. \A j \in Window(k) : j \in Nat
    BY TableAssumption DEF Window, Index
  <2>3. \A j \in Window(k) : j < Stop1(T, k) => T.first[j].key \notin marks
    BY <2>1, <2>2
  <2> QED
    BY <2>1, <2>3, <1>1, MarksAreNoKeys DEF Hit1, End1, Open1, Holds1
<1>2. CASE ~Meets1(T, k, marks)
  BY <1>2 DEF Meets1, Hit1, End1, Holds1
<1> QED BY <1>1, <1>2

\* The second search likewise.
LEMMA Search2 ==
  ASSUME NEW T \in Slotted, NEW k \in Keys
  PROVE  /\ Hit2(T, k) =>
              \E n \in Index :
                /\ Stop2(T, k) = Probe(k, n)
                /\ Holds2(T, k, n)
                /\ \A m \in Index :
                     m < n => T.second[Probe(k, m)].key # UnusedKey
         /\ End2(T, k) =>
              \E n \in Index :
                /\ Stop2(T, k) = Probe(k, n)
                /\ T.second[Probe(k, n)].key = UnusedKey
                /\ \A m \in Index :
                     m < n => /\ T.second[Probe(k, m)].key # UnusedKey
                              /\ ~Holds2(T, k, m)
         /\ ~Hit2(T, k) /\ ~End2(T, k) =>
              \A m \in Index : /\ T.second[Probe(k, m)].key # UnusedKey
                               /\ ~Holds2(T, k, m)
         /\ ~(Hit2(T, k) /\ End2(T, k))
<1> DEFINE marks == {UnusedKey, k}
<1>1. CASE Meets2(T, k, marks)
  <2>1. PICK n \in Index :
          /\ Stop2(T, k) = Probe(k, n)
          /\ T.second[Probe(k, n)].key \in marks
          /\ \A m \in Index : T.second[Probe(k, m)].key \in marks => n <= m
    BY <1>1, First2Found DEF Stop2
  <2>2. \A m \in Index : m < n => T.second[Probe(k, m)].key \notin marks
    BY <2>1, TableAssumption DEF Index
  <2> QED
    BY <2>1, <2>2, <1>1, MarksAreNoKeys DEF Hit2, End2, Holds2
<1>2. CASE ~Meets2(T, k, marks)
  BY <1>2 DEF Meets2, Hit2, End2, Holds2
<1> QED BY <1>1, <1>2

\* In a sound layout the searches hit a key exactly at its slot.
LEMMA HitsAreSlots ==
  ASSUME NEW T, Layout(T), NEW k \in Keys
  PROVE  /\ \A i \in Index :
              Holds1(T, k, i) => Hit1(T, k) /\ Stop1(T, k) = i
         /\ \A n \in Index :
              Holds2(T, k, n) => /\ ~Hit1(T, k) /\ ~End1(T, k)
                                 /\ Hit2(T, k) /\ Stop2(T, k) = Probe(k, n)
<1>0. T \in Slotted
  BY DEF Layout
<1>w. Window(k) \subseteq Index /\ \A i \in Index : i \in Nat
  BY TableAssumption DEF Window, Index
<1>1. ASSUME NEW i \in Index, Holds1(T, k, i)
      PROVE  Hit1(T, k) /\ Stop1(T, k) = i
  <2>1. i \in Window(k) /\ Open1(T, k, i)
    BY <1>1 DEF Layout
  <2>2. ~End1(T, k)
    <3> SUFFICES ASSUME End1(T, k) PROVE FALSE
      OBVIOUS
    <3>1. /\ Stop1(T, k) \in Window(k)
          /\ T.first[Stop1(T, k)].key = UnusedKey
          /\ \A j \in Window(k) : j < Stop1(T, k) => ~Holds1(T, k, j)
      BY <1>0, Search1
    <3>2. Stop1(T, k) < i \/ Stop1(T, k) = i
      BY <3>1, <2>1, <1>1, <1>w
    <3> QED BY <3>1, <3>2, <2>1, <1>1, MarksAreNoKeys DEF Open1, Holds1
  <2>3. Hit1(T, k)
    BY <1>0, <2>1, <2>2, <1>1, Search1
  <2>4. Stop1(T, k) \in Index /\ Holds1(T, k, Stop1(T, k))
    BY <1>0, <2>3, <1>w, Search1
  <2> QED BY <2>3, <2>4, <1>1 DEF Layout, OneSlot
<1>2. ASSUME NEW n \in Index, Holds2(T, k, n)
      PROVE  /\ ~Hit1(T, k) /\ ~End1(T, k)
             /\ Hit2(T, k) /\ Stop2(T, k) = Probe(k, n)
  <2>1. Open2(T, k, n)
    BY <1>2 DEF Layout
  <2>2. ~Hit1(T, k)
    BY <1>0, <1>2, <1>w, Search1 DEF Layout, OneSlot
  <2>3. ~End1(T, k)
    BY <1>0, <2>1, Search1 DEF Open2
  <2>4. ~End2(T, k)
    <3> SUFFICES ASSUME End2(T, k) PROVE FALSE
      OBVIOUS
    <3>1. PICK m \in Index :
            /\ T.second[Probe(k, m)].key = UnusedKey
            /\ \A j \in Index : j < m => ~Holds2(T, k, j)
      BY <1>0, Search2
    <3>2. m < n \/ m = n
      BY <3>1, <1>2, <1>w
    <3> QED BY <3>1, <3>2, <2>1, <1>2, MarksAreNoKeys DEF Open2, Holds2
  <2>5. Hit2(T, k)
    BY <1>0, <2>4, <1>2, Search2
  <2>6. PICK m \in Index : Stop2(T, k) = Probe(k, m) /\ Holds2(T, k, m)
    BY <1>0, <2>5, Search2
  <2>7. m = n
    BY <2>6, <1>2 DEF Layout, OneSlot
  <2> QED BY <2>2, <2>3, <2>5, <2>6, <2>7
<1> QED BY <1>1, <1>2

-----------------------------------------------------------------------------
(* What the operations do to a layout                                      *)

\* Writing a key into a slot that its search passes, when no other slot has
\* the key.
LEMMA Put1Layout ==
  ASSUME NEW T, Layout(T), NEW k \in Keys, NEW v \in Values,
         NEW i \in Window(k),
         T.first[i].key \in {UnusedKey, EmptyKey, k}, Open1(T, k, i),
         \A j \in Index : Holds1(T, k, j) => j = i,
         \A n \in Index : ~Holds2(T, k, n)
  PROVE  Layout(Put1(T, i, k, v))
<1> DEFINE U == Put1(T, i, k, v)
<1>1. T \in Slotted /\ i \in Index
  BY DEF Layout, Window
<1>2. U \in Slotted /\ U.second = T.second
  BY <1>1 DEF Put1, Slotted, HashNode
<1>3. \A j \in Index :
        U.first[j].key = IF j = i THEN k ELSE T.first[j].key
  BY <1>1 DEF Put1, Slotted
<1>f. Filled(U)
  BY <1>1 DEF Put1, Slotted, HashNode, Filled, Layout
<1>4. \A j \in Index :
        T.first[j].key # UnusedKey => U.first[j].key # UnusedKey
  BY <1>3, MarksAreNoKeys
<1>5. \A q \in Keys, j \in Index :
        Holds1(U, q, j) => Holds1(T, q, j) \/ (q = k /\ j = i)
  BY <1>3 DEF Holds1
<1>6. \A q \in Keys, n \in Index : Holds2(U, q, n) <=> Holds2(T, q, n)
  BY <1>2 DEF Holds2
<1>7. \A q \in Keys : Window(q) \subseteq Index
  BY DEF Window
<1> HIDE DEF U
<1>8. ASSUME NEW q \in Keys, NEW j \in Index, Holds1(U, q, j)
      PROVE  j \in Window(q) /\ Open1(U, q, j)
  BY <1>4, <1>5, <1>7, <1>8 DEF Layout, Open1
<1>9. ASSUME NEW q \in Keys, NEW n \in Index, Holds2(U, q, n)
      PROVE  Open2(U, q, n)
  BY <1>2, <1>4, <1>6, <1>7, <1>9 DEF Layout, Open2
<1>10. OneSlot(U)
  <2> SUFFICES ASSUME NEW q \in Keys
      PROVE /\ \A j, l \in Index : Holds1(U, q, j) /\ Holds1(U, q, l) => j = l
            /\ \A n, m \in Index : Holds2(U, q, n) /\ Holds2(U, q, m) => n = m
            /\ \A j, n \in Index : ~(Holds1(U, q, j) /\ Holds2(U, q, n))
    BY DEF OneSlot
  <2>1. CASE q = k
    BY <2>1, <1>5, <1>6 DEF Layout, OneSlot
  <2>2. CASE q # k
    BY <2>2, <1>5, <1>6 DEF Layout, OneSlot
  <2> QED BY <2>1, <2>2
<1>11. Layout(U)
  BY <1>2, <1>8, <1>9, <1>10, <1>f DEF Layout
<1> QED BY <1>11 DEF U

\* The same of the second table: storing k where its probes arrive, none of its
\* slots being of the first table, keeps the layout.
LEMMA Put2Layout ==
  ASSUME NEW T, Layout(T), NEW k \in Keys, NEW v \in Values,
         NEW n \in Index,
         T.second[Probe(k, n)].key \in {UnusedKey, EmptyKey, k},
         Open2(T, k, n),
         \A m \in Index : Holds2(T, k, m) => m = n,
         \A j \in Index : ~Holds1(T, k, j)
  PROVE  Layout(Put2(T, Probe(k, n), k, v))
<1> DEFINE i == Probe(k, n)
           U == Put2(T, i, k, v)
<1>1. T \in Slotted /\ i \in Index
  BY ProbeCovers DEF Layout
<1>p. \A q \in Keys, m \in Index : Probe(q, m) \in Index
  BY ProbeCovers
<1> HIDE DEF i
<1>2. U \in Slotted /\ U.first = T.first
  BY <1>1 DEF Put2, Slotted, HashNode
<1>3. \A j \in Index :
        U.second[j].key = IF j = i THEN k ELSE T.second[j].key
  BY <1>1 DEF Put2, Slotted
<1>f. Filled(U)
  BY <1>1 DEF Put2, Slotted, HashNode, Filled, Layout
<1>4. \A j \in Index :
        T.second[j].key # UnusedKey => U.second[j].key # UnusedKey
  BY <1>3, MarksAreNoKeys
<1>5. \A q \in Keys, m \in Index :
        Holds2(U, q, m) => Holds2(T, q, m) \/ (q = k /\ m = n)
  <2> SUFFICES ASSUME NEW q \in Keys, NEW m \in Index, Holds2(U, q, m)
               PROVE  Holds2(T, q, m) \/ (q = k /\ m = n)
    OBVIOUS
  <2>1. CASE Probe(q, m) = i
    <3>1. q = k
      BY <2>1, <1>1, <1>3 DEF Holds2
    <3>2. m = n
      BY <3>1, <2>1, ProbeCovers DEF i
    <3> QED BY <3>1, <3>2
  <2>2. CASE Probe(q, m) # i
    BY <2>2, <1>p, <1>3 DEF Holds2
  <2> QED BY <2>1, <2>2
<1>6. \A q \in Keys, j \in Index : Holds1(U, q, j) <=> Holds1(T, q, j)
  BY <1>2 DEF Holds1
<1>7. \A q \in Keys : Window(q) \subseteq Index
  BY DEF Window
<1> HIDE DEF U
<1>8. ASSUME NEW q \in Keys, NEW j \in Index, Holds1(U, q, j)
      PROVE  j \in Window(q) /\ Open1(U, q, j)
  BY <1>2, <1>6, <1>8 DEF Layout, Open1
<1>9. ASSUME NEW q \in Keys, NEW m \in Index, Holds2(U, q, m)
      PROVE  Open2(U, q, m)
  BY <1>2, <1>4, <1>5, <1>p, <1>9 DEF Layout, Open2
<1>10. OneSlot(U)
  <2> SUFFICES ASSUME NEW q \in Keys
      PROVE /\ \A j, l \in Index : Holds1(U, q, j) /\ Holds1(U, q, l) => j = l
            /\ \A l, m \in Index : Holds2(U, q, l) /\ Holds2(U, q, m) => l = m
            /\ \A j, m \in Index : ~(Holds1(U, q, j) /\ Holds2(U, q, m))
    BY DEF OneSlot
  <2>1. CASE q = k
    BY <2>1, <1>5, <1>6 DEF Layout, OneSlot
  <2>2. CASE q # k
    BY <2>2, <1>5, <1>6 DEF Layout, OneSlot
  <2> QED BY <2>1, <2>2
<1>11. Layout(U)
  BY <1>2, <1>8, <1>9, <1>10, <1>f DEF Layout
<1> QED BY <1>11 DEF U, i

\* The size field plays no part in the layout.
LEMMA SizeIsFree ==
  ASSUME NEW T, NEW U \in Slotted, T.first = U.first, T.second = U.second
  PROVE  Layout(T) => Layout(U)
BY DEF Layout, Open1, Open2, Holds1, Holds2, OneSlot, Filled

\* A removed key leaves a mark that every search passes by.
Marked1(T, i) == [T EXCEPT !.first[i].key = EmptyKey]
Marked2(T, i) == [T EXCEPT !.second[i].key = EmptyKey]

\* Marking a slot of either table as removed keeps the layout: no search stops
\* at a removed slot (remove, remove_if).
LEMMA MarkedLayout ==
  ASSUME NEW T, Layout(T), NEW i \in Index
  PROVE  Layout(Marked1(T, i)) /\ Layout(Marked2(T, i))
<1>1. T \in Slotted
  BY DEF Layout
<1>2. ASSUME NEW U \in Slotted,
             \A j \in Index : /\ \/ U.first[j].key = T.first[j].key
                                 \/ U.first[j].key = EmptyKey
                              /\ \/ U.second[j].key = T.second[j].key
                                 \/ U.second[j].key = EmptyKey
                              /\ U.first[j].value = T.first[j].value
                              /\ U.second[j].value = T.second[j].value
      PROVE  Layout(U)
  <2>1. \A q \in Keys, j \in Index : Holds1(U, q, j) => Holds1(T, q, j)
    BY <1>2, MarksAreNoKeys DEF Holds1
  <2>2. \A q \in Keys, n \in Index : Holds2(U, q, n) => Holds2(T, q, n)
    BY <1>2, MarksAreNoKeys, ProbeCovers DEF Holds2
  <2>3. \A q \in Keys, j \in Index : Open1(T, q, j) => Open1(U, q, j)
    BY <1>2 DEF Open1, Window, UnusedKey, EmptyKey
  <2>4. \A q \in Keys, n \in Index : Open2(T, q, n) => Open2(U, q, n)
    <3> SUFFICES ASSUME NEW q \in Keys, NEW n \in Index, Open2(T, q, n)
                 PROVE  Open2(U, q, n)
      OBVIOUS
    <3>1. \A j \in Index :
            /\ (T.first[j].key # UnusedKey => U.first[j].key # UnusedKey)
            /\ (T.second[j].key # UnusedKey => U.second[j].key # UnusedKey)
      BY <1>2 DEF UnusedKey, EmptyKey
    <3>2. /\ \A j \in Window(q) : j \in Index
          /\ \A m \in Index : Probe(q, m) \in Index
      BY ProbeCovers DEF Window
    <3>3. ASSUME NEW j \in Window(q)
          PROVE  U.first[j].key # UnusedKey
      <4>1. j \in Index /\ T.first[j].key # UnusedKey
        BY <3>2 DEF Open2
      <4> QED BY ONLY <4>1, <3>1
    <3>4. ASSUME NEW m \in Index, m < n
          PROVE  U.second[Probe(q, m)].key # UnusedKey
      <4>1. Probe(q, m) \in Index /\ T.second[Probe(q, m)].key # UnusedKey
        BY <3>2, <3>4 DEF Open2
      <4> QED BY ONLY <4>1, <3>1
    <3> QED BY <3>3, <3>4 DEF Open2
  <2>5. Filled(U)
    BY <1>2, MarksAreNoKeys DEF Layout, Filled
  <2>6. OneSlot(U)
    BY <2>1, <2>2 DEF Layout, OneSlot
  <2>7. \A q \in Keys, j \in Index :
          Holds1(U, q, j) => j \in Window(q) /\ Open1(U, q, j)
    BY <2>1, <2>3 DEF Layout
  <2>8. \A q \in Keys, n \in Index : Holds2(U, q, n) => Open2(U, q, n)
    BY <2>2, <2>4 DEF Layout
  <2> QED BY <1>2, <2>5, <2>6, <2>7, <2>8 DEF Layout
<1>3. Marked1(T, i) \in Slotted /\ Marked2(T, i) \in Slotted
  BY <1>1 DEF Marked1, Marked2, Slotted, HashNode
<1>4. \A j \in Index :
        /\ \/ Marked1(T, i).first[j].key = T.first[j].key
           \/ Marked1(T, i).first[j].key = EmptyKey
        /\ Marked1(T, i).second[j] = T.second[j]
        /\ Marked1(T, i).first[j].value = T.first[j].value
  BY <1>1 DEF Marked1, Slotted, HashNode
<1>5. \A j \in Index :
        /\ \/ Marked2(T, i).second[j].key = T.second[j].key
           \/ Marked2(T, i).second[j].key = EmptyKey
        /\ Marked2(T, i).first[j] = T.first[j]
        /\ Marked2(T, i).second[j].value = T.second[j].value
  BY <1>1 DEF Marked2, Slotted, HashNode
<1>6. Layout(Marked1(T, i))
  BY <1>2, <1>3, <1>4
<1>7. Layout(Marked2(T, i))
  BY <1>2, <1>3, <1>5
<1> QED BY <1>6, <1>7

-----------------------------------------------------------------------------
(* Where a key is found, and where insert and remove write                 *)

Held(T, k) == \E i \in Index : Holds1(T, k, i) \/ Holds2(T, k, i)

\* find and Lookup name the one slot that holds the key.
LEMMA FindIsSlot ==
  ASSUME NEW T, Layout(T), NEW k \in Keys
  PROVE  /\ \A i \in Index :
              Holds1(T, k, i) => /\ find(T, k) = <<1, i>>
                                 /\ Lookup(T, k) = T.first[i].value
         /\ \A n \in Index :
              Holds2(T, k, n) =>
                /\ find(T, k) = <<2, Probe(k, n)>>
                /\ Lookup(T, k) = T.second[Probe(k, n)].value
         /\ ~Held(T, k) => find(T, k) = NotFound /\ Lookup(T, k) = NoValue
<1>0. T \in Slotted
  BY DEF Layout
<1>1. ASSUME NEW i \in Index, Holds1(T, k, i)
      PROVE  find(T, k) = <<1, i>> /\ Lookup(T, k) = T.first[i].value
  <2>1. find(T, k) = <<1, i>>
    BY <1>1, HitsAreSlots DEF find
  <2> QED BY <2>1 DEF Lookup, NodeAt, NotFound
<1>2. ASSUME NEW n \in Index, Holds2(T, k, n)
      PROVE  /\ find(T, k) = <<2, Probe(k, n)>>
             /\ Lookup(T, k) = T.second[Probe(k, n)].value
  <2>1. find(T, k) = <<2, Probe(k, n)>>
    BY <1>2, HitsAreSlots DEF find
  <2> QED BY <2>1 DEF Lookup, NodeAt, NotFound
<1>3. ASSUME ~Held(T, k)
      PROVE  find(T, k) = NotFound /\ Lookup(T, k) = NoValue
  <2>1. ~Hit1(T, k)
    BY <1>0, <1>3, Search1 DEF Held, Window
  <2>2. ~Hit2(T, k)
    BY <1>0, <1>3, Search2 DEF Held
  <2> QED BY <2>1, <2>2 DEF find, Lookup
<1> QED BY <1>1, <1>2, <1>3

\* The five ways insert can end.
Overwrites1(T, U, k, v) ==
  \E i \in Index : Holds1(T, k, i) /\ U = Put1(T, i, k, v)
Overwrites2(T, U, k, v) ==
  \E n \in Index : Holds2(T, k, n) /\ U = Put2(T, Probe(k, n), k, v)
Fills1(T, U, k, v) ==
  /\ ~Held(T, k)
  /\ \E i \in Window(k) : /\ T.first[i].key \in {UnusedKey, EmptyKey}
                          /\ Open1(T, k, i)
                          /\ U = Grown(Put1(T, i, k, v))
Fills2(T, U, k, v) ==
  /\ ~Held(T, k)
  /\ \E n \in Index : /\ T.second[Probe(k, n)].key \in {UnusedKey, EmptyKey}
                      /\ Open2(T, k, n)
                      /\ U = Grown(Put2(T, Probe(k, n), k, v))
NoRoom(T, U, k) ==
  /\ ~Held(T, k)
  /\ \A i \in Index : T.second[i].key \in Keys
  /\ U = T

\* insert ends in one of five ways: it overwrites the value of a stored key,
\* fills a slot of either table, or finds the second table full of keys.
LEMMA InsertEnds ==
  ASSUME NEW T, Layout(T), NEW k \in Keys, NEW v \in Values
  PROVE  LET U == Inserted(T, k, v)
         IN  \/ Overwrites1(T, U, k, v) \/ Overwrites2(T, U, k, v)
             \/ Fills1(T, U, k, v) \/ Fills2(T, U, k, v)
             \/ NoRoom(T, U, k)
<1> DEFINE U == Inserted(T, k, v)
<1>0. T \in Slotted /\ Window(k) \subseteq Index
  BY DEF Layout, Window
<1>1. CASE End1(T, k)
  <2>1. U = Grown(Put1(T, Stop1(T, k), k, v))
    BY <1>1 DEF Inserted
  <2>2. ~Held(T, k)
    <3>1. ~Hit1(T, k)
      BY <1>0, <1>1, Search1
    <3> QED BY <1>1, <3>1, HitsAreSlots DEF Held
  <2> QED BY <1>0, <1>1, <2>1, <2>2, Search1 DEF Fills1
<1>2. CASE Hit1(T, k)
  <2>1. U = Put1(T, Stop1(T, k), k, v)
    BY <1>0, <1>2, Search1 DEF Inserted
  <2> QED BY <1>0, <1>2, <2>1, Search1 DEF Overwrites1
<1>3. ASSUME ~End1(T, k), ~Hit1(T, k)
      PROVE  \A j \in Window(k) : T.first[j].key # UnusedKey
  BY <1>0, <1>3, Search1
<1>4. CASE ~End1(T, k) /\ ~Hit1(T, k) /\ End2(T, k)
  <2>1. U = Grown(Put2(T, Stop2(T, k), k, v))
    BY <1>4 DEF Inserted
  <2>2. ~Held(T, k)
    <3>1. ~Hit2(T, k)
      BY <1>0, <1>4, Search2
    <3> QED BY <1>4, <3>1, HitsAreSlots DEF Held
  <2>3. PICK n \in Index :
          /\ Stop2(T, k) = Probe(k, n)
          /\ T.second[Probe(k, n)].key = UnusedKey
          /\ \A m \in Index : m < n => T.second[Probe(k, m)].key # UnusedKey
    BY <1>0, <1>4, Search2
  <2>4. Open2(T, k, n)
    BY <1>3, <1>4, <2>3 DEF Open2
  <2> QED BY <2>1, <2>2, <2>3, <2>4 DEF Fills2
<1>5. CASE ~End1(T, k) /\ ~Hit1(T, k) /\ ~End2(T, k) /\ Hit2(T, k)
  <2>1. U = Put2(T, Stop2(T, k), k, v)
    BY <1>5 DEF Inserted
  <2> QED BY <1>0, <1>5, <2>1, Search2 DEF Overwrites2
<1>6. CASE ~End1(T, k) /\ ~Hit1(T, k) /\ ~End2(T, k) /\ ~Hit2(T, k)
  <2>1. U = Recycled(T, k, v)
    BY <1>6 DEF Inserted
  <2>2. ~Held(T, k)
    BY <1>6, HitsAreSlots DEF Held
  <2>3. \A m \in Index : T.second[Probe(k, m)].key # UnusedKey
    BY <1>0, <1>6, Search2
  <2>4. CASE Meets1(T, k, {EmptyKey})
    <3> DEFINE i == First1(T, k, {EmptyKey})
    <3>1. i \in Window(k) /\ T.first[i].key = EmptyKey
      BY <1>0, <2>4, First1Found
    <3>2. Open1(T, k, i)
      BY <1>3, <1>6 DEF Open1
    <3>3. U = Grown(Put1(T, i, k, v))
      BY <2>1, <2>4 DEF Recycled
    <3> QED BY <2>2, <3>1, <3>2, <3>3 DEF Fills1
  <2>5. CASE ~Meets1(T, k, {EmptyKey}) /\ Meets2(T, k, {EmptyKey})
    <3>1. PICK n \in Index : /\ First2(T, k, {EmptyKey}) = Probe(k, n)
                             /\ T.second[Probe(k, n)].key = EmptyKey
      BY <1>0, <2>5, First2Found
    <3>2. Open2(T, k, n)
      BY <1>3, <1>6, <2>3 DEF Open2
    <3>3. U = Grown(Put2(T, Probe(k, n), k, v))
      BY <2>1, <2>5, <3>1 DEF Recycled
    <3> QED BY <2>2, <3>1, <3>2, <3>3 DEF Fills2
  <2>6. CASE ~Meets1(T, k, {EmptyKey}) /\ ~Meets2(T, k, {EmptyKey})
    <3>1. U = T
      BY <2>1, <2>6 DEF Recycled
    <3>2. \A m \in Index : T.second[Probe(k, m)].key \in Keys
      <4> SUFFICES ASSUME NEW m \in Index
                   PROVE  T.second[Probe(k, m)].key \in Keys
        OBVIOUS
      <4>1. Probe(k, m) \in Index
        BY ProbeCovers
      <4>2. T.second[Probe(k, m)].key \in Keys \cup {UnusedKey, EmptyKey}
        BY <1>0, <4>1 DEF Slotted, HashNode
      <4> QED BY <2>3, <2>6, <4>2 DEF Meets2
    <3>3. \A i \in Index : T.second[i].key \in Keys
      BY <3>2, ProbeCovers
    <3> QED BY <2>2, <3>1, <3>3 DEF NoRoom
  <2> QED BY <2>4, <2>5, <2>6
<1> QED BY <1>1, <1>2, <1>4, <1>5, <1>6

\* The three ways remove can end.
Shrunk(T) == [T EXCEPT !.size = @ - 1]
Frees1(T, U, k) ==
  \E i \in Index : Holds1(T, k, i) /\ U = Shrunk(Marked1(T, i))
Frees2(T, U, k) ==
  \E n \in Index : Holds2(T, k, n) /\ U = Shrunk(Marked2(T, Probe(k, n)))
Misses(T, U, k) == ~Held(T, k) /\ U = T

\* remove ends in one of three ways: the slot of the key is marked, in either
\* table, or the key is not stored and nothing changes.
LEMMA RemoveEnds ==
  ASSUME NEW T, Layout(T), NEW k \in Keys
  PROVE  LET U == Removed(T, k)
         IN  Frees1(T, U, k) \/ Frees2(T, U, k) \/ Misses(T, U, k)
<1> DEFINE U == Removed(T, k)
<1>0. T \in Slotted /\ Window(k) \subseteq Index
  BY DEF Layout, Window
<1>1. CASE Hit1(T, k)
  <2>1. U = Shrunk(Marked1(T, Stop1(T, k)))
    BY <1>0, <1>1 DEF Removed, Shrunk, Marked1, Slotted
  <2> QED BY <1>0, <1>1, <2>1, Search1 DEF Frees1
<1>2. CASE ~Hit1(T, k) /\ Hit2(T, k)
  <2>1. U = Shrunk(Marked2(T, Stop2(T, k)))
    BY <1>0, <1>2 DEF Removed, Shrunk, Marked2, Slotted
  <2> QED BY <1>0, <1>2, <2>1, Search2 DEF Frees2
<1>3. CASE ~Hit1(T, k) /\ ~Hit2(T, k)
  BY <1>3, HitsAreSlots DEF Removed, Misses, Held
<1> QED BY <1>1, <1>2, <1>3

-----------------------------------------------------------------------------
(* The invariant is inductive                                              *)

\* The slots that hold keys can be counted.
LEMMA OccupiedFinite ==
  ASSUME NEW T
  PROVE  IsFiniteSet(Occupied(T)) /\ Cardinality(Occupied(T)) \in Nat
<1>1. IsFiniteSet(Index)
  BY FS_Interval, TableAssumption DEF Index
<1>2. IsFiniteSet({1, 2})
  <2>1. IsFiniteSet({1} \cup {2})
    BY FS_Singleton, FS_AddElement
  <2>2. {1, 2} = {1} \cup {2}
    OBVIOUS
  <2> QED BY <2>1, <2>2
<1>3. IsFiniteSet({1, 2} \X Index)
  BY <1>1, <1>2, FS_Product
<1>4. IsFiniteSet(Occupied(T))
  BY <1>3, FS_Subset DEF Occupied
<1> QED BY <1>4, FS_CardinalityType

\* The slots that hold a key after a slot was filled or overwritten, and
\* after it was freed.
LEMMA OccupiedAfterPut ==
  ASSUME NEW T \in Slotted, NEW k \in Keys, NEW v \in Values, NEW i \in Index
  PROVE  /\ Occupied(Put1(T, i, k, v)) = Occupied(T) \cup {<<1, i>>}
         /\ Occupied(Put2(T, i, k, v)) = Occupied(T) \cup {<<2, i>>}
<1>1. \A s \in {1, 2} \X Index :
        s \in Occupied(Put1(T, i, k, v)) <=> s \in Occupied(T) \cup {<<1, i>>}
  BY DEF Occupied, NodeAt, Put1, Slotted, HashNode
<1>2. \A s \in {1, 2} \X Index :
        s \in Occupied(Put2(T, i, k, v)) <=> s \in Occupied(T) \cup {<<2, i>>}
  BY DEF Occupied, NodeAt, Put2, Slotted, HashNode
<1>3. \A U : Occupied(U) \subseteq {1, 2} \X Index
  BY DEF Occupied
<1> QED BY <1>1, <1>2, <1>3

\* Marking a slot takes that slot, and no other, from those that hold keys.
LEMMA OccupiedAfterMark ==
  ASSUME NEW T \in Slotted, NEW i \in Index
  PROVE  /\ Occupied(Marked1(T, i)) = Occupied(T) \ {<<1, i>>}
         /\ Occupied(Marked2(T, i)) = Occupied(T) \ {<<2, i>>}
<1>1. \A s \in {1, 2} \X Index :
        s \in Occupied(Marked1(T, i)) <=> s \in Occupied(T) \ {<<1, i>>}
  BY MarksAreNoKeys DEF Occupied, NodeAt, Marked1, Slotted, HashNode
<1>2. \A s \in {1, 2} \X Index :
        s \in Occupied(Marked2(T, i)) <=> s \in Occupied(T) \ {<<2, i>>}
  BY MarksAreNoKeys DEF Occupied, NodeAt, Marked2, Slotted, HashNode
<1>3. \A U : Occupied(U) \subseteq {1, 2} \X Index
  BY DEF Occupied
<1> QED BY <1>1, <1>2, <1>3

\* The table that init sets up is sound.
LEMMA EmptyIsSound == Sound(EmptyTable)
<1>1. EmptyTable \in Slotted
  BY DEF EmptyTable, Slotted, HashNode, Unused
<1>2. \A i \in Index : /\ EmptyTable.first[i].key = UnusedKey
                       /\ EmptyTable.second[i].key = UnusedKey
  BY DEF EmptyTable, Unused
<1>3. \A q \in Keys, i \in Index :
        ~Holds1(EmptyTable, q, i) /\ ~Holds2(EmptyTable, q, i)
  BY <1>2, ProbeCovers, MarksAreNoKeys DEF Holds1, Holds2
<1>4. Layout(EmptyTable)
  BY <1>1, <1>2, <1>3, MarksAreNoKeys DEF Layout, OneSlot, Filled
<1>5. Occupied(EmptyTable) = {}
  BY <1>2, MarksAreNoKeys DEF Occupied, NodeAt
<1>6. SizeCounts(EmptyTable)
  BY <1>5, FS_EmptySet DEF SizeCounts, EmptyTable
<1> QED BY <1>4, <1>6 DEF Sound

\* Overwriting the value of a key.
LEMMA OverwriteSound ==
  ASSUME NEW T, Sound(T), NEW U, NEW k \in Keys, NEW v \in Values,
         Overwrites1(T, U, k, v) \/ Overwrites2(T, U, k, v)
  PROVE  Sound(U)
<1>0. Layout(T) /\ T \in Slotted
  BY DEF Sound, Layout
<1>1. CASE Overwrites1(T, U, k, v)
  <2>1. PICK i \in Index : Holds1(T, k, i) /\ U = Put1(T, i, k, v)
    BY <1>1 DEF Overwrites1
  <2>2. Layout(U)
    <3>1. i \in Window(k) /\ Open1(T, k, i)
      BY <1>0, <2>1 DEF Layout
    <3>2. /\ T.first[i].key \in {UnusedKey, EmptyKey, k}
          /\ \A j \in Index : Holds1(T, k, j) => j = i
          /\ \A n \in Index : ~Holds2(T, k, n)
      BY <1>0, <2>1 DEF Layout, OneSlot, Holds1
    <3> QED BY <1>0, <2>1, <3>1, <3>2, Put1Layout
  <2>3. <<1, i>> \in Occupied(T)
    BY <2>1 DEF Holds1, Occupied, NodeAt
  <2>4. Occupied(U) = Occupied(T) \cup {<<1, i>>}
    BY <1>0, <2>1, <2>3, OccupiedAfterPut
  <2>5. Occupied(U) = Occupied(T)
    BY <2>3, <2>4
  <2>6. U.size = T.size
    BY <1>0, <2>1 DEF Put1, Slotted
  <2> QED BY <2>2, <2>5, <2>6 DEF Sound, SizeCounts
<1>2. CASE Overwrites2(T, U, k, v)
  <2>1. PICK n \in Index : Holds2(T, k, n) /\ U = Put2(T, Probe(k, n), k, v)
    BY <1>2 DEF Overwrites2
  <2>2. Layout(U)
    <3>1. Open2(T, k, n)
      BY <1>0, <2>1 DEF Layout
    <3>2. /\ T.second[Probe(k, n)].key \in {UnusedKey, EmptyKey, k}
          /\ \A m \in Index : Holds2(T, k, m) => m = n
          /\ \A j \in Index : ~Holds1(T, k, j)
      BY <1>0, <2>1 DEF Layout, OneSlot, Holds2
    <3> QED BY <1>0, <2>1, <3>1, <3>2, Put2Layout
  <2>3. Probe(k, n) \in Index /\ <<2, Probe(k, n)>> \in Occupied(T)
    BY <2>1, ProbeCovers DEF Holds2, Occupied, NodeAt
  <2>4. Occupied(U) = Occupied(T) \cup {<<2, Probe(k, n)>>}
    BY <1>0, <2>1, <2>3, OccupiedAfterPut
  <2>5. Occupied(U) = Occupied(T)
    BY <2>3, <2>4
  <2>6. U.size = T.size
    BY <1>0, <2>1 DEF Put2, Slotted
  <2> QED BY <2>2, <2>5, <2>6 DEF Sound, SizeCounts
<1> QED BY <1>1, <1>2

\* Storing a new key.
LEMMA FillSound ==
  ASSUME NEW T, Sound(T), NEW U, NEW k \in Keys, NEW v \in Values,
         Fills1(T, U, k, v) \/ Fills2(T, U, k, v)
  PROVE  Sound(U)
<1>0. Layout(T) /\ T \in Slotted
  BY DEF Sound, Layout
<1>1. ASSUME NEW V \in Slotted, NEW s, s \notin Occupied(T), Layout(V),
             Occupied(V) = Occupied(T) \cup {s}, V.size = T.size, U = Grown(V)
      PROVE  Sound(U)
  <2>1. /\ U \in Slotted /\ U.first = V.first /\ U.second = V.second
        /\ U.size = T.size + 1
    BY <1>0, <1>1 DEF Grown, Slotted
  <2>2. Occupied(U) = Occupied(V)
    BY <2>1 DEF Occupied, NodeAt
  <2>3. Cardinality(Occupied(U)) = Cardinality(Occupied(T)) + 1
    BY <1>1, <2>2, OccupiedFinite, FS_AddElement
  <2>4. Layout(U)
    BY <1>1, <2>1, SizeIsFree
  <2> QED BY <2>1, <2>3, <2>4 DEF Sound, SizeCounts
<1>2. CASE Fills1(T, U, k, v)
  <2>1. PICK i \in Window(k) :
          /\ T.first[i].key \in {UnusedKey, EmptyKey} /\ Open1(T, k, i)
          /\ U = Grown(Put1(T, i, k, v))
    BY <1>2 DEF Fills1
  <2>2. Layout(Put1(T, i, k, v))
    BY <1>0, <1>2, <2>1, Put1Layout DEF Fills1, Held
  <2>3. <<1, i>> \notin Occupied(T) /\ i \in Index
    BY <2>1, MarksAreNoKeys DEF Occupied, NodeAt, Window
  <2>4. Occupied(Put1(T, i, k, v)) = Occupied(T) \cup {<<1, i>>}
    BY <1>0, <2>3, OccupiedAfterPut
  <2>5. Put1(T, i, k, v) \in Slotted /\ Put1(T, i, k, v).size = T.size
    BY <1>0, <2>2 DEF Layout, Put1, Slotted
  <2> QED BY <1>1, <2>1, <2>2, <2>3, <2>4, <2>5
<1>3. CASE Fills2(T, U, k, v)
  <2>1. PICK n \in Index :
          /\ T.second[Probe(k, n)].key \in {UnusedKey, EmptyKey}
          /\ Open2(T, k, n)
          /\ U = Grown(Put2(T, Probe(k, n), k, v))
    BY <1>3 DEF Fills2
  <2> DEFINE i == Probe(k, n)
  <2>2. Layout(Put2(T, i, k, v))
    BY <1>0, <1>3, <2>1, Put2Layout DEF Fills2, Held
  <2>3. <<2, i>> \notin Occupied(T) /\ i \in Index
    <3>1. i \in Index
      BY ProbeCovers
    <3>2. T.second[i].key \notin Keys
      BY <2>1, MarksAreNoKeys
    <3> HIDE DEF i
    <3> QED BY <3>1, <3>2 DEF Occupied, NodeAt
  <2>4. Occupied(Put2(T, i, k, v)) = Occupied(T) \cup {<<2, i>>}
    BY <1>0, <2>3, OccupiedAfterPut
  <2>5. Put2(T, i, k, v) \in Slotted /\ Put2(T, i, k, v).size = T.size
    BY <1>0, <2>2 DEF Layout, Put2, Slotted
  <2> QED BY <1>1, <2>1, <2>2, <2>3, <2>4, <2>5
<1> QED BY <1>2, <1>3

\* insert keeps a table sound.
LEMMA InsertedSound ==
  ASSUME NEW T, Sound(T), NEW k \in Keys, NEW v \in Values
  PROVE  Sound(Inserted(T, k, v))
BY InsertEnds, OverwriteSound, FillSound DEF Sound, NoRoom

\* remove and remove_if keep a table sound.
LEMMA RemovedSound ==
  ASSUME NEW T, Sound(T), NEW k \in Keys
  PROVE  Sound(Removed(T, k))
<1> DEFINE U == Removed(T, k)
<1>0. Layout(T) /\ T \in Slotted
  BY DEF Sound, Layout
<1>1. ASSUME NEW V \in Slotted, NEW s \in Occupied(T), Layout(V),
             Occupied(V) = Occupied(T) \ {s}, V.size = T.size, U = Shrunk(V)
      PROVE  Sound(U)
  <2> HIDE DEF U
  <2>1. /\ U \in Slotted /\ U.first = V.first /\ U.second = V.second
        /\ U.size = T.size - 1
    BY <1>0, <1>1 DEF Shrunk, Slotted
  <2>2. Occupied(U) = Occupied(V)
    BY <2>1 DEF Occupied, NodeAt
  <2>3. Cardinality(Occupied(U)) = Cardinality(Occupied(T)) - 1
    <3>1. Cardinality(Occupied(T) \ {s}) = Cardinality(Occupied(T)) - 1
      BY OccupiedFinite, FS_RemoveElement
    <3> QED BY <1>1, <2>2, <3>1
  <2>4. Layout(U)
    BY <1>1, <2>1, SizeIsFree
  <2> QED BY <2>1, <2>3, <2>4 DEF Sound, SizeCounts
<1>2. CASE Frees1(T, U, k)
  <2>1. PICK i \in Index : Holds1(T, k, i) /\ U = Shrunk(Marked1(T, i))
    BY <1>2 DEF Frees1
  <2>2. Layout(Marked1(T, i)) /\ <<1, i>> \in Occupied(T)
    BY <1>0, <2>1, MarkedLayout DEF Holds1, Occupied, NodeAt
  <2>3. /\ Marked1(T, i) \in Slotted /\ Marked1(T, i).size = T.size
        /\ Occupied(Marked1(T, i)) = Occupied(T) \ {<<1, i>>}
    BY <1>0, <2>2, OccupiedAfterMark DEF Layout, Marked1, Slotted
  <2> QED BY <1>1, <2>1, <2>2, <2>3
<1>3. CASE Frees2(T, U, k)
  <2>1. PICK n \in Index : Holds2(T, k, n)
                           /\ U = Shrunk(Marked2(T, Probe(k, n)))
    BY <1>3 DEF Frees2
  <2> DEFINE i == Probe(k, n)
  <2>2. Layout(Marked2(T, i)) /\ <<2, i>> \in Occupied(T) /\ i \in Index
    <3>1. i \in Index
      BY ProbeCovers
    <3>2. T.second[i].key \in Keys
      BY <2>1 DEF Holds2
    <3> HIDE DEF i
    <3> QED BY <1>0, <3>1, <3>2, MarkedLayout DEF Occupied, NodeAt
  <2>3. /\ Marked2(T, i) \in Slotted /\ Marked2(T, i).size = T.size
        /\ Occupied(Marked2(T, i)) = Occupied(T) \ {<<2, i>>}
    BY <1>0, <2>2, OccupiedAfterMark DEF Layout, Marked2, Slotted
  <2> QED BY <1>1, <2>1, <2>2, <2>3
<1>4. CASE Misses(T, U, k)
  BY <1>4 DEF Misses
<1> QED BY <1>0, <1>2, <1>3, <1>4, RemoveEnds

-----------------------------------------------------------------------------
(* Theorems                                                                *)

\* The invariant, of the table in use.
TableSound == Sound(table)

\* Every table that inserts and removals lead to is sound: every key lies where
\* its search passes, in one slot, and size_ counts the keys.
THEOREM TableAlwaysSound == Spec => []TableSound
<1>1. Init => TableSound
  BY EmptyIsSound DEF Init, TableSound
<1>2. TableSound /\ [Next]_table => TableSound'
  <2> SUFFICES ASSUME TableSound, [Next]_table
               PROVE  TableSound'
    OBVIOUS
  <2>1. ASSUME NEW k \in Keys, NEW v \in Values, Insert(k, v)
        PROVE  TableSound'
    BY <2>1, InsertedSound DEF Insert, TableSound
  <2>2. ASSUME NEW k \in Keys, Remove(k)
        PROVE  TableSound'
    BY <2>2, RemovedSound DEF Remove, TableSound
  <2>3. CASE UNCHANGED table
    BY <2>3 DEF TableSound
  <2> QED BY <2>1, <2>2, <2>3 DEF Next
<1> QED BY <1>1, <1>2, PTL DEF Spec

\* The table keeps its type; in particular size_ never becomes negative, for
\* it counts slots.
LEMMA TableSoundTyped == TableSound => TypeOK
  BY OccupiedFinite
     DEF TableSound, Sound, Layout, SizeCounts, Slotted, TypeOK, Table

THEOREM TypeAlwaysOK == Spec => []TypeOK
  BY TableSoundTyped, TableAlwaysSound, PTL

\* size_ always counts the slots that hold a key (size_++ and size_-- in
\* insert and remove_node_internal).
THEOREM SizeIsOccupiedAlways == Spec => []SizeIsOccupied
<1>1. TableSound => SizeIsOccupied
  BY TableSoundTyped DEF TableSound, Sound, SizeIsOccupied
<1> QED BY <1>1, TableAlwaysSound, PTL

\* find arrives at every slot that holds a key, after any sequence of
\* insertions and removals.
LEMMA SoundIsFindable ==
  ASSUME NEW T, Sound(T)
  PROVE  Findable(T)
<1> SUFFICES ASSUME NEW s \in Occupied(T)
             PROVE  find(T, NodeAt(T, s).key) = s
  BY DEF Findable
<1> DEFINE k == NodeAt(T, s).key
<1>1. Layout(T) /\ k \in Keys /\ s \in {1, 2} \X Index
  BY DEF Sound, Occupied
<1>2. PICK i \in Index : s = <<1, i>> \/ s = <<2, i>>
  BY <1>1
<1>3. CASE s = <<1, i>>
  <2>1. k = T.first[i].key
    BY <1>3 DEF NodeAt
  <2>2. Holds1(T, k, i)
    BY <2>1 DEF Holds1
  <2> HIDE DEF k
  <2>3. find(T, k) = s
    BY <1>1, <1>3, <2>2, FindIsSlot
  <2> QED BY <2>3 DEF k
<1>4. CASE s = <<2, i>>
  <2>1. k = T.second[i].key
    BY <1>4 DEF NodeAt
  <2> HIDE DEF k
  <2>2. PICK n \in Index : Probe(k, n) = i
    BY <1>1, ProbeCovers
  <2>3. Holds2(T, k, n)
    BY <2>1, <2>2 DEF Holds2
  <2>4. find(T, k) = s
    BY <1>1, <1>4, <2>2, <2>3, FindIsSlot
  <2> QED BY <2>4 DEF k
<1> QED BY <1>2, <1>3, <1>4

\* Whatever was inserted and removed before, find arrives at every slot that
\* holds a key: no removed slot hides one.
THEOREM EveryKeyAlwaysFindable == Spec => []EveryKeyFindable
<1>1. TableSound => EveryKeyFindable
  BY SoundIsFindable DEF TableSound, EveryKeyFindable
<1> QED BY <1>1, TableAlwaysSound, PTL

\* A full second table holds as many keys as capacity_.
LEMMA NoRoomIsFull ==
  ASSUME NEW T, Sound(T), \A i \in Index : T.second[i].key \in Keys
  PROVE  T.size >= TableCapacity
<1> DEFINE layer == {2} \X Index
<1>1. IsFiniteSet(Index) /\ Cardinality(Index) = TableCapacity
  BY FS_Interval, TableAssumption DEF Index
<1>2. IsFiniteSet({2}) /\ Cardinality({2}) = 1
  BY FS_Singleton
<1>3. Cardinality(layer) = TableCapacity
  BY <1>1, <1>2, FS_Product, TableAssumption
<1>4. layer \subseteq Occupied(T)
  BY DEF Occupied, NodeAt
<1>5. Cardinality(layer) <= Cardinality(Occupied(T))
  BY <1>4, OccupiedFinite, FS_Subset
<1> QED BY <1>3, <1>5 DEF Sound, SizeCounts

\* What Lookup returns after an insertion, and of the other keys.
LEMMA LookupInserted ==
  ASSUME NEW T, Sound(T), NEW k \in Keys, NEW v \in Values
  PROVE  LET U == Inserted(T, k, v)
         IN  /\ ~NoRoom(T, U, k) => Lookup(U, k) = v
             /\ \A q \in Keys \ {k} : Lookup(U, q) = Lookup(T, q)
             /\ \A q \in Keys \ {k} : find(U, q) = find(T, q)
             /\ Held(T, k) => find(U, k) = find(T, k)
<1> DEFINE U == Inserted(T, k, v)
<1>0. Layout(T) /\ T \in Slotted
  BY DEF Sound, Layout
<1>1. Layout(U) /\ U \in Slotted
  BY InsertedSound DEF Sound, Layout
<1>2. \A q \in Keys, n \in Index : Probe(q, n) \in Index
  BY ProbeCovers
<1> HIDE DEF U
<1>3. ASSUME NEW i \in Index, T.first[i].key \in {UnusedKey, EmptyKey, k},
             U \in {Put1(T, i, k, v), Grown(Put1(T, i, k, v))}
      PROVE  /\ Lookup(U, k) = v /\ find(U, k) = <<1, i>>
             /\ \A q \in Keys \ {k} : /\ Lookup(U, q) = Lookup(T, q)
                                      /\ find(U, q) = find(T, q)
  <2>1. /\ U.second = T.second
        /\ U.first[i] = [key |-> k, value |-> v]
        /\ \A j \in Index : j # i => U.first[j] = T.first[j]
    BY <1>0, <1>3 DEF Put1, Grown, Slotted
  <2>2. Holds1(U, k, i)
    BY <2>1 DEF Holds1
  <2>3. Lookup(U, k) = v /\ find(U, k) = <<1, i>>
    BY <1>1, <2>1, <2>2, FindIsSlot
  <2>4. ASSUME NEW q \in Keys \ {k}
        PROVE  Lookup(U, q) = Lookup(T, q) /\ find(U, q) = find(T, q)
    <3>1. \A j \in Index :
            Holds1(U, q, j) <=> Holds1(T, q, j) /\ j # i
      BY <2>1 DEF Holds1
    <3>2. \A j \in Index : Holds1(T, q, j) => j # i
      BY <1>3, MarksAreNoKeys DEF Holds1
    <3>3. \A n \in Index : Holds2(U, q, n) <=> Holds2(T, q, n)
      BY <2>1 DEF Holds2
    <3>4. CASE \E j \in Index : Holds1(T, q, j)
      BY <3>4, <3>1, <3>2, <2>1, <1>0, <1>1, FindIsSlot
    <3>5. CASE \E n \in Index : Holds2(T, q, n)
      BY <3>5, <3>3, <2>1, <1>0, <1>1, FindIsSlot
    <3>6. CASE ~Held(T, q)
      BY <3>6, <3>1, <3>3, <1>0, <1>1, FindIsSlot DEF Held
    <3> QED BY <3>4, <3>5, <3>6 DEF Held
  <2> QED BY <2>3, <2>4
<1>4. ASSUME NEW n \in Index,
             T.second[Probe(k, n)].key \in {UnusedKey, EmptyKey, k},
             U \in {Put2(T, Probe(k, n), k, v),
                    Grown(Put2(T, Probe(k, n), k, v))}
      PROVE  /\ Lookup(U, k) = v /\ find(U, k) = <<2, Probe(k, n)>>
             /\ \A q \in Keys \ {k} : /\ Lookup(U, q) = Lookup(T, q)
                                      /\ find(U, q) = find(T, q)
  <2> DEFINE i == Probe(k, n)
  <2>0. i \in Index
    BY <1>2
  <2>1. /\ U.first = T.first
        /\ U.second[i] = [key |-> k, value |-> v]
        /\ \A j \in Index : j # i => U.second[j] = T.second[j]
    <3> HIDE DEF i
    <3>1. U \in {Put2(T, i, k, v), Grown(Put2(T, i, k, v))}
      BY <1>4 DEF i
    <3> QED BY <1>0, <2>0, <3>1 DEF Put2, Grown, Slotted
  <2>2. Holds2(U, k, n)
    BY <2>1 DEF Holds2
  <2>3. Lookup(U, k) = v /\ find(U, k) = <<2, Probe(k, n)>>
    BY <1>1, <2>1, <2>2, FindIsSlot
  <2>4. ASSUME NEW q \in Keys \ {k}
        PROVE  Lookup(U, q) = Lookup(T, q) /\ find(U, q) = find(T, q)
    <3>1. \A j \in Index : Holds1(U, q, j) <=> Holds1(T, q, j)
      BY <2>1 DEF Holds1
    <3>2. \A m \in Index : Holds2(T, q, m) => Probe(q, m) # i
      BY <1>4, MarksAreNoKeys DEF Holds2
    <3>3. \A m \in Index : Holds2(U, q, m) => Probe(q, m) # i
      BY <2>1 DEF Holds2
    <3>4. \A m \in Index : Holds2(U, q, m) <=> Holds2(T, q, m)
      BY <1>2, <2>1, <3>2, <3>3 DEF Holds2
    <3>5. CASE \E j \in Index : Holds1(T, q, j)
      BY <3>5, <3>1, <2>1, <1>0, <1>1, FindIsSlot
    <3>6. CASE \E m \in Index : Holds2(T, q, m)
      <4>1. PICK m \in Index : Holds2(T, q, m)
        BY <3>6
      <4>2. Holds2(U, q, m) /\ U.second[Probe(q, m)] = T.second[Probe(q, m)]
        BY <4>1, <3>2, <3>4, <2>1, <1>2
      <4> QED BY <4>1, <4>2, <1>0, <1>1, FindIsSlot
    <3>7. CASE ~Held(T, q)
      BY <3>7, <3>1, <3>4, <1>0, <1>1, FindIsSlot DEF Held
    <3> QED BY <3>5, <3>6, <3>7 DEF Held
  <2> QED BY <2>3, <2>4
<1>5. CASE Overwrites1(T, U, k, v)
  <2>1. PICK i \in Index : Holds1(T, k, i) /\ U = Put1(T, i, k, v)
    BY <1>5 DEF Overwrites1
  <2>2. find(T, k) = <<1, i>>
    BY <1>0, <2>1, FindIsSlot
  <2> QED BY <1>3, <2>1, <2>2 DEF Holds1, U
<1>6. CASE Overwrites2(T, U, k, v)
  <2>1. PICK n \in Index : Holds2(T, k, n) /\ U = Put2(T, Probe(k, n), k, v)
    BY <1>6 DEF Overwrites2
  <2>2. find(T, k) = <<2, Probe(k, n)>>
    BY <1>0, <2>1, FindIsSlot
  <2> QED BY <1>4, <2>1, <2>2 DEF Holds2, U
<1>7. CASE Fills1(T, U, k, v)
  BY <1>3, <1>7 DEF Fills1, Window, U
<1>8. CASE Fills2(T, U, k, v)
  BY <1>4, <1>8 DEF Fills2, U
<1>9. CASE NoRoom(T, U, k)
  BY <1>9 DEF NoRoom, U
<1> QED BY <1>0, <1>5, <1>6, <1>7, <1>8, <1>9, InsertEnds DEF U

\* insert always stores its key while fewer keys than capacity_ are stored.
THEOREM InsertAlwaysFindsRoom == Spec => []InsertFindsRoom
<1>1. TableSound => InsertFindsRoom
  <2> SUFFICES ASSUME Sound(table), table.size < TableCapacity,
                      NEW k \in Keys, NEW v \in Values
               PROVE  Lookup(Inserted(table, k, v), k) = v
    BY DEF InsertFindsRoom, TableSound
  <2>1. table.size \in Int /\ TableCapacity \in Int
    BY TableAssumption DEF Sound, Layout, Slotted
  <2>2. ~NoRoom(table, Inserted(table, k, v), k)
    BY <2>1, NoRoomIsFull DEF NoRoom
  <2> QED BY <2>2, LookupInserted
<1> QED BY <1>1, TableAlwaysSound, PTL

-----------------------------------------------------------------------------
(* Removal, and the map the table implements                               *)

\* What Lookup returns after a removal, and of the other keys.
LEMMA LookupRemoved ==
  ASSUME NEW T, Sound(T), NEW k \in Keys
  PROVE  LET U == Removed(T, k)
         IN  /\ Lookup(U, k) = NoValue /\ find(U, k) = NotFound
             /\ \A q \in Keys \ {k} : Lookup(U, q) = Lookup(T, q)
             /\ \A q \in Keys \ {k} : find(U, q) = find(T, q)
             /\ Held(T, k) => U.size = T.size - 1
             /\ ~Held(T, k) => U = T
<1> DEFINE U == Removed(T, k)
<1>0. Layout(T) /\ T \in Slotted
  BY DEF Sound, Layout
<1>1. Layout(U) /\ U \in Slotted
  BY RemovedSound DEF Sound, Layout
<1>2. \A q \in Keys, n \in Index : Probe(q, n) \in Index
  BY ProbeCovers
<1> HIDE DEF U
\* What remains to be shown when U has the slots of T, except that the one of
\* k is marked.
<1>3. ASSUME NEW q \in Keys \ {k},
             \A j \in Index : Holds1(T, q, j) =>
               Holds1(U, q, j) /\ U.first[j].value = T.first[j].value,
             \A n \in Index : Holds2(T, q, n) =>
               /\ Holds2(U, q, n)
               /\ U.second[Probe(q, n)].value = T.second[Probe(q, n)].value,
             Held(U, q) => Held(T, q)
      PROVE  Lookup(U, q) = Lookup(T, q) /\ find(U, q) = find(T, q)
  <2>1. CASE \E j \in Index : Holds1(T, q, j)
    BY <1>0, <1>1, <1>3, <2>1, FindIsSlot
  <2>2. CASE \E n \in Index : Holds2(T, q, n)
    BY <1>0, <1>1, <1>3, <2>2, FindIsSlot
  <2>3. CASE ~Held(T, q)
    BY <1>0, <1>1, <1>3, <2>3, FindIsSlot
  <2> QED BY <2>1, <2>2, <2>3 DEF Held
<1>4. CASE Frees1(T, U, k)
  <2>1. PICK i \in Index : Holds1(T, k, i) /\ U = Shrunk(Marked1(T, i))
    BY <1>4 DEF Frees1
  <2>2. /\ U.second = T.second /\ U.size = T.size - 1
        /\ U.first[i].key = EmptyKey
        /\ \A j \in Index : j # i => U.first[j] = T.first[j]
    BY <1>0, <2>1 DEF Marked1, Shrunk, Slotted, HashNode
  <2>3. ~Held(U, k)
    <3>1. \A j \in Index : ~Holds1(U, k, j)
      BY <1>0, <2>1, <2>2, MarksAreNoKeys DEF Holds1, Layout, OneSlot
    <3>2. \A n \in Index : ~Holds2(U, k, n)
      BY <1>0, <2>1, <2>2 DEF Holds1, Holds2, Layout, OneSlot
    <3> QED BY <3>1, <3>2 DEF Held
  <2>4. ASSUME NEW q \in Keys \ {k}
        PROVE  Lookup(U, q) = Lookup(T, q) /\ find(U, q) = find(T, q)
    <3>1. \A j \in Index : Holds1(T, q, j) => j # i
      BY <2>1 DEF Holds1
    <3>2. \A j \in Index : Holds1(U, q, j) => j # i
      BY <2>2, MarksAreNoKeys DEF Holds1
    <3> QED BY <1>3, <2>2, <3>1, <3>2 DEF Holds1, Holds2, Held
  <2> QED
    BY <1>1, <2>1, <2>2, <2>3, <2>4, FindIsSlot DEF U, Held
<1>5. CASE Frees2(T, U, k)
  <2>1. PICK m \in Index : Holds2(T, k, m)
                           /\ U = Shrunk(Marked2(T, Probe(k, m)))
    BY <1>5 DEF Frees2
  <2> DEFINE i == Probe(k, m)
  <2>i. i \in Index
    BY <1>2
  <2>2. /\ U.first = T.first /\ U.size = T.size - 1
        /\ U.second[i].key = EmptyKey
        /\ \A j \in Index : j # i => U.second[j] = T.second[j]
    <3>1. U = Shrunk(Marked2(T, i))
      BY <2>1
    <3> HIDE DEF i
    <3> QED BY <1>0, <2>i, <3>1 DEF Marked2, Shrunk, Slotted, HashNode
  <2>3. ~Held(U, k)
    <3>1. \A n \in Index : ~Holds2(U, k, n)
      <4> SUFFICES ASSUME NEW n \in Index, Holds2(U, k, n) PROVE FALSE
        OBVIOUS
      <4>1. Probe(k, n) # i
        BY <2>2, MarksAreNoKeys DEF Holds2
      <4>2. Holds2(T, k, n)
        BY <1>2, <2>2, <4>1 DEF Holds2
      <4> QED BY <1>0, <2>1, <4>1, <4>2 DEF Layout, OneSlot
    <3>2. \A j \in Index : ~Holds1(U, k, j)
      BY <1>0, <2>1, <2>2 DEF Holds1, Layout, OneSlot
    <3> QED BY <3>1, <3>2 DEF Held
  <2>4. ASSUME NEW q \in Keys \ {k}
        PROVE  Lookup(U, q) = Lookup(T, q) /\ find(U, q) = find(T, q)
    <3>1. \A n \in Index : Holds2(T, q, n) => Probe(q, n) # i
      BY <2>1 DEF Holds2
    <3>2. \A n \in Index : Holds2(U, q, n) => Probe(q, n) # i
      BY <2>2, MarksAreNoKeys DEF Holds2
    <3>3. \A n \in Index : Holds2(T, q, n) =>
            U.second[Probe(q, n)] = T.second[Probe(q, n)]
      BY <1>2, <2>2, <3>1
    <3>4. \A n \in Index : Holds2(U, q, n) =>
            U.second[Probe(q, n)] = T.second[Probe(q, n)]
      BY <1>2, <2>2, <3>2
    <3> HIDE DEF i
    <3> QED BY <1>3, <2>2, <3>3, <3>4 DEF Holds1, Holds2, Held
  <2> QED
    BY <1>1, <2>1, <2>2, <2>3, <2>4, FindIsSlot DEF U, Held
<1>6. CASE Misses(T, U, k)
  BY <1>0, <1>6, FindIsSlot DEF Misses, U
<1> QED BY <1>0, <1>4, <1>5, <1>6, RemoveEnds DEF U

\* A stored key keeps its slot until it is removed: pointers that find
\* returned stay good across operations on other keys.
THEOREM SlotsAlwaysStable == Spec => StableSlots
<1> DEFINE Stays(k) ==
             find(table, k) # NotFound /\ find(table', k) # NotFound
               => find(table', k) = find(table, k)
<1>1. TableSound /\ [Next]_table => [\A k \in Keys : Stays(k)]_table
  <2> SUFFICES ASSUME TableSound, Next, NEW q \in Keys
               PROVE  Stays(q)
    OBVIOUS
  <2>1. ASSUME NEW k \in Keys, NEW v \in Values, Insert(k, v)
        PROVE  Stays(q)
    <3>1. CASE Held(table, k) \/ q # k
      BY <2>1, <3>1, LookupInserted DEF Insert, TableSound
    <3>2. CASE ~Held(table, k) /\ q = k
      BY <3>2, FindIsSlot DEF TableSound, Sound
    <3> QED BY <3>1, <3>2
  <2>2. ASSUME NEW k \in Keys, Remove(k)
        PROVE  Stays(q)
    BY <2>2, LookupRemoved DEF Remove, TableSound
  <2> QED BY <2>1, <2>2 DEF Next
<1> QED BY <1>1, TableAlwaysSound, PTL DEF Spec, StableSlots

\* How insert changes size_.
LEMMA SizeInserted ==
  ASSUME NEW T, Sound(T), NEW k \in Keys, NEW v \in Values
  PROVE  LET U == Inserted(T, k, v)
         IN  /\ Held(T, k) => U.size = T.size
             /\ ~Held(T, k) => NoRoom(T, U, k) \/ U.size = T.size + 1
<1> DEFINE U == Inserted(T, k, v)
<1>0. Layout(T) /\ T \in Slotted
  BY DEF Sound, Layout
<1> HIDE DEF U
<1>1. ASSUME NEW i
      PROVE  /\ Put1(T, i, k, v).size = T.size
             /\ Put2(T, i, k, v).size = T.size
             /\ Grown(Put1(T, i, k, v)).size = T.size + 1
             /\ Grown(Put2(T, i, k, v)).size = T.size + 1
  BY <1>0 DEF Put1, Put2, Grown, Slotted
<1>2. \/ Held(T, k) /\ U.size = T.size
      \/ ~Held(T, k) /\ (NoRoom(T, U, k) \/ U.size = T.size + 1)
  <2>1. \/ Overwrites1(T, U, k, v) \/ Overwrites2(T, U, k, v)
        \/ Fills1(T, U, k, v) \/ Fills2(T, U, k, v) \/ NoRoom(T, U, k)
    BY <1>0, InsertEnds DEF U
  <2> QED
    BY <1>1, <2>1
       DEF Overwrites1, Overwrites2, Fills1, Fills2, NoRoom, Held
<1> QED BY <1>2 DEF U

\* Held keys are those that Lookup finds a value for.
LEMMA HeldHasValue ==
  ASSUME NEW T, Layout(T), NEW k \in Keys
  PROVE  Held(T, k) <=> Lookup(T, k) # NoValue
<1>1. ASSUME NEW i \in Index, Holds1(T, k, i)
      PROVE  Lookup(T, k) # NoValue
  BY <1>1, FindIsSlot, TableAssumption DEF Layout, Filled, Holds1
<1>2. ASSUME NEW n \in Index, Holds2(T, k, n)
      PROVE  Lookup(T, k) # NoValue
  <2> DEFINE i == Probe(k, n)
  <2>1. i \in Index /\ T.second[i].key \in Keys
    BY <1>2, ProbeCovers DEF Holds2
  <2>2. Lookup(T, k) = T.second[i].value
    BY <1>2, FindIsSlot
  <2> HIDE DEF i
  <2> QED BY <2>1, <2>2, TableAssumption DEF Layout, Filled
<1> QED BY <1>1, <1>2, FindIsSlot DEF Held

\* The table implements a map: what a caller sees of insert and remove is
\* what MapSpec promises, wherever the keys land.
THEOREM TableImplementsMap == Spec => ImplementsMap
<1> DEFINE view(T) == [k \in Keys |-> Lookup(T, k)]
<1>1. Init => Abstract!Init
  <2>1. \A k \in Keys : Lookup(EmptyTable, k) = NoValue
    <3>1. Layout(EmptyTable) /\ \A k \in Keys : ~Held(EmptyTable, k)
      BY EmptyIsSound, MarksAreNoKeys, ProbeCovers
         DEF Sound, Held, Holds1, Holds2, EmptyTable, Unused
    <3> QED BY <3>1, FindIsSlot
  <2>2. EmptyTable.size = 0
    BY DEF EmptyTable
  <2> QED BY <2>1, <2>2 DEF Init, Abstract!Init
<1>2. TableSound /\ [Next]_table => [Abstract!Next]_(Abstract!vars)
  <2> SUFFICES ASSUME TableSound, [Next]_table
               PROVE  [Abstract!Next]_(Abstract!vars)
    OBVIOUS
  <2>0. Sound(table) /\ Layout(table)
    BY DEF TableSound, Sound
  <2>1. ASSUME NEW k \in Keys, NEW v \in Values, Insert(k, v)
        PROVE  [Abstract!Next]_(Abstract!vars)
    <3> DEFINE U == Inserted(table, k, v)
    <3>1. table' = U
      BY <2>1 DEF Insert
    <3>2. CASE NoRoom(table, U, k)
      <4>1. table' = table
        BY <3>1, <3>2 DEF NoRoom
      <4> QED BY <4>1 DEF Abstract!vars
    <3>3. CASE ~NoRoom(table, U, k)
      <4>1. /\ Lookup(U, k) = v
            /\ \A q \in Keys \ {k} : Lookup(U, q) = Lookup(table, q)
        BY <2>0, <3>3, LookupInserted
      <4>2. view(table') = [view(table) EXCEPT ![k] = v]
        BY <3>1, <4>1
      <4>3. table'.size = IF view(table)[k] = NoValue
                          THEN table.size + 1 ELSE table.size
        BY <2>0, <3>1, <3>3, SizeInserted, HeldHasValue
      <4>4. Abstract!Put(k, v)
        BY <4>2, <4>3 DEF Abstract!Put
      <4> QED BY <4>4 DEF Abstract!Next
    <3> QED BY <3>2, <3>3
  <2>2. ASSUME NEW k \in Keys, Remove(k)
        PROVE  [Abstract!Next]_(Abstract!vars)
    <3> DEFINE U == Removed(table, k)
    <3>1. table' = U
      BY <2>2 DEF Remove
    <3>2. CASE ~Held(table, k)
      <4>1. table' = table
        BY <2>0, <3>1, <3>2, LookupRemoved
      <4> QED BY <4>1 DEF Abstract!vars
    <3>3. CASE Held(table, k)
      <4>1. /\ Lookup(U, k) = NoValue
            /\ \A q \in Keys \ {k} : Lookup(U, q) = Lookup(table, q)
            /\ U.size = table.size - 1
        BY <2>0, <3>3, LookupRemoved
      <4>2. view(table') = [view(table) EXCEPT ![k] = NoValue]
        BY <3>1, <4>1
      <4>3. view(table)[k] # NoValue
        BY <2>0, <3>3, HeldHasValue
      <4>4. Abstract!Remove(k)
        BY <3>1, <4>1, <4>2, <4>3 DEF Abstract!Remove
      <4> QED BY <4>4 DEF Abstract!Next
    <3> QED BY <3>2, <3>3
  <2>3. CASE UNCHANGED table
    BY <2>3 DEF Abstract!vars
  <2> QED BY <2>1, <2>2, <2>3 DEF Next
<1> QED
  BY <1>1, <1>2, TableAlwaysSound, PTL
     DEF Spec, ImplementsMap, Abstract!Spec
=============================================================================
