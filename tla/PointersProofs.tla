--------------------------- MODULE PointersProofs ---------------------------
(***************************************************************************)
(* Lemmas about the operators of Pointers and Powers and, further down, of *)
(* ListNodes.                                                              *)
(*                                                                         *)
(* The induction theorems of the library take a predicate as a parameter,  *)
(* which no prover here can instantiate.  The least element of a set of    *)
(* numbers needs no such parameter; induction over a set, and from it that *)
(* a function defined by recursion on Nat exists, follow from it.          *)
(***************************************************************************)
EXTENDS Powers, ListNodes, FiniteSetTheorems, SequenceTheorems, WellFoundedInduction, TLAPS

\* Every set of natural numbers that is not empty has a least element.
LEMMA LeastElement ==
  ASSUME NEW S \in SUBSET Nat, S # {}
  PROVE  \E x \in S : \A y \in S : x <= y
<1> DEFINE Less == {p \in Nat \X Nat : p[1] < p[2]}
<1>1. IsWellFoundedOn(Less, Nat)
  <2>1. OpToRel(<, Nat) = Less
    BY DEF OpToRel
  <2> QED BY <2>1, NatLessThanWellFounded
<1>2. PICK x \in S : \A y \in S : ~(<<y, x>> \in Less)
  BY <1>1, WFMin
<1>3. \A y \in S : ~(y < x)
  BY <1>2
<1> QED BY <1>3

\* Induction, for a set of numbers instead of a predicate.
LEMMA SetInduction ==
  ASSUME NEW Good,
         0 \in Good,
         \A n \in Nat : n \in Good => n + 1 \in Good
  PROVE  Nat \subseteq Good
<1> SUFFICES ASSUME Nat \ Good # {}
             PROVE  FALSE
  OBVIOUS
<1>1. PICK x \in Nat \ Good : \A y \in Nat \ Good : x <= y
  BY LeastElement
<1>2. x - 1 \in Nat /\ x - 1 \in Good
  BY <1>1
<1> QED BY <1>1, <1>2

\* What is defined by one value and a step from each value to the next is a
\* function on the natural numbers.
LEMMA Recursion ==
  ASSUME NEW S, NEW first \in S, NEW step \in [S -> S]
  PROVE  \E g \in [Nat -> S] :
           g[0] = first /\ \A n \in Nat : g[n + 1] = step[g[n]]
<1> DEFINE Upto(n) == {h \in [0 .. n -> S] :
                         /\ h[0] = first
                         /\ \A i \in 1 .. n : h[i] = step[h[i - 1]]}
           Good == {n \in Nat : \E h : h \in Upto(n)}
<1>1. \A n \in Nat : \E h : h \in Upto(n)
  <2>1. 0 \in Good
    <3>1. [i \in 0 .. 0 |-> first] \in Upto(0)
      OBVIOUS
    <3> QED BY <3>1
  <2>2. ASSUME NEW n \in Nat, n \in Good
        PROVE  n + 1 \in Good
    <3>1. PICK h : h \in Upto(n)
      BY <2>2
    <3> DEFINE e == [i \in 0 .. n + 1 |-> IF i <= n THEN h[i] ELSE step[h[n]]]
    <3>2. h \in [0 .. n -> S] /\ h[0] = first
          /\ \A i \in 1 .. n : h[i] = step[h[i - 1]]
      BY <3>1
    <3>3. e \in [0 .. n + 1 -> S]
      BY <3>2
    <3>4. e[0] = first
      BY <3>2
    <3>5. ASSUME NEW i \in 1 .. n + 1
          PROVE  e[i] = step[e[i - 1]]
      <4>1. i - 1 \in 0 .. n /\ e[i - 1] = h[i - 1]
        OBVIOUS
      <4>2. CASE i <= n
        BY <4>1, <4>2, <3>2
      <4>3. CASE i = n + 1
        BY <4>1, <4>3
      <4> QED BY <4>2, <4>3
    <3>6. e \in Upto(n + 1)
      BY <3>3, <3>4, <3>5
    <3> QED BY <3>6
  <2> HIDE DEF Good
  <2>3. Nat \subseteq Good
    BY <2>1, <2>2, SetInduction
  <2> QED BY <2>3 DEF Good
<1>2. \A m, n \in Nat : \A h, e :
        h \in Upto(m) /\ e \in Upto(n) =>
          \A i \in Nat : i <= m /\ i <= n => h[i] = e[i]
  <2> HIDE DEF Upto
  <2> SUFFICES ASSUME NEW m \in Nat, NEW n \in Nat, NEW h, NEW e,
                      h \in Upto(m), e \in Upto(n)
               PROVE  \A i \in Nat : i <= m /\ i <= n => h[i] = e[i]
    OBVIOUS
  <2> USE DEF Upto
  <2> DEFINE Same == {i \in Nat : i <= m /\ i <= n => h[i] = e[i]}
  <2>1. 0 \in Same
    OBVIOUS
  <2>2. ASSUME NEW i \in Nat, i \in Same
        PROVE  i + 1 \in Same
    <3>1. CASE i + 1 <= m /\ i + 1 <= n
      <4>1. h[i] = e[i]
        BY <2>2, <3>1
      <4>2. i + 1 \in 1 .. m /\ i + 1 \in 1 .. n /\ (i + 1) - 1 = i
        BY <3>1
      <4>3. h[i + 1] = step[h[i]] /\ e[i + 1] = step[e[i]]
        BY <4>2
      <4> QED BY <4>1, <4>3
    <3> QED BY <3>1
  <2> HIDE DEF Same
  <2>3. Nat \subseteq Same
    BY <2>1, <2>2, SetInduction
  <2> QED BY <2>3 DEF Same
<1> DEFINE H(n) == CHOOSE h : h \in Upto(n)
           g == [n \in Nat |-> H(n)[n]]
<1>3. \A n \in Nat : H(n) \in Upto(n)
  <2> HIDE DEF Upto
  <2> QED BY <1>1
<1>4. g \in [Nat -> S]
  <2>1. ASSUME NEW n \in Nat
        PROVE  H(n)[n] \in S
    <3> HIDE DEF H
    <3>1. H(n) \in [0 .. n -> S] /\ n \in 0 .. n
      BY <1>3
    <3> QED BY <3>1
  <2> HIDE DEF H
  <2> QED BY <2>1
<1>5. \A n \in Nat : g[n] = IF n = 0 THEN first ELSE step[g[n - 1]]
  <2> SUFFICES ASSUME NEW n \in Nat
               PROVE  g[n] = IF n = 0 THEN first ELSE step[g[n - 1]]
    OBVIOUS
  <2> HIDE DEF H
  <2>1. CASE n = 0
    <3>1. H(0) \in Upto(0)
      BY <1>3
    <3> QED BY <3>1, <2>1
  <2>2. CASE n # 0
    <3>1. n - 1 \in Nat /\ n \in 1 .. n
      BY <2>2
    <3>2. H(n) \in Upto(n) /\ H(n - 1) \in Upto(n - 1)
      BY <1>3, <3>1
    <3>3. H(n)[n] = step[H(n)[n - 1]]
      BY <3>1, <3>2
    <3>4. H(n)[n - 1] = H(n - 1)[n - 1]
      <4> HIDE DEF Upto
      <4> QED BY <3>1, <3>2, <1>2
    <3> QED BY <3>1, <3>3, <3>4, <2>2
  <2> QED BY <2>1, <2>2
<1> HIDE DEF g
<1>6. \A n \in Nat : g[n + 1] = step[g[n]]
  <2> SUFFICES ASSUME NEW n \in Nat
               PROVE  g[n + 1] = step[g[n]]
    OBVIOUS
  <2>1. n + 1 \in Nat /\ n + 1 # 0 /\ (n + 1) - 1 = n
    OBVIOUS
  <2> QED BY <1>5, <2>1
<1>7. g[0] = first
  BY <1>5
<1> QED BY <1>4, <1>6, <1>7

\* Least is the least element.
LEMMA LeastIsLeast ==
  ASSUME NEW S \in SUBSET Nat, S # {}
  PROVE  Least(S) \in S /\ \A m \in S : Least(S) <= m
BY LeastElement DEF Least

\* A walk that starts at p and takes each step by the pointers hop.
Follows(at, hop, p) ==
  at[0] = p /\ \A n \in Nat : at[n + 1] = hop[at[n]]

\* Reached follows the pointers one by one.
LEMMA ReachedHops ==
  ASSUME NEW D, NEW hop \in [D -> D], NEW p \in D
  PROVE  Reached(hop, p) \in [Nat -> D] /\ Follows(Reached(hop, p), hop, p)
<1> DEFINE Walks(g) == g = [n \in Nat |-> IF n = 0 THEN p ELSE hop[g[n - 1]]]
           at == Reached(hop, p)
<1>1. at = CHOOSE g : Walks(g)
  BY DEF Reached
<1>2. PICK h \in [Nat -> D] : h[0] = p /\ \A n \in Nat : h[n + 1] = hop[h[n]]
  BY Recursion
<1>3. Walks(h)
  <2>1. ASSUME NEW n \in Nat
        PROVE  h[n] = IF n = 0 THEN p ELSE hop[h[n - 1]]
    <3>1. CASE n # 0
      <4>1. n - 1 \in Nat /\ (n - 1) + 1 = n
        BY <3>1
      <4> QED BY <1>2, <3>1, <4>1
    <3> QED BY <1>2, <3>1
  <2> QED BY <2>1
<1>4. Walks(at)
  <2> HIDE DEF Walks, at
  <2> QED BY <1>1, <1>3
<1> HIDE DEF at
<1>5. \A n \in Nat : at[n + 1] = hop[at[n]]
  <2> SUFFICES ASSUME NEW n \in Nat
               PROVE  at[n + 1] = hop[at[n]]
    OBVIOUS
  <2>1. n + 1 \in Nat /\ n + 1 # 0 /\ (n + 1) - 1 = n
    OBVIOUS
  <2> QED BY <1>4, <2>1
<1>6. at[0] = p
  BY <1>4
<1>7. at \in [Nat -> D]
  <2> DEFINE Good == {n \in Nat : at[n] \in D}
  <2>1. 0 \in Good
    BY <1>6
  <2>2. ASSUME NEW n \in Nat, n \in Good
        PROVE  n + 1 \in Good
    BY <2>2, <1>5
  <2> HIDE DEF Good
  <2>3. Nat \subseteq Good
    BY <2>1, <2>2, SetInduction
  <2>4. \A n \in Nat : at[n] \in D
    BY <2>3 DEF Good
  <2>5. at = [n \in Nat |-> at[n]]
    <3>1. DOMAIN at = Nat
      BY <1>4
    <3>2. \E g : at = [n \in Nat |-> IF n = 0 THEN p ELSE hop[g[n - 1]]]
      BY <1>4
    <3> HIDE DEF Walks
    <3> QED BY <3>1, <3>2
  <2> QED BY <2>4, <2>5
<1>8. Follows(at, hop, p)
  BY <1>5, <1>6 DEF Follows
<1> QED BY <1>7, <1>8 DEF at

\* The numbers below n are n.
LEMMA BelowCounted ==
  ASSUME NEW n \in Nat
  PROVE  IsFiniteSet(0 .. n - 1) /\ Cardinality(0 .. n - 1) = n
<1>1. 0 \in Int /\ n - 1 \in Int
  OBVIOUS
<1>2. /\ IsFiniteSet(0 .. n - 1)
      /\ Cardinality(0 .. n - 1) = IF 0 > n - 1 THEN 0 ELSE n - 1 - 0 + 1
  BY <1>1, FS_Interval
<1>3. (IF 0 > n - 1 THEN 0 ELSE n - 1 - 0 + 1) = n
  OBVIOUS
<1> QED BY <1>2, <1>3

-----------------------------------------------------------------------------
(* Powers of two and capacities                                            *)

LEMMA PowersDouble ==
  /\ Power2 \in [Nat -> Nat \ {0}]
  /\ Power2[0] = 1
  /\ \A n \in Nat : Power2[n + 1] = 2 * Power2[n]
<1> DEFINE double == [x \in Nat |-> 2 * x]
<1>1. double \in [Nat -> Nat] /\ 1 \in Nat /\ Power2 = Reached(double, 1)
  BY DEF Power2
<1> HIDE DEF double
<1>2. Power2 \in [Nat -> Nat] /\ Follows(Power2, double, 1)
  BY <1>1, ReachedHops
<1>3. Power2[0] = 1 /\ \A n \in Nat : Power2[n + 1] = 2 * Power2[n]
  <2>1. \A n \in Nat : Power2[n] \in Nat
    BY <1>2
  <2> QED BY <1>2, <2>1 DEF Follows, double
<1> DEFINE Positive == {n \in Nat : Power2[n] # 0}
<1>4. Nat \subseteq Positive
  <2>1. 0 \in Positive
    BY <1>3
  <2>2. \A n \in Nat : n \in Positive => n + 1 \in Positive
    BY <1>2, <1>3
  <2> HIDE DEF Positive
  <2> QED BY <2>1, <2>2, SetInduction
<1>5. \A n \in Nat : Power2[n] \in Nat \ {0}
  BY <1>2, <1>4
<1>6. Power2 \in [Nat -> Nat \ {0}]
  BY <1>2, <1>5
<1> QED BY <1>3, <1>6

LEMMA PowersGrow == \A n \in Nat : Power2[n] \in Nat /\ n < Power2[n]
<1> DEFINE Grown == {n \in Nat : n < Power2[n]}
<1>1. \A n \in Nat : Power2[n] \in Nat \ {0}
  BY PowersDouble
<1>2. 0 \in Grown
  BY PowersDouble
<1>3. ASSUME NEW n \in Nat, n \in Grown
      PROVE  n + 1 \in Grown
  <2>1. Power2[n + 1] = 2 * Power2[n] /\ Power2[n] \in Nat /\ n < Power2[n]
    BY <1>1, <1>3, PowersDouble
  <2> QED BY <2>1
<1> HIDE DEF Grown
<1>4. Nat \subseteq Grown
  BY <1>2, <1>3, SetInduction
<1> QED BY <1>1, <1>4 DEF Grown

\* What capacity_ may be.
Capacities == {0} \cup {Power2[i] : i \in Nat}

LEMMA RoundedUp ==
  ASSUME NEW n \in Nat
  PROVE  /\ round_up_pow2(n) \in Capacities
         /\ round_up_pow2(n) >= n
         /\ n # 0 => round_up_pow2(n) # 0
<1>1. CASE n = 0
  BY <1>1 DEF round_up_pow2, Capacities
<1>2. CASE n # 0
  <2> DEFINE S == {i \in 0 .. n : Power2[i] >= n}
             l == Least(S)
  <2>1. n \in S
    BY PowersGrow
  <2>2. S \in SUBSET Nat /\ S # {}
    BY <2>1
  <2>3. l \in S
    <3> HIDE DEF S
    <3> QED BY <2>2, LeastIsLeast
  <2>4. round_up_pow2(n) = Power2[l]
    BY <1>2 DEF round_up_pow2
  <2>5. l \in Nat /\ Power2[l] >= n
    BY <2>3
  <2> HIDE DEF l
  <2>6. Power2[l] \in Nat \ {0}
    BY <2>5, PowersDouble
  <2> QED BY <2>4, <2>5, <2>6 DEF Capacities
<1> QED BY <1>1, <1>2

LEMMA PowersInOrder ==
  ASSUME NEW i \in Nat, NEW j \in Nat, i <= j
  PROVE  Power2[i] <= Power2[j]
<1> DEFINE Above == {n \in Nat : Power2[i] <= Power2[i + n]}
<1>1. \A n \in Nat : Power2[n] \in Nat
  BY PowersDouble
<1>2. 0 \in Above
  BY <1>1
<1>3. ASSUME NEW n \in Nat, n \in Above
      PROVE  n + 1 \in Above
  <2>1. i + n \in Nat /\ i + (n + 1) = (i + n) + 1
    OBVIOUS
  <2>2. Power2[i + (n + 1)] = 2 * Power2[i + n]
    BY <2>1, PowersDouble
  <2>3. Power2[i] \in Nat /\ Power2[i + n] \in Nat /\ Power2[i] <= Power2[i + n]
    BY <1>1, <1>3, <2>1
  <2> QED BY <2>2, <2>3
<1> HIDE DEF Above
<1>4. Nat \subseteq Above
  BY <1>2, <1>3, SetInduction
<1>5. j - i \in Nat /\ i + (j - i) = j
  OBVIOUS
<1> QED BY <1>4, <1>5 DEF Above

\* A larger request is not rounded to less.
LEMMA RoundedInOrder ==
  ASSUME NEW m \in Nat, NEW n \in Nat, m <= n
  PROVE  round_up_pow2(m) <= round_up_pow2(n)
<1> DEFINE S(x) == {i \in 0 .. x : Power2[i] >= x}
<1>1. CASE m = 0
  <2>1. round_up_pow2(m) = 0
    BY <1>1 DEF round_up_pow2
  <2>2. round_up_pow2(n) \in Nat
    BY RoundedUp, PowersDouble DEF Capacities
  <2> QED BY <2>1, <2>2
<1>2. CASE m # 0
  <2> DEFINE l == Least(S(m))
             r == Least(S(n))
  <2>1. round_up_pow2(m) = Power2[l] /\ round_up_pow2(n) = Power2[r]
    BY <1>2 DEF round_up_pow2
  <2>2. \A x \in Nat : S(x) \in SUBSET Nat /\ x \in S(x) /\ S(x) # {}
    BY PowersGrow
  <2>3. l \in S(m) /\ (\A i \in S(m) : l <= i)
    <3>1. S(m) \in SUBSET Nat /\ S(m) # {}
      BY <2>2
    <3> HIDE DEF S
    <3> QED BY <3>1, LeastIsLeast
  <2>4. r \in S(n)
    <3>1. S(n) \in SUBSET Nat /\ S(n) # {}
      BY <2>2
    <3> HIDE DEF S
    <3> QED BY <3>1, LeastIsLeast
  <2> HIDE DEF l, r
  <2>5. l \in Nat /\ r \in Nat /\ l <= m /\ Power2[r] >= n /\ Power2[r] \in Nat
    BY <2>3, <2>4, PowersGrow
  <2>6. l <= r
    <3>1. CASE r <= m
      <4>1. r \in S(m)
        BY <2>5, <3>1
      <4> QED BY <2>3, <4>1
    <3>2. CASE r > m
      BY <2>5, <3>2
    <3> QED BY <2>5, <3>1, <3>2
  <2> QED BY <2>1, <2>5, <2>6, PowersInOrder
<1> QED BY <1>1, <1>2

-----------------------------------------------------------------------------
(* Counting, and recursion with a different step each time                 *)

\* What a function matches one to one has as many elements.
LEMMA SameNumber ==
  ASSUME NEW B, NEW C, NEW f \in [B -> C], IsFiniteSet(B),
         \A x, y \in B : f[x] = f[y] => x = y,
         \A c \in C : \E x \in B : f[x] = c
  PROVE  IsFiniteSet(C) /\ Cardinality(C) = Cardinality(B)
<1>1. f \in Injection(B, C)
  BY DEF Injection, IsInjective
<1>2. f \in Surjection(B, C)
  BY DEF Surjection
<1>3. ExistsBijection(B, C)
  BY <1>1, <1>2 DEF ExistsBijection, Bijection
<1> QED BY <1>3, FS_Bijection

\* The same where the other side is known to be finite.
LEMMA SameNumberBack ==
  ASSUME NEW B, NEW C, NEW f \in [B -> C], IsFiniteSet(C),
         \A x, y \in B : f[x] = f[y] => x = y,
         \A c \in C : \E x \in B : f[x] = c
  PROVE  IsFiniteSet(B) /\ Cardinality(C) = Cardinality(B)
<1> DEFINE g == [c \in C |-> CHOOSE x \in B : f[x] = c]
<1>1. \A c \in C : g[c] \in B /\ f[g[c]] = c
  OBVIOUS
<1>2. g \in [C -> B]
  BY <1>1
<1> HIDE DEF g
<1>3. \A c, d \in C : g[c] = g[d] => c = d
  BY <1>1
<1>4. \A x \in B : \E c \in C : g[c] = x
  BY <1>1
<1> QED BY ONLY IsFiniteSet(C), <1>2, <1>3, <1>4, SameNumber

\* n steps, each by a function of its own.
LEMMA StepByStep ==
  ASSUME NEW S, NEW first \in S, NEW n \in Nat,
         NEW step \in [1 .. n -> [S -> S]]
  PROVE  \E h \in [0 .. n -> S] :
           h[0] = first /\ \A i \in 1 .. n : h[i] = step[i][h[i - 1]]
<1> DEFINE Upto(m) == {h \in [0 .. m -> S] :
                         /\ h[0] = first
                         /\ \A i \in 1 .. m : h[i] = step[i][h[i - 1]]}
           Good == {m \in Nat : m <= n => \E h : h \in Upto(m)}
<1>1. 0 \in Good
  <2>1. [i \in 0 .. 0 |-> first] \in Upto(0)
    OBVIOUS
  <2> QED BY <2>1
<1>2. ASSUME NEW m \in Nat, m \in Good
      PROVE  m + 1 \in Good
  <2> SUFFICES ASSUME m + 1 <= n
               PROVE  \E h : h \in Upto(m + 1)
    OBVIOUS
  <2>1. PICK h : h \in Upto(m)
    BY <1>2
  <2>2. h \in [0 .. m -> S] /\ h[0] = first
        /\ \A i \in 1 .. m : h[i] = step[i][h[i - 1]]
    BY <2>1
  <2>3. step[m + 1] \in [S -> S] /\ h[m] \in S
    <3>1. m + 1 \in 1 .. n /\ m \in 0 .. m
      OBVIOUS
    <3> QED BY <2>2, <3>1
  <2> DEFINE e == [i \in 0 .. m + 1 |-> IF i <= m THEN h[i] ELSE step[m + 1][h[m]]]
  <2>4. step[m + 1][h[m]] \in S
    BY <2>3
  <2>5. e \in [0 .. m + 1 -> S]
    BY <2>2, <2>4
  <2>6. e[0] = first
    BY <2>2
  <2>7. ASSUME NEW i \in 1 .. m + 1
        PROVE  e[i] = step[i][e[i - 1]]
    <3>1. i - 1 \in 0 .. m /\ e[i - 1] = h[i - 1]
      OBVIOUS
    <3>2. CASE i <= m
      BY <3>1, <3>2, <2>2
    <3>3. CASE i = m + 1
      BY <3>1, <3>3
    <3> QED BY <3>2, <3>3
  <2>8. e \in Upto(m + 1)
    BY <2>5, <2>6, <2>7
  <2> QED BY <2>8
<1>3. n \in Good
  <2> HIDE DEF Good
  <2>1. Nat \subseteq Good
    BY <1>1, <1>2, SetInduction
  <2> QED BY <2>1
<1>4. PICK h : h \in Upto(n)
  BY <1>3
<1> QED BY <1>4

-----------------------------------------------------------------------------
(***************************************************************************)
(* ListNodes: what its operations do to a list.                            *)
(*                                                                         *)
(* A list is looked at through NextOf and PrevOf, which treat head_, tail_ *)
(* and the nodes of the array alike: to link or unlink a node is to change *)
(* these functions at two or three pointers.  The nodes from head_ to      *)
(* tail_ are given by a thread, a function e with e[0] = HeadNode and      *)
(* e[n + 1] = TailNode, so that both ends need no case of their own.       *)
(***************************************************************************)

\* The array, and what may point where in a list of a given capacity.
ArrayOf(cap) == 0 .. cap - 1
PointersOf(cap) == ArrayOf(cap) \cup {HeadNode, TailNode, Nil}
NodeType(cap, K, V) ==
  [prev : PointersOf(cap), next : PointersOf(cap), key : K, value : V]
ListType(cap, K, V) ==
  [node : [ArrayOf(cap) -> NodeType(cap, K, V)],
   head : NodeType(cap, K, V), tail : NodeType(cap, K, V),
   size : Nat, capacity : {cap},
   freeHead : ArrayOf(cap) \cup {Nil}, freeSize : Nat]

\* Nothing but the links differs.
SameButLinks(U, L) ==
  /\ U.size = L.size /\ U.capacity = L.capacity
  /\ U.freeHead = L.freeHead /\ U.freeSize = L.freeSize
  /\ \A x \in DOMAIN L.node : /\ U.node[x].key = L.node[x].key
                              /\ U.node[x].value = L.node[x].value

\* The nodes of U have the keys and values of L; all but x, which has k and v.
SameData(U, L, cap) ==
  \A y \in ArrayOf(cap) : /\ U.node[y].key = L.node[y].key
                          /\ U.node[y].value = L.node[y].value
NewData(U, L, cap, x, k, v) ==
  \A y \in ArrayOf(cap) :
    /\ U.node[y].key = IF y = x THEN k ELSE L.node[y].key
    /\ U.node[y].value = IF y = x THEN v ELSE L.node[y].value

LEMMA NodePointers ==
  ASSUME NEW cap \in Nat
  PROVE  /\ \A x \in ArrayOf(cap) : x # HeadNode /\ x # TailNode /\ x # Nil
         /\ HeadNode # TailNode /\ HeadNode # Nil /\ TailNode # Nil
BY DEF ArrayOf, HeadNode, TailNode, Nil

\* The pointers of a list are functions on all pointers.
LEMMA NextPrevTyped ==
  ASSUME NEW cap \in Nat, NEW K, NEW V, NEW L \in ListType(cap, K, V)
  PROVE  /\ DOMAIN L.node = ArrayOf(cap)
         /\ NextOf(L) \in [PointersOf(cap) -> PointersOf(cap)]
         /\ PrevOf(L) \in [PointersOf(cap) -> PointersOf(cap)]
         /\ NextOf(L)[HeadNode] = L.head.next
         /\ PrevOf(L)[TailNode] = L.tail.prev
         /\ \A x \in ArrayOf(cap) : /\ NextOf(L)[x] = L.node[x].next
                                    /\ PrevOf(L)[x] = L.node[x].prev
<1>1. DOMAIN L.node = ArrayOf(cap)
  BY DEF ListType
<1>2. \A p \in PointersOf(cap) \ {Nil} :
        NodeAt(L, p).next \in PointersOf(cap) /\ NodeAt(L, p).prev \in PointersOf(cap)
  BY NodePointers DEF NodeAt, ListType, NodeType, PointersOf
<1>3. /\ NodeAt(L, HeadNode) = L.head /\ NodeAt(L, TailNode) = L.tail
      /\ \A x \in ArrayOf(cap) : NodeAt(L, x) = L.node[x]
  BY NodePointers DEF NodeAt
<1>4. Nil \in PointersOf(cap) /\ HeadNode # Nil /\ TailNode # Nil
  BY NodePointers DEF PointersOf
<1>5. /\ NextOf(L) \in [PointersOf(cap) -> PointersOf(cap)]
      /\ PrevOf(L) \in [PointersOf(cap) -> PointersOf(cap)]
  BY <1>1, <1>2, <1>4 DEF NextOf, PrevOf, PointersOf
<1> QED BY <1>1, <1>3, <1>4, <1>5, NodePointers DEF NextOf, PrevOf, PointersOf

\* An assignment to one link changes one pointer.
LEMMA SetNextEffect ==
  ASSUME NEW cap \in Nat, NEW K, NEW V, NEW L \in ListType(cap, K, V),
         NEW p \in PointersOf(cap) \ {Nil}, NEW q \in PointersOf(cap)
  PROVE  LET U == SetNext(L, p, q)
         IN  /\ U \in ListType(cap, K, V)
             /\ NextOf(U) = [NextOf(L) EXCEPT ![p] = q]
             /\ PrevOf(U) = PrevOf(L)
             /\ SameButLinks(U, L)
<1> DEFINE U == SetNext(L, p, q)
<1>1. CASE p = HeadNode
  <2>1. U = [L EXCEPT !.head = [L.head EXCEPT !.next = q]]
    BY <1>1, NodePointers DEF SetNext
  <2>2. U \in ListType(cap, K, V)
    <3>1. [L.head EXCEPT !.next = q] \in NodeType(cap, K, V)
      BY DEF ListType, NodeType
    <3> QED BY <2>1, <3>1 DEF ListType
  <2>3. SameButLinks(U, L)
    BY <2>1 DEF SameButLinks, ListType
  <2>4. U.node = L.node /\ U.tail = L.tail /\ U.head.next = q
        /\ U.head.prev = L.head.prev
    BY <2>1 DEF ListType, NodeType
  <2> QED BY <2>2, <2>3, <2>4, <1>1, NodePointers DEF NextOf, PrevOf, NodeAt
<1>2. CASE p = TailNode
  <2>1. U = [L EXCEPT !.tail = [L.tail EXCEPT !.next = q]]
    BY <1>2, NodePointers DEF SetNext
  <2>2. U \in ListType(cap, K, V)
    <3>1. [L.tail EXCEPT !.next = q] \in NodeType(cap, K, V)
      BY DEF ListType, NodeType
    <3> QED BY <2>1, <3>1 DEF ListType
  <2>3. SameButLinks(U, L)
    BY <2>1 DEF SameButLinks, ListType
  <2>4. U.node = L.node /\ U.head = L.head /\ U.tail.next = q
        /\ U.tail.prev = L.tail.prev
    BY <2>1 DEF ListType, NodeType
  <2> QED BY <2>2, <2>3, <2>4, <1>2, NodePointers DEF NextOf, PrevOf, NodeAt
<1>3. CASE p \in ArrayOf(cap)
  <2>1. U = [L EXCEPT !.node = [L.node EXCEPT
                                  ![p] = [L.node[p] EXCEPT !.next = q]]]
    BY <1>3, NodePointers DEF SetNext
  <2>2. U \in ListType(cap, K, V)
    BY <2>1, <1>3 DEF ListType, NodeType
  <2>3. /\ U.head = L.head /\ U.tail = L.tail
        /\ DOMAIN U.node = ArrayOf(cap) /\ DOMAIN L.node = ArrayOf(cap)
        /\ \A x \in ArrayOf(cap) :
             /\ U.node[x].next = IF x = p THEN q ELSE L.node[x].next
             /\ U.node[x].prev = L.node[x].prev
             /\ U.node[x].key = L.node[x].key
             /\ U.node[x].value = L.node[x].value
    BY <2>1, <1>3 DEF ListType, NodeType
  <2>4. SameButLinks(U, L)
    BY <2>1, <2>3 DEF SameButLinks, ListType
  <2> QED BY <2>2, <2>3, <2>4, <1>3, NodePointers DEF NextOf, PrevOf, NodeAt
<1> QED BY <1>1, <1>2, <1>3 DEF PointersOf

LEMMA SetPrevEffect ==
  ASSUME NEW cap \in Nat, NEW K, NEW V, NEW L \in ListType(cap, K, V),
         NEW p \in PointersOf(cap) \ {Nil}, NEW q \in PointersOf(cap)
  PROVE  LET U == SetPrev(L, p, q)
         IN  /\ U \in ListType(cap, K, V)
             /\ PrevOf(U) = [PrevOf(L) EXCEPT ![p] = q]
             /\ NextOf(U) = NextOf(L)
             /\ SameButLinks(U, L)
<1> DEFINE U == SetPrev(L, p, q)
<1>1. CASE p = HeadNode
  <2>1. U = [L EXCEPT !.head = [L.head EXCEPT !.prev = q]]
    BY <1>1, NodePointers DEF SetPrev
  <2>2. U \in ListType(cap, K, V)
    <3>1. [L.head EXCEPT !.prev = q] \in NodeType(cap, K, V)
      BY DEF ListType, NodeType
    <3> QED BY <2>1, <3>1 DEF ListType
  <2>3. SameButLinks(U, L)
    BY <2>1 DEF SameButLinks, ListType
  <2>4. U.node = L.node /\ U.tail = L.tail /\ U.head.prev = q
        /\ U.head.next = L.head.next
    BY <2>1 DEF ListType, NodeType
  <2> QED BY <2>2, <2>3, <2>4, <1>1, NodePointers DEF NextOf, PrevOf, NodeAt
<1>2. CASE p = TailNode
  <2>1. U = [L EXCEPT !.tail = [L.tail EXCEPT !.prev = q]]
    BY <1>2, NodePointers DEF SetPrev
  <2>2. U \in ListType(cap, K, V)
    <3>1. [L.tail EXCEPT !.prev = q] \in NodeType(cap, K, V)
      BY DEF ListType, NodeType
    <3> QED BY <2>1, <3>1 DEF ListType
  <2>3. SameButLinks(U, L)
    BY <2>1 DEF SameButLinks, ListType
  <2>4. U.node = L.node /\ U.head = L.head /\ U.tail.prev = q
        /\ U.tail.next = L.tail.next
    BY <2>1 DEF ListType, NodeType
  <2> QED BY <2>2, <2>3, <2>4, <1>2, NodePointers DEF NextOf, PrevOf, NodeAt
<1>3. CASE p \in ArrayOf(cap)
  <2>1. U = [L EXCEPT !.node = [L.node EXCEPT
                                  ![p] = [L.node[p] EXCEPT !.prev = q]]]
    BY <1>3, NodePointers DEF SetPrev
  <2>2. U \in ListType(cap, K, V)
    BY <2>1, <1>3 DEF ListType, NodeType
  <2>3. /\ U.head = L.head /\ U.tail = L.tail
        /\ DOMAIN U.node = ArrayOf(cap) /\ DOMAIN L.node = ArrayOf(cap)
        /\ \A x \in ArrayOf(cap) :
             /\ U.node[x].prev = IF x = p THEN q ELSE L.node[x].prev
             /\ U.node[x].next = L.node[x].next
             /\ U.node[x].key = L.node[x].key
             /\ U.node[x].value = L.node[x].value
    BY <2>1, <1>3 DEF ListType, NodeType
  <2>4. SameButLinks(U, L)
    BY <2>1, <2>3 DEF SameButLinks, ListType
  <2> QED BY <2>2, <2>3, <2>4, <1>3, NodePointers DEF NextOf, PrevOf, NodeAt
<1> QED BY <1>1, <1>2, <1>3 DEF PointersOf

-----------------------------------------------------------------------------
(* Threads                                                                 *)

\* The nodes of the list, in order, between its two ends.
Thread(L, cap, n, e) ==
  /\ n \in Nat /\ e \in [0 .. n + 1 -> PointersOf(cap)]
  /\ e[0] = HeadNode /\ e[n + 1] = TailNode
  /\ \A i \in 1 .. n : e[i] \in ArrayOf(cap)
  /\ \A i, j \in 1 .. n : e[i] = e[j] => i = j
  /\ \A i \in 0 .. n : NextOf(L)[e[i]] = e[i + 1]
  /\ \A i \in 1 .. n + 1 : PrevOf(L)[e[i]] = e[i - 1]

\* The nodes of the free list, in order; Nil ends it.
FreeThread(L, cap, m, f) ==
  /\ m \in Nat /\ f \in [1 .. m + 1 -> PointersOf(cap)]
  /\ f[1] = L.freeHead /\ f[m + 1] = Nil
  /\ \A i \in 1 .. m : f[i] \in ArrayOf(cap)
  /\ \A i, j \in 1 .. m : f[i] = f[j] => i = j
  /\ \A i \in 1 .. m : NextOf(L)[f[i]] = f[i + 1]

\* A thread with x behind its p-th pointer, and without its p-th node.
Spliced(e, n, p, x) ==
  [i \in 0 .. n + 2 |-> IF i <= p THEN e[i]
                        ELSE IF i = p + 1 THEN x ELSE e[i - 1]]
Dropped(e, n, p) == [i \in 0 .. n |-> IF i < p THEN e[i] ELSE e[i + 1]]

\* All pointers of a thread differ.
LEMMA ThreadInjective ==
  ASSUME NEW cap \in Nat, NEW L, NEW n, NEW e, Thread(L, cap, n, e)
  PROVE  \A i, j \in 0 .. n + 1 : e[i] = e[j] => i = j
<1> SUFFICES ASSUME NEW i \in 0 .. n + 1, NEW j \in 0 .. n + 1, e[i] = e[j]
             PROVE  i = j
  OBVIOUS
<1>1. /\ n \in Nat /\ e[0] = HeadNode /\ e[n + 1] = TailNode
      /\ \A x \in 1 .. n : e[x] \in ArrayOf(cap)
      /\ \A x, y \in 1 .. n : e[x] = e[y] => x = y
  BY DEF Thread
<1>2. (i = 0 \/ i = n + 1 \/ i \in 1 .. n) /\ (j = 0 \/ j = n + 1 \/ j \in 1 .. n)
  BY <1>1
<1> QED BY <1>1, <1>2, NodePointers

\* Linking a node that is not in the thread behind its p-th pointer.
LEMMA ThreadLinked ==
  ASSUME NEW cap \in Nat, NEW L, NEW U, NEW n, NEW e, Thread(L, cap, n, e),
         NextOf(L) \in [PointersOf(cap) -> PointersOf(cap)],
         PrevOf(L) \in [PointersOf(cap) -> PointersOf(cap)],
         NEW p \in 0 .. n, NEW x \in ArrayOf(cap),
         \A i \in 1 .. n : e[i] # x,
         NextOf(U) = [NextOf(L) EXCEPT ![x] = e[p + 1], ![e[p]] = x],
         PrevOf(U) = [PrevOf(L) EXCEPT ![x] = e[p], ![e[p + 1]] = x]
  PROVE  Thread(U, cap, n + 1, Spliced(e, n, p, x))
<1> USE DEF Spliced
<1> DEFINE d == Spliced(e, n, p, x)
           nx == NextOf(L)
           pv == PrevOf(L)
<1>1. /\ n \in Nat /\ e \in [0 .. n + 1 -> PointersOf(cap)]
      /\ e[0] = HeadNode /\ e[n + 1] = TailNode
      /\ \A i \in 1 .. n : e[i] \in ArrayOf(cap)
      /\ \A i \in 0 .. n : nx[e[i]] = e[i + 1]
      /\ \A i \in 1 .. n + 1 : pv[e[i]] = e[i - 1]
  BY DEF Thread
<1>2. \A i, j \in 0 .. n + 1 : e[i] = e[j] => i = j
  BY ThreadInjective
<1>3. \A i \in 0 .. n + 1 : e[i] # x
  <2>1. ASSUME NEW i \in 0 .. n + 1
        PROVE  e[i] # x
    <3>1. i = 0 \/ i = n + 1 \/ i \in 1 .. n
      BY <1>1
    <3> QED BY <3>1, <1>1, NodePointers
  <2> QED BY <2>1
<1>4. x \in PointersOf(cap)
  BY DEF PointersOf
<1>5. n + 1 \in Nat /\ (n + 1) + 1 = n + 2
  BY <1>1
<1>6. d \in [0 .. n + 2 -> PointersOf(cap)]
  BY <1>1, <1>4
<1>7. d[0] = HeadNode /\ d[n + 2] = TailNode
  BY <1>1
<1>8. \A i \in 1 .. n + 1 : d[i] \in ArrayOf(cap)
  <2>1. ASSUME NEW i \in 1 .. n + 1
        PROVE  d[i] \in ArrayOf(cap)
    <3>1. CASE i <= p
      BY <3>1, <1>1
    <3>2. CASE i = p + 1
      BY <3>2, <1>1
    <3>3. CASE i > p + 1
      <4>1. i - 1 \in 1 .. n /\ d[i] = e[i - 1]
        BY <3>3, <1>1
      <4> QED BY <4>1, <1>1
    <3> QED BY <3>1, <3>2, <3>3, <1>1
  <2> QED BY <2>1
<1>9. \A i, j \in 1 .. n + 1 : d[i] = d[j] => i = j
  <2>1. \A i \in 1 .. n + 1 : \/ i <= p /\ i \in 0 .. n + 1 /\ d[i] = e[i]
                              \/ i = p + 1 /\ d[i] = x
                              \/ i > p + 1 /\ i - 1 \in 0 .. n + 1 /\ d[i] = e[i - 1]
    BY <1>1
  <2> SUFFICES ASSUME NEW i \in 1 .. n + 1, NEW j \in 1 .. n + 1, d[i] = d[j]
               PROVE  i = j
    OBVIOUS
  <2> HIDE DEF d
  <2> QED BY <2>1, <1>1, <1>2, <1>3
<1>10. \A i \in 0 .. n + 1 : NextOf(U)[d[i]] = d[i + 1]
  <2>1. ASSUME NEW i \in 0 .. n + 1
        PROVE  NextOf(U)[d[i]] = d[i + 1]
    <3>1. CASE i < p
      <4>1. i \in 0 .. n /\ i + 1 \in 0 .. n + 1 /\ d[i] = e[i] /\ d[i + 1] = e[i + 1]
        BY <3>1, <1>1
      <4>2. e[i] # x /\ e[i] # e[p]
        BY <4>1, <3>1, <1>1, <1>2, <1>3
      <4> QED BY <4>1, <4>2, <1>1
    <3>2. CASE i = p
      <4>1. d[i] = e[p] /\ d[i + 1] = x /\ e[p] \in PointersOf(cap)
        BY <3>2, <1>1
      <4> QED BY <4>1
    <3>3. CASE i = p + 1
      <4>1. d[i] = x /\ d[i + 1] = e[p + 1] /\ e[p] # x
        BY <3>3, <1>1, <1>3
      <4> QED BY <4>1, <1>4
    <3>4. CASE i > p + 1
      <4>1. i - 1 \in 0 .. n /\ d[i] = e[i - 1] /\ d[i + 1] = e[i]
        BY <3>4, <1>1
      <4>2. e[i - 1] # x /\ e[i - 1] # e[p]
        BY <4>1, <3>4, <1>1, <1>2, <1>3
      <4>3. nx[e[i - 1]] = e[i] /\ e[i - 1] \in PointersOf(cap)
        BY <4>1, <1>1
      <4> QED BY <4>1, <4>2, <4>3
    <3> QED BY <3>1, <3>2, <3>3, <3>4, <1>1
  <2> QED BY <2>1
<1>11. \A i \in 1 .. n + 2 : PrevOf(U)[d[i]] = d[i - 1]
  <2>1. ASSUME NEW i \in 1 .. n + 2
        PROVE  PrevOf(U)[d[i]] = d[i - 1]
    <3>1. CASE i <= p
      <4>1. i \in 1 .. n + 1 /\ i - 1 \in 0 .. n + 1
            /\ d[i] = e[i] /\ d[i - 1] = e[i - 1]
        BY <3>1, <1>1
      <4>2. e[i] # x /\ e[i] # e[p + 1]
        BY <4>1, <3>1, <1>1, <1>2, <1>3
      <4> QED BY <4>1, <4>2, <1>1
    <3>2. CASE i = p + 1
      <4>1. d[i] = x /\ d[i - 1] = e[p] /\ e[p + 1] # x
        BY <3>2, <1>1, <1>3
      <4> QED BY <4>1, <1>4
    <3>3. CASE i = p + 2
      <4>1. d[i] = e[p + 1] /\ d[i - 1] = x /\ e[p + 1] \in PointersOf(cap)
        BY <3>3, <1>1
      <4> QED BY <4>1
    <3>4. CASE i > p + 2
      <4>1. i - 1 \in 1 .. n + 1 /\ d[i] = e[i - 1] /\ d[i - 1] = e[(i - 1) - 1]
        BY <3>4, <1>1
      <4>2. e[i - 1] # x /\ e[i - 1] # e[p + 1]
        BY <4>1, <3>4, <1>1, <1>2, <1>3
      <4>3. pv[e[i - 1]] = e[(i - 1) - 1] /\ e[i - 1] \in PointersOf(cap)
        BY <4>1, <1>1
      <4> QED BY <4>1, <4>2, <4>3
    <3> QED BY <3>1, <3>2, <3>3, <3>4, <1>1
  <2> QED BY <2>1
<1> HIDE DEF d
<1> QED BY <1>5, <1>6, <1>7, <1>8, <1>9, <1>10, <1>11 DEF Thread, d

\* Unlinking the p-th node.
LEMMA ThreadUnlinked ==
  ASSUME NEW cap \in Nat, NEW L, NEW U, NEW n, NEW e, Thread(L, cap, n, e),
         NextOf(L) \in [PointersOf(cap) -> PointersOf(cap)],
         PrevOf(L) \in [PointersOf(cap) -> PointersOf(cap)],
         NEW p \in 1 .. n,
         NextOf(U) = [NextOf(L) EXCEPT ![e[p - 1]] = e[p + 1]],
         PrevOf(U) = [PrevOf(L) EXCEPT ![e[p + 1]] = e[p - 1]]
  PROVE  Thread(U, cap, n - 1, Dropped(e, n, p))
<1> USE DEF Dropped
<1> DEFINE d == Dropped(e, n, p)
           nx == NextOf(L)
           pv == PrevOf(L)
<1>1. /\ n \in Nat /\ e \in [0 .. n + 1 -> PointersOf(cap)]
      /\ e[0] = HeadNode /\ e[n + 1] = TailNode
      /\ \A i \in 1 .. n : e[i] \in ArrayOf(cap)
      /\ \A i \in 0 .. n : nx[e[i]] = e[i + 1]
      /\ \A i \in 1 .. n + 1 : pv[e[i]] = e[i - 1]
  BY DEF Thread
<1>2. \A i, j \in 0 .. n + 1 : e[i] = e[j] => i = j
  BY ThreadInjective
<1>3. n - 1 \in Nat /\ (n - 1) + 1 = n
  BY <1>1
<1>4. d \in [0 .. n -> PointersOf(cap)]
  BY <1>1
<1>5. d[0] = HeadNode /\ d[n] = TailNode
  BY <1>1
<1>6. \A i \in 1 .. n - 1 : d[i] \in ArrayOf(cap)
  BY <1>1
<1>7. \A i, j \in 1 .. n - 1 : d[i] = d[j] => i = j
  <2>1. \A i \in 1 .. n - 1 : \/ i < p /\ i \in 0 .. n + 1 /\ d[i] = e[i]
                              \/ i >= p /\ i + 1 \in 0 .. n + 1 /\ d[i] = e[i + 1]
    BY <1>1
  <2> SUFFICES ASSUME NEW i \in 1 .. n - 1, NEW j \in 1 .. n - 1, d[i] = d[j]
               PROVE  i = j
    OBVIOUS
  <2>2. \A a, b \in 1 .. n - 1 : \A x, y \in 0 .. n + 1 :
          ((x = a /\ a < p) \/ (x = a + 1 /\ a >= p))
            /\ ((y = b /\ b < p) \/ (y = b + 1 /\ b >= p))
            /\ x = y => a = b
    BY <1>1
  <2>3. PICK x \in 0 .. n + 1 : /\ (x = i /\ i < p) \/ (x = i + 1 /\ i >= p)
                                /\ d[i] = e[x]
    <3> HIDE DEF d
    <3> QED BY <2>1
  <2>4. PICK y \in 0 .. n + 1 : /\ (y = j /\ j < p) \/ (y = j + 1 /\ j >= p)
                                /\ d[j] = e[y]
    <3> HIDE DEF d
    <3> QED BY <2>1
  <2> HIDE DEF d
  <2>5. x = y
    BY <2>3, <2>4, <1>2
  <2> QED BY <2>2, <2>3, <2>4, <2>5
<1>8. \A i \in 0 .. n - 1 : NextOf(U)[d[i]] = d[i + 1]
  <2>1. ASSUME NEW i \in 0 .. n - 1
        PROVE  NextOf(U)[d[i]] = d[i + 1]
    <3>1. CASE i < p - 1
      <4>1. i \in 0 .. n /\ p - 1 \in 0 .. n + 1 /\ i # p - 1
            /\ d[i] = e[i] /\ d[i + 1] = e[i + 1]
        BY <3>1, <1>1
      <4>2. e[i] # e[p - 1]
        BY <4>1, <1>1, <1>2
      <4> QED BY <4>1, <4>2, <1>1
    <3>2. CASE i = p - 1
      <4>1. d[i] = e[p - 1] /\ d[i + 1] = e[p + 1]
            /\ e[p - 1] \in PointersOf(cap)
        BY <3>2, <1>1
      <4> QED BY <4>1
    <3>3. CASE i >= p
      <4>1. i + 1 \in 0 .. n /\ p - 1 \in 0 .. n + 1 /\ i + 1 # p - 1
            /\ d[i] = e[i + 1] /\ d[i + 1] = e[(i + 1) + 1]
        BY <3>3, <1>1
      <4>2. e[i + 1] # e[p - 1] /\ e[i + 1] \in PointersOf(cap)
        BY <4>1, <1>1, <1>2
      <4>3. nx[e[i + 1]] = e[(i + 1) + 1]
        BY <4>1, <1>1
      <4> QED BY <4>1, <4>2, <4>3
    <3> QED BY <3>1, <3>2, <3>3, <1>1
  <2> QED BY <2>1
<1>9. \A i \in 1 .. n : PrevOf(U)[d[i]] = d[i - 1]
  <2>1. ASSUME NEW i \in 1 .. n
        PROVE  PrevOf(U)[d[i]] = d[i - 1]
    <3>1. CASE i < p
      <4>1. i \in 1 .. n + 1 /\ p + 1 \in 0 .. n + 1 /\ i # p + 1
            /\ d[i] = e[i] /\ d[i - 1] = e[i - 1]
        BY <3>1, <1>1
      <4>2. e[i] # e[p + 1]
        BY <4>1, <1>1, <1>2
      <4> QED BY <4>1, <4>2, <1>1
    <3>2. CASE i = p
      <4>1. d[i] = e[p + 1] /\ d[i - 1] = e[p - 1]
            /\ e[p + 1] \in PointersOf(cap)
        BY <3>2, <1>1
      <4> QED BY <4>1
    <3>3. CASE i > p
      <4>1. i + 1 \in 1 .. n + 1 /\ p + 1 \in 0 .. n + 1 /\ i + 1 # p + 1
            /\ d[i] = e[i + 1] /\ d[i - 1] = e[(i + 1) - 1]
        BY <3>3, <1>1
      <4>2. e[i + 1] # e[p + 1] /\ e[i + 1] \in PointersOf(cap)
        BY <4>1, <1>1, <1>2
      <4>3. pv[e[i + 1]] = e[(i + 1) - 1]
        BY <4>1, <1>1
      <4> QED BY <4>1, <4>2, <4>3
    <3> QED BY <3>1, <3>2, <3>3, <1>1
  <2> QED BY <2>1
<1> HIDE DEF d
<1> QED BY <1>3, <1>4, <1>5, <1>6, <1>7, <1>8, <1>9 DEF Thread, d

\* Pointers elsewhere do not matter.
LEMMA ThreadKept ==
  ASSUME NEW cap, NEW L, NEW U, NEW n, NEW e, Thread(L, cap, n, e),
         \A i \in 0 .. n : NextOf(U)[e[i]] = NextOf(L)[e[i]],
         \A i \in 1 .. n + 1 : PrevOf(U)[e[i]] = PrevOf(L)[e[i]]
  PROVE  Thread(U, cap, n, e)
BY DEF Thread

LEMMA FreeThreadKept ==
  ASSUME NEW cap, NEW L, NEW U, NEW m, NEW f, FreeThread(L, cap, m, f),
         U.freeHead = L.freeHead,
         \A i \in 1 .. m : NextOf(U)[f[i]] = NextOf(L)[f[i]]
  PROVE  FreeThread(U, cap, m, f)
BY DEF FreeThread

-----------------------------------------------------------------------------
(* Linking and unlinking                                                   *)

LEMMA LinkBetweenEffect ==
  ASSUME NEW cap \in Nat, NEW K, NEW V, NEW L \in ListType(cap, K, V),
         NEW x \in ArrayOf(cap),
         NEW p \in PointersOf(cap) \ {Nil}, NEW q \in PointersOf(cap) \ {Nil}
  PROVE  LET U == LinkBetween(L, x, p, q)
         IN  /\ U \in ListType(cap, K, V)
             /\ NextOf(U) = [NextOf(L) EXCEPT ![x] = q, ![p] = x]
             /\ PrevOf(U) = [PrevOf(L) EXCEPT ![x] = p, ![q] = x]
             /\ SameButLinks(U, L)
<1> DEFINE A == SetPrev(L, x, p)
           B == SetNext(A, x, q)
           C == SetPrev(B, q, x)
           U == SetNext(C, p, x)
<1>1. x \in PointersOf(cap) \ {Nil} /\ x \in PointersOf(cap)
      /\ q \in PointersOf(cap)
  BY NodePointers DEF PointersOf
<1>2. LinkBetween(L, x, p, q) = U
  <2>1. [L EXCEPT !.node[x].prev = p, !.node[x].next = q] = B
    BY NodePointers DEF SetPrev, SetNext, ListType, NodeType
  <2> QED BY <2>1 DEF LinkBetween
<1>3. A \in ListType(cap, K, V)
  BY <1>1, SetPrevEffect
<1>4. /\ NextOf(A) = NextOf(L) /\ PrevOf(A) = [PrevOf(L) EXCEPT ![x] = p]
      /\ SameButLinks(A, L)
  BY <1>1, SetPrevEffect
<1> HIDE DEF A
<1>5. B \in ListType(cap, K, V)
  BY <1>1, <1>3, SetNextEffect
<1>6. /\ NextOf(B) = [NextOf(A) EXCEPT ![x] = q] /\ PrevOf(B) = PrevOf(A)
      /\ SameButLinks(B, A)
  BY <1>1, <1>3, SetNextEffect
<1> HIDE DEF B
<1>7. C \in ListType(cap, K, V)
  BY <1>1, <1>5, SetPrevEffect
<1>8. /\ NextOf(C) = NextOf(B) /\ PrevOf(C) = [PrevOf(B) EXCEPT ![q] = x]
      /\ SameButLinks(C, B)
  BY <1>1, <1>5, SetPrevEffect
<1> HIDE DEF C
<1>9. U \in ListType(cap, K, V)
  BY <1>1, <1>7, SetNextEffect
<1>10. /\ NextOf(U) = [NextOf(C) EXCEPT ![p] = x] /\ PrevOf(U) = PrevOf(C)
       /\ SameButLinks(U, C)
  BY <1>1, <1>7, SetNextEffect
<1> HIDE DEF U
<1>11. DOMAIN L.node = ArrayOf(cap) /\ DOMAIN A.node = ArrayOf(cap)
       /\ DOMAIN B.node = ArrayOf(cap) /\ DOMAIN C.node = ArrayOf(cap)
  BY <1>3, <1>5, <1>7, NextPrevTyped
<1>12. SameButLinks(U, L)
  BY <1>4, <1>6, <1>8, <1>10, <1>11 DEF SameButLinks
<1>13. NextOf(U) = [NextOf(L) EXCEPT ![x] = q, ![p] = x]
  BY <1>4, <1>6, <1>8, <1>10
<1>14. PrevOf(U) = [PrevOf(L) EXCEPT ![x] = p, ![q] = x]
  BY <1>4, <1>6, <1>8, <1>10
<1> QED BY <1>2, <1>9, <1>12, <1>13, <1>14

LEMMA UnlinkEffect ==
  ASSUME NEW cap \in Nat, NEW K, NEW V, NEW L \in ListType(cap, K, V),
         NEW x \in ArrayOf(cap), L.node[x].prev # Nil, L.node[x].next # Nil
  PROVE  LET U == Unlink(L, x)
             p == L.node[x].prev
             q == L.node[x].next
         IN  /\ U \in ListType(cap, K, V)
             /\ NextOf(U) = [NextOf(L) EXCEPT ![p] = q]
             /\ PrevOf(U) = [PrevOf(L) EXCEPT ![q] = p]
             /\ SameButLinks(U, L)
<1> DEFINE p == L.node[x].prev
           q == L.node[x].next
           A == SetNext(L, p, q)
           U == SetPrev(A, q, p)
<1>1. p \in PointersOf(cap) \ {Nil} /\ q \in PointersOf(cap) \ {Nil}
  BY DEF ListType, NodeType
<1>2. Unlink(L, x) = U
  BY DEF Unlink
<1> HIDE DEF p, q
<1>3. /\ A \in ListType(cap, K, V) /\ NextOf(A) = [NextOf(L) EXCEPT ![p] = q]
      /\ PrevOf(A) = PrevOf(L) /\ SameButLinks(A, L)
  BY <1>1, SetNextEffect
<1> HIDE DEF A
<1>4. /\ U \in ListType(cap, K, V) /\ NextOf(U) = NextOf(A)
      /\ PrevOf(U) = [PrevOf(A) EXCEPT ![q] = p] /\ SameButLinks(U, A)
  BY <1>1, <1>3, SetPrevEffect
<1> HIDE DEF U
<1>5. DOMAIN L.node = ArrayOf(cap) /\ DOMAIN A.node = ArrayOf(cap)
  BY <1>3, NextPrevTyped
<1>6. SameButLinks(U, L)
  BY <1>3, <1>4, <1>5 DEF SameButLinks
<1> QED BY <1>2, <1>3, <1>4, <1>6 DEF p, q

-----------------------------------------------------------------------------
(* Walking                                                                 *)

LEMMA IsSequence ==
  ASSUME NEW n \in Nat, NEW S, NEW s \in [1 .. n -> S]
  PROVE  s \in Seq(S) /\ Len(s) = n /\ DOMAIN s = 1 .. n
<1>1. s \in Seq(S)
  BY SeqDef
<1> QED BY <1>1, LenProperties

\* A thread is not longer than the array.
LEMMA FewerThanSlots ==
  ASSUME NEW cap \in Nat, NEW n \in Nat, NEW s,
         \A i \in 1 .. n : s[i] \in ArrayOf(cap),
         \A i, j \in 1 .. n : s[i] = s[j] => i = j
  PROVE  n <= cap
<1> DEFINE f == [i \in 1 .. n |-> s[i]]
<1>1. f \in Injection(1 .. n, ArrayOf(cap))
  <2>1. f \in [1 .. n -> ArrayOf(cap)]
    OBVIOUS
  <2>2. \A a, b \in 1 .. n : f[a] = f[b] => a = b
    OBVIOUS
  <2> HIDE DEF f
  <2> QED BY <2>1, <2>2 DEF Injection, IsInjective
<1>2. IsFiniteSet(ArrayOf(cap)) /\ Cardinality(ArrayOf(cap)) = cap
  BY FS_Interval DEF ArrayOf
<1>3. Cardinality(1 .. n) = n
  BY FS_Interval
<1>4. Cardinality(1 .. n) <= Cardinality(ArrayOf(cap))
  BY <1>1, <1>2, FS_Injection
<1> QED BY <1>2, <1>3, <1>4

\* A walk that is known to meet the pointers of t, and then an end, is t.
LEMMA PathIs ==
  ASSUME NEW L, L.capacity \in Nat, NEW D, NEW hop \in [D -> D], NEW ends,
         NEW n \in Nat, n <= L.capacity, NEW t \in [1 .. n + 1 -> D],
         NEW first \in D, t[1] = first,
         \A i \in 1 .. n : t[i] \notin ends, t[n + 1] \in ends,
         \A i \in 1 .. n : hop[t[i]] = t[i + 1]
  PROVE  PathAlong(L, hop, first, ends) = [i \in 1 .. n |-> t[i]]
<1> DEFINE at == Reached(hop, first)
           S == {m \in 0 .. L.capacity + 1 :
                   m = L.capacity + 1 \/ at[m] \in ends}
<1>0. Follows(at, hop, first)
  BY ReachedHops
<1> HIDE DEF at
<1>1. at[0] = first
  BY <1>0 DEF Follows
<1>2. \A m \in Nat : at[m + 1] = hop[at[m]]
  BY <1>0 DEF Follows
<1>3. \A m \in Nat : m <= n => at[m] = t[m + 1]
  <2> DEFINE Good == {m \in Nat : m <= n => at[m] = t[m + 1]}
  <2>1. 0 \in Good
    BY <1>1
  <2>2. ASSUME NEW m \in Nat, m \in Good
        PROVE  m + 1 \in Good
    <3>1. CASE m + 1 <= n
      <4>1. m + 1 \in 1 .. n /\ at[m] = t[m + 1]
        BY <2>2, <3>1
      <4>2. hop[t[m + 1]] = t[(m + 1) + 1]
        BY <4>1
      <4>3. at[m + 1] = t[(m + 1) + 1]
        BY <4>1, <4>2, <1>2
      <4> QED BY <4>3
    <3> QED BY <3>1
  <2> HIDE DEF Good
  <2>3. Nat \subseteq Good
    BY <2>1, <2>2, SetInduction
  <2> QED BY <2>3 DEF Good
<1>4. Least(S) = n
  <2>1. S \in SUBSET Nat /\ n \in S
    BY <1>3
  <2>2. \A m \in S : m >= n
    <3> SUFFICES ASSUME NEW m \in S, m < n
                 PROVE  FALSE
      BY <2>1
    <3>1. m \in Nat /\ m + 1 \in 1 .. n /\ at[m] \in ends
      OBVIOUS
    <3> QED BY <3>1, <1>3
  <2>3. Least(S) \in S /\ \A m \in S : Least(S) <= m
    BY <2>1, LeastIsLeast
  <2> HIDE DEF S
  <2>4. Least(S) \in Nat
    BY <2>1, <2>3
  <2>5. Least(S) >= n /\ Least(S) <= n
    BY <2>1, <2>2, <2>3
  <2> QED BY <2>4, <2>5
<1>5. PathAlong(L, hop, t[1], ends) = [i \in 1 .. n |-> at[i - 1]]
  BY <1>4 DEF PathAlong, at
<1>6. \A i \in 1 .. n : at[i - 1] = t[i]
  <2>1. \A i \in 1 .. n : i - 1 \in Nat /\ i - 1 <= n /\ (i - 1) + 1 = i
    OBVIOUS
  <2> QED BY <2>1, <1>3
<1> QED BY <1>5, <1>6

\* Both walks of the list, and the walk of the free list, meet exactly the
\* nodes of the threads.
LEMMA ForwardIs ==
  ASSUME NEW cap \in Nat, NEW K, NEW V, NEW L \in ListType(cap, K, V),
         NEW n, NEW e, Thread(L, cap, n, e)
  PROVE  /\ n \in Nat /\ n <= cap
         /\ Forward(L) = [i \in 1 .. n |-> e[i]]
         /\ Len(Forward(L)) = n
         /\ LinkedNodes(L) = {e[i] : i \in 1 .. n}
<1> DEFINE t == [i \in 1 .. n + 1 |-> e[i]]
           D == PointersOf(cap)
           ends == {TailNode, Nil}
<1>1. /\ n \in Nat /\ e \in [0 .. n + 1 -> D]
      /\ e[0] = HeadNode /\ e[n + 1] = TailNode
      /\ \A i \in 1 .. n : e[i] \in ArrayOf(cap)
      /\ \A i, j \in 1 .. n : e[i] = e[j] => i = j
      /\ \A i \in 0 .. n : NextOf(L)[e[i]] = e[i + 1]
  BY DEF Thread
<1>2. n <= cap
  BY <1>1, FewerThanSlots
<1>3. L.capacity = cap /\ NextOf(L) \in [D -> D] /\ NextOf(L)[HeadNode] = L.head.next
  BY NextPrevTyped DEF ListType
<1>4. L.head.next \in D
      /\ t \in [1 .. n + 1 -> D] /\ t[1] = L.head.next /\ t[n + 1] = TailNode
  BY <1>1, <1>3
<1>5. /\ \A i \in 1 .. n : t[i] \notin ends
      /\ \A i \in 1 .. n : NextOf(L)[t[i]] = t[i + 1]
      /\ t[n + 1] \in ends
  BY <1>1, <1>4, NodePointers
<1>6. Forward(L) = [i \in 1 .. n |-> t[i]]
  <2>1. n \in Nat /\ n <= L.capacity /\ L.capacity \in Nat
    BY <1>1, <1>2, <1>3
  <2>2. Forward(L) = PathAlong(L, NextOf(L), L.head.next, ends)
    BY DEF Forward
  <2> HIDE DEF t, D, ends
  <2> QED BY <2>1, <2>2, <1>3, <1>4, <1>5, PathIs
<1>7. Forward(L) = [i \in 1 .. n |-> e[i]]
  BY <1>1, <1>6
<1>8. Forward(L) \in [1 .. n -> D]
  BY <1>1, <1>7
<1>9. Len(Forward(L)) = n /\ DOMAIN Forward(L) = 1 .. n
  BY <1>1, <1>8, IsSequence
<1>10. LinkedNodes(L) = {e[i] : i \in 1 .. n}
  <2>1. \A i \in 1 .. n : Forward(L)[i] = e[i]
    BY <1>7
  <2>2. LinkedNodes(L) = {Forward(L)[i] : i \in 1 .. n}
    BY <1>9 DEF LinkedNodes
  <2> QED BY <2>1, <2>2
<1> QED BY <1>1, <1>2, <1>7, <1>9, <1>10

LEMMA BackwardIs ==
  ASSUME NEW cap \in Nat, NEW K, NEW V, NEW L \in ListType(cap, K, V),
         NEW n, NEW e, Thread(L, cap, n, e)
  PROVE  /\ Backward(L) = [i \in 1 .. n |-> e[n + 1 - i]]
         /\ Len(Backward(L)) = n
<1> DEFINE t == [i \in 1 .. n + 1 |-> e[n + 1 - i]]
           D == PointersOf(cap)
           ends == {HeadNode, Nil}
<1>1. /\ n \in Nat /\ e \in [0 .. n + 1 -> D]
      /\ e[0] = HeadNode /\ e[n + 1] = TailNode
      /\ \A i \in 1 .. n : e[i] \in ArrayOf(cap)
      /\ \A i, j \in 1 .. n : e[i] = e[j] => i = j
      /\ \A i \in 1 .. n + 1 : PrevOf(L)[e[i]] = e[i - 1]
  BY DEF Thread
<1>2. n <= cap
  BY <1>1, FewerThanSlots
<1>3. L.capacity = cap /\ PrevOf(L) \in [D -> D] /\ PrevOf(L)[TailNode] = L.tail.prev
  BY NextPrevTyped DEF ListType
<1>4. L.tail.prev \in D
      /\ t \in [1 .. n + 1 -> D] /\ t[1] = L.tail.prev /\ t[n + 1] = HeadNode
  BY <1>1, <1>3
<1>5. /\ \A i \in 1 .. n : t[i] \notin ends
      /\ \A i \in 1 .. n : PrevOf(L)[t[i]] = t[i + 1]
      /\ t[n + 1] \in ends
  <2>1. ASSUME NEW i \in 1 .. n
        PROVE  t[i] \notin ends /\ PrevOf(L)[t[i]] = t[i + 1]
    <3>1. /\ n + 1 - i \in 1 .. n /\ t[i] = e[n + 1 - i]
          /\ t[i + 1] = e[(n + 1 - i) - 1]
      BY <1>1
    <3> QED BY <3>1, <1>1, NodePointers
  <2> QED BY <2>1, <1>4
<1>6. Backward(L) = [i \in 1 .. n |-> t[i]]
  <2>1. n \in Nat /\ n <= L.capacity /\ L.capacity \in Nat
    BY <1>1, <1>2, <1>3
  <2>2. Backward(L) = PathAlong(L, PrevOf(L), L.tail.prev, ends)
    BY DEF Backward
  <2> HIDE DEF t, D, ends
  <2> QED BY <2>1, <2>2, <1>3, <1>4, <1>5, PathIs
<1>7. Backward(L) = [i \in 1 .. n |-> e[n + 1 - i]]
  BY <1>1, <1>6
<1>8. Backward(L) \in [1 .. n -> D]
  BY <1>1, <1>7
<1> QED BY <1>1, <1>7, <1>8, IsSequence

LEMMA FreePathIs ==
  ASSUME NEW cap \in Nat, NEW K, NEW V, NEW L \in ListType(cap, K, V),
         NEW m, NEW f, FreeThread(L, cap, m, f)
  PROVE  /\ FreePath(L) = [i \in 1 .. m |-> f[i]]
         /\ Len(FreePath(L)) = m /\ DOMAIN FreePath(L) = 1 .. m
<1> DEFINE D == PointersOf(cap)
           ends == {Nil}
<1>1. /\ m \in Nat /\ f \in [1 .. m + 1 -> D]
      /\ f[1] = L.freeHead /\ f[m + 1] = Nil
      /\ \A i \in 1 .. m : f[i] \in ArrayOf(cap)
      /\ \A i, j \in 1 .. m : f[i] = f[j] => i = j
      /\ \A i \in 1 .. m : NextOf(L)[f[i]] = f[i + 1]
  BY DEF FreeThread
<1>2. m <= cap
  BY <1>1, FewerThanSlots
<1>3. L.capacity = cap /\ NextOf(L) \in [D -> D]
  BY NextPrevTyped DEF ListType
<1>4. /\ L.freeHead \in D /\ f[m + 1] \in ends
      /\ \A i \in 1 .. m : f[i] \notin ends
  BY <1>1, NodePointers
<1>5. FreePath(L) = [i \in 1 .. m |-> f[i]]
  <2>1. m \in Nat /\ m <= L.capacity /\ L.capacity \in Nat
    BY <1>1, <1>2, <1>3
  <2>2. FreePath(L) = PathAlong(L, NextOf(L), L.freeHead, ends)
    BY DEF FreePath
  <2>3. f \in [1 .. m + 1 -> D] /\ f[1] = L.freeHead
        /\ \A i \in 1 .. m : NextOf(L)[f[i]] = f[i + 1]
    BY <1>1
  <2> HIDE DEF D, ends
  <2>4. PathAlong(L, NextOf(L), L.freeHead, ends) = [i \in 1 .. m |-> f[i]]
    BY <2>1, <2>3, <1>3, <1>4, PathIs
  <2> QED BY <2>2, <2>4
<1>6. FreePath(L) \in [1 .. m -> D]
  BY <1>1, <1>5
<1> QED BY <1>1, <1>5, <1>6, IsSequence

-----------------------------------------------------------------------------
(* Whole lists                                                             *)

\* The free list with x in front, and without its first node.
Pushed(f, m, x) == [j \in 1 .. m + 2 |-> IF j = 1 THEN x ELSE f[j - 1]]
Popped(f, m) == [j \in 1 .. m |-> f[j + 1]]

NodesOf(e, n) == {e[i] : i \in 1 .. n}

LEMMA SplicedNodes ==
  ASSUME NEW n \in Nat, NEW e, NEW p \in 0 .. n, NEW x
  PROVE  \A y : y \in NodesOf(Spliced(e, n, p, x), n + 1)
                <=> y = x \/ y \in NodesOf(e, n)
<1> DEFINE d == Spliced(e, n, p, x)
<1>1. ASSUME NEW i \in 1 .. n + 1
      PROVE  d[i] \in NodesOf(e, n) \cup {x}
  <2>1. CASE i <= p
    <3>1. i \in 1 .. n /\ d[i] = e[i]
      BY <2>1 DEF Spliced
    <3> HIDE DEF d
    <3> QED BY <3>1 DEF NodesOf
  <2>2. CASE i = p + 1
    BY <2>2 DEF Spliced
  <2>3. CASE i > p + 1
    <3>1. i - 1 \in 1 .. n /\ d[i] = e[i - 1]
      BY <2>3 DEF Spliced
    <3> HIDE DEF d
    <3> QED BY <3>1 DEF NodesOf
  <2> QED BY <2>1, <2>2, <2>3
<1>2. ASSUME NEW i \in 1 .. n
      PROVE  e[i] \in NodesOf(d, n + 1)
  <2>1. CASE i <= p
    <3>1. i \in 1 .. n + 1 /\ d[i] = e[i]
      BY <2>1 DEF Spliced
    <3> HIDE DEF d
    <3> QED BY <3>1 DEF NodesOf
  <2>2. CASE i > p
    <3>1. i + 1 \in 1 .. n + 1 /\ d[i + 1] = e[i]
      BY <2>2 DEF Spliced
    <3> HIDE DEF d
    <3> QED BY <3>1 DEF NodesOf
  <2> QED BY <2>1, <2>2
<1>3. x \in NodesOf(d, n + 1)
  <2>1. p + 1 \in 1 .. n + 1 /\ d[p + 1] = x
    BY DEF Spliced
  <2> HIDE DEF d
  <2> QED BY <2>1 DEF NodesOf
<1> HIDE DEF d
<1> QED BY <1>1, <1>2, <1>3 DEF NodesOf, d

LEMMA DroppedNodes ==
  ASSUME NEW n \in Nat, NEW e, NEW p \in 1 .. n,
         \A i, j \in 1 .. n : e[i] = e[j] => i = j
  PROVE  \A y : y \in NodesOf(Dropped(e, n, p), n - 1)
                <=> y # e[p] /\ y \in NodesOf(e, n)
<1> DEFINE d == Dropped(e, n, p)
<1>1. ASSUME NEW i \in 1 .. n - 1
      PROVE  d[i] \in NodesOf(e, n) \ {e[p]}
  <2>1. CASE i < p
    <3>1. i \in 1 .. n /\ d[i] = e[i] /\ i # p
      BY <2>1 DEF Dropped
    <3> HIDE DEF d
    <3> QED BY <3>1 DEF NodesOf
  <2>2. CASE i >= p
    <3>1. i + 1 \in 1 .. n /\ d[i] = e[i + 1] /\ i + 1 # p
      BY <2>2 DEF Dropped
    <3> HIDE DEF d
    <3> QED BY <3>1 DEF NodesOf
  <2> QED BY <2>1, <2>2
<1>2. ASSUME NEW i \in 1 .. n, i # p
      PROVE  e[i] \in NodesOf(d, n - 1)
  <2>1. CASE i < p
    <3>1. i \in 1 .. n - 1 /\ d[i] = e[i]
      BY <2>1 DEF Dropped
    <3> HIDE DEF d
    <3> QED BY <3>1 DEF NodesOf
  <2>2. CASE i > p
    <3>1. i - 1 \in 1 .. n - 1 /\ d[i - 1] = e[i]
      BY <2>2 DEF Dropped
    <3> HIDE DEF d
    <3> QED BY <3>1 DEF NodesOf
  <2> QED BY <1>2, <2>1, <2>2
<1> HIDE DEF d
<1> QED BY <1>1, <1>2 DEF NodesOf, d

LEMMA PushedNodes ==
  ASSUME NEW m \in Nat, NEW f, NEW x
  PROVE  \A y : y \in NodesOf(Pushed(f, m, x), m + 1)
                <=> y = x \/ y \in NodesOf(f, m)
<1> DEFINE d == Pushed(f, m, x)
<1>1. d[1] = x /\ 1 \in 1 .. m + 1
  BY DEF Pushed
<1>2. \A i \in 1 .. m : i + 1 \in 1 .. m + 1 /\ d[i + 1] = f[i]
  BY DEF Pushed
<1>3. \A i \in 1 .. m + 1 : i = 1 \/ (i - 1 \in 1 .. m /\ d[i] = f[i - 1])
  BY DEF Pushed
<1> HIDE DEF d
<1> QED BY <1>1, <1>2, <1>3 DEF NodesOf, d

LEMMA PoppedNodes ==
  ASSUME NEW m \in Nat \ {0}, NEW f,
         \A i, j \in 1 .. m : f[i] = f[j] => i = j
  PROVE  \A y : y \in NodesOf(Popped(f, m), m - 1)
                <=> y # f[1] /\ y \in NodesOf(f, m)
<1> DEFINE d == Popped(f, m)
<1>1. \A i \in 1 .. m - 1 : i + 1 \in 1 .. m /\ d[i] = f[i + 1] /\ i + 1 # 1
  BY DEF Popped
<1>2. \A i \in 1 .. m : i = 1 \/ (i - 1 \in 1 .. m - 1 /\ d[i - 1] = f[i])
  BY DEF Popped
<1>3. 1 \in 1 .. m
  OBVIOUS
<1> HIDE DEF d
<1>4. NodesOf(d, m - 1) \subseteq NodesOf(f, m) \ {f[1]}
  BY <1>1, <1>3 DEF NodesOf
<1>5. NodesOf(f, m) \ {f[1]} \subseteq NodesOf(d, m - 1)
  BY <1>2 DEF NodesOf
<1> QED BY <1>4, <1>5 DEF d

\* Every node handed out is linked, free, or loose: in the hands of a caller
\* who has not linked it yet.
Separate(size, linked, free, loose) ==
  /\ linked \cap free = {} /\ linked \cap loose = {} /\ free \cap loose = {}
  /\ linked \cup free \cup loose = 0 .. size - 1

\* The inductive invariant of a list: both threads are there, every node has
\* its place, and what was handed out has a key and a value.
Whole(L, cap, K, V, n, e, m, f, loose) ==
  /\ L \in ListType(cap, K \cup {Nothing}, V \cup {Nothing})
  /\ L.size <= cap
  /\ Thread(L, cap, n, e)
  /\ FreeThread(L, cap, m, f) /\ L.freeSize = m
  /\ Separate(L.size, NodesOf(e, n), NodesOf(f, m), loose)
  /\ \A x \in 0 .. L.size - 1 : L.node[x].key \in K /\ L.node[x].value \in V

LEMMA WholeTypes ==
  ASSUME NEW cap \in Nat, NEW K, NEW V, NEW L, NEW n, NEW e, NEW m, NEW f,
         NEW loose, Whole(L, cap, K, V, n, e, m, f, loose)
  PROVE  /\ n \in Nat /\ m \in Nat /\ L.size \in 0 .. cap
         /\ NodesOf(e, n) \subseteq ArrayOf(cap)
         /\ NodesOf(f, m) \subseteq ArrayOf(cap)
         /\ loose \subseteq ArrayOf(cap)
         /\ \A p \in 0 .. n : e[p] \in PointersOf(cap) \ {Nil}
         /\ \A p \in 0 .. n : e[p + 1] \in PointersOf(cap) \ {Nil}
<1>1. L.size \in Nat
  BY DEF Whole, ListType
<1>2. L.size <= cap
  BY DEF Whole
<1>3. NodesOf(e, n) \cup NodesOf(f, m) \cup loose = 0 .. L.size - 1
  BY DEF Whole, Separate
<1>4. 0 .. L.size - 1 \subseteq ArrayOf(cap)
  BY <1>1, <1>2 DEF ArrayOf
<1>5. /\ n \in Nat /\ e \in [0 .. n + 1 -> PointersOf(cap)]
      /\ e[0] = HeadNode /\ e[n + 1] = TailNode
      /\ \A i \in 1 .. n : e[i] \in ArrayOf(cap)
  BY DEF Whole, Thread
<1>6. m \in Nat
  BY DEF Whole, FreeThread
<1>7. ASSUME NEW p \in 0 .. n + 1
      PROVE  e[p] \in PointersOf(cap) \ {Nil}
  <2>1. p = 0 \/ p = n + 1 \/ p \in 1 .. n
    BY <1>5
  <2> QED BY <2>1, <1>5, NodePointers
<1>8. \A p \in 0 .. n : p \in 0 .. n + 1 /\ p + 1 \in 0 .. n + 1
  BY <1>5
<1> QED BY <1>1, <1>2, <1>3, <1>4, <1>5, <1>6, <1>7, <1>8

\* A loose node is linked behind the p-th pointer of the thread.
LEMMA WholeLinked ==
  ASSUME NEW cap \in Nat, NEW K, NEW V, NEW L, NEW n, NEW e, NEW m, NEW f,
         NEW loose, Whole(L, cap, K, V, n, e, m, f, loose),
         NEW p \in 0 .. n, NEW x \in loose, NEW U,
         U = LinkBetween(L, x, e[p], e[p + 1])
  PROVE  /\ Whole(U, cap, K, V, n + 1, Spliced(e, n, p, x), m, f, loose \ {x})
         /\ SameButLinks(U, L)
<1> DEFINE K0 == K \cup {Nothing}
           V0 == V \cup {Nothing}
           d == Spliced(e, n, p, x)
<1>1. /\ n \in Nat /\ m \in Nat /\ x \in ArrayOf(cap)
      /\ e[p] \in PointersOf(cap) \ {Nil} /\ e[p + 1] \in PointersOf(cap) \ {Nil}
  BY WholeTypes
<1>2. L \in ListType(cap, K0, V0)
  BY DEF Whole
<1>3. /\ U \in ListType(cap, K0, V0)
      /\ NextOf(U) = [NextOf(L) EXCEPT ![x] = e[p + 1], ![e[p]] = x]
      /\ PrevOf(U) = [PrevOf(L) EXCEPT ![x] = e[p], ![e[p + 1]] = x]
      /\ SameButLinks(U, L)
  <2> DEFINE a == e[p]
             b == e[p + 1]
  <2>1. /\ a \in PointersOf(cap) \ {Nil} /\ b \in PointersOf(cap) \ {Nil}
        /\ U = LinkBetween(L, x, a, b)
    BY <1>1
  <2> HIDE DEF K0, V0, a, b
  <2>2. /\ U \in ListType(cap, K0, V0)
        /\ NextOf(U) = [NextOf(L) EXCEPT ![x] = b, ![a] = x]
        /\ PrevOf(U) = [PrevOf(L) EXCEPT ![x] = a, ![b] = x]
        /\ SameButLinks(U, L)
    <3>1. LET W == LinkBetween(L, x, a, b)
          IN  /\ W \in ListType(cap, K0, V0)
              /\ NextOf(W) = [NextOf(L) EXCEPT ![x] = b, ![a] = x]
              /\ PrevOf(W) = [PrevOf(L) EXCEPT ![x] = a, ![b] = x]
              /\ SameButLinks(W, L)
      BY ONLY cap \in Nat, <1>1, <1>2, <2>1, LinkBetweenEffect
    <3> QED BY ONLY <3>1, <2>1
  <2> QED BY <2>2 DEF a, b
<1>4. SameButLinks(U, L)
  BY <1>3
<1>5. /\ NextOf(L) \in [PointersOf(cap) -> PointersOf(cap)]
      /\ PrevOf(L) \in [PointersOf(cap) -> PointersOf(cap)]
      /\ DOMAIN L.node = ArrayOf(cap)
  <2> HIDE DEF K0, V0
  <2> QED BY <1>2, NextPrevTyped
<1>6. /\ Thread(L, cap, n, e) /\ FreeThread(L, cap, m, f) /\ L.freeSize = m
      /\ L.size <= cap
      /\ Separate(L.size, NodesOf(e, n), NodesOf(f, m), loose)
      /\ \A y \in 0 .. L.size - 1 : L.node[y].key \in K /\ L.node[y].value \in V
  BY DEF Whole
<1>7. x \notin NodesOf(e, n) /\ x \notin NodesOf(f, m) /\ x \in 0 .. L.size - 1
      /\ NodesOf(e, n) \cap NodesOf(f, m) = {}
  BY <1>6 DEF Separate
<1>8. Thread(U, cap, n + 1, d)
  <2>1. \A i \in 1 .. n : e[i] # x
    BY <1>7 DEF NodesOf
  <2> HIDE DEF d
  <2> QED BY <2>1, <1>1, <1>3, <1>5, <1>6, ThreadLinked DEF d
<1>9. FreeThread(U, cap, m, f)
  <2>1. U.freeHead = L.freeHead
    BY <1>4 DEF SameButLinks
  <2>2. ASSUME NEW i \in 1 .. m
        PROVE  NextOf(U)[f[i]] = NextOf(L)[f[i]]
    <3>1. f[i] # x /\ f[i] \in NodesOf(f, m)
      BY <1>7 DEF NodesOf
    <3>2. f[i] \in ArrayOf(cap)
      BY <1>6 DEF FreeThread
    <3>3. f[i] # e[p]
      <4>1. CASE p = 0
        <5>1. e[p] = HeadNode
          BY <4>1, <1>6 DEF Thread
        <5> QED BY <5>1, <3>2, NodePointers
      <4>2. CASE p # 0
        <5>1. p \in 1 .. n
          BY <4>2, <1>1
        <5>2. e[p] \in NodesOf(e, n)
          BY <5>1 DEF NodesOf
        <5> QED BY <5>2, <3>1, <1>7
      <4> QED BY <4>1, <4>2
    <3>4. f[i] \in PointersOf(cap)
      BY <3>2 DEF PointersOf
    <3> QED BY <3>1, <3>3, <3>4, <1>3, <1>5
  <2> QED BY <2>1, <2>2, <1>6, FreeThreadKept
<1>10. Separate(U.size, NodesOf(d, n + 1), NodesOf(f, m), loose \ {x})
  <2>1. \A y : y \in NodesOf(d, n + 1) <=> y = x \/ y \in NodesOf(e, n)
    BY <1>1, SplicedNodes
  <2>2. U.size = L.size
    BY <1>4 DEF SameButLinks
  <2> HIDE DEF d
  <2> QED BY <2>1, <2>2, <1>6, <1>7 DEF Separate
<1>11. /\ U.size = L.size /\ U.freeSize = L.freeSize
       /\ \A y \in ArrayOf(cap) : /\ U.node[y].key = L.node[y].key
                                  /\ U.node[y].value = L.node[y].value
  BY <1>4, <1>5 DEF SameButLinks
<1>12. \A y \in 0 .. L.size - 1 : y \in ArrayOf(cap)
  BY <1>2, <1>6 DEF ArrayOf, ListType
<1>13. \A y \in 0 .. U.size - 1 : U.node[y].key \in K /\ U.node[y].value \in V
  BY <1>6, <1>11, <1>12
<1> HIDE DEF d
<1> QED BY <1>3, <1>4, <1>6, <1>8, <1>9, <1>10, <1>11, <1>13 DEF Whole, d

\* The p-th node is unlinked.
LEMMA WholeUnlinked ==
  ASSUME NEW cap \in Nat, NEW K, NEW V, NEW L, NEW n, NEW e, NEW m, NEW f,
         NEW loose, Whole(L, cap, K, V, n, e, m, f, loose),
         NEW p \in 1 .. n, NEW U, U = Unlink(L, e[p])
  PROVE  /\ Whole(U, cap, K, V, n - 1, Dropped(e, n, p), m, f, loose \cup {e[p]})
         /\ SameButLinks(U, L)
<1> DEFINE K0 == K \cup {Nothing}
           V0 == V \cup {Nothing}
           x == e[p]
           d == Dropped(e, n, p)
<1>1. /\ Thread(L, cap, n, e) /\ FreeThread(L, cap, m, f) /\ L.freeSize = m
      /\ L.size <= cap
      /\ Separate(L.size, NodesOf(e, n), NodesOf(f, m), loose)
      /\ \A y \in 0 .. L.size - 1 : L.node[y].key \in K /\ L.node[y].value \in V
  BY DEF Whole
<1>2. L \in ListType(cap, K0, V0)
  BY DEF Whole
<1>3. /\ NextOf(L) \in [PointersOf(cap) -> PointersOf(cap)]
      /\ PrevOf(L) \in [PointersOf(cap) -> PointersOf(cap)]
      /\ DOMAIN L.node = ArrayOf(cap)
      /\ \A y \in ArrayOf(cap) : /\ NextOf(L)[y] = L.node[y].next
                                 /\ PrevOf(L)[y] = L.node[y].prev
  <2> HIDE DEF K0, V0
  <2> QED BY <1>2, NextPrevTyped
<1>4. /\ n \in Nat /\ p \in 0 .. n /\ p - 1 \in 0 .. n /\ p \in 1 .. n + 1
      /\ (p - 1) + 1 = p
  BY <1>1 DEF Thread
<1>5. /\ x \in ArrayOf(cap)
      /\ L.node[x].next = e[p + 1] /\ L.node[x].prev = e[p - 1]
  BY <1>1, <1>3, <1>4 DEF Thread
<1>6. e[p + 1] # Nil /\ e[p - 1] # Nil
  <2>1. \A i \in 0 .. n : e[i] # Nil /\ e[i + 1] # Nil
    BY WholeTypes
  <2> QED BY <2>1, <1>4
<1> HIDE DEF x
<1>7. U \in ListType(cap, K0, V0)
  <2>1. U = Unlink(L, x)
    BY DEF x
  <2> HIDE DEF K0, V0
  <2> QED BY <2>1, <1>2, <1>5, <1>6, UnlinkEffect
<1>8. /\ NextOf(U) = [NextOf(L) EXCEPT ![e[p - 1]] = e[p + 1]]
      /\ PrevOf(U) = [PrevOf(L) EXCEPT ![e[p + 1]] = e[p - 1]]
      /\ SameButLinks(U, L)
  <2>1. U = Unlink(L, x)
    BY DEF x
  <2> HIDE DEF K0, V0
  <2> QED BY <2>1, <1>2, <1>5, <1>6, UnlinkEffect
<1>9. Thread(U, cap, n - 1, d)
  <2> HIDE DEF d
  <2> QED BY <1>1, <1>3, <1>8, ThreadUnlinked DEF d
<1>10. NodesOf(e, n) \cap NodesOf(f, m) = {} /\ x \in NodesOf(e, n)
  BY <1>1 DEF Separate, NodesOf, x
<1>11. FreeThread(U, cap, m, f)
  <2>1. U.freeHead = L.freeHead
    BY <1>8 DEF SameButLinks
  <2>2. ASSUME NEW i \in 1 .. m
        PROVE  NextOf(U)[f[i]] = NextOf(L)[f[i]]
    <3>1. f[i] \in NodesOf(f, m)
      BY DEF NodesOf
    <3>2. f[i] \in ArrayOf(cap)
      BY <1>1 DEF FreeThread
    <3>3. f[i] # e[p - 1]
      <4>1. CASE p = 1
        <5>1. e[p - 1] = HeadNode
          BY <4>1, <1>1 DEF Thread
        <5> QED BY <5>1, <3>2, NodePointers
      <4>2. CASE p # 1
        <5>1. p - 1 \in 1 .. n
          BY <4>2, <1>4
        <5>2. e[p - 1] \in NodesOf(e, n)
          BY <5>1 DEF NodesOf
        <5> QED BY <5>2, <3>1, <1>10
      <4> QED BY <4>1, <4>2
    <3>4. f[i] \in PointersOf(cap)
      BY <3>2 DEF PointersOf
    <3> QED BY <3>3, <3>4, <1>3, <1>8
  <2> QED BY <2>1, <2>2, <1>1, FreeThreadKept
<1>12. Separate(U.size, NodesOf(d, n - 1), NodesOf(f, m), loose \cup {x})
  <2>1. \A y : y \in NodesOf(d, n - 1) <=> y # x /\ y \in NodesOf(e, n)
    <3>1. \A i, j \in 1 .. n : e[i] = e[j] => i = j
      BY <1>1 DEF Thread
    <3> QED BY <3>1, <1>4, DroppedNodes DEF x
  <2>2. U.size = L.size
    BY <1>8 DEF SameButLinks
  <2> HIDE DEF d
  <2> QED BY <2>1, <2>2, <1>1, <1>10 DEF Separate
<1>13. /\ U.size = L.size /\ U.freeSize = L.freeSize
       /\ \A y \in ArrayOf(cap) : /\ U.node[y].key = L.node[y].key
                                  /\ U.node[y].value = L.node[y].value
  BY <1>3, <1>8 DEF SameButLinks
<1>14. \A y \in 0 .. L.size - 1 : y \in ArrayOf(cap)
  BY <1>1, <1>2 DEF ArrayOf, ListType
<1>15. \A y \in 0 .. U.size - 1 : U.node[y].key \in K /\ U.node[y].value \in V
  BY <1>1, <1>13, <1>14
<1> HIDE DEF d
<1> QED BY <1>1, <1>7, <1>8, <1>9, <1>11, <1>12, <1>13, <1>15 DEF Whole, d, x

\* A loose node goes in front of the free list, as remove leaves it.
Freed(L, x) ==
  [L EXCEPT !.node[x].next = L.freeHead, !.freeHead = x, !.freeSize = @ + 1]

LEMMA WholeFreed ==
  ASSUME NEW cap \in Nat, NEW K, NEW V, NEW L, NEW n, NEW e, NEW m, NEW f,
         NEW loose, Whole(L, cap, K, V, n, e, m, f, loose),
         NEW x \in loose, NEW U, U = Freed(L, x)
  PROVE  /\ Whole(U, cap, K, V, n, e, m + 1, Pushed(f, m, x), loose \ {x})
         /\ SameData(U, L, cap)
<1> DEFINE K0 == K \cup {Nothing}
           V0 == V \cup {Nothing}
           d == Pushed(f, m, x)
           W == SetNext(L, x, L.freeHead)
<1>1. /\ n \in Nat /\ m \in Nat /\ x \in ArrayOf(cap)
  BY WholeTypes
<1>2. L \in ListType(cap, K0, V0)
  BY DEF Whole
<1>3. /\ Thread(L, cap, n, e) /\ FreeThread(L, cap, m, f) /\ L.freeSize = m
      /\ L.size <= cap
      /\ Separate(L.size, NodesOf(e, n), NodesOf(f, m), loose)
      /\ \A y \in 0 .. L.size - 1 : L.node[y].key \in K /\ L.node[y].value \in V
  BY DEF Whole
<1>4. x \in PointersOf(cap) \ {Nil} /\ L.freeHead \in PointersOf(cap)
  BY <1>1, <1>2, NodePointers DEF PointersOf, ListType
<1>5. /\ NextOf(L) \in [PointersOf(cap) -> PointersOf(cap)]
      /\ PrevOf(L) \in [PointersOf(cap) -> PointersOf(cap)]
      /\ DOMAIN L.node = ArrayOf(cap)
  <2> HIDE DEF K0, V0
  <2> QED BY <1>2, NextPrevTyped
<1>6. W \in ListType(cap, K0, V0)
  <2> HIDE DEF K0, V0
  <2> QED BY <1>2, <1>4, SetNextEffect
<1>7. /\ NextOf(W) = [NextOf(L) EXCEPT ![x] = L.freeHead]
      /\ PrevOf(W) = PrevOf(L) /\ SameButLinks(W, L)
  <2> HIDE DEF K0, V0
  <2> QED BY <1>2, <1>4, SetNextEffect
<1>8. U = [W EXCEPT !.freeHead = x, !.freeSize = L.freeSize + 1]
  BY <1>1, <1>2, NodePointers DEF Freed, SetNext, ListType
<1> HIDE DEF W
<1>9. /\ U \in ListType(cap, K0, V0)
      /\ U.node = W.node /\ U.head = W.head /\ U.tail = W.tail
      /\ U.size = W.size /\ U.freeHead = x /\ U.freeSize = L.freeSize + 1
  <2>1. /\ U.node = W.node /\ U.head = W.head /\ U.tail = W.tail
        /\ U.size = W.size /\ U.freeHead = x /\ U.freeSize = L.freeSize + 1
    BY <1>6, <1>8 DEF ListType
  <2>2. x \in ArrayOf(cap) \cup {Nil} /\ L.freeSize + 1 \in Nat
    BY <1>1, <1>2 DEF ListType
  <2>3. U \in ListType(cap, K0, V0)
    <3> HIDE DEF K0, V0
    <3> QED BY <2>2, <1>6, <1>8 DEF ListType
  <2> QED BY <2>1, <2>3
<1>10. NextOf(U) = NextOf(W) /\ PrevOf(U) = PrevOf(W)
  BY <1>9 DEF NextOf, PrevOf, NodeAt
<1>11. x \notin NodesOf(e, n) /\ x \notin NodesOf(f, m) /\ x \in 0 .. L.size - 1
  BY <1>3 DEF Separate
<1>12. Thread(U, cap, n, e)
  <2>1. ASSUME NEW i \in 0 .. n
        PROVE  NextOf(U)[e[i]] = NextOf(L)[e[i]]
    <3>1. e[i] # x
      <4>1. CASE i = 0
        BY <4>1, <1>1, <1>3, NodePointers DEF Thread
      <4>2. CASE i # 0
        <5>1. i \in 1 .. n
          BY <4>2, <1>1
        <5> QED BY <5>1, <1>11 DEF NodesOf
      <4> QED BY <4>1, <4>2
    <3>2. e[i] \in PointersOf(cap)
      BY WholeTypes
    <3> QED BY <3>1, <3>2, <1>5, <1>7, <1>10
  <2>2. \A i \in 1 .. n + 1 : PrevOf(U)[e[i]] = PrevOf(L)[e[i]]
    BY <1>7, <1>10
  <2> QED BY <2>1, <2>2, <1>3, ThreadKept
<1>13. FreeThread(U, cap, m + 1, d)
  <2>1. /\ f \in [1 .. m + 1 -> PointersOf(cap)]
        /\ f[1] = L.freeHead /\ f[m + 1] = Nil
        /\ \A i \in 1 .. m : f[i] \in ArrayOf(cap)
        /\ \A i, j \in 1 .. m : f[i] = f[j] => i = j
        /\ \A i \in 1 .. m : NextOf(L)[f[i]] = f[i + 1]
        /\ \A i \in 1 .. m : f[i] # x
    BY <1>3, <1>11 DEF FreeThread, NodesOf
  <2>2. /\ d \in [1 .. (m + 1) + 1 -> PointersOf(cap)]
        /\ d[1] = x /\ d[(m + 1) + 1] = Nil
        /\ \A i \in 2 .. m + 2 : i - 1 \in 1 .. m + 1 /\ d[i] = f[i - 1]
    BY <2>1, <1>1, <1>4 DEF Pushed
  <2> HIDE DEF d
  <2>3. \A i \in 2 .. m + 1 : i - 1 \in 1 .. m /\ d[i] = f[i - 1] /\ d[i] # x
                              /\ d[i + 1] = f[(i - 1) + 1]
    BY <2>1, <2>2, <1>1
  <2>4. ASSUME NEW i \in 1 .. m + 1
        PROVE  d[i] \in ArrayOf(cap)
    <3>1. i = 1 \/ i \in 2 .. m + 1
      BY <1>1
    <3>2. CASE i = 1
      BY <3>2, <2>2, <1>1
    <3>3. CASE i \in 2 .. m + 1
      BY <3>3, <2>1, <2>3
    <3> QED BY <3>1, <3>2, <3>3
  <2>5. \A i, j \in 1 .. m + 1 : d[i] = d[j] => i = j
    <3>1. \A i \in 1 .. m + 1 : i = 1 \/ i \in 2 .. m + 1
      BY <1>1
    <3> QED BY <3>1, <2>1, <2>2, <2>3
  <2>6. ASSUME NEW i \in 1 .. m + 1
        PROVE  NextOf(U)[d[i]] = d[i + 1]
    <3>1. CASE i = 1
      <4>1. NextOf(U)[x] = L.freeHead
        BY <1>4, <1>5, <1>7, <1>10
      <4>2. d[2] = f[1]
        BY <2>2, <1>1
      <4> QED BY <4>1, <4>2, <3>1, <2>1, <2>2
    <3>2. CASE i # 1
      <4>1. i \in 2 .. m + 1
        BY <3>2, <1>1
      <4>2. /\ d[i] = f[i - 1] /\ i - 1 \in 1 .. m /\ d[i] # x
            /\ d[i + 1] = f[(i - 1) + 1]
        BY <4>1, <2>3
      <4>3. NextOf(U)[d[i]] = NextOf(L)[d[i]]
        <5>1. d[i] \in PointersOf(cap)
          BY <2>4 DEF PointersOf
        <5> QED BY <5>1, <4>2, <1>5, <1>7, <1>10
      <4> QED BY <4>2, <4>3, <2>1
    <3> QED BY <3>1, <3>2
  <2> QED BY <2>2, <2>4, <2>5, <2>6, <1>1, <1>9 DEF FreeThread
<1>14. Separate(U.size, NodesOf(e, n), NodesOf(d, m + 1), loose \ {x})
  <2>1. \A y : y \in NodesOf(d, m + 1) <=> y = x \/ y \in NodesOf(f, m)
    BY <1>1, PushedNodes
  <2>2. U.size = L.size
    BY <1>7, <1>9 DEF SameButLinks
  <2> HIDE DEF d
  <2> QED BY <2>1, <2>2, <1>3, <1>11 DEF Separate
<1>15. \A y \in ArrayOf(cap) : /\ U.node[y].key = L.node[y].key
                               /\ U.node[y].value = L.node[y].value
  BY <1>5, <1>7, <1>9 DEF SameButLinks
<1>16. \A y \in 0 .. L.size - 1 : y \in ArrayOf(cap)
  BY <1>2, <1>3 DEF ArrayOf, ListType
<1>17. U.size = L.size
  BY <1>7, <1>9 DEF SameButLinks
<1>18. \A y \in 0 .. U.size - 1 : U.node[y].key \in K /\ U.node[y].value \in V
  BY <1>3, <1>15, <1>16, <1>17
<1> HIDE DEF d
<1> QED BY <1>3, <1>9, <1>12, <1>13, <1>14, <1>15, <1>17, <1>18 DEF Whole, d, SameData

\* A node's key and value are overwritten.
Rewritten(L, x, k, v) == [L EXCEPT !.node[x].key = k, !.node[x].value = v]

LEMMA RewrittenEffect ==
  ASSUME NEW cap \in Nat, NEW K, NEW V, NEW L \in ListType(cap, K, V),
         NEW x \in ArrayOf(cap), NEW k \in K, NEW v \in V,
         NEW U, U = Rewritten(L, x, k, v)
  PROVE  /\ U \in ListType(cap, K, V)
         /\ NextOf(U) = NextOf(L) /\ PrevOf(U) = PrevOf(L)
         /\ U.size = L.size /\ U.freeHead = L.freeHead /\ U.freeSize = L.freeSize
         /\ U.capacity = L.capacity
         /\ NewData(U, L, cap, x, k, v)
<1>1. U = [L EXCEPT !.node = [L.node EXCEPT
                                ![x] = [L.node[x] EXCEPT !.key = k, !.value = v]]]
  BY DEF Rewritten, ListType
<1>2. U \in ListType(cap, K, V)
  <2> DEFINE N == [L.node[x] EXCEPT !.key = k, !.value = v]
             A == [L.node EXCEPT ![x] = N]
  <2>1. L.node \in [ArrayOf(cap) -> NodeType(cap, K, V)]
    BY DEF ListType
  <2>2. N \in NodeType(cap, K, V)
    BY <2>1 DEF NodeType
  <2> HIDE DEF N
  <2>3. A \in [ArrayOf(cap) -> NodeType(cap, K, V)]
    BY <2>1, <2>2
  <2>4. U = [L EXCEPT !.node = A]
    BY <1>1 DEF N
  <2> HIDE DEF A
  <2> QED BY <2>3, <2>4 DEF ListType
<1>3. /\ U.head = L.head /\ U.tail = L.tail
      /\ U.size = L.size /\ U.freeHead = L.freeHead /\ U.freeSize = L.freeSize
      /\ U.capacity = L.capacity
  BY <1>1 DEF ListType
<1>4. \A y \in ArrayOf(cap) :
        /\ U.node[y].key = IF y = x THEN k ELSE L.node[y].key
        /\ U.node[y].value = IF y = x THEN v ELSE L.node[y].value
        /\ U.node[y].next = L.node[y].next /\ U.node[y].prev = L.node[y].prev
  BY <1>1 DEF ListType, NodeType
<1>5. DOMAIN U.node = ArrayOf(cap) /\ DOMAIN L.node = ArrayOf(cap)
  BY <1>2 DEF ListType
<1>6. \A p \in ArrayOf(cap) \cup {HeadNode, TailNode} :
        NodeAt(U, p).next = NodeAt(L, p).next /\ NodeAt(U, p).prev = NodeAt(L, p).prev
  BY <1>3, <1>4, NodePointers DEF NodeAt
<1>7. NextOf(U) = NextOf(L) /\ PrevOf(U) = PrevOf(L)
  BY <1>5, <1>6 DEF NextOf, PrevOf
<1> QED BY <1>2, <1>3, <1>4, <1>7 DEF NewData

LEMMA WholeRewritten ==
  ASSUME NEW cap \in Nat, NEW K, NEW V, NEW L, NEW n, NEW e, NEW m, NEW f,
         NEW loose, Whole(L, cap, K, V, n, e, m, f, loose),
         NEW x \in 0 .. L.size - 1, NEW k \in K, NEW v \in V,
         NEW U, U = Rewritten(L, x, k, v)
  PROVE  /\ Whole(U, cap, K, V, n, e, m, f, loose)
         /\ U.size = L.size
         /\ NewData(U, L, cap, x, k, v)
<1> DEFINE K0 == K \cup {Nothing}
           V0 == V \cup {Nothing}
<1>1. /\ L \in ListType(cap, K0, V0) /\ L.size <= cap
      /\ Thread(L, cap, n, e) /\ FreeThread(L, cap, m, f) /\ L.freeSize = m
      /\ Separate(L.size, NodesOf(e, n), NodesOf(f, m), loose)
      /\ \A y \in 0 .. L.size - 1 : L.node[y].key \in K /\ L.node[y].value \in V
  BY DEF Whole
<1>2. x \in ArrayOf(cap) /\ k \in K0 /\ v \in V0
      /\ \A y \in 0 .. L.size - 1 : y \in ArrayOf(cap)
  BY <1>1 DEF ArrayOf, ListType
<1>3. /\ U \in ListType(cap, K0, V0)
      /\ NextOf(U) = NextOf(L) /\ PrevOf(U) = PrevOf(L)
      /\ U.size = L.size /\ U.freeHead = L.freeHead /\ U.freeSize = L.freeSize
      /\ NewData(U, L, cap, x, k, v)
  <2>1. L \in ListType(cap, K0, V0)
    BY <1>1
  <2> HIDE DEF K0, V0
  <2> QED BY <2>1, <1>2, RewrittenEffect
<1>4. Thread(U, cap, n, e)
  BY <1>1, <1>3, ThreadKept
<1>5. FreeThread(U, cap, m, f)
  BY <1>1, <1>3, FreeThreadKept
<1>6. \A y \in 0 .. U.size - 1 : U.node[y].key \in K /\ U.node[y].value \in V
  BY <1>1, <1>2, <1>3 DEF NewData
<1>7. U.size <= cap /\ U.freeSize = m
      /\ Separate(U.size, NodesOf(e, n), NodesOf(f, m), loose)
  BY <1>1, <1>3
<1> QED BY <1>3, <1>4, <1>5, <1>6, <1>7 DEF Whole

\* A new node is loose: the next one of the array if none is free, and else
\* the first free one.
LEMMA WholeTaken ==
  ASSUME NEW cap \in Nat, NEW K, NEW V, NEW L, NEW n, NEW e, NEW m, NEW f,
         NEW loose, Whole(L, cap, K, V, n, e, m, f, loose),
         NEW k \in K, NEW v \in V, NEW x, NEW U,
         L.freeSize = 0, L.size < cap,
         x = NewNode(L), U = Created(L, k, v)
  PROVE  /\ Whole(U, cap, K, V, n, e, m, f, loose \cup {x})
         /\ x = L.size /\ U.size = L.size + 1
         /\ x \notin NodesOf(e, n) /\ x \notin loose /\ x \in ArrayOf(cap)
         /\ NewData(U, L, cap, x, k, v)
<1> DEFINE K0 == K \cup {Nothing}
           V0 == V \cup {Nothing}
           W == [L EXCEPT !.size = L.size + 1]
<1>1. /\ L \in ListType(cap, K0, V0)
      /\ Thread(L, cap, n, e) /\ FreeThread(L, cap, m, f) /\ L.freeSize = m
      /\ Separate(L.size, NodesOf(e, n), NodesOf(f, m), loose)
      /\ \A y \in 0 .. L.size - 1 : L.node[y].key \in K /\ L.node[y].value \in V
  BY DEF Whole
<1>2. x = L.size /\ x \in Nat /\ x \in ArrayOf(cap)
  BY <1>1 DEF NewNode, ArrayOf, ListType
<1>3. W \in ListType(cap, K0, V0)
  <2>1. L \in ListType(cap, K0, V0) /\ L.size + 1 \in Nat
    BY <1>1, <1>2
  <2> HIDE DEF K0, V0
  <2> QED BY <2>1 DEF ListType
<1>4. /\ W.node = L.node /\ W.head = L.head /\ W.tail = L.tail
      /\ W.size = x + 1 /\ W.freeHead = L.freeHead /\ W.freeSize = L.freeSize
  BY <1>1, <1>2 DEF ListType
<1>5. NextOf(W) = NextOf(L) /\ PrevOf(W) = PrevOf(L)
  BY <1>4 DEF NextOf, PrevOf, NodeAt
<1>6. U = Rewritten(W, x, k, v)
  BY <1>1, <1>2 DEF Created, Rewritten, NewNode, ListType
<1> HIDE DEF W
<1>7. /\ U \in ListType(cap, K0, V0)
      /\ NextOf(U) = NextOf(W) /\ PrevOf(U) = PrevOf(W)
      /\ U.size = W.size /\ U.freeHead = W.freeHead /\ U.freeSize = W.freeSize
      /\ NewData(U, W, cap, x, k, v)
  <2>1. k \in K0 /\ v \in V0
    OBVIOUS
  <2> HIDE DEF K0, V0
  <2> QED BY <2>1, <1>2, <1>3, <1>6, RewrittenEffect
<1>8. Thread(U, cap, n, e)
  BY <1>1, <1>5, <1>7, ThreadKept
<1>9. FreeThread(U, cap, m, f)
  BY <1>1, <1>4, <1>5, <1>7, FreeThreadKept
<1>10. x \notin NodesOf(e, n) /\ x \notin NodesOf(f, m) /\ x \notin loose
  <2>1. x \notin 0 .. L.size - 1
    BY <1>2
  <2> QED BY <2>1, <1>1 DEF Separate
<1>11. Separate(U.size, NodesOf(e, n), NodesOf(f, m), loose \cup {x})
  <2>1. 0 .. U.size - 1 = (0 .. L.size - 1) \cup {x}
    BY <1>2, <1>4, <1>7
  <2> QED BY <2>1, <1>1, <1>10 DEF Separate
<1>12. \A y \in 0 .. U.size - 1 : U.node[y].key \in K /\ U.node[y].value \in V
  <2>1. \A y \in 0 .. U.size - 1 : y \in ArrayOf(cap) /\ (y = x \/ y \in 0 .. L.size - 1)
    BY <1>2, <1>4, <1>7 DEF ArrayOf
  <2> QED BY <2>1, <1>1, <1>4, <1>7 DEF NewData
<1>13. U.size <= cap /\ U.freeSize = m /\ U.size = L.size + 1
  BY <1>1, <1>2, <1>4, <1>7
<1>14. Whole(U, cap, K, V, n, e, m, f, loose \cup {x})
  BY <1>7, <1>8, <1>9, <1>11, <1>12, <1>13 DEF Whole
<1> QED BY <1>2, <1>4, <1>7, <1>10, <1>13, <1>14 DEF NewData

LEMMA WholeReused ==
  ASSUME NEW cap \in Nat, NEW K, NEW V, NEW L, NEW n, NEW e, NEW m, NEW f,
         NEW loose, Whole(L, cap, K, V, n, e, m, f, loose),
         NEW k \in K, NEW v \in V, NEW x, NEW U,
         L.freeSize # 0,
         x = NewNode(L), U = Created(L, k, v)
  PROVE  /\ Whole(U, cap, K, V, n, e, m - 1, Popped(f, m), loose \cup {x})
         /\ x \notin NodesOf(e, n) /\ x \notin loose /\ x \in ArrayOf(cap)
         /\ NewData(U, L, cap, x, k, v)
<1> DEFINE K0 == K \cup {Nothing}
           V0 == V \cup {Nothing}
           q == L.node[x].next
           W == [L EXCEPT !.freeHead = q, !.freeSize = L.freeSize - 1]
           d == Popped(f, m)
<1>1. /\ L \in ListType(cap, K0, V0) /\ L.size <= cap
      /\ Thread(L, cap, n, e) /\ FreeThread(L, cap, m, f) /\ L.freeSize = m
      /\ Separate(L.size, NodesOf(e, n), NodesOf(f, m), loose)
      /\ \A y \in 0 .. L.size - 1 : L.node[y].key \in K /\ L.node[y].value \in V
  BY DEF Whole
<1>2. /\ m \in Nat \ {0} /\ f \in [1 .. m + 1 -> PointersOf(cap)]
      /\ f[1] = L.freeHead /\ f[m + 1] = Nil
      /\ \A i \in 1 .. m : f[i] \in ArrayOf(cap)
      /\ \A i, j \in 1 .. m : f[i] = f[j] => i = j
      /\ \A i \in 1 .. m : NextOf(L)[f[i]] = f[i + 1]
  BY <1>1 DEF FreeThread
<1>3. x = f[1] /\ 1 \in 1 .. m /\ x \in ArrayOf(cap) /\ x \in NodesOf(f, m)
  BY <1>1, <1>2 DEF NewNode, NodesOf
<1>4. /\ DOMAIN L.node = ArrayOf(cap)
      /\ \A y \in ArrayOf(cap) : NextOf(L)[y] = L.node[y].next
  <2>1. L \in ListType(cap, K0, V0)
    BY <1>1
  <2> HIDE DEF K0, V0
  <2> QED BY <2>1, NextPrevTyped
<1>5. q = f[2]
  BY <1>2, <1>3, <1>4
<1> HIDE DEF q
<1>6. q \in ArrayOf(cap) \cup {Nil}
  <2>1. m = 1 \/ 2 \in 1 .. m
    BY <1>2
  <2> QED BY <2>1, <1>2, <1>5
<1>7. W \in ListType(cap, K0, V0)
  <2>1. L \in ListType(cap, K0, V0) /\ L.freeSize - 1 \in Nat
    BY <1>1, <1>2
  <2> HIDE DEF K0, V0
  <2> QED BY <2>1, <1>6 DEF ListType
<1>8. /\ W.node = L.node /\ W.head = L.head /\ W.tail = L.tail
      /\ W.size = L.size /\ W.freeHead = q /\ W.freeSize = m - 1
  BY <1>1, <1>2 DEF ListType
<1>9. NextOf(W) = NextOf(L) /\ PrevOf(W) = PrevOf(L)
  BY <1>8 DEF NextOf, PrevOf, NodeAt
<1>10. U = Rewritten(W, x, k, v)
  BY <1>1 DEF Created, Rewritten, NewNode, ListType, q
<1> HIDE DEF W
<1>11. /\ U \in ListType(cap, K0, V0)
       /\ NextOf(U) = NextOf(W) /\ PrevOf(U) = PrevOf(W)
       /\ U.size = W.size /\ U.freeHead = W.freeHead /\ U.freeSize = W.freeSize
       /\ NewData(U, W, cap, x, k, v)
  <2>1. k \in K0 /\ v \in V0
    OBVIOUS
  <2> HIDE DEF K0, V0
  <2> QED BY <2>1, <1>3, <1>7, <1>10, RewrittenEffect
<1>12. Thread(U, cap, n, e)
  BY <1>1, <1>9, <1>11, ThreadKept
<1>13. FreeThread(U, cap, m - 1, d)
  <2>1. /\ m - 1 \in Nat /\ (m - 1) + 1 = m
        /\ d \in [1 .. m -> PointersOf(cap)]
        /\ \A i \in 1 .. m : d[i] = f[i + 1] /\ i + 1 \in 1 .. m + 1
    BY <1>2 DEF Popped
  <2> HIDE DEF d
  <2>2. d[1] = q /\ d[m] = Nil
    BY <2>1, <1>2, <1>5
  <2>3. \A i \in 1 .. m - 1 : /\ i \in 1 .. m /\ i + 1 \in 1 .. m
                              /\ d[i] = f[i + 1] /\ d[i + 1] = f[(i + 1) + 1]
    BY <2>1, <1>2
  <2>4. /\ \A i \in 1 .. m - 1 : d[i] \in ArrayOf(cap)
        /\ \A i \in 1 .. m - 1 : NextOf(U)[d[i]] = d[i + 1]
    <3>1. NextOf(U) = NextOf(L)
      BY <1>9, <1>11
    <3> QED BY <3>1, <2>3, <1>2
  <2>5. \A i, j \in 1 .. m - 1 : d[i] = d[j] => i = j
    <3>1. ASSUME NEW i \in 1 .. m - 1, NEW j \in 1 .. m - 1, d[i] = d[j]
          PROVE  i = j
      <4>1. i + 1 \in 1 .. m /\ j + 1 \in 1 .. m /\ f[i + 1] = f[j + 1]
        BY <2>3, <3>1
      <4>2. i + 1 = j + 1
        BY <4>1, <1>2
      <4> QED BY <4>2
    <3> QED BY <3>1
  <2>6. U.freeHead = q
    BY <1>8, <1>11
  <2> QED BY <2>1, <2>2, <2>4, <2>5, <2>6 DEF FreeThread
<1>14. x \notin NodesOf(e, n) /\ x \notin loose /\ x \in 0 .. L.size - 1
  BY <1>1, <1>3 DEF Separate
<1>15. Separate(U.size, NodesOf(e, n), NodesOf(d, m - 1), loose \cup {x})
  <2>1. \A y : y \in NodesOf(d, m - 1) <=> y # f[1] /\ y \in NodesOf(f, m)
    <3>1. m \in Nat \ {0} /\ \A i, j \in 1 .. m : f[i] = f[j] => i = j
      BY <1>2
    <3> QED BY ONLY <3>1, PoppedNodes DEF d
  <2>2. U.size = L.size
    BY <1>8, <1>11
  <2> HIDE DEF d
  <2>3. \A y : y \in NodesOf(d, m - 1) <=> y # x /\ y \in NodesOf(f, m)
    BY <2>1, <1>3
  <2> QED BY <2>2, <2>3, <1>1, <1>3, <1>14 DEF Separate
<1>16. \A y \in 0 .. U.size - 1 : U.node[y].key \in K /\ U.node[y].value \in V
  <2>1. \A y \in 0 .. L.size - 1 : y \in ArrayOf(cap)
    BY <1>1 DEF ArrayOf, ListType
  <2> QED BY <2>1, <1>1, <1>8, <1>11 DEF NewData
<1>17. U.size <= cap /\ U.freeSize = m - 1
  BY <1>1, <1>8, <1>11
<1>18. Whole(U, cap, K, V, n, e, m - 1, d, loose \cup {x})
  <2> HIDE DEF d
  <2> QED BY <1>11, <1>12, <1>13, <1>15, <1>16, <1>17 DEF Whole
<1> QED BY <1>3, <1>8, <1>11, <1>14, <1>18 DEF NewData

LEMMA WholeCreated ==
  ASSUME NEW cap \in Nat, NEW K, NEW V, NEW L, NEW n, NEW e, NEW m, NEW f,
         NEW loose, Whole(L, cap, K, V, n, e, m, f, loose),
         NEW k \in K, NEW v \in V, NEW x, NEW U,
         L.size < cap, x = NewNode(L), U = Created(L, k, v)
  PROVE  /\ \E i, g : Whole(U, cap, K, V, n, e, i, g, loose \cup {x})
         /\ x \notin NodesOf(e, n) /\ x \notin loose /\ x \in ArrayOf(cap)
         /\ NewData(U, L, cap, x, k, v)
<1>1. CASE L.freeSize = 0
  <2>1. /\ Whole(U, cap, K, V, n, e, m, f, loose \cup {x})
        /\ x \notin NodesOf(e, n) /\ x \notin loose /\ x \in ArrayOf(cap)
        /\ NewData(U, L, cap, x, k, v)
    BY <1>1, WholeTaken
  <2> QED BY <2>1
<1>2. CASE L.freeSize # 0
  <2>1. /\ Whole(U, cap, K, V, n, e, m - 1, Popped(f, m), loose \cup {x})
        /\ x \notin NodesOf(e, n) /\ x \notin loose /\ x \in ArrayOf(cap)
        /\ NewData(U, L, cap, x, k, v)
    BY <1>2, WholeReused
  <2> QED BY <2>1
<1> QED BY <1>1, <1>2

\* The ends of the list, as push_front and push_back find them.
LEMMA WholeEnds ==
  ASSUME NEW cap \in Nat, NEW K, NEW V, NEW L, NEW n, NEW e, NEW m, NEW f,
         NEW loose, Whole(L, cap, K, V, n, e, m, f, loose)
  PROVE  /\ L.head.next = e[1] /\ L.tail.prev = e[n]
         /\ \A x : /\ push_front_internal(L, x) = LinkBetween(L, x, e[0], e[0 + 1])
                   /\ push_back_internal(L, x) = LinkBetween(L, x, e[n], e[n + 1])
         /\ \A p \in 1 .. n : /\ e[p] \in ArrayOf(cap)
                              /\ L.node[e[p]].next # Nil
                              /\ L.node[e[p]].prev # Nil
<1> DEFINE K0 == K \cup {Nothing}
           V0 == V \cup {Nothing}
<1>1. L \in ListType(cap, K0, V0) /\ Thread(L, cap, n, e)
  BY DEF Whole
<1>2. /\ NextOf(L)[HeadNode] = L.head.next
      /\ PrevOf(L)[TailNode] = L.tail.prev
      /\ \A y \in ArrayOf(cap) : /\ NextOf(L)[y] = L.node[y].next
                                 /\ PrevOf(L)[y] = L.node[y].prev
  <2> HIDE DEF K0, V0
  <2> QED BY <1>1, NextPrevTyped
<1>3. /\ n \in Nat /\ e[0] = HeadNode /\ e[n + 1] = TailNode
      /\ \A i \in 1 .. n : e[i] \in ArrayOf(cap)
      /\ \A i \in 0 .. n : NextOf(L)[e[i]] = e[i + 1]
      /\ \A i \in 1 .. n + 1 : PrevOf(L)[e[i]] = e[i - 1]
  BY <1>1 DEF Thread
<1>4. L.head.next = e[1] /\ L.tail.prev = e[n]
  <2>1. 0 \in 0 .. n /\ n + 1 \in 1 .. n + 1 /\ (n + 1) - 1 = n
    BY <1>3
  <2> QED BY <2>1, <1>2, <1>3
<1>5. \A p \in 0 .. n : e[p] # Nil /\ e[p + 1] # Nil
  BY WholeTypes
<1>6. ASSUME NEW p \in 1 .. n
      PROVE  /\ e[p] \in ArrayOf(cap)
             /\ L.node[e[p]].next # Nil /\ L.node[e[p]].prev # Nil
  <2>1. p \in 0 .. n /\ p \in 1 .. n + 1 /\ p - 1 \in 0 .. n
    BY <1>3
  <2> QED BY <2>1, <1>2, <1>3, <1>5
<1> QED BY <1>3, <1>4, <1>6 DEF push_front_internal, push_back_internal

\* The threads of a list that links and frees no node.
EndsOnly == [i \in 0 .. 1 |-> IF i = 0 THEN HeadNode ELSE TailNode]
NoneFree == [j \in 1 .. 1 |-> Nil]

LEMMA WholeBare ==
  ASSUME NEW cap \in Nat, NEW K, NEW V, NEW L,
         L \in ListType(cap, K \cup {Nothing}, V \cup {Nothing}),
         L.head.next = TailNode, L.tail.prev = HeadNode,
         L.freeHead = Nil, L.freeSize = 0, L.size = 0
  PROVE  Whole(L, cap, K, V, 0, EndsOnly, 0, NoneFree, {})
<1> DEFINE K0 == K \cup {Nothing}
           V0 == V \cup {Nothing}
<1>1. /\ NextOf(L)[HeadNode] = L.head.next
      /\ PrevOf(L)[TailNode] = L.tail.prev
  <2> HIDE DEF K0, V0
  <2> QED BY NextPrevTyped
<1>2. EndsOnly \in [0 .. 0 + 1 -> PointersOf(cap)]
      /\ EndsOnly[0] = HeadNode /\ EndsOnly[1] = TailNode
  BY DEF EndsOnly, PointersOf
<1>3. Thread(L, cap, 0, EndsOnly)
  <2>1. \A i \in 0 .. 0 : i = 0 /\ i + 1 = 1
    OBVIOUS
  <2>2. \A i \in 1 .. 0 + 1 : i = 1 /\ i - 1 = 0
    OBVIOUS
  <2> QED BY <2>1, <2>2, <1>1, <1>2 DEF Thread
<1>4. FreeThread(L, cap, 0, NoneFree)
  BY DEF FreeThread, NoneFree, PointersOf
<1>5. Separate(0, NodesOf(EndsOnly, 0), NodesOf(NoneFree, 0), {})
  BY DEF Separate, NodesOf
<1> QED BY <1>3, <1>4, <1>5 DEF Whole

LEMMA WholeEmpty ==
  ASSUME NEW cap \in Nat, NEW K, NEW V
  PROVE  Whole(EmptyList(cap), cap, K, V, 0, EndsOnly, 0, NoneFree, {})
<1> DEFINE L == EmptyList(cap)
<1>1. L \in ListType(cap, K \cup {Nothing}, V \cup {Nothing})
  <2>1. Raw \in NodeType(cap, K \cup {Nothing}, V \cup {Nothing})
    BY DEF Raw, Node, NodeType, PointersOf
  <2>2. Node(Nil, TailNode, Nothing, Nothing)
          \in NodeType(cap, K \cup {Nothing}, V \cup {Nothing})
    BY DEF Node, NodeType, PointersOf
  <2>3. Node(HeadNode, Nil, Nothing, Nothing)
          \in NodeType(cap, K \cup {Nothing}, V \cup {Nothing})
    BY DEF Node, NodeType, PointersOf
  <2> QED BY <2>1, <2>2, <2>3 DEF EmptyList, ListType, ArrayOf
<1>2. /\ L.head.next = TailNode /\ L.tail.prev = HeadNode
      /\ L.freeHead = Nil /\ L.freeSize = 0 /\ L.size = 0
  BY DEF EmptyList, Node
<1> HIDE DEF L
<1> QED BY <1>1, <1>2, WholeBare DEF L

LEMMA WholeCleared ==
  ASSUME NEW cap \in Nat, NEW K, NEW V, NEW L, NEW n, NEW e, NEW m, NEW f,
         NEW loose, Whole(L, cap, K, V, n, e, m, f, loose), L.freeSize = 0
  PROVE  Whole(Cleared(L), cap, K, V, 0, EndsOnly, 0, NoneFree, {})
<1> DEFINE U == Cleared(L)
           K0 == K \cup {Nothing}
           V0 == V \cup {Nothing}
           h == Node(Nil, TailNode, Nothing, Nothing)
           t == Node(HeadNode, Nil, Nothing, Nothing)
<1>1. L \in ListType(cap, K0, V0)
  BY DEF Whole
<1>2. L.freeHead = Nil
  BY DEF Whole, FreeThread
<1>3. h \in NodeType(cap, K0, V0) /\ t \in NodeType(cap, K0, V0)
  BY DEF Node, NodeType, PointersOf
<1>4. h.next = TailNode /\ t.prev = HeadNode
  BY DEF Node
<1>5. U \in ListType(cap, K0, V0)
  <2>1. U = [L EXCEPT !.size = 0, !.head = h, !.tail = t]
    BY DEF Cleared
  <2> HIDE DEF K0, V0, h, t
  <2> QED BY <2>1, <1>1, <1>3 DEF ListType
<1>6. /\ U.head.next = TailNode /\ U.tail.prev = HeadNode
      /\ U.freeHead = Nil /\ U.freeSize = 0 /\ U.size = 0
  <2>1. U.head = h /\ U.tail = t /\ U.freeHead = L.freeHead
        /\ U.freeSize = L.freeSize /\ U.size = 0
    BY <1>1 DEF Cleared, ListType
  <2> QED BY <2>1, <1>2, <1>4
<1> HIDE DEF U
<1> QED BY <1>5, <1>6, WholeBare DEF U

\* Growing keeps a list that nothing points into: no node was handed out.
LEMMA WholeEnlarged ==
  ASSUME NEW cap \in Nat, NEW K, NEW V, NEW L, NEW n, NEW e, NEW m, NEW f,
         Whole(L, cap, K, V, n, e, m, f, {}), ~PointedInto(L),
         NEW more \in Nat, more > cap
  PROVE  /\ n = 0
         /\ Whole(Enlarged(L, more), more, K, V, 0, EndsOnly, 0, NoneFree, {})
<1> DEFINE U == Enlarged(L, more)
           K0 == K \cup {Nothing}
           V0 == V \cup {Nothing}
<1>1. L \in ListType(cap, K0, V0)
  BY DEF Whole
<1>2. /\ L.freeSize = m /\ Separate(L.size, NodesOf(e, n), NodesOf(f, m), {})
      /\ Thread(L, cap, n, e) /\ FreeThread(L, cap, m, f)
  BY DEF Whole
<1>3. L.head.next = TailNode /\ L.freeHead = Nil
  BY DEF PointedInto
<1>4. n = 0
  <2>1. L.head.next = e[1]
    BY WholeEnds
  <2>2. n \in Nat /\ \A i \in 1 .. n : e[i] \in ArrayOf(cap)
    BY <1>2 DEF Thread
  <2>3. CASE n # 0
    <3>1. 1 \in 1 .. n
      BY <2>2, <2>3
    <3> QED BY <3>1, <2>1, <2>2, <1>3, NodePointers
  <2> QED BY <2>3
<1>5. m = 0
  <2>1. m \in Nat /\ f[1] = L.freeHead /\ \A i \in 1 .. m : f[i] \in ArrayOf(cap)
    BY <1>2 DEF FreeThread
  <2>2. CASE m # 0
    <3>1. 1 \in 1 .. m
      BY <2>1, <2>2
    <3> QED BY <3>1, <2>1, <1>3, NodePointers
  <2> QED BY <2>2
<1>6. L.size = 0
  <2>1. 0 .. L.size - 1 = {}
    BY <1>2, <1>4, <1>5 DEF Separate, NodesOf
  <2>2. L.size \in Nat
    BY <1>1 DEF ListType
  <2>3. L.size # 0 => 0 \in 0 .. L.size - 1
    BY <2>2
  <2> QED BY <2>1, <2>3
<1>7. L.tail.prev = HeadNode
  <2>1. L.head.next = e[1] /\ L.tail.prev = e[n]
    BY WholeEnds
  <2> QED BY <2>1, <1>2, <1>4 DEF Thread
<1> DEFINE A == [p \in 0 .. more - 1 |-> IF p < L.size THEN L.node[p] ELSE Raw]
<1>8. A \in [ArrayOf(more) -> NodeType(more, K0, V0)]
  <2>1. Raw \in NodeType(more, K0, V0)
    BY DEF Raw, Node, NodeType, PointersOf
  <2>2. \A p \in 0 .. more - 1 : A[p] = Raw
    BY <1>6
  <2> HIDE DEF K0, V0
  <2> QED BY <2>1, <2>2 DEF ArrayOf
<1>9. L.head \in NodeType(more, K0, V0) /\ L.tail \in NodeType(more, K0, V0)
  <2>1. PointersOf(cap) \subseteq PointersOf(more)
    BY DEF PointersOf, ArrayOf
  <2>2. L.head \in NodeType(cap, K0, V0) /\ L.tail \in NodeType(cap, K0, V0)
    BY <1>1 DEF ListType
  <2> HIDE DEF K0, V0
  <2> QED BY <2>1, <2>2 DEF NodeType
<1>10. U = [L EXCEPT !.node = A, !.capacity = more]
  BY <1>1 DEF Enlarged, ListType
<1> HIDE DEF A
<1>11. U \in ListType(more, K0, V0)
  <2>1. L.freeHead \in ArrayOf(more) \cup {Nil}
    BY <1>3
  <2>2. L.size \in Nat /\ L.freeSize \in Nat
    BY <1>1 DEF ListType
  <2>3. DOMAIN L = {"node", "head", "tail", "size", "capacity", "freeHead",
                    "freeSize"}
    BY <1>1 DEF ListType
  <2> HIDE DEF K0, V0
  <2> QED BY <2>1, <2>2, <1>1, <1>8, <1>9, <1>10 DEF ListType
<1>12. /\ U.head = L.head /\ U.tail = L.tail /\ U.size = L.size
       /\ U.freeHead = L.freeHead /\ U.freeSize = L.freeSize
  BY <1>1, <1>10 DEF ListType
<1>13. /\ U.head.next = TailNode /\ U.tail.prev = HeadNode
       /\ U.freeHead = Nil /\ U.freeSize = 0 /\ U.size = 0
  BY <1>2, <1>3, <1>5, <1>6, <1>7, <1>12
<1> HIDE DEF U
<1> QED BY <1>4, <1>11, <1>13, WholeBare DEF U

-----------------------------------------------------------------------------
(* Sequences along a thread                                                *)

\* What a function on the nodes gives along a thread.
Along(c, e, n) == [i \in 1 .. n |-> c[e[i]]]

LEMMA AlongIsSequence ==
  ASSUME NEW S, NEW c, NEW n \in Nat, NEW e, \A i \in 1 .. n : c[e[i]] \in S
  PROVE  /\ Along(c, e, n) \in Seq(S) /\ Len(Along(c, e, n)) = n
         /\ DOMAIN Along(c, e, n) = 1 .. n
         /\ \A i \in 1 .. n : Along(c, e, n)[i] = c[e[i]]
<1>1. Along(c, e, n) \in [1 .. n -> S]
  BY DEF Along
<1>2. \A i \in 1 .. n : Along(c, e, n)[i] = c[e[i]]
  BY DEF Along
<1> QED BY <1>1, <1>2, IsSequence

LEMMA AlongFront ==
  ASSUME NEW c, NEW n \in Nat, NEW e, NEW x
  PROVE  Along(c, Spliced(e, n, 0, x), n + 1) = <<c[x]>> \o Along(c, e, n)
<1> DEFINE S == {c[e[i]] : i \in 1 .. n} \cup {c[x]}
           s == Along(c, e, n)
           d == Spliced(e, n, 0, x)
           m == n + 1
           t == Along(c, d, m)
<1>0. c[x] \in S /\ \A i \in 1 .. n : c[e[i]] \in S
  OBVIOUS
<1> HIDE DEF S
<1>1. s \in Seq(S) /\ Len(s) = n /\ \A i \in 1 .. n : s[i] = c[e[i]]
  BY <1>0, AlongIsSequence
<1>2. d[1] = x /\ \A i \in 1 .. n + 1 : i # 1 => i - 1 \in 1 .. n /\ d[i] = e[i - 1]
  BY DEF Spliced
<1>3. m \in Nat /\ \A i \in 1 .. m : c[d[i]] \in S
  BY <1>0, <1>2
<1> HIDE DEF d, s, m
<1>4. t \in Seq(S) /\ Len(t) = m /\ \A i \in 1 .. m : t[i] = c[d[i]]
  <2>1. m \in Nat
    BY <1>3
  <2>2. \A i \in 1 .. m : c[d[i]] \in S
    BY <1>3
  <2> QED BY ONLY <2>1, <2>2, AlongIsSequence
<1> HIDE DEF t
<1>5. t \in Seq(S) /\ Len(t) = n + 1 /\ \A i \in 1 .. n + 1 : t[i] = c[d[i]]
  BY <1>4 DEF m
<1>6. <<c[x]>> \in Seq(S) /\ Len(<<c[x]>>) = 1 /\ <<c[x]>>[1] = c[x]
  BY <1>0
<1>7. /\ <<c[x]>> \o s \in Seq(S) /\ Len(<<c[x]>> \o s) = 1 + n
      /\ \A i \in 1 .. 1 + n :
           (<<c[x]>> \o s)[i] = IF i <= 1 THEN <<c[x]>>[i] ELSE s[i - 1]
  BY <1>1, <1>6, ConcatProperties
<1>8. ASSUME NEW i \in 1 .. n + 1
      PROVE  t[i] = (<<c[x]>> \o s)[i]
  <2>1. CASE i = 1
    BY <2>1, <1>2, <1>5, <1>6, <1>7
  <2>2. CASE i # 1
    <3>1. i - 1 \in 1 .. n /\ d[i] = e[i - 1] /\ ~(i <= 1) /\ i \in 1 .. 1 + n
      BY <2>2, <1>2
    <3> QED BY <3>1, <1>1, <1>5, <1>7
  <2> QED BY <2>1, <2>2
<1>9. Len(t) = Len(<<c[x]>> \o s) /\ \A i \in 1 .. Len(t) : t[i] = (<<c[x]>> \o s)[i]
  BY <1>5, <1>7, <1>8
<1>10. t = <<c[x]>> \o s
  BY <1>5, <1>7, <1>9, SeqEqual
<1> QED BY <1>10 DEF t, d, s, m

LEMMA AlongBack ==
  ASSUME NEW c, NEW n \in Nat, NEW e, NEW x
  PROVE  Along(c, Spliced(e, n, n, x), n + 1) = Append(Along(c, e, n), c[x])
<1> DEFINE S == {c[e[i]] : i \in 1 .. n} \cup {c[x]}
           s == Along(c, e, n)
           d == Spliced(e, n, n, x)
           m == n + 1
           t == Along(c, d, m)
<1>0. c[x] \in S /\ \A i \in 1 .. n : c[e[i]] \in S
  OBVIOUS
<1> HIDE DEF S
<1>1. s \in Seq(S) /\ Len(s) = n /\ \A i \in 1 .. n : s[i] = c[e[i]]
  BY <1>0, AlongIsSequence
<1>2. d[n + 1] = x /\ \A i \in 1 .. n + 1 : i # n + 1 => i \in 1 .. n /\ d[i] = e[i]
  BY DEF Spliced
<1>3. m \in Nat /\ \A i \in 1 .. m : c[d[i]] \in S
  BY <1>0, <1>2
<1> HIDE DEF d, s, m
<1>4. t \in Seq(S) /\ Len(t) = m /\ \A i \in 1 .. m : t[i] = c[d[i]]
  <2>1. m \in Nat
    BY <1>3
  <2>2. \A i \in 1 .. m : c[d[i]] \in S
    BY <1>3
  <2> QED BY ONLY <2>1, <2>2, AlongIsSequence
<1> HIDE DEF t
<1>5. t \in Seq(S) /\ Len(t) = n + 1 /\ \A i \in 1 .. n + 1 : t[i] = c[d[i]]
  BY <1>4 DEF m
<1>6. c[x] \in S
  BY <1>0
<1> DEFINE u == Append(s, c[x])
<1>7. /\ u \in Seq(S) /\ Len(u) = n + 1
      /\ \A i \in 1 .. n : u[i] = s[i]
      /\ u[n + 1] = c[x]
  BY <1>1, <1>6, AppendProperties
<1> HIDE DEF u
<1>8. ASSUME NEW i \in 1 .. n + 1
      PROVE  t[i] = u[i]
  <2>1. CASE i = n + 1
    BY <2>1, <1>2, <1>5, <1>7
  <2>2. CASE i # n + 1
    <3>1. i \in 1 .. n /\ d[i] = e[i]
      BY <2>2, <1>2
    <3> QED BY <3>1, <1>1, <1>5, <1>7
  <2> QED BY <2>1, <2>2
<1>9. Len(t) = Len(u) /\ \A i \in 1 .. Len(t) : t[i] = u[i]
  BY <1>5, <1>7, <1>8
<1>10. t = u
  BY <1>5, <1>7, <1>9, SeqEqual
<1> QED BY <1>10 DEF t, d, s, u, m

LEMMA AlongDropped ==
  ASSUME NEW c, NEW n \in Nat, NEW e, NEW p \in 1 .. n
  PROVE  Along(c, Dropped(e, n, p), n - 1)
           = [i \in 1 .. n - 1 |-> IF i < p THEN Along(c, e, n)[i]
                                   ELSE Along(c, e, n)[i + 1]]
<1> DEFINE d == Dropped(e, n, p)
           s == Along(c, e, n)
<1>1. ASSUME NEW i \in 1 .. n - 1
      PROVE  c[d[i]] = IF i < p THEN s[i] ELSE s[i + 1]
  <2>1. i \in 0 .. n /\ i \in 1 .. n /\ i + 1 \in 1 .. n
    OBVIOUS
  <2>2. d[i] = IF i < p THEN e[i] ELSE e[i + 1]
    BY <2>1 DEF Dropped
  <2>3. s[i] = c[e[i]] /\ s[i + 1] = c[e[i + 1]]
    BY <2>1 DEF Along
  <2> HIDE DEF d, s
  <2> QED BY <2>2, <2>3
<1>2. Along(c, d, n - 1) = [i \in 1 .. n - 1 |-> c[d[i]]]
  BY DEF Along
<1> HIDE DEF d, s
<1>3. Along(c, d, n - 1) = [i \in 1 .. n - 1 |-> IF i < p THEN s[i] ELSE s[i + 1]]
  BY <1>1, <1>2
<1> QED BY <1>3 DEF d, s

LEMMA AlongSame ==
  ASSUME NEW c, NEW b, NEW n \in Nat, NEW e,
         \A y \in NodesOf(e, n) : c[y] = b[y]
  PROVE  Along(c, e, n) = Along(b, e, n)
<1>1. \A i \in 1 .. n : c[e[i]] = b[e[i]]
  BY DEF NodesOf
<1> QED BY <1>1 DEF Along

-----------------------------------------------------------------------------
(* A node moves to the front (move_to_front)                               *)

Fronted(e, n, p) == Spliced(Dropped(e, n, p), n - 1, 0, e[p])

LEMMA WholeFronted ==
  ASSUME NEW cap \in Nat, NEW K, NEW V, NEW L, NEW n, NEW e, NEW m, NEW f,
         NEW loose, Whole(L, cap, K, V, n, e, m, f, loose),
         NEW p \in 1 .. n, NEW U, U = move_to_front(L, e[p])
  PROVE  /\ Whole(U, cap, K, V, n, Fronted(e, n, p), m, f, loose)
         /\ SameButLinks(U, L)
<1> DEFINE x == e[p]
           W == Unlink(L, x)
           l == n - 1
           d == Dropped(e, n, p)
           wide == loose \cup {x}
<1>1. n \in Nat /\ l \in Nat /\ l + 1 = n
  BY DEF Whole, Thread
<1>2. Whole(W, cap, K, V, l, d, m, f, wide) /\ SameButLinks(W, L)
  <2> HIDE DEF W
  <2>1. W = Unlink(L, e[p])
    BY DEF W
  <2>2. /\ Whole(W, cap, K, V, n - 1, Dropped(e, n, p), m, f, loose \cup {e[p]})
        /\ SameButLinks(W, L)
    BY <2>1, WholeUnlinked
  <2> QED BY <2>2
<1>3. x \in wide /\ wide \ {x} = loose
  <2>1. x \in NodesOf(e, n)
    BY DEF NodesOf
  <2>2. x \notin loose
    BY <2>1 DEF Whole, Separate
  <2> QED BY <2>2
<1>4. 0 \in 0 .. l
  BY <1>1
<1> HIDE DEF W, l, d, wide
<1>5. U = LinkBetween(W, x, d[0], d[0 + 1])
  BY <1>1, <1>2, WholeEnds DEF move_to_front, W
<1>6. /\ Whole(U, cap, K, V, l + 1, Spliced(d, l, 0, x), m, f, wide \ {x})
      /\ SameButLinks(U, W)
  BY <1>2, <1>3, <1>4, <1>5, WholeLinked
<1>7. Whole(U, cap, K, V, n, Spliced(d, l, 0, x), m, f, loose)
  BY <1>1, <1>3, <1>6
<1>8. DOMAIN L.node = ArrayOf(cap) /\ DOMAIN W.node = ArrayOf(cap)
  BY <1>2 DEF Whole, ListType
<1>9. SameButLinks(U, L)
  BY <1>2, <1>6, <1>8 DEF SameButLinks
<1> QED BY <1>7, <1>9 DEF Fronted, l, d
=============================================================================
