------------------------- MODULE DictionaryExProofs -------------------------
(***************************************************************************)
(* Theorems about DictionaryEx, for all keys, hashes and capacities.  Its  *)
(* chains run through several arrays.  The invariant names the entries     *)
(* stored, the entries erased, and a rank that grows along every chain; a  *)
(* search in progress has passed no entry of its key.                      *)
(***************************************************************************)
EXTENDS DictionaryEx, PointersProofs

-----------------------------------------------------------------------------
(* Chains                                                                  *)

\* p is the first entry of S, or Null if there is none: r says how far from
\* the head an entry is.
First(p, S, r) ==
  IF S = {} THEN p = Null ELSE p \in S /\ \A q \in S \ {p} : r[p] < r[q]

\* The entries of L behind s.
Behind(s, L, r) == {q \in L : r[s] < r[q]}

\* From h, the pointers `next` lead through the entries L and no others, those
\* nearer to the head first.
ChainOf(h, next, L, r) ==
  /\ First(h, L, r)
  /\ \A s \in L : First(next[s], Behind(s, L, r), r)
  /\ \A p, q \in L : r[p] = r[q] => p = q

\* Two ranks order a set the same way.
Alike(r, q, L) == \A x, y \in L : r[x] < r[y] <=> q[x] < q[y]

\* The first entry is the same for ranks that order alike.
LEMMA FirstAlike ==
  ASSUME NEW p, NEW L, NEW S \in SUBSET L, NEW r, NEW q, Alike(r, q, L),
         First(p, S, r)
  PROVE  First(p, S, q)
BY DEF First, Alike

\* The empty chain.
LEMMA ChainOfNone == ASSUME NEW next, NEW r PROVE ChainOf(Null, next, {}, r)
BY DEF ChainOf, First

\* What is done elsewhere leaves a chain as it is.
LEMMA ChainStays ==
  ASSUME NEW L, NEW h, NEW next, NEW next2, NEW r, NEW q,
         \A x \in L : r[x] \in Nat /\ q[x] \in Nat, Alike(r, q, L),
         \A s \in L : next2[s] = next[s],
         ChainOf(h, next, L, r)
  PROVE  ChainOf(h, next2, L, q)
<1>1. First(h, L, q)
  BY FirstAlike DEF ChainOf
<1>2. ASSUME NEW s \in L
      PROVE  First(next2[s], Behind(s, L, q), q)
  <2>1. Behind(s, L, q) = Behind(s, L, r)
    BY DEF Behind, Alike
  <2>2. First(next2[s], Behind(s, L, r), r)
    BY DEF ChainOf
  <2>3. Behind(s, L, r) \in SUBSET L
    BY DEF Behind
  <2> QED BY <2>1, <2>2, <2>3, FirstAlike
<1>3. ASSUME NEW x \in L, NEW y \in L, q[x] = q[y]
      PROVE  x = y
  <2>1. ~(r[x] < r[y]) /\ ~(r[y] < r[x])
    BY <1>3 DEF Alike
  <2>2. r[x] = r[y]
    BY <2>1
  <2> QED BY <2>2 DEF ChainOf
<1> QED BY <1>1, <1>2, <1>3 DEF ChainOf

\* An entry is put in front of a chain.
LEMMA ChainInFront ==
  ASSUME NEW L, NEW h, NEW next, NEW next2, NEW r, NEW q, NEW p, p \notin L,
         \A x \in L : r[x] \in Nat, \A x \in L \cup {p} : q[x] \in Nat,
         Alike(r, q, L),
         \A x \in L : q[p] < q[x],
         \A s \in L : next2[s] = next[s], next2[p] = h,
         ChainOf(h, next, L, r)
  PROVE  ChainOf(p, next2, L \cup {p}, q)
<1>1. ChainOf(h, next2, L, q)
  BY ChainStays
<1>2. First(p, L \cup {p}, q)
  BY DEF First
<1>3. ASSUME NEW s \in L \cup {p}
      PROVE  First(next2[s], Behind(s, L \cup {p}, q), q)
  <2>1. CASE s = p
    <3>1. Behind(s, L \cup {p}, q) = L
      BY <2>1 DEF Behind
    <3> QED BY <2>1, <3>1, <1>1 DEF ChainOf
  <2>2. CASE s \in L
    <3>1. Behind(s, L \cup {p}, q) = Behind(s, L, q)
      BY <2>2 DEF Behind
    <3> QED BY <2>2, <3>1, <1>1 DEF ChainOf
  <2> QED BY <2>1, <2>2
<1>4. ASSUME NEW x \in L \cup {p}, NEW y \in L \cup {p}, q[x] = q[y]
      PROVE  x = y
  BY <1>1, <1>4 DEF ChainOf
<1> QED BY <1>2, <1>3, <1>4 DEF ChainOf

\* The first entry of a chain is taken out.
LEMMA ChainLessFirst ==
  ASSUME NEW L, NEW h, NEW next, NEW r, \A x \in L : r[x] \in Nat, L # {},
         ChainOf(h, next, L, r)
  PROVE  h \in L /\ ChainOf(next[h], next, L \ {h}, r)
<1>1. h \in L /\ \A x \in L \ {h} : r[h] < r[x]
  BY DEF ChainOf, First
<1>2. Behind(h, L, r) = L \ {h}
  BY <1>1 DEF Behind
<1>3. \A s \in L \ {h} : Behind(s, L \ {h}, r) = Behind(s, L, r)
  BY <1>1 DEF Behind
<1> QED BY <1>1, <1>2, <1>3 DEF ChainOf

\* An entry further down is taken out: the one before it, b, takes over its
\* pointer.
LEMMA ChainWithout ==
  ASSUME NEW L, NEW h, NEW next, NEW next2, NEW r, \A x \in L : r[x] \in Nat,
         NEW b \in L, NEW p \in L, next[b] = p, next2[b] = next[p],
         \A s \in L \ {b, p} : next2[s] = next[s],
         p # Null,
         ChainOf(h, next, L, r)
  PROVE  ChainOf(h, next2, L \ {p}, r)
<1>1. r[b] < r[p] /\ \A q \in L : r[b] < r[q] /\ q # p => r[p] < r[q]
  <2>1. First(p, Behind(b, L, r), r)
    BY DEF ChainOf
  <2> QED BY <2>1 DEF First, Behind
<1>2. First(h, L \ {p}, r)
  <2>1. h \in L /\ \A x \in L \ {h} : r[h] < r[x]
    BY DEF ChainOf, First
  <2>2. h # p
    BY <1>1, <2>1
  <2> QED BY <2>1, <2>2 DEF First
<1>3. ASSUME NEW s \in L \ {p}
      PROVE  First(next2[s], Behind(s, L \ {p}, r), r)
  <2>1. CASE s = b
    <3>1. Behind(s, L \ {p}, r) = Behind(p, L, r)
      BY <1>1, <2>1 DEF Behind
    <3> QED BY <2>1, <3>1 DEF ChainOf
  <2>2. CASE s # b
    <3>1. First(next[s], Behind(s, L, r), r) /\ next2[s] = next[s]
      BY <2>2 DEF ChainOf
    <3>2. Behind(s, L \ {p}, r) = Behind(s, L, r) \ {p}
      BY DEF Behind
    <3>3. CASE p \notin Behind(s, L, r)
      BY <3>1, <3>2, <3>3
    <3>4. CASE p \in Behind(s, L, r)
      <4>1. r[s] < r[p]
        BY <3>4 DEF Behind
      <4>2. ~(r[b] < r[s])
        BY <1>1, <4>1
      <4>3. r[s] < r[b]
        BY <2>2, <4>2 DEF ChainOf
      <4>4. b \in Behind(s, L, r) \ {p}
        BY <1>1, <4>3 DEF Behind
      <4>5. next[s] # p
        BY <3>1, <1>1, <4>4 DEF First, Behind
      <4> QED BY <3>1, <3>2, <4>4, <4>5 DEF First
    <3> QED BY <3>3, <3>4
  <2> QED BY <2>1, <2>2
<1> QED BY <1>2, <1>3 DEF ChainOf

-----------------------------------------------------------------------------
(* Listings                                                                *)

\* s lists each element of S once.
Listing(s, S) ==
  /\ s \in Seq(S) /\ Len(s) = Cardinality(S)
  /\ \A i, j \in 1 .. Len(s) : s[i] = s[j] => i = j
  /\ \A x \in S : \E i \in 1 .. Len(s) : s[i] = x

\* Listings of nothing, of one entry, and of two sets one after the other.
LEMMA ListingOfNone == Listing(<<>>, {})
<1>1. Cardinality({}) = 0
  BY FS_EmptySet
<1> QED BY <1>1 DEF Listing

LEMMA ListingOfOne == ASSUME NEW x PROVE Listing(<<x>>, {x})
<1>1. Cardinality({x}) = 1
  BY FS_Singleton
<1> QED BY <1>1 DEF Listing

LEMMA ListingJoined ==
  ASSUME NEW A, NEW B, IsFiniteSet(A), IsFiniteSet(B), A \cap B = {},
         NEW s, NEW t, Listing(s, A), Listing(t, B)
  PROVE  Listing(s \o t, A \cup B)
<1> DEFINE m == Len(s)
           n == Len(t)
           u == s \o t
<1>1. s \in Seq(A) /\ t \in Seq(B) /\ m \in Nat /\ n \in Nat
  BY LenProperties DEF Listing
<1>2. Cardinality(A \cup B) = Cardinality(A) + Cardinality(B)
  <2>1. Cardinality(A \cap B) = 0
    BY FS_EmptySet
  <2>2. Cardinality(A \cup B) = Cardinality(A) + Cardinality(B) - Cardinality(A \cap B)
    BY FS_Union
  <2>3. Cardinality(A) \in Nat /\ Cardinality(B) \in Nat
    BY FS_CardinalityType
  <2> QED BY ONLY <2>1, <2>2, <2>3
<1>3. u \in Seq(A \cup B) /\ Len(u) = m + n
  BY <1>1
<1>4. Len(u) = Cardinality(A \cup B)
  BY <1>2, <1>3 DEF Listing
<1>5. \A i \in 1 .. m + n : u[i] = IF i <= m THEN s[i] ELSE t[i - m]
  BY <1>1
<1>6. \A i \in 1 .. m : s[i] \in A
  BY <1>1
<1>7. \A i \in 1 .. n : t[i] \in B
  BY <1>1
<1> HIDE DEF u, m, n
<1>8. ASSUME NEW i \in 1 .. m + n, NEW j \in 1 .. m + n, u[i] = u[j]
      PROVE  i = j
  <2>1. CASE i <= m /\ j <= m
    BY <2>1, <1>1, <1>5, <1>8 DEF Listing, m
  <2>2. CASE i > m /\ j > m
    <3>1. i - m \in 1 .. n /\ j - m \in 1 .. n
      BY <2>2, <1>1
    <3>2. t[i - m] = t[j - m]
      BY <2>2, <1>1, <1>5, <1>8
    <3>3. i - m = j - m
      BY <3>1, <3>2 DEF Listing, n
    <3> QED BY <3>3, <1>1
  <2>3. CASE i <= m /\ j > m
    <3>1. u[i] \in A /\ u[j] \in B
      BY <2>3, <1>1, <1>5, <1>6, <1>7
    <3> QED BY <3>1, <1>8
  <2>4. CASE i > m /\ j <= m
    <3>1. u[i] \in B /\ u[j] \in A
      BY <2>4, <1>1, <1>5, <1>6, <1>7
    <3> QED BY <3>1, <1>8
  <2> QED BY <2>1, <2>2, <2>3, <2>4, <1>1
<1>9. ASSUME NEW x \in A \cup B
      PROVE  \E i \in 1 .. m + n : u[i] = x
  <2>1. CASE x \in A
    <3>1. PICK i \in 1 .. m : s[i] = x
      BY <2>1 DEF Listing, m
    <3> QED BY <3>1, <1>1, <1>5
  <2>2. CASE x \in B
    <3>1. PICK i \in 1 .. n : t[i] = x
      BY <2>2 DEF Listing, n
    <3>2. i + m \in 1 .. m + n /\ ~(i + m <= m) /\ (i + m) - m = i
      BY <1>1
    <3>3. u[i + m] = x
      BY <3>1, <3>2, <1>5
    <3> QED BY <3>2, <3>3
  <2> QED BY <2>1, <2>2
<1> QED BY <1>3, <1>4, <1>8, <1>9 DEF Listing, u

\* What is listed.
LEMMA ListingSet ==
  ASSUME NEW S, NEW s, Listing(s, S)
  PROVE  SetOf(s) = S /\ DOMAIN s = 1 .. Len(s) /\ Len(s) \in Nat
<1>1. s \in Seq(S)
  BY DEF Listing
<1>2. DOMAIN s = 1 .. Len(s) /\ Len(s) \in Nat /\ \A i \in 1 .. Len(s) : s[i] \in S
  BY <1>1
<1> QED BY <1>2 DEF Listing, SetOf

\* A walk lists the entries of a chain.
Walking(walk, next, D) ==
  \A n \in Nat : \A q \in D \cup {Null} :
    walk[n][q] = IF n = 0 \/ q = Null THEN <<>> ELSE <<q>> \o walk[n - 1][next[q]]

\* A walk longer than the chain lists it.
LEMMA WalkLists ==
  ASSUME NEW D, NEW walk, NEW next, NEW r, Walking(walk, next, D), Null \notin D,
         \A x \in D : r[x] \in Nat,
         NEW L \in SUBSET D, IsFiniteSet(L), NEW h, ChainOf(h, next, L, r),
         NEW n \in Nat, Cardinality(L) < n
  PROVE  Listing(walk[n][h], L)
<1> DEFINE Fine(m) ==
      \A S \in SUBSET D : \A p \in D \cup {Null} :
        IsFiniteSet(S) /\ Cardinality(S) < m /\ ChainOf(p, next, S, r)
          => Listing(walk[m][p], S)
    Filed == {m \in Nat : Fine(m)}
<1>1. 0 \in Filed
  <2>1. \A S \in SUBSET D : IsFiniteSet(S) => ~(Cardinality(S) < 0)
    BY FS_CardinalityType
  <2> QED BY <2>1
<1>2. ASSUME NEW m \in Nat, m \in Filed
      PROVE  m + 1 \in Filed
  <2> SUFFICES ASSUME NEW S \in SUBSET D, NEW p \in D \cup {Null},
                      IsFiniteSet(S), Cardinality(S) < m + 1, ChainOf(p, next, S, r)
               PROVE  Listing(walk[m + 1][p], S)
    OBVIOUS
  <2>1. m + 1 \in Nat /\ m + 1 # 0 /\ (m + 1) - 1 = m
    OBVIOUS
  <2>2. walk[m + 1][p] = IF p = Null THEN <<>> ELSE <<p>> \o walk[m][next[p]]
    BY <2>1 DEF Walking
  <2>3. CASE S = {}
    <3>1. p = Null
      BY <2>3 DEF ChainOf, First
    <3> QED BY <2>2, <2>3, <3>1, ListingOfNone
  <2>4. CASE S # {}
    <3>1. p \in S /\ ChainOf(next[p], next, S \ {p}, r)
      BY <2>4, ChainLessFirst
    <3>2. IsFiniteSet(S \ {p}) /\ Cardinality(S \ {p}) = Cardinality(S) - 1
      BY <3>1, FS_RemoveElement
    <3>3. Cardinality(S \ {p}) < m
      BY <3>2, FS_CardinalityType
    <3>4. next[p] \in D \cup {Null}
      BY <3>1 DEF ChainOf, First
    <3>5. Listing(walk[m][next[p]], S \ {p})
      BY <1>2, <3>1, <3>2, <3>3, <3>4
    <3>6. Listing(<<p>>, {p}) /\ IsFiniteSet({p}) /\ {p} \cap (S \ {p}) = {}
      BY ListingOfOne, FS_Singleton
    <3>7. Listing(<<p>> \o walk[m][next[p]], {p} \cup (S \ {p}))
      BY <3>2, <3>5, <3>6, ListingJoined
    <3>8. {p} \cup (S \ {p}) = S /\ p # Null
      BY <3>1
    <3> QED BY <2>2, <3>7, <3>8
  <2> QED BY <2>3, <2>4
<1> HIDE DEF Filed
<1>3. Nat \subseteq Filed
  BY <1>1, <1>2, SetInduction
<1>4. Fine(n)
  BY <1>3 DEF Filed
<1>5. h \in D \cup {Null}
  BY DEF ChainOf, First
<1> QED BY <1>4, <1>5
-----------------------------------------------------------------------------
(* Listings one after the other                                            *)

\* Everything in the parts below b.
Below(part, b) == {x \in UNION {part[i] : i \in DOMAIN part} : \E i \in DOMAIN part : i < b /\ x \in part[i]}

\* The listings of disjoint parts, joined, list everything.
LEMMA ListingOfAll ==
  ASSUME NEW cap \in Nat, NEW path, NEW part, NEW upTo, DOMAIN part = 0 .. cap - 1,
         upTo = [b \in 0 .. cap |->
                   IF b = 0 THEN <<>> ELSE upTo[b - 1] \o path[b - 1]],
         \A b \in 0 .. cap - 1 : IsFiniteSet(part[b]) /\ Listing(path[b], part[b]),
         \A a, b \in 0 .. cap - 1 : a # b => part[a] \cap part[b] = {}
  PROVE  /\ Listing(upTo[cap], UNION {part[b] : b \in 0 .. cap - 1})
         /\ IsFiniteSet(UNION {part[b] : b \in 0 .. cap - 1})
<1> DEFINE Fine(b) == Listing(upTo[b], Below(part, b)) /\ IsFiniteSet(Below(part, b))
           Filed == {b \in Nat : b <= cap => Fine(b)}
<1>1. 0 \in Filed
  <2>1. Below(part, 0) = {}
    BY DEF Below
  <2>2. upTo[0] = <<>>
    OBVIOUS
  <2> QED BY <2>1, <2>2, ListingOfNone, FS_EmptySet
<1>2. ASSUME NEW b \in Nat, b \in Filed
      PROVE  b + 1 \in Filed
  <2> SUFFICES ASSUME b + 1 <= cap
               PROVE  Fine(b + 1)
    OBVIOUS
  <2>1. b + 1 \in 0 .. cap /\ b + 1 # 0 /\ (b + 1) - 1 = b /\ b \in 0 .. cap - 1
    OBVIOUS
  <2>2. upTo[b + 1] = upTo[b] \o path[b]
    BY <2>1
  <2>3. Below(part, b + 1) = Below(part, b) \cup part[b]
    BY <2>1 DEF Below
  <2>4. Below(part, b) \cap part[b] = {}
    BY <2>1 DEF Below
  <2>5. Fine(b)
    BY <1>2, <2>1
  <2>6. IsFiniteSet(part[b]) /\ Listing(path[b], part[b])
    BY <2>1
  <2>7. Listing(upTo[b] \o path[b], Below(part, b) \cup part[b])
    BY <2>4, <2>5, <2>6, ListingJoined
  <2>8. IsFiniteSet(Below(part, b) \cup part[b])
    BY <2>5, <2>6, FS_Union
  <2> QED BY <2>2, <2>3, <2>7, <2>8
<1> HIDE DEF Filed
<1>3. Nat \subseteq Filed
  BY <1>1, <1>2, SetInduction
<1>4. Fine(cap)
  <2>1. cap \in Filed
    BY <1>3
  <2> QED BY <2>1 DEF Filed
<1>5. Below(part, cap) = UNION {part[b] : b \in 0 .. cap - 1}
  BY DEF Below
<1> QED BY <1>4, <1>5

\* What is defined by a value and a step from each to the next exists.
LEMMA UpToExists ==
  ASSUME NEW cap \in Nat, NEW X, NEW path, \A b \in 0 .. cap - 1 : path[b] \in Seq(X)
  PROVE  \E u : u = [b \in 0 .. cap |-> IF b = 0 THEN <<>> ELSE u[b - 1] \o path[b - 1]]
<1> DEFINE step == [i \in 1 .. cap |-> [s \in Seq(X) |-> s \o path[i - 1]]]
           Q == Seq(X)
           first == <<>>
<1>1. \A i \in 1 .. cap : step[i] \in [Seq(X) -> Seq(X)] /\ i - 1 \in 0 .. cap - 1
  <2> SUFFICES ASSUME NEW i \in 1 .. cap
               PROVE  step[i] \in [Seq(X) -> Seq(X)]
    OBVIOUS
  <2>1. path[i - 1] \in Seq(X)
    OBVIOUS
  <2>2. \A s \in Seq(X) : s \o path[i - 1] \in Seq(X)
    BY <2>1
  <2> QED BY <2>2
<1>2. step \in [1 .. cap -> [Seq(X) -> Seq(X)]] /\ <<>> \in Seq(X)
  BY <1>1
<1>3. \A i \in 1 .. cap : \A s \in Seq(X) : step[i][s] = s \o path[i - 1]
  OBVIOUS
<1> HIDE DEF step
<1>4. PICK h \in [0 .. cap -> Seq(X)] :
        h[0] = <<>> /\ \A i \in 1 .. cap : h[i] = step[i][h[i - 1]]
  <2>1. step \in [1 .. cap -> [Q -> Q]] /\ first \in Q
    BY <1>2
  <2> HIDE DEF Q, first
  <2>2. \E h \in [0 .. cap -> Q] : h[0] = first /\ \A i \in 1 .. cap : h[i] = step[i][h[i - 1]]
    BY ONLY <2>1, cap \in Nat, StepByStep
  <2> QED BY <2>2 DEF Q, first
<1>5. ASSUME NEW b \in 0 .. cap
      PROVE  h[b] = IF b = 0 THEN <<>> ELSE h[b - 1] \o path[b - 1]
  <2>1. CASE b = 0
    BY <2>1, <1>4
  <2>2. CASE b # 0
    <3>1. b \in 1 .. cap /\ b - 1 \in 0 .. cap
      BY <2>2
    <3> QED BY <2>2, <3>1, <1>3, <1>4
  <2> QED BY <2>1, <2>2
<1>6. h = [b \in 0 .. cap |-> h[b]]
  OBVIOUS
<1> QED BY <1>5, <1>6

\* The walk exists.
WalksBy(w, next, D) ==
  w = [n \in Nat |-> [q \in D \cup {Null} |->
         IF n = 0 \/ q = Null THEN <<>> ELSE <<q>> \o w[n - 1][next[q]]]]

\* There is a function that walks as Path does.
LEMMA WalkExists ==
  ASSUME NEW D, NEW next, \A q \in D : next[q] \in D \cup {Null}, Null \notin D
  PROVE  \E w : WalksBy(w, next, D)
<1> DEFINE P == D \cup {Null}
           S == [P -> Seq(D)]
           step == [f \in S |-> [q \in P |-> IF q = Null THEN <<>>
                                             ELSE <<q>> \o f[next[q]]]]
           none == [q \in P |-> <<>>]
<1>1. step \in [S -> S] /\ none \in S
  <2>1. ASSUME NEW f \in S
        PROVE  step[f] \in S
    <3>1. ASSUME NEW q \in P, q # Null
          PROVE  <<q>> \o f[next[q]] \in Seq(D)
      <4>1. f[next[q]] \in Seq(D) /\ <<q>> \in Seq(D)
        BY <3>1
      <4> QED BY <4>1
    <3> QED BY <3>1
  <2> QED BY <2>1
<1>2. \A f \in S : step[f] = [q \in P |-> IF q = Null THEN <<>> ELSE <<q>> \o f[next[q]]]
  OBVIOUS
<1>3. \A q \in P : none[q] = <<>>
  OBVIOUS
<1>4. none = [q \in P |-> <<>>]
  OBVIOUS
<1> HIDE DEF step, none, S
<1>5. PICK g \in [Nat -> S] : g[0] = none /\ \A n \in Nat : g[n + 1] = step[g[n]]
  BY ONLY <1>1, Recursion
<1> HIDE DEF P
<1>6. ASSUME NEW n \in Nat
      PROVE  g[n] = [q \in P |-> IF n = 0 \/ q = Null THEN <<>>
                                 ELSE <<q>> \o g[n - 1][next[q]]]
  <2>1. CASE n = 0
    BY <2>1, <1>4, <1>5
  <2>2. CASE n # 0
    <3>1. n - 1 \in Nat /\ (n - 1) + 1 = n
      BY <2>2
    <3>2. g[n] = step[g[n - 1]] /\ g[n - 1] \in S
      BY <3>1, <1>5
    <3>3. g[n] = [q \in P |-> IF q = Null THEN <<>> ELSE <<q>> \o g[n - 1][next[q]]]
      BY <3>2, <1>2
    <3> QED BY <2>2, <3>3
  <2> QED BY <2>1, <2>2
<1>7. g = [n \in Nat |-> g[n]]
  BY <1>5
<1>8. g = [n \in Nat |-> [q \in P |-> IF n = 0 \/ q = Null THEN <<>>
                                      ELSE <<q>> \o g[n - 1][next[q]]]]
  BY <1>6, <1>7
<1> QED BY <1>8 DEF P, WalksBy

-----------------------------------------------------------------------------
(* Relinking                                                               *)

\* The last of the entries seq[1 .. n] that belong to S.
Last(seq, S, n) ==
  LET mine == {i \in 1 .. n : seq[i] \in S}
  IN  IF mine = {} THEN Null
      ELSE seq[CHOOSE i \in mine : \A j \in mine : j <= i]

\* A bounded set of numbers that is not empty has a greatest element.
LEMMA Greatest ==
  ASSUME NEW n \in Nat, NEW S \in SUBSET (1 .. n), S # {}
  PROVE  \E i \in S : \A j \in S : j <= i
<1> DEFINE T == {n - i : i \in S}
<1>1. T \in SUBSET Nat /\ T # {}
  <2>1. \A i \in S : i \in Int /\ i <= n
    OBVIOUS
  <2>2. \A i \in S : n - i \in Nat
    BY <2>1
  <2>3. PICK i \in S : TRUE
    OBVIOUS
  <2>4. n - i \in T
    BY <2>3
  <2> QED BY <2>2, <2>4
<1>2. PICK x \in T : \A y \in T : x <= y
  <2> HIDE DEF T
  <2> QED BY <1>1, LeastElement
<1>3. PICK i \in S : x = n - i
  BY <1>2
<1>4. \A j \in S : n - j \in T
  OBVIOUS
<1>5. \A j \in S : n - i <= n - j
  BY <1>2, <1>3, <1>4
<1> QED BY <1>5

\* What Last returns.
LEMMA LastIs ==
  ASSUME NEW seq, NEW S, NEW n \in Nat
  PROVE  \/ (\A i \in 1 .. n : seq[i] \notin S) /\ Last(seq, S, n) = Null
         \/ \E i \in 1 .. n : /\ seq[i] \in S /\ Last(seq, S, n) = seq[i]
                              /\ \A j \in 1 .. n : seq[j] \in S => j <= i
<1> DEFINE mine == {i \in 1 .. n : seq[i] \in S}
           m == CHOOSE i \in mine : \A j \in mine : j <= i
<1>1. CASE mine = {}
  BY <1>1 DEF Last
<1>2. CASE mine # {}
  <2>1. m \in mine /\ \A j \in mine : j <= m
    <3>1. mine \in SUBSET (1 .. n)
      OBVIOUS
    <3>2. \E i \in mine : \A j \in mine : j <= i
      <4> HIDE DEF mine
      <4> QED BY <1>2, <3>1, Greatest
    <3> QED BY <3>2
  <2>2. Last(seq, S, n) = seq[m]
    BY <1>2 DEF Last
  <2> HIDE DEF m
  <2> QED BY <2>1, <2>2
<1> QED BY <1>1, <1>2

\* Entries pushed one after the other, each in front of those before it.
LEMMA RelinkedChain ==
  ASSUME NEW L, NEW seq, Listing(seq, L), NEW S \in SUBSET L,
         NEW place, \A x \in L : place[x] \in 1 .. Len(seq) /\ seq[place[x]] = x,
         NEW q, \A x \in L : q[x] = Len(seq) - place[x],
         NEW next, \A x \in S : next[x] = Last(seq, S, place[x] - 1)
  PROVE  ChainOf(Last(seq, S, Len(seq)), next, S, q)
<1> DEFINE n == Len(seq)
           Upto(m) == {x \in S : place[x] <= m}
<1>1. n \in Nat /\ \A i \in 1 .. n : seq[i] \in L
  <2>1. seq \in Seq(L)
    BY DEF Listing
  <2> QED BY <2>1
<1>2. \A i \in 1 .. n : place[seq[i]] = i
  BY <1>1 DEF Listing
<1>3. \A x, y \in L : place[x] = place[y] => x = y
  OBVIOUS
<1> HIDE DEF n
<1>4. \A x \in L : place[x] \in 1 .. n /\ seq[place[x]] = x /\ q[x] = n - place[x]
  BY DEF n
<1>5. ASSUME NEW m \in Nat, m <= n
      PROVE  First(Last(seq, S, m), Upto(m), q)
  <2>1. CASE \A i \in 1 .. m : seq[i] \notin S
    <3>1. Upto(m) = {}
      BY <2>1, <1>4
    <3>2. Last(seq, S, m) = Null
      BY <2>1, LastIs
    <3> QED BY <3>1, <3>2 DEF First
  <2>2. CASE \E i \in 1 .. m : seq[i] \in S
    <3>1. PICK i \in 1 .. m : /\ seq[i] \in S /\ Last(seq, S, m) = seq[i]
                              /\ \A j \in 1 .. m : seq[j] \in S => j <= i
      BY <2>2, LastIs
    <3>2. i \in 1 .. n /\ place[seq[i]] = i
      BY <3>1, <1>1, <1>2, <1>5
    <3>3. seq[i] \in Upto(m)
      BY <3>1, <3>2
    <3>4. ASSUME NEW x \in Upto(m) \ {seq[i]}
          PROVE  q[seq[i]] < q[x]
      <4>1. x \in S /\ x \in L /\ place[x] \in 1 .. m /\ seq[place[x]] = x
        BY <1>4
      <4>2. place[x] <= i /\ place[x] # i
        BY <4>1, <3>1
      <4> QED BY <4>1, <4>2, <3>1, <3>2, <1>1, <1>4
    <3> QED BY <3>1, <3>3, <3>4 DEF First
  <2> QED BY <2>1, <2>2
<1>6. First(Last(seq, S, n), S, q)
  <2>1. Upto(n) = S
    BY <1>1, <1>4
  <2> QED BY <2>1, <1>1, <1>5
<1>7. ASSUME NEW x \in S
      PROVE  First(next[x], Behind(x, S, q), q)
  <2>1. place[x] - 1 \in Nat /\ place[x] - 1 <= n
    BY <1>1, <1>4
  <2>2. Behind(x, S, q) = Upto(place[x] - 1)
    BY <1>1, <1>4 DEF Behind
  <2> QED BY <2>1, <2>2, <1>5
<1>8. ASSUME NEW x \in S, NEW y \in S, q[x] = q[y]
      PROVE  x = y
  BY <1>1, <1>3, <1>4, <1>8
<1> QED BY <1>6, <1>7, <1>8 DEF ChainOf, n
-----------------------------------------------------------------------------
(* The invariant                                                           *)

EntryIn(D) == [hash : Nat \cup {kInvalidHash}, key : Keys \cup {None},
               val : Vals \cup {None}, next : D \cup {Null}]
Nexts(e) == [p \in DOMAIN e |-> e[p].next]

\* The arrays ar was allocated last, with cap entries like the buckets.
Shape(bs, e, ar, cap, n) ==
  /\ cap \in Nat \ {0} /\ ar \in Nat \ {0} /\ n \in 0 .. cap
  /\ IsFiniteSet(DOMAIN e)
  /\ DOMAIN e \subseteq (1 .. ar) \X Nat
  /\ {ar} \X (0 .. cap - 1) \subseteq DOMAIN e
  /\ e \in [DOMAIN e -> EntryIn(DOMAIN e)]
  /\ bs \in [0 .. cap - 1 -> DOMAIN e \cup {Null}]

Own(e, cap, L, b) == {p \in L : index_of(e[p].hash, cap) = b}

\* L are the entries stored, F those erased; r orders the chains.
Sound(bs, e, ar, cap, n, fr, L, F, r) ==
  /\ Shape(bs, e, ar, cap, n)
  /\ L \subseteq DOMAIN e /\ F \subseteq DOMAIN e /\ L \cap F = {}
  /\ ({ar} \X (n .. cap - 1)) \cap (L \cup F) = {}
  /\ r \in [DOMAIN e -> Nat]
  /\ \A p \in L : /\ e[p].key \in Keys /\ e[p].val \in Vals
                  /\ e[p].hash = Hash[e[p].key]
  /\ \A p, q \in L : e[p].key = e[q].key => p = q
  /\ \A b \in 0 .. cap - 1 : ChainOf(bs[b], Nexts(e), Own(e, cap, L, b), r)
  /\ ChainOf(fr.head, Nexts(e), F, r) /\ fr.size = Cardinality(F)

\* A call in progress has passed no entry of its key, and stands behind
\* the entry `before`.
Searching(bs, e, cap, c, L, r) ==
  \/ c = Idle
  \/ LET ix == index_of(Hash[c.key], cap)
         O == Own(e, cap, L, ix)
     IN  /\ c \in [op : {"find", "insert", "erase"}, key : Keys,
                   val : Vals \cup {None}, before : L \cup {Null}, cur : L \cup {Null}]
         /\ c.op = "insert" => c.val \in Vals
         /\ c.cur # Null => c.cur \in O
         /\ c.before = Null => c.cur = bs[ix]
         /\ c.before # Null => c.before \in O /\ e[c.before].next = c.cur
         /\ \A p \in O : c.cur = Null \/ r[p] < r[c.cur] => e[p].key # c.key

Filed(bs, e, ar, cap, n, fr, sz, c, L, F, r) ==
  /\ Sound(bs, e, ar, cap, n, fr, L, F, r)
  /\ sz = Cardinality(L)
  /\ Searching(bs, e, cap, c, L, r)

FiledInv ==
  /\ ret \in Vals \cup {None}
  /\ \E L, F, r : Filed(buckets, entry, array, capacity, count, free, size, call, L, F, r)

-----------------------------------------------------------------------------
(* What the invariant says of the walks                                    *)

\* Every hash has a bucket.
LEMMA IndexIn ==
  ASSUME NEW h \in Nat, NEW cap \in Nat \ {0}
  PROVE  index_of(h, cap) \in 0 .. cap - 1
BY DEF index_of

\* No entry lies at Null.
LEMMA NullOutside ==
  ASSUME NEW bs, NEW e, NEW ar, NEW cap, NEW n, Shape(bs, e, ar, cap, n)
  PROVE  Null \notin DOMAIN e
<1>1. DOMAIN e \subseteq (1 .. ar) \X Nat
  BY DEF Shape
<1>2. Null \notin (1 .. ar) \X Nat
  BY DEF Null
<1> QED BY <1>1, <1>2

\* Every pointer leads to an entry or nowhere.
LEMMA NextIn ==
  ASSUME NEW bs, NEW e, NEW ar, NEW cap, NEW n, Shape(bs, e, ar, cap, n)
  PROVE  /\ \A q \in DOMAIN e : Nexts(e)[q] = e[q].next /\ e[q].next \in DOMAIN e \cup {Null}
BY DEF Shape, EntryIn, Nexts

\* Following the pointers lists the entries of a chain.
LEMMA PathLists ==
  ASSUME NEW L, NEW F, NEW r,
         Shape(buckets, entry, array, capacity, count), r \in [DOMAIN entry -> Nat],
         NEW M \in SUBSET DOMAIN entry, NEW h, ChainOf(h, Nexts(entry), M, r)
  PROVE  Listing(Path(h), M) /\ IsFiniteSet(M)
<1> DEFINE D == DOMAIN entry
           Is(w) == w = [n \in Nat |-> [q \in D \cup {Null} |->
                          IF n = 0 \/ q = Null THEN <<>>
                          ELSE <<q>> \o w[n - 1][entry[q].next]]]
           walk == CHOOSE w : Is(w)
           N == Cardinality(D) + 1
<1>1. Path(h) = walk[N][h]
  BY DEF Path
<1>2. IsFiniteSet(D) /\ Null \notin D
  BY NullOutside DEF Shape
<1>3. \A q \in D : Nexts(entry)[q] = entry[q].next /\ entry[q].next \in D \cup {Null}
  BY NextIn
<1>4. Is(walk)
  <2> DEFINE nx == Nexts(entry)
  <2>1. \A q \in D : nx[q] \in D \cup {Null}
    BY <1>3
  <2>2. \E w : WalksBy(w, nx, D)
    <3> HIDE DEF nx, D
    <3> QED BY ONLY <2>1, <1>2, WalkExists
  <2>3. PICK w : w = [n \in Nat |-> [q \in D \cup {Null} |->
                     IF n = 0 \/ q = Null THEN <<>>
                     ELSE <<q>> \o w[n - 1][nx[q]]]]
    BY <2>2 DEF WalksBy
  <2> HIDE DEF nx
  <2>4. ASSUME NEW n \in Nat
        PROVE  w[n] = [q \in D \cup {Null} |->
                     IF n = 0 \/ q = Null THEN <<>>
                     ELSE <<q>> \o w[n - 1][entry[q].next]]
    <3>1. w[n] = [q \in D \cup {Null} |->
                     IF n = 0 \/ q = Null THEN <<>>
                     ELSE <<q>> \o w[n - 1][nx[q]]]
      BY <2>3
    <3>2. \A q \in D : nx[q] = entry[q].next
      BY <1>3 DEF nx
    <3> HIDE DEF D
    <3> QED BY <3>1, <3>2
  <2>5. w = [n \in Nat |-> w[n]]
    BY <2>3
  <2>6. Is(w)
    BY <2>4, <2>5
  <2> HIDE DEF Is
  <2> QED BY <2>6
<1> HIDE DEF walk
<1>5. Walking(walk, Nexts(entry), D)
  <2>1. ASSUME NEW n \in Nat, NEW q \in D \cup {Null}
        PROVE  walk[n][q] = IF n = 0 \/ q = Null THEN <<>>
                            ELSE <<q>> \o walk[n - 1][entry[q].next]
    <3>1. walk[n] = [x \in D \cup {Null} |->
                       IF n = 0 \/ x = Null THEN <<>>
                       ELSE <<x>> \o walk[n - 1][entry[x].next]]
      BY <1>4
    <3> HIDE DEF D, Is
    <3> QED BY <3>1
  <2>2. \A q \in D \cup {Null} : q # Null => Nexts(entry)[q] = entry[q].next
    BY <1>3
  <2> HIDE DEF D
  <2> QED BY <2>1, <2>2 DEF Walking
<1>6. IsFiniteSet(M) /\ Cardinality(M) <= Cardinality(D)
  BY <1>2, FS_Subset
<1>7. Cardinality(M) < N /\ N \in Nat
  BY <1>2, <1>6, FS_CardinalityType
<1>8. \A x \in D : r[x] \in Nat
  OBVIOUS
<1> HIDE DEF N, D
<1>9. Listing(walk[N][h], M)
  <2>1. M \in SUBSET D
    BY DEF D
  <2> QED BY ONLY <2>1, <1>2, <1>5, <1>6, <1>7, <1>8, ChainOf(h, Nexts(entry), M, r), WalkLists
<1> QED BY <1>1, <1>6, <1>9

\* Every stored entry belongs to a bucket.
LEMMA OwnIndex ==
  ASSUME NEW bs, NEW e, NEW ar, NEW cap, NEW n, NEW fr, NEW L, NEW F, NEW r,
         Sound(bs, e, ar, cap, n, fr, L, F, r), DictionaryExAssumption
  PROVE  /\ cap \in Nat \ {0}
         /\ \A p \in L : index_of(e[p].hash, cap) \in 0 .. cap - 1
         /\ \A p \in L : e[p].hash \in Nat
<1>1. \A p \in L : e[p].key \in Keys /\ e[p].hash = Hash[e[p].key]
  BY DEF Sound
<1>2. cap \in Nat \ {0}
  BY DEF Sound, Shape
<1>3. \A p \in L : e[p].hash \in Nat
  BY <1>1 DEF DictionaryExAssumption
<1> QED BY <1>2, <1>3, IndexIn

\* The walk of a rehash through all buckets lists the stored entries.
LEMMA AllListed ==
  ASSUME DictionaryExAssumption, NEW L, NEW F, NEW r,
         Sound(buckets, entry, array, capacity, count, free, L, F, r)
  PROVE  /\ Listing(AllChained, L) /\ IsFiniteSet(L)
         /\ \A b \in Buckets : Listing(Path(buckets[b]), Own(entry, capacity, L, b))
         /\ Chained = L
<1> DEFINE part == [b \in 0 .. capacity - 1 |-> Own(entry, capacity, L, b)]
           path == [b \in 0 .. capacity - 1 |-> Path(buckets[b])]
           Is(u) == u = [b \in 0 .. capacity |->
                           IF b = 0 THEN <<>> ELSE u[b - 1] \o Path(buckets[b - 1])]
           upTo == CHOOSE u : Is(u)
<1>1. /\ Shape(buckets, entry, array, capacity, count) /\ r \in [DOMAIN entry -> Nat]
      /\ L \subseteq DOMAIN entry
      /\ \A b \in 0 .. capacity - 1 :
           ChainOf(buckets[b], Nexts(entry), Own(entry, capacity, L, b), r)
  BY DEF Sound
<1>2. ASSUME NEW b \in 0 .. capacity - 1
      PROVE  /\ Listing(Path(buckets[b]), Own(entry, capacity, L, b))
             /\ IsFiniteSet(Own(entry, capacity, L, b))
  <2>1. Own(entry, capacity, L, b) \in SUBSET DOMAIN entry
    BY <1>1 DEF Own
  <2> QED BY <1>1, <2>1, PathLists
<1>3. capacity \in Nat \ {0} /\ \A p \in L : index_of(entry[p].hash, capacity) \in 0 .. capacity - 1
  BY OwnIndex
<1>4. UNION {part[b] : b \in 0 .. capacity - 1} = L
  BY <1>3 DEF Own
<1>5. AllChained = upTo[capacity]
  BY DEF AllChained
<1>6. Is(upTo)
  <2>1. \A b \in 0 .. capacity - 1 : path[b] \in Seq(L)
    <3> SUFFICES ASSUME NEW b \in 0 .. capacity - 1
                 PROVE  Path(buckets[b]) \in Seq(L)
      OBVIOUS
    <3>1. Path(buckets[b]) \in Seq(Own(entry, capacity, L, b))
      BY <1>2 DEF Listing
    <3>2. Own(entry, capacity, L, b) \subseteq L
      BY DEF Own
    <3> QED BY <3>1, <3>2
  <2>2. \A b \in 0 .. capacity - 1 : path[b] = Path(buckets[b])
    OBVIOUS
  <2> HIDE DEF path
  <2>3. PICK u : u = [b \in 0 .. capacity |->
                        IF b = 0 THEN <<>> ELSE u[b - 1] \o path[b - 1]]
    BY ONLY <1>3, <2>1, UpToExists
  <2>4. Is(u)
    <3>1. ASSUME NEW b \in 0 .. capacity
          PROVE  u[b] = IF b = 0 THEN <<>> ELSE u[b - 1] \o Path(buckets[b - 1])
      <4>1. u[b] = IF b = 0 THEN <<>> ELSE u[b - 1] \o path[b - 1]
        BY <2>3
      <4>2. b # 0 => b - 1 \in 0 .. capacity - 1
        BY <1>3
      <4> QED BY <4>1, <4>2, <2>2
    <3>2. u = [b \in 0 .. capacity |-> u[b]]
      BY <2>3
    <3> QED BY <3>1, <3>2
  <2> HIDE DEF Is
  <2> QED BY <2>4
<1> HIDE DEF upTo
<1>7. upTo = [b \in 0 .. capacity |->
                IF b = 0 THEN <<>> ELSE upTo[b - 1] \o path[b - 1]]
  <2>1. ASSUME NEW b \in 0 .. capacity
        PROVE  upTo[b] = IF b = 0 THEN <<>> ELSE upTo[b - 1] \o path[b - 1]
    <3>1. upTo[b] = IF b = 0 THEN <<>> ELSE upTo[b - 1] \o Path(buckets[b - 1])
      BY <1>6
    <3>2. b # 0 => path[b - 1] = Path(buckets[b - 1])
      BY <1>3
    <3> HIDE DEF path
    <3> QED BY <3>1, <3>2
  <2>2. upTo = [b \in 0 .. capacity |-> upTo[b]]
    BY <1>6
  <2> QED BY <2>1, <2>2
<1>8. /\ DOMAIN part = 0 .. capacity - 1
      /\ \A b \in 0 .. capacity - 1 : IsFiniteSet(part[b]) /\ Listing(path[b], part[b])
      /\ \A a, b \in 0 .. capacity - 1 : a # b => part[a] \cap part[b] = {}
  BY <1>2 DEF Own
<1> HIDE DEF part, path
<1>9. Listing(upTo[capacity], L) /\ IsFiniteSet(L)
  <2>1. /\ Listing(upTo[capacity], UNION {part[b] : b \in 0 .. capacity - 1})
        /\ IsFiniteSet(UNION {part[b] : b \in 0 .. capacity - 1})
    <3>1. capacity \in Nat
      BY <1>3
    <3> QED BY ONLY <3>1, <1>7, <1>8, ListingOfAll
  <2> QED BY <2>1, <1>4
<1>10. Chained = L
  <2>1. \A b \in 0 .. capacity - 1 : SetOf(Path(buckets[b])) = Own(entry, capacity, L, b)
    BY <1>2, ListingSet
  <2>2. Chained = UNION {Own(entry, capacity, L, b) : b \in 0 .. capacity - 1}
    BY <2>1 DEF Chained, Buckets
  <2> QED BY <2>2, <1>3 DEF Own
<1> QED BY <1>2, <1>5, <1>9, <1>10 DEF Buckets

\* The invariant says what the runs check of the entries.
LEMMA FiledPartitioned ==
  ASSUME DictionaryExAssumption, FiledInv
  PROVE  EntriesPartitioned
<1>1. PICK L, F, r : /\ Sound(buckets, entry, array, capacity, count, free, L, F, r)
                     /\ size = Cardinality(L)
                     /\ Searching(buckets, entry, capacity, call, L, r)
  BY DEF FiledInv, Filed
<1>2. /\ Shape(buckets, entry, array, capacity, count) /\ r \in [DOMAIN entry -> Nat]
      /\ L \subseteq DOMAIN entry /\ F \subseteq DOMAIN entry /\ L \cap F = {}
      /\ ({array} \X (count .. capacity - 1)) \cap (L \cup F) = {}
      /\ ChainOf(free.head, Nexts(entry), F, r) /\ free.size = Cardinality(F)
      /\ \A p \in L : entry[p].key \in Keys
  BY <1>1 DEF Sound
<1>3. /\ Listing(AllChained, L) /\ IsFiniteSet(L)
      /\ \A b \in Buckets : Listing(Path(buckets[b]), Own(entry, capacity, L, b))
  BY <1>1, AllListed
<1>4. Listing(Path(free.head), F) /\ IsFiniteSet(F)
  BY <1>2, PathLists
<1>5. TypeOK
  <2>1. size \in Nat /\ free.size \in Nat
    BY <1>1, <1>2, <1>3, <1>4, FS_CardinalityType
  <2>2. free.head \in DOMAIN entry \cup {Null}
    BY <1>2 DEF ChainOf, First
  <2>3. call.op \in {"none", "find", "insert", "erase"}
        /\ call.cur \in DOMAIN entry \cup {Null} /\ call.before \in DOMAIN entry \cup {Null}
    BY <1>1, <1>2 DEF Searching, Idle
  <2>4. ret \in Vals \cup {None}
    BY DEF FiledInv
  <2>5. count \in 0 .. capacity /\ {array} \X Buckets \subseteq DOMAIN entry
        /\ buckets \in [Buckets -> DOMAIN entry \cup {Null}]
    BY <1>2 DEF Shape, Buckets
  <2>6. entry \in [DOMAIN entry ->
                  [hash : Nat \cup {kInvalidHash}, key : Keys \cup {None},
                   val : Vals \cup {None}, next : DOMAIN entry \cup {Null}]]
    BY <1>2 DEF Shape, EntryIn
  <2> QED BY <2>1, <2>2, <2>3, <2>4, <2>5, <2>6 DEF TypeOK, Pointer
<1>6. \A b \in Buckets : \A p \in SetOf(Path(buckets[b])) :
        entry[p].key # None /\ index_of(entry[p].hash, capacity) = b
  <2>1. \A b \in Buckets : SetOf(Path(buckets[b])) = Own(entry, capacity, L, b)
    BY <1>3, ListingSet
  <2> QED BY <2>1, <1>2 DEF Own, DictionaryExAssumption
<1>7. SetOf(AllChained) = L /\ SetOf(Path(free.head)) = F
  BY <1>3, <1>4, ListingSet
<1>8. Len(AllChained) = size /\ Len(Path(free.head)) = free.size
  BY <1>1, <1>2, <1>3, <1>4 DEF Listing
<1>9. Unopened \cap (L \cup F) = {}
  BY <1>2 DEF Unopened
<1>10. Cardinality(L) = size /\ Cardinality(F) = free.size
  BY <1>1, <1>2
<1> QED BY <1>2, <1>5, <1>6, <1>7, <1>8, <1>9, <1>10 DEF EntriesPartitioned

-----------------------------------------------------------------------------
(* Inserting an entry                                                      *)

EntryOf(k, v, next) == [hash |-> Hash[k], key |-> k, val |-> v, next |-> next]
PushedHead(bs, cap, k, p) == [bs EXCEPT ![index_of(Hash[k], cap)] = p]
PushedIn(bs, e, cap, k, v, p) ==
  [e EXCEPT ![p] = EntryOf(k, v, bs[index_of(Hash[k], cap)])]

\* p comes first; the others keep their order.
InFront(D, r, p) == [x \in D |-> IF x = p THEN 0 ELSE r[x] + 1]

\* The new ranks: p is the first of all, and nothing else changes its place.
LEMMA InFrontOrders ==
  ASSUME NEW D, NEW r \in [D -> Nat], NEW p \in D
  PROVE  /\ InFront(D, r, p) \in [D -> Nat]
         /\ \A M \in SUBSET D : p \notin M =>
              Alike(r, InFront(D, r, p), M)
              /\ \A x \in M : InFront(D, r, p)[p] < InFront(D, r, p)[x]
<1>1. \A x \in D : r[x] \in Nat
  OBVIOUS
<1>2. InFront(D, r, p) \in [D -> Nat]
  BY <1>1 DEF InFront
<1>3. \A x \in D : InFront(D, r, p)[x] = IF x = p THEN 0 ELSE r[x] + 1
  BY DEF InFront
<1>4. ASSUME NEW M \in SUBSET D, p \notin M
      PROVE  Alike(r, InFront(D, r, p), M)
             /\ \A x \in M : InFront(D, r, p)[p] < InFront(D, r, p)[x]
  <2>1. \A x \in M : x \in D /\ InFront(D, r, p)[x] = r[x] + 1
    BY <1>3, <1>4
  <2>2. \A x \in M : r[x] \in Nat
    BY <1>1
  <2>3. InFront(D, r, p)[p] = 0
    BY <1>3
  <2> QED BY <2>1, <2>2, <2>3 DEF Alike
<1> QED BY <1>2, <1>4

\* What linking the entry p in front of its chain changes.
LEMMA PushShape ==
  ASSUME NEW bs, NEW e, NEW ar, NEW cap, NEW n, Shape(bs, e, ar, cap, n),
         NEW n2 \in 0 .. cap, NEW p \in DOMAIN e, NEW k \in Keys, NEW v \in Vals,
         DictionaryExAssumption
  PROVE  LET e2 == PushedIn(bs, e, cap, k, v, p)
             b2 == PushedHead(bs, cap, k, p)
             ix == index_of(Hash[k], cap)
         IN  /\ Shape(b2, e2, ar, cap, n2)
             /\ DOMAIN e2 = DOMAIN e
             /\ e2[p] = EntryOf(k, v, bs[ix])
             /\ \A x \in DOMAIN e \ {p} : e2[x] = e[x]
             /\ ix \in 0 .. cap - 1 /\ bs[ix] \in DOMAIN e \cup {Null}
             /\ \A b \in 0 .. cap - 1 : b2[b] = IF b = ix THEN p ELSE bs[b]
<1> DEFINE e2 == PushedIn(bs, e, cap, k, v, p)
           b2 == PushedHead(bs, cap, k, p)
           ix == index_of(Hash[k], cap)
           D == DOMAIN e
<1>1. /\ cap \in Nat \ {0} /\ e \in [D -> EntryIn(D)]
      /\ bs \in [0 .. cap - 1 -> D \cup {Null}]
  BY DEF Shape
<1>2. Hash[k] \in Nat
  BY DEF DictionaryExAssumption
<1>3. ix \in 0 .. cap - 1
  BY <1>1, <1>2, IndexIn
<1>4. bs[ix] \in D \cup {Null}
  BY <1>1, <1>3
<1>5. EntryOf(k, v, bs[ix]) \in EntryIn(D)
  BY <1>2, <1>4 DEF EntryOf, EntryIn
<1>6. DOMAIN e2 = D /\ e2 \in [D -> EntryIn(D)] /\ e2[p] = EntryOf(k, v, bs[ix])
      /\ \A x \in D \ {p} : e2[x] = e[x]
  <2> HIDE DEF D
  <2>1. p \in D
    BY DEF D
  <2> QED BY <1>1, <1>5, <2>1 DEF PushedIn
<1>7. b2 \in [0 .. cap - 1 -> D \cup {Null}]
      /\ \A b \in 0 .. cap - 1 : b2[b] = IF b = ix THEN p ELSE bs[b]
  BY <1>1, <1>3 DEF PushedHead
<1>8. Shape(b2, e2, ar, cap, n2)
  BY <1>6, <1>7 DEF Shape
<1> QED BY <1>3, <1>4, <1>6, <1>7, <1>8

\* An entry that is stored nowhere, from the free list or from the open array,
\* is put in front of the chain of its key.
LEMMA PushSound ==
  ASSUME DictionaryExAssumption,
         NEW bs, NEW e, NEW ar, NEW cap, NEW n, NEW fr, NEW L, NEW F, NEW r,
         Sound(bs, e, ar, cap, n, fr, L, F, r),
         NEW n2 \in 0 .. cap, n <= n2,
         NEW fr2, NEW F2 \in SUBSET F,
         ChainOf(fr2.head, Nexts(e), F2, r), fr2.size = Cardinality(F2),
         NEW p \in DOMAIN e, p \notin L, p \notin F2, p \notin {ar} \X (n2 .. cap - 1),
         NEW k \in Keys, NEW v \in Vals, \A q \in L : e[q].key # k
  PROVE  \E q : Sound(PushedHead(bs, cap, k, p), PushedIn(bs, e, cap, k, v, p),
                      ar, cap, n2, fr2, L \cup {p}, F2, q)
<1> DEFINE e2 == PushedIn(bs, e, cap, k, v, p)
           b2 == PushedHead(bs, cap, k, p)
           ix == index_of(Hash[k], cap)
           D == DOMAIN e
           q == InFront(D, r, p)
           L2 == L \cup {p}
<1>1. /\ Shape(bs, e, ar, cap, n)
      /\ L \subseteq D /\ F \subseteq D /\ L \cap F = {}
      /\ ({ar} \X (n .. cap - 1)) \cap (L \cup F) = {}
      /\ r \in [D -> Nat]
      /\ \A x \in L : e[x].key \in Keys /\ e[x].val \in Vals /\ e[x].hash = Hash[e[x].key]
      /\ \A x, y \in L : e[x].key = e[y].key => x = y
      /\ \A b \in 0 .. cap - 1 : ChainOf(bs[b], Nexts(e), Own(e, cap, L, b), r)
  BY DEF Sound
<1>2. /\ Shape(b2, e2, ar, cap, n2)
      /\ DOMAIN e2 = D
      /\ e2[p] = EntryOf(k, v, bs[ix])
      /\ \A x \in D \ {p} : e2[x] = e[x]
      /\ ix \in 0 .. cap - 1 /\ bs[ix] \in D \cup {Null}
      /\ \A b \in 0 .. cap - 1 : b2[b] = IF b = ix THEN p ELSE bs[b]
  BY <1>1, PushShape
<1>3. /\ q \in [D -> Nat]
      /\ \A M \in SUBSET D : p \notin M =>
              Alike(r, q, M) /\ \A x \in M : q[p] < q[x]
  BY <1>1, InFrontOrders
<1>4. n \in Nat /\ cap \in Nat
  BY <1>1 DEF Shape
<1> HIDE DEF e2, b2, ix, q
<1>5. L2 \subseteq D /\ F2 \subseteq D /\ L2 \cap F2 = {}
      /\ ({ar} \X (n2 .. cap - 1)) \cap (L2 \cup F2) = {}
  <2>1. n2 .. cap - 1 \subseteq n .. cap - 1
    BY <1>4
  <2>2. {ar} \X (n2 .. cap - 1) \subseteq {ar} \X (n .. cap - 1)
    BY <2>1
  <2> QED BY <1>1, <2>2
<1>6. \A x \in L : e2[x] = e[x] /\ x # p
  BY <1>1, <1>2
<1>7. e2[p].key = k /\ e2[p].val = v /\ e2[p].hash = Hash[k] /\ e2[p].next = bs[ix]
  BY <1>2 DEF EntryOf
<1>8. \A x \in L2 : e2[x].key \in Keys /\ e2[x].val \in Vals /\ e2[x].hash = Hash[e2[x].key]
  BY <1>1, <1>6, <1>7
<1>9. \A x, y \in L2 : e2[x].key = e2[y].key => x = y
  BY <1>1, <1>6, <1>7
<1>10. \A x \in D \ {p} : Nexts(e2)[x] = Nexts(e)[x]
  BY <1>2 DEF Nexts
<1>11. Nexts(e2)[p] = bs[ix]
  BY <1>2, <1>7 DEF Nexts
<1>12. ASSUME NEW b \in 0 .. cap - 1
       PROVE  ChainOf(b2[b], Nexts(e2), Own(e2, cap, L2, b), q)
  <2> DEFINE O == Own(e, cap, L, b)
  <2>1. O \subseteq D /\ p \notin O /\ \A x \in O : r[x] \in Nat /\ q[x] \in Nat
    BY <1>1, <1>3 DEF Own
  <2>2. Alike(r, q, O) /\ \A x \in O : q[p] < q[x]
    BY <2>1, <1>3
  <2>3. \A x \in O : Nexts(e2)[x] = Nexts(e)[x]
    BY <2>1, <1>10
  <2>4. ChainOf(bs[b], Nexts(e), O, r)
    BY <1>1
  <2>5. CASE b = ix
    <3>1. Own(e2, cap, L2, b) = O \cup {p}
      BY <2>5, <1>6, <1>7 DEF Own, ix
    <3>2. b2[b] = p /\ Nexts(e2)[p] = bs[b]
      BY <2>5, <1>2, <1>11
    <3>3. q[p] \in Nat
      BY <1>3
    <3> HIDE DEF O
    <3>4. ChainOf(p, Nexts(e2), O \cup {p}, q)
      BY <2>1, <2>2, <2>3, <2>4, <3>2, <3>3, ChainInFront
    <3> QED BY <3>1, <3>2, <3>4
  <2>6. CASE b # ix
    <3>1. Own(e2, cap, L2, b) = O
      BY <2>6, <1>6, <1>7 DEF Own, ix
    <3>2. b2[b] = bs[b]
      BY <2>6, <1>2
    <3> HIDE DEF O
    <3>3. ChainOf(bs[b], Nexts(e2), O, q)
      BY <2>1, <2>2, <2>3, <2>4, ChainStays
    <3> QED BY <3>1, <3>2, <3>3
  <2> QED BY <2>5, <2>6
<1>13. ChainOf(fr2.head, Nexts(e2), F2, q)
  <2>1. F2 \in SUBSET D /\ p \notin F2
    BY <1>5
  <2>2. Alike(r, q, F2) /\ \A x \in F2 : r[x] \in Nat /\ q[x] \in Nat
    BY <2>1, <1>1, <1>3
  <2>3. \A x \in F2 : Nexts(e2)[x] = Nexts(e)[x]
    BY <2>1, <1>10
  <2> QED BY <2>2, <2>3, ChainStays
<1>14. Sound(b2, e2, ar, cap, n2, fr2, L2, F2, q)
  <2> HIDE DEF L2
  <2> QED BY <1>2, <1>3, <1>5, <1>8, <1>9, <1>12, <1>13 DEF Sound
<1> QED BY <1>14 DEF e2, b2, L2

-----------------------------------------------------------------------------
(* Erasing an entry                                                        *)

Gone(head) == [hash |-> kInvalidHash, key |-> None, val |-> None, next |-> head]

\* p is erased, b being the entry before it or Null.
ErasedIn(e, b, p, head) ==
  IF b # Null THEN [e EXCEPT ![b].next = e[p].next, ![p] = Gone(head)]
  ELSE [e EXCEPT ![p] = Gone(head)]
Unhooked(bs, e, b, ix, p) == IF b # Null THEN bs ELSE [bs EXCEPT ![ix] = e[p].next]

\* What erasing an entry changes.
Erases(bs, e, ar, cap, n, p, b, ix, head) ==
  LET e2 == ErasedIn(e, b, p, head)
      b2 == Unhooked(bs, e, b, ix, p)
  IN  /\ Shape(b2, e2, ar, cap, n)
      /\ DOMAIN e2 = DOMAIN e
      /\ e2[p] = Gone(head)
      /\ \A x \in DOMAIN e \ {p} :
           /\ e2[x].hash = e[x].hash /\ e2[x].key = e[x].key
           /\ e2[x].val = e[x].val
           /\ e2[x].next = IF x = b THEN e[p].next ELSE e[x].next
      /\ \A a \in 0 .. cap - 1 :
           b2[a] = IF b = Null /\ a = ix THEN e[p].next ELSE bs[a]

\* The tables after an erasure.
LEMMA EraseShape ==
  ASSUME NEW bs, NEW e, NEW ar, NEW cap, NEW n, Shape(bs, e, ar, cap, n),
         NEW p \in DOMAIN e, NEW b \in DOMAIN e \cup {Null}, b # p,
         NEW ix \in 0 .. cap - 1, NEW head \in DOMAIN e \cup {Null}
  PROVE  Erases(bs, e, ar, cap, n, p, b, ix, head)
<1> DEFINE e2 == ErasedIn(e, b, p, head)
           b2 == Unhooked(bs, e, b, ix, p)
           D == DOMAIN e
<1>1. /\ cap \in Nat \ {0} /\ e \in [D -> EntryIn(D)]
      /\ bs \in [0 .. cap - 1 -> D \cup {Null}]
  BY DEF Shape
<1>2. Null \notin D
  BY NullOutside
<1>3. e[p].next \in D \cup {Null}
  BY <1>1 DEF EntryIn
<1>4. Gone(head) \in EntryIn(D)
  BY DEF Gone, EntryIn
<1>5. CASE b = Null
  <2>1. e2 = [e EXCEPT ![p] = Gone(head)]
    BY <1>5 DEF ErasedIn
  <2>2. b2 = [bs EXCEPT ![ix] = e[p].next]
    BY <1>5 DEF Unhooked
  <2>3. /\ DOMAIN e2 = D /\ e2 \in [D -> EntryIn(D)] /\ e2[p] = Gone(head)
        /\ \A x \in D \ {p} : e2[x] = e[x]
    <3> HIDE DEF e2, D
    <3>1. p \in D
      BY DEF D
    <3> QED BY <1>1, <1>4, <2>1, <3>1
  <2>4. /\ b2 \in [0 .. cap - 1 -> D \cup {Null}]
        /\ \A a \in 0 .. cap - 1 : b2[a] = IF a = ix THEN e[p].next ELSE bs[a]
    BY <1>1, <1>3, <2>2
  <2>5. Shape(b2, e2, ar, cap, n)
    BY <2>3, <2>4 DEF Shape
  <2>6. \A x \in D \ {p} : x # b
    BY <1>2, <1>5
  <2> QED BY <1>5, <2>3, <2>4, <2>5, <2>6 DEF Erases
<1>6. CASE b # Null
  <2>1. e2 = [e EXCEPT ![b].next = e[p].next, ![p] = Gone(head)]
    BY <1>6 DEF ErasedIn
  <2>2. b2 = bs
    BY <1>6 DEF Unhooked
  <2> DEFINE f == [e EXCEPT ![b].next = e[p].next]
  <2>3. b \in D
    BY <1>6
  <2>4. e[b] \in EntryIn(D)
    BY <1>1, <2>3
  <2>5. [e[b] EXCEPT !.next = e[p].next] \in EntryIn(D)
        /\ [e[b] EXCEPT !.next = e[p].next].next = e[p].next
        /\ [e[b] EXCEPT !.next = e[p].next].key = e[b].key
        /\ [e[b] EXCEPT !.next = e[p].next].val = e[b].val
        /\ [e[b] EXCEPT !.next = e[p].next].hash = e[b].hash
    BY <1>3, <2>4 DEF EntryIn
  <2>6. e2 = [[e EXCEPT ![b] = [e[b] EXCEPT !.next = e[p].next]] EXCEPT ![p] = Gone(head)]
    BY <2>1
  <2>7. /\ DOMAIN e2 = D /\ e2 \in [D -> EntryIn(D)] /\ e2[p] = Gone(head)
        /\ \A x \in D \ {p, b} : e2[x] = e[x]
        /\ e2[b] = [e[b] EXCEPT !.next = e[p].next]
    <3> HIDE DEF e2, D
    <3>1. p \in D
      BY DEF D
    <3> QED BY <1>1, <1>4, <2>3, <2>5, <2>6, <3>1
  <2>8. Shape(b2, e2, ar, cap, n)
    BY <2>2, <2>7 DEF Shape
  <2> HIDE DEF e2, b2
  <2> QED BY <1>6, <2>2, <2>5, <2>7, <2>8 DEF e2, b2, Erases
<1> QED BY <1>5, <1>6

\* An erased entry leaves its chain and heads the free list.
LEMMA EraseSound ==
  ASSUME DictionaryExAssumption,
         NEW bs, NEW e, NEW ar, NEW cap, NEW n, NEW fr, NEW L, NEW F, NEW r,
         Sound(bs, e, ar, cap, n, fr, L, F, r),
         NEW p \in L, NEW ix, ix = index_of(e[p].hash, cap),
         NEW b \in L \cup {Null}, b = Null => bs[ix] = p,
         b # Null => b \in Own(e, cap, L, ix) /\ e[b].next = p,
         NEW fr2, fr2.head = p, fr2.size = fr.size + 1
  PROVE  LET e2 == ErasedIn(e, b, p, fr.head)
         IN  /\ \E q : Sound(Unhooked(bs, e, b, ix, p), e2,
                             ar, cap, n, fr2, L \ {p}, F \cup {p}, q)
             /\ \A x \in L \ {p} : e2[x].key = e[x].key /\ e2[x].val = e[x].val
<1> DEFINE hd == fr.head
           e2 == ErasedIn(e, b, p, hd)
           b2 == Unhooked(bs, e, b, ix, p)
           D == DOMAIN e
           q == InFront(D, r, p)
           L2 == L \ {p}
           F2 == F \cup {p}
           nx == Nexts(e)
           nx2 == Nexts(e2)
<1>1. /\ Shape(bs, e, ar, cap, n)
      /\ L \subseteq D /\ F \subseteq D /\ L \cap F = {}
      /\ ({ar} \X (n .. cap - 1)) \cap (L \cup F) = {}
      /\ r \in [D -> Nat]
      /\ \A x \in L : e[x].key \in Keys /\ e[x].val \in Vals /\ e[x].hash = Hash[e[x].key]
      /\ \A x, y \in L : e[x].key = e[y].key => x = y
      /\ \A a \in 0 .. cap - 1 : ChainOf(bs[a], nx, Own(e, cap, L, a), r)
      /\ ChainOf(fr.head, nx, F, r) /\ fr.size = Cardinality(F)
  BY DEF Sound
<1>2. ix \in 0 .. cap - 1 /\ p \in Own(e, cap, L, ix)
  BY OwnIndex DEF Own
<1>3. Null \notin D /\ \A x \in D : nx[x] = e[x].next
  BY <1>1, NullOutside, NextIn
<1>4. p \in D /\ p # Null
  BY <1>1, <1>3
<1>5. \A x \in D : r[x] \in Nat
  BY <1>1
<1>6. b # p
  <2> SUFFICES ASSUME b = p
               PROVE  FALSE
    OBVIOUS
  <2>1. p \in Own(e, cap, L, ix) /\ nx[p] = p
    BY <1>3, <1>4
  <2>2. First(p, Behind(p, Own(e, cap, L, ix), r), r)
    BY <1>1, <1>2, <2>1 DEF ChainOf
  <2>3. r[p] < r[p]
    BY <2>2, <1>4 DEF First, Behind
  <2> QED BY <2>3, <1>4, <1>5
<1>7. fr.head \in D \cup {Null} /\ b \in D \cup {Null}
  BY <1>1 DEF ChainOf, First
<1>8. /\ Shape(b2, e2, ar, cap, n)
      /\ DOMAIN e2 = D
      /\ e2[p] = Gone(hd)
      /\ \A x \in D \ {p} :
                  /\ e2[x].hash = e[x].hash /\ e2[x].key = e[x].key
                  /\ e2[x].val = e[x].val
                  /\ e2[x].next = IF x = b THEN e[p].next ELSE e[x].next
      /\ \A a \in 0 .. cap - 1 :
                  b2[a] = IF b = Null /\ a = ix THEN e[p].next ELSE bs[a]
  <2>1. hd \in DOMAIN e \cup {Null} /\ b \in DOMAIN e \cup {Null} /\ p \in DOMAIN e
    BY <1>4, <1>7
  <2>2. Shape(bs, e, ar, cap, n) /\ ix \in 0 .. cap - 1
    BY <1>1, <1>2
  <2> HIDE DEF hd
  <2>3. Erases(bs, e, ar, cap, n, p, b, ix, hd)
    BY ONLY DictionaryExAssumption, <2>1, <2>2, <1>6, EraseShape
  <2> QED BY <2>3 DEF Erases
<1>9. /\ q \in [D -> Nat]
      /\ \A M \in SUBSET D : p \notin M =>
              Alike(r, q, M) /\ \A x \in M : q[p] < q[x]
  BY <1>1, <1>4, InFrontOrders
<1>10. /\ nx2[p] = fr.head
       /\ \A x \in D \ {p} : nx2[x] = IF x = b THEN nx[p] ELSE nx[x]
  BY <1>3, <1>4, <1>8 DEF Gone, Nexts
<1> HIDE DEF e2, b2, q, nx, nx2
<1>11. \A x \in L2 : x \in D \ {p} /\ e2[x].hash = e[x].hash /\ e2[x].key = e[x].key
                     /\ e2[x].val = e[x].val
  BY <1>1, <1>8
<1>12. /\ \A x \in L2 : e2[x].key \in Keys /\ e2[x].val \in Vals /\ e2[x].hash = Hash[e2[x].key]
       /\ \A x, y \in L2 : e2[x].key = e2[y].key => x = y
  BY <1>1, <1>11
<1>13. /\ L2 \subseteq D /\ F2 \subseteq D /\ L2 \cap F2 = {}
       /\ ({ar} \X (n .. cap - 1)) \cap (L2 \cup F2) = {}
  BY <1>1
<1>14. ASSUME NEW a \in 0 .. cap - 1
       PROVE  ChainOf(b2[a], nx2, Own(e2, cap, L2, a), q)
  <2> DEFINE O == Own(e, cap, L, a)
  <2>1. O \subseteq L /\ O \subseteq D /\ ChainOf(bs[a], nx, O, r) /\ \A x \in O : r[x] \in Nat
    BY <1>1, <1>5 DEF Own
  <2>2. Own(e2, cap, L2, a) = O \ {p}
    BY <1>11 DEF Own
  <2>3. ChainOf(b2[a], nx2, O \ {p}, r)
    <3>1. CASE a = ix /\ b = Null
      <4>1. bs[a] = p /\ p \in O /\ O # {}
        BY <3>1, <1>2
      <4>2. ChainOf(nx[p], nx, O \ {p}, r)
        <5> HIDE DEF O
        <5> QED BY <2>1, <4>1, ChainLessFirst
      <4>3. \A x \in O \ {p} : x # b /\ nx2[x] = nx[x]
        BY <2>1, <3>1, <1>3, <1>10
      <4>4. b2[a] = nx[p]
        BY <3>1, <1>3, <1>4, <1>8
      <4>5. Alike(r, r, O \ {p}) /\ \A x \in O \ {p} : r[x] \in Nat
        BY <2>1 DEF Alike
      <4> HIDE DEF O
      <4> QED BY <4>2, <4>3, <4>4, <4>5, ChainStays
    <3>2. CASE a = ix /\ b # Null
      <4>1. b \in O /\ p \in O /\ nx[b] = p
        BY <3>2, <1>2, <1>3, <2>1
      <4>2. nx2[b] = nx[p] /\ \A x \in O \ {b, p} : nx2[x] = nx[x]
        BY <4>1, <1>6, <1>10, <2>1
      <4>3. b2[a] = bs[a]
        BY <3>2, <1>8
      <4> HIDE DEF O
      <4>4. ChainOf(bs[a], nx2, O \ {p}, r)
        BY <4>1, <4>2, <2>1, <1>4, ChainWithout
      <4> QED BY <4>3, <4>4
    <3>3. CASE a # ix
      <4>1. p \notin O /\ b \notin O
        BY <3>3, <1>2, <1>3, <2>1 DEF Own
      <4>2. \A x \in O : nx2[x] = nx[x]
        BY <4>1, <1>10, <2>1
      <4>3. O \ {p} = O /\ b2[a] = bs[a] /\ Alike(r, r, O)
        BY <4>1, <3>3, <1>8 DEF Alike
      <4> HIDE DEF O
      <4>4. ChainOf(bs[a], nx2, O, r)
        BY <4>2, <4>3, <2>1, ChainStays
      <4> QED BY <4>3, <4>4
    <3> QED BY <3>1, <3>2, <3>3
  <2>4. Alike(r, q, O \ {p}) /\ \A x \in O \ {p} : r[x] \in Nat /\ q[x] \in Nat
    BY <2>1, <1>9
  <2> HIDE DEF O
  <2>5. ChainOf(b2[a], nx2, O \ {p}, q)
    BY <2>3, <2>4, ChainStays
  <2> QED BY <2>2, <2>5
<1>15. ChainOf(p, nx2, F2, q)
  <2>1. p \notin F /\ F \in SUBSET D /\ b \notin F
    BY <1>1, <1>3
  <2>2. Alike(r, q, F) /\ (\A x \in F : q[p] < q[x])
        /\ (\A x \in F : r[x] \in Nat) /\ \A x \in F \cup {p} : q[x] \in Nat
    BY <2>1, <1>4, <1>5, <1>9
  <2>3. \A x \in F : nx2[x] = nx[x]
    BY <2>1, <1>10
  <2> QED BY <1>1, <1>10, <2>1, <2>2, <2>3, ChainInFront
<1>16. fr2.size = Cardinality(F2)
  <2>1. IsFiniteSet(F)
    BY <1>1, FS_Subset DEF Shape
  <2>2. p \notin F
    BY <1>1
  <2>3. Cardinality(F \cup {p}) = Cardinality(F) + 1
    BY ONLY <2>1, <2>2, FS_AddElement
  <2> QED BY <1>1, <2>3
<1>17. Sound(b2, e2, ar, cap, n, fr2, L2, F2, q)
  <2> HIDE DEF L2, F2
  <2> QED BY <1>8, <1>9, <1>12, <1>13, <1>14, <1>15, <1>16 DEF Sound, nx2
<1> QED BY <1>11, <1>17 DEF e2, b2, L2, F2

-----------------------------------------------------------------------------
(* Rehashing                                                               *)

\* Only the pointers of the entries stored change.
Relinks(e, e2, L) ==
  \A x \in L : e2[x].key = e[x].key /\ e2[x].val = e[x].val

\* A rehash relinks the listed entries into cap chains and opens a new array.
LEMMA RehashSound ==
  ASSUME DictionaryExAssumption, NEW L, NEW F, NEW r,
         Sound(buckets, entry, array, capacity, count, free, L, F, r),
         NEW cap \in Nat \ {0}, NEW fr2, NEW F2 \in SUBSET F,
         ChainOf(fr2.head, Nexts(entry), F2, r), fr2.size = Cardinality(F2)
  PROVE  /\ \E q : Sound(Rehashed(cap).buckets, Rehashed(cap).entry, array + 1, cap, 0,
                         fr2, L, F2, q)
         /\ Rehashed(cap).size = Cardinality(L)
         /\ Relinks(entry, Rehashed(cap).entry, L)
<1> DEFINE D == DOMAIN entry
           seq == AllChained
           mine(b, n) == {i \in 1 .. n : index_of(entry[seq[i]].hash, cap) = b}
           top(b, n) == IF mine(b, n) = {} THEN Null
                        ELSE seq[CHOOSE i \in mine(b, n) :
                                   \A j \in mine(b, n) : j <= i]
           place == [p \in SetOf(seq) |-> CHOOSE i \in DOMAIN seq : seq[i] = p]
           E == D \cup {array + 1} \X (0 .. cap - 1)
           e2 == [p \in E |->
                    IF p \notin D THEN Untouched
                    ELSE IF p \in SetOf(seq)
                    THEN [entry[p] EXCEPT !.next =
                            top(index_of(entry[p].hash, cap), place[p] - 1)]
                    ELSE entry[p]]
           b2 == [b \in 0 .. cap - 1 |-> top(b, Len(seq))]
<1>1. Rehashed(cap) = [buckets |-> b2, entry |-> e2, size |-> Len(seq)]
  BY DEF Rehashed
<1>2. /\ Shape(buckets, entry, array, capacity, count)
      /\ L \subseteq D /\ F \subseteq D /\ L \cap F = {}
      /\ r \in [D -> Nat]
      /\ \A x \in L : /\ entry[x].key \in Keys /\ entry[x].val \in Vals
                      /\ entry[x].hash = Hash[entry[x].key]
      /\ \A x, y \in L : entry[x].key = entry[y].key => x = y
  BY DEF Sound
<1>3. Listing(seq, L) /\ IsFiniteSet(L)
  BY AllListed
<1>4. /\ SetOf(seq) = L /\ DOMAIN seq = 1 .. Len(seq) /\ Len(seq) \in Nat
      /\ \A i \in 1 .. Len(seq) : seq[i] \in L
      /\ Len(seq) = Cardinality(L)
  BY <1>3, ListingSet DEF Listing
<1>5. \A x \in L : place[x] \in 1 .. Len(seq) /\ seq[place[x]] = x
  <2> SUFFICES ASSUME NEW x \in L
               PROVE  place[x] \in 1 .. Len(seq) /\ seq[place[x]] = x
    OBVIOUS
  <2>1. place[x] = CHOOSE i \in DOMAIN seq : seq[i] = x
    BY <1>4
  <2>2. \E i \in DOMAIN seq : seq[i] = x
    BY <1>3, <1>4 DEF Listing
  <2> HIDE DEF place
  <2> QED BY <2>1, <2>2, <1>4
<1> DEFINE O(b) == Own(entry, cap, L, b)
<1>6. \A n \in Nat : n <= Len(seq) => \A b : top(b, n) = Last(seq, O(b), n)
  <2> SUFFICES ASSUME NEW n \in Nat, n <= Len(seq), NEW b
               PROVE  top(b, n) = Last(seq, O(b), n)
    OBVIOUS
  <2>1. mine(b, n) = {i \in 1 .. n : seq[i] \in O(b)}
    BY <1>4 DEF Own
  <2> HIDE DEF mine, O, seq
  <2> QED BY <2>1 DEF Last
<1>7. \A x \in L : entry[x].hash \in Nat
  BY OwnIndex
<1>8. \A x \in L : index_of(entry[x].hash, cap) \in 0 .. cap - 1
  BY <1>7, IndexIn
<1> DEFINE LastOf(b, n) == Last(seq, O(b), n)
<1>9. ASSUME NEW n \in Nat, n <= Len(seq), NEW b
      PROVE  LastOf(b, n) \in L \cup {Null}
  <2>1. \/ LastOf(b, n) = Null
        \/ \E i \in 1 .. n : LastOf(b, n) = seq[i]
    BY LastIs
  <2>2. \A i \in 1 .. n : seq[i] \in L
    BY <1>4, <1>9
  <2> QED BY <2>1, <2>2
<1>10. ASSUME NEW x \in L
       PROVE  /\ e2[x] = [entry[x] EXCEPT !.next =
                            LastOf(index_of(entry[x].hash, cap), place[x] - 1)]
              /\ place[x] - 1 \in Nat /\ place[x] - 1 <= Len(seq)
  <2>1. place[x] - 1 \in Nat /\ place[x] - 1 <= Len(seq)
    BY <1>4, <1>5
  <2>2. x \in E /\ x \in D /\ x \in SetOf(seq)
    BY <1>2, <1>4
  <2>3. e2[x] = [entry[x] EXCEPT !.next = top(index_of(entry[x].hash, cap), place[x] - 1)]
    <3> HIDE DEF top, place, E, D, seq
    <3> QED BY <2>2
  <2> HIDE DEF e2, top, place, seq
  <2> QED BY <2>1, <2>3, <1>6
<1>11. \A x \in D \ L : e2[x] = entry[x]
  <2> HIDE DEF top, place
  <2> QED BY <1>4
<1>12. \A x \in E \ D : e2[x] = Untouched
  <2> HIDE DEF top, place
  <2> QED OBVIOUS
<1>13. DOMAIN e2 = E
  OBVIOUS
<1>14. \A b \in 0 .. cap - 1 : b2[b] = LastOf(b, Len(seq))
  <2>1. \A b \in 0 .. cap - 1 : b2[b] = top(b, Len(seq))
    <3> HIDE DEF top
    <3> QED OBVIOUS
  <2> HIDE DEF b2, top
  <2> QED BY <2>1, <1>4, <1>6
<1>15. b2 = [b \in 0 .. cap - 1 |-> b2[b]] /\ e2 = [x \in E |-> e2[x]]
  <2> HIDE DEF top, E, place
  <2> QED OBVIOUS
<1> HIDE DEF b2, e2, seq, place, top, mine, O, LastOf
<1>16. \A x \in D : entry[x] \in EntryIn(D)
  BY <1>2 DEF Shape
<1>17. \A x \in L : /\ e2[x].key = entry[x].key /\ e2[x].val = entry[x].val
                    /\ e2[x].hash = entry[x].hash
                    /\ e2[x].next = LastOf(index_of(entry[x].hash, cap), place[x] - 1)
                    /\ e2[x] \in EntryIn(E)
  <2> SUFFICES ASSUME NEW x \in L
               PROVE  /\ e2[x].key = entry[x].key /\ e2[x].val = entry[x].val
                    /\ e2[x].hash = entry[x].hash
                    /\ e2[x].next = LastOf(index_of(entry[x].hash, cap), place[x] - 1)
                    /\ e2[x] \in EntryIn(E)
    OBVIOUS
  <2> DEFINE t == LastOf(index_of(entry[x].hash, cap), place[x] - 1)
  <2>1. t \in L \cup {Null}
    BY <1>9, <1>10
  <2>2. t \in E \cup {Null}
    BY <2>1, <1>2
  <2>3. entry[x] \in EntryIn(D) /\ e2[x] = [entry[x] EXCEPT !.next = t]
    BY <1>2, <1>10, <1>16
  <2> HIDE DEF t, E, D
  <2> QED BY <2>2, <2>3 DEF EntryIn, t
<1>18. \A x \in D : x \in L \/ e2[x] = entry[x]
  BY <1>11
<1>19. e2 \in [E -> EntryIn(E)]
  <2>1. \A x \in D \ L : e2[x] \in EntryIn(E)
    <3>1. \A x \in D : entry[x] \in EntryIn(E)
      BY <1>16 DEF EntryIn
    <3> QED BY <3>1, <1>11
  <2>2. Untouched \in EntryIn(E)
    BY DEF Untouched, EntryIn
  <2>3. \A x \in E : e2[x] \in EntryIn(E)
    <3> SUFFICES ASSUME NEW x \in E
                 PROVE  e2[x] \in EntryIn(E)
      OBVIOUS
    <3>1. CASE x \in L
      BY <3>1, <1>17
    <3>2. CASE x \in D \ L
      BY <3>2, <2>1
    <3>3. CASE x \in E \ D
      BY <3>3, <2>2, <1>12
    <3> QED BY <3>1, <3>2, <3>3
  <2> HIDE DEF E
  <2> QED BY <2>3, <1>15
<1>20. Shape(b2, e2, array + 1, cap, 0)
  <2>1. array \in Nat \ {0} /\ D \subseteq (1 .. array) \X Nat /\ IsFiniteSet(D)
    BY <1>2 DEF Shape
  <2>2. IsFiniteSet(E)
    <3>1. IsFiniteSet({array + 1}) /\ IsFiniteSet(0 .. cap - 1)
      BY FS_Singleton, BelowCounted
    <3>2. IsFiniteSet({array + 1} \X (0 .. cap - 1))
      BY <3>1, FS_Product
    <3> QED BY <2>1, <3>2, FS_Union
  <2>3. E \subseteq (1 .. array + 1) \X Nat
    <3>1. 1 .. array \subseteq 1 .. array + 1 /\ array + 1 \in 1 .. array + 1
      BY <2>1
    <3>2. 0 .. cap - 1 \subseteq Nat
      OBVIOUS
    <3>3. {array + 1} \X (0 .. cap - 1) \subseteq (1 .. array + 1) \X Nat
      BY <3>1, <3>2
    <3>4. D \subseteq (1 .. array + 1) \X Nat
      BY <2>1, <3>1
    <3> QED BY <3>3, <3>4
  <2>4. b2 \in [0 .. cap - 1 -> E \cup {Null}]
    <3>1. \A b \in 0 .. cap - 1 : b2[b] \in E \cup {Null}
      BY <1>2, <1>4, <1>9, <1>14
    <3> HIDE DEF E
    <3> QED BY <3>1, <1>15
  <2>5. array + 1 \in Nat \ {0} /\ 0 \in 0 .. cap
    BY <2>1
  <2>6. {array + 1} \X (0 .. cap - 1) \subseteq E
    OBVIOUS
  <2> HIDE DEF E
  <2> QED BY <2>2, <2>3, <2>4, <2>5, <2>6, <1>13, <1>19 DEF Shape
<1> DEFINE q == [x \in E |-> IF x \in L THEN Len(seq) - place[x]
                             ELSE IF x \in D THEN r[x] ELSE 0]
<1>21. /\ q \in [E -> Nat]
       /\ \A x \in L : q[x] = Len(seq) - place[x]
       /\ \A x \in D \ L : q[x] = r[x]
  <2>1. \A x \in L : x \in E /\ x \in D /\ Len(seq) - place[x] \in Nat
    BY <1>2, <1>4, <1>5
  <2>2. \A x \in D : r[x] \in Nat
    BY <1>2
  <2>3. \A x \in E : (IF x \in L THEN Len(seq) - place[x]
                             ELSE IF x \in D THEN r[x] ELSE 0) \in Nat
    BY <2>1, <2>2
  <2> HIDE DEF E
  <2>4. q \in [E -> Nat]
    BY <2>3
  <2>5. D \subseteq E
    BY DEF E
  <2> QED BY <2>1, <2>4, <2>5
<1> HIDE DEF q
<1>22. ASSUME NEW b \in 0 .. cap - 1
       PROVE  ChainOf(b2[b], Nexts(e2), Own(e2, cap, L, b), q)
  <2> DEFINE S == Own(entry, cap, L, b)
             nx == Nexts(e2)
  <2>1. Own(e2, cap, L, b) = S
    BY <1>17 DEF Own
  <2>2. S \in SUBSET L
    BY DEF Own
  <2>3. \A x \in S : nx[x] = Last(seq, S, place[x] - 1)
    <3> SUFFICES ASSUME NEW x \in S
                 PROVE  nx[x] = Last(seq, S, place[x] - 1)
      OBVIOUS
    <3>1. x \in L /\ index_of(entry[x].hash, cap) = b
      BY DEF Own
    <3>2. nx[x] = e2[x].next
      BY <3>1, <1>2, <1>13 DEF Nexts
    <3> QED BY <3>1, <3>2, <1>17 DEF LastOf, O
  <2>4. b2[b] = Last(seq, S, Len(seq))
    BY <1>14 DEF LastOf, O
  <2> HIDE DEF S, nx
  <2>5. ChainOf(Last(seq, S, Len(seq)), nx, S, q)
    BY ONLY <1>3, <1>5, <1>21, <2>2, <2>3, RelinkedChain
  <2> QED BY <2>1, <2>4, <2>5 DEF nx
<1>23. ChainOf(fr2.head, Nexts(e2), F2, q)
  <2>1. F2 \subseteq D \ L
    BY <1>2
  <2>2. \A x \in F2 : Nexts(e2)[x] = Nexts(entry)[x]
    BY <2>1, <1>11, <1>13 DEF Nexts
  <2>3. \A x \in F2 : q[x] = r[x] /\ r[x] \in Nat
    BY <2>1, <1>2, <1>21
  <2>4. Alike(r, q, F2)
    BY <2>3 DEF Alike
  <2>5. \A x \in F2 : r[x] \in Nat /\ q[x] \in Nat
    BY <2>3
  <2> QED BY <2>2, <2>4, <2>5, ChainStays
<1>24. /\ L \subseteq E /\ F2 \subseteq E /\ L \cap F2 = {}
       /\ ({array + 1} \X (0 .. cap - 1)) \cap (L \cup F2) = {}
  <2>1. array \in Nat /\ D \subseteq (1 .. array) \X Nat
    BY <1>2 DEF Shape
  <2>2. array + 1 \notin 1 .. array
    BY <2>1
  <2>3. ({array + 1} \X (0 .. cap - 1)) \cap D = {}
    BY <2>1, <2>2
  <2> QED BY <1>2, <2>3
<1>25. /\ \A x \in L : /\ e2[x].key \in Keys /\ e2[x].val \in Vals
                       /\ e2[x].hash = Hash[e2[x].key]
       /\ \A x, y \in L : e2[x].key = e2[y].key => x = y
  BY <1>2, <1>17
<1>26. Sound(b2, e2, array + 1, cap, 0, fr2, L, F2, q)
  <2> HIDE DEF E
  <2> QED BY <1>13, <1>20, <1>21, <1>22, <1>23, <1>24, <1>25 DEF Sound
<1>27. Relinks(entry, e2, L)
  BY <1>17 DEF Relinks
<1>28. Rehashed(cap).buckets = b2 /\ Rehashed(cap).entry = e2
       /\ Rehashed(cap).size = Len(seq)
  BY <1>1
<1> QED BY <1>4, <1>26, <1>27, <1>28

-----------------------------------------------------------------------------
(* What is stored                                                          *)

MapOf(e, L) ==
  [k \in Keys |-> IF \E p \in L : e[p].key = k
                  THEN e[CHOOSE p \in L : e[p].key = k].val ELSE None]

Apart(e, L) == \A p, q \in L : e[p].key = e[q].key => p = q

\* What the map holds under the key of an entry, and under other keys.
LEMMA MapAt ==
  ASSUME NEW e, NEW L, Apart(e, L), \A p \in L : e[p].key \in Keys
  PROVE  /\ \A p \in L : MapOf(e, L)[e[p].key] = e[p].val
         /\ \A k \in Keys : (\A p \in L : e[p].key # k) => MapOf(e, L)[k] = None
<1>1. ASSUME NEW p \in L
      PROVE  MapOf(e, L)[e[p].key] = e[p].val
  <2> DEFINE c == CHOOSE x \in L : e[x].key = e[p].key
  <2>1. c \in L /\ e[c].key = e[p].key
    OBVIOUS
  <2>2. c = p
    BY <2>1 DEF Apart
  <2>3. e[p].key \in Keys
    OBVIOUS
  <2>4. MapOf(e, L)[e[p].key] = e[c].val
    BY <2>3 DEF MapOf
  <2> HIDE DEF c
  <2> QED BY <2>2, <2>4
<1> QED BY <1>1 DEF MapOf

\* Two tables hold the same map if they hold the same pairs.
LEMMA SameMap ==
  ASSUME NEW e, NEW L, Apart(e, L), \A p \in L : e[p].key \in Keys,
         NEW m, m = [k \in Keys |-> m[k]],
         \A p \in L : m[e[p].key] = e[p].val,
         \A k \in Keys : (\A p \in L : e[p].key # k) => m[k] = None
  PROVE  MapOf(e, L) = m
<1>1. ASSUME NEW k \in Keys
      PROVE  MapOf(e, L)[k] = m[k]
  <2>1. CASE \A p \in L : e[p].key # k
    BY <2>1, MapAt
  <2>2. CASE \E p \in L : e[p].key = k
    <3>1. PICK p \in L : e[p].key = k
      BY <2>2
    <3> QED BY <3>1, MapAt
  <2> QED BY <2>1, <2>2
<1>2. MapOf(e, L) = [k \in Keys |-> MapOf(e, L)[k]]
  BY DEF MapOf
<1> QED BY <1>1, <1>2

\* Relinking keeps the map.
LEMMA MapRelinked ==
  ASSUME NEW e, NEW e2, NEW L, Apart(e, L), \A p \in L : e[p].key \in Keys,
         Relinks(e, e2, L)
  PROVE  MapOf(e2, L) = MapOf(e, L)
<1>1. \A p \in L : e2[p].key = e[p].key /\ e2[p].val = e[p].val
  BY DEF Relinks
<1>2. Apart(e2, L) /\ \A p \in L : e2[p].key \in Keys
  BY <1>1 DEF Apart
<1>3. /\ \A p \in L : MapOf(e, L)[e2[p].key] = e2[p].val
      /\ \A k \in Keys : (\A p \in L : e2[p].key # k) => MapOf(e, L)[k] = None
  BY <1>1, MapAt
<1>4. MapOf(e, L) = [k \in Keys |-> MapOf(e, L)[k]]
  BY DEF MapOf
<1> QED BY ONLY <1>2, <1>3, <1>4, SameMap

\* An entry is added.
LEMMA MapAdded ==
  ASSUME NEW e, NEW e2, NEW L, Apart(e, L), \A p \in L : e[p].key \in Keys,
         Relinks(e, e2, L),
         NEW p, NEW k \in Keys, NEW v, e2[p].key = k, e2[p].val = v,
         \A q \in L : e[q].key # k, NEW M, M = L \cup {p}
  PROVE  /\ MapOf(e2, M) = [MapOf(e, L) EXCEPT ![k] = v]
         /\ MapOf(e, L)[k] = None
<1> DEFINE m == [MapOf(e, L) EXCEPT ![k] = v]
<1>1. \A q \in L : e2[q].key = e[q].key /\ e2[q].val = e[q].val
  BY DEF Relinks
<1>2. Apart(e2, L \cup {p}) /\ \A q \in L \cup {p} : e2[q].key \in Keys
  BY <1>1 DEF Apart
<1>3. m = [x \in Keys |-> m[x]] /\ m[k] = v
      /\ \A x \in Keys \ {k} : m[x] = MapOf(e, L)[x]
  BY DEF MapOf
<1> HIDE DEF m
<1>4. \A q \in L : m[e2[q].key] = e2[q].val
  BY <1>1, <1>3, MapAt
<1>5. \A q \in L \cup {p} : m[e2[q].key] = e2[q].val
  BY <1>3, <1>4
<1>6. \A x \in Keys : (\A q \in L \cup {p} : e2[q].key # x) => m[x] = None
  BY <1>1, <1>3, MapAt
<1>7. MapOf(e2, M) = m
  <2>1. /\ Apart(e2, M) /\ (\A q \in M : e2[q].key \in Keys)
        /\ (\A q \in M : m[e2[q].key] = e2[q].val)
        /\ (\A x \in Keys : (\A q \in M : e2[q].key # x) => m[x] = None)
    BY <1>2, <1>5, <1>6
  <2> QED BY ONLY <2>1, <1>3, SameMap
<1>8. MapOf(e, L)[k] = None
  BY MapAt
<1> QED BY <1>7, <1>8 DEF m

\* A value is replaced.
LEMMA MapUpdated ==
  ASSUME NEW e, NEW e2, NEW L, Apart(e, L), \A p \in L : e[p].key \in Keys,
         NEW p \in L, NEW v, e2[p].key = e[p].key, e2[p].val = v,
         \A q \in L \ {p} : e2[q].key = e[q].key /\ e2[q].val = e[q].val
  PROVE  /\ MapOf(e2, L) = [MapOf(e, L) EXCEPT ![e[p].key] = v]
         /\ MapOf(e, L)[e[p].key] = e[p].val
<1> DEFINE k == e[p].key
           m == [MapOf(e, L) EXCEPT ![k] = v]
<1>1. \A q \in L : e2[q].key = e[q].key
  OBVIOUS
<1>2. Apart(e2, L) /\ \A q \in L : e2[q].key \in Keys
  BY <1>1 DEF Apart
<1>3. k \in Keys /\ m = [x \in Keys |-> m[x]] /\ m[k] = v
      /\ \A x \in Keys \ {k} : m[x] = MapOf(e, L)[x]
  BY DEF MapOf
<1> HIDE DEF m
<1>4. \A q \in L : m[e2[q].key] = e2[q].val
  <2> SUFFICES ASSUME NEW q \in L
               PROVE  m[e2[q].key] = e2[q].val
    OBVIOUS
  <2>1. CASE q = p
    BY <2>1, <1>3
  <2>2. CASE q # p
    <3>1. e[q].key # k
      BY <2>2 DEF Apart
    <3>2. MapOf(e, L)[e[q].key] = e[q].val
      BY MapAt
    <3> QED BY <2>2, <3>1, <3>2, <1>2, <1>3
  <2> QED BY <2>1, <2>2
<1>5. \A x \in Keys : (\A q \in L : e2[q].key # x) => m[x] = None
  BY <1>1, <1>3, MapAt
<1>6. MapOf(e2, L) = m
  BY ONLY <1>2, <1>3, <1>4, <1>5, SameMap
<1>7. MapOf(e, L)[k] = e[p].val
  BY MapAt
<1> QED BY <1>6, <1>7 DEF m

\* An entry is removed.
LEMMA MapLess ==
  ASSUME NEW e, NEW e2, NEW L, Apart(e, L), \A p \in L : e[p].key \in Keys,
         NEW p \in L, NEW k, e[p].key = k, NEW M, M = L \ {p}, Relinks(e, e2, M)
  PROVE  /\ MapOf(e2, M) = [MapOf(e, L) EXCEPT ![k] = None]
         /\ MapOf(e, L)[k] = e[p].val
<1> DEFINE m == [MapOf(e, L) EXCEPT ![k] = None]
<1>1. \A q \in M : q \in L /\ q # p /\ e2[q].key = e[q].key /\ e2[q].val = e[q].val
  BY DEF Relinks
<1>2. Apart(e2, M) /\ \A q \in M : e2[q].key \in Keys
  BY <1>1 DEF Apart
<1>3. k \in Keys /\ m = [x \in Keys |-> m[x]] /\ m[k] = None
      /\ \A x \in Keys \ {k} : m[x] = MapOf(e, L)[x]
  BY DEF MapOf
<1> HIDE DEF m
<1>4. \A q \in M : m[e2[q].key] = e2[q].val
  <2> SUFFICES ASSUME NEW q \in M
               PROVE  m[e2[q].key] = e2[q].val
    OBVIOUS
  <2>1. e[q].key # k
    BY <1>1 DEF Apart
  <2>2. MapOf(e, L)[e[q].key] = e[q].val
    BY <1>1, MapAt
  <2> QED BY <2>1, <2>2, <1>1, <1>3
<1>5. ASSUME NEW x \in Keys, \A q \in M : e2[q].key # x
      PROVE  m[x] = None
  <2>1. CASE x = k
    BY <2>1, <1>3
  <2>2. CASE x # k
    <3>1. \A q \in L : e[q].key # x
      BY <2>2, <1>1, <1>5
    <3> QED BY <2>2, <3>1, <1>3, MapAt
  <2> QED BY <2>1, <2>2
<1>6. MapOf(e2, M) = m
  BY ONLY <1>2, <1>3, <1>4, <1>5, SameMap
<1>7. MapOf(e, L)[k] = e[p].val
  BY MapAt
<1> QED BY <1>6, <1>7 DEF m

\* Entries have different keys, and there are finitely many.
LEMMA SoundApart ==
  ASSUME NEW bs, NEW e, NEW ar, NEW cap, NEW n, NEW fr, NEW L, NEW F, NEW r,
         Sound(bs, e, ar, cap, n, fr, L, F, r)
  PROVE  /\ Apart(e, L)
         /\ \A p \in L : e[p].key \in Keys /\ e[p].val \in Vals
         /\ L \subseteq DOMAIN e /\ F \subseteq DOMAIN e /\ IsFiniteSet(L) /\ IsFiniteSet(F)
         /\ Shape(bs, e, ar, cap, n)
<1>1. IsFiniteSet(DOMAIN e) /\ L \subseteq DOMAIN e /\ F \subseteq DOMAIN e
  BY DEF Sound, Shape
<1>2. IsFiniteSet(L) /\ IsFiniteSet(F)
  BY <1>1, FS_Subset
<1> QED BY <1>1, <1>2 DEF Sound, Apart

\* What is stored, in the terms of the model.
LEMMA StoredIs ==
  DictionaryExAssumption =>
    \A L, F, r : Sound(buckets, entry, array, capacity, count, free, L, F, r) =>
      Stored = MapOf(entry, L)
<1> SUFFICES ASSUME DictionaryExAssumption, NEW L, NEW F, NEW r,
                    Sound(buckets, entry, array, capacity, count, free, L, F, r)
             PROVE  Stored = MapOf(entry, L)
  OBVIOUS
<1>1. Chained = L
  BY AllListed
<1>2. Apart(entry, L) /\ \A p \in L : entry[p].key \in Keys
  BY SoundApart
<1> DEFINE holding(k) == {p \in L : entry[p].key = k}
<1>3. Stored = [k \in Keys |-> IF holding(k) = {} THEN None
                               ELSE entry[CHOOSE p \in holding(k) : TRUE].val]
  BY <1>1 DEF Stored
<1>4. ASSUME NEW k \in Keys
      PROVE  Stored[k] = MapOf(entry, L)[k]
  <2>1. CASE holding(k) = {}
    <3>1. \A p \in L : entry[p].key # k
      BY <2>1
    <3> QED BY <2>1, <3>1, <1>2, <1>3, MapAt
  <2>2. CASE holding(k) # {}
    <3> DEFINE c == CHOOSE p \in holding(k) : TRUE
    <3>1. c \in holding(k)
      BY <2>2
    <3>2. Stored[k] = entry[c].val
      BY <2>2, <1>3
    <3>3. c \in L /\ entry[c].key = k
      BY <3>1
    <3> HIDE DEF c
    <3> QED BY <3>2, <3>3, <1>2, MapAt
  <2> QED BY <2>1, <2>2
<1>5. MapOf(entry, L) = [k \in Keys |-> MapOf(entry, L)[k]] /\ Stored = [k \in Keys |-> Stored[k]]
  BY <1>3 DEF MapOf
<1> QED BY <1>4, <1>5

\* The same in the next state.
LEMMA StoredNext ==
  DictionaryExAssumption =>
    \A L, F, r : Sound(buckets', entry', array', capacity', count', free', L, F, r) =>
      Stored' = MapOf(entry', L)
<1>1. (DictionaryExAssumption =>
        \A L, F, r : Sound(buckets, entry, array, capacity, count, free, L, F, r) =>
          Stored = MapOf(entry, L))'
  BY StoredIs, PTL
<1> QED BY <1>1

-----------------------------------------------------------------------------
(* Steps                                                                   *)

Now(L, F, r) == Filed(buckets, entry, array, capacity, count, free, size, call, L, F, r)
Then(L, F, r) ==
  Filed(buckets', entry', array', capacity', count', free', size', call', L, F, r)

\* What a step does to the map, whatever it does to the tables.
Becomes(L, m) == \E L2, F2, r2 : Then(L2, F2, r2) /\ MapOf(entry', L2) = m

\* A call that starts stands at the head of the chain of its key.
LEMMA StartKeeps ==
  ASSUME DictionaryExAssumption, NEW L, NEW F, NEW r, Now(L, F, r),
         NEW op \in {"find", "insert", "erase"}, NEW k \in Keys, NEW v \in Vals \cup {None},
         op = "insert" => v \in Vals, Start(op, k, v), UNCHANGED memory
  PROVE  Becomes(L, MapOf(entry, L))
<1> DEFINE ix == index_of(Hash[k], capacity)
           O == Own(entry, capacity, L, ix)
<1>1. Sound(buckets, entry, array, capacity, count, free, L, F, r) /\ size = Cardinality(L)
  BY DEF Now, Filed
<1>2. capacity \in Nat \ {0} /\ Hash[k] \in Nat
  BY <1>1, OwnIndex DEF DictionaryExAssumption
<1>3. ix \in 0 .. capacity - 1
  BY <1>2, IndexIn
<1>4. First(buckets[ix], O, r) /\ L \subseteq DOMAIN entry /\ r \in [DOMAIN entry -> Nat]
  BY <1>1, <1>3 DEF Sound, ChainOf
<1>5. O \subseteq L
  BY DEF Own
<1>6. call' = [op |-> op, key |-> k, val |-> v, before |-> Null, cur |-> buckets[ix]]
  BY DEF Start
<1>7. buckets[ix] \in O \cup {Null}
  BY <1>4 DEF First
<1>8. \A p \in O : buckets[ix] # Null /\ ~(r[p] < r[buckets[ix]])
  <2> SUFFICES ASSUME NEW p \in O
               PROVE  buckets[ix] # Null /\ ~(r[p] < r[buckets[ix]])
    OBVIOUS
  <2>1. buckets[ix] \in O /\ \A q \in O \ {buckets[ix]} : r[buckets[ix]] < r[q]
    BY <1>4 DEF First
  <2>2. r[p] \in Nat /\ r[buckets[ix]] \in Nat
    BY <2>1, <1>4, <1>5
  <2>3. Null \notin DOMAIN entry
    BY <1>1, SoundApart, NullOutside
  <2>4. buckets[ix] # Null
    BY <2>1, <2>3, <1>4, <1>5
  <2>5. p = buckets[ix] \/ r[buckets[ix]] < r[p]
    BY <2>1
  <2> QED BY <2>2, <2>4, <2>5
<1>9. call'.key = k /\ call'.cur = buckets[ix] /\ call'.before = Null /\ call'.op = op
      /\ call'.val = v
  BY <1>6
<1>10. call' \in [op : {"find", "insert", "erase"}, key : Keys,
                  val : Vals \cup {None}, before : L \cup {Null}, cur : L \cup {Null}]
  BY <1>5, <1>6, <1>7
<1>11. Searching(buckets, entry, capacity, call', L, r)
  <2> HIDE DEF O
  <2> QED BY <1>7, <1>8, <1>9, <1>10 DEF Searching, O
<1>12. Then(L, F, r) /\ entry' = entry
  <2>1. /\ buckets' = buckets /\ entry' = entry /\ array' = array /\ size' = size
        /\ count' = count /\ capacity' = capacity /\ free' = free
    BY DEF memory
  <2> QED BY <1>1, <1>11, <2>1 DEF Then, Filed
<1> QED BY <1>12 DEF Becomes

\* Where a call that has not returned stands.
LEMMA CallIs ==
  ASSUME DictionaryExAssumption, NEW L, NEW F, NEW r, Now(L, F, r), call.op # "none"
  PROVE  LET ix == index_of(Hash[call.key], capacity)
             O == Own(entry, capacity, L, ix)
         IN  /\ call \in [op : {"find", "insert", "erase"}, key : Keys,
                          val : Vals \cup {None}, before : L \cup {Null},
                          cur : L \cup {Null}]
             /\ call.op = "insert" => call.val \in Vals
             /\ call.cur # Null => call.cur \in O
             /\ call.before = Null => call.cur = buckets[ix]
             /\ call.before # Null => call.before \in O /\ entry[call.before].next = call.cur
             /\ \A p \in O : call.cur = Null \/ r[p] < r[call.cur]
                               => entry[p].key # call.key
             /\ ix \in 0 .. capacity - 1 /\ Hash[call.key] \in Nat
<1>1. Searching(buckets, entry, capacity, call, L, r)
      /\ Sound(buckets, entry, array, capacity, count, free, L, F, r)
  BY DEF Now, Filed
<1>2. call # Idle
  BY DEF Idle
<1>3. call.key \in Keys
  BY <1>1, <1>2 DEF Searching
<1>4. Hash[call.key] \in Nat /\ capacity \in Nat \ {0}
  BY <1>1, <1>3, OwnIndex DEF DictionaryExAssumption
<1> QED BY <1>1, <1>2, <1>4, IndexIn DEF Searching

\* A call in progress is one of the three.
LEMMA CallGoes ==
  ASSUME DictionaryExAssumption, NEW L, NEW F, NEW r, Now(L, F, r), call # Idle
  PROVE  call.op # "none"
BY DEF Now, Filed, Searching

\* A round of the loop: an entry of another hash is passed, and an entry of
\* equal hash and another key is not.
LEMMA ScanKeeps ==
  ASSUME DictionaryExAssumption, NEW L, NEW F, NEW r, Now(L, F, r), Scan
  PROVE  Becomes(L, MapOf(entry, L))
<1> DEFINE ix == index_of(Hash[call.key], capacity)
           O == Own(entry, capacity, L, ix)
           c == call.cur
           d == entry[c].next
<1>1. call # Idle /\ c # Null /\ ~Match /\ UNCHANGED memory
  BY DEF Scan
<1>2. call.op # "none"
  BY <1>1, CallGoes
<1>3. /\ call \in [op : {"find", "insert", "erase"}, key : Keys,
                   val : Vals \cup {None}, before : L \cup {Null}, cur : L \cup {Null}]
      /\ call.op = "insert" => call.val \in Vals
      /\ c \in O
      /\ \A p \in O : r[p] < r[c] => entry[p].key # call.key
      /\ ix \in 0 .. capacity - 1
  BY <1>1, <1>2, CallIs
<1>4. Sound(buckets, entry, array, capacity, count, free, L, F, r) /\ size = Cardinality(L)
      /\ Searching(buckets, entry, capacity, call, L, r)
  BY DEF Now, Filed
<1>5. /\ buckets' = buckets /\ entry' = entry /\ array' = array /\ size' = size
      /\ count' = count /\ capacity' = capacity /\ free' = free
  BY <1>1 DEF memory
<1>6. CASE entry[c].hash = Hash[call.key]
  <2>1. call' = call
    BY <1>6 DEF Scan
  <2>2. Then(L, F, r)
    BY <1>4, <1>5, <2>1 DEF Then, Filed
  <2> QED BY <1>5, <2>2 DEF Becomes
<1>7. CASE entry[c].hash # Hash[call.key]
  <2>1. call' = [call EXCEPT !.before = c, !.cur = d]
    BY <1>7 DEF Scan
  <2>2. c \in L /\ O \subseteq L
    BY <1>3 DEF Own
  <2>3. entry[c].key # call.key
    BY <2>2, <1>4, <1>7 DEF Sound
  <2>4. /\ First(Nexts(entry)[c], Behind(c, O, r), r)
        /\ L \subseteq DOMAIN entry /\ r \in [DOMAIN entry -> Nat]
        /\ \A p, q \in O : r[p] = r[q] => p = q
    BY <1>3, <1>4 DEF Sound, ChainOf
  <2>5. Nexts(entry)[c] = d
    BY <2>2, <2>4 DEF Nexts
  <2>6. d \in O \cup {Null}
    BY <2>4, <2>5 DEF First, Behind
  <2>7. Null \notin DOMAIN entry
    BY <1>4, SoundApart, NullOutside
  <2>8. ASSUME NEW p \in O, d = Null \/ r[p] < r[d]
        PROVE  entry[p].key # call.key
    <3>1. r[p] \in Nat /\ r[c] \in Nat
      BY <2>2, <2>4
    <3>2. p \notin Behind(c, O, r)
      <4> SUFFICES ASSUME p \in Behind(c, O, r)
                   PROVE  FALSE
        OBVIOUS
      <4>1. d \in Behind(c, O, r) /\ (p = d \/ r[d] < r[p])
        BY <2>4, <2>5 DEF First
      <4>2. d \in DOMAIN entry /\ d # Null /\ r[d] \in Nat
        BY <4>1, <2>2, <2>4, <2>7 DEF Behind
      <4> QED BY <4>1, <4>2, <3>1, <2>8
    <3>3. ~(r[c] < r[p])
      BY <3>2 DEF Behind
    <3>4. CASE r[p] < r[c]
      BY <3>4, <1>3
    <3>5. CASE r[p] = r[c]
      BY <3>5, <2>3, <2>4, <1>3
    <3> QED BY <3>1, <3>3, <3>4, <3>5
  <2>9. /\ call'.key = call.key /\ call'.op = call.op /\ call'.val = call.val
        /\ call'.before = c /\ call'.cur = d
        /\ call' \in [op : {"find", "insert", "erase"}, key : Keys,
                   val : Vals \cup {None}, before : L \cup {Null}, cur : L \cup {Null}]
    BY <2>1, <2>2, <2>6, <1>3
  <2>10. Searching(buckets, entry, capacity, call', L, r)
    <3> HIDE DEF O, c
    <3>1. \A p \in O : call'.cur = Null \/ r[p] < r[call'.cur] => entry[p].key # call'.key
      BY <2>8, <2>9
    <3> QED BY <2>6, <2>9, <3>1, <1>1, <1>3 DEF Searching, O
  <2>11. Then(L, F, r)
    BY <1>4, <1>5, <2>10 DEF Then, Filed
  <2> QED BY <1>5, <2>11 DEF Becomes
<1> QED BY <1>6, <1>7

\* A call that returns without a change.
LEMMA ReturnKeeps ==
  ASSUME DictionaryExAssumption, NEW L, NEW F, NEW r, Now(L, F, r), Done,
         UNCHANGED memory
  PROVE  Becomes(L, MapOf(entry, L))
<1>1. /\ buckets' = buckets /\ entry' = entry /\ array' = array /\ size' = size
      /\ count' = count /\ capacity' = capacity /\ free' = free
  BY DEF memory
<1>2. Then(L, F, r)
  BY <1>1 DEF Now, Then, Filed, Done, Searching
<1> QED BY <1>1, <1>2 DEF Becomes

\* Where a search has found its key.
LEMMA MatchIs ==
  ASSUME DictionaryExAssumption, NEW L, NEW F, NEW r, Now(L, F, r), call.op # "none",
         Match
  PROVE  /\ call.cur \in L /\ entry[call.cur].key = call.key
         /\ entry[call.cur].val \in Vals /\ call.key \in Keys
         /\ call.cur \in DOMAIN entry
BY CallIs, SoundApart DEF Match, Now, Filed, Own

\* No entry of the key is stored when a search has come to the end.
LEMMA MissIs ==
  ASSUME DictionaryExAssumption, NEW L, NEW F, NEW r, Now(L, F, r), call.op # "none",
         call.cur = Null
  PROVE  /\ \A p \in L : entry[p].key # call.key
         /\ call.key \in Keys
<1> DEFINE ix == index_of(Hash[call.key], capacity)
           O == Own(entry, capacity, L, ix)
<1>1. (\A p \in O : entry[p].key # call.key) /\ call.key \in Keys
  BY CallIs
<1>2. \A p \in L : entry[p].hash = Hash[entry[p].key]
  BY DEF Now, Filed, Sound
<1>3. \A p \in L : entry[p].key = call.key => p \in O
  BY <1>2 DEF Own
<1> QED BY <1>1, <1>3

\* insert of a key that is stored replaces the value.
LEMMA UpdateKeeps ==
  ASSUME DictionaryExAssumption, NEW L, NEW F, NEW r, Now(L, F, r), InsertUpdate
  PROVE  /\ Becomes(L, [MapOf(entry, L) EXCEPT ![call.key] = call.val])
         /\ call.key \in Keys /\ call.val \in Vals /\ MapOf(entry, L)[call.key] # None
         /\ size' = size
<1> DEFINE c == call.cur
           v == call.val
           e2 == [entry EXCEPT ![c].val = v]
           D == DOMAIN entry
<1>1. call.op = "insert" /\ Match /\ entry' = e2 /\ call' = Idle
  BY DEF InsertUpdate, Done
<1>2. /\ buckets' = buckets /\ array' = array /\ size' = size
      /\ count' = count /\ capacity' = capacity /\ free' = free
  BY DEF InsertUpdate
<1>3. c \in L /\ entry[c].key = call.key /\ entry[c].val \in Vals /\ call.key \in Keys
      /\ c \in D
  BY <1>1, MatchIs
<1>4. v \in Vals
  BY <1>1, CallIs
<1>5. /\ Shape(buckets, entry, array, capacity, count)
      /\ L \subseteq D /\ F \subseteq D /\ L \cap F = {}
      /\ ({array} \X (count .. capacity - 1)) \cap (L \cup F) = {}
      /\ r \in [D -> Nat]
      /\ \A p \in L : /\ entry[p].key \in Keys /\ entry[p].val \in Vals
                      /\ entry[p].hash = Hash[entry[p].key]
      /\ \A p, q \in L : entry[p].key = entry[q].key => p = q
      /\ \A b \in 0 .. capacity - 1 :
           ChainOf(buckets[b], Nexts(entry), Own(entry, capacity, L, b), r)
      /\ ChainOf(free.head, Nexts(entry), F, r) /\ free.size = Cardinality(F)
      /\ size = Cardinality(L)
  BY DEF Now, Filed, Sound
<1>6. entry \in [D -> EntryIn(D)]
  BY <1>5 DEF Shape
<1>7. [entry[c] EXCEPT !.val = v] \in EntryIn(D)
      /\ [entry[c] EXCEPT !.val = v].val = v
      /\ [entry[c] EXCEPT !.val = v].key = entry[c].key
      /\ [entry[c] EXCEPT !.val = v].hash = entry[c].hash
      /\ [entry[c] EXCEPT !.val = v].next = entry[c].next
  <2>1. entry[c] \in EntryIn(D)
    BY <1>3, <1>6
  <2> HIDE DEF D
  <2> QED BY <2>1, <1>4 DEF EntryIn
<1>8. /\ DOMAIN e2 = D /\ e2 \in [D -> EntryIn(D)]
      /\ e2[c] = [entry[c] EXCEPT !.val = v]
      /\ \A x \in D \ {c} : e2[x] = entry[x]
  <2>1. e2 = [entry EXCEPT ![c] = [entry[c] EXCEPT !.val = v]]
    OBVIOUS
  <2> HIDE DEF e2, D
  <2> QED BY <2>1, <1>3, <1>6, <1>7
<1> HIDE DEF e2
<1>9. \A x \in D : e2[x].key = entry[x].key /\ e2[x].hash = entry[x].hash
                   /\ e2[x].next = entry[x].next
  BY <1>7, <1>8
<1>10. e2[c].val = v /\ \A x \in D \ {c} : e2[x].val = entry[x].val
  BY <1>7, <1>8
<1>11. Nexts(e2) = Nexts(entry)
  BY <1>8, <1>9 DEF Nexts
<1>12. Shape(buckets, e2, array, capacity, count)
  BY <1>5, <1>8 DEF Shape
<1>13. \A b : Own(e2, capacity, L, b) = Own(entry, capacity, L, b)
  BY <1>5, <1>9 DEF Own
<1>14. /\ \A p \in L : /\ e2[p].key \in Keys /\ e2[p].val \in Vals
                       /\ e2[p].hash = Hash[e2[p].key]
       /\ \A p, q \in L : e2[p].key = e2[q].key => p = q
  BY <1>4, <1>5, <1>9, <1>10
<1>15. Sound(buckets, e2, array, capacity, count, free, L, F, r)
  BY <1>5, <1>8, <1>11, <1>12, <1>13, <1>14 DEF Sound
<1>16. Then(L, F, r)
  BY <1>1, <1>2, <1>5, <1>15 DEF Then, Filed, Searching
<1>17. /\ MapOf(e2, L) = [MapOf(entry, L) EXCEPT ![call.key] = v]
       /\ MapOf(entry, L)[call.key] = entry[c].val
  <2>1. Apart(entry, L)
    BY <1>5 DEF Apart
  <2>2. \A q \in L \ {c} : e2[q].key = entry[q].key /\ e2[q].val = entry[q].val
    BY <1>5, <1>9, <1>10
  <2>3. e2[c].key = entry[c].key /\ e2[c].val = v
    BY <1>3, <1>9, <1>10
  <2>4. \A p \in L : entry[p].key \in Keys
    BY <1>5
  <2>5. /\ MapOf(e2, L) = [MapOf(entry, L) EXCEPT ![entry[c].key] = v]
        /\ MapOf(entry, L)[entry[c].key] = entry[c].val
    <3> HIDE DEF c, v
    <3> QED BY ONLY <2>1, <2>2, <2>3, <2>4, <1>3, MapUpdated
  <2> QED BY <2>5, <1>3
<1>18. MapOf(entry, L)[call.key] # None
  BY <1>3, <1>17 DEF DictionaryExAssumption
<1> QED BY <1>1, <1>2, <1>3, <1>4, <1>16, <1>17, <1>18 DEF Becomes

\* An entry linked into tables that hold L.
LEMMA LinkedKeeps ==
  ASSUME DictionaryExAssumption,
         NEW bs, NEW e, NEW ar, NEW cap, NEW n, NEW fr, NEW L, NEW F, NEW r,
         Sound(bs, e, ar, cap, n, fr, L, F, r),
         NEW F2 \in SUBSET F,
         ChainOf(free'.head, Nexts(e), F2, r), free'.size = Cardinality(F2),
         count' \in 0 .. cap, n <= count',
         NEW p \in DOMAIN e, p \notin L, p \notin F2,
         p \notin {ar} \X (count' .. cap - 1),
         call.key \in Keys, call.val \in Vals, \A q \in L : e[q].key # call.key,
         Linked(bs, e, cap, p), array' = ar, capacity' = cap, size' = Cardinality(L) + 1,
         call' = Idle
  PROVE  Becomes(L, [MapOf(e, L) EXCEPT ![call.key] = call.val])
         /\ MapOf(e, L)[call.key] = None
<1> DEFINE k == call.key
           v == call.val
           n2 == count'
           fr2 == free'
           e2 == PushedIn(bs, e, cap, k, v, p)
           b2 == PushedHead(bs, cap, k, p)
<1>1. buckets' = b2 /\ entry' = e2
  BY DEF Linked, PushedHead, PushedIn, EntryOf
<1>2. \E q : Sound(b2, e2, ar, cap, n2, fr2, L \cup {p}, F2, q)
  <2>1. n2 \in 0 .. cap /\ n <= n2 /\ ChainOf(fr2.head, Nexts(e), F2, r)
        /\ fr2.size = Cardinality(F2) /\ p \notin {ar} \X (n2 .. cap - 1)
        /\ k \in Keys /\ v \in Vals /\ \A q \in L : e[q].key # k
    OBVIOUS
  <2> HIDE DEF n2, fr2, k, v
  <2> QED BY <2>1, PushSound
<1>3. Apart(e, L) /\ (\A q \in L : e[q].key \in Keys) /\ L \subseteq DOMAIN e
      /\ IsFiniteSet(L) /\ Shape(bs, e, ar, cap, n)
  BY SoundApart
<1>4. /\ e2[p] = EntryOf(k, v, bs[index_of(Hash[k], cap)])
      /\ \A x \in DOMAIN e \ {p} : e2[x] = e[x]
  <2>1. n2 \in 0 .. cap /\ k \in Keys /\ v \in Vals
    OBVIOUS
  <2> HIDE DEF n2, k, v
  <2> QED BY <1>3, <2>1, PushShape
<1> HIDE DEF e2, b2
<1>5. Relinks(e, e2, L) /\ e2[p].key = k /\ e2[p].val = v
  BY <1>3, <1>4 DEF Relinks, EntryOf
<1>6. MapOf(e2, L \cup {p}) = [MapOf(e, L) EXCEPT ![k] = v] /\ MapOf(e, L)[k] = None
  <2>1. k \in Keys /\ \A q \in L : e[q].key # k
    OBVIOUS
  <2> HIDE DEF k, v
  <2>2. /\ Apart(e, L) /\ \A q \in L : e[q].key \in Keys
        /\ Relinks(e, e2, L)
        /\ k \in Keys /\ e2[p].key = k /\ e2[p].val = v
        /\ \A q \in L : e[q].key # k
    BY <1>3, <1>5, <2>1
  <2>3. MapOf(e, L)[k] = None
    BY ONLY <2>2, MapAt
  <2> DEFINE M == L \cup {p}
  <2>4. M = L \cup {p}
    OBVIOUS
  <2> HIDE DEF M
  <2>5. MapOf(e2, M) = [MapOf(e, L) EXCEPT ![k] = v]
    BY ONLY <2>2, <2>4, MapAdded
  <2> QED BY <2>3, <2>4, <2>5
<1>7. Cardinality(L \cup {p}) = Cardinality(L) + 1
  BY <1>3, FS_AddElement
<1>8. PICK q : Sound(b2, e2, ar, cap, n2, fr2, L \cup {p}, F2, q)
  BY <1>2
<1>9. Then(L \cup {p}, F2, q)
  BY <1>1, <1>7, <1>8 DEF Then, Filed, Searching
<1> QED BY <1>1, <1>6, <1>9 DEF Becomes

\* insert takes the first entry of the free list.
LEMMA ReuseKeeps ==
  ASSUME DictionaryExAssumption, NEW L, NEW F, NEW r, Now(L, F, r), InsertReuse
  PROVE  /\ Becomes(L, [MapOf(entry, L) EXCEPT ![call.key] = call.val])
         /\ call.key \in Keys /\ call.val \in Vals /\ MapOf(entry, L)[call.key] = None
         /\ size' = size + 1
<1> DEFINE p == free.head
<1>1. /\ call.op = "insert" /\ call.cur = Null /\ free.size > 0
      /\ Linked(buckets, entry, capacity, p)
      /\ free' = [head |-> entry[p].next, size |-> free.size - 1]
      /\ size' = size + 1 /\ call' = Idle
      /\ array' = array /\ count' = count /\ capacity' = capacity
  BY DEF InsertReuse, InsertMiss, Done
<1>2. Sound(buckets, entry, array, capacity, count, free, L, F, r) /\ size = Cardinality(L)
  BY DEF Now, Filed
<1>3. /\ ChainOf(p, Nexts(entry), F, r) /\ free.size = Cardinality(F)
      /\ F \subseteq DOMAIN entry /\ r \in [DOMAIN entry -> Nat] /\ L \cap F = {}
      /\ ({array} \X (count .. capacity - 1)) \cap (L \cup F) = {}
      /\ count \in 0 .. capacity
  BY <1>2 DEF Sound, Shape
<1>4. F # {} /\ IsFiniteSet(F)
  BY <1>1, <1>2, <1>3, FS_EmptySet, SoundApart
<1>5. p \in F /\ ChainOf(Nexts(entry)[p], Nexts(entry), F \ {p}, r)
  <2>1. \A x \in F : r[x] \in Nat
    BY <1>3
  <2> HIDE DEF p
  <2> QED BY <1>3, <1>4, <2>1, ChainLessFirst
<1>6. Nexts(entry)[p] = entry[p].next /\ p \in DOMAIN entry
  BY <1>3, <1>5 DEF Nexts
<1>7. Cardinality(F \ {p}) = Cardinality(F) - 1
  BY <1>4, <1>5, FS_RemoveElement
<1>8. free'.head = entry[p].next /\ free'.size = Cardinality(F \ {p})
  BY <1>1, <1>3, <1>7
<1>9. call.key \in Keys /\ call.val \in Vals /\ \A q \in L : entry[q].key # call.key
  BY <1>1, CallIs, MissIs
<1>10. count' \in 0 .. capacity /\ count <= count'
  BY <1>1, <1>3
<1>11. p \notin L /\ p \notin F \ {p} /\ p \notin {array} \X (count' .. capacity - 1)
       /\ F \ {p} \in SUBSET F
  BY <1>1, <1>3, <1>5
<1>12. ChainOf(free'.head, Nexts(entry), F \ {p}, r)
  BY <1>5, <1>6, <1>8
<1>13. size' = Cardinality(L) + 1
  BY <1>1, <1>2
<1> DEFINE F2 == F \ {p}
<1>14. /\ Becomes(L, [MapOf(entry, L) EXCEPT ![call.key] = call.val])
       /\ MapOf(entry, L)[call.key] = None
  <2>1. /\ F2 \in SUBSET F /\ ChainOf(free'.head, Nexts(entry), F2, r)
        /\ free'.size = Cardinality(F2) /\ p \notin F2 /\ p \notin L
        /\ p \in DOMAIN entry /\ p \notin {array} \X (count' .. capacity - 1)
        /\ Linked(buckets, entry, capacity, p)
        /\ array' = array /\ capacity' = capacity /\ call' = Idle
    BY <1>1, <1>6, <1>8, <1>11, <1>12
  <2> HIDE DEF p, F2
  <2> QED
    BY ONLY DictionaryExAssumption, <1>2, <1>9, <1>10, <1>13, <2>1, LinkedKeeps
<1> QED BY <1>1, <1>9, <1>14

\* insert takes the next entry of the open array.
LEMMA NextKeeps ==
  ASSUME DictionaryExAssumption, NEW L, NEW F, NEW r, Now(L, F, r), InsertNext
  PROVE  /\ Becomes(L, [MapOf(entry, L) EXCEPT ![call.key] = call.val])
         /\ call.key \in Keys /\ call.val \in Vals /\ MapOf(entry, L)[call.key] = None
         /\ size' = size + 1
<1> DEFINE p == <<array, count>>
<1>1. /\ call.op = "insert" /\ call.cur = Null /\ free.size = 0 /\ ~Full
      /\ Linked(buckets, entry, capacity, p)
      /\ count' = count + 1 /\ size' = size + 1 /\ call' = Idle
      /\ array' = array /\ free' = free /\ capacity' = capacity
  BY DEF InsertNext, InsertMiss, Done
<1>2. Sound(buckets, entry, array, capacity, count, free, L, F, r) /\ size = Cardinality(L)
  BY DEF Now, Filed
<1>3. /\ ChainOf(free.head, Nexts(entry), F, r) /\ free.size = Cardinality(F)
      /\ ({array} \X (count .. capacity - 1)) \cap (L \cup F) = {}
      /\ count \in 0 .. capacity /\ capacity \in Nat \ {0}
      /\ {array} \X (0 .. capacity - 1) \subseteq DOMAIN entry
  BY <1>2 DEF Sound, Shape
<1>4. count < capacity
  BY <1>1, <1>3 DEF Full
<1>5. p \in DOMAIN entry /\ p \notin L /\ p \notin F
  <2>1. count \in 0 .. capacity - 1 /\ count \in count .. capacity - 1
    BY <1>3, <1>4
  <2>2. p \in {array} \X (0 .. capacity - 1) /\ p \in {array} \X (count .. capacity - 1)
    BY <2>1
  <2> QED BY <2>2, <1>3
<1>6. p \notin {array} \X (count' .. capacity - 1)
  <2>1. count \notin count + 1 .. capacity - 1
    BY <1>3
  <2> QED BY <2>1, <1>1
<1>7. call.key \in Keys /\ call.val \in Vals /\ \A q \in L : entry[q].key # call.key
  BY <1>1, CallIs, MissIs
<1>8. count' \in 0 .. capacity /\ count <= count' /\ size' = Cardinality(L) + 1
  BY <1>1, <1>2, <1>3, <1>4
<1>9. /\ Becomes(L, [MapOf(entry, L) EXCEPT ![call.key] = call.val])
      /\ MapOf(entry, L)[call.key] = None
  <2>1. F \in SUBSET F /\ ChainOf(free'.head, Nexts(entry), F, r)
        /\ free'.size = Cardinality(F)
    BY <1>1, <1>3
  <2> HIDE DEF p
  <2> QED BY <1>1, <1>2, <1>5, <1>6, <1>7, <1>8, <2>1, LinkedKeeps
<1> QED BY <1>1, <1>7, <1>9

\* insert doubles the table and takes the first entry of the new array.
LEMMA GrowKeeps ==
  ASSUME DictionaryExAssumption, NEW L, NEW F, NEW r, Now(L, F, r), InsertGrow
  PROVE  /\ Becomes(L, [MapOf(entry, L) EXCEPT ![call.key] = call.val])
         /\ call.key \in Keys /\ call.val \in Vals /\ MapOf(entry, L)[call.key] = None
         /\ size' = size + 1
<1> DEFINE cap == 2 * capacity
           b2 == Rehashed(cap).buckets
           e2 == Rehashed(cap).entry
           p == <<array + 1, 0>>
           none == EmptyFree
<1>1. /\ call.op = "insert" /\ call.cur = Null
      /\ Linked(b2, e2, cap, p)
      /\ size' = Rehashed(cap).size + 1 /\ capacity' = cap
      /\ array' = array + 1 /\ count' = 1 /\ free' = none /\ call' = Idle
  BY DEF InsertGrow, InsertMiss, Done
<1>2. Sound(buckets, entry, array, capacity, count, free, L, F, r) /\ size = Cardinality(L)
  BY DEF Now, Filed
<1>3. capacity \in Nat \ {0} /\ array \in Nat
  BY <1>2 DEF Sound, Shape
<1>4. cap \in Nat \ {0} /\ 1 \in 0 .. cap /\ 0 \in 0 .. cap - 1
  BY <1>3
<1>5. none.head = Null /\ none.size = Cardinality({}) /\ {} \in SUBSET F
      /\ ChainOf(none.head, Nexts(entry), {}, r)
  BY FS_EmptySet, ChainOfNone DEF EmptyFree
<1> HIDE DEF cap, none
<1>6. /\ \E q : Sound(b2, e2, array + 1, cap, 0, none, L, {}, q)
      /\ Rehashed(cap).size = Cardinality(L)
      /\ Relinks(entry, e2, L)
  BY <1>2, <1>4, <1>5, RehashSound
<1>7. PICK q : Sound(b2, e2, array + 1, cap, 0, none, L, {}, q)
  BY <1>6
<1>8. L \subseteq DOMAIN entry /\ DOMAIN entry \subseteq (1 .. array) \X Nat
      /\ Apart(entry, L) /\ \A x \in L : entry[x].key \in Keys
  BY <1>2, SoundApart DEF Shape
<1> HIDE DEF b2, e2
<1>9. p \in DOMAIN e2 /\ p \notin L /\ p \notin {}
  <2>1. {array + 1} \X (0 .. cap - 1) \subseteq DOMAIN e2
    BY <1>7 DEF Sound, Shape
  <2>2. p \in {array + 1} \X (0 .. cap - 1)
    BY <1>4
  <2>3. array + 1 \notin 1 .. array
    BY <1>3
  <2>4. p \notin (1 .. array) \X Nat
    BY <2>3
  <2> QED BY <2>1, <2>2, <2>4, <1>8
<1>10. p \notin {array + 1} \X (count' .. cap - 1)
  <2>1. 0 \notin 1 .. cap - 1
    OBVIOUS
  <2> QED BY <2>1, <1>1
<1>11. call.key \in Keys /\ call.val \in Vals /\ \A x \in L : entry[x].key # call.key
  BY <1>1, CallIs, MissIs
<1>12. \A x \in L : e2[x].key # call.key
  BY <1>6, <1>11 DEF Relinks
<1>13. count' \in 0 .. cap /\ 0 <= count' /\ size' = Cardinality(L) + 1
  BY <1>1, <1>4, <1>6
<1>14. ChainOf(free'.head, Nexts(e2), {}, q) /\ free'.size = Cardinality({})
  BY <1>1, <1>5, ChainOfNone
<1>15. /\ Becomes(L, [MapOf(e2, L) EXCEPT ![call.key] = call.val])
       /\ MapOf(e2, L)[call.key] = None
  <2> DEFINE ar == array + 1
             zero == 0
             O == {}
  <2>1. /\ Sound(b2, e2, ar, cap, zero, none, L, O, q)
        /\ O \in SUBSET O /\ ChainOf(free'.head, Nexts(e2), O, q)
        /\ free'.size = Cardinality(O) /\ zero <= count'
        /\ p \notin O /\ p \notin {ar} \X (count' .. cap - 1) /\ array' = ar
    BY <1>1, <1>7, <1>10, <1>13, <1>14
  <2> HIDE DEF p, ar, O, zero
  <2> QED BY <1>1, <1>9, <1>11, <1>12, <1>13, <2>1, LinkedKeeps
<1>16. MapOf(e2, L) = MapOf(entry, L)
  BY <1>6, <1>8, MapRelinked
<1> QED BY <1>2, <1>11, <1>13, <1>15, <1>16

\* erase of a key that is stored.
LEMMA EraseKeeps ==
  ASSUME DictionaryExAssumption, NEW L, NEW F, NEW r, Now(L, F, r), EraseHit
  PROVE  /\ Becomes(L, [MapOf(entry, L) EXCEPT ![call.key] = None])
         /\ call.key \in Keys /\ MapOf(entry, L)[call.key] # None
         /\ size' = size - 1
<1> DEFINE p == call.cur
           b == call.before
           k == call.key
           ix == index_of(Hash[k], capacity)
           e2 == ErasedIn(entry, b, p, free.head)
           b2 == Unhooked(buckets, entry, b, ix, p)
           L2 == L \ {p}
           F2 == F \cup {p}
<1>1. /\ call.op = "erase" /\ Match
      /\ free' = [head |-> p, size |-> free.size + 1]
      /\ size' = size - 1 /\ call' = Idle
      /\ array' = array /\ count' = count /\ capacity' = capacity
  BY DEF EraseHit, Done
<1>2. buckets' = b2 /\ entry' = e2
  BY DEF EraseHit, ErasedIn, Unhooked, Gone
<1>3. Sound(buckets, entry, array, capacity, count, free, L, F, r) /\ size = Cardinality(L)
  BY DEF Now, Filed
<1>4. p \in L /\ entry[p].key = k /\ entry[p].val \in Vals /\ k \in Keys
  BY <1>1, MatchIs
<1>5. entry[p].hash = Hash[k]
  BY <1>1 DEF Match
<1>6. /\ b \in L \cup {Null} /\ (b = Null => buckets[ix] = p)
      /\ (b # Null => b \in Own(entry, capacity, L, ix) /\ entry[b].next = p)
  BY <1>1, CallIs
<1>7. ix = index_of(entry[p].hash, capacity)
  BY <1>5
<1>8. free'.head = p /\ free'.size = free.size + 1
  BY <1>1
<1>9. Apart(entry, L) /\ (\A q \in L : entry[q].key \in Keys) /\ IsFiniteSet(L)
  BY <1>3, SoundApart
<1> HIDE DEF p, b, k, ix
<1>10. /\ \E q : Sound(b2, e2, array, capacity, count, free', L2, F2, q)
       /\ \A x \in L2 : e2[x].key = entry[x].key /\ e2[x].val = entry[x].val
  <2> DEFINE fr2 == free'
  <2>1. fr2.head = p /\ fr2.size = free.size + 1
    BY <1>8
  <2> HIDE DEF fr2
  <2>2. /\ \E q : Sound(b2, e2, array, capacity, count, fr2, L2, F2, q)
        /\ \A x \in L2 : e2[x].key = entry[x].key /\ e2[x].val = entry[x].val
    BY <1>3, <1>4, <1>6, <1>7, <2>1, EraseSound
  <2> QED BY <2>2 DEF fr2
<1> HIDE DEF e2, b2
<1>11. PICK q : Sound(b2, e2, array, capacity, count, free', L2, F2, q)
  BY <1>10
<1>12. Cardinality(L2) = Cardinality(L) - 1
  BY <1>4, <1>9, FS_RemoveElement
<1>13. Then(L2, F2, q)
  BY <1>1, <1>2, <1>3, <1>11, <1>12 DEF Then, Filed, Searching
<1>14. Relinks(entry, e2, L \ {p})
  BY <1>10 DEF Relinks
<1>15. /\ MapOf(e2, L2) = [MapOf(entry, L) EXCEPT ![k] = None]
       /\ MapOf(entry, L)[k] = entry[p].val
  <2>1. L2 = L \ {p} /\ Relinks(entry, e2, L2)
    BY <1>14
  <2> HIDE DEF L2
  <2> DEFINE e == entry
  <2>2. /\ p \in L /\ Apart(e, L) /\ \A x \in L : e[x].key \in Keys
        /\ L2 = L \ {p} /\ Relinks(e, e2, L2)
    BY <1>4, <1>9, <2>1
  <2> HIDE DEF e
  <2>3. MapOf(e2, L2) = [MapOf(e, L) EXCEPT ![k] = None]
    <3>1. e[p].key = k
      BY <1>4 DEF e
    <3> QED BY ONLY <2>2, <3>1, MapLess
  <2>4. MapOf(e, L)[e[p].key] = e[p].val
    BY ONLY <2>2, MapAt
  <2> QED BY <2>3, <2>4, <1>4 DEF e
<1>16. MapOf(entry, L)[k] # None
  BY <1>4, <1>15 DEF DictionaryExAssumption
<1> QED BY <1>1, <1>2, <1>4, <1>13, <1>15, <1>16 DEF Becomes, k

\* An empty table.
LEMMA EmptySound ==
  ASSUME NEW bs, NEW e, NEW ar, NEW cap, Shape(bs, e, ar, cap, 0),
         \A b \in 0 .. cap - 1 : bs[b] = Null
  PROVE  \E r : Filed(bs, e, ar, cap, 0, EmptyFree, 0, Idle, {}, {}, r)
<1> DEFINE r == [p \in DOMAIN e |-> 0]
<1>1. r \in [DOMAIN e -> Nat]
  OBVIOUS
<1>2. EmptyFree.head = Null /\ EmptyFree.size = Cardinality({})
  BY FS_EmptySet DEF EmptyFree
<1>3. \A b : Own(e, cap, {}, b) = {}
  BY DEF Own
<1> HIDE DEF r
<1>4. ChainOf(Null, Nexts(e), {}, r)
  BY ChainOfNone
<1>5. \A b \in 0 .. cap - 1 : ChainOf(bs[b], Nexts(e), Own(e, cap, {}, b), r)
  BY <1>3, <1>4
<1>6. Sound(bs, e, ar, cap, 0, EmptyFree, {}, {}, r)
  BY <1>1, <1>2, <1>4, <1>5 DEF Sound
<1> QED BY <1>2, <1>6, FS_EmptySet DEF Filed, Searching

\* An empty table stores nothing.
LEMMA EmptyMap ==
  ASSUME NEW e PROVE MapOf(e, {}) = [k \in Keys |-> None]
BY DEF MapOf

\* clear.
LEMMA ClearKeeps ==
  ASSUME DictionaryExAssumption, NEW L, NEW F, NEW r, Now(L, F, r), Clear
  PROVE  Becomes(L, [k \in Keys |-> None]) /\ size' = 0
<1> DEFINE D == DOMAIN entry
<1>1. /\ buckets' = [b \in 0 .. capacity - 1 |-> Null]
      /\ entry' = [p \in D |-> Untouched]
      /\ size' = 0 /\ count' = 0 /\ free' = EmptyFree
      /\ array' = array /\ capacity' = capacity /\ call' = Idle
  BY DEF Clear, Buckets
<1>2. Shape(buckets, entry, array, capacity, count)
  BY DEF Now, Filed, Sound
<1>3. Untouched \in EntryIn(D)
  BY DEF Untouched, EntryIn
<1>4. DOMAIN entry' = D /\ entry' \in [D -> EntryIn(D)]
  BY <1>1, <1>3
<1>5. Shape(buckets', entry', array', capacity', 0)
  BY <1>1, <1>2, <1>4 DEF Shape
<1>6. \A b \in 0 .. capacity' - 1 : buckets'[b] = Null
  BY <1>1
<1>7. PICK q : Filed(buckets', entry', array', capacity', 0, EmptyFree, 0, Idle, {}, {}, q)
  <2> DEFINE bs == buckets'
             e == entry'
             ar == array'
             cap == capacity'
  <2>1. Shape(bs, e, ar, cap, 0) /\ \A b \in 0 .. cap - 1 : bs[b] = Null
    BY <1>5, <1>6
  <2> HIDE DEF bs, e, ar, cap
  <2>2. \E q : Filed(bs, e, ar, cap, 0, EmptyFree, 0, Idle, {}, {}, q)
    BY <2>1, EmptySound
  <2> QED BY <2>2 DEF bs, e, ar, cap
<1>8. Then({}, {}, q)
  BY <1>1, <1>7 DEF Then
<1>9. MapOf(entry', {}) = [k \in Keys |-> None]
  BY EmptyMap
<1> QED BY <1>1, <1>8, <1>9 DEF Becomes

\* A rehash, with the entries F2 left on the free list.
LEMMA RehashKeeps ==
  ASSUME DictionaryExAssumption, NEW L, NEW F, NEW r, Now(L, F, r),
         NEW cap \in Nat \ {0}, NEW fr2, NEW F2 \in SUBSET F,
         ChainOf(fr2.head, Nexts(entry), F2, r), fr2.size = Cardinality(F2),
         Rehash(cap, fr2), call = Idle, call' = call
  PROVE  Becomes(L, MapOf(entry, L)) /\ size' = size
<1> DEFINE b2 == Rehashed(cap).buckets
           e2 == Rehashed(cap).entry
<1>1. /\ buckets' = b2 /\ entry' = e2 /\ size' = Rehashed(cap).size
      /\ array' = array + 1 /\ count' = 0 /\ capacity' = cap /\ free' = fr2
  BY DEF Rehash
<1>2. Sound(buckets, entry, array, capacity, count, free, L, F, r) /\ size = Cardinality(L)
  BY DEF Now, Filed
<1>3. /\ \E q : Sound(b2, e2, array + 1, cap, 0, fr2, L, F2, q)
      /\ Rehashed(cap).size = Cardinality(L)
      /\ Relinks(entry, e2, L)
  BY <1>2, RehashSound
<1> HIDE DEF b2, e2
<1>4. PICK q : Sound(b2, e2, array + 1, cap, 0, fr2, L, F2, q)
  BY <1>3
<1>5. Then(L, F2, q)
  BY <1>1, <1>3, <1>4 DEF Then, Filed, Searching
<1>6. Apart(entry, L) /\ \A x \in L : entry[x].key \in Keys
  BY <1>2, SoundApart
<1>7. MapOf(e2, L) = MapOf(entry, L)
  BY <1>3, <1>6, MapRelinked
<1> QED BY <1>1, <1>2, <1>3, <1>5, <1>7 DEF Becomes

\* A capacity made of a request.
LEMMA RoundedCapacity ==
  ASSUME NEW n \in Nat \ {0}
  PROVE  round_up_pow2(n) \in Nat \ {0}
<1>1. round_up_pow2(n) \in Capacities /\ round_up_pow2(n) # 0
  BY RoundedUp
<1>2. \A i \in Nat : Power2[i] \in Nat
  BY PowersDouble
<1> QED BY <1>1, <1>2 DEF Capacities

\* reserve, rehash, resize and shrink_to.
LEMMA ReserveKeeps ==
  ASSUME DictionaryExAssumption, NEW L, NEW F, NEW r, Now(L, F, r),
         NEW n \in Requests, Reserve(n) \/ ShrinkTo(n)
  PROVE  Becomes(L, MapOf(entry, L)) /\ size' = size
<1>1. n \in Nat \ {0} /\ MinCapacity \in Nat \ {0} /\ MaxCapacity \in Nat \ {0}
  BY DEF DictionaryExAssumption
<1>2. calc_capacity(n) \in Nat \ {0} /\ calc_shrink_capacity(n) \in Nat \ {0}
  <2>1. Clamp(n, MinCapacity) \in Nat \ {0} /\ Clamp(n, 0) \in Nat \ {0}
    BY <1>1 DEF Clamp
  <2> QED BY <2>1, RoundedCapacity DEF calc_capacity, calc_shrink_capacity
<1>3. /\ ChainOf(free.head, Nexts(entry), F, r) /\ free.size = Cardinality(F)
  BY DEF Now, Filed, Sound
<1>4. CASE Reserve(n)
  <2> DEFINE cap == calc_capacity(n)
             none == EmptyFree
  <2>1. Rehash(cap, none) /\ call = Idle /\ call' = call
    BY <1>4 DEF Reserve
  <2>2. {} \in SUBSET F /\ none.size = Cardinality({})
        /\ ChainOf(none.head, Nexts(entry), {}, r)
    BY FS_EmptySet, ChainOfNone DEF EmptyFree
  <2> HIDE DEF cap, none
  <2>3. cap \in Nat \ {0}
    BY <1>2 DEF cap
  <2> QED BY <2>1, <2>2, <2>3, RehashKeeps
<1>5. CASE ShrinkTo(n)
  <2> DEFINE cap == calc_shrink_capacity(n)
  <2>1. Rehash(cap, free) /\ call = Idle /\ call' = call
    BY <1>5 DEF ShrinkTo
  <2> HIDE DEF cap
  <2>2. cap \in Nat \ {0} /\ F \in SUBSET F
    BY <1>2 DEF cap
  <2> QED BY <1>3, <2>1, <2>2, RehashKeeps
<1> QED BY <1>4, <1>5

-----------------------------------------------------------------------------
(* The steps together                                                      *)

\* A step does to the map one of the operations of MapSpec, or nothing.
Explained(L) ==
  LET m == MapOf(entry, L)
  IN  \/ Becomes(L, m) /\ size' = size
      \/ \E k \in Keys, v \in Vals :
           /\ Becomes(L, [m EXCEPT ![k] = v])
           /\ size' = IF m[k] = None THEN size + 1 ELSE size
      \/ \E k \in Keys :
           m[k] # None /\ Becomes(L, [m EXCEPT ![k] = None]) /\ size' = size - 1
      \/ Becomes(L, [k \in Keys |-> None]) /\ size' = 0

\* What a find that returns has found.
Answers(L) == call.op = "find" /\ call' = Idle => ret' = MapOf(entry, L)[call.key]

\* The start of a call.
LEMMA CallsKeep ==
  ASSUME DictionaryExAssumption, NEW L, NEW F, NEW r, Now(L, F, r),
         \/ \E k \in Keys : CallFind(k) \/ CallErase(k)
         \/ \E k \in Keys, v \in Vals : CallInsert(k, v)
  PROVE  Explained(L) /\ Answers(L) /\ ret' \in Vals \cup {None}
<1>1. call = Idle /\ ret' = None /\ UNCHANGED memory
  BY DEF CallFind, CallErase, CallInsert
<1>2. Becomes(L, MapOf(entry, L))
  <2>1. CASE \E k \in Keys : CallFind(k)
    <3>1. PICK k \in Keys : Start("find", k, None)
      BY <2>1 DEF CallFind
    <3> QED BY <1>1, <3>1, StartKeeps
  <2>2. CASE \E k \in Keys : CallErase(k)
    <3>1. PICK k \in Keys : Start("erase", k, None)
      BY <2>2 DEF CallErase
    <3> QED BY <1>1, <3>1, StartKeeps
  <2>3. CASE \E k \in Keys, v \in Vals : CallInsert(k, v)
    <3>1. PICK k \in Keys, v \in Vals : Start("insert", k, v)
      BY <2>3 DEF CallInsert
    <3> QED BY <1>1, <3>1, StartKeeps
  <2> QED BY <2>1, <2>2, <2>3
<1>3. size' = size /\ call.op # "find"
  BY <1>1 DEF memory, Idle
<1> QED BY <1>1, <1>2, <1>3 DEF Explained, Answers

\* A round of the loop.
LEMMA ScanAnswers ==
  ASSUME DictionaryExAssumption, NEW L, NEW F, NEW r, Now(L, F, r), Scan
  PROVE  Explained(L) /\ Answers(L) /\ ret' = ret
<1>1. Becomes(L, MapOf(entry, L))
  BY ScanKeeps
<1>2. size' = size /\ ret' = ret
  BY DEF Scan, memory
<1>3. call # Idle
  BY DEF Scan
<1>4. call' # Idle
  <2>1. call.op # "none"
    BY <1>3, CallGoes
  <2>2. call \in [op : {"find", "insert", "erase"}, key : Keys,
                  val : Vals \cup {None}, before : L \cup {Null}, cur : L \cup {Null}]
    BY <2>1, CallIs
  <2>3. call'.op = call.op
    BY <2>2 DEF Scan
  <2> QED BY <2>1, <2>3 DEF Idle
<1> QED BY <1>1, <1>2, <1>4 DEF Explained, Answers

\* The end of a find.
LEMMA FindsKeep ==
  ASSUME DictionaryExAssumption, NEW L, NEW F, NEW r, Now(L, F, r), FindHit \/ FindMiss
  PROVE  Explained(L) /\ Answers(L) /\ ret' \in Vals \cup {None}
<1>1. Done /\ UNCHANGED memory /\ call.op = "find"
  BY DEF FindHit, FindMiss
<1>2. Becomes(L, MapOf(entry, L)) /\ size' = size
  BY <1>1, ReturnKeeps DEF memory
<1>3. Apart(entry, L) /\ \A p \in L : entry[p].key \in Keys
  BY SoundApart DEF Now, Filed
<1>4. ret' = MapOf(entry, L)[call.key] /\ ret' \in Vals \cup {None}
  <2>1. CASE FindHit
    <3>1. ret' = entry[call.cur].val /\ Match
      BY <2>1 DEF FindHit
    <3>2. call.cur \in L /\ entry[call.cur].key = call.key /\ entry[call.cur].val \in Vals
      BY <1>1, <3>1, MatchIs
    <3>3. MapOf(entry, L)[entry[call.cur].key] = entry[call.cur].val
      BY <1>3, <3>2, MapAt
    <3> QED BY <3>1, <3>2, <3>3
  <2>2. CASE FindMiss
    <3>1. ret' = None /\ call.cur = Null
      BY <2>2 DEF FindMiss
    <3>2. (\A p \in L : entry[p].key # call.key) /\ call.key \in Keys
      BY <1>1, <3>1, MissIs
    <3> QED BY <1>3, <3>1, <3>2, MapAt
  <2> QED BY <2>1, <2>2
<1> QED BY <1>2, <1>4 DEF Explained, Answers

\* The end of an insert.
LEMMA InsertsKeep ==
  ASSUME DictionaryExAssumption, NEW L, NEW F, NEW r, Now(L, F, r),
         InsertUpdate \/ InsertReuse \/ InsertNext \/ InsertGrow
  PROVE  Explained(L) /\ Answers(L) /\ ret' = ret
<1>1. call.op = "insert" /\ ret' = ret
  BY DEF InsertUpdate, InsertReuse, InsertNext, InsertGrow, InsertMiss
<1> DEFINE m == MapOf(entry, L)
           k == call.key
           v == call.val
<1>2. /\ Becomes(L, [m EXCEPT ![k] = v]) /\ k \in Keys /\ v \in Vals
      /\ size' = IF m[k] = None THEN size + 1 ELSE size
  <2>1. CASE InsertUpdate
    BY <2>1, UpdateKeeps
  <2>2. CASE InsertReuse
    BY <2>2, ReuseKeeps
  <2>3. CASE InsertNext
    BY <2>3, NextKeeps
  <2>4. CASE InsertGrow
    BY <2>4, GrowKeeps
  <2> QED BY <2>1, <2>2, <2>3, <2>4
<1>3. Explained(L)
  <2> HIDE DEF k, v
  <2> QED BY <1>2 DEF Explained
<1> QED BY <1>1, <1>3 DEF Answers

\* The end of an erase.
LEMMA ErasesKeep ==
  ASSUME DictionaryExAssumption, NEW L, NEW F, NEW r, Now(L, F, r), EraseHit \/ EraseMiss
  PROVE  Explained(L) /\ Answers(L) /\ ret' = ret
<1>1. call.op = "erase" /\ ret' = ret
  BY DEF EraseHit, EraseMiss
<1>2. CASE EraseHit
  <2> DEFINE k == call.key
  <2>1. /\ Becomes(L, [MapOf(entry, L) EXCEPT ![k] = None])
        /\ k \in Keys /\ MapOf(entry, L)[k] # None /\ size' = size - 1
    BY <1>2, EraseKeeps
  <2> HIDE DEF k
  <2> QED BY <1>1, <2>1 DEF Explained, Answers
<1>3. CASE EraseMiss
  <2>1. Done /\ UNCHANGED memory
    BY <1>3 DEF EraseMiss
  <2>2. Becomes(L, MapOf(entry, L)) /\ size' = size
    BY <2>1, ReturnKeeps DEF memory
  <2> QED BY <1>1, <2>2 DEF Explained, Answers
<1> QED BY <1>2, <1>3

\* clear, the rehashes, and a step that changes nothing.
LEMMA RestKeeps ==
  ASSUME DictionaryExAssumption, NEW L, NEW F, NEW r, Now(L, F, r),
         Clear \/ (\E n \in Requests : Reserve(n) \/ ShrinkTo(n)) \/ UNCHANGED vars
  PROVE  Explained(L) /\ Answers(L) /\ (ret' = None \/ ret' = ret)
<1>1. CASE Clear
  <2>1. Becomes(L, [k \in Keys |-> None]) /\ size' = 0
    BY <1>1, ClearKeeps
  <2>2. call = Idle /\ ret' = None
    BY <1>1 DEF Clear
  <2> QED BY <2>1, <2>2 DEF Explained, Answers, Idle
<1>2. CASE \E n \in Requests : Reserve(n) \/ ShrinkTo(n)
  <2>1. PICK n \in Requests : Reserve(n) \/ ShrinkTo(n)
    BY <1>2
  <2>2. Becomes(L, MapOf(entry, L)) /\ size' = size
    BY <2>1, ReserveKeeps
  <2>3. call = Idle /\ ret' = None
    BY <2>1 DEF Reserve, ShrinkTo
  <2> QED BY <2>2, <2>3 DEF Explained, Answers, Idle
<1>3. CASE UNCHANGED vars
  <2>1. /\ buckets' = buckets /\ entry' = entry /\ array' = array /\ size' = size
        /\ count' = count /\ capacity' = capacity /\ free' = free
        /\ call' = call /\ ret' = ret
    BY <1>3 DEF vars
  <2>2. Then(L, F, r)
    BY <2>1 DEF Now, Then
  <2>3. Becomes(L, MapOf(entry, L)) /\ size' = size
    BY <2>1, <2>2 DEF Becomes
  <2> QED BY <2>1, <2>3 DEF Explained, Answers, Idle
<1> QED BY <1>1, <1>2, <1>3

\* Every step.
LEMMA StepKeeps ==
  ASSUME DictionaryExAssumption, NEW L, NEW F, NEW r, Now(L, F, r),
         ret \in Vals \cup {None}, [Next]_vars
  PROVE  Explained(L) /\ Answers(L) /\ ret' \in Vals \cup {None}
<1>1. CASE \/ \E k \in Keys : CallFind(k) \/ CallErase(k)
           \/ \E k \in Keys, v \in Vals : CallInsert(k, v)
  BY <1>1, CallsKeep
<1>2. CASE Scan
  BY <1>2, ScanAnswers
<1>3. CASE FindHit \/ FindMiss
  BY <1>3, FindsKeep
<1>4. CASE InsertUpdate \/ InsertReuse \/ InsertNext \/ InsertGrow
  BY <1>4, InsertsKeep
<1>5. CASE EraseHit \/ EraseMiss
  BY <1>5, ErasesKeep
<1>6. CASE Clear \/ (\E n \in Requests : Reserve(n) \/ ShrinkTo(n)) \/ UNCHANGED vars
  BY <1>6, RestKeeps
<1> QED BY <1>1, <1>2, <1>3, <1>4, <1>5, <1>6 DEF Next

\* The constructor.
LEMMA InitFiled ==
  ASSUME DictionaryExAssumption, Init
  PROVE  /\ \E r : Now({}, {}, r)
         /\ ret = None /\ size = 0
<1>1. PICK n \in Requests :
        /\ buckets = [b \in 0 .. round_up_pow2(n) - 1 |-> Null]
        /\ entry = [p \in {1} \X (0 .. round_up_pow2(n) - 1) |-> Untouched]
        /\ array = 1 /\ size = 0 /\ count = 0 /\ capacity = round_up_pow2(n)
        /\ free = EmptyFree /\ call = Idle /\ ret = None
  BY DEF Init
<1> DEFINE cap == round_up_pow2(n)
           D == {1} \X (0 .. cap - 1)
<1>2. cap \in Nat \ {0}
  <2>1. n \in Nat \ {0}
    BY DEF DictionaryExAssumption
  <2> QED BY <2>1, RoundedCapacity
<1> HIDE DEF cap
<1>3. /\ buckets = [b \in 0 .. cap - 1 |-> Null] /\ entry = [p \in D |-> Untouched]
      /\ capacity = cap
  BY <1>1 DEF cap
<1>4. IsFiniteSet(D)
  <2>1. IsFiniteSet(0 .. cap - 1) /\ IsFiniteSet({1})
    BY <1>2, BelowCounted, FS_Singleton
  <2> QED BY <2>1, FS_Product
<1>5. DOMAIN entry = D /\ entry \in [D -> EntryIn(D)]
  <2>1. Untouched \in EntryIn(D)
    BY DEF Untouched, EntryIn
  <2> QED BY <1>3, <2>1
<1>6. D \subseteq (1 .. 1) \X Nat
  BY <1>2
<1>7. Shape(buckets, entry, array, capacity, 0)
  <2>1. array = 1 /\ capacity = cap /\ 0 \in 0 .. cap
    BY <1>1, <1>2, <1>3
  <2>2. {1} \X (0 .. cap - 1) \subseteq DOMAIN entry
    BY <1>5
  <2>3. IsFiniteSet(DOMAIN entry) /\ DOMAIN entry \subseteq (1 .. array) \X Nat
    BY <1>4, <1>5, <1>6, <2>1
  <2>4. entry \in [DOMAIN entry -> EntryIn(DOMAIN entry)]
    <3> HIDE DEF D
    <3> QED BY <1>5
  <2>5. buckets \in [0 .. cap - 1 -> DOMAIN entry \cup {Null}]
    BY <1>3
  <2> HIDE DEF D
  <2> QED BY <1>2, <2>1, <2>2, <2>3, <2>4, <2>5 DEF Shape
<1>8. \A b \in 0 .. capacity - 1 : buckets[b] = Null
  BY <1>3
<1>9. \E r : Filed(buckets, entry, array, capacity, 0, EmptyFree, 0, Idle, {}, {}, r)
  BY <1>7, <1>8, EmptySound
<1> QED BY <1>1, <1>9 DEF Now

\* The invariant holds at first, and every step keeps it.
LEMMA FiledEstablishes ==
  ASSUME DictionaryExAssumption, Init
  PROVE  FiledInv
BY InitFiled DEF FiledInv, Now

LEMMA FiledPreserves ==
  ASSUME DictionaryExAssumption, FiledInv, [Next]_vars
  PROVE  FiledInv'
<1>1. PICK L, F, r : Now(L, F, r)
  BY DEF FiledInv, Now
<1>2. Explained(L) /\ ret' \in Vals \cup {None}
  BY <1>1, StepKeeps DEF FiledInv
<1>3. \E L2, F2, r2 : Then(L2, F2, r2)
  BY <1>2 DEF Explained, Becomes
<1> QED BY <1>2, <1>3 DEF FiledInv, Then

\* The invariant holds in every state, for every set of keys, every hash
\* function and every capacity.
THEOREM TableAlwaysFiled ==
  ASSUME DictionaryExAssumption
  PROVE  Spec => []FiledInv
<1>1. Init => FiledInv
  BY FiledEstablishes
<1>2. FiledInv /\ [Next]_vars => FiledInv'
  BY FiledPreserves
<1> QED BY <1>1, <1>2, PTL DEF Spec

\* Whatever the keys and their hashes, after every sequence of insertions,
\* erasures, rehashes and shrinks, each entry of every array is in one place:
\* in the chain of its hash, on freelist_, or not handed out yet; size_ and the
\* size of the free list count the first two.
THEOREM EntriesAlwaysPartitioned ==
  ASSUME DictionaryExAssumption PROVE Spec => []EntriesPartitioned
<1>1. FiledInv => EntriesPartitioned
  BY FiledPartitioned
<1> QED BY <1>1, TableAlwaysFiled, PTL

\* A find that returns returns what is stored under its key: the loop, which
\* never passes an entry of equal hash, misses no entry, and no rehash hides
\* one from its bucket.
THEOREM FindsAlwaysAnswer ==
  ASSUME DictionaryExAssumption
  PROVE  Spec => FindAnswers
<1>1. FiledInv /\ [Next]_vars => [call.op = "find" /\ call' = Idle => ret' = Stored[call.key]]_vars
  <2> SUFFICES ASSUME FiledInv, [Next]_vars
               PROVE  call.op = "find" /\ call' = Idle => ret' = Stored[call.key]
    OBVIOUS
  <2>1. PICK L, F, r : Now(L, F, r)
    BY DEF FiledInv, Now
  <2>2. Answers(L)
    BY <2>1, StepKeeps DEF FiledInv
  <2>3. Stored = MapOf(entry, L)
    BY <2>1, StoredIs DEF Now, Filed
  <2> QED BY <2>2, <2>3 DEF Answers
<1> QED BY <1>1, TableAlwaysFiled, PTL DEF Spec, FindAnswers

\* A new table is an empty map.
LEMMA InitMaps ==
  ASSUME DictionaryExAssumption, Init
  PROVE  Abstract!Init
<1>1. PICK r : Now({}, {}, r)
  BY InitFiled
<1>2. Stored = MapOf(entry, {})
  BY <1>1, StoredIs DEF Now, Filed
<1> QED BY <1>2, InitFiled, EmptyMap DEF Abstract!Init

\* Every step is a step of the map, or none.
LEMMA StepMaps ==
  ASSUME DictionaryExAssumption, FiledInv, [Next]_vars
  PROVE  [Abstract!Next]_(Abstract!vars)
<1>1. PICK L, F, r : Now(L, F, r)
  BY DEF FiledInv, Now
<1> DEFINE m == MapOf(entry, L)
<1>2. Explained(L)
  BY <1>1, StepKeeps DEF FiledInv
<1>3. Stored = m
  BY <1>1, StoredIs DEF Now, Filed
<1>4. ASSUME NEW m2, Becomes(L, m2)
      PROVE  Stored' = m2
  <2>1. PICK L2, F2, r2 : Then(L2, F2, r2) /\ MapOf(entry', L2) = m2
    BY <1>4 DEF Becomes
  <2> QED BY <2>1, StoredNext DEF Then, Filed
<1> HIDE DEF m
<1>5. CASE Becomes(L, m) /\ size' = size
  BY <1>3, <1>4, <1>5 DEF Abstract!vars
<1>6. CASE \E k \in Keys, v \in Vals :
             /\ Becomes(L, [m EXCEPT ![k] = v])
             /\ size' = IF m[k] = None THEN size + 1 ELSE size
  BY <1>3, <1>4, <1>6 DEF Abstract!Next, Abstract!Put
<1>7. CASE \E k \in Keys :
             m[k] # None /\ Becomes(L, [m EXCEPT ![k] = None]) /\ size' = size - 1
  BY <1>3, <1>4, <1>7 DEF Abstract!Next, Abstract!Remove
<1>8. CASE Becomes(L, [k \in Keys |-> None]) /\ size' = 0
  BY <1>3, <1>4, <1>8 DEF Abstract!Next, Abstract!Clear
<1> QED BY <1>2, <1>5, <1>6, <1>7, <1>8 DEF Explained, m

\* The table implements a map, step by step: relinking the entries of several
\* arrays cannot be observed, insert puts, erase removes, clear empties.
THEOREM ExRefinement ==
  ASSUME DictionaryExAssumption
  PROVE  Spec => ImplementsMap
<1>1. Init => Abstract!Init
  BY InitMaps
<1>2. FiledInv /\ [Next]_vars => [Abstract!Next]_(Abstract!vars)
  BY StepMaps
<1> QED BY <1>1, <1>2, TableAlwaysFiled, PTL DEF Spec, ImplementsMap, Abstract!Spec
=============================================================================
