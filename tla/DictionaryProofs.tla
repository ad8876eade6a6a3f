-------------------------- MODULE DictionaryProofs --------------------------
(***************************************************************************)
(* Proofs about Dictionary, for every set of keys and values, every hash   *)
(* function and every limit of the capacity.                               *)
(*                                                                         *)
(* The chains of the buckets and the free list share the `next` field.     *)
(* That each of them ends, and holds just the entries it should, follows   *)
(* from an order of the slots in which every `next` leads to the entry of  *)
(* its chain that comes below it: a statement about each entry and its     *)
(* successor, which an operation disturbs in one place.                    *)
(***************************************************************************)
EXTENDS Dictionary, PointersProofs, FiniteSetTheorems

SlotsOf(cap) == 0 .. cap - 1
SlotsOrNull(cap) == SlotsOf(cap) \cup {Null}

\* An order of the slots: no two have the same rank.
Orders(cap) ==
  {r \in [SlotsOf(cap) -> SlotsOf(cap)] :
     \A x, y \in SlotsOf(cap) : r[x] = r[y] => x = y}

\* From h, the pointers nxt lead down the order r through all of L.
Chained(nxt, h, L, r) ==
  /\ h \in L \cup {Null}
  /\ \A s \in L : h # Null /\ r[s] <= r[h]
  /\ \A x \in L : nxt[x] = Null \/ (nxt[x] \in L /\ r[nxt[x]] < r[x])
  /\ \A x, s \in L : r[s] < r[x] => nxt[x] # Null /\ r[s] <= r[nxt[x]]

\* The links of an array e of cap entries, of which n were handed out; those
\* that are stored, those that were erased, and those of bucket b.
LinksOf(e, cap) == [s \in SlotsOf(cap) |-> e[s].next]
LiveIn(e, cap, n) ==
  {i \in SlotsOf(cap) : i < n /\ e[i].hash \notin {kInvalidHash, Fresh}}
ErasedIn(e, cap, n) ==
  {i \in SlotsOf(cap) : i < n /\ e[i].hash = kInvalidHash}
BucketIn(e, cap, n, b) ==
  {i \in LiveIn(e, cap, n) : index_of(e[i].hash, cap) = b}

\* The chains of the buckets bs and the free list from fh follow order r.
Sound(bs, e, cap, n, fh, r) ==
  /\ r \in Orders(cap)
  /\ \A b \in SlotsOf(cap) :
       Chained(LinksOf(e, cap), bs[b], BucketIn(e, cap, n, b), r)
  /\ Chained(LinksOf(e, cap), fh, ErasedIn(e, cap, n), r)

EntryOf(cap) ==
  [hash : {Fresh} \cup 0 .. kInvalidHash, key : Keys \cup {None},
   val : Vals \cup {None}, next : SlotsOrNull(cap)]
Tables(bs, e, cap) ==
  /\ e \in [SlotsOf(cap) -> EntryOf(cap)]
  /\ bs \in [SlotsOf(cap) -> SlotsOrNull(cap)]

Links == LinksOf(entries, capacity)
InBucket(b) == BucketIn(entries, capacity, count, b)
Good(r) == Sound(buckets, entries, capacity, count, freeHead, r)

\* A dictionary without entries has no chains.
NoChains ==
  capacity = 0 /\ buckets # <<>> => buckets[0] = Null

IInv ==
  /\ TypeOK
  /\ NoChains
  /\ \E r : Good(r)
  /\ freeSize = Cardinality(Erased)

\* What careful callers keep: every slot handed out holds an entry or is on
\* the free list, and the entries hold different keys.
Written ==
  count <= capacity /\ \A i \in Handed : entries[i].hash # Fresh
Keyed ==
  /\ \A i \in Live : /\ entries[i].key \in Keys
                     /\ entries[i].val \in Vals
                     /\ entries[i].hash = hash_code(entries[i].key)
  /\ \A i, j \in Live : entries[i].key = entries[j].key => i = j
Kempt == Written /\ Keyed

TIInv == IInv /\ Kempt

-----------------------------------------------------------------------------
(* Walking down a chain                                                    *)

\* A walk along a chain: hop follows nxt but may stay where it is at some
\* slots, M.  It stays in the chain, and each round leads further down.
Walk(hop, nxt, cap, M) ==
  /\ hop \in [SlotsOrNull(cap) -> SlotsOrNull(cap)]
  /\ hop[Null] = Null
  /\ \A s \in SlotsOf(cap) : hop[s] = IF s \in M THEN s ELSE nxt[s]

\* Where the walk from h is after n rounds.
Descends(at, L, M, r, cap) ==
  \A n \in Nat : at[n] # Null =>
    /\ at[n] \in L
    /\ at[n] \notin M => r[at[n]] <= cap - 1 - n

LEMMA WalkDescends ==
  ASSUME NEW cap \in Nat, NEW nxt, NEW r \in Orders(cap),
         NEW L \in SUBSET SlotsOf(cap), NEW h, Chained(nxt, h, L, r),
         NEW M, NEW hop, Walk(hop, nxt, cap, M)
  PROVE  Descends(Reached(hop, h), L, M, r, cap)
<1> DEFINE at == Reached(hop, h)
           Fine == {n \in Nat : at[n] # Null =>
                      /\ at[n] \in L
                      /\ at[n] \notin M => r[at[n]] <= cap - 1 - n}
<1>1. h \in SlotsOrNull(cap)
  BY DEF Chained, SlotsOrNull
<1>2. Follows(at, hop, h)
  BY <1>1, ReachedHops DEF Walk
<1>3. \A s \in SlotsOf(cap) : r[s] \in SlotsOf(cap)
  BY DEF Orders
<1> HIDE DEF at
<1>4. 0 \in Fine
  <2>1. at[0] = h
    BY <1>2 DEF Follows
  <2>2. CASE h \in L
    <3>1. r[h] \in SlotsOf(cap)
      BY <1>3, <2>2
    <3> QED BY <2>1, <2>2, <3>1 DEF SlotsOf
  <2>3. CASE h = Null
    BY <2>1, <2>3
  <2> QED BY <2>2, <2>3 DEF Chained
<1>5. ASSUME NEW n \in Nat, n \in Fine
      PROVE  n + 1 \in Fine
  <2>1. at[n + 1] = hop[at[n]]
    BY <1>2 DEF Follows
  <2>2. CASE at[n] = Null
    BY <2>1, <2>2 DEF Walk
  <2>3. CASE at[n] # Null /\ at[n] \in M
    <3>1. at[n] \in L /\ at[n] \in SlotsOf(cap)
      BY <1>5, <2>3
    <3>2. at[n + 1] = at[n]
      BY <2>1, <2>3, <3>1 DEF Walk
    <3> QED BY <2>3, <3>1, <3>2
  <2>4. CASE at[n] # Null /\ at[n] \notin M
    <3> DEFINE x == at[n]
    <3>1. x \in L /\ x \in SlotsOf(cap) /\ r[x] <= cap - 1 - n
      BY <1>5, <2>4
    <3>2. at[n + 1] = nxt[x]
      BY <2>1, <2>4, <3>1 DEF Walk
    <3> HIDE DEF x
    <3>3. nxt[x] = Null \/ (nxt[x] \in L /\ r[nxt[x]] < r[x])
      BY <3>1 DEF Chained
    <3>4. CASE nxt[x] \in L /\ r[nxt[x]] < r[x]
      <4>1. r[nxt[x]] \in Int /\ r[x] \in Int
        <5>1. nxt[x] \in SlotsOf(cap)
          BY <3>4
        <5>2. r[nxt[x]] \in SlotsOf(cap) /\ r[x] \in SlotsOf(cap)
          BY <1>3, <3>1, <5>1
        <5> QED BY <5>2 DEF SlotsOf
      <4>2. r[nxt[x]] <= cap - 1 - (n + 1)
        BY <3>1, <3>4, <4>1
      <4> QED BY <3>2, <3>4, <4>2
    <3> QED BY <3>2, <3>3, <3>4
  <2> QED BY <2>2, <2>3, <2>4
<1> HIDE DEF Fine
<1>6. Nat \subseteq Fine
  BY <1>4, <1>5, SetInduction
<1>7. \A n \in Nat : at[n] # Null =>
        /\ at[n] \in L
        /\ at[n] \notin M => r[at[n]] <= cap - 1 - n
  BY <1>6 DEF Fine
<1> QED BY <1>7 DEF Descends, at

\* After cap rounds it has ended, or stays.
LEMMA WalkEnds ==
  ASSUME NEW cap \in Nat, NEW nxt, NEW r \in Orders(cap),
         NEW L \in SUBSET SlotsOf(cap), NEW h, Chained(nxt, h, L, r),
         NEW M, NEW hop, Walk(hop, nxt, cap, M)
  PROVE  Reached(hop, h)[cap] \in (L \cap M) \cup {Null}
<1> DEFINE at == Reached(hop, h)
<1>1. Descends(at, L, M, r, cap)
  BY WalkDescends
<1>2. \A s \in L : r[s] \in SlotsOf(cap)
  BY DEF Orders
<1> HIDE DEF at
<1>3. at[cap] # Null => at[cap] \in L
                        /\ (at[cap] \notin M => r[at[cap]] <= cap - 1 - cap)
  BY <1>1 DEF Descends
<1>4. ASSUME at[cap] \in L
      PROVE  ~(r[at[cap]] <= cap - 1 - cap)
  <2>1. r[at[cap]] \in 0 .. cap - 1
    BY <1>2, <1>4 DEF SlotsOf
  <2> QED BY <2>1
<1> QED BY <1>3, <1>4 DEF at

\* The walk does not pass a slot of the chain.
LEMMA WalkMeets ==
  ASSUME NEW cap \in Nat, NEW nxt, NEW r \in Orders(cap),
         NEW L \in SUBSET SlotsOf(cap), NEW h, Chained(nxt, h, L, r),
         NEW M, NEW hop, Walk(hop, nxt, cap, M),
         NEW s \in L, L \cap M \subseteq {s}
  PROVE  \E n \in 0 .. cap : Reached(hop, h)[n] = s
<1> DEFINE at == Reached(hop, h)
<1>1. SUFFICES ASSUME \A n \in 0 .. cap : at[n] # s
               PROVE  FALSE
  OBVIOUS
<1>2. h \in SlotsOrNull(cap)
  BY DEF Chained, SlotsOrNull
<1>3. Follows(at, hop, h)
  BY <1>2, ReachedHops DEF Walk
<1>4. \A x \in SlotsOf(cap) : r[x] \in Int
  BY DEF Orders, SlotsOf
<1>5. \A x \in L : r[x] = r[s] => x = s
  BY DEF Orders
<1> DEFINE Above == {n \in Nat : n <= cap => at[n] \in L /\ r[s] < r[at[n]]}
<1>6. Descends(at, L, M, r, cap)
  BY WalkDescends
<1> HIDE DEF at
<1>7. 0 \in Above
  <2>1. at[0] = h /\ at[0] # s
    BY <1>1, <1>3 DEF Follows
  <2>2. h # Null /\ h \in L /\ r[s] <= r[h]
    BY DEF Chained
  <2>3. r[s] # r[h] /\ r[s] \in Int /\ r[h] \in Int
    BY <1>4, <1>5, <2>1, <2>2
  <2> QED BY <2>1, <2>2, <2>3
<1>8. ASSUME NEW n \in Nat, n \in Above
      PROVE  n + 1 \in Above
  <2> SUFFICES ASSUME n + 1 <= cap
               PROVE  at[n + 1] \in L /\ r[s] < r[at[n + 1]]
    OBVIOUS
  <2> DEFINE x == at[n]
  <2>1. x \in L /\ r[s] < r[x] /\ x # s
    BY <1>1, <1>8
  <2>2. at[n + 1] = nxt[x]
    BY <1>3, <2>1 DEF Follows, Walk
  <2>3. nxt[x] # s
    BY <1>1, <2>2
  <2> HIDE DEF x
  <2>4. nxt[x] # Null /\ r[s] <= r[nxt[x]] /\ nxt[x] \in L
    BY <2>1 DEF Chained
  <2>5. r[s] # r[nxt[x]] /\ r[s] \in Int /\ r[nxt[x]] \in Int
    BY <1>4, <1>5, <2>3, <2>4
  <2> QED BY <2>2, <2>4, <2>5
<1> HIDE DEF Above
<1>9. Nat \subseteq Above
  BY <1>7, <1>8, SetInduction
<1>10. at[cap] \in L /\ r[s] < r[at[cap]] /\ at[cap] # s
  BY <1>1, <1>9 DEF Above
<1>11. at[cap] \notin M /\ at[cap] # Null
  BY <1>10 DEF SlotsOf, Null
<1>12. r[at[cap]] <= cap - 1 - cap
  BY <1>6, <1>11 DEF Descends
<1>13. r[at[cap]] \in SlotsOf(cap)
  BY <1>10 DEF Orders
<1> QED BY <1>12, <1>13 DEF SlotsOf

-----------------------------------------------------------------------------
(* Changing a chain                                                        *)

\* Two orders that agree on L.
SameOrder(r, q, L) == \A x, y \in L : q[x] < q[y] <=> r[x] < r[y]

\* Pointers and order may change elsewhere.
LEMMA ChainKept ==
  ASSUME NEW cap, NEW nxt, NEW nxt2, NEW L \in SUBSET SlotsOf(cap), NEW h,
         NEW r \in Orders(cap), NEW q \in Orders(cap),
         Chained(nxt, h, L, r), SameOrder(r, q, L),
         \A x \in L : nxt2[x] = nxt[x]
  PROVE  Chained(nxt2, h, L, q)
<1>1. \A x \in L : r[x] \in Int /\ q[x] \in Int
  BY DEF Orders, SlotsOf
<1>2. \A x, y \in L : q[x] <= q[y] <=> r[x] <= r[y]
  BY <1>1 DEF SameOrder
<1> QED BY <1>2 DEF Chained, SameOrder

\* A slot that comes above all others is pushed on the front.
LEMMA ChainPushed ==
  ASSUME NEW cap, NEW nxt, NEW nxt2, NEW L \in SUBSET SlotsOf(cap), NEW h,
         NEW r \in Orders(cap), NEW q \in Orders(cap),
         Chained(nxt, h, L, r), SameOrder(r, q, L),
         \A x \in L : nxt2[x] = nxt[x],
         NEW s \in SlotsOf(cap) \ L, nxt2[s] = h,
         \A x \in L : q[x] < q[s]
  PROVE  Chained(nxt2, s, L \cup {s}, q)
<1>1. \A x \in L \cup {s} : q[x] \in Int /\ x # Null
  BY DEF Orders, SlotsOf, Null
<1>2. Chained(nxt2, h, L, q)
  BY ChainKept
<1>3. \A x \in L \cup {s} : s # Null /\ q[x] <= q[s]
  BY <1>1
<1>4. \A x \in L \cup {s} : \/ nxt2[x] = Null
                            \/ nxt2[x] \in L \cup {s} /\ q[nxt2[x]] < q[x]
  BY <1>2 DEF Chained
<1>5. ASSUME NEW x \in L \cup {s}, NEW y \in L \cup {s}, q[y] < q[x]
      PROVE  nxt2[x] # Null /\ q[y] <= q[nxt2[x]]
  <2>1. y \in L
    BY <1>1, <1>5
  <2>2. CASE x \in L
    BY <1>2, <1>5, <2>1, <2>2 DEF Chained
  <2>3. CASE x = s
    BY <1>2, <2>1, <2>3 DEF Chained
  <2> QED BY <2>2, <2>3
<1> QED BY <1>3, <1>4, <1>5 DEF Chained

\* The first slot of a chain is taken off.
LEMMA ChainPopped ==
  ASSUME NEW cap, NEW nxt, NEW L \in SUBSET SlotsOf(cap), NEW h \in L,
         NEW r \in Orders(cap), Chained(nxt, h, L, r)
  PROVE  Chained(nxt, nxt[h], L \ {h}, r)
<1>1. \A x \in L : r[x] \in Int /\ x # Null
  BY DEF Orders, SlotsOf, Null
<1>2. \A x \in L : r[x] = r[h] => x = h
  BY DEF Orders
<1>3. \A x \in L \ {h} : r[x] < r[h]
  BY <1>1, <1>2 DEF Chained
<1>4. nxt[h] \in (L \ {h}) \cup {Null}
  BY <1>1 DEF Chained
<1>5. \A x \in L \ {h} : nxt[h] # Null /\ r[x] <= r[nxt[h]]
  BY <1>3 DEF Chained
<1>6. ASSUME NEW x \in L \ {h}
      PROVE  nxt[x] = Null \/ (nxt[x] \in L \ {h} /\ r[nxt[x]] < r[x])
  <2>1. nxt[x] = Null \/ (nxt[x] \in L /\ r[nxt[x]] < r[x])
    BY DEF Chained
  <2>2. ~(r[h] < r[x])
    BY <1>1, <1>3
  <2> QED BY <2>1, <2>2
<1>7. \A x, s \in L \ {h} : r[s] < r[x] => nxt[x] # Null /\ r[s] <= r[nxt[x]]
  BY DEF Chained
<1> QED BY <1>4, <1>5, <1>6, <1>7 DEF Chained

\* A slot in the middle is unlinked: the one before it takes over its pointer.
LEMMA ChainUnlinked ==
  ASSUME NEW cap, NEW nxt, NEW nxt2, NEW L \in SUBSET SlotsOf(cap), NEW h,
         NEW r \in Orders(cap), Chained(nxt, h, L, r),
         NEW s \in L, h # s, NEW p \in L, nxt[p] = s, nxt2[p] = nxt[s],
         \A x \in L \ {s, p} : nxt2[x] = nxt[x]
  PROVE  Chained(nxt2, h, L \ {s}, r)
<1>1. \A x \in L : r[x] \in Int /\ x # Null
  BY DEF Orders, SlotsOf, Null
<1>2. \A x, y \in L : r[x] = r[y] => x = y
  BY DEF Orders
<1>3. h \in (L \ {s}) \cup {Null}
  BY DEF Chained
<1>4. r[s] < r[p] /\ p # s
  BY <1>1 DEF Chained
<1>5. ASSUME NEW x \in L \ {s, p}
      PROVE  nxt[x] # s
  <2>1. SUFFICES ASSUME nxt[x] = s
                 PROVE  FALSE
    OBVIOUS
  <2>2. r[s] < r[x]
    BY <1>1, <2>1 DEF Chained
  <2>3. r[x] # r[p] /\ r[x] \in Int /\ r[p] \in Int /\ r[s] \in Int
    BY <1>1, <1>2
  <2>4. CASE r[x] < r[p]
    <3>1. r[x] <= r[nxt[p]]
      BY <2>4 DEF Chained
    <3> QED BY <3>1, <2>2, <2>3
  <2>5. CASE r[p] < r[x]
    <3>1. r[p] <= r[nxt[x]]
      BY <2>5 DEF Chained
    <3> QED BY <3>1, <2>1, <2>3, <1>4
  <2> QED BY <2>3, <2>4, <2>5
<1>6. ASSUME NEW x \in L \ {s}
      PROVE  nxt2[x] = Null \/ (nxt2[x] \in L \ {s} /\ r[nxt2[x]] < r[x])
  <2>1. CASE x = p
    <3>1. nxt[s] = Null \/ (nxt[s] \in L /\ r[nxt[s]] < r[s])
      BY DEF Chained
    <3>2. nxt[s] # Null => nxt[s] # s /\ r[nxt[s]] < r[p]
      BY <1>1, <1>4, <3>1
    <3> QED BY <2>1, <3>1, <3>2
  <2>2. CASE x # p
    BY <1>5, <2>2 DEF Chained
  <2> QED BY <2>1, <2>2
<1>7. ASSUME NEW x \in L \ {s}, NEW y \in L \ {s}, r[y] < r[x]
      PROVE  nxt2[x] # Null /\ r[y] <= r[nxt2[x]]
  <2>1. nxt[x] # Null /\ r[y] <= r[nxt[x]]
    BY <1>7 DEF Chained
  <2>2. CASE x = p
    <3>1. r[y] < r[s]
      BY <1>1, <1>2, <2>1, <2>2
    <3> QED BY <2>2, <3>1 DEF Chained
  <2>3. CASE x # p
    BY <2>1, <2>3
  <2> QED BY <2>2, <2>3
<1>8. \A x \in L \ {s} : h # Null /\ r[x] <= r[h]
  BY DEF Chained
<1> QED BY <1>3, <1>6, <1>7, <1>8 DEF Chained

\* The order with slot s moved to its top.
Topped(r, s, cap) ==
  [x \in SlotsOf(cap) |->
     IF x = s THEN cap - 1 ELSE IF r[s] < r[x] THEN r[x] - 1 ELSE r[x]]

LEMMA ToppedOrder ==
  ASSUME NEW cap \in Nat, NEW r \in Orders(cap), NEW s \in SlotsOf(cap)
  PROVE  /\ Topped(r, s, cap) \in Orders(cap)
         /\ \A x \in SlotsOf(cap) \ {s} :
              Topped(r, s, cap)[x] < Topped(r, s, cap)[s]
         /\ SameOrder(r, Topped(r, s, cap), SlotsOf(cap) \ {s})
<1> DEFINE q == Topped(r, s, cap)
<1>1. \A x \in SlotsOf(cap) : r[x] \in 0 .. cap - 1
  BY DEF Orders, SlotsOf
<1>2. \A x, y \in SlotsOf(cap) : r[x] = r[y] => x = y
  BY DEF Orders
<1>3. q[s] = cap - 1
  BY DEF Topped
<1>4. ASSUME NEW x \in SlotsOf(cap) \ {s}
      PROVE  /\ q[x] = IF r[s] < r[x] THEN r[x] - 1 ELSE r[x]
             /\ r[x] # r[s] /\ r[x] \in 0 .. cap - 1 /\ r[s] \in 0 .. cap - 1
             /\ q[x] \in 0 .. cap - 1 /\ q[x] < cap - 1
  <2>1. q[x] = IF r[s] < r[x] THEN r[x] - 1 ELSE r[x]
    BY DEF Topped
  <2>2. r[x] # r[s] /\ r[x] \in 0 .. cap - 1 /\ r[s] \in 0 .. cap - 1
    BY <1>1, <1>2
  <2> HIDE DEF q
  <2> QED BY <2>1, <2>2
<1>5. q = [x \in SlotsOf(cap) |-> q[x]]
  BY DEF Topped
<1> HIDE DEF q
<1>6. ASSUME NEW x \in SlotsOf(cap) \ {s}, NEW y \in SlotsOf(cap) \ {s}
      PROVE  (q[x] < q[y] <=> r[x] < r[y]) /\ (q[x] = q[y] => x = y)
  <2>1. r[x] = r[y] => x = y
    BY <1>2
  <2> QED BY <1>4, <2>1
<1>7. q \in [SlotsOf(cap) -> SlotsOf(cap)]
  <2>1. cap - 1 \in 0 .. cap - 1
    BY DEF SlotsOf
  <2>2. \A x \in SlotsOf(cap) : q[x] \in SlotsOf(cap)
    BY <1>3, <1>4, <2>1 DEF SlotsOf
  <2> QED BY <1>5, <2>2
<1>8. \A x, y \in SlotsOf(cap) : q[x] = q[y] => x = y
  BY <1>3, <1>4, <1>6
<1> QED BY <1>3, <1>4, <1>6, <1>7, <1>8 DEF q, Orders, SameOrder

-----------------------------------------------------------------------------
(* Capacities and hashes                                                   *)

LEMMA CapacityTyped ==
  ASSUME NEW cap
  PROVE  /\ cap \in Capacities => cap \in Nat
         /\ cap \in {0} \cup {Power2[i] : i \in 0 .. cap}
              <=> cap \in Capacities
<1>1. \A i \in Nat : Power2[i] \in Nat /\ i \in 0 .. Power2[i]
  BY PowersGrow
<1>2. cap \in Capacities => cap \in Nat
  BY <1>1 DEF Capacities
<1>3. cap \in {0} \cup {Power2[i] : i \in 0 .. cap} => cap \in Capacities
  BY DEF Capacities
<1>4. cap \in Capacities => cap \in {0} \cup {Power2[i] : i \in 0 .. cap}
  BY <1>1 DEF Capacities
<1> QED BY <1>2, <1>3, <1>4

LEMMA CapacityDoubled ==
  ASSUME NEW cap \in Capacities
  PROVE  2 * cap \in Capacities
<1>1. CASE cap = 0
  BY <1>1 DEF Capacities
<1>2. CASE cap # 0
  <2>1. PICK i \in Nat : cap = Power2[i]
    BY <1>2 DEF Capacities
  <2>2. 2 * cap = Power2[i + 1] /\ i + 1 \in Nat
    BY <2>1, PowersDouble
  <2> QED BY <2>2 DEF Capacities
<1> QED BY <1>1, <1>2

LEMMA HashesTyped ==
  ASSUME DictionaryAssumption
  PROVE  /\ kInvalidHash \in Nat \ {0}
         /\ \A k \in Keys : hash_code(k) \in 0 .. kInvalidHash
                            /\ hash_code(k) # kInvalidHash
         /\ Fresh \notin 0 .. kInvalidHash
<1>1. HashBits \in Nat \ {0} /\ RawHash \in [Keys -> 0 .. kInvalidHash]
  BY DEF DictionaryAssumption
<1>2. Power2[HashBits] \in Nat /\ HashBits < Power2[HashBits]
  BY <1>1, PowersGrow
<1>3. kInvalidHash \in Nat \ {0} /\ kReplacedHash = kInvalidHash - 1
  BY <1>1, <1>2 DEF kInvalidHash, kReplacedHash
<1>4. ASSUME NEW k \in Keys
      PROVE  hash_code(k) \in 0 .. kInvalidHash /\ hash_code(k) # kInvalidHash
  <2>1. RawHash[k] \in 0 .. kInvalidHash
    BY <1>1
  <2>2. kReplacedHash \in 0 .. kInvalidHash /\ kReplacedHash # kInvalidHash
    BY <1>3
  <2> QED BY <2>1, <2>2 DEF hash_code
<1> QED BY <1>3, <1>4 DEF Fresh

LEMMA IndexTyped ==
  ASSUME NEW cap \in Nat \ {0}, NEW h \in Nat
  PROVE  index_of(h, cap) \in SlotsOf(cap)
BY DEF index_of, SlotsOf

-----------------------------------------------------------------------------
(* What a search finds                                                     *)

LEMMA Typed ==
  ASSUME TypeOK
  PROVE  /\ capacity \in Nat /\ capacity \in Capacities
         /\ Slots = SlotsOf(capacity)
         /\ Slots \cup {Null} = SlotsOrNull(capacity)
         /\ \A s \in Slots : /\ Links[s] = entries[s].next
                             /\ entries[s].next \in SlotsOrNull(capacity)
                             /\ s # Null
         /\ Live \subseteq Slots /\ Erased \subseteq Slots
         /\ \A b : InBucket(b) \subseteq Live
         /\ \A i \in Live : entries[i].hash \in Nat
<1>1. capacity \in Nat /\ capacity \in Capacities
  BY CapacityTyped DEF TypeOK
<1>2. Slots = SlotsOf(capacity) /\ Slots \cup {Null} = SlotsOrNull(capacity)
  BY DEF Slots, SlotsOf, SlotsOrNull
<1>3. \A s \in Slots : /\ Links[s] = entries[s].next
                       /\ entries[s].next \in SlotsOrNull(capacity)
                       /\ entries[s].hash \in {Fresh} \cup 0 .. kInvalidHash
                       /\ s # Null
  BY <1>1, <1>2 DEF TypeOK, Entry, Links, LinksOf, Null, SlotsOf
<1>4. Live \subseteq Slots /\ Erased \subseteq Slots
      /\ \A b : InBucket(b) \subseteq Live
  BY DEF Live, Erased, Handed, InBucket, BucketIn, LiveIn, Slots, SlotsOf
<1>5. ASSUME NEW i \in Live
      PROVE  entries[i].hash \in Nat
  <2>1. i \in Slots /\ entries[i].hash # Fresh
    BY DEF Live, Handed
  <2>2. entries[i].hash \in 0 .. kInvalidHash
    BY <1>3, <2>1
  <2> QED BY <2>2
<1> QED BY <1>1, <1>2, <1>3, <1>4, <1>5

LEMMA LiveIs ==
  /\ Live = LiveIn(entries, capacity, count)
  /\ Erased = ErasedIn(entries, capacity, count)
BY DEF Live, Erased, Handed, LiveIn, ErasedIn, Slots, SlotsOf

LEMMA HopWalks ==
  ASSUME TypeOK
  PROVE  Walk(Hop, Links, capacity, {})
BY Typed DEF Walk, Hop, SlotsOrNull

LEMMA ChainVisited ==
  ASSUME TypeOK, NEW r \in Orders(capacity), NEW L \in SUBSET Slots, NEW h,
         Chained(Links, h, L, r)
  PROVE  Ends(h) /\ Visited(h) = L
<1>1. /\ capacity \in Nat /\ L \in SUBSET SlotsOf(capacity)
      /\ Walk(Hop, Links, capacity, {})
  BY Typed, HopWalks
<1>2. Reached(Hop, h)[capacity] \in (L \cap {}) \cup {Null}
  BY <1>1, WalkEnds
<1>3. Descends(Reached(Hop, h), L, {}, r, capacity)
  BY <1>1, WalkDescends
<1>4. ASSUME NEW s \in L
      PROVE  \E n \in 0 .. capacity : Reached(Hop, h)[n] = s
  <2>1. L \cap {} \subseteq {s}
    OBVIOUS
  <2> QED BY <1>1, <2>1, WalkMeets
<1>5. L \subseteq Visited(h)
  BY <1>1, <1>4, Typed DEF Visited, After
<1>6. Visited(h) \subseteq L
  BY <1>1, <1>3 DEF Visited, After, Descends
<1> QED BY <1>2, <1>5, <1>6 DEF Ends, After

LEMMA GoodChainsSound ==
  ASSUME IInv
  PROVE  ChainsSound
<1>1. PICK r : Good(r)
  BY DEF IInv
<1>2. TypeOK
  BY DEF IInv
<1>3. ASSUME NEW b \in Slots
      PROVE  Ends(buckets[b]) /\ Visited(buckets[b]) = InBucket(b)
  <2>1. Chained(Links, buckets[b], InBucket(b), r) /\ r \in Orders(capacity)
    BY <1>1 DEF Good, Sound, Links, InBucket, Slots, SlotsOf
  <2>2. InBucket(b) \in SUBSET Slots
    BY <1>2, Typed
  <2> QED BY <1>2, <2>1, <2>2, ChainVisited
<1>4. \A b : InBucket(b) = {i \in Live : index_of(entries[i].hash, capacity) = b}
  BY LiveIs DEF InBucket, BucketIn
<1> QED BY <1>2, <1>3, <1>4 DEF ChainsSound

LEMMA GoodFreelistSound ==
  ASSUME IInv
  PROVE  FreelistSound
<1>1. PICK r : Good(r)
  BY DEF IInv
<1>2. TypeOK /\ Erased \in SUBSET Slots
  BY Typed DEF IInv
<1>3. Chained(Links, freeHead, Erased, r) /\ r \in Orders(capacity)
  BY <1>1, LiveIs DEF Good, Sound, Links
<1>4. Ends(freeHead) /\ Visited(freeHead) = Erased
  BY <1>2, <1>3, ChainVisited
<1> QED BY <1>4 DEF FreelistSound, IInv

\* A search down a chain stops at an entry with the key, if there is one.
LEMMA SearchStops ==
  ASSUME TypeOK, NEW r \in Orders(capacity), NEW L \in SUBSET Slots, NEW h,
         Chained(Links, h, L, r), NEW k
  PROVE  /\ Search(k, h) \in {s \in L : Holds(s, k)} \cup {Null}
         /\ \A s \in L : Holds(s, k) /\ (\A x \in L : Holds(x, k) => x = s)
                           => Search(k, h) = s
<1> DEFINE round == [s \in Slots \cup {Null} |->
                       IF s = Null \/ Holds(s, k) THEN s ELSE entries[s].next]
           M == {s \in Slots : Holds(s, k)}
           at == Reached(round, h)
<1>1. capacity \in Nat /\ L \in SUBSET SlotsOf(capacity)
  BY Typed
<1>2. Walk(round, Links, capacity, M)
  <2>1. round \in [SlotsOrNull(capacity) -> SlotsOrNull(capacity)]
    BY Typed
  <2> QED BY <2>1, Typed DEF Walk
<1>3. Search(k, h) = at[capacity]
  BY DEF Search
<1>4. round[Null] = Null /\ \A s \in M : round[s] = s
  BY <1>2, Typed DEF Walk
<1>5. L \cap M = {s \in L : Holds(s, k)}
  OBVIOUS
<1> HIDE DEF round, M
<1>6. at[capacity] \in (L \cap M) \cup {Null}
  BY <1>1, <1>2, WalkEnds
<1>7. ASSUME NEW s \in L, Holds(s, k), \A x \in L : Holds(x, k) => x = s
      PROVE  at[capacity] = s
  <2>1. L \cap M \subseteq {s} /\ s \in M
    BY <1>5, <1>7
  <2>2. PICK n \in 0 .. capacity : at[n] = s
    BY <1>1, <1>2, <2>1, WalkMeets
  <2>3. h \in SlotsOrNull(capacity)
    BY <1>1 DEF Chained, SlotsOrNull
  <2>4. Follows(at, round, h)
    BY <2>3, <1>2, ReachedHops DEF Walk
  <2> HIDE DEF at
  <2> DEFINE Stays == {i \in Nat : at[n + i] = s}
  <2>5. 0 \in Stays
    BY <1>1, <2>2
  <2>6. ASSUME NEW i \in Nat, i \in Stays
        PROVE  i + 1 \in Stays
    <3>1. at[n + i] = s /\ n + i \in Nat /\ n + (i + 1) = (n + i) + 1
      BY <1>1, <2>6
    <3>2. at[(n + i) + 1] = round[at[n + i]]
      BY <2>4, <3>1 DEF Follows
    <3> QED BY <1>4, <2>1, <3>1, <3>2
  <2> HIDE DEF Stays
  <2>7. capacity - n \in Stays
    BY <1>1, <2>5, <2>6, SetInduction
  <2>8. n + (capacity - n) = capacity
    BY <1>1
  <2> QED BY <2>7, <2>8 DEF Stays
<1> QED BY <1>3, <1>5, <1>6, <1>7 DEF M

\* What find returns.
LEMMA FindStops ==
  ASSUME DictionaryAssumption, IInv, NEW k \in Keys
  PROVE  /\ find(k) # Null =>
              /\ find(k) \in InBucket(BucketOf(k)) /\ Holds(find(k), k)
              /\ capacity # 0 /\ BucketOf(k) \in Slots
         /\ Kempt => \A i \in Live : entries[i].key = k => find(k) = i
<1>1. PICK r : Good(r)
  BY DEF IInv
<1>2. TypeOK /\ capacity \in Nat /\ r \in Orders(capacity)
  BY <1>1, Typed DEF IInv, Good, Sound
<1>3. CASE capacity = 0
  <2>1. Slots = {}
    BY <1>3 DEF Slots
  <2>2. find(k) = Null
    <3>1. CASE buckets = <<>>
      BY <3>1 DEF find
    <3>2. CASE buckets # <<>>
      <4>1. buckets[BucketOf(k)] = Null
        BY <1>3, <3>2 DEF IInv, NoChains, BucketOf, index_of
      <4>2. Chained(Links, Null, {}, r)
        BY DEF Chained
      <4>3. Search(k, Null) \in {s \in {} : Holds(s, k)} \cup {Null}
        BY <1>2, <4>2, SearchStops
      <4> QED BY <3>2, <4>1, <4>3 DEF find
    <3> QED BY <3>1, <3>2
  <2>3. Live = {}
    BY <2>1 DEF Live, Handed
  <2> QED BY <2>2, <2>3
<1>4. CASE capacity # 0
  <2> DEFINE b == BucketOf(k)
             L == InBucket(b)
  <2>1. hash_code(k) \in Nat /\ capacity \in Nat \ {0}
    BY <1>2, <1>4, HashesTyped
  <2>2. b \in Slots
    BY <2>1, IndexTyped DEF BucketOf, Slots, SlotsOf
  <2>3. buckets \in [Slots -> Slots \cup {Null}]
    BY <1>2, <1>4 DEF TypeOK
  <2>4. buckets # <<>>
    <3>1. DOMAIN buckets = Slots
      BY <2>3
    <3> QED BY <2>2, <3>1
  <2>5. find(k) = Search(k, buckets[b])
    BY <2>4 DEF find
  <2>6. Chained(Links, buckets[b], L, r) /\ L \in SUBSET Slots
    <3>1. Slots = SlotsOf(capacity)
      BY DEF Slots, SlotsOf
    <3>2. Chained(Links, buckets[b], L, r)
      BY <1>1, <2>2, <3>1 DEF Good, Sound, Links, InBucket
    <3> QED BY <1>2, <3>2, Typed
  <2> HIDE DEF b
  <2>7. /\ Search(k, buckets[b]) \in {s \in L : Holds(s, k)} \cup {Null}
        /\ \A s \in L : Holds(s, k) /\ (\A x \in L : Holds(x, k) => x = s)
                          => Search(k, buckets[b]) = s
    <3> HIDE DEF L
    <3> QED BY <1>2, <2>6, SearchStops
  <2>8. ASSUME Kempt, NEW i \in Live, entries[i].key = k
        PROVE  find(k) = i
    <3>1. entries[i].hash = hash_code(k)
      BY <2>8 DEF Kempt, Keyed
    <3>2. i \in L /\ Holds(i, k)
      BY <2>8, <3>1, LiveIs DEF InBucket, BucketIn, Holds, b, BucketOf
    <3>3. \A x \in L : Holds(x, k) => x = i
      BY <2>8, LiveIs DEF Kempt, Keyed, Holds, InBucket, BucketIn
    <3> HIDE DEF L
    <3> QED BY <2>5, <2>7, <3>2, <3>3
  <2> QED BY <1>4, <2>2, <2>5, <2>7, <2>8 DEF b
<1> QED BY <1>3, <1>4

-----------------------------------------------------------------------------
(* Insertion                                                               *)

\* What Link writes: slot s as the entry of k, in front of its chain.
EntryFor(k, v, next) ==
  [hash |-> hash_code(k), key |-> k, val |-> v, next |-> next]

With(S, s) == S \cup {s}
Without(S, s) == S \ {s}

\* The slots below n2 are those below n, and s.
Takes(n, n2, s, cap) == \A i \in SlotsOf(cap) : i < n2 <=> i < n \/ i = s

LinkedIn(bs, e, cap, s, k, v, bs2, e2) ==
  LET ix == index_of(hash_code(k), cap)
  IN  /\ bs2 = [bs EXCEPT ![ix] = s]
      /\ e2 = [e EXCEPT ![s] = EntryFor(k, v, bs[ix])]

\* Link keeps the order, with the new entry on top.
LEMMA LinkSound ==
  ASSUME DictionaryAssumption, NEW cap \in Nat \ {0},
         NEW bs, NEW e, Tables(bs, e, cap), NEW n \in Nat, NEW fh,
         NEW r, Sound(bs, e, cap, n, fh, r),
         NEW s \in SlotsOf(cap), s \notin LiveIn(e, cap, n),
         NEW n2 \in Nat, Takes(n, n2, s, cap),
         NEW fh2,
         Chained(LinksOf(e, cap), fh2, Without(ErasedIn(e, cap, n), s), r),
         NEW k \in Keys, NEW v \in Vals,
         NEW bs2, NEW e2, LinkedIn(bs, e, cap, s, k, v, bs2, e2)
  PROVE  /\ Tables(bs2, e2, cap)
         /\ \E q : Sound(bs2, e2, cap, n2, fh2, q)
         /\ LiveIn(e2, cap, n2) = With(LiveIn(e, cap, n), s)
         /\ ErasedIn(e2, cap, n2) = Without(ErasedIn(e, cap, n), s)
<1> USE DEF With, Without
<1> DEFINE ix == index_of(hash_code(k), cap)
           h == hash_code(k)
           q == Topped(r, s, cap)
<1>1. h \in 0 .. kInvalidHash /\ h \in Nat /\ h # kInvalidHash /\ h # Fresh
  BY HashesTyped DEF Fresh
<1>2. ix \in SlotsOf(cap)
  BY <1>1, IndexTyped
<1>3. /\ e \in [SlotsOf(cap) -> EntryOf(cap)]
      /\ bs \in [SlotsOf(cap) -> SlotsOrNull(cap)]
  BY DEF Tables
<1>4. bs[ix] \in SlotsOrNull(cap) /\ s \in SlotsOrNull(cap)
  BY <1>2, <1>3 DEF SlotsOrNull
<1>5. /\ e2[s] = EntryFor(k, v, bs[ix])
      /\ \A i \in SlotsOf(cap) \ {s} : e2[i] = e[i]
      /\ bs2[ix] = s
      /\ \A b \in SlotsOf(cap) \ {ix} : bs2[b] = bs[b]
      /\ bs2 = [bs EXCEPT ![ix] = s] /\ e2 = [e EXCEPT ![s] = EntryFor(k, v, bs[ix])]
  BY <1>2, <1>3 DEF LinkedIn
<1>6. e2[s].hash = h /\ e2[s].next = bs[ix]
  BY <1>5 DEF EntryFor
<1>7. Tables(bs2, e2, cap)
  <2>1. EntryFor(k, v, bs[ix]) \in EntryOf(cap)
    BY <1>1, <1>4 DEF EntryFor, EntryOf
  <2> HIDE DEF ix
  <2>2. e2 \in [SlotsOf(cap) -> EntryOf(cap)]
    BY <1>3, <1>5, <2>1
  <2>3. bs2 \in [SlotsOf(cap) -> SlotsOrNull(cap)]
    BY <1>2, <1>3, <1>4, <1>5
  <2> QED BY <2>2, <2>3 DEF Tables
<1> HIDE DEF h, ix
<1>8. LiveIn(e2, cap, n2) = LiveIn(e, cap, n) \cup {s}
  BY <1>1, <1>5, <1>6 DEF LiveIn, Takes
<1>9. ErasedIn(e2, cap, n2) = ErasedIn(e, cap, n) \ {s}
  BY <1>1, <1>5, <1>6 DEF ErasedIn, Takes
<1>10. /\ BucketIn(e2, cap, n2, ix) = BucketIn(e, cap, n, ix) \cup {s}
       /\ \A b \in SlotsOf(cap) \ {ix} :
            BucketIn(e2, cap, n2, b) = BucketIn(e, cap, n, b)
  <2>1. index_of(e2[s].hash, cap) = ix
    BY <1>6 DEF h, ix
  <2>2. LiveIn(e, cap, n) \subseteq SlotsOf(cap) \ {s}
    BY DEF LiveIn
  <2>3. \A b, i : i \in BucketIn(e2, cap, n2, b) <=>
          \/ i = s /\ b = ix
          \/ i \in LiveIn(e, cap, n) /\ index_of(e[i].hash, cap) = b
    <3>1. \A i \in LiveIn(e, cap, n) : e2[i] = e[i]
      BY <1>5, <2>2
    <3> QED BY <1>8, <2>1, <2>2, <3>1 DEF BucketIn
  <2>4. \A b, i : i \in BucketIn(e, cap, n, b) <=>
          i \in LiveIn(e, cap, n) /\ index_of(e[i].hash, cap) = b
    BY DEF BucketIn
  <2>5. BucketIn(e2, cap, n2, ix) = BucketIn(e, cap, n, ix) \cup {s}
    <3>1. \A i : i \in BucketIn(e2, cap, n2, ix)
                   <=> i \in BucketIn(e, cap, n, ix) \cup {s}
      BY ONLY <2>3, <2>4
    <3> QED BY ONLY <3>1
  <2>6. ASSUME NEW b \in SlotsOf(cap) \ {ix}
        PROVE  BucketIn(e2, cap, n2, b) = BucketIn(e, cap, n, b)
    <3>1. \A i : i \in BucketIn(e2, cap, n2, b)
                   <=> i \in BucketIn(e, cap, n, b)
      BY ONLY <2>3, <2>4, b \in SlotsOf(cap) \ {ix}
    <3> QED BY ONLY <3>1
  <2> QED BY <2>5, <2>6
<1>11. /\ r \in Orders(cap)
       /\ \A b \in SlotsOf(cap) :
            Chained(LinksOf(e, cap), bs[b], BucketIn(e, cap, n, b), r)
  BY DEF Sound
<1>12. /\ q \in Orders(cap)
       /\ \A x \in SlotsOf(cap) \ {s} : q[x] < q[s]
       /\ SameOrder(r, q, SlotsOf(cap) \ {s})
  BY <1>11, ToppedOrder
<1>13. /\ \A b : BucketIn(e, cap, n, b) \subseteq SlotsOf(cap) \ {s}
       /\ ErasedIn(e, cap, n) \ {s} \subseteq SlotsOf(cap) \ {s}
  BY DEF BucketIn, LiveIn, ErasedIn
<1>14. /\ \A x \in SlotsOf(cap) \ {s} : LinksOf(e2, cap)[x] = LinksOf(e, cap)[x]
       /\ LinksOf(e2, cap)[s] = bs[ix]
  BY <1>5, <1>6 DEF LinksOf
<1> HIDE DEF q
<1>15. ASSUME NEW L, L \subseteq SlotsOf(cap) \ {s}
       PROVE  /\ L \in SUBSET SlotsOf(cap) /\ s \in SlotsOf(cap) \ L
              /\ SameOrder(r, q, L)
              /\ \A x \in L : q[x] < q[s]
              /\ \A x \in L : LinksOf(e2, cap)[x] = LinksOf(e, cap)[x]
  BY <1>12, <1>14, <1>15 DEF SameOrder
<1>16. Chained(LinksOf(e2, cap), fh2, ErasedIn(e2, cap, n2), q)
  <2> DEFINE L == ErasedIn(e, cap, n) \ {s}
  <2>1. Chained(LinksOf(e, cap), fh2, L, r) /\ L \subseteq SlotsOf(cap) \ {s}
    BY <1>13
  <2> HIDE DEF L
  <2>2. Chained(LinksOf(e2, cap), fh2, L, q)
    BY <2>1, <1>11, <1>12, <1>15, ChainKept
  <2> QED BY <2>2, <1>9 DEF L
<1>17. Chained(LinksOf(e2, cap), bs2[ix], BucketIn(e2, cap, n2, ix), q)
  <2> DEFINE L == BucketIn(e, cap, n, ix)
             f == bs[ix]
  <2>1. Chained(LinksOf(e, cap), f, L, r) /\ L \subseteq SlotsOf(cap) \ {s}
        /\ LinksOf(e2, cap)[s] = f
    BY <1>2, <1>11, <1>13, <1>14
  <2> HIDE DEF L, f
  <2>2. Chained(LinksOf(e2, cap), s, L \cup {s}, q)
    BY <2>1, <1>11, <1>12, <1>15, ChainPushed
  <2> QED BY <2>2, <1>5, <1>10 DEF L
<1>18. ASSUME NEW b \in SlotsOf(cap) \ {ix}
       PROVE  Chained(LinksOf(e2, cap), bs2[b], BucketIn(e2, cap, n2, b), q)
  <2> DEFINE L == BucketIn(e, cap, n, b)
             f == bs[b]
  <2>1. Chained(LinksOf(e, cap), f, L, r) /\ L \subseteq SlotsOf(cap) \ {s}
    BY <1>11, <1>13
  <2> HIDE DEF L, f
  <2>2. Chained(LinksOf(e2, cap), f, L, q)
    BY <2>1, <1>11, <1>12, <1>15, ChainKept
  <2> QED BY <2>2, <1>5, <1>10 DEF L, f
<1>19. Sound(bs2, e2, cap, n2, fh2, q)
  BY <1>12, <1>16, <1>17, <1>18 DEF Sound
<1> QED BY <1>7, <1>8, <1>9, <1>19

-----------------------------------------------------------------------------
(* Steps                                                                   *)

LEMMA ErasedCounted ==
  ASSUME NEW e, NEW cap \in Nat, NEW n
  PROVE  /\ IsFiniteSet(ErasedIn(e, cap, n))
         /\ Cardinality(ErasedIn(e, cap, n)) \in Nat
<1>1. IsFiniteSet(SlotsOf(cap))
  BY FS_Interval DEF SlotsOf
<1>2. ErasedIn(e, cap, n) \subseteq SlotsOf(cap)
  BY DEF ErasedIn
<1>3. IsFiniteSet(ErasedIn(e, cap, n))
  BY <1>1, <1>2, FS_Subset
<1> QED BY <1>3, FS_CardinalityType

\* What a step must show of the tables it leaves.
Standing ==
  /\ capacity \in Capacities \ {0}
  /\ count \in Nat
  /\ fault \in Faults
  /\ Tables(buckets, entries, capacity)
  /\ \E r : Sound(buckets, entries, capacity, count, freeHead, r)
  /\ freeSize = Cardinality(ErasedIn(entries, capacity, count))

\* And of a dictionary that has none.
Bare ==
  /\ capacity = 0
  /\ count \in Nat
  /\ fault \in Faults
  /\ entries \in [{} -> Entry]
  /\ freeHead = Null /\ freeSize = 0
  /\ NoChains

LEMMA Established == Standing => IInv
<1> SUFFICES ASSUME Standing
             PROVE  IInv
  OBVIOUS
<1>1. PICK q : Sound(buckets, entries, capacity, count, freeHead, q)
  BY DEF Standing
<1>2. capacity \in Nat /\ capacity > 0
      /\ capacity \in {0} \cup {Power2[i] : i \in 0 .. capacity}
  <2>1. capacity \in Capacities \ {0}
    BY DEF Standing
  <2>2. capacity \in Nat
        /\ capacity \in {0} \cup {Power2[i] : i \in 0 .. capacity}
    BY ONLY <2>1, CapacityTyped
  <2> QED BY <2>1, <2>2
<1>3. Slots = SlotsOf(capacity)
      /\ (Slots \cup {Null}) = SlotsOrNull(capacity)
  BY DEF Slots, SlotsOf, SlotsOrNull
<1>4. Erased = ErasedIn(entries, capacity, count)
  BY LiveIs
<1>5. freeHead \in Slots \cup {Null}
  BY <1>1, <1>3 DEF Sound, Chained, ErasedIn, SlotsOrNull
<1>6. entries \in [Slots -> Entry]
  BY <1>3 DEF Standing, Tables, Entry, EntryOf
<1>7. buckets \in [Slots -> Slots \cup {Null}]
  BY <1>3 DEF Standing, Tables
<1>8. freeSize \in Nat
  BY <1>2, ErasedCounted DEF Standing
<1>9. TypeOK
  BY <1>2, <1>5, <1>6, <1>7, <1>8 DEF TypeOK, Standing
<1>10. Good(q)
  BY <1>1 DEF Good
<1> QED BY <1>2, <1>4, <1>9, <1>10 DEF IInv, NoChains, Standing

LEMMA EstablishedBare == Bare => IInv
<1> SUFFICES ASSUME Bare
             PROVE  IInv
  OBVIOUS
<1> DEFINE q == [i \in SlotsOf(capacity) |-> i]
<1>1. capacity = 0 /\ Slots = {} /\ SlotsOf(capacity) = {}
  BY DEF Bare, Slots, SlotsOf
<1>2. q \in Orders(capacity)
  BY <1>1 DEF Orders
<1>3. Erased = {} /\ ErasedIn(entries, capacity, count) = {}
  BY <1>1 DEF Erased, Handed, ErasedIn
<1>4. Chained(Links, Null, {}, q)
  BY DEF Chained
<1> HIDE DEF q
<1>5. Good(q)
  BY <1>1, <1>2, <1>3, <1>4 DEF Good, Sound, Links, Bare
<1>6. freeSize = Cardinality(Erased)
  BY <1>3, FS_EmptySet DEF Bare
<1>7. TypeOK
  BY <1>1 DEF Bare, TypeOK
<1> QED BY <1>5, <1>6, <1>7 DEF Bare, IInv

LEMMA EstablishedNext == (Standing' => IInv') /\ (Bare' => IInv')
BY Established, EstablishedBare, PTL

\* What the tables of a dictionary that has any are.
LEMMA HasTables ==
  ASSUME IInv, capacity # 0
  PROVE  /\ capacity \in Nat \ {0} /\ capacity \in Capacities \ {0}
         /\ count \in Nat
         /\ Tables(buckets, entries, capacity)
<1>1. TypeOK
  BY DEF IInv
<1>2. capacity \in Nat \ {0} /\ capacity \in Capacities \ {0}
      /\ Slots = SlotsOf(capacity) /\ Slots \cup {Null} = SlotsOrNull(capacity)
  BY <1>1, Typed
<1>3. capacity > 0
  BY <1>2
<1>4. Entry = EntryOf(capacity)
  BY <1>2 DEF Entry, EntryOf
<1> QED BY <1>1, <1>2, <1>3, <1>4 DEF TypeOK, Tables

\* A run that ends with a fault leaves the dictionary as it was.
LEMMA FaultKeeps ==
  ASSUME IInv, fault' \in Faults,
         UNCHANGED <<buckets, entries, count, capacity, freeHead, freeSize>>
  PROVE  IInv'
<1>1. TypeOK /\ NoChains /\ freeSize = Cardinality(Erased)
  BY DEF IInv
<1>2. PICK r : Good(r)
  BY DEF IInv
<1>3. TypeOK'
  BY <1>1 DEF TypeOK, Slots, Entry
<1>4. Good(r)'
  BY <1>2 DEF Good
<1>5. \E q : Good(q)'
  BY <1>4
<1>6. Erased' = Erased
  BY DEF Erased, Handed, Slots
<1>7. NoChains'
  BY <1>1 DEF NoChains
<1> QED BY <1>1, <1>3, <1>5, <1>6, <1>7 DEF IInv

\* InsertUpdate changes no link and no hash.
LEMMA InsertUpdateKeeps ==
  ASSUME DictionaryAssumption, IInv, NEW k \in Keys, NEW v \in Vals,
         InsertUpdate(k, v)
  PROVE  IInv'
<1> DEFINE s == find(k)
<1>1. s \in InBucket(BucketOf(k)) /\ capacity # 0
  BY FindStops DEF InsertUpdate
<1>2. /\ capacity \in Nat \ {0} /\ capacity \in Capacities \ {0}
      /\ count \in Nat /\ Tables(buckets, entries, capacity)
  BY <1>1, HasTables
<1>3. s \in SlotsOf(capacity)
  BY <1>1 DEF InBucket, BucketIn, LiveIn
<1>4. /\ entries' = [entries EXCEPT ![s].val = v]
      /\ UNCHANGED <<buckets, count, capacity, freeHead, freeSize, fault>>
  BY DEF InsertUpdate
<1> HIDE DEF s
<1>5. entries \in [SlotsOf(capacity) -> EntryOf(capacity)]
  BY <1>2 DEF Tables
<1>6. entries[s] \in EntryOf(capacity)
  BY <1>3, <1>5
<1>7. [entries[s] EXCEPT !.val = v] \in EntryOf(capacity)
  BY <1>6 DEF EntryOf
<1>8. entries' \in [SlotsOf(capacity) -> EntryOf(capacity)]
  BY <1>4, <1>5, <1>7
<1>9. \A i \in SlotsOf(capacity) :
        entries'[i].hash = entries[i].hash /\ entries'[i].next = entries[i].next
  BY <1>3, <1>4, <1>5, <1>6 DEF EntryOf
<1>10. LinksOf(entries', capacity) = LinksOf(entries, capacity)
  BY <1>9 DEF LinksOf
<1>11. /\ LiveIn(entries', capacity, count) = LiveIn(entries, capacity, count)
       /\ ErasedIn(entries', capacity, count)
            = ErasedIn(entries, capacity, count)
  BY <1>9 DEF LiveIn, ErasedIn
<1>12. \A b : BucketIn(entries', capacity, count, b)
                = BucketIn(entries, capacity, count, b)
  BY <1>9, <1>11 DEF BucketIn, LiveIn
<1>13. PICK r : Good(r)
  BY DEF IInv
<1>14. Sound(buckets, entries', capacity, count, freeHead, r)
  BY <1>10, <1>11, <1>12, <1>13 DEF Good, Sound
<1>15. freeSize = Cardinality(ErasedIn(entries, capacity, count))
       /\ fault \in Faults
  BY LiveIs DEF IInv, TypeOK
<1>16. Tables(buckets, entries', capacity)
  BY <1>2, <1>8 DEF Tables
<1>17. Standing'
  BY <1>2, <1>4, <1>11, <1>14, <1>15, <1>16 DEF Standing
<1> QED BY <1>17, EstablishedNext

\* Insertion in a slot of the present array, s: off the free list, or the
\* next one.
LEMMA LinkKeeps ==
  ASSUME DictionaryAssumption, IInv, capacity # 0,
         NEW k \in Keys, NEW v \in Vals, NEW s \in Slots, s \notin Live,
         Link(buckets, entries, capacity, s, k, v),
         count' \in Nat, \A i \in Slots : i < count' <=> i < count \/ i = s,
         \A r : Good(r) => Chained(Links, freeHead', Erased \ {s}, r),
         freeSize' = Cardinality(Erased \ {s}),
         UNCHANGED <<capacity, fault>>
  PROVE  /\ IInv'
         /\ Live' = Live \cup {s}
         /\ Erased' = Erased \ {s}
<1>1. /\ capacity \in Nat \ {0} /\ capacity \in Capacities \ {0}
      /\ count \in Nat /\ Tables(buckets, entries, capacity)
  BY HasTables
<1>2. PICK r : Good(r)
  BY DEF IInv
<1>3. Sound(buckets, entries, capacity, count, freeHead, r)
  BY <1>2 DEF Good
<1>4. Slots = SlotsOf(capacity)
  BY DEF Slots, SlotsOf
<1>5. /\ s \in SlotsOf(capacity) /\ s \notin LiveIn(entries, capacity, count)
      /\ \A i \in SlotsOf(capacity) : i < count' <=> i < count \/ i = s
  BY <1>4, LiveIs
<1>6. Chained(LinksOf(entries, capacity), freeHead',
              ErasedIn(entries, capacity, count) \ {s}, r)
  BY <1>2, LiveIs DEF Links
<1>7. LinkedIn(buckets, entries, capacity, s, k, v, buckets', entries')
  BY DEF Link, LinkedIn, EntryFor
<1> DEFINE bs2 == buckets'
           e2 == entries'
           n2 == count'
           fh2 == freeHead'
<1> HIDE DEF bs2, e2, n2, fh2
<1>8. /\ Tables(bs2, e2, capacity)
      /\ \E q : Sound(bs2, e2, capacity, n2, fh2, q)
      /\ LiveIn(e2, capacity, n2) = With(LiveIn(entries, capacity, count), s)
      /\ ErasedIn(e2, capacity, n2)
           = Without(ErasedIn(entries, capacity, count), s)
  <2>1. n2 \in Nat /\ k \in Keys /\ v \in Vals
    BY DEF n2
  <2>2. Takes(count, n2, s, capacity)
    BY <1>5 DEF n2, Takes
  <2>3. Chained(LinksOf(entries, capacity), fh2,
                Without(ErasedIn(entries, capacity, count), s), r)
    BY <1>6 DEF fh2, Without
  <2>4. LinkedIn(buckets, entries, capacity, s, k, v, bs2, e2)
    BY <1>7 DEF bs2, e2
  <2> QED BY ONLY DictionaryAssumption, <1>1, <1>3, <1>5, <2>1, <2>2, <2>3,
                  <2>4, LinkSound
<1> USE DEF bs2, e2, n2, fh2
<1>9. /\ Live' = LiveIn(entries', capacity, count')
      /\ Erased' = ErasedIn(entries', capacity, count')
  BY DEF Live, Erased, Handed, LiveIn, ErasedIn, Slots, SlotsOf
<1>10. Live' = Live \cup {s} /\ Erased' = Erased \ {s}
  BY <1>8, <1>9, LiveIs DEF With, Without
<1>11. fault' \in Faults /\ capacity' = capacity
  BY DEF IInv, TypeOK
<1>12. freeSize' = Cardinality(ErasedIn(entries', capacity', count'))
  BY <1>9, <1>10, <1>11
<1>13. IInv'
  <2>1. Standing'
    BY <1>1, <1>8, <1>11, <1>12 DEF Standing
  <2> QED BY <2>1, EstablishedNext
<1> QED BY <1>10, <1>13

LEMMA InsertReuseKeeps ==
  ASSUME DictionaryAssumption, IInv, NEW k \in Keys, NEW v \in Vals,
         InsertReuse(k, v)
  PROVE  /\ IInv'
         /\ freeHead \in Erased /\ capacity # 0
         /\ Live' = Live \cup {freeHead} /\ Erased' = Erased \ {freeHead}
<1>1. freeSize = Cardinality(Erased) /\ freeSize > 0 /\ TypeOK
  BY DEF IInv, InsertReuse
<1>2. /\ capacity \in Nat /\ Erased \subseteq Slots
      /\ Erased = ErasedIn(entries, capacity, count)
  BY <1>1, Typed, LiveIs
<1>3. IsFiniteSet(Erased)
  BY <1>2, ErasedCounted
<1>4. Erased # {}
  BY <1>1, FS_EmptySet
<1>5. ASSUME NEW r, Good(r)
      PROVE  /\ freeHead \in Erased
             /\ Chained(Links, entries[freeHead].next, Erased \ {freeHead}, r)
  <2>1. Chained(Links, freeHead, Erased, r) /\ r \in Orders(capacity)
    BY <1>2, <1>5 DEF Good, Sound, Links
  <2>2. freeHead \in Erased
    BY <1>4, <2>1 DEF Chained
  <2>3. Erased \in SUBSET SlotsOf(capacity)
    BY <1>2 DEF Slots, SlotsOf
  <2>4. Chained(Links, Links[freeHead], Erased \ {freeHead}, r)
    BY <2>1, <2>2, <2>3, ChainPopped
  <2>5. Links[freeHead] = entries[freeHead].next
    BY <1>1, <1>2, <2>2, Typed
  <2> QED BY <2>2, <2>4, <2>5
<1>6. freeHead \in Erased
  BY <1>5 DEF IInv
<1>7. capacity # 0
  BY <1>2, <1>6 DEF Slots
<1>8. freeHead \in Slots /\ freeHead \notin Live /\ freeHead < count
  BY <1>6 DEF Erased, Live, Handed
<1>9. \A r : Good(r) => Chained(Links, freeHead', Erased \ {freeHead}, r)
  BY <1>5 DEF InsertReuse
<1>10. freeSize' = Cardinality(Erased \ {freeHead})
  BY <1>1, <1>3, <1>6, FS_RemoveElement DEF InsertReuse
<1>11. count' \in Nat /\ \A i \in Slots : i < count' <=> i < count \/ i = freeHead
  BY <1>1, <1>8 DEF InsertReuse, TypeOK
<1>12. /\ Link(buckets, entries, capacity, freeHead, k, v)
       /\ UNCHANGED <<capacity, fault>>
  BY DEF InsertReuse
<1> QED BY <1>6, <1>7, <1>8, <1>9, <1>10, <1>11, <1>12, LinkKeeps

LEMMA InsertNextKeeps ==
  ASSUME DictionaryAssumption, IInv, NEW k \in Keys, NEW v \in Vals,
         InsertNext(k, v)
  PROVE  /\ IInv'
         /\ count \in Slots /\ capacity # 0
         /\ Live' = Live \cup {count} /\ Erased' = Erased
<1>1. TypeOK /\ freeSize = Cardinality(Erased) /\ count < capacity
  BY DEF IInv, InsertNext
<1>2. capacity \in Nat /\ count \in Nat
  BY <1>1, Typed DEF TypeOK
<1>3. count \in Slots /\ capacity # 0 /\ count \notin Live /\ count \notin Erased
  BY <1>1, <1>2 DEF Slots, Live, Erased, Handed
<1>4. Erased \ {count} = Erased
  BY <1>3
<1>5. ASSUME NEW r, Good(r)
      PROVE  Chained(Links, freeHead', Erased \ {count}, r)
  BY <1>4, <1>5, LiveIs DEF Good, Sound, Links, InsertNext
<1>6. freeSize' = Cardinality(Erased \ {count})
  BY <1>1, <1>4 DEF InsertNext
<1>7. count' \in Nat /\ \A i \in Slots : i < count' <=> i < count \/ i = count
  BY <1>2 DEF InsertNext, Slots
<1>8. /\ Link(buckets, entries, capacity, count, k, v)
      /\ UNCHANGED <<capacity, fault>>
  BY DEF InsertNext
<1>9. IInv' /\ Live' = Live \cup {count} /\ Erased' = Erased \ {count}
  BY <1>3, <1>5, <1>6, <1>7, <1>8, LinkKeeps
<1> QED BY <1>3, <1>4, <1>9

LEMMA ClearKeeps ==
  ASSUME DictionaryAssumption, IInv, Clear
  PROVE  IInv' /\ Live' = {} /\ Erased' = {}
<1>1. TypeOK /\ capacity \in Nat /\ capacity \in Capacities
      /\ Slots = SlotsOf(capacity)
  BY Typed DEF IInv
<1>2. /\ capacity' = capacity /\ fault' = fault /\ count' = 0
      /\ freeHead' = Null /\ freeSize' = 0
      /\ entries' = [i \in SlotsOf(capacity) |-> Untouched]
  BY <1>1 DEF Clear
<1>3. \A i \in Slots : ~(i < count')
  BY <1>2 DEF Slots
<1>4. Live' = {} /\ Erased' = {} /\ ErasedIn(entries', capacity, count') = {}
      /\ LiveIn(entries', capacity, count') = {}
  BY <1>1, <1>2, <1>3 DEF Live, Erased, Handed, Slots, ErasedIn, LiveIn
<1>5. Untouched \in EntryOf(capacity) /\ Untouched.next = Null
  BY DEF Untouched, EntryOf, SlotsOrNull
<1>6. entries' \in [SlotsOf(capacity) -> EntryOf(capacity)]
  BY <1>2, <1>5
<1>7. CASE capacity = 0
  <2>1. entries \in [{} -> Entry] /\ Slots = {}
    BY <1>1, <1>7 DEF TypeOK, Slots
  <2>2. entries = <<>>
    BY <2>1
  <2>3. buckets' = buckets
    BY <2>2 DEF Clear
  <2>4. NoChains'
    BY <1>2, <1>7, <2>3 DEF NoChains, IInv
  <2>5. entries' \in [{} -> Entry']
    BY <1>1, <1>2, <2>1
  <2>6. Bare'
    BY <1>1, <1>2, <1>7, <2>4, <2>5 DEF Bare, TypeOK
  <2> QED BY <2>6, <1>4, EstablishedNext
<1>8. CASE capacity # 0
  <2> DEFINE q == [i \in SlotsOf(capacity) |-> i]
  <2>1. q \in Orders(capacity)
    BY DEF Orders
  <2>2. DOMAIN entries = Slots /\ 0 \in Slots
    BY <1>1, <1>8 DEF TypeOK, Slots
  <2>3. entries # <<>>
    BY <2>2
  <2>4. buckets' = [b \in SlotsOf(capacity) |-> Null]
    BY <2>3 DEF Clear, Empty, SlotsOf
  <2>5. \A b \in SlotsOf(capacity) : buckets'[b] = Null
    BY <2>4
  <2>6. buckets' \in [SlotsOf(capacity) -> SlotsOrNull(capacity)]
    BY <2>4 DEF SlotsOrNull
  <2> HIDE DEF q
  <2>7. \A nxt : Chained(nxt, Null, {}, q)
    BY DEF Chained
  <2>8. \A b : BucketIn(entries', capacity, count', b) = {}
    BY <1>4 DEF BucketIn
  <2>9. Sound(buckets', entries', capacity, count', freeHead', q)
    BY <1>2, <1>4, <2>1, <2>5, <2>7, <2>8 DEF Sound
  <2>10. Standing'
    BY <1>1, <1>2, <1>4, <1>6, <1>8, <2>6, <2>9, FS_EmptySet
       DEF Standing, Tables, TypeOK
  <2> QED BY <2>10, <1>4, EstablishedNext
<1> QED BY <1>7, <1>8

-----------------------------------------------------------------------------
(* Erasure                                                                 *)

\* What erase leaves: s is marked and points to fh, and the bucket b or the
\* entry p before s in its chain takes over its pointer.
Unlinked(bs, e, cap, n, b, s, fh, bs2, e2) ==
  /\ e2[s].hash = kInvalidHash /\ e2[s].next = fh
  /\ \A i \in SlotsOf(cap) \ {s} : e2[i].hash = e[i].hash
  /\ \A c \in SlotsOf(cap) \ {b} : bs2[c] = bs[c]
  /\ \/ /\ bs[b] = s /\ bs2[b] = e[s].next
        /\ \A i \in SlotsOf(cap) \ {s} : e2[i].next = e[i].next
     \/ /\ bs[b] # s /\ bs2[b] = bs[b]
        /\ \E p \in BucketIn(e, cap, n, b) \ {s} :
             /\ e[p].next = s /\ e2[p].next = e[s].next
             /\ \A i \in SlotsOf(cap) \ {s, p} : e2[i].next = e[i].next

LEMMA UnlinkSound ==
  ASSUME NEW cap \in Nat \ {0}, NEW bs, NEW e, NEW n \in Nat, NEW fh, NEW r,
         Sound(bs, e, cap, n, fh, r),
         NEW b \in SlotsOf(cap), NEW s \in BucketIn(e, cap, n, b),
         NEW bs2, NEW e2, Unlinked(bs, e, cap, n, b, s, fh, bs2, e2)
  PROVE  /\ \E q : Sound(bs2, e2, cap, n, s, q)
         /\ LiveIn(e2, cap, n) = Without(LiveIn(e, cap, n), s)
         /\ ErasedIn(e2, cap, n) = With(ErasedIn(e, cap, n), s)
<1> USE DEF With, Without
<1> DEFINE q == Topped(r, s, cap)
           nxt == LinksOf(e, cap)
           nxt2 == LinksOf(e2, cap)
<1>1. /\ e2[s].hash = kInvalidHash /\ e2[s].next = fh
      /\ \A i \in SlotsOf(cap) \ {s} : e2[i].hash = e[i].hash
      /\ \A c \in SlotsOf(cap) \ {b} : bs2[c] = bs[c]
  BY DEF Unlinked
<1>2. s \in LiveIn(e, cap, n) /\ s \in SlotsOf(cap) /\ s < n
      /\ index_of(e[s].hash, cap) = b
  BY DEF BucketIn, LiveIn
<1>3. LiveIn(e2, cap, n) = LiveIn(e, cap, n) \ {s}
  BY <1>1, <1>2 DEF LiveIn
<1>4. ErasedIn(e2, cap, n) = ErasedIn(e, cap, n) \cup {s}
  BY <1>1, <1>2 DEF ErasedIn
<1>5. ASSUME NEW c
      PROVE  BucketIn(e2, cap, n, c) = BucketIn(e, cap, n, c) \ {s}
  <2>1. \A i \in LiveIn(e, cap, n) \ {s} : e2[i].hash = e[i].hash
    BY <1>1 DEF LiveIn
  <2> QED BY <1>3, <2>1 DEF BucketIn
<1>6. /\ r \in Orders(cap)
      /\ \A c \in SlotsOf(cap) : Chained(nxt, bs[c], BucketIn(e, cap, n, c), r)
      /\ Chained(nxt, fh, ErasedIn(e, cap, n), r)
  BY DEF Sound
<1>7. /\ q \in Orders(cap)
      /\ \A x \in SlotsOf(cap) \ {s} : q[x] < q[s]
      /\ SameOrder(r, q, SlotsOf(cap) \ {s})
  BY <1>2, <1>6, ToppedOrder
<1>8. /\ \A c : BucketIn(e, cap, n, c) \subseteq SlotsOf(cap)
      /\ ErasedIn(e, cap, n) \subseteq SlotsOf(cap) \ {s}
      /\ \A c \in SlotsOf(cap) \ {b} : s \notin BucketIn(e, cap, n, c)
  BY <1>2 DEF BucketIn, LiveIn, ErasedIn
<1>9. /\ \A x \in SlotsOf(cap) : nxt[x] = e[x].next /\ nxt2[x] = e2[x].next
      /\ nxt2[s] = fh
  BY <1>1, <1>2 DEF LinksOf
<1>10. PICK p :
         \/ /\ bs[b] = s /\ bs2[b] = nxt[s]
            /\ \A i \in SlotsOf(cap) \ {s} : nxt2[i] = nxt[i]
            /\ p = s
         \/ /\ bs[b] # s /\ bs2[b] = bs[b]
            /\ p \in BucketIn(e, cap, n, b) \ {s}
            /\ nxt[p] = s /\ nxt2[p] = nxt[s]
            /\ \A i \in SlotsOf(cap) \ {s, p} : nxt2[i] = nxt[i]
  <2>1. CASE bs[b] = s
    BY <1>2, <1>9, <2>1 DEF Unlinked
  <2>2. CASE bs[b] # s
    <3>1. bs2[b] = bs[b]
      BY <2>2 DEF Unlinked
    <3>2. PICK p \in BucketIn(e, cap, n, b) \ {s} :
             /\ e[p].next = s /\ e2[p].next = e[s].next
             /\ \A i \in SlotsOf(cap) \ {s, p} : e2[i].next = e[i].next
      BY <2>2 DEF Unlinked
    <3>3. p \in SlotsOf(cap)
      BY <1>8, <3>2
    <3>4. nxt[p] = s /\ nxt2[p] = nxt[s]
          /\ \A i \in SlotsOf(cap) \ {s, p} : nxt2[i] = nxt[i]
      BY <1>2, <1>9, <3>2, <3>3
    <3> QED BY <2>2, <3>1, <3>2, <3>4
  <2> QED BY <2>1, <2>2
<1>11. p \in BucketIn(e, cap, n, b)
       /\ \A i \in SlotsOf(cap) \ {s, p} : nxt2[i] = nxt[i]
  BY <1>10
<1> HIDE DEF q, nxt, nxt2
<1>12. ASSUME NEW L, L \subseteq SlotsOf(cap) \ {s}
       PROVE  /\ L \in SUBSET SlotsOf(cap) /\ s \in SlotsOf(cap) \ L
              /\ SameOrder(r, q, L)
              /\ \A x \in L : q[x] < q[s]
  BY <1>2, <1>7, <1>12 DEF SameOrder
<1>13. Chained(nxt2, s, ErasedIn(e2, cap, n), q)
  <2> DEFINE L == ErasedIn(e, cap, n)
  <2>1. L \subseteq SlotsOf(cap) \ {s} /\ Chained(nxt, fh, L, r)
    BY <1>6, <1>8
  <2>2. p \notin L
    BY <1>11 DEF BucketIn, LiveIn, ErasedIn
  <2>3. \A x \in L : nxt2[x] = nxt[x]
    BY <1>11, <2>1, <2>2
  <2> HIDE DEF L
  <2>4. Chained(nxt2, s, L \cup {s}, q)
    BY <1>6, <1>7, <1>9, <1>12, <2>1, <2>3, ChainPushed
  <2> QED BY <2>4, <1>4 DEF L
<1>14. ASSUME NEW c \in SlotsOf(cap) \ {b}
       PROVE  Chained(nxt2, bs2[c], BucketIn(e2, cap, n, c), q)
  <2> DEFINE L == BucketIn(e, cap, n, c)
             f == bs[c]
  <2>1. L \subseteq SlotsOf(cap) \ {s} /\ Chained(nxt, f, L, r)
    BY <1>6, <1>8
  <2>2. p \notin L
    BY <1>11 DEF BucketIn
  <2>3. \A x \in L : nxt2[x] = nxt[x]
    BY <1>11, <2>1, <2>2
  <2>4. L \ {s} = L
    BY <2>1
  <2> HIDE DEF L, f
  <2>5. Chained(nxt2, f, L, q)
    BY <1>6, <1>7, <1>12, <2>1, <2>3, ChainKept
  <2>6. BucketIn(e2, cap, n, c) = L
    BY <1>5, <2>4 DEF L
  <2> QED BY <2>5, <2>6, <1>1 DEF f
<1>15. Chained(nxt2, bs2[b], BucketIn(e2, cap, n, b), q)
  <2> DEFINE L == BucketIn(e, cap, n, b)
             K == L \ {s}
             f == bs[b]
             g == bs2[b]
  <2>1. L \in SUBSET SlotsOf(cap) /\ Chained(nxt, f, L, r)
        /\ K \subseteq SlotsOf(cap) \ {s} /\ s \in L
    BY <1>6, <1>8
  <2>2. BucketIn(e2, cap, n, b) = K
    BY <1>5
  <2>3. CASE f = s
    <3>1. g = nxt[f] /\ \A i \in K : nxt2[i] = nxt[i]
      BY <1>10, <2>1, <2>3
    <3> HIDE DEF L, f, g
    <3>2. Chained(nxt, nxt[f], L \ {f}, r)
      BY <1>6, <2>1, <2>3, ChainPopped
    <3>3. Chained(nxt, g, K, r)
      BY <3>1, <3>2, <2>3
    <3> HIDE DEF K
    <3>4. Chained(nxt2, g, K, q)
      BY <1>6, <1>7, <1>12, <2>1, <3>1, <3>3, ChainKept
    <3> QED BY <2>2, <3>4 DEF g
  <2>4. CASE f # s
    <3>1. /\ g = f /\ p \in L /\ nxt[p] = s /\ nxt2[p] = nxt[s]
          /\ \A i \in L \ {s, p} : nxt2[i] = nxt[i]
      BY <1>10, <2>1, <2>4
    <3> HIDE DEF L, f, g
    <3>2. Chained(nxt2, f, L \ {s}, r)
      BY <1>6, <2>1, <2>4, <3>1, ChainUnlinked
    <3>3. Chained(nxt2, g, K, r)
      BY <3>1, <3>2
    <3> HIDE DEF K
    <3>4. \A x \in K : nxt2[x] = nxt2[x]
      OBVIOUS
    <3>5. Chained(nxt2, g, K, q)
      BY <1>6, <1>7, <1>12, <2>1, <3>3, <3>4, ChainKept
    <3> QED BY <2>2, <3>5 DEF g
  <2> QED BY <2>3, <2>4
<1>16. Sound(bs2, e2, cap, n, s, q)
  BY <1>7, <1>13, <1>14, <1>15 DEF Sound, nxt2
<1> QED BY <1>3, <1>4, <1>16

\* The entry that erase marks.
Gone(head) == [hash |-> kInvalidHash, key |-> None, val |-> None, next |-> head]

LEMMA EraseKeeps ==
  ASSUME DictionaryAssumption, IInv, NEW k \in Keys, Erase(k)
  PROVE  /\ IInv'
         /\ find(k) \in Live /\ capacity' = capacity
         /\ Live' = Live \ {find(k)}
         /\ \A i \in Live \ {find(k)} :
              /\ entries'[i].hash = entries[i].hash
              /\ entries'[i].key = entries[i].key
              /\ entries'[i].val = entries[i].val
         /\ Erased' = Erased \cup {find(k)}
<1> DEFINE s == find(k)
           b == BucketOf(k)
<1>1. /\ s \in InBucket(b) /\ b \in Slots /\ capacity # 0
  BY FindStops DEF Erase
<1>2. /\ capacity \in Nat \ {0} /\ capacity \in Capacities \ {0}
      /\ count \in Nat /\ Tables(buckets, entries, capacity)
  BY <1>1, HasTables
<1>3. s \in Live /\ s \in Slots /\ Slots = SlotsOf(capacity)
      /\ entries[s].next \in SlotsOrNull(capacity) /\ s # Null
      /\ InBucket(b) \subseteq Slots
  BY <1>1, Typed DEF IInv
<1>4. PICK r : Good(r)
  BY DEF IInv
<1>5. Sound(buckets, entries, capacity, count, freeHead, r)
  BY <1>4 DEF Good
<1>6. /\ freeHead' = s /\ freeSize' = freeSize + 1
      /\ UNCHANGED <<count, capacity, fault>>
      /\ \/ /\ buckets[b] = s
            /\ buckets' = [buckets EXCEPT ![b] = entries[s].next]
            /\ entries' = [entries EXCEPT ![s] = Gone(freeHead)]
         \/ /\ buckets[b] # s
            /\ \E p \in Visited(buckets[b]) :
                 /\ entries[p].next = s
                 /\ entries' = [entries EXCEPT ![p].next = entries[s].next,
                                               ![s] = Gone(freeHead)]
            /\ buckets' = buckets
  BY DEF Erase, Gone
<1>7. Visited(buckets[b]) = InBucket(b)
  BY <1>1, <1>2, GoodChainsSound DEF ChainsSound, InBucket, BucketIn, LiveIn, Live, Handed, Slots, SlotsOf
<1>8. freeHead \in SlotsOrNull(capacity)
  BY <1>5 DEF Sound, Chained, ErasedIn, SlotsOrNull
<1>9. Gone(freeHead) \in EntryOf(capacity) /\ Gone(freeHead).hash = kInvalidHash
      /\ Gone(freeHead).next = freeHead
  BY <1>8, HashesTyped DEF Gone, EntryOf
<1>10. /\ entries \in [SlotsOf(capacity) -> EntryOf(capacity)]
       /\ buckets \in [SlotsOf(capacity) -> SlotsOrNull(capacity)]
  BY <1>2 DEF Tables
<1> HIDE DEF s, b
<1>11. /\ Tables(buckets', entries', capacity)
       /\ \A i \in SlotsOf(capacity) \ {s} :
            /\ entries'[i].hash = entries[i].hash
            /\ entries'[i].key = entries[i].key
            /\ entries'[i].val = entries[i].val
       /\ Unlinked(buckets, entries, capacity, count, b, s, freeHead,
                   buckets', entries')
  <2>1. CASE buckets[b] = s
    <3>1. /\ buckets' = [buckets EXCEPT ![b] = entries[s].next]
          /\ entries' = [entries EXCEPT ![s] = Gone(freeHead)]
      BY <1>6, <2>1
    <3>2. /\ entries' \in [SlotsOf(capacity) -> EntryOf(capacity)]
          /\ buckets' \in [SlotsOf(capacity) -> SlotsOrNull(capacity)]
      BY <1>1, <1>3, <1>9, <1>10, <3>1
    <3>3. /\ entries'[s] = Gone(freeHead)
          /\ \A i \in SlotsOf(capacity) \ {s} : entries'[i] = entries[i]
          /\ buckets'[b] = entries[s].next
          /\ \A c \in SlotsOf(capacity) \ {b} : buckets'[c] = buckets[c]
      BY <1>1, <1>3, <1>10, <3>1
    <3> QED BY <1>9, <2>1, <3>2, <3>3 DEF Tables, Unlinked
  <2>2. CASE buckets[b] # s
    <3>1. PICK p \in InBucket(b) :
            /\ entries[p].next = s
            /\ entries' = [entries EXCEPT ![p].next = entries[s].next,
                                          ![s] = Gone(freeHead)]
      BY <1>6, <1>7, <2>2
    <3>2. buckets' = buckets
      BY <1>6, <2>2
    <3>3. p # s /\ p \in SlotsOf(capacity)
      <4>1. p \in SlotsOf(capacity)
        BY <1>3, <3>1
      <4>2. Chained(Links, buckets[b], InBucket(b), r) /\ r \in Orders(capacity)
        BY <1>1, <1>3, <1>5 DEF Sound, Links, InBucket, b
      <4>3. Links[p] = s
        BY <3>1, <4>1, <1>3 DEF Links, LinksOf
      <4>4. r[s] < r[p]
        BY <1>3, <3>1, <4>2, <4>3 DEF Chained
      <4>5. r[p] \in 0 .. capacity - 1
        BY <4>1, <4>2 DEF Orders, SlotsOf
      <4> QED BY <4>1, <4>4, <4>5
    <3>4. entries[p] \in EntryOf(capacity)
      BY <1>10, <3>3
    <3>5. [entries[p] EXCEPT !.next = entries[s].next] \in EntryOf(capacity)
      BY <1>3, <3>4 DEF EntryOf
    <3>6. /\ entries'[p] = [entries[p] EXCEPT !.next = entries[s].next]
          /\ entries'[s] = Gone(freeHead)
          /\ \A i \in SlotsOf(capacity) \ {s, p} : entries'[i] = entries[i]
      BY <1>3, <1>10, <3>1, <3>3
    <3>7. /\ entries'[p].hash = entries[p].hash
          /\ entries'[p].key = entries[p].key
          /\ entries'[p].val = entries[p].val
          /\ entries'[p].next = entries[s].next
      BY <3>4, <3>6 DEF EntryOf
    <3>8. entries' \in [SlotsOf(capacity) -> EntryOf(capacity)]
      <4>1. \A i \in SlotsOf(capacity) : entries'[i] \in EntryOf(capacity)
        BY <1>9, <1>10, <3>5, <3>6
      <4>2. entries' = [i \in SlotsOf(capacity) |-> entries'[i]]
        BY <1>10, <3>1
      <4> QED BY <4>1, <4>2
    <3>9. p \in BucketIn(entries, capacity, count, b) \ {s}
      BY <3>1, <3>3 DEF InBucket
    <3>10. \A i \in SlotsOf(capacity) \ {s} :
             /\ entries'[i].hash = entries[i].hash
             /\ entries'[i].key = entries[i].key
             /\ entries'[i].val = entries[i].val
      BY <3>6, <3>7
    <3>11. \A i \in SlotsOf(capacity) \ {s, p} :
             entries'[i].next = entries[i].next
      BY <3>6
    <3>12. Unlinked(buckets, entries, capacity, count, b, s, freeHead,
                    buckets', entries')
      BY <1>9, <2>2, <3>1, <3>2, <3>6, <3>7, <3>9, <3>10, <3>11 DEF Unlinked
    <3> QED BY <1>10, <3>2, <3>8, <3>10, <3>12 DEF Tables
  <2> QED BY <2>1, <2>2
<1> DEFINE bs2 == buckets'
           e2 == entries'
<1> HIDE DEF bs2, e2
<1>12. /\ \E q : Sound(bs2, e2, capacity, count, s, q)
       /\ LiveIn(e2, capacity, count)
            = Without(LiveIn(entries, capacity, count), s)
       /\ ErasedIn(e2, capacity, count)
            = With(ErasedIn(entries, capacity, count), s)
  <2>1. Unlinked(buckets, entries, capacity, count, b, s, freeHead, bs2, e2)
    BY <1>11 DEF bs2, e2
  <2>2. b \in SlotsOf(capacity) /\ s \in BucketIn(entries, capacity, count, b)
    BY <1>1, <1>3 DEF InBucket, s, b
  <2> QED BY ONLY <1>2, <1>5, <2>1, <2>2, UnlinkSound
<1>13. /\ Live' = LiveIn(e2, capacity, count)
       /\ Erased' = ErasedIn(e2, capacity, count)
       /\ Live = LiveIn(entries, capacity, count)
       /\ Erased = ErasedIn(entries, capacity, count)
  BY <1>6, LiveIs
     DEF e2, Live, Erased, Handed, LiveIn, ErasedIn, Slots, SlotsOf
<1>14. Live' = Live \ {s} /\ Erased' = Erased \cup {s}
  BY <1>12, <1>13 DEF With, Without
<1>15. s \notin Erased
  BY <1>3 DEF Live, Erased
<1>16. freeSize = Cardinality(Erased) /\ fault \in Faults
  BY DEF IInv, TypeOK
<1>17. IsFiniteSet(Erased)
  BY <1>2, <1>13, ErasedCounted
<1>18. freeSize' = Cardinality(Erased')
  BY <1>6, <1>14, <1>15, <1>16, <1>17, FS_AddElement
<1>19. Standing'
  <2>1. freeSize' = Cardinality(ErasedIn(entries', capacity', count'))
    BY <1>6, <1>13, <1>18 DEF e2
  <2>2. \E q : Sound(buckets', entries', capacity', count', freeHead', q)
    BY <1>6, <1>12 DEF bs2, e2
  <2> QED BY <1>2, <1>6, <1>11, <1>16, <2>1, <2>2 DEF Standing
<1>20. IInv'
  BY <1>19, EstablishedNext
<1>21. Live \ {s} \subseteq SlotsOf(capacity) \ {s}
  BY <1>13 DEF LiveIn
<1> QED BY <1>3, <1>6, <1>11, <1>14, <1>20, <1>21 DEF s

-----------------------------------------------------------------------------
(* Rehashing                                                               *)

\* Every rank below the size of a set is the rank of one of its members.
LEMMA RankReached ==
  ASSUME NEW m \in Nat, NEW S \in SUBSET (0 .. m - 1), IsFiniteSet(S),
         NEW j \in 0 .. Cardinality(S) - 1
  PROVE  \E i \in S : Cardinality({x \in S : x < i}) = j
<1> DEFINE C(n) == {x \in S : x < n}
           Past == {n \in Nat : Cardinality(C(n)) > j}
<1>1. \A n : IsFiniteSet(C(n)) /\ Cardinality(C(n)) \in Nat
  <2> TAKE n
  <2>1. C(n) \subseteq S
    OBVIOUS
  <2>2. IsFiniteSet(C(n))
    BY <2>1, FS_Subset
  <2> QED BY <2>2, FS_CardinalityType
<1>0. \A x \in S : x \in Nat /\ x < m
  OBVIOUS
<1>2. C(m) = S
  BY <1>0
<1>3. Cardinality(S) \in Nat /\ j \in Nat /\ j < Cardinality(S)
  BY FS_CardinalityType
<1>4. m \in Past
  BY <1>2, <1>3
<1>5. PICK n \in Past : \A y \in Past : n <= y
  <2>1. Past \in SUBSET Nat /\ Past # {}
    BY <1>4
  <2> HIDE DEF Past
  <2> QED BY <2>1, LeastElement
<1>6. n \in Nat /\ Cardinality(C(n)) > j
  BY <1>5
<1>7. n # 0
  <2>0. ASSUME NEW x \in S
        PROVE  ~(x < 0)
    <3>1. x \in Nat
      BY <1>0
    <3> QED BY <3>1
  <2>1. C(0) = {}
    BY <2>0
  <2>2. Cardinality(C(0)) = 0
    BY <2>1, FS_EmptySet
  <2> HIDE DEF C
  <2>3. n = 0 => Cardinality(C(n)) = 0
    BY <2>2
  <2> QED BY <1>3, <1>6, <2>3
<1>8. n - 1 \in Nat /\ ~(Cardinality(C(n - 1)) > j)
  <2>1. n - 1 \in Nat /\ ~(n <= n - 1)
    BY <1>6, <1>7
  <2>2. n - 1 \notin Past
    BY <1>5, <2>1
  <2> QED BY <2>1, <2>2
<1>9. n - 1 \in S
  <2>1. SUFFICES ASSUME n - 1 \notin S
                 PROVE  FALSE
    OBVIOUS
  <2>2. ASSUME NEW x \in S
        PROVE  x < n <=> x < n - 1
    <3>1. x # n - 1 /\ x \in Int
      BY <2>1
    <3> QED BY <3>1, <1>6
  <2>3. C(n) = C(n - 1)
    BY <2>2
  <2> QED BY <2>3, <1>6, <1>8
<1>10. C(n) = C(n - 1) \cup {n - 1} /\ n - 1 \notin C(n - 1)
  <2>1. \A x \in S : x \in Int
    OBVIOUS
  <2>2. \A x \in S : x < n <=> x < n - 1 \/ x = n - 1
    BY <1>6, <2>1
  <2> QED BY <1>8, <1>9, <2>2
<1> HIDE DEF C
<1>11. Cardinality(C(n)) = Cardinality(C(n - 1)) + 1
  BY <1>1, <1>10, FS_AddElement
<1>12. Cardinality(C(n - 1)) = j
  BY <1>1, <1>3, <1>6, <1>8, <1>11
<1> QED BY <1>9, <1>12 DEF C

\* The greatest number of a set, or Null.
Top(S) == IF S = {} THEN Null ELSE CHOOSE j \in S : \A x \in S : x <= j

LEMMA TopIsGreatest ==
  ASSUME NEW m \in Nat, NEW S \in SUBSET (0 .. m - 1), S # {}
  PROVE  Top(S) \in S /\ \A x \in S : x <= Top(S)
<1> DEFINE Bounds == {n \in Nat : \A x \in S : x <= n}
<1>1. m \in Bounds
  OBVIOUS
<1>2. PICK n \in Bounds : \A y \in Bounds : n <= y
  <2>1. Bounds \in SUBSET Nat /\ Bounds # {}
    BY <1>1
  <2> HIDE DEF Bounds
  <2> QED BY <2>1, LeastElement
<1>3. n \in Nat /\ \A x \in S : x <= n /\ x \in Nat
  BY <1>2
<1>4. n \in S
  <2>1. SUFFICES ASSUME n \notin S
                 PROVE  FALSE
    OBVIOUS
  <2>2. PICK y \in S : TRUE
    OBVIOUS
  <2>3. n # 0
    <3>1. y <= n /\ y \in Nat /\ y # n
      BY <1>3, <2>1, <2>2
    <3> QED BY <3>1, <1>3
  <2>4. n - 1 \in Nat /\ ~(n <= n - 1)
    BY <1>3, <2>3
  <2>5. ASSUME NEW x \in S
        PROVE  x <= n - 1
    <3>1. x <= n /\ x \in Nat /\ x # n
      BY <1>3, <2>1
    <3> QED BY <3>1, <1>3
  <2>6. n - 1 \in Bounds
    BY <2>4, <2>5
  <2> QED BY <1>2, <2>4, <2>6
<1>5. \E j \in S : \A x \in S : x <= j
  BY <1>3, <1>4
<1> QED BY <1>5 DEF Top

\* Slots pushed one after the other are linked in the order of their numbers.
LEMMA StackChained ==
  ASSUME NEW cap \in Nat, NEW nxt, NEW P \in SUBSET SlotsOf(cap), NEW r,
         \A i \in SlotsOf(cap) : r[i] = i,
         \A x \in P : nxt[x] = Top({j \in P : j < x})
  PROVE  Chained(nxt, Top(P), P, r)
<1>1. P \in SUBSET (0 .. cap - 1) /\ \A x \in P : r[x] = x /\ x # Null
  BY DEF SlotsOf, Null
<1>2. P # {} => Top(P) \in P /\ \A x \in P : x <= Top(P)
  BY <1>1, TopIsGreatest
<1>3. P = {} => Top(P) = Null
  BY DEF Top
<1>4. ASSUME NEW x \in P
      PROVE  /\ \A j \in P : j < x => /\ nxt[x] \in P /\ nxt[x] < x
                                      /\ j <= nxt[x]
             /\ nxt[x] = Null \/ (nxt[x] \in P /\ nxt[x] < x)
  <2> DEFINE S == {j \in P : j < x}
  <2>1. S \in SUBSET (0 .. cap - 1) /\ nxt[x] = Top(S)
    BY <1>1
  <2>2. CASE S = {}
    <3>1. nxt[x] = Null
      BY <2>1, <2>2 DEF Top
    <3> QED BY <2>2, <3>1
  <2>3. CASE S # {}
    <3>1. Top(S) \in S /\ \A j \in S : j <= Top(S)
      <4> HIDE DEF S
      <4> QED BY <2>1, <2>3, TopIsGreatest
    <3> QED BY <2>1, <3>1
  <2> QED BY <2>2, <2>3
<1>5. Top(P) \in P \cup {Null}
  BY <1>2, <1>3
<1>6. \A s \in P : Top(P) # Null /\ r[s] <= r[Top(P)]
  BY <1>1, <1>2
<1>7. \A x \in P : nxt[x] = Null \/ (nxt[x] \in P /\ r[nxt[x]] < r[x])
  BY <1>1, <1>4
<1>8. \A x, s \in P : r[s] < r[x] => nxt[x] # Null /\ r[s] <= r[nxt[x]]
  BY <1>1, <1>4
<1> QED BY <1>5, <1>6, <1>7, <1>8 DEF Chained

LEMMA ReadTyped ==
  ASSUME DictionaryAssumption, TypeOK, NEW mem \in [StaleSlots -> Garbage],
         NEW i \in Handed
  PROVE  /\ Read(mem, i).hash \in 0 .. kInvalidHash
         /\ Read(mem, i).key \in Keys \cup {None}
         /\ Read(mem, i).val \in Vals \cup {None}
<1>1. i \in Slots /\ entries[i] \in Entry
  BY DEF TypeOK, Handed
<1>2. CASE i \in StaleSlots
  <2>1. mem[i] \in Garbage /\ Read(mem, i) = mem[i]
    BY <1>2 DEF Read
  <2> QED BY <2>1 DEF Garbage
<1>3. CASE i \notin StaleSlots
  <2>1. entries[i].hash # Fresh /\ Read(mem, i) = entries[i]
    BY <1>3 DEF StaleSlots, Read
  <2> QED BY <1>1, <2>1 DEF Entry
<1> QED BY <1>2, <1>3

\* The entries that a rehash keeps, and how many they are.
LEMMA KeptCounted ==
  ASSUME TypeOK, NEW mem
  PROVE  /\ Kept(mem) \subseteq Handed /\ Kept(mem) \subseteq Slots
         /\ IsFiniteSet(Kept(mem))
         /\ Cardinality(Kept(mem)) \in Nat
         /\ Cardinality(Kept(mem)) <= count
         /\ Cardinality(Kept(mem)) <= capacity
<1>1. capacity \in Nat /\ count \in Nat
  BY Typed DEF TypeOK
<1>2. Kept(mem) \subseteq Handed /\ Kept(mem) \subseteq Slots
      /\ Kept(mem) \subseteq 0 .. count - 1
  BY <1>1 DEF Kept, Handed, Slots
<1>3. IsFiniteSet(0 .. count - 1) /\ Cardinality(0 .. count - 1) = count
  BY <1>1, BelowCounted
<1>4. IsFiniteSet(Slots) /\ Cardinality(Slots) = capacity
  BY <1>1, BelowCounted DEF Slots
<1>5. /\ IsFiniteSet(Kept(mem)) /\ Cardinality(Kept(mem)) <= count
      /\ Cardinality(Kept(mem)) <= capacity
  <2> DEFINE S == Kept(mem)
             T == 0 .. count - 1
  <2>1. S \in SUBSET T /\ S \in SUBSET Slots
    BY <1>2
  <2>2. IsFiniteSet(T) /\ IsFiniteSet(Slots)
    BY <1>3, <1>4
  <2> HIDE DEF S, T
  <2>3. IsFiniteSet(S) /\ Cardinality(S) <= Cardinality(T)
    BY <2>1, <2>2, FS_Subset
  <2>4. Cardinality(S) <= Cardinality(Slots)
    BY <2>1, <2>2, FS_Subset
  <2> QED BY <1>3, <1>4, <2>3, <2>4 DEF S, T
<1> QED BY <1>2, <1>5, FS_CardinalityType

LEMMA SourceKept ==
  ASSUME TypeOK, NEW mem, NEW j \in 0 .. Cardinality(Kept(mem)) - 1
  PROVE  /\ Source(mem, j) \in Kept(mem)
         /\ Cardinality({x \in Kept(mem) : x < Source(mem, j)}) = j
<1> DEFINE S == Kept(mem)
<1>1. S \in SUBSET (0 .. capacity - 1) /\ IsFiniteSet(S) /\ capacity \in Nat
  BY KeptCounted, Typed DEF Slots
<1>2. Source(mem, j) = CHOOSE i \in S : Cardinality({x \in S : x < i}) = j
  BY DEF Source
<1>3. j \in 0 .. Cardinality(S) - 1
  OBVIOUS
<1> HIDE DEF S
<1>4. \E i \in S : Cardinality({x \in S : x < i}) = j
  BY <1>1, <1>3, RankReached
<1>5. /\ Source(mem, j) \in S
      /\ Cardinality({x \in S : x < Source(mem, j)}) = j
  BY <1>2, <1>4
<1> QED BY <1>5 DEF S

\* The tables that a rehash builds, in the order of the slots.
LEMMA RehashSound ==
  ASSUME DictionaryAssumption, TypeOK, NEW mem \in [StaleSlots -> Garbage],
         NEW newCap \in Nat \ {0}, Cardinality(Kept(mem)) <= newCap
  PROVE  /\ Tables(NewBuckets(mem, newCap), NewEntries(mem, newCap), newCap)
         /\ \E q : Sound(NewBuckets(mem, newCap), NewEntries(mem, newCap),
                         newCap, count, Null, q)
         /\ LiveIn(NewEntries(mem, newCap), newCap, count)
              = 0 .. Cardinality(Kept(mem)) - 1
         /\ ErasedIn(NewEntries(mem, newCap), newCap, count) = {}
<1> DEFINE K == Cardinality(Kept(mem))
           bs == NewBuckets(mem, newCap)
           e == NewEntries(mem, newCap)
           q == [i \in SlotsOf(newCap) |-> i]
           from(j) == Read(mem, Source(mem, j))
           P(b) == {j \in 0 .. K - 1 : index_of(from(j).hash, newCap) = b}
<1>1. K \in Nat /\ K <= count /\ K <= newCap /\ count \in Nat
  BY KeptCounted DEF TypeOK
<1>2. ASSUME NEW j \in 0 .. K - 1
      PROVE  /\ from(j).hash \in 0 .. kInvalidHash
             /\ from(j).hash \in Nat /\ from(j).hash # kInvalidHash
             /\ from(j).key \in Keys \cup {None}
             /\ from(j).val \in Vals \cup {None}
  <2>1. Source(mem, j) \in Kept(mem)
    BY SourceKept
  <2>2. Source(mem, j) \in Handed /\ from(j).hash # kInvalidHash
    BY <2>1 DEF Kept
  <2> HIDE DEF from
  <2>3. /\ from(j).hash \in 0 .. kInvalidHash
        /\ from(j).key \in Keys \cup {None}
        /\ from(j).val \in Vals \cup {None}
    BY <2>2, ReadTyped DEF from
  <2> QED BY <2>2, <2>3, HashesTyped
<1>3. ASSUME NEW n \in 0 .. K, NEW b
      PROVE  HeadOf(mem, newCap, n, b) = Top({j \in P(b) : j < n})
  <2>1. {j \in 0 .. n - 1 : index_of(from(j).hash, newCap) = b}
          = {j \in P(b) : j < n}
    BY <1>1
  <2>2. HeadOf(mem, newCap, n, b)
          = Top({j \in 0 .. n - 1 : index_of(from(j).hash, newCap) = b})
    BY DEF HeadOf, Top
  <2> QED BY <2>1, <2>2
<1>4. ASSUME NEW b
      PROVE  P(b) \in SUBSET SlotsOf(newCap) /\ {j \in P(b) : j < K} = P(b)
  BY <1>1 DEF SlotsOf
<1>5. ASSUME NEW n \in 0 .. K, NEW b
      PROVE  HeadOf(mem, newCap, n, b) \in SlotsOrNull(newCap)
  <2> DEFINE S == {j \in P(b) : j < n}
  <2>1. S \in SUBSET (0 .. newCap - 1) /\ newCap \in Nat
    BY <1>4 DEF SlotsOf
  <2>2. HeadOf(mem, newCap, n, b) = Top(S)
    BY <1>3
  <2> HIDE DEF S
  <2>3. S # {} => Top(S) \in S
    BY <2>1, TopIsGreatest
  <2>4. S = {} => Top(S) = Null
    BY DEF Top
  <2> QED BY <2>1, <2>2, <2>3, <2>4 DEF SlotsOrNull, SlotsOf
<1>6. ASSUME NEW j \in SlotsOf(newCap)
      PROVE  e[j] = IF j < K
                    THEN [hash |-> from(j).hash, key |-> from(j).key,
                          val |-> from(j).val,
                          next |-> HeadOf(mem, newCap, j,
                                          index_of(from(j).hash, newCap))]
                    ELSE Untouched
  BY DEF NewEntries, SlotsOf
<1>7. ASSUME NEW b \in SlotsOf(newCap)
      PROVE  bs[b] = Top(P(b))
  <2>1. bs[b] = HeadOf(mem, newCap, K, b)
    BY DEF NewBuckets, SlotsOf
  <2>2. K \in 0 .. K
    BY <1>1
  <2> QED BY <1>3, <1>4, <2>1, <2>2
<1>8. bs = [b \in SlotsOf(newCap) |-> bs[b]]
      /\ e = [j \in SlotsOf(newCap) |-> e[j]]
  BY DEF NewBuckets, NewEntries, SlotsOf
<1> HIDE DEF from, bs, e, K
<1>9. ASSUME NEW j \in SlotsOf(newCap)
      PROVE  /\ j < K => /\ j \in 0 .. K - 1 /\ j \in 0 .. K
                         /\ e[j].hash = from(j).hash
                         /\ e[j].next = Top({x \in P(index_of(from(j).hash,
                                                              newCap)) :
                                               x < j})
             /\ ~(j < K) => e[j].hash = Fresh
             /\ e[j] \in EntryOf(newCap)
  <2>1. CASE j < K
    <3>1. j \in 0 .. K - 1 /\ j \in 0 .. K
      BY <1>1, <2>1 DEF SlotsOf
    <3> DEFINE next == HeadOf(mem, newCap, j, index_of(from(j).hash, newCap))
    <3>2. next \in SlotsOrNull(newCap)
          /\ next = Top({x \in P(index_of(from(j).hash, newCap)) : x < j})
      BY <1>3, <1>5, <3>1
    <3>3. e[j] = [hash |-> from(j).hash, key |-> from(j).key,
                  val |-> from(j).val, next |-> next]
      BY <1>6, <2>1
    <3> HIDE DEF next
    <3> QED BY <1>2, <2>1, <3>1, <3>2, <3>3 DEF EntryOf
  <2>2. CASE ~(j < K)
    <3>1. e[j] = Untouched
      BY <1>6, <2>2
    <3> QED BY <2>2, <3>1 DEF Untouched, EntryOf, SlotsOrNull
  <2> QED BY <2>1, <2>2
<1>10. Tables(bs, e, newCap)
  <2>1. \A b \in SlotsOf(newCap) : bs[b] \in SlotsOrNull(newCap)
    <3> TAKE b \in SlotsOf(newCap)
    <3>1. K \in 0 .. K
      BY <1>1
    <3>2. HeadOf(mem, newCap, K, b) \in SlotsOrNull(newCap)
      BY <1>5, <3>1
    <3> QED BY <3>2 DEF bs, K, NewBuckets, SlotsOf
  <2> QED BY <1>8, <1>9, <2>1 DEF Tables
<1>11. LiveIn(e, newCap, count) = 0 .. K - 1
  <2>1. ASSUME NEW j \in 0 .. K - 1
        PROVE  j \in SlotsOf(newCap) /\ j < count /\ j < K
    BY <1>1 DEF SlotsOf
  <2>2. ASSUME NEW j \in LiveIn(e, newCap, count)
        PROVE  j \in 0 .. K - 1
    BY <1>9, <2>2 DEF LiveIn
  <2>3. ASSUME NEW j \in 0 .. K - 1
        PROVE  j \in LiveIn(e, newCap, count)
    <3>1. e[j].hash = from(j).hash
      BY <1>9, <2>1
    <3>2. from(j).hash # kInvalidHash /\ from(j).hash # Fresh
      BY <1>2, HashesTyped
    <3> QED BY <2>1, <3>1, <3>2 DEF LiveIn
  <2> QED BY <2>2, <2>3
<1>12. ErasedIn(e, newCap, count) = {}
  <2>1. SUFFICES ASSUME NEW j \in ErasedIn(e, newCap, count)
                 PROVE  FALSE
    OBVIOUS
  <2>2. j \in SlotsOf(newCap) /\ e[j].hash = kInvalidHash
    BY DEF ErasedIn
  <2>3. CASE j < K
    <3>1. j \in 0 .. K - 1 /\ e[j].hash = from(j).hash
      BY <1>9, <2>2, <2>3
    <3> QED BY <1>2, <2>2, <3>1
  <2>4. CASE ~(j < K)
    <3>1. kInvalidHash = Fresh
      BY <1>9, <2>2, <2>4
    <3> QED BY <3>1, HashesTyped DEF Fresh
  <2> QED BY <2>3, <2>4
<1>13. ASSUME NEW b
       PROVE  BucketIn(e, newCap, count, b) = P(b)
  <2>1. ASSUME NEW j \in 0 .. K - 1
        PROVE  j \in SlotsOf(newCap) /\ e[j].hash = from(j).hash
    <3>1. j \in SlotsOf(newCap) /\ j < K
      BY <1>1 DEF SlotsOf
    <3> QED BY <1>9, <3>1
  <2> QED BY <1>11, <2>1 DEF BucketIn
<1>14. q \in Orders(newCap) /\ \A i \in SlotsOf(newCap) : q[i] = i
  BY DEF Orders
<1> DEFINE nxt == LinksOf(e, newCap)
<1>15. ASSUME NEW b \in SlotsOf(newCap)
       PROVE  Chained(nxt, bs[b], BucketIn(e, newCap, count, b), q)
  <2> DEFINE L == P(b)
  <2>1. L \in SUBSET SlotsOf(newCap)
    BY <1>4
  <2>2. ASSUME NEW x \in L
        PROVE  nxt[x] = Top({j \in L : j < x})
    <3>1. x \in SlotsOf(newCap) /\ x \in 0 .. K - 1
          /\ index_of(from(x).hash, newCap) = b
      BY <2>1
    <3>2. x < K
      BY <1>1, <3>1
    <3>3. e[x].next = Top({j \in L : j < x})
      BY <1>9, <3>1, <3>2
    <3> QED BY <3>1, <3>3 DEF LinksOf
  <2>3. bs[b] = Top(L) /\ BucketIn(e, newCap, count, b) = L
    BY <1>7, <1>13
  <2> HIDE DEF L, nxt, q
  <2>4. Chained(nxt, Top(L), L, q)
    BY <1>14, <2>1, <2>2, StackChained
  <2> QED BY <2>3, <2>4
<1>16. Chained(nxt, Null, ErasedIn(e, newCap, count), q)
  BY <1>12 DEF Chained
<1> HIDE DEF q
<1>17. Sound(bs, e, newCap, count, Null, q)
  BY <1>14, <1>15, <1>16 DEF Sound
<1> QED BY <1>10, <1>11, <1>12, <1>17 DEF bs, e, K

LEMMA RehashKeeps ==
  ASSUME DictionaryAssumption, IInv, NEW newCap \in Capacities \ {0},
         NEW mem \in [StaleSlots -> Garbage], Rehash(newCap, mem)
  PROVE  IInv'
<1>1. TypeOK /\ fault \in Faults /\ count \in Nat
  BY DEF IInv, TypeOK
<1>2. CASE count > capacity \/ Cardinality(Kept(mem)) > newCap
  <2>1. /\ fault' \in Faults
        /\ UNCHANGED <<buckets, entries, count, capacity, freeHead, freeSize>>
    BY <1>2 DEF Rehash, Faults
  <2> QED BY <2>1, FaultKeeps
<1>3. CASE ~(count > capacity \/ Cardinality(Kept(mem)) > newCap)
  <2>1. /\ buckets' = NewBuckets(mem, newCap)
        /\ entries' = NewEntries(mem, newCap)
        /\ capacity' = newCap
        /\ freeHead' = Null /\ freeSize' = 0
        /\ UNCHANGED <<count, fault>>
    BY <1>3 DEF Rehash
  <2>2. newCap \in Nat \ {0}
    BY CapacityTyped
  <2>3. Cardinality(Kept(mem)) <= newCap
    BY <1>1, <1>3, <2>2, KeptCounted
  <2>4. /\ Tables(NewBuckets(mem, newCap), NewEntries(mem, newCap), newCap)
        /\ \E q : Sound(NewBuckets(mem, newCap), NewEntries(mem, newCap),
                        newCap, count, Null, q)
        /\ ErasedIn(NewEntries(mem, newCap), newCap, count) = {}
    BY <1>1, <2>2, <2>3, RehashSound
  <2>5. Standing'
    BY <1>1, <2>1, <2>4, FS_EmptySet DEF Standing
  <2> QED BY <2>5, EstablishedNext
<1> QED BY <1>2, <1>3

LEMMA ReserveKeeps ==
  ASSUME DictionaryAssumption, IInv, NEW n \in Requests, Reserve(n)
  PROVE  IInv'
<1> DEFINE cap == calc_capacity(n)
<1>1. n \in Nat /\ MinCapacity \in Nat \ {0} /\ MaxCapacity \in Nat \ {0}
  BY DEF DictionaryAssumption
<1>2. cap \in Capacities /\ cap # 0
  BY <1>1, RoundedUp DEF calc_capacity
<1>3. \E mem \in [StaleSlots -> Garbage] : Rehash(cap, mem)
  BY DEF Reserve
<1> HIDE DEF cap
<1> QED BY <1>2, <1>3, RehashKeeps

LEMMA ShrinkKeeps ==
  ASSUME DictionaryAssumption, IInv, NEW n \in Requests, ShrinkToFit(n)
  PROVE  IInv'
<1> DEFINE cap == calc_shrink_capacity(n)
<1>1. n \in Nat /\ MaxCapacity \in Nat \ {0}
  BY DEF DictionaryAssumption
<1>2. cap \in Capacities
  BY <1>1, RoundedUp DEF calc_shrink_capacity
<1>3. CASE cap = 0
  <2>1. /\ fault' \in Faults
        /\ UNCHANGED <<buckets, entries, count, capacity, freeHead, freeSize>>
    BY <1>3 DEF ShrinkToFit, Faults
  <2> QED BY <2>1, FaultKeeps
<1>4. CASE cap # 0
  <2>1. \E mem \in [StaleSlots -> Garbage] : Rehash(cap, mem)
    BY <1>4 DEF ShrinkToFit
  <2> HIDE DEF cap
  <2> QED BY <1>2, <1>4, <2>1, RehashKeeps
<1> QED BY <1>3, <1>4

\* Insertion into the table that was just doubled.
Grown(mem, k, v) ==
  /\ Link(NewBuckets(mem, 2 * capacity), NewEntries(mem, 2 * capacity),
          2 * capacity, count, k, v)
  /\ count' = count + 1
  /\ capacity' = 2 * capacity
  /\ freeHead' = Null
  /\ freeSize' = 0
  /\ UNCHANGED fault

LEMMA GrowKeeps ==
  ASSUME DictionaryAssumption, IInv, capacity > 0, count = capacity,
         NEW k \in Keys, NEW v \in Vals,
         NEW mem \in [StaleSlots -> Garbage], Grown(mem, k, v)
  PROVE  /\ IInv'
         /\ Live' = (0 .. Cardinality(Kept(mem)) - 1) \cup {count}
         /\ Erased' = {}
<1> DEFINE cap == 2 * capacity
           bs == NewBuckets(mem, cap)
           e == NewEntries(mem, cap)
           K == Cardinality(Kept(mem))
<1>1. TypeOK /\ fault \in Faults /\ count \in Nat /\ capacity \in Nat \ {0}
      /\ capacity \in Capacities
  BY Typed DEF IInv, TypeOK
<1>2. cap \in Capacities /\ cap \in Nat \ {0} /\ capacity < cap
  BY <1>1, CapacityDoubled
<1>3. K \in Nat /\ K <= count /\ K <= cap
  BY <1>1, <1>2, KeptCounted
<1>4. /\ LinkedIn(bs, e, cap, count, k, v, buckets', entries')
      /\ count' = count + 1 /\ capacity' = cap
      /\ freeHead' = Null /\ freeSize' = 0 /\ fault' = fault
  BY DEF Grown, Link, LinkedIn, EntryFor
<1> HIDE DEF cap
<1>5. /\ Tables(bs, e, cap)
      /\ \E q : Sound(bs, e, cap, count, Null, q)
      /\ LiveIn(e, cap, count) = 0 .. K - 1
      /\ ErasedIn(e, cap, count) = {}
  BY <1>1, <1>2, <1>3, RehashSound
<1>6. PICK r : Sound(bs, e, cap, count, Null, r)
  BY <1>5
<1> HIDE DEF bs, e, K
<1>7. count \in SlotsOf(cap) /\ count \notin LiveIn(e, cap, count)
  BY <1>1, <1>2, <1>3, <1>5 DEF SlotsOf
<1>8. count + 1 \in Nat /\ Takes(count, count + 1, count, cap)
  BY <1>1, <1>2 DEF Takes, SlotsOf
<1>9. Chained(LinksOf(e, cap), Null, Without(ErasedIn(e, cap, count), count), r)
  BY <1>5 DEF Chained, Without
<1> DEFINE bs2 == buckets'
           e2 == entries'
           n2 == count + 1
<1>10. LinkedIn(bs, e, cap, count, k, v, bs2, e2) /\ n2 \in Nat
       /\ Takes(count, n2, count, cap) /\ k \in Keys /\ v \in Vals
  BY <1>4, <1>8
<1> HIDE DEF bs2, e2, n2
<1>11. /\ Tables(bs2, e2, cap)
       /\ \E q : Sound(bs2, e2, cap, n2, Null, q)
       /\ LiveIn(e2, cap, n2) = With(LiveIn(e, cap, count), count)
       /\ ErasedIn(e2, cap, n2) = Without(ErasedIn(e, cap, count), count)
  <2>1. Tables(bs, e, cap) /\ cap \in Nat \ {0} /\ count \in Nat
    BY <1>1, <1>2, <1>5
  <2> QED BY ONLY DictionaryAssumption, <2>1, <1>6, <1>7, <1>9, <1>10,
                  LinkSound
<1>12. ErasedIn(e2, cap, n2) = {}
       /\ LiveIn(e2, cap, n2) = (0 .. K - 1) \cup {count}
  BY <1>5, <1>11 DEF With, Without
<1>13. /\ Live' = LiveIn(entries', capacity', count')
       /\ Erased' = ErasedIn(entries', capacity', count')
  BY DEF Live, Erased, Handed, LiveIn, ErasedIn, Slots, SlotsOf
<1> USE DEF bs2, e2, n2
<1>14. Standing'
  <2>1. capacity' \in Capacities \ {0} /\ count' \in Nat /\ fault' \in Faults
    BY <1>1, <1>2, <1>4
  <2>2. Cardinality({}) = 0
    BY FS_EmptySet
  <2>3. freeSize' = Cardinality(ErasedIn(entries', capacity', count'))
    BY <1>4, <1>12, <2>2
  <2>4. \E q : Sound(buckets', entries', capacity', count', freeHead', q)
    BY <1>4, <1>11
  <2>5. Tables(buckets', entries', capacity')
    BY <1>4, <1>11
  <2> QED BY <2>1, <2>3, <2>4, <2>5 DEF Standing
<1>15. IInv'
  BY <1>14, EstablishedNext
<1> QED BY <1>4, <1>12, <1>13, <1>15 DEF K

\* When insert doubles the table, it does so or ends the run.
LEMMA InsertGrowCases ==
  ASSUME DictionaryAssumption, IInv, NEW k \in Keys, NEW v \in Vals,
         InsertGrow(k, v)
  PROVE  \/ /\ capacity > 0 /\ count = capacity
            /\ \E mem \in [StaleSlots -> Garbage] : Grown(mem, k, v)
         \/ /\ fault' \in Faults \ {"none"}
            /\ ~(\A grown \in Alloc : grown) \/ capacity = 0 \/ count # capacity
            /\ UNCHANGED <<buckets, entries, count, capacity,
                           freeHead, freeSize>>
<1>1. TypeOK /\ capacity \in Nat
  BY Typed DEF IInv
<1>2. PICK grown \in Alloc, mem \in [StaleSlots -> Garbage] :
        LET cap == 2 * capacity
            fits == /\ grown /\ capacity > 0
                    /\ count = capacity
                    /\ Cardinality(Kept(mem)) <= cap
        IN  IF fits
            THEN /\ Link(NewBuckets(mem, cap), NewEntries(mem, cap),
                         cap, count, k, v)
                 /\ count' = count + 1
                 /\ capacity' = cap
                 /\ freeHead' = Null
                 /\ freeSize' = 0
                 /\ UNCHANGED fault
            ELSE /\ fault' = IF entries = <<>> THEN "no entries"
                             ELSE IF grown /\ count > capacity
                             THEN "read past the end"
                             ELSE "write past the end"
                 /\ UNCHANGED <<buckets, entries, count, capacity,
                                freeHead, freeSize>>
  BY DEF InsertGrow
<1>3. Cardinality(Kept(mem)) <= 2 * capacity
  BY <1>1, KeptCounted
<1>4. CASE grown /\ capacity > 0 /\ count = capacity
  <2>1. Grown(mem, k, v)
    BY <1>2, <1>3, <1>4 DEF Grown
  <2> QED BY <1>4, <2>1
<1>5. CASE ~(grown /\ capacity > 0 /\ count = capacity)
  <2>1. /\ fault' \in {"no entries", "read past the end", "write past the end"}
        /\ UNCHANGED <<buckets, entries, count, capacity, freeHead, freeSize>>
    BY <1>2, <1>5
  <2>2. ~(\A g \in Alloc : g) \/ capacity = 0 \/ count # capacity
    BY <1>1, <1>5
  <2> QED BY <2>1, <2>2 DEF Faults
<1> QED BY <1>4, <1>5

LEMMA InsertKeeps ==
  ASSUME DictionaryAssumption, IInv, NEW k \in Keys, NEW v \in Vals,
         Insert(k, v)
  PROVE  IInv'
<1>1. CASE InsertGrow(k, v)
  <2>1. CASE /\ capacity > 0 /\ count = capacity
             /\ \E mem \in [StaleSlots -> Garbage] : Grown(mem, k, v)
    BY <2>1, GrowKeeps
  <2>2. CASE /\ fault' \in Faults \ {"none"}
             /\ UNCHANGED <<buckets, entries, count, capacity,
                            freeHead, freeSize>>
    BY <2>2, FaultKeeps
  <2> QED BY <1>1, <2>1, <2>2, InsertGrowCases
<1> QED BY <1>1, InsertUpdateKeeps, InsertReuseKeeps, InsertNextKeeps DEF Insert

-----------------------------------------------------------------------------
(* The invariant                                                           *)

LEMMA InitEstablishes ==
  ASSUME DictionaryAssumption, Init
  PROVE  IInv /\ Kempt /\ fault = "none"
<1>1. PICK n \in Requests \ {0}, gotBuckets \in Alloc, gotEntries \in Alloc :
        LET cap == round_up_pow2(n)
            full == gotBuckets /\ gotEntries
        IN  /\ buckets = IF gotBuckets THEN Empty(cap) ELSE <<>>
            /\ entries = IF full THEN NoEntries(cap) ELSE <<>>
            /\ capacity = IF full THEN cap ELSE 0
            /\ count = 0
            /\ freeHead = Null
            /\ freeSize = 0
            /\ fault = "none"
  BY DEF Init
<1> DEFINE cap == round_up_pow2(n)
<1>2. cap \in Capacities \ {0} /\ cap \in Nat \ {0}
  <2>1. n \in Nat \ {0}
    BY DEF DictionaryAssumption
  <2>2. cap \in Capacities /\ cap # 0
    BY <2>1, RoundedUp
  <2> HIDE DEF cap
  <2> QED BY <2>2, CapacityTyped
<1>3. count = 0 /\ freeHead = Null /\ freeSize = 0 /\ fault = "none"
      /\ count \in Nat /\ fault \in Faults
  BY <1>1 DEF Faults
<1>4. Handed = {} /\ Live = {} /\ LiveIn(entries, capacity, count) = {}
      /\ ErasedIn(entries, capacity, count) = {}
  <2>1. capacity \in Nat
    BY <1>1, <1>2
  <2>2. \A i \in 0 .. capacity - 1 : ~(i < count)
    BY <1>3
  <2> QED BY <2>2 DEF Handed, Slots, Live, LiveIn, ErasedIn, SlotsOf
<1>5. Kempt
  <2>1. count <= capacity
    BY <1>1, <1>2
  <2> QED BY <1>4, <2>1 DEF Kempt, Written, Keyed
<1> HIDE DEF cap
<1>6. CASE gotBuckets /\ gotEntries
  <2> DEFINE q == [i \in SlotsOf(cap) |-> i]
  <2>1. buckets = Empty(cap) /\ entries = NoEntries(cap) /\ capacity = cap
    BY <1>1, <1>6 DEF cap
  <2>2. q \in Orders(cap)
    BY DEF Orders
  <2>3. buckets = [b \in SlotsOf(cap) |-> Null]
        /\ entries = [i \in SlotsOf(cap) |-> Untouched]
    BY <2>1 DEF Empty, NoEntries, SlotsOf
  <2>4. Untouched \in EntryOf(cap) /\ Null \in SlotsOrNull(cap)
    BY DEF Untouched, EntryOf, SlotsOrNull
  <2>5. Tables(buckets, entries, cap) /\ \A b \in SlotsOf(cap) : buckets[b] = Null
    BY <2>3, <2>4 DEF Tables
  <2> HIDE DEF q
  <2>6. \A nxt : Chained(nxt, Null, {}, q)
    BY DEF Chained
  <2>7. \A b : BucketIn(entries, cap, count, b) = {}
    BY <1>4, <2>1 DEF BucketIn
  <2>8. Sound(buckets, entries, cap, count, freeHead, q)
    BY <1>3, <1>4, <2>1, <2>2, <2>5, <2>6, <2>7 DEF Sound
  <2>9. Standing
    BY <1>2, <1>3, <1>4, <2>1, <2>5, <2>8, FS_EmptySet DEF Standing
  <2> QED BY <1>3, <1>5, <2>9, Established
<1>7. CASE ~(gotBuckets /\ gotEntries)
  <2>1. entries = <<>> /\ capacity = 0
    BY <1>1, <1>7
  <2>2. entries \in [{} -> Entry]
    BY <2>1
  <2>3. NoChains
    <3>1. CASE gotBuckets
      <4>1. buckets = [b \in 0 .. cap - 1 |-> Null] /\ 0 \in 0 .. cap - 1
        BY <1>1, <1>2, <3>1 DEF Empty, cap
      <4> QED BY <4>1 DEF NoChains
    <3>2. CASE ~gotBuckets
      BY <1>1, <3>2 DEF NoChains
    <3> QED BY <3>1, <3>2
  <2>4. Bare
    BY <1>3, <2>1, <2>2, <2>3 DEF Bare
  <2> QED BY <1>3, <1>5, <2>4, EstablishedBare
<1> QED BY <1>6, <1>7

LEMMA NextKeeps ==
  ASSUME DictionaryAssumption, IInv, [Next]_vars
  PROVE  IInv'
<1>1. ASSUME NEW k \in Keys, NEW v \in Vals, Insert(k, v)
      PROVE  IInv'
  BY <1>1, InsertKeeps
<1>2. ASSUME NEW k \in Keys, Erase(k)
      PROVE  IInv'
  BY <1>2, EraseKeeps
<1>3. CASE Clear
  BY <1>3, ClearKeeps
<1>4. ASSUME NEW n \in Requests, Reserve(n)
      PROVE  IInv'
  BY <1>4, ReserveKeeps
<1>5. ASSUME NEW n \in Requests, ShrinkToFit(n)
      PROVE  IInv'
  BY <1>5, ShrinkKeeps
<1>6. CASE UNCHANGED vars
  <2>1. fault' \in Faults
    BY <1>6 DEF vars, IInv, TypeOK
  <2> QED BY <1>6, <2>1, FaultKeeps DEF vars
<1> QED BY <1>1, <1>2, <1>3, <1>4, <1>5, <1>6 DEF Next

\* The tables of the dictionary stay as IInv says, whatever its callers do.
THEOREM DictionaryAlwaysGood == Spec => []IInv
<1>1. Init => IInv
  BY InitEstablishes, DictionaryAssumption
<1>2. IInv /\ [Next]_vars => IInv'
  BY NextKeeps, DictionaryAssumption
<1> QED BY <1>1, <1>2, PTL DEF Spec

\* Every chain ends and holds exactly the stored entries of its bucket, in
\* every state that callers, failed allocations and stale slots can lead to.
THEOREM ChainsAlwaysSound == Spec => []ChainsSound
<1>1. IInv => ChainsSound
  BY GoodChainsSound
<1> QED BY <1>1, DictionaryAlwaysGood, PTL

\* The free list ends and holds exactly the erased entries, as many as its
\* size says.
THEOREM FreelistAlwaysSound == Spec => []FreelistSound
<1>1. IInv => FreelistSound
  BY GoodFreelistSound
<1> QED BY <1>1, DictionaryAlwaysGood, PTL

-----------------------------------------------------------------------------
(* What careful callers see                                                *)

\* Value v is stored under key k.
Holding(k, v) == \E i \in Live : entries[i].key = k /\ entries[i].val = v

LEMMA FindIs ==
  TIInv => \A k \in Keys :
    /\ find(k) # Null => find(k) \in Live /\ entries[find(k)].key = k
    /\ \A i \in Live : entries[i].key = k => find(k) = i
<1> SUFFICES ASSUME TIInv, NEW k \in Keys
             PROVE  /\ find(k) # Null =>
                         find(k) \in Live /\ entries[find(k)].key = k
                    /\ \A i \in Live : entries[i].key = k => find(k) = i
  OBVIOUS
<1>1. IInv /\ Kempt /\ TypeOK
  BY DEF TIInv, IInv
<1>2. /\ find(k) # Null =>
           find(k) \in InBucket(BucketOf(k)) /\ Holds(find(k), k)
      /\ \A i \in Live : entries[i].key = k => find(k) = i
  BY <1>1, FindStops, DictionaryAssumption
<1>3. \A b : InBucket(b) \subseteq Live
  BY <1>1, Typed
<1> QED BY <1>2, <1>3 DEF Holds

LEMMA LookupIs ==
  TIInv => \A k \in Keys :
    /\ Lookup(k) \in Vals \cup {None}
    /\ \A v \in Vals : Lookup(k) = v <=> Holding(k, v)
<1> SUFFICES ASSUME TIInv, NEW k \in Keys
             PROVE  /\ Lookup(k) \in Vals \cup {None}
                    /\ \A v \in Vals : Lookup(k) = v <=> Holding(k, v)
  OBVIOUS
<1>1. /\ find(k) # Null => find(k) \in Live /\ entries[find(k)].key = k
      /\ \A i \in Live : entries[i].key = k => find(k) = i
  BY FindIs
<1>2. Live \subseteq Slots /\ \A s \in Slots : s # Null
  BY Typed DEF TIInv, IInv
<1>3. \A i \in Live : entries[i].val \in Vals
  BY DEF TIInv, Kempt, Keyed
<1>4. None \notin Vals
  BY DictionaryAssumption DEF DictionaryAssumption
<1>5. CASE find(k) = Null
  <2>1. \A i \in Live : entries[i].key # k
    BY <1>1, <1>2, <1>5
  <2>2. Lookup(k) = None
    BY <1>5 DEF Lookup
  <2> QED BY <1>4, <2>1, <2>2 DEF Holding
<1>6. CASE find(k) # Null
  <2>1. Lookup(k) = entries[find(k)].val /\ find(k) \in Live
        /\ entries[find(k)].key = k
    BY <1>1, <1>6 DEF Lookup
  <2> QED BY <1>1, <1>3, <2>1 DEF Holding
<1> QED BY <1>5, <1>6

Seen ==
  \A k \in Keys :
    /\ find(k) # Null => find(k) \in Live /\ entries[find(k)].key = k
    /\ Lookup(k) \in Vals \cup {None}
    /\ \A v \in Vals : Lookup(k) = v <=> Holding(k, v)

\* The find and the lookups of the next state.
LEMMA SeenNext ==
  TIInv' =>
    \A k \in Keys :
      /\ (find(k))' # Null => /\ (find(k))' \in Live'
                              /\ entries'[(find(k))'].key = k
      /\ (Lookup(k))' \in Vals \cup {None}
      /\ \A v \in Vals : (Lookup(k))' = v <=> (Holding(k, v))'
<1>1. TIInv => Seen
  BY FindIs, LookupIs DEF Seen
<1>2. TIInv' => Seen'
  BY <1>1, PTL
<1> QED BY <1>2 DEF Seen

\* The effects of a step on what is stored.
HeldPut(k, v) ==
  \A x \in Keys, w \in Vals :
    Holding(x, w)' <=> IF x = k THEN w = v ELSE Holding(x, w)
HeldLess(k) ==
  \A x \in Keys, w \in Vals : Holding(x, w)' <=> x # k /\ Holding(x, w)
HeldNone == \A x \in Keys, w \in Vals : ~Holding(x, w)'
HeldSame == \A x \in Keys, w \in Vals : Holding(x, w)' <=> Holding(x, w)

\* An entry stays in its slot, or comes with a key that was not stored.
Stays ==
  \A i \in Live' :
    \/ i \in Live /\ entries'[i].key = entries[i].key
    \/ \A x \in Live : entries[x].key # entries'[i].key

SameEntry(i) ==
  /\ entries'[i].hash = entries[i].hash
  /\ entries'[i].key = entries[i].key
  /\ entries'[i].val = entries[i].val

\* A new entry beside those stored.
LEMMA EntryAdded ==
  ASSUME Keyed, NEW k \in Keys, NEW v \in Vals, NEW s,
         s \notin Live, Live' = Live \cup {s},
         \A i \in Live : SameEntry(i),
         \A i \in Live : entries[i].key # k,
         entries'[s].hash = hash_code(k), entries'[s].key = k,
         entries'[s].val = v
  PROVE  Keyed' /\ HeldPut(k, v) /\ Stays
<1>1. \A i \in Live : /\ entries'[i].hash = entries[i].hash
                      /\ entries'[i].key = entries[i].key
                      /\ entries'[i].val = entries[i].val
  BY DEF SameEntry
<1>2. Keyed'
  <2>1. \A i \in Live' : /\ entries'[i].key \in Keys
                         /\ entries'[i].val \in Vals
                         /\ entries'[i].hash = hash_code(entries'[i].key)
    BY <1>1 DEF Keyed
  <2>2. \A i, j \in Live' : entries'[i].key = entries'[j].key => i = j
    BY <1>1 DEF Keyed
  <2> QED BY <2>1, <2>2 DEF Keyed, hash_code
<1>3. HeldPut(k, v)
  BY <1>1 DEF HeldPut, Holding
<1>4. Stays
  BY <1>1 DEF Stays
<1> QED BY <1>2, <1>3, <1>4

\* Some entries leave, none comes.
LEMMA EntriesLeft ==
  ASSUME Keyed, Live' \subseteq Live, \A i \in Live' : SameEntry(i)
  PROVE  Keyed' /\ Stays
<1>1. \A i \in Live' : /\ entries'[i].hash = entries[i].hash
                       /\ entries'[i].key = entries[i].key
                       /\ entries'[i].val = entries[i].val
  BY DEF SameEntry
<1>2. Keyed'
  <2>1. \A i \in Live' : /\ entries'[i].key \in Keys
                         /\ entries'[i].val \in Vals
                         /\ entries'[i].hash = hash_code(entries'[i].key)
    BY <1>1 DEF Keyed
  <2>2. \A i, j \in Live' : entries'[i].key = entries'[j].key => i = j
    BY <1>1 DEF Keyed
  <2> QED BY <2>1, <2>2 DEF Keyed, hash_code
<1> QED BY <1>1, <1>2 DEF Stays

LEMMA NotStored ==
  ASSUME TIInv, NEW k \in Keys, find(k) = Null
  PROVE  \A i \in Live : entries[i].key # k
<1>1. Live \subseteq Slots /\ \A s \in Slots : s # Null
  BY Typed DEF TIInv, IInv
<1> QED BY <1>1, FindIs

\* With an empty free list every slot handed out is stored.
LEMMA AllStored ==
  ASSUME TIInv, freeSize = 0
  PROVE  Erased = {} /\ Live = Handed /\ Handed = 0 .. count - 1
         /\ count \in Nat /\ count <= capacity /\ capacity \in Nat
<1>1. freeSize = Cardinality(Erased) /\ capacity \in Nat /\ count \in Nat
      /\ Erased = ErasedIn(entries, capacity, count)
  BY Typed, LiveIs DEF TIInv, IInv, TypeOK
<1>2. Erased = {}
  BY <1>1, ErasedCounted, FS_EmptySet
<1>3. \A i \in Handed : entries[i].hash # Fresh
  BY DEF TIInv, Kempt, Written
<1>4. Live = Handed
  BY <1>2, <1>3 DEF Live, Erased
<1>5. count <= capacity
  BY DEF TIInv, Kempt, Written
<1>6. Handed = 0 .. count - 1
  BY <1>1, <1>5 DEF Handed, Slots
<1> QED BY <1>1, <1>2, <1>4, <1>5, <1>6

\* Then a rehash keeps every entry in its slot.
LEMMA RehashInPlace ==
  ASSUME DictionaryAssumption, TIInv, freeSize = 0,
         NEW mem \in [StaleSlots -> Garbage], NEW newCap \in Nat
  PROVE  /\ Cardinality(Kept(mem)) = count
         /\ \A j \in Live : j < newCap =>
              /\ NewEntries(mem, newCap)[j].hash = entries[j].hash
              /\ NewEntries(mem, newCap)[j].key = entries[j].key
              /\ NewEntries(mem, newCap)[j].val = entries[j].val
<1>1. Erased = {} /\ Live = Handed /\ Handed = 0 .. count - 1
      /\ count \in Nat /\ count <= capacity
  BY AllStored
<1>2. \A i \in Handed : Read(mem, i) = entries[i]
  BY DEF Read, StaleSlots, TIInv, Kempt, Written
<1>3. Kept(mem) = 0 .. count - 1
  BY <1>1, <1>2 DEF Kept, Erased
<1>4. Cardinality(0 .. count - 1) = count
  BY <1>1, BelowCounted
<1>5. ASSUME NEW j \in 0 .. count - 1
      PROVE  Source(mem, j) = j
  <2> DEFINE i == Source(mem, j)
  <2>0. TypeOK /\ j \in 0 .. Cardinality(Kept(mem)) - 1
    BY <1>3, <1>4 DEF TIInv, IInv
  <2>1. i \in Kept(mem) /\ Cardinality({x \in Kept(mem) : x < i}) = j
    BY <2>0, SourceKept
  <2> HIDE DEF i
  <2>2. i \in Nat /\ i \in 0 .. count - 1
    BY <1>1, <1>3, <2>1
  <2>3. {x \in Kept(mem) : x < i} = 0 .. i - 1
    BY <1>1, <1>3, <2>2
  <2>4. Cardinality(0 .. i - 1) = i
    BY <2>2, BelowCounted
  <2> QED BY <2>1, <2>3, <2>4 DEF i
<1>6. ASSUME NEW j \in Live, j < newCap
      PROVE  /\ NewEntries(mem, newCap)[j].hash = entries[j].hash
             /\ NewEntries(mem, newCap)[j].key = entries[j].key
             /\ NewEntries(mem, newCap)[j].val = entries[j].val
  <2>1. j \in 0 .. count - 1 /\ j \in 0 .. newCap - 1 /\ j < count
    BY <1>1, <1>6
  <2>2. Read(mem, Source(mem, j)) = entries[j]
    BY <1>1, <1>2, <1>5, <2>1
  <2>3. j < Cardinality(Kept(mem))
    BY <1>3, <1>4, <2>1
  <2>4. NewEntries(mem, newCap)[j] =
          [hash |-> entries[j].hash, key |-> entries[j].key,
           val |-> entries[j].val,
           next |-> HeadOf(mem, newCap, j, index_of(entries[j].hash, newCap))]
    BY <2>1, <2>2, <2>3 DEF NewEntries
  <2> QED BY <2>4
<1> QED BY <1>3, <1>4, <1>6

\* What a step that only concerns the arrays leaves of Kempt.
Skip == Live' = Live /\ \A i \in Live : SameEntry(i)

LEMMA SkipSame ==
  ASSUME Keyed, Skip
  PROVE  Keyed' /\ Stays /\ HeldSame
<1>1. Keyed' /\ Stays
  BY EntriesLeft DEF Skip
<1>2. HeldSame
  BY DEF HeldSame, Holding, Skip, SameEntry
<1> QED BY <1>1, <1>2

LEMMA TidyUpdate ==
  ASSUME DictionaryAssumption, TIInv, NEW k \in Keys, NEW v \in Vals,
         InsertUpdate(k, v)
  PROVE  Kempt' /\ Stays /\ HeldPut(k, v)
<1> DEFINE s == find(k)
<1>1. s \in Live /\ entries[s].key = k
      /\ \A i \in Live : entries[i].key = k => i = s
  BY FindIs DEF InsertUpdate
<1>2. /\ entries' = [entries EXCEPT ![s].val = v]
      /\ count' = count /\ capacity' = capacity
  BY DEF InsertUpdate
<1>3. TypeOK /\ Live \subseteq Slots /\ Slots' = Slots
  BY <1>2, Typed DEF TIInv, IInv, Slots
<1> HIDE DEF s
<1>4. entries \in [Slots -> Entry] /\ s \in Slots /\ entries[s] \in Entry
  BY <1>1, <1>3 DEF TypeOK
<1>5. \A i \in Slots :
        /\ entries'[i].hash = entries[i].hash /\ entries'[i].key = entries[i].key
        /\ entries'[i].val = IF i = s THEN v ELSE entries[i].val
  BY <1>2, <1>4 DEF Entry
<1>6. Handed' = Handed
  BY <1>2, <1>3 DEF Handed
<1>7. Live' = Live
  BY <1>5, <1>6 DEF Live, Handed
<1>8. Written /\ Keyed
  BY DEF TIInv, Kempt
<1>9. Written'
  BY <1>2, <1>5, <1>6, <1>8 DEF Written, Handed
<1>10. Keyed'
  <2>1. \A i \in Live' : /\ entries'[i].key \in Keys
                         /\ entries'[i].val \in Vals
                         /\ entries'[i].hash = hash_code(entries'[i].key)
    BY <1>3, <1>5, <1>7, <1>8 DEF Keyed
  <2>2. \A i, j \in Live' : entries'[i].key = entries'[j].key => i = j
    BY <1>3, <1>5, <1>7, <1>8 DEF Keyed
  <2> QED BY <2>1, <2>2 DEF Keyed, hash_code
<1>11. Stays
  BY <1>3, <1>5, <1>7 DEF Stays
<1>12. HeldPut(k, v)
  <2> SUFFICES ASSUME NEW x \in Keys, NEW w \in Vals
               PROVE  Holding(x, w)' <=> IF x = k THEN w = v ELSE Holding(x, w)
    BY DEF HeldPut
  <2>1. Holding(x, w)' <=>
          \E i \in Live : entries'[i].key = x /\ entries'[i].val = w
    BY <1>7 DEF Holding
  <2>2. \A i \in Live : /\ entries'[i].key = entries[i].key
                        /\ entries'[i].val = IF i = s THEN v ELSE entries[i].val
    BY <1>3, <1>5
  <2>3. CASE x = k
    BY <1>1, <2>1, <2>2, <2>3
  <2>4. CASE x # k
    BY <1>1, <2>1, <2>2, <2>4 DEF Holding
  <2> QED BY <2>3, <2>4
<1> QED BY <1>9, <1>10, <1>11, <1>12 DEF Kempt

\* A new entry in slot s of the present array.
LEMMA TidyLink ==
  ASSUME DictionaryAssumption, TIInv, NEW k \in Keys, NEW v \in Vals,
         find(k) = Null, NEW s \in Slots, s \notin Live,
         Link(buckets, entries, capacity, s, k, v),
         Live' = Live \cup {s}, capacity' = capacity, count' <= capacity,
         \A i \in Slots : i < count' <=> i < count \/ i = s
  PROVE  Kempt' /\ Stays /\ HeldPut(k, v)
<1>1. Written /\ Keyed /\ TypeOK /\ Live \subseteq Slots /\ Slots' = Slots
  BY Typed DEF TIInv, Kempt, IInv, Slots
<1>2. entries' = [entries EXCEPT ![s] =
                    EntryFor(k, v, buckets[index_of(hash_code(k), capacity)])]
  BY DEF Link, EntryFor
<1>3. entries \in [Slots -> Entry]
  BY <1>1 DEF TypeOK
<1>4. entries'[s].hash = hash_code(k) /\ entries'[s].key = k
      /\ entries'[s].val = v
      /\ \A i \in Slots \ {s} : entries'[i] = entries[i]
  BY <1>2, <1>3 DEF EntryFor
<1>5. \A i \in Live : SameEntry(i)
  BY <1>1, <1>4 DEF SameEntry
<1>6. \A i \in Live : entries[i].key # k
  BY NotStored
<1>7. Keyed' /\ HeldPut(k, v) /\ Stays
  BY <1>1, <1>4, <1>5, <1>6, EntryAdded
<1>8. Handed' = Handed \cup {s}
  BY <1>1 DEF Handed
<1>9. hash_code(k) # Fresh
  BY HashesTyped
<1>10. Written'
  BY <1>1, <1>4, <1>8, <1>9 DEF Written, Handed
<1> QED BY <1>7, <1>10 DEF Kempt

LEMMA TidyReuse ==
  ASSUME DictionaryAssumption, TIInv, NEW k \in Keys, NEW v \in Vals,
         InsertReuse(k, v)
  PROVE  Kempt' /\ Stays /\ HeldPut(k, v)
<1>1. freeHead \in Erased /\ Live' = Live \cup {freeHead}
  BY InsertReuseKeeps DEF TIInv
<1>2. freeHead \in Slots /\ freeHead \notin Live /\ freeHead < count
  BY <1>1 DEF Erased, Live, Handed
<1>3. /\ find(k) = Null /\ Link(buckets, entries, capacity, freeHead, k, v)
      /\ capacity' = capacity /\ count' = count
  BY DEF InsertReuse
<1>4. count' <= capacity
  BY <1>3 DEF TIInv, Kempt, Written
<1>5. \A i \in Slots : i < count' <=> i < count \/ i = freeHead
  BY <1>2, <1>3
<1> QED BY <1>1, <1>2, <1>3, <1>4, <1>5, TidyLink

LEMMA TidyNextSlot ==
  ASSUME DictionaryAssumption, TIInv, NEW k \in Keys, NEW v \in Vals,
         InsertNext(k, v)
  PROVE  Kempt' /\ Stays /\ HeldPut(k, v)
<1>1. count \in Slots /\ Live' = Live \cup {count}
  BY InsertNextKeeps DEF TIInv
<1>2. capacity \in Nat /\ count \in Nat /\ count \notin Live
  BY Typed DEF TIInv, IInv, TypeOK, Live, Handed
<1>3. /\ find(k) = Null /\ Link(buckets, entries, capacity, count, k, v)
      /\ capacity' = capacity /\ count' = count + 1 /\ count < capacity
  BY DEF InsertNext
<1>4. count' <= capacity
  BY <1>2, <1>3
<1>5. \A i \in Slots : i < count' <=> i < count \/ i = count
  BY <1>2, <1>3 DEF Slots
<1> QED BY <1>1, <1>2, <1>3, <1>4, <1>5, TidyLink

\* The table was full: doubled, it keeps its entries and takes the new one.
LEMMA TidyGrown ==
  ASSUME DictionaryAssumption, TIInv, NEW k \in Keys, NEW v \in Vals,
         find(k) = Null, freeSize = 0, capacity > 0, count = capacity,
         NEW mem \in [StaleSlots -> Garbage], Grown(mem, k, v)
  PROVE  /\ Kempt' /\ Stays /\ HeldPut(k, v)
         /\ Cardinality(Live) = capacity
<1> DEFINE cap == 2 * capacity
           e == NewEntries(mem, cap)
           bs == NewBuckets(mem, cap)
<1>1. /\ Erased = {} /\ Live = Handed /\ Handed = 0 .. count - 1
      /\ count \in Nat /\ capacity \in Nat
  BY AllStored
<1>2. cap \in Nat /\ count < cap /\ count + 1 <= cap
  BY <1>1
<1>3. /\ Cardinality(Kept(mem)) = count
      /\ \A j \in Live : j < cap =>
           /\ e[j].hash = entries[j].hash
           /\ e[j].key = entries[j].key
           /\ e[j].val = entries[j].val
  BY <1>2, RehashInPlace
<1>4. Live' = Live \cup {count} /\ count \notin Live
  <2>1. Live' = (0 .. count - 1) \cup {count}
    BY <1>3, GrowKeeps DEF TIInv
  <2> QED BY <2>1, <1>1
<1>5. /\ entries' = [e EXCEPT ![count] =
                       EntryFor(k, v, bs[index_of(hash_code(k), cap)])]
      /\ count' = count + 1 /\ capacity' = cap
  BY DEF Grown, Link, EntryFor
<1>6. DOMAIN e = 0 .. cap - 1
  BY DEF NewEntries
<1> HIDE DEF e, bs, cap
<1>7. /\ entries'[count].hash = hash_code(k) /\ entries'[count].key = k
      /\ entries'[count].val = v
      /\ \A i \in (0 .. cap - 1) \ {count} : entries'[i] = e[i]
  BY <1>1, <1>2, <1>5, <1>6 DEF EntryFor
<1>8. ASSUME NEW i \in Live
      PROVE  SameEntry(i)
  <2>1. i \in (0 .. cap - 1) \ {count} /\ i < cap
    BY <1>1, <1>2
  <2> QED BY <1>3, <1>7, <2>1 DEF SameEntry
<1>9. \A i \in Live : entries[i].key # k
  BY NotStored
<1>10. Keyed /\ Written
  BY DEF TIInv, Kempt
<1>11. Keyed' /\ HeldPut(k, v) /\ Stays
  BY <1>4, <1>7, <1>8, <1>9, <1>10, EntryAdded
<1>12. Written'
  <2>1. Handed' \subseteq Live \cup {count}
    BY <1>1, <1>5 DEF Handed, Slots
  <2>2. \A i \in Live : entries'[i].hash = entries[i].hash
    BY <1>8 DEF SameEntry
  <2>3. \A i \in Live : entries'[i].hash # Fresh
    BY <1>1, <1>10, <2>2 DEF Written
  <2>4. hash_code(k) # Fresh
    BY HashesTyped
  <2>5. count' <= capacity'
    BY <1>2, <1>5
  <2> QED BY <1>7, <2>1, <2>3, <2>4, <2>5 DEF Written
<1>13. Cardinality(Live) = capacity
  BY <1>1, BelowCounted
<1> QED BY <1>11, <1>12, <1>13 DEF Kempt

LEMMA TidyErase ==
  ASSUME DictionaryAssumption, TIInv, NEW k \in Keys, Erase(k)
  PROVE  Kempt' /\ Stays /\ HeldLess(k) /\ find(k) \in Live
<1> DEFINE s == find(k)
<1>1. /\ s \in Live /\ Live' = Live \ {s} /\ Erased' = Erased \cup {s}
      /\ capacity' = capacity
      /\ \A i \in Live \ {s} : SameEntry(i)
  BY EraseKeeps DEF TIInv, SameEntry
<1>2. entries[s].key = k /\ \A i \in Live : entries[i].key = k => i = s
  BY <1>1, FindIs, Typed DEF Erase
<1>3. count' = count /\ Slots' = Slots
  BY <1>1 DEF Erase, Slots
<1>4. Keyed /\ Written
  BY DEF TIInv, Kempt
<1> HIDE DEF s
<1>5. Keyed' /\ Stays
  BY <1>1, <1>4, EntriesLeft
<1>6. HeldLess(k)
  <2>1. \A i \in Live \ {s} : /\ entries'[i].key = entries[i].key
                              /\ entries'[i].val = entries[i].val
    BY <1>1 DEF SameEntry
  <2> QED BY <1>1, <1>2, <2>1 DEF HeldLess, Holding
<1>7. Written'
  <2>1. Handed' = Handed
    BY <1>3 DEF Handed
  <2>2. Handed \subseteq Live \cup Erased
    BY <1>4 DEF Written, Live, Erased
  <2>3. \A i \in Live' : entries'[i].hash # Fresh
    BY DEF Live
  <2>4. \A i \in Erased' : entries'[i].hash = kInvalidHash
    BY DEF Erased, kInvalidHash
  <2>5. kInvalidHash # Fresh
    BY HashesTyped DEF Fresh
  <2>6. Handed' \subseteq Live' \cup Erased'
    BY <1>1, <2>1, <2>2
  <2>7. \A i \in Handed' : entries'[i].hash # Fresh
    BY <2>3, <2>4, <2>5, <2>6
  <2> QED BY <1>1, <1>3, <1>4, <2>7 DEF Written
<1> QED BY <1>1, <1>5, <1>6, <1>7 DEF Kempt, s

LEMMA TidyClear ==
  ASSUME DictionaryAssumption, TIInv, Clear
  PROVE  Kempt' /\ Stays /\ HeldNone
<1>1. Live' = {}
  BY ClearKeeps DEF TIInv
<1>2. capacity \in Nat /\ count' = 0 /\ capacity' = capacity
  BY Typed DEF TIInv, IInv, Clear
<1>3. Handed' = {}
  BY <1>2 DEF Handed, Slots
<1>4. Written' /\ Keyed'
  BY <1>1, <1>2, <1>3 DEF Written, Keyed
<1> QED BY <1>1, <1>4 DEF Kempt, Stays, HeldNone, Holding

\* A step that changes at most the fault.
LEMMA TidyFault ==
  ASSUME TIInv,
         UNCHANGED <<buckets, entries, count, capacity, freeHead, freeSize>>
  PROVE  Kempt' /\ Stays /\ HeldSame
<1>1. Handed' = Handed
  BY DEF Handed, Slots
<1>2. Live' = Live
  BY <1>1 DEF Live
<1>3. Skip
  BY <1>2 DEF Skip, SameEntry
<1>4. Keyed /\ Written
  BY DEF TIInv, Kempt
<1>5. Written'
  BY <1>1, <1>4 DEF Written
<1> QED BY <1>3, <1>4, <1>5, SkipSame DEF Kempt

\* A rehash moves no entry and loses none.
LEMMA TidyRehash ==
  ASSUME DictionaryAssumption, TIInv, freeSize = 0, NEW newCap \in Nat,
         NEW mem \in [StaleSlots -> Garbage], Rehash(newCap, mem)
  PROVE  /\ Kempt' /\ Stays /\ HeldSame
         /\ count' = count /\ freeSize' = freeSize
         /\ newCap >= count => fault' = fault /\ capacity' = newCap
<1>1. /\ Erased = {} /\ Live = Handed /\ Handed = 0 .. count - 1
      /\ count \in Nat /\ count <= capacity /\ capacity \in Nat
  BY AllStored
<1> DEFINE e == NewEntries(mem, newCap)
<1>2. /\ Cardinality(Kept(mem)) = count
      /\ \A j \in Live : j < newCap => /\ e[j].hash = entries[j].hash
                                       /\ e[j].key = entries[j].key
                                       /\ e[j].val = entries[j].val
  BY RehashInPlace
<1>3. ~(count > capacity)
  BY <1>1
<1>4. CASE count > newCap
  <2>1. UNCHANGED <<buckets, entries, count, capacity, freeHead, freeSize>>
    BY <1>2, <1>3, <1>4 DEF Rehash
  <2>2. ~(newCap >= count)
    BY <1>1, <1>4
  <2> QED BY <2>1, <2>2, TidyFault
<1>5. CASE ~(count > newCap)
  <2>1. /\ entries' = e /\ capacity' = newCap /\ freeSize' = 0
        /\ count' = count /\ fault' = fault
    BY <1>2, <1>3, <1>5 DEF Rehash
  <2> HIDE DEF e
  <2>2. count <= newCap
    BY <1>1, <1>5
  <2>3. Handed' = Handed
    BY <1>1, <2>1, <2>2 DEF Handed, Slots
  <2>4. ASSUME NEW i \in Live
        PROVE  SameEntry(i) /\ entries[i].hash \notin {kInvalidHash, Fresh}
    <3>1. i < newCap
      BY <1>1, <2>2
    <3> QED BY <1>2, <2>1, <3>1 DEF SameEntry, Live
  <2>5. \A i \in Live : entries'[i].hash \notin {kInvalidHash, Fresh}
    BY <2>4 DEF SameEntry
  <2>6. Live' = Live
    BY <1>1, <2>3, <2>5 DEF Live
  <2>7. Keyed /\ Written
    BY DEF TIInv, Kempt
  <2>8. Keyed' /\ Stays /\ HeldSame
    BY <2>4, <2>6, <2>7, SkipSame DEF Skip
  <2>9. Written'
    BY <1>1, <2>1, <2>2, <2>3, <2>5 DEF Written
  <2> QED BY <2>1, <2>8, <2>9 DEF Kempt
<1> QED BY <1>4, <1>5

\* What one step of careful callers does: the map it leaves, and the slots.
PutStep == \E k \in Keys, v \in Vals :
  HeldPut(k, v) /\ Size' = IF find(k) = Null THEN Size + 1 ELSE Size
RemoveStep == \E k \in Keys :
  find(k) # Null /\ HeldLess(k) /\ Size' = Size - 1
ClearStep == HeldNone /\ Size' = 0
SameStep == HeldSame /\ Size' = Size
Doubles == capacity' > capacity /\ count' > count

LEMMA TidyInsert ==
  ASSUME DictionaryAssumption, TIInv, NEW k \in Keys, NEW v \in Vals,
         Insert(k, v)
  PROVE  /\ Kempt' /\ Stays /\ (PutStep \/ SameStep)
         /\ Doubles => Cardinality(Live) = capacity
         /\ fault = "none" /\ ~AllocMayFail /\ capacity # 0 =>
              fault' = "none" /\ capacity' # 0
<1>1. count \in Nat /\ freeSize \in Nat /\ capacity \in Nat
  BY Typed DEF TIInv, IInv, TypeOK
<1>2. CASE InsertUpdate(k, v)
  <2>1. Kempt' /\ Stays /\ HeldPut(k, v)
    BY <1>2, TidyUpdate
  <2>2. UNCHANGED <<count, freeSize, capacity, fault>> /\ find(k) # Null
    BY <1>2 DEF InsertUpdate
  <2>3. PutStep
    BY <2>1, <2>2 DEF PutStep, Size
  <2> QED BY <1>1, <2>1, <2>2, <2>3 DEF Doubles
<1>3. CASE InsertReuse(k, v)
  <2>1. Kempt' /\ Stays /\ HeldPut(k, v)
    BY <1>3, TidyReuse
  <2>2. /\ UNCHANGED <<count, capacity, fault>> /\ freeSize' = freeSize - 1
        /\ find(k) = Null
    BY <1>3 DEF InsertReuse
  <2>3. Size' = Size + 1
    BY <1>1, <2>2 DEF Size
  <2>4. PutStep
    BY <2>1, <2>2, <2>3 DEF PutStep
  <2> QED BY <1>1, <2>1, <2>2, <2>4 DEF Doubles
<1>4. CASE InsertNext(k, v)
  <2>1. Kempt' /\ Stays /\ HeldPut(k, v)
    BY <1>4, TidyNextSlot
  <2>2. /\ UNCHANGED <<freeSize, capacity, fault>> /\ count' = count + 1
        /\ find(k) = Null
    BY <1>4 DEF InsertNext
  <2>3. Size' = Size + 1
    BY <1>1, <2>2 DEF Size
  <2>4. PutStep
    BY <2>1, <2>2, <2>3 DEF PutStep
  <2> QED BY <1>1, <2>1, <2>2, <2>4 DEF Doubles
<1>5. CASE InsertGrow(k, v)
  <2>1. find(k) = Null /\ freeSize = 0 /\ count >= capacity
    BY <1>5 DEF InsertGrow
  <2>2. CASE /\ capacity > 0 /\ count = capacity
             /\ \E mem \in [StaleSlots -> Garbage] : Grown(mem, k, v)
    <3>1. PICK mem \in [StaleSlots -> Garbage] : Grown(mem, k, v)
      BY <2>2
    <3>2. Kempt' /\ Stays /\ HeldPut(k, v) /\ Cardinality(Live) = capacity
      BY <2>1, <2>2, <3>1, TidyGrown
    <3>3. count' = count + 1 /\ freeSize' = 0 /\ capacity' = 2 * capacity
          /\ fault' = fault
      BY <3>1 DEF Grown
    <3>4. Size' = Size + 1
      BY <1>1, <2>1, <3>3 DEF Size
    <3>5. PutStep
      BY <2>1, <3>2, <3>4 DEF PutStep
    <3> QED BY <1>1, <2>2, <3>2, <3>3, <3>5
  <2>3. CASE /\ fault' \in Faults \ {"none"}
             /\ ~(\A grown \in Alloc : grown) \/ capacity = 0
                  \/ count # capacity
             /\ UNCHANGED <<buckets, entries, count, capacity,
                            freeHead, freeSize>>
    <3>1. Kempt' /\ Stays /\ HeldSame
      BY <2>3, TidyFault
    <3>2. SameStep
      BY <2>3, <3>1 DEF SameStep, Size
    <3>3. count = capacity
      BY <1>1, <2>1 DEF TIInv, Kempt, Written
    <3>4. ~AllocMayFail => \A grown \in Alloc : grown
      BY DEF Alloc
    <3> QED BY <1>1, <2>3, <3>1, <3>2, <3>3, <3>4 DEF Doubles
  <2> QED BY <1>5, <2>2, <2>3, InsertGrowCases DEF TIInv
<1> QED BY <1>2, <1>3, <1>4, <1>5 DEF Insert

\* The requests that no allocation and no limit can turn down.
Bounded == ~AllocMayFail /\ \A n \in Requests : n <= MaxCapacity

Served == fault = "none" /\ capacity # 0

\* What a step of careful callers does, whichever it is.
TidyStep ==
  /\ Stays
  /\ PutStep \/ RemoveStep \/ ClearStep \/ SameStep
  /\ Doubles => Cardinality(Live) = capacity
  /\ Bounded /\ Served => Served'

LEMMA TidyRehashed ==
  ASSUME DictionaryAssumption, TIInv, NEW n, Tidy(n), NEW newCap \in Nat,
         Bounded => newCap >= n, NEW mem \in [StaleSlots -> Garbage],
         Rehash(newCap, mem), n \in Nat
  PROVE  Kempt' /\ TidyStep
<1>1. freeSize = 0 /\ n > 0 /\ n >= count /\ count \in Nat
  BY DEF Tidy, TIInv, IInv, TypeOK
<1>2. /\ Kempt' /\ Stays /\ HeldSame
      /\ count' = count /\ freeSize' = freeSize
      /\ newCap >= count => fault' = fault /\ capacity' = newCap
  BY <1>1, TidyRehash
<1>3. SameStep
  BY <1>2 DEF SameStep, Size
<1>4. ~Doubles
  BY <1>1, <1>2 DEF Doubles
<1>5. ASSUME Bounded, Served
      PROVE  Served'
  <2>1. newCap >= count /\ newCap # 0
    BY <1>1, <1>5
  <2> QED BY <1>2, <1>5, <2>1 DEF Served
<1> QED BY <1>2, <1>3, <1>4, <1>5 DEF TidyStep

LEMMA TidyReserve ==
  ASSUME DictionaryAssumption, TIInv, NEW n \in Requests, Tidy(n), Reserve(n)
  PROVE  Kempt' /\ TidyStep
<1> DEFINE cap == calc_capacity(n)
           m == IF n < MinCapacity THEN MinCapacity
                ELSE IF n > MaxCapacity THEN MaxCapacity ELSE n
<1>1. n \in Nat /\ MinCapacity \in Nat \ {0} /\ MaxCapacity \in Nat \ {0}
  BY DEF DictionaryAssumption
<1>2. cap = round_up_pow2(m)
  BY DEF calc_capacity
<1>3. m \in Nat /\ (Bounded => m >= n)
  BY <1>1 DEF Bounded
<1>4. \E mem \in [StaleSlots -> Garbage] : Rehash(cap, mem)
  BY DEF Reserve
<1> HIDE DEF cap, m
<1>5. cap \in Capacities /\ cap >= m
  BY <1>2, <1>3, RoundedUp
<1>6. cap \in Nat
  BY <1>5, CapacityTyped
<1>7. Bounded => cap >= n
  BY <1>1, <1>3, <1>5, <1>6
<1> QED BY <1>1, <1>4, <1>6, <1>7, TidyRehashed

LEMMA TidyShrink ==
  ASSUME DictionaryAssumption, TIInv, NEW n \in Requests, Tidy(n),
         ShrinkToFit(n)
  PROVE  Kempt' /\ TidyStep
<1> DEFINE cap == calc_shrink_capacity(n)
           m == IF n > MaxCapacity THEN MaxCapacity ELSE n
<1>1. n \in Nat /\ MaxCapacity \in Nat \ {0} /\ n > 0
  BY DEF DictionaryAssumption, Tidy
<1>2. cap = round_up_pow2(m)
  BY DEF calc_shrink_capacity
<1>3. m \in Nat /\ m # 0 /\ (Bounded => m >= n)
  BY <1>1 DEF Bounded
<1>4. cap # 0 => \E mem \in [StaleSlots -> Garbage] : Rehash(cap, mem)
  BY DEF ShrinkToFit
<1> HIDE DEF cap, m
<1>5. cap \in Capacities /\ cap >= m /\ cap # 0
  BY <1>2, <1>3, RoundedUp
<1>6. cap \in Nat
  BY <1>5, CapacityTyped
<1>7. Bounded => cap >= n
  BY <1>1, <1>3, <1>5, <1>6
<1> QED BY <1>1, <1>4, <1>5, <1>6, <1>7, TidyRehashed

LEMMA TidyKeeps ==
  ASSUME DictionaryAssumption, TIInv, [TidyNext]_vars
  PROVE  TIInv' /\ TidyStep
<1>1. [Next]_vars
  <2>1. TidyNext => Next
    BY DEF TidyNext, Next
  <2> QED BY <2>1
<1>2. IInv'
  BY <1>1, NextKeeps DEF TIInv
<1>3. count \in Nat /\ capacity \in Nat
  BY Typed DEF TIInv, IInv, TypeOK
<1>4. ASSUME NEW k \in Keys, NEW v \in Vals, Insert(k, v)
      PROVE  Kempt' /\ TidyStep
  BY <1>4, TidyInsert DEF TidyStep, Served, Bounded
<1>5. ASSUME NEW k \in Keys, Erase(k)
      PROVE  Kempt' /\ TidyStep
  <2>1. Kempt' /\ Stays /\ HeldLess(k)
    BY <1>5, TidyErase
  <2>2. /\ count' = count /\ capacity' = capacity /\ fault' = fault
        /\ freeSize' = freeSize + 1 /\ find(k) # Null /\ freeSize \in Nat
    BY <1>5 DEF Erase, TIInv, IInv, TypeOK
  <2>3. Size' = Size - 1
    BY <1>3, <2>2 DEF Size
  <2>4. RemoveStep
    BY <2>1, <2>2, <2>3 DEF RemoveStep
  <2> QED BY <1>3, <2>1, <2>2, <2>4 DEF TidyStep, Doubles, Served
<1>6. ASSUME Clear
      PROVE  Kempt' /\ TidyStep
  <2>1. Kempt' /\ Stays /\ HeldNone
    BY <1>6, TidyClear
  <2>2. count' = 0 /\ freeSize' = 0 /\ capacity' = capacity /\ fault' = fault
    BY <1>6 DEF Clear
  <2>3. ClearStep
    BY <2>1, <2>2 DEF ClearStep, Size
  <2> QED BY <1>3, <2>1, <2>2, <2>3 DEF TidyStep, Doubles, Served
<1>7. ASSUME NEW n \in {m \in Requests : Tidy(m)}, Reserve(n)
      PROVE  Kempt' /\ TidyStep
  BY <1>7, TidyReserve
<1>8. ASSUME NEW n \in {m \in Requests : Tidy(m)}, ShrinkToFit(n)
      PROVE  Kempt' /\ TidyStep
  BY <1>8, TidyShrink
<1>9. ASSUME UNCHANGED vars
       PROVE  Kempt' /\ TidyStep
  <2>1. Kempt' /\ Stays /\ HeldSame
    BY <1>9, TidyFault DEF vars
  <2>2. SameStep
    BY <1>9, <2>1 DEF SameStep, Size, vars
  <2> QED BY <1>3, <1>9, <2>1, <2>2 DEF TidyStep, Doubles, Served, vars
<1>10. Kempt' /\ TidyStep
  BY <1>4, <1>5, <1>6, <1>7, <1>8, <1>9 DEF TidyNext
<1> QED BY <1>2, <1>10 DEF TIInv

THEOREM TidyAlwaysGood == TidySpec => []TIInv
<1>1. Init => TIInv
  BY InitEstablishes, DictionaryAssumption DEF TIInv
<1>2. TIInv /\ [TidyNext]_vars => TIInv'
  BY TidyKeeps, DictionaryAssumption
<1> QED BY <1>1, <1>2, PTL DEF TidySpec

\* As long as the capacity stays, no operation on another key moves an entry:
\* an iterator that find returned stays good until its own key is erased.
THEOREM EntriesStayStable == TidySpec => StableEntries
<1>1. ASSUME TIInv, TIInv', [TidyNext]_vars
      PROVE  [capacity' = capacity =>
                \A k \in Keys :
                  find(k) # Null /\ find(k)' # Null => find(k)' = find(k)]_vars
  <2> SUFFICES ASSUME NEW k \in Keys, find(k) # Null, (find(k))' # Null
               PROVE  (find(k))' = find(k)
    OBVIOUS
  <2> DEFINE j == (find(k))'
  <2>1. j \in Live' /\ entries'[j].key = k
    BY <1>1, SeenNext
  <2>2. /\ find(k) \in Live /\ entries[find(k)].key = k
        /\ \A i \in Live : entries[i].key = k => find(k) = i
    BY <1>1, FindIs
  <2>3. Stays
    BY <1>1, TidyKeeps, DictionaryAssumption DEF TidyStep
  <2> HIDE DEF j
  <2>4. j \in Live /\ entries'[j].key = entries[j].key
    BY <2>1, <2>2, <2>3 DEF Stays
  <2>5. j = find(k)
    BY <2>1, <2>2, <2>4
  <2> QED BY <2>5 DEF j
<1> QED BY <1>1, TidyAlwaysGood, PTL DEF TidySpec, StableEntries

\* insert doubles the table only when every slot holds a stored key.
THEOREM GrowsOnlyFull == TidySpec => GrowsOnlyWhenFull
<1>1. ASSUME TIInv, [TidyNext]_vars
      PROVE  [capacity' > capacity /\ count' > count
                => Cardinality(Live) = capacity]_vars
  BY <1>1, TidyKeeps, DictionaryAssumption DEF TidyStep, Doubles
<1> QED BY <1>1, TidyAlwaysGood, PTL DEF TidySpec, GrowsOnlyWhenFull

\* When memory does not run out and no caller asks for more than
\* kMaximumCapacity, no operation leaves the arrays.
THEOREM NeverFaults ==
  ASSUME ~AllocMayFail, \A n \in Requests : n <= MaxCapacity
  PROVE  TidySpec => []NoFault
<1>1. Init => Served
  <2> SUFFICES ASSUME Init
               PROVE  Served
    OBVIOUS
  <2>1. PICK n \in Requests \ {0}, gotBuckets \in Alloc, gotEntries \in Alloc :
          /\ fault = "none"
          /\ capacity = IF gotBuckets /\ gotEntries
                        THEN round_up_pow2(n) ELSE 0
    BY DEF Init
  <2>2. gotBuckets /\ gotEntries
    BY DEF Alloc
  <2>3. n \in Nat /\ n # 0
    BY DictionaryAssumption DEF DictionaryAssumption
  <2> QED BY <2>1, <2>2, <2>3, RoundedUp DEF Served
<1>2. TIInv /\ [TidyNext]_vars /\ Served => Served'
  BY TidyKeeps, DictionaryAssumption DEF TidyStep, Bounded
<1>3. Served => NoFault
  BY DEF Served, NoFault
<1> QED BY <1>1, <1>2, <1>3, TidyAlwaysGood, PTL DEF TidySpec

LEMMA NoneFound ==
  ASSUME TIInv, NEW k \in Keys
  PROVE  Lookup(k) = None <=> find(k) = Null
<1>1. CASE find(k) # Null
  <2>1. Lookup(k) = entries[find(k)].val /\ find(k) \in Live
    BY <1>1, FindIs DEF Lookup
  <2>2. entries[find(k)].val \in Vals
    BY <2>1 DEF TIInv, Kempt, Keyed
  <2>3. None \notin Vals
    BY DictionaryAssumption DEF DictionaryAssumption
  <2> QED BY <1>1, <2>1, <2>2, <2>3
<1>2. CASE find(k) = Null
  BY <1>2 DEF Lookup
<1> QED BY <1>1, <1>2

\* Two answers are the same if they are the same values.
LEMMA SameAnswer ==
  ASSUME NEW a \in Vals \cup {None}, NEW b \in Vals \cup {None},
         \A w \in Vals : a = w <=> b = w
  PROVE  a = b
OBVIOUS

\* The lookups after a step, from what it left stored.
LEMMA LookupsNext ==
  ASSUME TIInv, TIInv', NEW g,
         \A x \in Keys : g[x] \in Vals \cup {None},
         \A x \in Keys, w \in Vals : Holding(x, w)' <=> g[x] = w
  PROVE  \A x \in Keys : (Lookup(x))' = g[x]
<1> SUFFICES ASSUME NEW x \in Keys
             PROVE  (Lookup(x))' = g[x]
  OBVIOUS
<1> DEFINE a == (Lookup(x))'
<1>1. a \in Vals \cup {None} /\ \A w \in Vals : a = w <=> Holding(x, w)'
  BY SeenNext
<1>2. g[x] \in Vals \cup {None} /\ \A w \in Vals : Holding(x, w)' <=> g[x] = w
  OBVIOUS
<1> HIDE DEF a
<1>3. a = g[x]
  BY <1>1, <1>2, SameAnswer
<1> QED BY <1>3 DEF a

LEMMA MapStep ==
  ASSUME TIInv, TIInv', TidyStep
  PROVE  [Abstract!Next]_<<[k \in Keys |-> Lookup(k)], Size>>
<1> DEFINE M == [k \in Keys |-> Lookup(k)]
<1>1. \A x \in Keys : /\ M[x] \in Vals \cup {None}
                      /\ \A w \in Vals : M[x] = w <=> Holding(x, w)
  BY LookupIs
<1>2. M' = [x \in Keys |-> (Lookup(x))']
  OBVIOUS
<1>3. None \notin Vals
  BY DictionaryAssumption DEF DictionaryAssumption
<1>4. DOMAIN M = Keys
  OBVIOUS
<1>5. \A k \in Keys : M[k] = None <=> find(k) = Null
  BY NoneFound
<1>6. M = [k \in Keys |-> M[k]]
  OBVIOUS
<1>7. ASSUME NEW g, DOMAIN g = Keys, g = [x \in Keys |-> g[x]],
             \A x \in Keys : g[x] \in Vals \cup {None},
             \A x \in Keys, w \in Vals : Holding(x, w)' <=> g[x] = w
      PROVE  M' = g
  <2>1. \A x \in Keys : (Lookup(x))' = g[x]
    BY <1>7, LookupsNext
  <2> QED BY <1>2, <1>7, <2>1
<1>8. ASSUME PutStep
      PROVE  Abstract!Next
  <2>1. PICK k \in Keys, v \in Vals :
          HeldPut(k, v) /\ Size' = IF find(k) = Null THEN Size + 1 ELSE Size
    BY <1>8 DEF PutStep
  <2> HIDE DEF M
  <2> DEFINE g == [M EXCEPT ![k] = v]
  <2>2. /\ DOMAIN g = Keys /\ g = [x \in Keys |-> g[x]]
        /\ \A x \in Keys : g[x] = IF x = k THEN v ELSE M[x]
    BY <1>4, <1>6
  <2> HIDE DEF g
  <2>3. \A x \in Keys : g[x] \in Vals \cup {None}
    BY <1>1, <2>2
  <2>4. \A x \in Keys, w \in Vals : Holding(x, w)' <=> g[x] = w
    BY <1>1, <2>1, <2>2 DEF HeldPut
  <2>5. M' = g
    BY <1>7, <2>2, <2>3, <2>4
  <2>6. Size' = IF M[k] = None THEN Size + 1 ELSE Size
    BY <1>5, <2>1
  <2>7. Abstract!Put(k, v)
    BY <2>5, <2>6 DEF Abstract!Put, g, M
  <2> QED BY <2>1, <2>7 DEF Abstract!Next
<1>9. ASSUME RemoveStep
      PROVE  Abstract!Next
  <2>1. PICK k \in Keys : find(k) # Null /\ HeldLess(k) /\ Size' = Size - 1
    BY <1>9 DEF RemoveStep
  <2> HIDE DEF M
  <2> DEFINE g == [M EXCEPT ![k] = None]
  <2>2. /\ DOMAIN g = Keys /\ g = [x \in Keys |-> g[x]]
        /\ \A x \in Keys : g[x] = IF x = k THEN None ELSE M[x]
    BY <1>4, <1>6
  <2> HIDE DEF g
  <2>3. \A x \in Keys : g[x] \in Vals \cup {None}
    BY <1>1, <2>2
  <2>4. \A x \in Keys, w \in Vals : Holding(x, w)' <=> g[x] = w
    BY <1>1, <1>3, <2>1, <2>2 DEF HeldLess
  <2>5. M' = g
    BY <1>7, <2>2, <2>3, <2>4
  <2>6. M[k] # None
    BY <1>5, <2>1
  <2>7. Abstract!Remove(k)
    BY <2>1, <2>5, <2>6 DEF Abstract!Remove, g, M
  <2> QED BY <2>7 DEF Abstract!Next
<1>10. ASSUME ClearStep
       PROVE  Abstract!Next
  <2> HIDE DEF M
  <2> DEFINE g == [x \in Keys |-> None]
  <2>1. /\ DOMAIN g = Keys /\ g = [x \in Keys |-> g[x]]
        /\ \A x \in Keys : g[x] = None
    OBVIOUS
  <2> HIDE DEF g
  <2>2. \A x \in Keys : g[x] \in Vals \cup {None}
    BY <2>1
  <2>3. \A x \in Keys, w \in Vals : Holding(x, w)' <=> g[x] = w
    BY <1>3, <1>10, <2>1 DEF ClearStep, HeldNone
  <2>4. M' = g
    BY <1>7, <2>1, <2>2, <2>3
  <2>5. Abstract!Clear
    BY <1>10, <2>4 DEF Abstract!Clear, ClearStep, g, M
  <2> QED BY <2>5 DEF Abstract!Next
<1>11. ASSUME SameStep
       PROVE  UNCHANGED <<M, Size>>
  <2> HIDE DEF M
  <2>1. PICK g : g = M
    OBVIOUS
  <2>2. /\ DOMAIN g = Keys /\ g = [x \in Keys |-> g[x]]
        /\ \A x \in Keys : g[x] \in Vals \cup {None}
    BY <1>1, <1>4, <1>6, <2>1
  <2>3. \A x \in Keys, w \in Vals : Holding(x, w)' <=> g[x] = w
    BY <1>1, <1>11, <2>1 DEF SameStep, HeldSame
  <2>4. M' = g
    BY <1>7, <2>2, <2>3
  <2> QED BY <1>11, <2>1, <2>4 DEF SameStep
<1> QED BY <1>8, <1>9, <1>10, <1>11 DEF TidyStep

\* What careful callers see is a map: the detailed dictionary implements
\* MapSpec, and a step that moves entries in memory cannot be observed.
THEOREM MapRefinement == TidySpec => ImplementsMap
<1>1. Init => Abstract!Init
  <2> SUFFICES ASSUME Init
               PROVE  Abstract!Init
    OBVIOUS
  <2>1. TIInv /\ count = 0 /\ freeSize = 0
    BY InitEstablishes, DictionaryAssumption DEF TIInv, Init
  <2>2. Live = {}
    <3>1. capacity \in Nat
      BY <2>1, Typed DEF TIInv, IInv
    <3> QED BY <2>1, <3>1 DEF Live, Handed, Slots
  <2>3. ASSUME NEW k \in Keys
        PROVE  Lookup(k) = None
    <3>1. find(k) = Null
      BY <2>1, <2>2, FindIs
    <3> QED BY <3>1 DEF Lookup
  <2>4. Size = 0
    BY <2>1 DEF Size
  <2> QED BY <2>3, <2>4 DEF Abstract!Init
<1>2. TIInv /\ TIInv' /\ [TidyNext]_vars
        => [Abstract!Next]_<<[k \in Keys |-> Lookup(k)], Size>>
  BY TidyKeeps, MapStep, DictionaryAssumption
<1> QED
  BY <1>1, <1>2, TidyAlwaysGood, PTL
     DEF TidySpec, ImplementsMap, Abstract!Spec, Abstract!vars
=============================================================================
