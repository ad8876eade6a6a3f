------------------------------- MODULE LRUSpec ------------------------------
(***************************************************************************)
(* What an LRU cache promises: it holds at most Capacity keys, a key that  *)
(* is read or written becomes the most recent one, and a new key that does *)
(* not fit evicts the least recent one.  This is also the whole state of   *)
(* LeetCode::V1::LRUCache (test/http_parser_test/LRUCache/LRUCache_v1.h),  *)
(* a std::list of pairs and a std::unordered_map of its iterators.         *)
(***************************************************************************)
EXTENDS Integers, Sequences

CONSTANTS
  Keys,
  Vals,
  Failed,     \* what get returns for a key that is not cached
  Capacity

VARIABLES
  order,      \* the cached pairs [key, value], most recent first
  ret         \* what the last get returned

Pair == [key : Keys, value : Vals]
Cached(k) == \E i \in DOMAIN order : order[i].key = k
PlaceOf(k) == CHOOSE i \in DOMAIN order : order[i].key = k
PairOf(k) == order[PlaceOf(k)]
Others(k) ==
  IF Cached(k)
  THEN [i \in 1 .. Len(order) - 1 |->
          IF i < PlaceOf(k) THEN order[i] ELSE order[i + 1]]
  ELSE order

TypeOK ==
  /\ order \in Seq(Pair)
  /\ ret \in Vals \cup {Failed}

Init == order = <<>> /\ ret = Failed

Get(k) ==
  IF Cached(k)
  THEN /\ order' = <<PairOf(k)>> \o Others(k)
       /\ ret' = PairOf(k).value
  ELSE /\ ret' = Failed
       /\ UNCHANGED order

\* A new pair goes to the front; one pair too many falls off the back.
Put(k, v) ==
  /\ LET longer == <<[key |-> k, value |-> v]>> \o Others(k)
     IN  order' = IF Len(longer) > Capacity
                  THEN SubSeq(longer, 1, Capacity) ELSE longer
  /\ UNCHANGED ret

Next == \E k \in Keys : Get(k) \/ \E v \in Vals : Put(k, v)

Spec == Init /\ [][Next]_<<order, ret>>
=============================================================================
