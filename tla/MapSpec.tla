------------------------------ MODULE MapSpec -------------------------------
(***************************************************************************)
(* What a container of the library promises its callers, whatever layout   *)
(* it keeps in memory: a partial map from keys to values and the number of *)
(* keys it holds.  jstd::dictionary, and the tables of the LRU caches, are *)
(* shown to implement it by a refinement mapping; a step that only moves   *)
(* entries in memory (a rehash) must map to a stuttering step here.        *)
(***************************************************************************)
EXTENDS Integers, FiniteSets

CONSTANTS
  Keys,   \* the keys a caller may use
  Vals,   \* the values a caller may store
  None    \* "no such key"; not a value

VARIABLES
  map,    \* map[k]: the value stored under k, or None
  size    \* the number of keys stored, as the container reports it

vars == <<map, size>>

Stored == {k \in Keys : map[k] # None}

TypeOK ==
  /\ map \in [Keys -> Vals \cup {None}]
  /\ size \in Nat

Init ==
  /\ map = [k \in Keys |-> None]
  /\ size = 0

\* Store v under k, replacing what was there.
Put(k, v) ==
  /\ map' = [map EXCEPT ![k] = v]
  /\ size' = IF map[k] = None THEN size + 1 ELSE size

\* Forget a stored key.
Remove(k) ==
  /\ map[k] # None
  /\ map' = [map EXCEPT ![k] = None]
  /\ size' = size - 1

\* Forget every key.
Clear ==
  /\ map' = [k \in Keys |-> None]
  /\ size' = 0

Next ==
  \/ \E k \in Keys, v \in Vals : Put(k, v)
  \/ \E k \in Keys : Remove(k)
  \/ Clear

Spec == Init /\ [][Next]_vars

\* size() counts the stored keys.
SizeIsCount == size = Cardinality(Stored)
=============================================================================
