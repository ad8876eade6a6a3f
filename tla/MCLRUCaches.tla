---------------------------- MODULE MCLRUCaches -----------------------------
(***************************************************************************)
(* Values of the constants of LRUCaches for TLC: XorKey as in              *)
(* MCLRUHashTable; of the hashes, two are equal and one is the reserved    *)
(* value.  Values are interchangeable: no cache ever looks at them.        *)
(***************************************************************************)
EXTENDS LRUCaches, TLC

MCSymmetry == Permutations(Vals)

MCXorKey == [k \in Keys |-> 7 - (k % 8)]

MCRawHash == [k \in Keys |-> IF k \in {0, 2} THEN 1 ELSE 2^HashBits - 1]
=============================================================================
