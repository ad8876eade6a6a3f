--------------------------- MODULE MCLRUHashTable ---------------------------
(***************************************************************************)
(* Values of the constants of LRUHashTable for TLC.  The mask keeps at     *)
(* most the low three bits of k ^ 4491719; those of 4491719 are all set,   *)
(* so that they are the complement of the low bits of k.  Values are       *)
(* interchangeable: the table never looks at them.                         *)
(***************************************************************************)
EXTENDS LRUHashTable, TLC

MCSymmetry == Permutations(Values)

MCXorKey == [k \in Keys |-> 7 - (k % 8)]
=============================================================================
