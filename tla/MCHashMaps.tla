----------------------------- MODULE MCHashMaps -----------------------------
(***************************************************************************)
(* Values of the constants of HashMaps for TLC: k1 and k2 have the same    *)
(* hash, that of k3 differs; in a table of two all share the last bucket,  *)
(* from which probes wrap around, in a table of four k3 is alone in the    *)
(* last one.                                                               *)
(***************************************************************************)
EXTENDS HashMaps

CONSTANTS k1, k2, k3

MCHash == [k \in Keys |-> IF k \in {k1, k2} THEN 1 ELSE 7]
=============================================================================
