--------------------------- MODULE MCDictionaryEx ---------------------------
(***************************************************************************)
(* Values of the constants of DictionaryEx for TLC.  In MCDistinct every   *)
(* key has a hash of its own, but all share bucket 1 as long as there are  *)
(* two; in MCColliding two of them have the same hash.                     *)
(***************************************************************************)
EXTENDS DictionaryEx

CONSTANTS k1, k2, k3

MCDistinct == [k \in Keys |-> IF k = k1 THEN 1 ELSE IF k = k2 THEN 3 ELSE 5]
MCColliding == [k \in Keys |-> IF k = k3 THEN 5 ELSE 1]
=============================================================================
