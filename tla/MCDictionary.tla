---------------------------- MODULE MCDictionary ----------------------------
(***************************************************************************)
(* Values of the constants of Dictionary for TLC: k1 and k2 collide in     *)
(* their whole hash, k3 shares only their bucket, and k4 hashes to the     *)
(* value reserved for erased entries.                                      *)
(***************************************************************************)
EXTENDS Dictionary

CONSTANTS k1, k2, k3, k4

MCRawHash ==
  [k \in Keys |-> IF k \in {k1, k2} THEN 1 ELSE IF k = k3 THEN 3 ELSE kInvalidHash]
=============================================================================
