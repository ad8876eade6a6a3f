------------------------------ MODULE Pointers ------------------------------
(***************************************************************************)
(* Following the pointers of a linked structure: hop is a function from    *)
(* each pointer to the next one.                                           *)
(***************************************************************************)
EXTENDS Integers

\* The pointer reached from p after n hops.
Reached(hop, p) ==
  LET at[n \in Nat] == IF n = 0 THEN p ELSE hop[at[n - 1]]
  IN  at

\* The least number of a set.
Least(S) == CHOOSE n \in S : \A m \in S : n <= m
=============================================================================
