------------------------------- MODULE Powers -------------------------------
(***************************************************************************)
(* Powers of two, and the capacity that is made of a request               *)
(* (main/jimi/support/Power2.h, used by all tables of jstd).               *)
(***************************************************************************)
EXTENDS Pointers

\* Power2[i] is 2^i.
Power2 == Reached([x \in Nat |-> 2 * x], 1)

\* The smallest power of two that is at least n, and 0 for 0.
round_up_pow2(n) ==
  IF n = 0 THEN 0 ELSE Power2[Least({i \in 0 .. n : Power2[i] >= n})]

Greater(m, n) == IF m > n THEN m ELSE n
Lesser(m, n) == IF m < n THEN m ELSE n
=============================================================================
