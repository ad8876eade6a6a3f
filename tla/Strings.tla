------------------------------ MODULE Strings -------------------------------
(***************************************************************************)
(* A program that points the two StringRefs of StringPair at pieces of     *)
(* memory.  The same characters may lie in several places, each with other *)
(* bytes around them.                                                      *)
(***************************************************************************)
EXTENDS StringPair

CONSTANTS
  Pieces,      \* pieces of memory
  Lengths      \* the lengths a program gives

ASSUME StringsAssumption ==
  /\ \A m \in Pieces :
       /\ m.text \in Seq(0 .. 255)
       /\ {m.before, m.term, m.behind} \subseteq 0 .. 255
       /\ m.at \in Nat \ {0}
  /\ Lengths \subseteq Nat

vars == <<left, right>>

Init == left = reset /\ right = reset

\* The constructors and assign with a length, with an end or from an array.
\* They take any state of the string; to bound the runs, it is one that is
\* reset.
Assign ==
  \E m \in Pieces, n \in Lengths :
    /\ n <= Len(m.text)
    /\ \/ left = reset /\ left' = set_data(m, n) /\ UNCHANGED right
       \/ right = reset /\ right' = set_data(m, n) /\ UNCHANGED left

AssignCString ==
  \E m \in Pieces :
    /\ Terminated(m)
    /\ \/ left = reset /\ left' = set_data(m, strlen(m)) /\ UNCHANGED right
       \/ right = reset /\ right' = set_data(m, strlen(m)) /\ UNCHANGED left

Reset ==
  \/ left' = reset /\ UNCHANGED right
  \/ right' = reset /\ UNCHANGED left

Copy == left' = right /\ UNCHANGED right
Move == left' = right /\ right' = reset

Next == Assign \/ AssignCString \/ Reset \/ Copy \/ Move

Spec == Init /\ [][Next]_vars
=============================================================================
