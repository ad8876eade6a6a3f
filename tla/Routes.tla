------------------------------- MODULE Routes -------------------------------
(***************************************************************************)
(* What HttpRouter and its specification have in common: the texts of      *)
(* routes and of URLs, and how they are cut into segments.                 *)
(*                                                                         *)
(* A text is a sequence of character codes.                                *)
(***************************************************************************)
EXTENDS Integers, Sequences, SequencesExt

CONSTANTS
  Patterns,    \* the patterns routes are added with
  Urls,        \* the URLs that are routed
  MaxRoutes    \* a bound on the number of routes

Slash == 47
Colon == 58

\* "All urls start with /": lookup steps over the first character unseen.
ASSUME RoutesAssumption ==
  /\ \A u \in Urls : u # <<>> /\ u[1] = Slash
  /\ MaxRoutes \in Nat

\* The loop over getNextSegment: a text with n slashes has n + 1 segments.
Segments(text) ==
  LET cut == <<0>> \o SelectSeq([i \in DOMAIN text |-> i],
                                LAMBDA i : text[i] = Slash)
                   \o <<Len(text) + 1>>
  IN  [j \in 1 .. Len(cut) - 1 |-> SubSeq(text, cut[j] + 1, cut[j + 1] - 1)]

\* The segments of each pattern, without its initial slash, and of each URL.
RouteOf ==
  [p \in Patterns |-> Segments(IF p # <<>> /\ Head(p) = Slash THEN Tail(p)
                                                              ELSE p)]
Asked == [u \in Urls |-> Segments(Tail(u))]

\* The order of the keys of a std::map<std::string, ...>.
Before(a, b) ==
  \E i \in 1 .. Len(b) :
    /\ i <= Len(a) + 1
    /\ SubSeq(a, 1, i - 1) = SubSeq(b, 1, i - 1)
    /\ i <= Len(a) => a[i] < b[i]

IsWildcard(name) == name = <<>>
IsParameter(name) == name # <<>> /\ Head(name) = Colon

\* Whether a node of this name takes this segment of a URL.
Serves(name, segment) ==
  IsWildcard(name) \/ IsParameter(name) \/ name = segment

Beginning(s, n) == SubSeq(s, 1, n)

\* The segments that parameters among these names take, in order.
Arguments(names, segments) ==
  LET taken == SelectSeq([i \in DOMAIN names |-> i],
                         LAMBDA i : IsParameter(names[i]))
  IN  [j \in DOMAIN taken |-> segments[taken[j]]]
=============================================================================
