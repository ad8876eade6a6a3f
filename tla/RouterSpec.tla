----------------------------- MODULE RouterSpec -----------------------------
(***************************************************************************)
(* What a router promises, without a trie: the answer to a URL is given by *)
(* the list of routes alone.                                               *)
(*                                                                         *)
(* A URL is served segment by segment.  Of the names that continue the way *)
(* so far in some route and that serve the next segment, the last in       *)
(* alphabetical order is taken, and the choice is never taken back: names  *)
(* that begin with a letter come before parameters, parameters before      *)
(* names that begin with a digit, and wildcards come last.  The answer is  *)
(* that of the oldest route that begins with the way, be it longer or not. *)
(***************************************************************************)
EXTENDS Routes

VARIABLES
  routes,    \* the patterns of the routes, the oldest first
  called     \* the last URL, the route whose handler was called, its arguments

vars == <<routes, called>>

Missed(url) == [url |-> url, handler |-> -1, args |-> <<>>]

Init ==
  /\ routes = <<>>
  /\ called = Missed(<<>>)

Known == { RouteOf[routes[i]] : i \in DOMAIN routes }

\* The names that continue a way and serve a segment.
Takers(way, segment) ==
  LET n == Len(way)
  IN  { name \in { r[n + 1] : r \in { r \in Known : Len(r) > n
                                          /\ Beginning(r, n) = way } } :
          Serves(name, segment) }

\* The way of a URL, as far as the routes lead.
WayOf(segments) ==
  LET way[n \in 0 .. Len(segments)] ==
        IF n = 0 THEN <<>>
        ELSE LET takers == Takers(way[n - 1], segments[n])
             IN  IF Len(way[n - 1]) < n - 1 \/ takers = {}
                 THEN way[n - 1]
                 ELSE Append(way[n - 1],
                             CHOOSE best \in takers :
                               \A other \in takers :
                                 other = best \/ Before(other, best))
  IN  way[Len(segments)]

Answer(url) ==
  LET asked == Asked[url]
      way == WayOf(asked)
  IN  IF Len(way) < Len(asked)
      THEN Missed(url)
      ELSE [url |-> url,
            handler |-> (CHOOSE i \in DOMAIN routes :
                           /\ IsPrefix(way, RouteOf[routes[i]])
                           /\ \A j \in 1 .. i - 1 :
                                ~IsPrefix(way, RouteOf[routes[j]])) - 1,
            args |-> Arguments(way, asked)]

Add(pattern) ==
  /\ routes' = Append(routes, pattern)
  /\ UNCHANGED called

Route(url) ==
  /\ called' = Answer(url)
  /\ UNCHANGED routes

Next == (\E p \in Patterns : Add(p)) \/ (\E u \in Urls : Route(u))

Spec == Init /\ [][Next]_vars
=============================================================================
