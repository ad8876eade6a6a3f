------------------------------- MODULE Router -------------------------------
(***************************************************************************)
(* HttpRouter (test/http_parser_test/HttpRouter.h), and HttpRouter2, which *)
(* differs in the looks of two functions.                                  *)
(*                                                                         *)
(* A trie of the routes' segments is compiled into one string after each   *)
(* add, and URLs are looked up in that string alone, by offsets: a header  *)
(* gives the length of a node with all below it, the length of its name    *)
(* and its handler, the name follows, then the nodes below, one after the  *)
(* other.  Here the string is a sequence of numbers and a header has three *)
(* of them, of two bytes each in the code; the characters of a name count  *)
(* one each.                                                               *)
(***************************************************************************)
EXTENDS Routes

CONSTANT LengthRange     \* 2^16, the range of a length in a header

ASSUME RouterAssumption == LengthRange \in Nat \ {0}

VARIABLES
  tree,       \* tree_root_: the handler of each node, the root being <<>>
  compiled,   \* compiled_tree_
  handlers,   \* handlers_, each by the pattern it was added with
  params,     \* params_
  called      \* the last URL, the handler called for it (-1: none), its args

vars == <<tree, compiled, handlers, params, called>>

kHeaderLen == 3
RootName == <<71, 69, 84>>

NameOf(node) == IF node = <<>> THEN RootName ELSE Last(node)

Children(t, node) == { n \in DOMAIN t : n # <<>> /\ Front(n) = node }

\* (faulty) The handler of the last route that passes a node.
OverwrittenChild(t, route, handler) ==
  LET nodes == { Beginning(route, n) : n \in 1 .. Len(route) }
  IN  [n \in DOMAIN t \cup nodes |-> IF n \in nodes THEN handler ELSE t[n]]

\* Nodes that are there already keep their handlers.
add_child(t, route, handler) ==
  LET nodes == { Beginning(route, n) : n \in 1 .. Len(route) }
  IN  [n \in DOMAIN t \cup nodes |-> IF n \in DOMAIN t THEN t[n] ELSE handler]

\* (faulty) Nodes of one parent are appended in the order of the map.
AppendedTree(t) ==
  LET text[node \in DOMAIN t] ==
        LET below == SetToSortSeq(Children(t, node),
                                  LAMBDA m, n : Before(Last(m), Last(n)))
            texts == [i \in DOMAIN below |-> text[below[i]]]
            sum == FoldLeft(LAMBDA n, s : n + s[1],
                            kHeaderLen + Len(NameOf(node)), texts)
        IN  <<sum % LengthRange, Len(NameOf(node)) % LengthRange, t[node]>>
              \o NameOf(node) \o FlattenSeq(texts)
  IN  text[<<>>]

\* Each node is put before all that is compiled, those below it first: the
\* last of them in the order of the map comes first.
compile_tree(t) ==
  LET text[node \in DOMAIN t] ==
        LET below == SetToSortSeq(Children(t, node),
                                  LAMBDA m, n : Before(Last(m), Last(n)))
            texts == [i \in DOMAIN below |-> text[below[i]]]
            sum == FoldLeft(LAMBDA n, s : n + s[1],
                            kHeaderLen + Len(NameOf(node)), texts)
        IN  <<sum % LengthRange, Len(NameOf(node)) % LengthRange, t[node]>>
              \o NameOf(node)
              \o FoldLeft(LAMBDA after, s : s \o after, <<>>, texts)
  IN  text[<<>>]

Init ==
  /\ tree = (<<>> :> -1)
  /\ compiled = <<>>
  /\ handlers = <<>>
  /\ params = <<>>
  /\ called = [url |-> <<>>, handler |-> -1, args |-> <<>>]

-----------------------------------------------------------------------------
(* Looking up, by positions in the compiled string.                        *)

NoNode == 0

length(c) == compiled[c]
nameLength(c) == compiled[c + 1]
handlerIndex(c) == compiled[c + 2]
Name(c) == SubSeq(compiled, c + kHeaderLen, c + kHeaderLen + nameLength(c) - 1)

TakesArgument(c) == nameLength(c) # 0 /\ compiled[c + kHeaderLen] = Colon

Accepts(c, name) ==
  \/ nameLength(c) = 0
  \/ TakesArgument(c)
  \/ nameLength(c) = Len(name) /\ Name(c) = name

\* The first node below the parent that accepts the name.
find_node(parent, name) ==
  LET stop == parent + length(parent)
      from[c \in 1 .. Len(compiled) + 1] ==
        IF c >= stop THEN NoNode
        ELSE IF Accepts(c, name) THEN c ELSE from[c + length(c)]
  IN  from[parent + kHeaderLen + nameLength(parent)]

\* The node of a URL, and params_ afterwards.
lookup(url) ==
  FoldLeft(LAMBDA at, name :
             IF at.node = NoNode THEN at
             ELSE LET next == find_node(at.node, name)
                  IN  [node |-> next,
                       params |-> IF next # NoNode /\ TakesArgument(next)
                                  THEN Append(at.params, name)
                                  ELSE at.params],
           [node |-> 1, params |-> params], Asked[url])

HandlerFor(url) ==
  LET node == lookup(url).node
  IN  IF node = NoNode THEN -1 ELSE handlerIndex(node)

-----------------------------------------------------------------------------
(* Actions.                                                                *)

add(pattern) ==
  /\ tree' = add_child(tree, RouteOf[pattern], Len(handlers))
  /\ handlers' = Append(handlers, pattern)
  /\ compiled' = compile_tree(tree')
  /\ UNCHANGED <<params, called>>

\* Callers add no more than the lengths of the headers can count.
Fits == 0 < Len(compiled) /\ Len(compiled) < LengthRange

\* (faulty) The arguments of a URL without a handler stay.
ForgetfulRoute(url) ==
  /\ Fits
  /\ called' = IF HandlerFor(url) # -1
               THEN [url |-> url, handler |-> HandlerFor(url),
                     args |-> lookup(url).params]
               ELSE [url |-> url, handler |-> -1, args |-> <<>>]
  /\ params' = IF HandlerFor(url) # -1 THEN <<>> ELSE lookup(url).params
  /\ UNCHANGED <<tree, compiled, handlers>>

route(url) ==
  /\ Fits
  /\ called' = IF HandlerFor(url) # -1
               THEN [url |-> url, handler |-> HandlerFor(url),
                     args |-> lookup(url).params]
               ELSE [url |-> url, handler |-> -1, args |-> <<>>]
  /\ params' = <<>>
  /\ UNCHANGED <<tree, compiled, handlers>>

Next ==
  \/ \E p \in Patterns : Len(handlers) < MaxRoutes /\ add(p)
  \/ \E u \in Urls : route(u)

Spec == Init /\ [][Next]_vars

-----------------------------------------------------------------------------
(* Properties.                                                             *)

\* A handler is called for URLs that its route begins with, segment for
\* segment, and gets exactly what the parameters on that way stand for:
\* nothing is left over from URLs routed before, or from choices that led
\* nowhere (find_node, route).
AnsweredByItsRoute ==
  called.handler # -1 =>
    LET asked == Asked[called.url]
        route_ == RouteOf[handlers[called.handler + 1]]
        way == Beginning(route_, Len(asked))
    IN  /\ Len(asked) <= Len(route_)
        /\ \A i \in DOMAIN asked : Serves(way[i], asked[i])
        /\ called.args = Arguments(way, asked)

\* Adding a route changes the answers only of URLs that pass the first node
\* it brought: the compiled string is laid out anew, and all other URLs find
\* in it what they found before (add, compile_tree).
AddIsLocal ==
  [][ handlers' # handlers /\ Fits /\ Fits' =>
        \A u \in Urls :
          HandlerFor(u) # HandlerFor(u)' =>
            LET asked == Asked[u]
            IN  \E n \in DOMAIN asked :
                  LET route_ == RouteOf[Last(handlers')]
                      node == Beginning(route_, n)
                  IN  /\ Len(route_) >= n
                      /\ node \in DOMAIN tree' \ DOMAIN tree
                      /\ \A i \in 1 .. n : Serves(node[i], asked[i]) ]_vars

\* The answers are those that the list of routes alone determines, however
\* trie and string are laid out (lookup).
Abstract == INSTANCE RouterSpec WITH routes <- handlers
ImplementsRouter == Abstract!Spec
=============================================================================
