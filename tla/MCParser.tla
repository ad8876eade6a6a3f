------------------------------ MODULE MCParser ------------------------------
(***************************************************************************)
(* Inputs of Parser for TLC: a few requests of every shape, and what is    *)
(* left of some after one character is lost, changed or added or the rest  *)
(* is cut off; and every short ending of three beginnings.                 *)
(***************************************************************************)
EXTENDS Parser

A == <<"A">>
a == <<"a">>
Field == <<a, a>>
\* A value with separators in it, and a key with two characters.
LongField == <<<<"a", "A">>, <<"a", ":", "SP", "LF">>>>

Bodies == {<<>>, <<"CR", "LF">>, <<"a", ":", "a", "CR", "LF", "CR", "LF">>}
FieldLists ==
  {<<Field>>, <<LongField>>, <<Field, LongField>>, <<LongField, Field>>,
   <<Field, Field, Field>>}

MCRequests ==
  [method : {A, <<"A", "a">>}, uri : {a, <<":", "LF">>},
   version : {<<"A", "a">>, <<"A", "CR", "SP">>}, fields : FieldLists,
   body : Bodies, spaces : {1, 3}]

Sample == {m \in MCRequests : m.method = A /\ m.uri = a /\ m.spaces = 1
                              /\ Len(m.fields) <= 2 /\ m.body # <<"CR", "LF">>}

Cut(t) == {SubSeq(t, 1, n) : n \in 0 .. Len(t)}
Lost(t) == {RemoveAt(t, i) : i \in DOMAIN t}
Changed(t) == {[t EXCEPT ![i] = c] : i \in DOMAIN t, c \in Chars}
Added(t) == {InsertAt(t, i, c) : i \in DOMAIN t, c \in Chars}

Endings(n) == UNION {[1 .. i -> Chars] : i \in 0 .. n}
Line == Text([method |-> A, uri |-> a, version |-> <<"A", "a">>, fields |-> <<>>,
              body |-> <<>>, spaces |-> 1])
Beginnings == {<<>>, SubSeq(Line, 1, Len(Line) - 2), SubSeq(Line, 1, Len(Line) - 2) \o <<"a", ":", "a">>}

MCNoise ==
  UNION {Cut(Text(m)) \cup Lost(Text(m)) \cup Changed(Text(m)) \cup Added(Text(m)) :
           m \in Sample}
  \cup {b \o e : b \in Beginnings, e \in Endings(5)}
=============================================================================
