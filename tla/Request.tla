------------------------------ MODULE Request ------------------------------
(***************************************************************************)
(* The requests the parser is for, and the text they are sent as.  A       *)
(* character is one of the classes the parser tells apart: "A" stands for  *)
(* any upper-case letter, "a" for any character not listed.                *)
(*                                                                         *)
(* A request is a record of its method, uri, version, header fields (pairs *)
(* of a key and a value) and body, each a sequence of characters, with the *)
(* number of spaces to be sent where one or more are allowed.              *)
(***************************************************************************)
EXTENDS Naturals, Sequences, SequencesExt

Chars == {"A", "a", ":", "SP", "CR", "LF"}

CrLf == <<"CR", "LF">>
Spaces(n) == [i \in 1 .. n |-> "SP"]

Without(s, chars) == \A i \in DOMAIN s : s[i] \notin chars

FieldsText(m) ==
  FlattenSeq([i \in DOMAIN m.fields |->
    m.fields[i][1] \o <<":">> \o Spaces(m.spaces - 1) \o m.fields[i][2] \o CrLf])

Text(m) ==
  m.method \o Spaces(m.spaces) \o m.uri \o Spaces(m.spaces) \o m.version \o CrLf
    \o FieldsText(m) \o CrLf \o m.body

\* There is a field at least, no key and no value is empty, and no part holds
\* what would end it.
WellFormed(m) ==
  /\ {m.method, m.uri, m.version, m.body} \subseteq Seq(Chars)
  /\ m.fields \in Seq(Seq(Chars) \X Seq(Chars))
  /\ m.spaces \in Nat \ {0}
  /\ m.method # <<>> /\ m.method[1] = "A" /\ Without(m.method, {"SP"})
  /\ m.uri # <<>> /\ Without(m.uri, {"SP"})
  /\ m.version # <<>> /\ m.version[1] # "SP"
  /\ \A i \in 1 .. Len(m.version) - 1 : SubSeq(m.version, i, i + 1) # CrLf
  /\ m.fields # <<>>
  /\ \A i \in DOMAIN m.fields :
       LET key == m.fields[i][1]
           value == m.fields[i][2]
       IN  /\ key # <<>> /\ Without(key, {":", "CR"})
           /\ value # <<>> /\ value[1] # "SP" /\ Without(value, {"CR"})
=============================================================================
