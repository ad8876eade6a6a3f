------------------------------ MODULE StringRef -----------------------------
(***************************************************************************)
(* jimi::BasicStringRef (main/jimi/StringRef.h): a pointer and a length,   *)
(* and what a function sees that reads memory through them.                *)
(*                                                                         *)
(* A piece of memory is [text, before, term, behind, at]: the bytes of     *)
(* interest, the byte next to them (the terminator of a C string, or any   *)
(* other), one value for all bytes before and one for all bytes behind,    *)
(* and the address of the text, 0 for a null pointer.  Functions that read *)
(* whole words see more of it than the string.                             *)
(***************************************************************************)
EXTENDS Integers, Sequences, FiniteSetsExt

Nullptr == [text |-> <<>>, before |-> 0, term |-> 0, behind |-> 0, at |-> 0]

\* The byte at data() + i.
Byte(s, i) ==
  LET m == s.data
      n == Len(m.text)
  IN  IF i < 0 THEN m.before
      ELSE IF i < n THEN m.text[i + 1]
      ELSE IF i = n THEN m.term ELSE m.behind

\* The n bytes from data() + i on, and those of them that belong to the
\* string, the others cleared.
Load(s, i, n) == [j \in 1 .. n |-> Byte(s, i + j - 1)]
LoadMasked(s, i, n) ==
  [j \in 1 .. n |-> IF i + j <= s.length THEN Byte(s, i + j - 1) ELSE 0]

Characters(s) == Load(s, 0, s.length)

set_data(m, n) == [data |-> m, length |-> n]
reset == set_data(Nullptr, 0)

\* strlen needs a zero to end at.
Terminated(m) == m.at # 0 /\ 0 \in {m.text[i] : i \in DOMAIN m.text}
                                   \union {m.term, m.behind}
strlen(m) == Min({i \in 0 .. Len(m.text) + 1 : Byte(set_data(m, 0), i) = 0})
=============================================================================
