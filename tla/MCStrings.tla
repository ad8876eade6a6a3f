----------------------------- MODULE MCStrings ------------------------------
(***************************************************************************)
(* Values of the constants of Strings for TLC: copies of one text, as a    *)
(* literal or within a buffer, at aligned addresses and others, and texts  *)
(* that differ from it in one byte: in the first, around the ends of words *)
(* of 4, 8 and 16 bytes and of blocks of 16, 32 and 64.                    *)
(***************************************************************************)
EXTENDS Strings

\* Bytes 101, 102, ...
Ruler(n) == [i \in 1 .. n |-> 100 + i]

Piece(text, before, term, behind, at) ==
  [text |-> text, before |-> before, term |-> term, behind |-> behind, at |-> at]

MCPieces ==
  { Piece(Ruler(66), 7, 0, 9, 8),
    Piece(Ruler(66), 1, 250, 0, 27),
    Piece(<<101, 102, 103, 0>> , 3, 0, 5, 16),
    Piece([Ruler(66) EXCEPT ![1] = 200], 0, 3, 4, 11),
    Piece([Ruler(66) EXCEPT ![5] = 0], 0, 0, 255, 24),
    Piece([Ruler(66) EXCEPT ![8] = 250], 5, 0, 0, 8),
    Piece([Ruler(66) EXCEPT ![17] = 1], 5, 6, 0, 40),
    Piece([Ruler(66) EXCEPT ![32] = 0], 5, 1, 0, 9),
    Piece([Ruler(66) EXCEPT ![65] = 250], 5, 0, 0, 12) }

MCLengths == 0 .. 18 \union 31 .. 34 \union 47 .. 49 \union 63 .. 66
=============================================================================
