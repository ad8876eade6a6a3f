---------------------------- MODULE StringUtils -----------------------------
(***************************************************************************)
(* jstd::StrUtils (main/jimi/jstd/string_utils.h), which compares strings  *)
(* by whole words, the operators of StringRef that call it, and            *)
(* TiStore::Slice (main/jimi/Slice.h), which calls memcmp.                 *)
(*                                                                         *)
(* The modes STRING_COMPARE_SSE42 and STRING_COMPARE_U64 are modelled; the *)
(* third calls strcmp.  _mm_cmpestri is external: it compares the first n  *)
(* of the 16 characters it is given.                                       *)
(***************************************************************************)
EXTENDS StringRef

CONSTANT AddressBits     \* the width of a pointer

Modes == {"SSE42", "U64"}

\* (faulty) The last characters, less than k, are not looked at.
whole_starts(n, k) == {b * k : b \in 0 .. (n \div k) - 1}

\* The offsets at which groups of k characters start.
Starts(n, k) == {b * k : b \in 0 .. (n - 1) \div k}

\* The comparison of the characters at i, cut off at the length n.
Matched(mode, s, t, i, n) ==
  LET len == IF n - i >= 16 THEN 16 ELSE n - i
  IN  IF mode = "SSE42" THEN Load(s, i, len) = Load(t, i, len)
      ELSE LoadMasked(set_data(s.data, n), i, 8)
             = LoadMasked(set_data(t.data, n), i, 8)

is_equals_unsafe(mode, s, t, n) ==
  \A i \in Starts(n, IF mode = "SSE42" THEN 16 ELSE 8) : Matched(mode, s, t, i, n)

\* Two pointers are taken to be set if they have a bit in common.
Bit(n, b) == (n \div 2 ^ b) % 2
BothSet(s, t) ==
  \E b \in 0 .. AddressBits - 1 : Bit(s.data.at, b) = 1 /\ Bit(t.data.at, b) = 1
NoneSet(s, t) == s.data.at = 0 /\ t.data.at = 0

is_equals_fast(mode, s, t, n) ==
  IF BothSet(s, t) THEN is_equals_unsafe(mode, s, t, n)
  ELSE IF ~NoneSet(s, t) THEN n = 0
  ELSE TRUE

is_equals(mode, s, t) ==
  s.length = t.length /\ is_equals_fast(mode, s, t, s.length)

Sign(a, b) == IF a > b THEN 1 ELSE IF a < b THEN -1 ELSE 0

\* (faulty) The characters that decide are counted from the end of the group.
compare_from_end(s, t) ==
  LET n == Min({s.length, t.length})
      differ == {j \in 0 .. n - 1 : Byte(s, j) # Byte(t, j)}
      at == IF differ = {} THEN ((n + 15) \div 16) * 16 ELSE 16 - (Min(differ) % 16)
  IN  Sign(Byte(s, at), Byte(t, at))

\* Where all common characters match, the pointers stand at the next group
\* of 16, and the characters there decide.
compare_unsafe(s, t) ==
  LET n == Min({s.length, t.length})
      failed == {i \in Starts(n, 16) : ~Matched("SSE42", s, t, i, n)}
      at == IF failed = {} THEN ((n + 15) \div 16) * 16
            ELSE Min({j \in Min(failed) .. n - 1 : Byte(s, j) # Byte(t, j)})
  IN  Sign(Byte(s, at), Byte(t, at))

compare(s, t) ==
  IF BothSet(s, t) THEN compare_unsafe(s, t)
  ELSE IF ~NoneSet(s, t)
  THEN IF s.data.at # 0 THEN (IF s.length # 0 THEN 1 ELSE 0)
       ELSE (IF t.length # 0 THEN -1 ELSE 0)
  ELSE 0

\* The operators ==, < and > of StringRef.
RefEqual(mode, s, t) == is_equals_fast(mode, s, t, s.length)
RefSmaller(s, t) == compare(s, t) = -1
RefBigger(s, t) == compare(s, t) = 1

-----------------------------------------------------------------------------
(* Slice *)

\* The sign of memcmp over n bytes from two offsets.
memcmp(x, i, y, j, n) ==
  LET differ == {d \in 0 .. n - 1 : Byte(x, i + d) # Byte(y, j + d)}
  IN  IF differ = {} THEN 0
      ELSE Sign(Byte(x, i + Min(differ)), Byte(y, j + Min(differ)))

SliceEqual(x, y) == x.length = y.length /\ memcmp(x, 0, y, 0, x.length) = 0
SliceSmaller(x, y) == x.length < y.length /\ memcmp(x, 0, y, 0, x.length) < 0
SliceBigger(x, y) == x.length > y.length /\ memcmp(x, 0, y, 0, x.length) > 0

SliceCompare(x, y) ==
  LET r == memcmp(x, 0, y, 0, Min({x.length, y.length}))
  IN  IF r = 0 THEN Sign(x.length, y.length) ELSE r

starts_with(x, y) == x.length >= y.length /\ memcmp(x, 0, y, 0, y.length) = 0
ends_with(x, y) ==
  x.length >= y.length /\ memcmp(x, x.length - y.length, y, 0, y.length) = 0

difference_offset(x, y) ==
  LET n == Min({x.length, y.length})
  IN  Min({i \in 0 .. n - 1 : Byte(x, i) # Byte(y, i)} \union {n})
=============================================================================
