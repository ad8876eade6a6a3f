------------------------------- MODULE Crc32c -------------------------------
(***************************************************************************)
(* The hash functions of main/jimi/crc32c.h that are made of instructions  *)
(* of the processor.  Those are external: a checksum is represented by the *)
(* bytes fed to it (an instruction that takes a word feeds its bytes, the  *)
(* lowest first), a lane of SHA-1 by the blocks fed to it.  A build        *)
(* without the instructions gives 0 and is not modelled.                   *)
(***************************************************************************)
EXTENDS StringRef, SequencesExt

\* (faulty) A last word that is not full is forgotten.
full_words(s, k) == s.length \div k

WordCount(s, k) == (s.length + k - 1) \div k

\* Words of k bytes, the last one loaded whole and masked.
MaskedWords(s, k) ==
  FlattenSeq([w \in 1 .. WordCount(s, k) |-> LoadMasked(s, (w - 1) * k, k)])

crc32c_x86(s) == MaskedWords(s, 4)
crc32c_x64(s) == MaskedWords(s, 8)

\* Whole words, then one byte at a time: the byte at i, for each i from the
\* end of the words to the length, or up to the end of the string.
WholeWords(s, k) ==
  FlattenSeq([w \in 1 .. s.length \div k |-> Load(s, (w - 1) * k, k)])

\* (faulty) The tail starts at the number of words.
tail_at_words(s) ==
  LET i == s.length \div 8
  IN  WholeWords(s, 8) \o [j \in 1 .. s.length - i |-> Byte(s, i + j - 1)]

crc32c_hw_u64(s) ==
  LET i == (s.length \div 8) * 8
  IN  WholeWords(s, 8) \o [j \in 1 .. s.length - i |-> Byte(s, i + j - 1)]
crc32c_hw_u64_v2(s) ==
  LET src8 == Len(WholeWords(s, 8))
  IN  WholeWords(s, 8) \o Load(s, src8, s.length - src8)
crc32c_hw_u32(s) ==
  LET src8 == Len(WholeWords(s, 4))
  IN  WholeWords(s, 4) \o Load(s, src8, s.length - src8)

\* Blocks of 16 bytes are dealt to two lanes, the last one masked.
Lane(s, first) ==
  LET n == Cardinality({b \in 0 .. s.length : first + 32 * b < s.length})
  IN  [b \in 1 .. n |->
         LET i == first + 32 * (b - 1)
         IN  IF s.length - i <= 16 THEN LoadMasked(s, i, 16) ELSE Load(s, i, 16)]

sha1_msg2_x64(s) == <<Lane(s, 0), Lane(s, 16)>>
sha1_msg2(s) == sha1_msg2_x64(s)

\* Of the string, what is left of it is copied to a block of zeros and no
\* byte behind it is read.
Message(s, i) ==
  LET remain == s.length - i
  IN  IF remain <= 0 THEN [j \in 1 .. 16 |-> 0]
      ELSE IF remain < 16 THEN Load(s, i, remain) \o [j \in 1 .. 16 - remain |-> 0]
      ELSE Load(s, i, 16)

\* The state after blocks of four messages each.
sha1_x86(s) ==
  [b \in 1 .. WordCount(s, 64) |-> [m \in 1 .. 4 |-> Message(s, 64 * (b - 1) + 16 * (m - 1))]]
=============================================================================
