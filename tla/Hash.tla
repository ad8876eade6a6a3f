-------------------------------- MODULE Hash --------------------------------
(***************************************************************************)
(* The string hash functions of main/jimi/Hash.h.                          *)
(*                                                                         *)
(* Those that only multiply and add are computed, modulo 2^HashBits: the   *)
(* low bits of their 32-bit result depend on nothing else.  Those that mix *)
(* by shifts are represented by what they mix, in its order, with what     *)
(* tells the steps apart: where two of these agree so do the hash codes.   *)
(* Bytes are unsigned.                                                     *)
(***************************************************************************)
EXTENDS StringRef, SequencesExt, Powers

CONSTANT HashBits        \* 32 in the code

Mod == Power2[HashBits]

\* Offsets of the whole groups of k characters, and of the characters left.
Groups(s, k) == [g \in 1 .. s.length \div k |-> (g - 1) * k]
Left(s, k) == LET n == s.length % k IN [j \in 1 .. n |-> s.length - n + j - 1]

\* The hash code times the seed plus the next byte, for each byte; and the
\* same for four bytes, multiplied out.
Horner(hash, bytes, seed) ==
  FoldLeft(LAMBDA h, b : (h * seed + b) % Mod, hash, bytes)
Polynomial(hash, a, b, c, d, seed) ==
  LET seed_2 == (seed * seed) % Mod
      seed_3 == (seed_2 * seed) % Mod
      seed_4 == (seed_2 * seed_2) % Mod
  IN  (hash * seed_4 + a * seed_3 + b * seed_2 + c * seed + d) % Mod

FourAtATime(s, seed) ==
  FoldLeft(LAMBDA h, i : Polynomial(h, Byte(s, i), Byte(s, i + 1),
                                    Byte(s, i + 2), Byte(s, i + 3), seed),
           0, Groups(s, 4))

BKDRHash(s) ==
  FoldLeft(LAMBDA h, i : Horner(h, <<Byte(s, i)>>, 131),
           FourAtATime(s, 131), Left(s, 4))

\* The tail of one character takes src[1], the byte behind the string.
Times31Tail(s) ==
  LET i == s.length - (s.length % 4)
  IN  CASE s.length % 4 = 0 -> <<>>
        [] s.length % 4 = 1 -> <<Byte(s, i + 1)>>
        [] s.length % 4 = 2 -> <<Byte(s, i), Byte(s, i + 1)>>
        [] s.length % 4 = 3 -> <<Byte(s, i), Byte(s, i + 1), Byte(s, i + 2)>>

BKDRHash_31(s) == Horner(FourAtATime(s, 31), Times31Tail(s), 31)

\* Every value stored in the 64-bit union is one of 32 bits.
BKDRHash_31_u64(s) == Horner(FourAtATime(s, 31), Times31Tail(s), 31)

BKDRHash_31_std(s) ==
  FoldLeft(LAMBDA h, i : Horner(h, <<Byte(s, i)>>, 31), 0, Groups(s, 1))

Times31(s) == BKDRHash_31(s)
Times31_std(s) == BKDRHash_31_std(s)

DJBHash(s) ==
  FoldLeft(LAMBDA h, i : (h + h * 32 + Byte(s, i)) % Mod,
           5381 % Mod, Groups(s, 1))

\* The steps <<which of the two, byte>>: four written out, then a loop that
\* counts from zero again.
APHash(s) ==
  FlattenSeq([g \in 1 .. s.length \div 4 |->
                LET i == Groups(s, 4)[g]
                IN  << <<"even", Byte(s, i)>>, <<"odd", Byte(s, i + 1)>>,
                       <<"even", Byte(s, i + 2)>>, <<"odd", Byte(s, i + 3)>> >>])
    \o [j \in 1 .. s.length % 4 |->
          << IF (j - 1) % 2 = 0 THEN "even" ELSE "odd", Byte(s, Left(s, 4)[j]) >>]

\* The words xor-ed, with the shift of each.
OpenSSL_Hash(s) ==
  LET n == s.length \div 2
  IN  [i \in 1 .. n |-> << (i - 1) % 16, Load(s, Groups(s, 2)[i], 2) >>]
        \o [j \in 1 .. s.length % 2 |-> << n % 16, <<Byte(s, Left(s, 2)[j]), 0>> >>]

-----------------------------------------------------------------------------
(* The hashes "similar to murmur hash": a seed and the length, and then one *)
(* word after the other; the last is cut off at the end of the string.      *)
(* Little-endian, words of N bytes.                                         *)

Mixed(s, words) == [length |-> s.length, words |-> words]

Cut(word, n) == [j \in DOMAIN word |-> IF j <= n THEN word[j] ELSE 0]

\* The words that begin at these offsets, `word` being a function of them.
WordStarts(s, N) == { i \in 0 .. s.length - 1 : i % N = 0 }

WordsOf(s, N, word) ==
  [g \in 1 .. s.length \div N |-> word[Groups(s, N)[g]]]
    \o (IF s.length % N = 0 THEN <<>>
        ELSE << Cut(word[s.length - (s.length % N)], s.length % N) >>)

\* rocksdb::hashes::Hash adds up the characters left over (sign-extended)
\* and mixes once.
RocksHash(s) ==
  LET i == s.length - (s.length % 4)
      n == s.length % 4
  IN  Mixed(s, [g \in 1 .. s.length \div 4 |-> Load(s, Groups(s, 4)[g], 4)]
                 \o (IF n = 0 THEN <<>> ELSE << Load(s, i, n) >>))

\* A word read by two others that are aligned; what is put together of them
\* is not the word at `i` unless M is 0.
decode_value(s, i, N, M) ==
  IF M = 0 THEN Load(s, i, N)
  ELSE [k \in 1 .. N |-> IF k > M THEN Byte(s, i - 2 * M + k - 1)
                         ELSE Byte(s, i + N - M + k - 1)]

\* The bytes of the word in the opposite order (where char is unsigned).
decodeValue(s, i, N) == Reverse(Load(s, i, N))

PrimaryHash_value(s, N, M) ==
  Mixed(s, WordsOf(s, N, [i \in WordStarts(s, N) |-> decode_value(s, i, N, M)]))

primaryHash_aligned(s, N) ==
  Mixed(s, WordsOf(s, N, [i \in WordStarts(s, N) |-> Load(s, i, N)]))

primaryHash_unaligned(s, N, M) ==
  Mixed(s, WordsOf(s, N, [i \in WordStarts(s, N) |-> decode_value(s, i, N, M)]))

\* `x86`: whether the program is built for x86 or amd64.
primaryHash(s, N, x86) ==
  IF x86 THEN primaryHash_aligned(s, N)
  ELSE PrimaryHash_value(s, N, s.data.at % N)

primaryHash_new(s, N, x86) ==
  IF x86 \/ s.data.at % N = 0 THEN primaryHash_aligned(s, N)
  ELSE primaryHash_unaligned(s, N, s.data.at % N)

primaryHash_old(s, N, x86) ==
  IF x86 \/ s.data.at % N = 0 THEN primaryHash_aligned(s, N)
  ELSE Mixed(s, WordsOf(s, N, [i \in WordStarts(s, N) |-> decodeValue(s, i, N)]))
=============================================================================
