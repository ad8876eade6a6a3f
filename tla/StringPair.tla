----------------------------- MODULE StringPair -----------------------------
(***************************************************************************)
(* Two StringRefs, and what hashing and comparing them must give, wherever *)
(* they point: two keys of a table, the one stored and the one asked for.  *)
(***************************************************************************)
EXTENDS HashHelper, StringUtils

CONSTANT WordSizes     \* sizes of hash_type: 4 or 8

ASSUME StringPairAssumption ==
  /\ HashBits \in Nat \ {0}
  /\ AddressBits \in Nat
  /\ WordSizes \subseteq {4, 8}

VARIABLES left, right     \* StringRefs

SameContent == Characters(left) = Characters(right)
OneLength == left.length = right.length

\* The object that holds a std::string: its pointer and its size.
Object(s) == set_data([Nullptr EXCEPT !.text = <<s.data.at, s.length>>], 2)

\* The tail of Time31 takes the byte behind the string.
ReadsBehind(f) ==
  /\ f = "Time31" /\ left.length % 4 = 1
  /\ Byte(left, left.length) # Byte(right, right.length)
HashesAgree(f) ==
  /\ getHashCode_StringRef(f, left) = getHashCode_StringRef(f, right)
  /\ f # "Default" => getHashCode_String(f, left, Object(left))
                        = getHashCode_String(f, right, Object(right))
  /\ left.length = 4 => getHashCode_int(f, left) = getHashCode_int(f, right)
Aligned(N) == left.data.at % N = 0 /\ right.data.at % N = 0

\* A key found again: two equal keys have the same hash code wherever they
\* lie.  Two functions are excepted: Time31 where one character is left over
\* after groups of four and the bytes behind differ, and HashFunc_Default of
\* a std::string, which hashes the object.  Off x86 the primary hashes need
\* the key at an aligned address.
EqualKeysHashEqually ==
  SameContent =>
    /\ \A f \in HashFuncs : \/ ReadsBehind(f)
                           \/ HashesAgree(f)
    /\ OpenSSL_Hash(left) = OpenSSL_Hash(right)
    /\ RocksHash(left) = RocksHash(right)
    /\ \A N \in WordSizes, x86 \in BOOLEAN :
         x86 \/ Aligned(N) =>
           /\ primaryHash(left, N, x86) = primaryHash(right, N, x86)
           /\ primaryHash_new(left, N, x86) = primaryHash_new(right, N, x86)
           /\ primaryHash_old(left, N, x86) = primaryHash_old(right, N, x86)

\* A hash function written out for speed computes what its plain form does,
\* one byte after the other: the unrolled loops and their tails, and the
\* checksums by words of 8 and 4 bytes.
VariantsAgree ==
  SameContent =>
    LET plain == Characters(right)
    IN  /\ BKDRHash(left) = Horner(0, plain, 131)
        /\ BKDRHash_31_std(left) = Horner(0, plain, 31)
        /\ left.length % 4 # 1 => BKDRHash_31(left) = Horner(0, plain, 31)
        /\ BKDRHash_31_u64(left) = BKDRHash_31(left)
        /\ DJBHash(left) = Horner(5381 % Mod, plain, 33)
        /\ APHash(left) = [i \in 1 .. left.length |->
                             << IF i % 2 = 1 THEN "even" ELSE "odd", plain[i] >>]
        /\ crc32c_hw_u64(left) = plain
        /\ crc32c_hw_u64_v2(left) = plain
        /\ crc32c_hw_u32(left) = plain
        /\ left.length % 8 = 0 => crc32c_x64(left) = plain /\ crc32c_x86(left) = plain

\* No character is left out: keys of one length that differ anywhere differ
\* in what is fed to each function, up to the last word, block and lane.
EveryByteCounts ==
  OneLength /\ ~SameContent =>
    /\ crc32c_x86(left) # crc32c_x86(right)
    /\ crc32c_x64(left) # crc32c_x64(right)
    /\ sha1_msg2(left) # sha1_msg2(right)
    /\ sha1_x86(left) # sha1_x86(right)
    /\ OpenSSL_Hash(left) # OpenSSL_Hash(right)
    /\ APHash(left) # APHash(right)
    /\ RocksHash(left) # RocksHash(right)
    /\ \A N \in WordSizes : primaryHash(left, N, TRUE) # primaryHash(right, N, TRUE)

\* Keys are compared exactly, although whole words are read: is_equals tells
\* strings apart by their characters only, as long as the two addresses have
\* a bit in common or one is null; operator == does for strings of one size.
EqualityIsExact ==
  \A mode \in Modes :
    BothSet(left, right) \/ left.data.at = 0 \/ right.data.at = 0 =>
      /\ is_equals(mode, left, right) <=> SameContent
      /\ OneLength => (RefEqual(mode, left, right) <=> SameContent)

\* The order of strings: decided by the first character that differs, for
\* every pair one of which does not begin with the other; Slice's functions
\* agree with each other, and its < and > with its order.
OrderIsSound ==
  LET d == difference_offset(left, right)
      differ == d < left.length /\ d < right.length
      order == SliceCompare(left, right)
  IN  /\ differ /\ BothSet(left, right) =>
           /\ compare(left, right) = Sign(Byte(left, d), Byte(right, d))
           /\ compare(right, left) = -compare(left, right)
      /\ differ => order = Sign(Byte(left, d), Byte(right, d))
      /\ order = 0 <=> SliceEqual(left, right)
      /\ SliceEqual(left, right) <=> SameContent
      /\ SliceCompare(right, left) = -order
      /\ SliceSmaller(left, right) => order = -1
      /\ differ /\ SliceBigger(left, right) => order = 1
      /\ starts_with(left, right) <=> d = right.length
      /\ ends_with(left, right) => left.length >= right.length
=============================================================================
