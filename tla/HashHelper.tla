----------------------------- MODULE HashHelper -----------------------------
(***************************************************************************)
(* jstd::hash_helper and jstd::hash (main/jimi/jstd/hash_helper.h): the    *)
(* hash function each HashFunc stands for, for keys that are StringRefs,   *)
(* std::strings, character arrays or the bytes of an object.               *)
(***************************************************************************)
EXTENDS Hash, Crc32c

HashFuncs == {"Default", "CRC32C", "Time31", "Time31Std", "SHA1_MSG2", "SHA1"}

\* Keys of a type not named below: the bytes of the object.
getHashCode(object) == Times31_std(object)

\* Keys of type jimi::StringRef.
getHashCode_StringRef(HashFunc, key) ==
  CASE HashFunc = "Default" -> Times31_std(key)
    [] HashFunc = "CRC32C" -> crc32c_x64(key)
    [] HashFunc = "Time31" -> Times31(key)
    [] HashFunc = "Time31Std" -> Times31_std(key)
    [] HashFunc = "SHA1_MSG2" -> sha1_msg2(key)
    [] HashFunc = "SHA1" -> sha1_x86(key)

\* std::string and pointers to characters: under HashFunc_Default they are of
\* a type not named.
getHashCode_String(HashFunc, key, object) ==
  CASE HashFunc = "Default" -> getHashCode(object)
    [] HashFunc = "CRC32C" -> crc32c_x64(key)
    [] HashFunc = "Time31" -> Times31(key)
    [] HashFunc = "Time31Std" -> Times31_std(key)
    [] HashFunc = "SHA1_MSG2" -> sha1_msg2(key)
    [] HashFunc = "SHA1" -> sha1_x86(key)

\* Keys of type int: the bytes of the number.
getHashCode_int(HashFunc, object) == getHashCode_StringRef(HashFunc, object)
=============================================================================
