CONSTANTS
  HashBits = 15
  AddressBits = 6
  Pieces <- MCPieces
  Lengths <- MCLengths
  WordSizes = {4, 8}
SPECIFICATION Spec
INVARIANTS EqualKeysHashEqually VariantsAgree EveryByteCounts EqualityIsExact OrderIsSound
