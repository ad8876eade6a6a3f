CONSTANTS
  Keys = {0, 2, 1}
  Vals = {v1, v2}
  Failed = Failed
  Nothing = Nothing
  Capacity = 2
  DefaultTableCapacity = 2
  FirstLayerSearchStep = 1
  XorKey <- MCXorKey
  HeapSize = 3
  HashBits = 3
  RawHash <- MCRawHash
  MaxCapacity = 8
  GrowthBound = 8
SPECIFICATION AllSpec
SYMMETRY MCSymmetry
INVARIANTS
  TableMatchesList
  AnswersAgree MapOwnsNodes DictionaryMatchesList
PROPERTIES NeverRehashed ImplementsLRU
