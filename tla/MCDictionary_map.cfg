CONSTANTS
  k1 = k1  k2 = k2  k3 = k3  k4 = k4
  Keys = {k1, k2, k3, k4}
  Vals = {v1, v2}
  None = None
  HashBits = 3
  RawHash <- MCRawHash
  MinCapacity = 1
  MaxCapacity = 8
  Requests = {0, 1, 2, 3, 5}
  AllocMayFail = FALSE
  GrowthBound = 8
SPECIFICATION TidySpec
INVARIANT NoFault
PROPERTIES StableEntries GrowsOnlyWhenFull ImplementsMap
