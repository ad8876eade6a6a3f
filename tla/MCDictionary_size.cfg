CONSTANTS
  k1 = k1  k2 = k2  k3 = k3  k4 = k4
  Keys = {k1, k2, k4}
  Vals = {v1}
  None = None
  HashBits = 2
  RawHash <- MCRawHash
  MinCapacity = 1
  MaxCapacity = 4
  Requests = {0, 1, 2, 4}
  AllocMayFail = FALSE
  GrowthBound = 4
SPECIFICATION Spec
INVARIANT RehashCopiesStored
CHECK_DEADLOCK FALSE
