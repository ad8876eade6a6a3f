CONSTANTS
  k1 = k1  k2 = k2  k3 = k3
  Keys = {k1, k2, k3}
  Vals = {v1, v2}
  None = None
  Hash <- MCHash
  kDefaultInitialCapacity = 2
  kMaximumCapacity = 8
  Requests = {1, 3, 8}
  GrowthBound = 8
SPECIFICATION Spec
INVARIANTS LayoutSound GrownInTime
PROPERTIES ImplementsMap CallsTakeEffect
