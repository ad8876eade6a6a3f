CONSTANTS
  Keys = {0, 2, 4, 1, 3}
  Values = {v1, v2}
  NoValue = NoValue
  TableCapacity = 2
  FirstLayerSearchStep = 2
  XorKey <- MCXorKey
SPECIFICATION Spec
INVARIANTS EveryKeyFindable SizeIsOccupied InsertFindsRoom
PROPERTIES StableSlots ImplementsMap
SYMMETRY MCSymmetry
