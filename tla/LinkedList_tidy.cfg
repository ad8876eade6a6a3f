CONSTANTS
  Keys = {k1, k2}
  Vals = {v1}
  Nothing = Nothing
  ListCapacity = 2
  Sizes = {1, 3}
SPECIFICATION Spec
INVARIANTS WalksAgree NodesPartitioned HandlesAreLinked
PROPERTIES ImplementsList
CHECK_DEADLOCK FALSE
