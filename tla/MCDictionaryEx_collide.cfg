CONSTANTS
  k1 = k1  k2 = k2  k3 = k3
  Keys = {k1, k2, k3}
  Vals = {v1}
  None = None
  Hash <- MCColliding
  MinCapacity = 2
  MaxCapacity = 4
  Requests = {2, 3}
  ArrayBound = 1
SPECIFICATION Spec
PROPERTY EveryCallReturns
