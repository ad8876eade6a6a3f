CONSTANTS
  k1 = k1  k2 = k2  k3 = k3
  Keys = {k1, k2, k3}
  Vals = {v1, v2}
  None = None
  Hash <- MCDistinct
  MinCapacity = 4
  MaxCapacity = 4
  Requests = {2}
  ArrayBound = 3
SPECIFICATION Spec
INVARIANTS EntriesPartitioned
PROPERTIES FindAnswers ImplementsMap EveryCallReturns
