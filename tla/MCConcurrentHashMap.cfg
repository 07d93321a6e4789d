SPECIFICATION Spec
CONSTANTS
  k1 = k1
  k2 = k2
  k3 = k3
  Threads = {t1, t2}
  Keys = {k1, k2, k3}
  Values = {v1, v2}
  Null = Null
  Size = 4
  resizingThreshold = 1
  Hash <- MCHash
SYMMETRY Symmetry
INVARIANTS AwaitedKeysCome
PROPERTIES ImplementsMap
