SPECIFICATION Spec
CONSTANTS
  Threads = {t1, t2}
  Symbols = {s1, s2, s3}
  Vars = {v1, v2}
  Foreign = {f1}
  Targets = {n1, n2}
  Nil = Nil
  MaxEntries = 2
  MaxVersion = 3
SYMMETRY Symmetry
CHECK_DEADLOCK FALSE
INVARIANTS CanonicalUnlessReferred
PROPERTIES NoLostUpdate KeptUntilRemoved
