SPECIFICATION Spec
CONSTANTS
  Threads = {t1, t2, t3}
  Strings = {s1, s2}
  MaxKeyword = 5
SYMMETRY Symmetry
CHECK_DEADLOCK FALSE
INVARIANTS Interned KeywordInv
