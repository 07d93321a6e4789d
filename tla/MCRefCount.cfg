SPECIFICATION CoveredSpec
CONSTANTS
  Threads = {t1, t2}
  Objects = {o1, o2}
  Shallow = {o1}
  None = None
  MaxRefs = 1
  Slots = {s1, s2}
SYMMETRY Symmetry
CHECK_DEADLOCK FALSE
INVARIANTS NoDangling CountsAreExact LocalMeansExclusive
PROPERTIES InPlaceUnseen
