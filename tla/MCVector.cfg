CONSTANTS
  MaxObj = 30
  RRB_BITS = 1
  Vars = {x, y}
  MaxCount = 11
  Sizes = {0, 2, 5, 10}
  MaxOps = 4
  ConjValue <- MCConjValue
  AssocValue <- MCAssocValue
  Metas <- MCMetas
SYMMETRY VarSymmetry
SPECIFICATION Spec
CHECK_DEADLOCK FALSE
INVARIANTS CallsAreRight CountsCover SmallVectorsPersist
PROPERTIES TransientIsolated
