CONSTANTS
  MaxObj = 28
  RRB_BITS = 1
  HASHTABLE_THRESHOLD = 2
  Vars = {x, y}
  Sizes = {0, 1, 5}
  MaxSize = 6
  Texts <- MCTexts
  MaxText = 4
  MaxOps = 5
  MaxTextOps = 4
  MaxCallOps = 2
SYMMETRY VarSymmetry
SPECIFICATION Spec
CHECK_DEADLOCK FALSE
INVARIANTS CollectionsPersist AnswersAreRight CountsAreExact BlockIsCurrent
