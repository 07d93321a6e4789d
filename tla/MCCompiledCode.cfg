CONSTANTS
  Names <- MCNames
  Functions <- MCFunctions
  MaxObj = 26
SPECIFICATION Spec
CHECK_DEADLOCK FALSE
INVARIANTS NoUseAfterFree ReturnsBalanced UnwindsBalanced TestsDecide
