SPECIFICATION Spec
CONSTANTS
  Vars = {x, y}
  MaxObj = 8
  Half = 4
  MaxOps = 2
  MaxNum = 300
  Defects = FALSE
  Integers_ <- SomeIntegers
  Doubles_ <- SomeDoubles
  BigInts_ <- SomeBigInts
  Ratios_ <- SomeRatios
  Others_ <- SomeOthers
CHECK_DEADLOCK FALSE
INVARIANTS AnswersAreRight NumbersAreIntact StaticsAgree
