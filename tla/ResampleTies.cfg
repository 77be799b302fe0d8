SPECIFICATION Spec
CONSTANTS
  Id = {"7", "07"}
  Long = {0, 1, 2, 3, 4, 5}
  NaN = NaN
  TooLong <- MCTooLong
  Modulus = 16
  Minutes = 2
  MaxRows = 4
  SameNumber = {"7", "07"}
  Field = {}
  Inputs <- SortedFiles
INVARIANT NewIdIsNew
CHECK_DEADLOCK FALSE
