SPECIFICATION FairSpec
CONSTANTS
  Id = {"7", "8"}
  Long = {0, 1, 2, 3, 12, 13}
  NaN = NaN
  TooLong <- MCTooLong
  Modulus = 16
  Minutes = 2
  MaxRows = 4
  SameNumber = {}
  Field = {}
  Inputs <- GroupedFiles
INVARIANTS TypeOK KeptRowsAreSpaced DroppedRowsAreCovered
PROPERTY ReadableFilesFinish
CHECK_DEADLOCK FALSE
