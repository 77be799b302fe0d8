SPECIFICATION FairSpec
CONSTANTS
  Line <- MCLine
  Smaller <- MCSmaller
  Inputs <- MCInputs
  MayFail = TRUE
  MaxFiles = 3
  MaxRows = 2
INVARIANTS TypeOK HeapHoldsFronts OutputIsLowerSet NothingLostOrInvented
PROPERTY Terminates
CHECK_DEADLOCK FALSE
