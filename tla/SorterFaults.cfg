SPECIFICATION FairSpec
CONSTANTS
  Content <- MCContent
  Size <- MCSize
  Fields <- MCFields
  Blank = ""
  Named <- MCNamed
  Smaller <- MCSmaller
  Throws <- MCThrows
  NoColumns = NoColumns
  Earlier <- OnlyNone
  Batches <- MCFaultBatches
  ChunkSize = 2
  MayFail = TRUE
  MaxBatch = 2
  Files = {"single", "pair", "bad"}
INVARIANT OnlyResultIsLeft
PROPERTY ImplementsSortSpec
CHECK_DEADLOCK FALSE
