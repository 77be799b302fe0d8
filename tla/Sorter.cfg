SPECIFICATION FairSpec
CONSTANTS
  Content <- MCContent
  Size <- MCSize
  Fields <- MCFields
  Blank = ""
  Named <- MCNamed
  Smaller <- MCSmaller
  Throws <- MCThrows
  NoColumns = NoColumns
  Earlier <- MCEarlier
  Batches <- MCBatches
  ChunkSize = 2
  MayFail = FALSE
  MaxBatch = 2
  Files = {"plain", "twins", "headless", "empty", "blank", "swapped", "wide", "shifted", "overlong", "gap"}
INVARIANTS TypeOK MergeInputsAreSettled TasksAreJoined OnlyResultIsLeft FilesStartClean
PROPERTIES ImplementsSortSpec SortReturns
CHECK_DEADLOCK FALSE
