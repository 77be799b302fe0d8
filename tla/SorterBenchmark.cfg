SPECIFICATION Spec
CONSTANTS
  Content <- MCContent
  Size <- MCSize
  Fields <- MCFields
  Blank = ""
  Named <- MCNamed
  Smaller <- MCSmaller
  Throws <- MCThrows
  NoColumns = NoColumns
  Earlier <- OnlyNone
  Batches <- MCBatches
  ChunkSize = 2
  MayFail = FALSE
  MaxBatch = 1
  Files = {"generated"}
INVARIANT BenchmarkDataIsSorted
CHECK_DEADLOCK FALSE
