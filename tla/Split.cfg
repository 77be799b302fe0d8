SPECIFICATION FairSpec
CONSTANTS
  Size <- MCSize
  Sources <- MCSources
  ChunkSize = 4
  MayFail = FALSE
  MaxLines = 6
INVARIANTS TypeOK ChunksKeepOrder ChunksCoverBody ChunksStartWithHeader ChunksAreBounded
PROPERTY SplitEnds
CHECK_DEADLOCK FALSE
