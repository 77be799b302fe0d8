SPECIFICATION Spec
CONSTANTS
  Char <- MCChar
  Comma <- MCComma
  Quote <- MCQuote
  Files <- MCFiles
  Spelling <- MCSpelling
  FieldOf <- MCFieldOf
  Field <- MCField
  Ids <- MCIds
  Timestamps <- MCTimestamps
  MaxLength = 4
INVARIANTS TypeOK FieldsAreSeparated RowsSurviveRewriting ChunkOrderIsStrictWeak MergeComparesAsChunks MergeReadsSortedChunk
CHECK_DEADLOCK FALSE
