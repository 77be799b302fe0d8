SPECIFICATION Spec
CONSTANTS
  Char <- MCChar
  Comma <- MCComma
  Quote <- MCQuote
  Files <- MCFiles
  Spelling <- MCSpelling
  FieldOf <- MCFieldOf
  Field <- MCField
  Ids <- MCIds
  Timestamps <- MCTimestamps
  MaxLength = 4
INVARIANT QuotesSurviveRewriting
CHECK_DEADLOCK FALSE
