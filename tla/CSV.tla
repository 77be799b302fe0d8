-------------------------------- MODULE CSV --------------------------------
(***************************************************************************)
(* The way of one chunk through the class CSV: its lines are parsed, its   *)
(* rows sorted and written again with every field in quotes, and the       *)
(* merge, for which Compare::operator() parses line by line what was       *)
(* written, reads it a second time.                                        *)
(*                                                                         *)
(* A file is a sequence of lines and a line a sequence of characters.      *)
(* Parsing takes one step per character, with the three states of CSVState.*)
(* A row maps the names of its columns to fields, as the map Row does.     *)
(*                                                                         *)
(* convert_to_row indexes the columns of the header past their end for a   *)
(* row with more fields than these.  Either the process dies of it, or the *)
(* surplus lands under a name that nobody asks for and the model drops it. *)
(***************************************************************************)
EXTENDS RowOrder, FiniteSets

CONSTANTS
  Char,
  Comma,
  Quote,
  Files,       \* the files load may be given
  Spelling,    \* Spelling[c]: the column c of COLUMNS_TO_SORT as it is written
  FieldOf(_)   \* what the comparison sees of a field

ASSUME CSVAssumption ==
  /\ {Comma, Quote} \subseteq Char
  /\ Comma # Quote
  /\ Files \subseteq Seq(Seq(Char))

VARIABLES
  text,    \* the lines of the file being read or written
  line,    \* the number of the line being parsed or written
  at,      \* the characters of it that were parsed, or the fields that were written
  state,   \* CSVState
  fields,
  header,  \* m_header
  table,   \* m_table; in the merge the rows it compares
  loaded,  \* history: the rows as they were sorted
  pc

vars == <<text, line, at, state, fields, header, table, loaded, pc>>

AsRow(r) ==
  [c \in {x \in {"id", "timestamp"} : Spelling[x] \in DOMAIN r} |-> FieldOf(r[Spelling[c]])]

Smaller(r, q) == CSVSmaller(AsRow(r), AsRow(q))

Rows(t) == {t[k] : k \in DOMAIN t}

\* The rows that have all the columns that are sorted by.
Complete(t) == \A r \in Rows(t) : DOMAIN AsRow(r) = {"id", "timestamp"}

Reading == pc \in {"load", "merge"} /\ line <= Len(text)
AtEndOfLine == Reading /\ at = Len(text[line])

Init ==
  /\ text \in Files
  /\ line = 1
  /\ at = 0
  /\ state = "UnquotedField"
  /\ fields = <<<<>>>>
  /\ header = <<>>
  /\ table = <<>>
  /\ loaded = <<>>
  /\ pc = "load"

----------------------------------------------------------------------------
(* read_row: the transitions of the parser on a character. *)

Put(c) == fields' = [fields EXCEPT ![Len(fields)] = Append(@, c)]

EndField(c) ==
  /\ c = Comma
  /\ state # "QuotedField"
  /\ state' = "UnquotedField"
  /\ fields' = Append(fields, <<>>)

OpenQuote(c) ==
  /\ c = Quote
  /\ state = "UnquotedField"
  /\ state' = "QuotedField"
  /\ UNCHANGED fields

CloseQuote(c) ==
  /\ c = Quote
  /\ state = "QuotedField"
  /\ state' = "QuotedQuote"
  /\ UNCHANGED fields

\* Variant: after a doubled quote the field is no longer quoted.
DoubledQuoteEnds(c) ==
  /\ c = Quote
  /\ state = "QuotedQuote"
  /\ state' = "UnquotedField"
  /\ Put(c)

\* "" -> "
DoubledQuote(c) ==
  /\ c = Quote
  /\ state = "QuotedQuote"
  /\ state' = "QuotedField"
  /\ Put(c)

Plain(c) ==
  /\ \/ state = "UnquotedField" /\ c \notin {Comma, Quote}
     \/ state = "QuotedField" /\ c # Quote
  /\ Put(c)
  /\ UNCHANGED state

\* The character after a closing quote is dropped.
LeaveQuote(c) ==
  /\ c \notin {Comma, Quote}
  /\ state = "QuotedQuote"
  /\ state' = "UnquotedField"
  /\ UNCHANGED fields

ReadChar ==
  /\ Reading
  /\ at < Len(text[line])
  /\ LET c == text[line][at + 1] IN
       \/ EndField(c) \/ OpenQuote(c) \/ CloseQuote(c)
       \/ DoubledQuote(c) \/ Plain(c) \/ LeaveQuote(c)
  /\ at' = at + 1
  /\ UNCHANGED <<text, line, header, table, loaded, pc>>

----------------------------------------------------------------------------
(* read_csv, sort_in_memory_and_write, and the merge's convert_to_row. *)

\* Variant: the next line is begun where the last one ended.
StartLineLate(n) ==
  /\ line' = n
  /\ UNCHANGED <<at, state, fields>>

\* The parser starts over on line n.
StartLine(n) ==
  /\ line' = n
  /\ at' = 0
  /\ state' = "UnquotedField"
  /\ fields' = <<<<>>>>

\* Of two columns with one name the last counts.
RowOf(columns, fs) ==
  LET named == {i \in DOMAIN columns : i <= Len(fs)} IN
  [c \in {columns[i] : i \in named} |->
     fs[CHOOSE i \in named : columns[i] = c /\ \A j \in named : columns[j] = c => j <= i]]

TakeHeader ==
  /\ AtEndOfLine
  /\ pc = "load"
  /\ line = 1
  /\ header' = fields
  /\ StartLine(2)
  /\ UNCHANGED <<text, table, loaded, pc>>

TakeRow ==
  /\ AtEndOfLine
  /\ line > 1
  /\ table' = Append(table, RowOf(header, fields))
  /\ StartLine(line + 1)
  /\ UNCHANGED <<text, header, loaded, pc>>

RowTooLong ==
  /\ AtEndOfLine
  /\ line > 1
  /\ Len(fields) > Len(header)
  /\ pc' = "killed"
  /\ UNCHANGED <<text, line, at, state, fields, header, table, loaded>>

Times(r, t) == Cardinality({k \in DOMAIN t : t[k] = r})

\* The orders the rows can be in.
Orders ==
  {t \in [DOMAIN table -> Rows(table)] : \A r \in Rows(table) : Times(r, t) = Times(r, table)}

\* Variant: the comparison is turned around.
SortedBackwards ==
  {t \in Orders : \A i, j \in DOMAIN t : i < j => ~Smaller(t[i], t[j])}

\* The orders std::sort may leave the table in: any that the comparison allows, and any
\* at all if the comparison is no strict weak order on these rows.
Sorted ==
  {t \in Orders :
     StrictWeakOrderOn(Rows(table), Smaller) =>
       \A i, j \in DOMAIN t : i < j => ~Smaller(t[j], t[i])}

\* The rows are sorted, and the file is opened to be written.
SortTable ==
  /\ pc = "load"
  /\ line > Len(text)
  /\ table' \in Sorted
  /\ loaded' = table'
  /\ text' = <<<<>>>>
  /\ line' = 1
  /\ at' = 0
  /\ pc' = "write"
  /\ UNCHANGED <<state, fields, header>>

\* Variant: the field is written as it is.
Bare(f) == f

Quoted(f) == <<Quote>> \o f \o <<Quote>>

Sep == IF at = 0 THEN <<>> ELSE <<Comma>>

Write(part) ==
  /\ text' = [text EXCEPT ![line] = @ \o Sep \o part]
  /\ at' = at + 1
  /\ UNCHANGED <<line, state, fields, header, table, loaded, pc>>

Writing == pc = "write" /\ at < Len(header)

\* A name is written without quotes: nobody parses the header of a sorted chunk.
WriteName ==
  /\ Writing
  /\ line = 1
  /\ Write(header[at + 1])

HasField == header[at + 1] \in DOMAIN table[line - 1]

WriteField ==
  /\ Writing
  /\ line > 1
  /\ HasField
  /\ Write(Quoted(table[line - 1][header[at + 1]]))

\* at() finds no field of the column in a row that is too short.
WriteThrows ==
  /\ Writing
  /\ line > 1
  /\ ~HasField
  /\ pc' = "threw"
  /\ UNCHANGED <<text, line, at, state, fields, header, table, loaded>>

WriteNextLine ==
  /\ pc = "write"
  /\ at = Len(header)
  /\ line <= Len(table)
  /\ text' = Append(text, <<>>)
  /\ line' = line + 1
  /\ at' = 0
  /\ UNCHANGED <<state, fields, header, table, loaded, pc>>

\* The file is closed; the merge skips its header and starts on its first row.
CloseFile ==
  /\ pc = "write"
  /\ at = Len(header)
  /\ line > Len(table)
  /\ table' = <<>>
  /\ pc' = "merge"
  /\ StartLine(2)
  /\ UNCHANGED <<text, header, loaded>>

Next ==
  \/ ReadChar \/ TakeHeader \/ TakeRow \/ RowTooLong
  \/ SortTable \/ WriteName \/ WriteField \/ WriteThrows \/ WriteNextLine \/ CloseFile

Spec == Init /\ [][Next]_vars

----------------------------------------------------------------------------
(* What the sort and the merge rely on. *)

CSVState == {"UnquotedField", "QuotedField", "QuotedQuote"}

TypesButRows ==
  /\ text \in Seq(Seq(Char))
  /\ line \in 1 .. Len(text) + 1
  /\ at \in Nat
  /\ Reading => at <= Len(text[line])
  /\ pc = "write" => at <= Len(header) /\ line = Len(text) /\ line <= Len(table) + 1
  /\ state \in CSVState
  /\ fields \in Seq(Seq(Char)) \ {<<>>}
  /\ header \in Seq(Seq(Char))
  /\ pc = "load" /\ line = 1 => table = <<>>
  /\ pc \in {"load", "write", "merge", "threw", "killed"}

\* The variables hold values of their types: the parser is inside its line, the writer
\* inside the table, and a row has no column but those of the header.
TypeOK ==
  /\ TypesButRows
  /\ table \in Seq(Rows(table))
  /\ \A r \in Rows(table) : \E C \in SUBSET Rows(header) : r \in [C -> Seq(Char)]

\* The quotes among the first n characters of a line, and the commas among them that
\* separate fields: those with an even number of quotes before them.
Quotes(l, n) == {i \in 1 .. n : l[i] = Quote}
IsOdd(S) == Cardinality(S) % 2 = 1
Separators(l, n) == {i \in 1 .. n : l[i] = Comma /\ ~IsOdd(Quotes(l, i - 1))}

\* The parser splits a line at the commas with an even number of quotes before them and
\* at no other, whatever stands between the quotes and behind them.
FieldsAreSeparated ==
  Reading =>
    /\ state = "QuotedField" <=> IsOdd(Quotes(text[line], at))
    /\ Len(fields) = Cardinality(Separators(text[line], at)) + 1

\* The rows the merge has read are the rows of t, and all of them in the end.
MergeReads(t) ==
  /\ \A k \in DOMAIN table : k \in DOMAIN t /\ table[k] = t[k]
  /\ line > Len(text) => Len(table) = Len(t)

NoQuotes(t) == \A r \in Rows(t) : \A c \in DOMAIN r : \A i \in DOMAIN r[c] : r[c][i] # Quote

\* A row without quotes in its fields survives that it is written and read again, whatever
\* else is in its fields and its header.
RowsSurviveRewriting == pc = "merge" /\ NoQuotes(loaded) => MergeReads(loaded)

\* The comment on read_row: a doubled quote stands for one.  Rows then survive with quotes.
QuotesSurviveRewriting == pc = "merge" => MergeReads(loaded)

AsRows(t) == {AsRow(r) : r \in Rows(t)}

\* std::sort of a chunk is defined only on a strict weak order: is_smaller is one on
\* columns that hold only numbers or only other text.
ChunkOrderIsStrictWeak ==
  Complete(table) /\ Homogeneous(AsRows(table)) =>
    StrictWeakOrderOn(AsRows(table), CSVSmaller)

\* The merge trusts the order that chunks were sorted in: the two implementations of
\* the comparison agree on every two complete rows.
MergeComparesAsChunks ==
  Complete(table) =>
    \A r, q \in AsRows(table) : MergeSmaller(r, q) <=> CSVSmaller(r, q)

\* What the merge reads from a chunk is in the order the merge itself compares by.
MergeReadsSortedChunk ==
  pc = "merge" /\ NoQuotes(loaded) /\ Complete(loaded) /\ Homogeneous(AsRows(loaded)) =>
    \A i, j \in DOMAIN table : i < j => ~MergeSmaller(AsRow(table[j]), AsRow(table[i]))

\* Three rows of which each is smaller than the next: the comment on Compare::operator()
\* calls the order ascending, so the first is smaller than the last.
AscendingOrder ==
  Complete(table) =>
    \A a, b, c \in AsRows(table) :
      MergeSmaller(a, b) /\ MergeSmaller(b, c) => MergeSmaller(a, c)
============================================================================
