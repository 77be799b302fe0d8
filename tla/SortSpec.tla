------------------------------ MODULE SortSpec ------------------------------
(***************************************************************************)
(* What Sorter::sort promises its caller, without chunks, threads or       *)
(* temporary files: one file with every row of every file of the batch, in *)
(* order; or no result, if a row of the batch, or two, explain it.  The    *)
(* order is promised only to a batch whose files have the columns that the *)
(* process took from the first file it ever sorted.  Where file operations *)
(* may fail, rows may be missing from the result, and it may fail to come. *)
(*                                                                         *)
(* A line is a pair <<f, n>>, line n of file f.  A file that is twice in   *)
(* the batch counts twice.                                                 *)
(***************************************************************************)
EXTENDS Naturals, Sequences, FiniteSets

CONSTANTS
  RowsOf(_),            \* the data lines of a file
  HeaderOf(_),          \* the header of a file
  RowSmaller(_, _, _),  \* the order of rows by the columns of a header
  TooShort(_),          \* a line has fewer fields than the header of its file
  Readable(_, _),       \* a line can be read, also by the columns of a header
  Comparable(_, _, _),  \* two lines have the fields of a header that decide their order
  FirstLineOf(_),       \* the first line of a file
  Blank,                \* what is read of a file that has no line, or cannot be opened
  NoHeader,             \* no file was sorted yet
  MayFail               \* whether file operations may fail

VARIABLES
  batch,    \* the paths given to sort
  header,   \* the header with the columns in effect, the same for all later batches
  outcome,  \* "working", "sorted" or "failed"
  result    \* the data lines of the file sort returned

sortVars == <<batch, header, outcome, result>>

BatchRows == UNION {RowsOf(batch[i]) : i \in DOMAIN batch}

InBatch(r) == Cardinality({i \in DOMAIN batch : r \in RowsOf(batch[i])})
InResult(r) == Cardinality({k \in DOMAIN result : result[k] = r})

ResultIsSorted ==
  (\A i \in DOMAIN batch : HeaderOf(batch[i]) = header) =>
    \A k, l \in DOMAIN result : k < l => ~RowSmaller(header, result[l], result[k])

\* result holds the rows of the batch, each as often as the batch has it.
ResultIsComplete ==
  /\ \A k \in DOMAIN result : result[k] \in BatchRows /\ ~TooShort(result[k])
  /\ \A r \in BatchRows : IF MayFail THEN InResult(r) <= InBatch(r) ELSE InResult(r) = InBatch(r)

Init ==
  /\ outcome = "working"
  /\ result = <<>>

\* The first file of the batch is the first the process sorts.
TakeHeader ==
  /\ outcome = "working"
  /\ header = NoHeader
  /\ header' \in {FirstLineOf(batch[1])} \cup (IF MayFail THEN {Blank} ELSE {})
  /\ UNCHANGED <<batch, outcome, result>>

Succeed ==
  /\ outcome = "working"
  /\ header # NoHeader
  /\ outcome' = "sorted"
  /\ ResultIsSorted'
  /\ ResultIsComplete'
  /\ UNCHANGED <<batch, header>>

Fail ==
  /\ outcome = "working"
  /\ \/ MayFail
     \/ \E r \in BatchRows : TooShort(r) \/ ~Readable(header, r)
     \/ \E r, s \in BatchRows : ~Comparable(header, r, s)
  /\ outcome' = "failed"
  /\ UNCHANGED <<batch, header, result>>

SortNext == TakeHeader \/ Succeed \/ Fail

Spec == Init /\ [][SortNext]_sortVars
============================================================================
