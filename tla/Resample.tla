------------------------------ MODULE Resample ------------------------------
(***************************************************************************)
(* Sorter::resample_and_write: one pass over the merged file that keeps,   *)
(* of the rows with one id, the first and then each that is more than      *)
(* minutes later than the last one kept.                                   *)
(*                                                                         *)
(* A row is a record with the fields id and timestamp, id as text.  A      *)
(* timestamp that stol refuses is NaN.  The comparison of timestamps mixes *)
(* a long with a size_t, so C++ makes it on unsigned numbers, here modulo  *)
(* Modulus.  Rows are read by the columns of COLUMNS_TO_SORT, whatever the *)
(* columns of their file; those past the second are beyond its end.        *)
(***************************************************************************)
EXTENDS Integers, Sequences

CONSTANTS
  Id,        \* the ids, as std::string::compare tells them apart
  Long,      \* the values of long in use
  NaN,       \* a timestamp that is no number, or is missing
  TooLong(_),  \* a row has more fields than COLUMNS_TO_SORT
  Modulus,   \* 2 to the width of size_t
  Minutes,   \* the parameter minutes
  Inputs     \* the data rows resample_and_write may find in its input file

ASSUME ResampleAssumption ==
  /\ Long \subseteq Int
  /\ NaN \notin Long
  /\ Modulus \in Nat \ {0}
  /\ Minutes \in Nat
  /\ Inputs \subseteq Seq([id : Id, timestamp : Long \cup {NaN}])

VARIABLES
  rows,     \* the data rows of the input
  next,     \* the number of rows read
  current,  \* the row current_id and current_timestamp were taken from
  kept,     \* the numbers of the rows written to the result
  pc

resampleVars == <<rows, next, current, kept, pc>>

Unsigned(n) == n % Modulus

\* Variant: a row that is exactly minutes later counts as later.
IsLaterOrEqual(t, u) == Unsigned(t) >= Unsigned(u + Minutes)

\* timestamp > current_timestamp + minutes
IsLater(t, u) == Unsigned(t) > Unsigned(u + Minutes)

\* Variant: the rows of another id are measured against the last id's row.
StartsNoGroup(row) == FALSE

StartsGroup(row) == row.id # rows[current].id

Init ==
  /\ rows \in Inputs
  /\ next = 0
  /\ current = 0
  /\ kept = <<>>
  /\ pc = "first"

\* The first row is written before its timestamp is read.
KeepFirst ==
  /\ pc = "first"
  /\ rows # <<>>
  /\ next' = 1
  /\ kept' = <<1>>
  /\ IF rows[1].timestamp = NaN
     THEN pc' = "threw" /\ UNCHANGED current
     ELSE pc' = "loop" /\ current' = 1
  /\ UNCHANGED rows

\* A row of the loop whose timestamp can be read.
ResampleRow ==
  /\ pc = "loop"
  /\ next < Len(rows)
  /\ LET row == rows[next + 1]
     IN  /\ row.timestamp # NaN
         /\ IF \/ StartsGroup(row)
               \/ IsLater(row.timestamp, rows[current].timestamp)
            THEN kept' = Append(kept, next + 1) /\ current' = next + 1
            ELSE UNCHANGED <<kept, current>>
  /\ next' = next + 1
  /\ UNCHANGED <<rows, pc>>

\* stol throws out of resample_and_write.
RefuseRow ==
  /\ pc = "loop"
  /\ next < Len(rows)
  /\ rows[next + 1].timestamp = NaN
  /\ next' = next + 1
  /\ pc' = "threw"
  /\ UNCHANGED <<rows, current, kept>>

\* convert_to_row indexes COLUMNS_TO_SORT past its end, and the process may die of it; the
\* first row has been written by then.
LongRowKills ==
  /\ pc \in {"first", "loop"}
  /\ next < Len(rows)
  /\ TooLong(rows[next + 1])
  /\ kept' = IF pc = "first" THEN <<1>> ELSE kept
  /\ pc' = "killed"
  /\ UNCHANGED <<rows, next, current>>

\* Variant: a file without rows is waited for.
EndOfRows ==
  /\ pc = "loop" /\ next = Len(rows)
  /\ pc' = "done"
  /\ UNCHANGED <<rows, next, current, kept>>

\* Variant: the getline that fails counts as a row.
EndOfFileCounted ==
  /\ pc = "loop" /\ next = Len(rows)
  /\ next' = next + 1
  /\ pc' = "done"
  /\ UNCHANGED <<rows, current, kept>>

EndOfFile ==
  /\ \/ pc = "first" /\ rows = <<>>
     \/ pc = "loop" /\ next = Len(rows)
  /\ pc' = "done"
  /\ UNCHANGED <<rows, next, current, kept>>

ResampleNext == KeepFirst \/ ResampleRow \/ RefuseRow \/ LongRowKills \/ EndOfFile

Spec == Init /\ [][ResampleNext]_resampleVars

\* A loop of one thread over a finite file.
FairSpec == Spec /\ WF_resampleVars(ResampleNext)

----------------------------------------------------------------------------
(* What makes a resampling correct. *)

Kept == {kept[k] : k \in DOMAIN kept}

\* The rows with one id stand together, in the order of their timestamps.
GroupedAndAscending(f) ==
  \A m, n \in DOMAIN f :
    m < n /\ f[m].id = f[n].id =>
      /\ \A k \in m .. n : f[k].id = f[m].id
      /\ f[m].timestamp # NaN /\ f[n].timestamp # NaN
           => f[m].timestamp <= f[n].timestamp

\* No sum of a timestamp and Minutes leaves the range in which signed and unsigned
\* numbers agree.
NoWrap == \A t \in Long : t >= 0 /\ t + Minutes < Modulus

\* The variables hold values of their types, and row numbers rows that exist.
TypeOK ==
  /\ rows \in Inputs
  /\ next \in 0 .. Len(rows)
  /\ current \in 0 .. Len(rows)
  /\ kept \in Seq(1 .. Len(rows))
  /\ pc \in {"first", "loop", "done", "threw", "killed"}

\* Any two rows of the result with one id are more than Minutes apart.
KeptRowsAreSpaced ==
  \A k, l \in DOMAIN kept :
    k < l /\ rows[kept[k]].id = rows[kept[l]].id
          /\ rows[kept[l]].timestamp # NaN =>
      rows[kept[l]].timestamp > rows[kept[k]].timestamp + Minutes

\* A row is left out only for an earlier row of the result with its id that is at
\* most Minutes older, so that no id and no stretch of time vanishes.
DroppedRowsAreCovered ==
  \A n \in 1 .. next :
    n \notin Kept /\ rows[n].timestamp # NaN =>
      \E m \in Kept :
        /\ m < n
        /\ rows[m].id = rows[n].id
        /\ rows[m].timestamp <= rows[n].timestamp
        /\ rows[n].timestamp <= rows[m].timestamp + Minutes

\* A file of two columns whose timestamps are all numbers is resampled to its end.
ReadableFilesFinish ==
  (\A n \in DOMAIN rows : rows[n].timestamp # NaN /\ ~TooLong(rows[n])) ~> pc = "done"

\* The comments of resample_and_write: it assumes a sorted file, and there a row whose id
\* differs from current_id has a "New ID", one that no row before it had.
NewIdIsNew ==
  pc = "loop" /\ next < Len(rows) /\ StartsGroup(rows[next + 1]) =>
    \A m \in 1 .. next : rows[m].id # rows[next + 1].id
============================================================================
