----------------------------- MODULE MCResample -----------------------------
(* Every file of a few rows, in the orders the program may find them in. *)
EXTENDS Resample, SequencesExt, RowOrder

CONSTANTS MaxRows, SameNumber

MCRow == [id : Id, timestamp : Long \cup {NaN}]
MCTooLong(r) == r.timestamp = 13
Files == BoundedSeq(MCRow, MaxRows)

\* The files that resampling needs: grouped by id and ascending in each group.
GroupedFiles == {f \in Files : GroupedAndAscending(f)}

\* The field behind an id or a timestamp.  All ids are digits; the ids of SameNumber
\* are one number written in several ways, like 7 and 07.
IdOrder == CHOOSE s \in SetToSeqs(Id) : TRUE
TextOf(x) == CHOOSE k \in DOMAIN IdOrder : IdOrder[k] = x
IdField(x) == [digits |-> TRUE, text |-> TextOf(x),
               value |-> IF x \in SameNumber THEN 0 ELSE TextOf(x)]
TimeField(t) == [digits |-> TRUE, text |-> t, value |-> t]
AsRow(r) == [id |-> IdField(r.id), timestamp |-> TimeField(r.timestamp)]

\* The files that are sorted by the program's own comparison of rows.
SortedFiles ==
  {f \in BoundedSeq([id : Id, timestamp : Long], MaxRows) :
     \A m, n \in DOMAIN f : m < n => ~CSVSmaller(AsRow(f[n]), AsRow(f[m]))}

ASSUME NoWrap
============================================================================
