---------------------------- MODULE MCMergeSort ----------------------------
(* merge_sort on up to three small sorted files, with and without faults. *)
EXTENDS MergeSort, SequencesExt

CONSTANTS MaxFiles, MaxRows

\* A line is a sort key and a tag: two lines with one key are equal for the
\* comparison and different as text.  The header would sort before all others.
MCHeader == <<0, "header">>
MCRows == {<<1, "a">>, <<2, "a">>, <<2, "b">>}
MCLine == MCRows \cup {MCHeader}
MCSmaller(a, b) == a[1] < b[1]

SortedRows ==
  {s \in BoundedSeq(MCRows, MaxRows) :
     \A m, n \in DOMAIN s : m < n => ~MCSmaller(s[n], s[m])}

\* A chunk file holds a header and rows; one that could not be written is empty.
MCFiles == {<<>>} \cup {<<MCHeader>> \o s : s \in SortedRows}
MCInputs == BoundedSeq(MCFiles, MaxFiles)

ASSUME StrictWeakOrder /\ InputsSorted
============================================================================
