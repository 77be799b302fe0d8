------------------------------ MODULE RowOrder ------------------------------
(***************************************************************************)
(* How rows are compared.  The program does it in two places: the function *)
(* is_smaller of CSV.cpp orders the rows of one chunk for std::sort, and   *)
(* Compare::is_smaller of Sorter.cpp orders the lines that wait in the     *)
(* merge.  Both go through COLUMNS_TO_SORT, look for the first column in   *)
(* which the rows differ, and compare that column as numbers if both       *)
(* fields consist of digits and as text otherwise.                         *)
(*                                                                         *)
(* A field is a record: digits says whether Util::is_number accepts it,    *)
(* value is what stod makes of it, text its place among all fields in the  *)
(* order of std::string::compare.  A row maps the columns it has to fields.*)
(***************************************************************************)
EXTENDS Naturals, Sequences

CONSTANT Field

ASSUME FieldAssumption ==
  Field \subseteq [digits : BOOLEAN, value : Nat, text : Nat]

COLUMNS_TO_SORT == <<"id", "timestamp">>

Place == DOMAIN COLUMNS_TO_SORT
Column(i) == COLUMNS_TO_SORT[i]

AsNumbers(f, g) == f.digits /\ g.digits

\* Variant: equal numbers that are written differently are not equal.
FieldEqualAsText(f, g) == f.text = g.text

FieldEqual(f, g) == IF AsNumbers(f, g) THEN f.value = g.value ELSE f.text = g.text
FieldLess(f, g) == IF AsNumbers(f, g) THEN f.value < g.value ELSE f.text < g.text

Has(r, i) == Column(i) \in DOMAIN r
FieldAt(r, i) == r[Column(i)]

\* The recursion of is_smaller goes on to column i: both rows have all columns
\* before it, with equal fields.
Reaches(ra, rb, i) ==
  \A j \in 1 .. i - 1 :
    Has(ra, j) /\ Has(rb, j) /\ FieldEqual(FieldAt(ra, j), FieldAt(rb, j))

\* is_smaller of CSV.cpp: a row without the column is smaller than any other.
CSVSmaller(ra, rb) ==
  \E i \in Place :
    /\ Reaches(ra, rb, i)
    /\ \/ ~Has(ra, i)
       \/ /\ Has(ra, i)
          /\ Has(rb, i)
          /\ ~FieldEqual(FieldAt(ra, i), FieldAt(rb, i))
          /\ FieldLess(FieldAt(ra, i), FieldAt(rb, i))

\* Variant: the merge compares all fields as text.
MergeSmallerAsText(ra, rb) ==
  \E i \in Place : Reaches(ra, rb, i) /\ FieldAt(ra, i).text < FieldAt(rb, i).text

\* Compare::is_smaller: only a row without any column is smaller than any other, and
\* at() throws on a row that has some columns and lacks one it is compared by.
MergeSmaller(ra, rb) ==
  \E i \in Place :
    /\ Reaches(ra, rb, i)
    /\ \/ DOMAIN ra = {}
       \/ /\ DOMAIN ra # {}
          /\ DOMAIN rb # {}
          /\ ~FieldEqual(FieldAt(ra, i), FieldAt(rb, i))
          /\ FieldLess(FieldAt(ra, i), FieldAt(rb, i))

CompleteRow == [{"id", "timestamp"} -> Field]

----------------------------------------------------------------------------
(* What std::sort, the heap and the merge ask of the comparison. *)

\* In every column that is sorted by, the fields are all digits or none is.
Homogeneous(S) ==
  \A i \in Place : \A ra, rb \in S : FieldAt(ra, i).digits = FieldAt(rb, i).digits

\* Neither row may be smaller than the other both ways, and two rows of which neither
\* is smaller must compare alike with every third.
StrictWeakOrderOn(S, Less(_, _)) ==
  /\ \A ra, rb \in S : Less(ra, rb) => ~Less(rb, ra)
  /\ \A ra, rb, rc \in S : Less(ra, rc) => Less(ra, rb) \/ Less(rb, rc)
============================================================================
