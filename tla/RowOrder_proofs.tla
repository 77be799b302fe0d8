-------------------------- MODULE RowOrder_proofs --------------------------
(***************************************************************************)
(* The comparison of rows is the order that std::sort, the heap and the    *)
(* merge need, on every set of complete rows whose columns do not mix      *)
(* numbers with other text.                                                *)
(***************************************************************************)
EXTENDS RowOrder, TLAPS

\* Of two fields of one kind at most one is less, and a field between two others, or
\* equal to one of them, compares like it.
LEMMA FieldOrder ==
  ASSUME NEW x \in Field, NEW y \in Field, NEW z \in Field,
         x.digits = y.digits, y.digits = z.digits
  PROVE  /\ FieldEqual(x, x)
         /\ FieldEqual(x, y) => FieldEqual(y, x)
         /\ FieldEqual(x, y) /\ FieldEqual(y, z) => FieldEqual(x, z)
         /\ FieldLess(x, y) => ~FieldLess(y, x) /\ ~FieldEqual(x, y)
         /\ FieldEqual(x, y) \/ FieldLess(x, y) \/ FieldLess(y, x)
         /\ FieldLess(x, y) /\ FieldLess(y, z) => FieldLess(x, z)
         /\ FieldEqual(x, y) /\ FieldLess(y, z) => FieldLess(x, z)
         /\ FieldLess(x, y) /\ FieldEqual(y, z) => FieldLess(x, z)
<1>1. \A f \in {x, y, z} : f.value \in Nat /\ f.text \in Nat
  BY FieldAssumption
<1>2. CASE x.digits /\ y.digits /\ z.digits
  BY <1>1, <1>2 DEF FieldEqual, FieldLess, AsNumbers
<1>3. CASE ~x.digits /\ ~y.digits /\ ~z.digits
  BY <1>1, <1>3 DEF FieldEqual, FieldLess, AsNumbers
<1> QED
  BY <1>2, <1>3, FieldAssumption

\* On complete rows the comparison is the lexicographic one of the two columns.
LEMMA Lexicographic ==
  ASSUME NEW ra \in CompleteRow, NEW rb \in CompleteRow
  PROVE  CSVSmaller(ra, rb) <=>
           \/ /\ ~FieldEqual(ra["id"], rb["id"])
              /\ FieldLess(ra["id"], rb["id"])
           \/ /\ FieldEqual(ra["id"], rb["id"])
              /\ ~FieldEqual(ra["timestamp"], rb["timestamp"])
              /\ FieldLess(ra["timestamp"], rb["timestamp"])
<1>1. Place = {1, 2} /\ Column(1) = "id" /\ Column(2) = "timestamp"
  BY DEF Place, Column, COLUMNS_TO_SORT
<1>2. \A r \in {ra, rb} : \A i \in Place : Has(r, i)
  BY <1>1 DEF Has, CompleteRow
<1>3. \A r \in {ra, rb} : FieldAt(r, 1) = r["id"] /\ FieldAt(r, 2) = r["timestamp"]
  BY <1>1 DEF FieldAt
<1>4. Reaches(ra, rb, 1) /\ (Reaches(ra, rb, 2) <=> FieldEqual(ra["id"], rb["id"]))
  <2>1. 1 .. 1 - 1 = {} /\ 1 .. 2 - 1 = {1}
    OBVIOUS
  <2> QED
    BY <1>1, <1>2, <1>3, <2>1 DEF Reaches
<1> QED
  BY <1>1, <1>2, <1>3, <1>4, Zenon DEF CSVSmaller

\* The merge compares two complete rows exactly as the sort of a chunk does.
THEOREM MergeComparesLikeChunks ==
  ASSUME NEW ra \in CompleteRow, NEW rb \in CompleteRow
  PROVE  MergeSmaller(ra, rb) <=> CSVSmaller(ra, rb)
<1>1. DOMAIN ra # {} /\ DOMAIN rb # {}
  BY DEF CompleteRow
<1>2. \A i \in Place : Has(ra, i) /\ Has(rb, i)
  BY DEF Place, Has, Column, COLUMNS_TO_SORT, CompleteRow
<1> QED
  BY <1>1, <1>2, Zenon DEF MergeSmaller, CSVSmaller

\* Rows of homogeneous columns are strictly weakly ordered: std::sort is defined on
\* them, and MergeIsSorted of MergeSort_proofs applies.
THEOREM HomogeneousRowsAreOrdered ==
  ASSUME NEW S \in SUBSET CompleteRow, Homogeneous(S)
  PROVE  StrictWeakOrderOn(S, CSVSmaller)
<1>1. \A r \in S : r["id"] \in Field /\ r["timestamp"] \in Field
  BY DEF CompleteRow
<1>2. \A ra, rb \in S : /\ ra["id"].digits = rb["id"].digits
                        /\ ra["timestamp"].digits = rb["timestamp"].digits
  <2>1. /\ 1 \in Place /\ \A r \in S : FieldAt(r, 1) = r["id"]
        /\ 2 \in Place /\ \A r \in S : FieldAt(r, 2) = r["timestamp"]
    BY DEF Place, FieldAt, Column, COLUMNS_TO_SORT
  <2> QED
    BY <2>1 DEF Homogeneous
<1>3. ASSUME NEW ra \in S, NEW rb \in S, CSVSmaller(ra, rb)
      PROVE  ~CSVSmaller(rb, ra)
  <2>1. ra \in CompleteRow /\ rb \in CompleteRow
    OBVIOUS
  <2> QED
    BY <1>1, <1>2, <1>3, <2>1, Lexicographic, FieldOrder
<1>4. ASSUME NEW ra \in S, NEW rb \in S, NEW rc \in S, CSVSmaller(ra, rc)
      PROVE  CSVSmaller(ra, rb) \/ CSVSmaller(rb, rc)
  <2> DEFINE ia == ra["id"]  ta == ra["timestamp"]
             ib == rb["id"]  tb == rb["timestamp"]
             ic == rc["id"]  tc == rc["timestamp"]
  <2>1. ra \in CompleteRow /\ rb \in CompleteRow /\ rc \in CompleteRow
    OBVIOUS
  <2>2. FieldEqual(ia, ic) => \/ FieldEqual(ia, ib) /\ FieldEqual(ib, ic)
                              \/ FieldLess(ia, ib) /\ ~FieldEqual(ia, ib)
                              \/ FieldLess(ib, ic) /\ ~FieldEqual(ib, ic)
    BY <1>1, <1>2, FieldOrder
  <2>3. FieldLess(ia, ic) /\ ~FieldEqual(ia, ic) =>
          \/ FieldLess(ia, ib) /\ ~FieldEqual(ia, ib)
          \/ FieldLess(ib, ic) /\ ~FieldEqual(ib, ic)
    BY <1>1, <1>2, FieldOrder
  <2>4. FieldLess(ta, tc) /\ ~FieldEqual(ta, tc) =>
          \/ FieldLess(ta, tb) /\ ~FieldEqual(ta, tb)
          \/ FieldLess(tb, tc) /\ ~FieldEqual(tb, tc)
    BY <1>1, <1>2, FieldOrder
  <2> QED
    BY <1>4, <2>1, <2>2, <2>3, <2>4, Lexicographic
<1> QED
  BY <1>3, <1>4 DEF StrictWeakOrderOn
=============================================================================
