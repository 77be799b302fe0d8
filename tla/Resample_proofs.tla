-------------------------- MODULE Resample_proofs --------------------------
(***************************************************************************)
(* resample_and_write on files whose rows are grouped by id and ascending  *)
(* in every group, with timestamps far from the ends of the unsigned       *)
(* range: the rows it keeps are spaced, and those it drops are covered.    *)
(***************************************************************************)
EXTENDS Resample, TLAPS, SequenceTheorems

\* In the loop current is the row written last, its timestamp could be read, and a row
\* with its id that was dropped since is not too late for it.
Progress ==
  /\ pc = "first" => next = 0 /\ current = 0 /\ kept = <<>>
  /\ pc = "loop" =>
       /\ current \in 1 .. next
       /\ current \in Kept
       /\ \A k \in DOMAIN kept : kept[k] <= current
       /\ \A k \in DOMAIN kept : rows[kept[k]].timestamp \in Long
  /\ pc # "first" => \A k, l \in DOMAIN kept : k < l => kept[k] < kept[l]

\* Without wrapping, the unsigned comparison is the comparison of the numbers.
LEMMA UnsignedComparison ==
  ASSUME NoWrap, NEW t \in Long, NEW u \in Long
  PROVE  IsLater(t, u) <=> t > u + Minutes
<1>1. t \in Nat /\ u \in Nat /\ u + Minutes \in Nat /\ t < Modulus /\ u + Minutes < Modulus
  BY ResampleAssumption DEF NoWrap
<1>2. \A n \in Nat : n < Modulus => n % Modulus = n
  BY ResampleAssumption
<1> QED
  BY <1>1, <1>2 DEF IsLater, Unsigned

\* What the sequence of kept row numbers becomes when one is added.
LEMMA KeepOne ==
  ASSUME NEW N \in Nat, NEW s \in Seq(1 .. N), NEW n \in 1 .. N
  PROVE  /\ Append(s, n) \in Seq(1 .. N)
         /\ DOMAIN Append(s, n) = DOMAIN s \cup {Len(s) + 1}
         /\ \A k \in DOMAIN s : k \in Nat /\ k < Len(s) + 1 /\ Append(s, n)[k] = s[k]
                                /\ s[k] \in 1 .. N
         /\ Append(s, n)[Len(s) + 1] = n
BY AppendProperties, LenProperties, ElementOfSeq

\* The files are made of rows.
LEMMA RowType ==
  ASSUME TypeOK
  PROVE  /\ Len(rows) \in Nat /\ DOMAIN rows = 1 .. Len(rows)
         /\ \A n \in 1 .. Len(rows) :
              rows[n].timestamp \in Long \cup {NaN} /\ rows[n].id \in Id
<1>1. rows \in Seq([id : Id, timestamp : Long \cup {NaN}])
  BY ResampleAssumption DEF TypeOK
<1>2. \A n \in 1 .. Len(rows) : rows[n] \in [id : Id, timestamp : Long \cup {NaN}]
  BY <1>1, ElementOfSeq
<1> QED
  BY <1>1, <1>2, LenProperties

\* The type invariant holds of every behaviour.
THEOREM ResampleTypeCorrect == Spec => []TypeOK
<1>1. Init => TypeOK
  <2> SUFFICES ASSUME Init PROVE TypeOK
    OBVIOUS
  <2>1. rows \in Inputs /\ next = 0 /\ current = 0 /\ kept = <<>> /\ pc = "first"
    BY DEF Init
  <2>2. Len(rows) \in Nat
    BY <2>1, ResampleAssumption, LenProperties
  <2>3. kept \in Seq(1 .. 0)
    BY <2>1, EmptySeq
  <2> QED
    BY <2>1, <2>2, <2>3 DEF TypeOK
<1>2. TypeOK /\ [ResampleNext]_resampleVars => TypeOK'
  <2> SUFFICES ASSUME TypeOK, [ResampleNext]_resampleVars
               PROVE  TypeOK'
    OBVIOUS
  <2>1. Len(rows) \in Nat /\ rows' = rows
    BY RowType
       DEF ResampleNext, KeepFirst, ResampleRow, RefuseRow, LongRowKills, EndOfFile, resampleVars
  <2>3. CASE KeepFirst
    <3>1. 1 \in 1 .. Len(rows) /\ next' = 1 /\ kept' = <<1>>
      BY <2>1, <2>3, EmptySeq, ResampleAssumption DEF KeepFirst, TypeOK
    <3>2. kept' \in Seq(1 .. Len(rows))
      BY <3>1
    <3>3. current' \in 0 .. Len(rows) /\ pc' \in {"loop", "threw"}
      BY <2>3, <3>1 DEF KeepFirst, TypeOK
    <3> QED
      BY <2>1, <3>1, <3>2, <3>3 DEF TypeOK
  <2>4. CASE ResampleRow
    <3>1. next + 1 \in 1 .. Len(rows) /\ next' = next + 1 /\ pc' = pc
      BY <2>1, <2>4 DEF ResampleRow, TypeOK
    <3>2. Append(kept, next + 1) \in Seq(1 .. Len(rows))
      BY <2>1, <3>1, KeepOne DEF TypeOK
    <3>3. /\ kept' = kept \/ kept' = Append(kept, next + 1)
          /\ current' = current \/ current' = next + 1
      BY <2>4 DEF ResampleRow
    <3>4. kept' \in Seq(1 .. Len(rows))
      BY <3>2, <3>3, Zenon DEF TypeOK
    <3>5. current' \in 0 .. Len(rows)
      BY <2>1, <3>1, <3>3 DEF TypeOK
    <3> QED
      BY <2>1, <3>1, <3>4, <3>5 DEF TypeOK
  <2>5. CASE RefuseRow
    BY <2>1, <2>5 DEF RefuseRow, TypeOK
  <2>6. CASE EndOfFile
    BY <2>6 DEF EndOfFile, TypeOK
  <2>7. CASE UNCHANGED resampleVars
    BY <2>7 DEF resampleVars, TypeOK
  <2>8. CASE LongRowKills
    <3>1. 1 \in 1 .. Len(rows)
      BY <2>1, <2>8 DEF LongRowKills, TypeOK
    <3>2. <<1>> \in Seq(1 .. Len(rows))
      BY <3>1
    <3>3. kept' \in Seq(1 .. Len(rows))
      BY <2>8, <3>2 DEF LongRowKills, TypeOK
    <3> QED
      BY <2>1, <2>8, <3>3 DEF LongRowKills, TypeOK
  <2> QED
    BY <2>3, <2>4, <2>5, <2>6, <2>7, <2>8 DEF ResampleNext
<1> QED
  BY <1>1, <1>2, PTL DEF Spec

\* Where the loop stands.
THEOREM ResampleProgress == Spec => []Progress
<1>1. Init => Progress
  BY DEF Init, Progress
<1>2. TypeOK /\ Progress /\ [ResampleNext]_resampleVars => Progress'
  <2> SUFFICES ASSUME TypeOK, Progress, [ResampleNext]_resampleVars
               PROVE  Progress'
    OBVIOUS
  <2>1. CASE KeepFirst
    <3>1. /\ next' = 1 /\ kept' = <<1>> /\ rows' = rows
          /\ \/ pc' = "threw"
             \/ pc' = "loop" /\ current' = 1 /\ rows[1].timestamp # NaN
      BY <2>1 DEF KeepFirst
    <3>2. DOMAIN kept' = {1} /\ kept'[1] = 1 /\ Len(kept') = 1
      BY <3>1
    <3>3. 1 \in 1 .. Len(rows)
      BY <2>1, EmptySeq, ResampleAssumption DEF KeepFirst, TypeOK
    <3>4. rows[1].timestamp \in Long \cup {NaN}
      BY <3>3, RowType
    <3> QED
      BY <3>1, <3>2, <3>4 DEF Progress, Kept
  <2>2. CASE ResampleRow
    <3> DEFINE n == next + 1
    <3>1. n \in 1 .. Len(rows) /\ next \in Nat /\ pc = "loop" /\ pc' = pc /\ next' = n
          /\ rows' = rows
      BY <2>2, RowType DEF ResampleRow, TypeOK
    <3>2. rows[n].timestamp \in Long
      BY <2>2, <3>1, RowType DEF ResampleRow
    <3>3. /\ current \in 1 .. next /\ current \in Kept
          /\ \A k \in DOMAIN kept : kept[k] <= current /\ rows[kept[k]].timestamp \in Long
          /\ \A k, l \in DOMAIN kept : k < l => kept[k] < kept[l]
      BY <3>1 DEF Progress
    <3>4. CASE kept' = kept /\ current' = current
      BY <3>1, <3>3, <3>4 DEF Progress, Kept
    <3>5. CASE kept' = Append(kept, n) /\ current' = n
      <4>1. /\ DOMAIN kept' = DOMAIN kept \cup {Len(kept) + 1}
            /\ \A k \in DOMAIN kept : k \in Nat /\ k < Len(kept) + 1 /\ kept'[k] = kept[k]
                                      /\ kept[k] \in 1 .. Len(rows)
            /\ kept'[Len(kept) + 1] = n
            /\ Len(kept) \in Nat
        BY <3>1, <3>5, KeepOne, RowType, LenProperties DEF TypeOK
      <4>2. \A k \in DOMAIN kept' : kept'[k] <= n /\ rows[kept'[k]].timestamp \in Long
        BY <3>1, <3>2, <3>3, <4>1
      <4>3. \A k, l \in DOMAIN kept' : k < l => kept'[k] < kept'[l]
        BY <3>1, <3>3, <4>1
      <4>4. current' \in 1 .. next' /\ current' \in Kept'
        BY <3>1, <3>5, <4>1 DEF Kept
      <4> QED
        BY <3>1, <3>5, <4>2, <4>3, <4>4 DEF Progress
    <3> QED
      BY <2>2, <3>4, <3>5 DEF ResampleRow
  <2>3. CASE RefuseRow
    BY <2>3 DEF RefuseRow, Progress
  <2>4. CASE EndOfFile
    BY <2>4 DEF EndOfFile, Progress
  <2>5. CASE UNCHANGED resampleVars
    BY <2>5 DEF resampleVars, Progress, Kept
  <2>6. CASE LongRowKills
    BY <2>6 DEF LongRowKills, Progress
  <2> QED
    BY <2>1, <2>2, <2>3, <2>4, <2>5, <2>6 DEF ResampleNext
<1> QED
  BY <1>1, <1>2, ResampleTypeCorrect, PTL DEF Spec

\* What a row of the loop does to the result, in the order of numbers.
LEMMA ResampleRowEffect ==
  ASSUME NoWrap, \A f \in Inputs : GroupedAndAscending(f),
         TypeOK, Progress, ResampleRow,
         NEW n, n = next + 1
  PROVE  /\ rows' = rows /\ next' = n /\ n \in 1 .. Len(rows) /\ n \notin Kept
         /\ current \in Kept /\ current \in 1 .. next
         /\ rows[n].timestamp \in Long
         /\ \A m \in Kept : m <= current /\ m \in Nat /\ rows[m].timestamp \in Long
         /\ \/ /\ kept' = kept
               /\ rows[current].id = rows[n].id
               /\ rows[current].timestamp <= rows[n].timestamp
               /\ rows[n].timestamp <= rows[current].timestamp + Minutes
            \/ /\ kept' = Append(kept, n)
               /\ \A m \in Kept : rows[m].id = rows[n].id =>
                    rows[n].timestamp > rows[m].timestamp + Minutes
<1>1. /\ n \in 1 .. Len(rows) /\ next \in Nat /\ pc = "loop" /\ next' = n /\ rows' = rows
      /\ DOMAIN rows = 1 .. Len(rows) /\ n > next
  BY RowType DEF ResampleRow, TypeOK
<1>2. rows[n].timestamp \in Long /\ rows[n].timestamp # NaN
  BY <1>1, RowType, ResampleAssumption DEF ResampleRow
<1>3. /\ current \in 1 .. next /\ current \in Kept
      /\ \A k \in DOMAIN kept : kept[k] <= current /\ rows[kept[k]].timestamp \in Long
  BY <1>1 DEF Progress
<1>4. \A k \in DOMAIN kept : kept[k] \in 1 .. Len(rows)
  BY LenProperties, ElementOfSeq DEF TypeOK
<1>5. \A m \in Kept : m <= current /\ m \in 1 .. Len(rows) /\ rows[m].timestamp \in Long
  BY <1>3, <1>4 DEF Kept
<1>6. n \notin Kept
  BY <1>1, <1>3, <1>5
<1>7. \A m \in Kept : rows[m].id = rows[n].id =>
        rows[current].id = rows[n].id /\ rows[m].timestamp <= rows[n].timestamp
                                      /\ rows[m].timestamp <= rows[current].timestamp
  <2> SUFFICES ASSUME NEW m \in Kept, rows[m].id = rows[n].id
               PROVE  /\ rows[current].id = rows[n].id
                      /\ rows[m].timestamp <= rows[n].timestamp
                      /\ rows[m].timestamp <= rows[current].timestamp
    OBVIOUS
  <2>1. GroupedAndAscending(rows)
    BY DEF TypeOK
  <2>2. /\ m \in DOMAIN rows /\ n \in DOMAIN rows /\ current \in DOMAIN rows
        /\ m < n /\ current \in m .. n /\ m <= current
    BY <1>1, <1>3, <1>5
  <2>5. rows[m].timestamp # NaN /\ rows[current].timestamp # NaN
    BY <1>3, <1>5, ResampleAssumption
  <2>3. rows[current].id = rows[m].id /\ rows[m].timestamp <= rows[n].timestamp
    BY <1>2, <2>1, <2>2, <2>5 DEF GroupedAndAscending
  <2>4. rows[m].timestamp <= rows[current].timestamp
    <3>1. CASE m = current
      <4>1. rows[m].timestamp \in Int
        BY <1>5, ResampleAssumption, Zenon
      <4> QED
        BY <3>1, <4>1
    <3>2. CASE m # current
      <4>1. m < current
        BY <1>1, <1>3, <2>2, <3>2
      <4> QED
        BY <2>1, <2>2, <2>3, <2>5, <4>1 DEF GroupedAndAscending
    <3> QED
      BY <3>1, <3>2
  <2> QED
    BY <2>3, <2>4
<1>8. IsLater(rows[n].timestamp, rows[current].timestamp) <=>
        rows[n].timestamp > rows[current].timestamp + Minutes
  BY <1>2, <1>3, <1>5, UnsignedComparison
<1>9. /\ rows[n].timestamp \in Int /\ rows[current].timestamp \in Int /\ Minutes \in Nat
      /\ \A m \in Kept : rows[m].timestamp \in Int
  BY <1>2, <1>3, <1>5, ResampleAssumption
<1>10. CASE \/ rows[n].id # rows[current].id
            \/ IsLater(rows[n].timestamp, rows[current].timestamp)
  <2>1. kept' = Append(kept, n)
    BY <1>10 DEF ResampleRow, StartsGroup
  <2>2. \A m \in Kept : rows[m].id = rows[n].id =>
          rows[n].timestamp > rows[m].timestamp + Minutes
    BY <1>7, <1>8, <1>9, <1>10 DEF StartsGroup
  <2> QED
    BY <1>1, <1>2, <1>3, <1>5, <1>6, <2>1, <2>2
<1>11. CASE ~ \/ rows[n].id # rows[current].id
              \/ IsLater(rows[n].timestamp, rows[current].timestamp)
  <2>1. kept' = kept /\ rows[current].id = rows[n].id
    BY <1>11 DEF ResampleRow, StartsGroup
  <2> QED
    BY <1>1, <1>2, <1>3, <1>5, <1>6, <1>7, <1>8, <1>9, <1>11, <2>1
<1> QED
  BY <1>10, <1>11

\* Every two rows of the result with one id are more than Minutes apart.
THEOREM ResampleSpaces ==
  ASSUME NoWrap, \A f \in Inputs : GroupedAndAscending(f)
  PROVE  Spec => []KeptRowsAreSpaced
<1>1. Init => KeptRowsAreSpaced
  BY DEF Init, KeptRowsAreSpaced
<1>2. TypeOK /\ Progress /\ KeptRowsAreSpaced /\ [ResampleNext]_resampleVars
        => KeptRowsAreSpaced'
  <2> SUFFICES ASSUME TypeOK, Progress, KeptRowsAreSpaced, [ResampleNext]_resampleVars
               PROVE  KeptRowsAreSpaced'
    OBVIOUS
  <2>1. CASE KeepFirst
    BY <2>1 DEF KeepFirst, KeptRowsAreSpaced
  <2>2. CASE ResampleRow
    <3> DEFINE n == next + 1
    <3>1. /\ rows' = rows /\ n \in 1 .. Len(rows)
          /\ \/ kept' = kept
             \/ /\ kept' = Append(kept, n)
                /\ \A m \in Kept : rows[m].id = rows[n].id =>
                     rows[n].timestamp > rows[m].timestamp + Minutes
      BY <2>2, ResampleRowEffect
    <3>2. CASE kept' = kept
      BY <3>1, <3>2 DEF KeptRowsAreSpaced
    <3>3. CASE /\ kept' = Append(kept, n)
               /\ \A m \in Kept : rows[m].id = rows[n].id =>
                    rows[n].timestamp > rows[m].timestamp + Minutes
      <4>1. /\ DOMAIN kept' = DOMAIN kept \cup {Len(kept) + 1}
            /\ \A k \in DOMAIN kept : k \in Nat /\ k < Len(kept) + 1 /\ kept'[k] = kept[k]
            /\ kept'[Len(kept) + 1] = n
            /\ Len(kept) \in Nat
        BY <3>1, <3>3, KeepOne, RowType, LenProperties DEF TypeOK
      <4> QED
        BY <3>1, <3>3, <4>1 DEF KeptRowsAreSpaced, Kept
    <3> QED
      BY <3>1, <3>2, <3>3
  <2>3. CASE RefuseRow
    BY <2>3 DEF RefuseRow, KeptRowsAreSpaced
  <2>4. CASE EndOfFile
    BY <2>4 DEF EndOfFile, KeptRowsAreSpaced
  <2>5. CASE UNCHANGED resampleVars
    BY <2>5 DEF resampleVars, KeptRowsAreSpaced
  <2>6. CASE LongRowKills
    BY <2>6 DEF LongRowKills, KeptRowsAreSpaced
  <2> QED
    BY <2>1, <2>2, <2>3, <2>4, <2>5, <2>6 DEF ResampleNext
<1> QED
  BY <1>1, <1>2, ResampleTypeCorrect, ResampleProgress, PTL DEF Spec

\* Every row left out has an earlier row of the result with its id within Minutes.
THEOREM ResampleCovers ==
  ASSUME NoWrap, \A f \in Inputs : GroupedAndAscending(f)
  PROVE  Spec => []DroppedRowsAreCovered
<1>1. Init => DroppedRowsAreCovered
  BY DEF Init, DroppedRowsAreCovered
<1>2. TypeOK /\ Progress /\ DroppedRowsAreCovered /\ [ResampleNext]_resampleVars
        => DroppedRowsAreCovered'
  <2> SUFFICES ASSUME TypeOK, Progress, DroppedRowsAreCovered,
                      [ResampleNext]_resampleVars
               PROVE  DroppedRowsAreCovered'
    OBVIOUS
  <2>1. CASE KeepFirst
    BY <2>1 DEF KeepFirst, DroppedRowsAreCovered, Kept
  <2>2. CASE ResampleRow
    <3> DEFINE n == next + 1
    <3>1. /\ rows' = rows /\ next' = n /\ n \in 1 .. Len(rows)
          /\ current \in Kept /\ current \in 1 .. next
          /\ \/ /\ kept' = kept
                /\ rows[current].id = rows[n].id
                /\ rows[current].timestamp <= rows[n].timestamp
                /\ rows[n].timestamp <= rows[current].timestamp + Minutes
             \/ kept' = Append(kept, n)
      BY <2>2, ResampleRowEffect
    <3>2. next \in Nat /\ \A m \in 1 .. next' : m \in 1 .. next \/ m = n
      BY <3>1, RowType DEF TypeOK
    <3>3. CASE kept' = kept
      <4>1. \/ n \in Kept
            \/ current < n /\ rows[current].id = rows[n].id
                           /\ rows[current].timestamp <= rows[n].timestamp
                           /\ rows[n].timestamp <= rows[current].timestamp + Minutes
        <5>1. CASE kept' = Append(kept, n)
          BY <3>1, <3>3, <5>1, KeepOne, RowType, LenProperties DEF TypeOK, Kept
        <5> QED
          BY <3>1, <3>2, <5>1
      <4> QED
        BY <3>1, <3>2, <3>3, <4>1 DEF DroppedRowsAreCovered, Kept
    <3>4. CASE kept' = Append(kept, n)
      <4>1. Kept' = Kept \cup {n}
        BY <3>1, <3>4, KeepOne, RowType, LenProperties DEF TypeOK, Kept
      <4> QED
        BY <3>1, <3>2, <4>1 DEF DroppedRowsAreCovered
    <3> QED
      BY <3>1, <3>3, <3>4
  <2>3. CASE RefuseRow
    <3>1. next \in Nat /\ \A m \in 1 .. next + 1 : m \in 1 .. next \/ m = next + 1
      BY RowType DEF TypeOK
    <3> QED
      BY <2>3, <3>1 DEF RefuseRow, DroppedRowsAreCovered, Kept
  <2>4. CASE EndOfFile
    BY <2>4 DEF EndOfFile, DroppedRowsAreCovered, Kept
  <2>5. CASE UNCHANGED resampleVars
    BY <2>5 DEF resampleVars, DroppedRowsAreCovered, Kept
  <2>6. CASE LongRowKills
    <3>1. UNCHANGED <<rows, next>>
      BY <2>6 DEF LongRowKills
    <3>2. CASE pc = "first"
      <4>1. 1 .. next' = {}
        BY <3>1, <3>2 DEF Progress
      <4> QED
        BY <4>1 DEF DroppedRowsAreCovered
    <3>3. CASE pc = "loop"
      BY <2>6, <3>1, <3>3 DEF LongRowKills, DroppedRowsAreCovered, Kept
    <3> QED
      BY <2>6, <3>2, <3>3 DEF LongRowKills
  <2> QED
    BY <2>1, <2>2, <2>3, <2>4, <2>5, <2>6 DEF ResampleNext
<1> QED
  BY <1>1, <1>2, ResampleTypeCorrect, ResampleProgress, PTL DEF Spec
=============================================================================
