-------------------------- MODULE MergeSort_proofs --------------------------
(***************************************************************************)
(* merge_sort, for every tuple of files and every comparison: the heap     *)
(* always holds the front of every unfinished stream, so no line is lost,  *)
(* invented or repeated; and when the comparison is a strict weak order    *)
(* and the files are sorted, the result is at every moment a prefix of a   *)
(* sorted answer.                                                          *)
(***************************************************************************)
EXTENDS MergeSort, TLAPS, SequenceTheorems, FiniteSetTheorems

\* The lines taken from the streams so far.
Taken == {r \in DataLines : r[2] <= pos[r[1]]}

\* The strengthening of HeapHoldsFronts and NothingLostOrInvented that every step
\* keeps: a taken line is in the heap or handed out, never both.
Accounting ==
  /\ pc \in {"open", "prime"} => heap = {} /\ out = <<>> /\ writable = FALSE
  /\ pc = "prime" =>
       \A i \in Stream : pos[i] = IF i \in opened /\ file[i] # <<>> THEN 1 ELSE 0
  /\ pc = "done" => heap = {}
  /\ pc # "done" => onDisk = Stream
  /\ HeapHoldsFronts
  /\ Written \subseteq Taken
  /\ Written \cap heap = {}
  /\ IsInjective(out)
  /\ writable => Taken \subseteq heap \cup Written

\* Streams are numbered from 1, and a file is a sequence of lines.
LEMMA FileType ==
  ASSUME TypeOK
  PROVE  /\ file \in Seq(Seq(Line))
         /\ \A i \in Stream : file[i] \in Seq(Line) /\ Available(i) \in Nat
BY MergeAssumption DEF TypeOK, Stream, Available

\* A data line is a line number from 2 up in an opened stream.
LEMMA DataLineDef ==
  /\ \A i, n : <<i, n>> \in DataLines <=> i \in Stream /\ n \in 2 .. Available(i)
  /\ \A r \in DataLines : \E i \in Stream : \E n \in 2 .. Available(i) : r = <<i, n>>
BY DEF DataLines

\* A line is taken when its stream has been read up to it.
LEMMA TakenDef ==
  /\ \A i, n : <<i, n>> \in Taken <=>
       i \in Stream /\ n \in 2 .. Available(i) /\ n <= pos[i]
  /\ \A r \in Taken : \E i \in Stream : \E n \in 2 .. Available(i) : r = <<i, n>>
BY DataLineDef DEF Taken

\* What appending a line does to the set of lines written.
LEMMA AppendWrites ==
  ASSUME NEW S, NEW s \in Seq(S), NEW e \in S
  PROVE  /\ Range(Append(s, e)) = Range(s) \cup {e}
         /\ IsInjective(s) /\ e \notin Range(s) => IsInjective(Append(s, e))
<1>1. /\ DOMAIN s = 1 .. Len(s) /\ Len(s) \in Nat
      /\ DOMAIN Append(s, e) = 1 .. (Len(s) + 1)
      /\ \A i \in 1 .. Len(s) : Append(s, e)[i] = s[i]
      /\ Append(s, e)[Len(s) + 1] = e
  BY AppendProperties, LenProperties
<1>2. \A i \in 1 .. (Len(s) + 1) : i \in 1 .. Len(s) \/ i = Len(s) + 1
  BY <1>1
<1>3. Range(Append(s, e)) = Range(s) \cup {e}
  BY <1>1, <1>2 DEF Range
<1>4. ASSUME IsInjective(s), e \notin Range(s)
      PROVE  IsInjective(Append(s, e))
  BY <1>1, <1>2, <1>4 DEF Range, IsInjective
<1> QED
  BY <1>3, <1>4

\* No step takes a variable out of its type.
LEMMA MergeTypeKept ==
  ASSUME TypeOK, [MergeNext]_mergeVars
  PROVE  TypeOK'
<1>1. CASE OpenAndSkipHeaders
  BY <1>1 DEF OpenAndSkipHeaders, TypeOK, Stream
<1>2. CASE PrimeHeap
  <2>1. writable' \in BOOLEAN
    BY <1>2, Zenon DEF PrimeHeap, Outcome
  <2>2. pos' \in [Stream -> Nat] /\ heap' \subseteq Stream \X Nat
    BY <1>2 DEF PrimeHeap, FrontOf, TypeOK
  <2> QED
    BY <1>2, <2>1, <2>2 DEF PrimeHeap, TypeOK, Stream
<1>3. CASE MergeStep
  <2>1. PICK top \in heap :
          /\ writable' \in {w \in Outcome : w => writable}
          /\ out' = IF writable' THEN Append(out, top) ELSE out
          /\ \/ /\ pos' = [pos EXCEPT ![top[1]] = @ + 1]
                /\ heap' = (heap \ {top}) \cup {<<top[1], pos[top[1]] + 1>>}
             \/ /\ heap' = heap \ {top}
                /\ UNCHANGED pos
    BY <1>3, Zenon DEF MergeStep, MayWrite, HasNext, FrontOf
  <2>2. top \in Stream \X Nat /\ top[1] \in Stream /\ pos[top[1]] \in Nat
    BY <2>1 DEF TypeOK
  <2>3. out' \in Seq(Stream \X Nat)
    BY <2>1, <2>2, AppendProperties DEF TypeOK
  <2>4. pos' \in [Stream -> Nat] /\ heap' \subseteq Stream \X Nat
    BY <2>1, <2>2 DEF TypeOK
  <2>5. writable' \in BOOLEAN
    BY <2>1, Zenon DEF Outcome
  <2> QED
    BY <2>3, <2>4, <2>5, <1>3 DEF MergeStep, TypeOK, Stream
<1>4. CASE CleanUp
  BY <1>4 DEF CleanUp, TypeOK, Stream
<1>5. CASE UNCHANGED mergeVars
  BY <1>5 DEF mergeVars, TypeOK, Stream
<1> QED
  BY <1>1, <1>2, <1>3, <1>4, <1>5 DEF MergeNext

\* merge_sort starts with values of the types.
LEMMA MergeStartsTyped == Init => TypeOK
<1> SUFFICES ASSUME Init PROVE TypeOK
  OBVIOUS
<1>1. out \in Seq(Stream \X Nat)
  BY EmptySeq DEF Init
<1>2. writable \in BOOLEAN
  BY Zenon DEF Init
<1> QED
  BY <1>1, <1>2 DEF Init, TypeOK

\* The type invariant holds of every behaviour, with no assumption on the order.
THEOREM MergeTypeCorrect == Spec => []TypeOK
BY MergeStartsTyped, MergeTypeKept, PTL DEF Spec

\* Opening takes no data line: every stream is read at most up to its header.
LEMMA OpenKeepsAccounting ==
  ASSUME TypeOK, Accounting, OpenAndSkipHeaders
  PROVE  Accounting'
<1>1. /\ heap' = {} /\ out' = <<>> /\ writable' = FALSE
      /\ onDisk' = Stream' /\ pc' = "prime" /\ Stream' = Stream
  BY Zenon DEF OpenAndSkipHeaders, Accounting, Stream
<1>2. \A i \in Stream' : pos'[i] = IF i \in opened' /\ file'[i] # <<>> THEN 1 ELSE 0
  BY DEF OpenAndSkipHeaders, Stream
<1>3. Written' = {} /\ IsInjective(out)'
  BY <1>1 DEF Written, Range, IsInjective
<1>4. HeapHoldsFronts'
  BY <1>1 DEF HeapHoldsFronts
<1> QED
  BY <1>1, <1>2, <1>3, <1>4 DEF Accounting

\* Priming takes the first data line of every stream that has one, and no other.
LEMMA PrimeKeepsAccounting ==
  ASSUME TypeOK, Accounting, PrimeHeap
  PROVE  Accounting'
<1> DEFINE ready == {i \in Stream : pos[i] < Available(i)}
<1>1. /\ pos' = [i \in Stream |-> IF i \in ready THEN pos[i] + 1 ELSE pos[i]]
      /\ heap' = {<<i, pos[i] + 1>> : i \in ready}
      /\ pc' = "merge" /\ out' = <<>> /\ onDisk' = Stream /\ Stream' = Stream
      /\ opened' = opened /\ file' = file
  BY DEF PrimeHeap, HasNext, FrontOf, Accounting, Stream
<1>2. \A i \in Stream : Available(i)' = Available(i) /\ Available(i) \in Nat
  BY <1>1, FileType DEF Available
<1>3. \A i \in Stream : pos[i] = IF i \in opened /\ file[i] # <<>> THEN 1 ELSE 0
  BY DEF Accounting, PrimeHeap
<1>4. \A i \in Stream : pos[i] = IF Available(i) > 0 THEN 1 ELSE 0
  BY <1>3, FileType, EmptySeq, LenProperties DEF Available
<1>5. \A i \in Stream : /\ i \in ready => pos'[i] = 2 /\ Available(i) >= 2
                        /\ i \notin ready => pos'[i] = Available(i) /\ pos'[i] < 2
  BY <1>1, <1>2, <1>4
<1>6. heap' = {<<i, 2>> : i \in ready}
  BY <1>1, <1>2, <1>4
<1>7. HeapHoldsFronts'
  <2>1. \A r \in heap' : r \in DataLines' /\ r[2] = pos'[r[1]]
    BY <1>1, <1>2, <1>5, <1>6, DataLineDef DEF DataLines
  <2>2. \A i \in Stream : <<i, pos'[i]>> \in heap' \/ pos'[i] = Available(i)'
    BY <1>2, <1>5, <1>6
  <2> QED
    BY <1>1, <2>1, <2>2 DEF HeapHoldsFronts
<1>8. Taken' \subseteq heap'
  <2> SUFFICES ASSUME NEW r \in Taken' PROVE r \in heap'
    OBVIOUS
  <2>1. PICK i \in Stream : \E n \in 2 .. Available(i) : r = <<i, n>> /\ n <= pos'[i]
    BY <1>1, <1>2 DEF Taken, DataLines
  <2> QED
    BY <1>2, <1>5, <1>6, <2>1
<1>9. Written' = {} /\ IsInjective(out)'
  BY <1>1 DEF Written, Range, IsInjective
<1> QED
  BY <1>1, <1>7, <1>8, <1>9 DEF Accounting

\* What a turn of the loop does, in terms of the line written: the stream it came
\* from hands over its next line, or is at its end.
LEMMA MergeStepEffect ==
  ASSUME TypeOK, Accounting, MergeStep
  PROVE  \E top \in heap :
           /\ IsTop(top)
           /\ top \in Taken /\ top[1] \in Stream /\ top = <<top[1], pos[top[1]]>>
           /\ Stream' = Stream /\ DataLines' = DataLines
           /\ writable' => writable
           /\ writable' = TRUE => out' = Append(out, top)
           /\ writable' = FALSE => out' = out
           /\ \/ LET next == <<top[1], pos[top[1]] + 1>> IN
                 /\ pos' = [pos EXCEPT ![top[1]] = @ + 1]
                 /\ heap' = (heap \ {top}) \cup {next}
                 /\ next \in DataLines
                 /\ next \notin Taken
                 /\ Taken' = Taken \cup {next}
              \/ /\ pos' = pos
                 /\ heap' = heap \ {top}
                 /\ pos[top[1]] = Available(top[1])
                 /\ Taken' = Taken
<1>1. PICK top \in heap :
        /\ IsTop(top)
        /\ writable' \in {w \in Outcome : w => writable}
        /\ out' = IF writable' THEN Append(out, top) ELSE out
        /\ \/ /\ pos[top[1]] < Available(top[1])
              /\ pos' = [pos EXCEPT ![top[1]] = @ + 1]
              /\ heap' = (heap \ {top}) \cup {<<top[1], pos[top[1]] + 1>>}
           \/ /\ ~(pos[top[1]] < Available(top[1]))
              /\ heap' = heap \ {top}
              /\ UNCHANGED pos
  BY Zenon DEF MergeStep, MayWrite, HasNext, FrontOf
<1> DEFINE i == top[1]
           next == <<i, pos[i] + 1>>
<1>2. /\ Stream' = Stream /\ file' = file /\ opened' = opened /\ pc = "merge"
      /\ \A j \in Stream : Available(j)' = Available(j) /\ Available(j) \in Nat
  BY FileType DEF MergeStep, Stream, Available
<1>3. DataLines' = DataLines
  BY <1>2 DEF DataLines
<1>4. /\ i \in Stream /\ top = <<i, pos[i]>> /\ top \in DataLines
      /\ pos[i] \in 2 .. Available(i)
  <2>1. top \in DataLines /\ top[2] = pos[top[1]]
    BY <1>2 DEF Accounting, HeapHoldsFronts
  <2> QED
    BY <2>1, DataLineDef
<1>5. top \in Taken
  BY <1>4, TakenDef, <1>2
<1>6. writable' => writable
  BY <1>1, Zenon
<1>7. /\ writable' = TRUE => out' = Append(out, top)
      /\ writable' = FALSE => out' = out
  BY <1>1
<1>8. CASE /\ pos[i] < Available(i)
           /\ pos' = [pos EXCEPT ![i] = @ + 1]
           /\ heap' = (heap \ {top}) \cup {next}
  <2>1. next \in DataLines
    BY <1>2, <1>4, <1>8, DataLineDef
  <2>2. next \notin Taken
    BY <1>2, <1>4, TakenDef
  <2>3. ASSUME NEW j \in Stream, NEW n \in 2 .. Available(j)
        PROVE  n <= pos'[j] <=> n <= pos[j] \/ <<j, n>> = next
    BY <1>2, <1>4, <1>8 DEF TypeOK
  <2>4. \A r \in DataLines : r[2] <= pos'[r[1]] <=> r[2] <= pos[r[1]] \/ r = next
    BY <2>3, DataLineDef
  <2>5. Taken' = Taken \cup {next}
    BY <1>3, <2>1, <2>4 DEF Taken
  <2> QED
    BY <1>1, <1>2, <1>3, <1>4, <1>5, <1>6, <1>7, <1>8, <2>1, <2>2, <2>5
<1>9. CASE /\ ~(pos[i] < Available(i))
           /\ heap' = heap \ {top}
           /\ UNCHANGED pos
  <2>1. Taken' = Taken
    BY <1>3, <1>9 DEF Taken
  <2>2. pos[i] = Available(i)
    BY <1>2, <1>4, <1>9
  <2> QED
    BY <1>1, <1>2, <1>3, <1>4, <1>5, <1>6, <1>7, <1>9, <2>1, <2>2
<1> QED
  BY <1>1, <1>8, <1>9

\* A turn of the loop hands one line over from the heap to the result, and takes
\* one from the same stream.
LEMMA MergeStepKeepsAccounting ==
  ASSUME TypeOK, Accounting, MergeStep
  PROVE  Accounting'
<1>1. PICK top \in heap :
        /\ top \in Taken /\ top[1] \in Stream /\ top = <<top[1], pos[top[1]]>>
        /\ Stream' = Stream /\ DataLines' = DataLines
        /\ writable' => writable
        /\ writable' = TRUE => out' = Append(out, top)
        /\ writable' = FALSE => out' = out
        /\ \/ LET next == <<top[1], pos[top[1]] + 1>> IN
              /\ pos' = [pos EXCEPT ![top[1]] = @ + 1]
              /\ heap' = (heap \ {top}) \cup {next}
              /\ next \in DataLines
              /\ next \notin Taken
              /\ Taken' = Taken \cup {next}
           \/ /\ pos' = pos
              /\ heap' = heap \ {top}
              /\ pos[top[1]] = Available(top[1])
              /\ Taken' = Taken
  BY MergeStepEffect, Zenon
<1>2. /\ pc = "merge" /\ pc' = "merge" /\ onDisk' = onDisk
      /\ \A j \in Stream : Available(j)' = Available(j)
  BY DEF MergeStep, Stream, Available
<1>3. /\ \A r \in heap : r \in DataLines /\ r[2] = pos[r[1]]
      /\ \A j \in Stream : <<j, pos[j]>> \in heap \/ pos[j] = Available(j)
      /\ Written \subseteq Taken /\ Written \cap heap = {} /\ IsInjective(out)
      /\ onDisk = Stream
  BY <1>2 DEF Accounting, HeapHoldsFronts
<1>4. writable' \in BOOLEAN
  BY <1>2, Zenon DEF MergeStep, MayWrite, Outcome
<1>5. HeapHoldsFronts'
  <2>1. CASE UNCHANGED pos /\ heap' = heap \ {top} /\ pos[top[1]] = Available(top[1])
    BY <1>1, <1>2, <1>3, <2>1 DEF HeapHoldsFronts
  <2>2. CASE /\ pos' = [pos EXCEPT ![top[1]] = @ + 1]
             /\ heap' = (heap \ {top}) \cup {<<top[1], pos[top[1]] + 1>>}
             /\ <<top[1], pos[top[1]] + 1>> \in DataLines
    <3>1. \A r \in heap \ {top} : r[1] # top[1] /\ r[1] \in Stream
      BY <1>1, <1>3, DataLineDef
    <3>2. \A r \in heap' : r \in DataLines' /\ r[2] = pos'[r[1]]
      <4>1. pos \in [Stream -> Nat]
        BY DEF TypeOK
      <4>2. \A r \in heap \ {top} : pos'[r[1]] = pos[r[1]]
        BY <2>2, <3>1, <4>1
      <4>3. pos'[top[1]] = pos[top[1]] + 1
        BY <1>1, <2>2, <4>1
      <4> QED
        BY <1>1, <1>3, <2>2, <4>2, <4>3
    <3>3. \A j \in Stream' : <<j, pos'[j]>> \in heap' \/ pos'[j] = Available(j)'
      BY <1>1, <1>2, <1>3, <2>2 DEF TypeOK
    <3> QED
      BY <3>2, <3>3 DEF HeapHoldsFronts
  <2> QED
    BY <1>1, <2>1, <2>2
<1>6. top \notin Written /\ out \in Seq(Stream \X Nat) /\ top \in Stream \X Nat
  BY <1>3, <1>1 DEF TypeOK
<1>7. /\ Written' = IF writable' = TRUE THEN Written \cup {top} ELSE Written
      /\ IsInjective(out)'
  <2>1. CASE writable' = TRUE
    <3>1. out' = Append(out, top)
      BY <1>1, <2>1
    <3> QED
      BY <1>3, <1>6, <2>1, <3>1, AppendWrites DEF Written
  <2>2. CASE writable' = FALSE
    BY <1>1, <1>3, <2>2 DEF Written
  <2> QED
    BY <1>4, <2>1, <2>2
<1>8. Written' \subseteq Taken'
  BY <1>1, <1>3, <1>7
<1>9. Written' \cap heap' = {}
  <2>1. heap \subseteq Taken
    BY <1>2, <1>3, DataLineDef, FileType DEF Taken
  <2> QED
    BY <1>1, <1>3, <1>7, <2>1
<1>10. ASSUME writable' = TRUE
       PROVE  Taken' \subseteq heap' \cup Written'
  <2>1. writable
    BY <1>1, <1>10
  <2>2. Taken \subseteq heap \cup Written
    BY <2>1 DEF Accounting
  <2> QED
    BY <1>1, <1>7, <1>10, <2>2
<1> QED
  BY <1>1, <1>2, <1>3, <1>4, <1>5, <1>7, <1>8, <1>9, <1>10 DEF Accounting

\* No step loses a line or hands it out twice.
LEMMA AccountingKept ==
  ASSUME TypeOK, Accounting, [MergeNext]_mergeVars
  PROVE  Accounting'
<1>1. CASE OpenAndSkipHeaders
  BY <1>1, OpenKeepsAccounting
<1>2. CASE PrimeHeap
  BY <1>2, PrimeKeepsAccounting
<1>3. CASE MergeStep
  BY <1>3, MergeStepKeepsAccounting
<1>4. CASE CleanUp
  BY <1>4 DEF CleanUp, Accounting, HeapHoldsFronts, Written, Taken, DataLines,
              Available, Stream
<1>5. CASE UNCHANGED mergeVars
  BY <1>5 DEF mergeVars, Accounting, HeapHoldsFronts, Written, Taken, DataLines,
              Available, Stream
<1> QED
  BY <1>1, <1>2, <1>3, <1>4, <1>5 DEF MergeNext

\* Before the first step nothing is read and nothing is written.
LEMMA AccountingStarts == Init => Accounting /\ OutputIsLowerSet
BY DEF Init, Accounting, HeapHoldsFronts, Written, Range, IsInjective, OutputIsLowerSet

\* The heap never loses a stream before its end; no turn of the loop can.
THEOREM MergeAccounts == Spec => []Accounting
BY AccountingStarts, AccountingKept, MergeTypeCorrect, PTL DEF Spec

\* No stream drops out of the merge before its end, and none is in it twice.
THEOREM MergeHoldsFronts == Spec => []HeapHoldsFronts
<1>1. Accounting => HeapHoldsFronts
  BY DEF Accounting
<1> QED
  BY <1>1, MergeAccounts, PTL

\* A heap that ran empty has handed out every line.
LEMMA EmptyHeapIsAll ==
  ASSUME TypeOK, Accounting, pc \in {"merge", "done"}, heap = {}, writable
  PROVE  DataLines \subseteq Written
<1>1. \A i \in Stream : pos[i] = Available(i)
  BY DEF Accounting, HeapHoldsFronts
<1>2. DataLines \subseteq Taken
  BY <1>1, DataLineDef, FileType DEF Taken
<1> QED
  BY <1>2 DEF Accounting

\* Nothing is invented or repeated, and when no file operation failed nothing is
\* lost, whatever the files and whatever the comparison.
THEOREM MergeLosesNothing == Spec => []NothingLostOrInvented
<1>1. TypeOK /\ Accounting => NothingLostOrInvented
  <2> SUFFICES ASSUME TypeOK, Accounting PROVE NothingLostOrInvented
    OBVIOUS
  <2>1. Written \subseteq DataLines /\ IsInjective(out)
    BY DEF Accounting, Taken
  <2>2. onDisk # Stream => pc = "done" /\ heap = {}
    BY DEF Accounting
  <2> QED
    BY <2>1, <2>2, EmptyHeapIsAll DEF NothingLostOrInvented
<1> QED
  BY <1>1, MergeTypeCorrect, MergeAccounts, PTL

\* The files that are read are sorted below their header.
FilesSorted ==
  \A i \in Stream :
    \A m, n \in 2 .. Len(file[i]) : m < n => ~Smaller(file[i][n], file[i][m])

\* The comparison is a strict weak order of the lines it is asked about.
DataOrdered ==
  /\ \A x, y \in DataLines : Smaller(Text(x), Text(y)) => ~Smaller(Text(y), Text(x))
  /\ \A x, y, z \in DataLines :
       Smaller(Text(x), Text(z)) => Smaller(Text(x), Text(y)) \/ Smaller(Text(y), Text(z))

\* The heap holds at most one line of every stream.
LEMMA HeapIsFinite ==
  ASSUME TypeOK, Accounting, pc = "merge"
  PROVE  IsFiniteSet(heap)
<1>1. IsFiniteSet(Stream)
  <2>1. Len(file) \in Nat /\ Stream = 1 .. Len(file)
    BY FileType, LenProperties DEF Stream
  <2> QED
    BY <2>1, FS_Interval
<1> DEFINE fronts == {<<i, pos[i]>> : i \in Stream}
           f == [i \in Stream |-> <<i, pos[i]>>]
<1>2. IsFiniteSet(fronts)
  <2>1. f \in Surjection(Stream, fronts)
    BY DEF Surjection
  <2> QED
    BY <1>1, <2>1, FS_Surjection
<1>3. heap \subseteq fronts
  <2> SUFFICES ASSUME NEW r \in heap PROVE r \in fronts
    OBVIOUS
  <2>1. r \in DataLines /\ r[2] = pos[r[1]]
    BY DEF Accounting, HeapHoldsFronts
  <2> QED
    BY <2>1, DataLineDef
<1> QED
  BY <1>2, <1>3, FS_Subset

\* A heap that is not empty has a line with none ahead of it: one with fewest lines
\* smaller than it.
LEMMA FirstExists ==
  ASSUME DataOrdered, TypeOK, Accounting, pc = "merge", heap # {}
  PROVE  \E g \in heap : IsFirst(g)
<1> DEFINE less(x) == {y \in heap : Smaller(Text(y), Text(x))}
           T == {less(x) : x \in heap}
           R == StrictSubsetOrdering(heap)
<1>1. heap \subseteq DataLines
  BY DEF Accounting, HeapHoldsFronts
<1>2. IsWellFoundedOn(R, SUBSET heap)
  BY HeapIsFinite, FS_StrictSubsetOrderingWellFounded, FS_FiniteSubsetsOfFinite
<1>3. T \subseteq SUBSET heap /\ T # {}
  OBVIOUS
<1> HIDE DEF R
<1>4. PICK D \in T : \A E \in T : ~(<<E, D>> \in R)
  BY <1>2, <1>3, WFMin
<1>5. PICK x \in heap : D = less(x)
  BY <1>4
<1>6. ASSUME NEW g \in heap, Smaller(Text(g), Text(x))
      PROVE  FALSE
  <2>1. \A y \in heap : Smaller(Text(y), Text(g)) => Smaller(Text(y), Text(x))
    BY <1>1, <1>6 DEF DataOrdered
  <2>2. ~Smaller(Text(g), Text(g))
    BY <1>1 DEF DataOrdered
  <2>3. less(g) \in T /\ less(g) \subseteq D /\ less(g) # D
    BY <1>5, <1>6, <2>1, <2>2
  <2>4. <<less(g), D>> \in R
    BY <1>3, <1>4, <2>3 DEF R, StrictSubsetOrdering
  <2> QED
    BY <1>4, <2>3, <2>4
<1> QED
  BY <1>5, <1>6 DEF IsFirst, MayFollow

\* What is on top of the heap has no smaller line in it.
LEMMA TopIsFirst ==
  ASSUME DataOrdered, TypeOK, Accounting, pc = "merge", NEW top \in heap, IsTop(top)
  PROVE  \A g \in heap : ~Smaller(Text(g), Text(top))
<1>1. heap \subseteq DataLines
  BY DEF Accounting, HeapHoldsFronts
<1>2. IsFirst(top)
  BY FirstExists DEF IsTop
<1> SUFFICES ASSUME NEW g \in heap, Smaller(Text(g), Text(top)) PROVE FALSE
  OBVIOUS
<1>3. ~Smaller(Text(top), Text(g)) /\ g # top
  BY <1>1 DEF DataOrdered
<1> QED
  BY <1>2, <1>3 DEF IsFirst, MayFollow

\* The line at the top of the heap is smallest among all lines not written yet: of
\* each stream the heap holds the front, and what follows the front is no smaller.
LEMMA TopIsLeast ==
  ASSUME FilesSorted, DataOrdered, TypeOK, Accounting, pc = "merge", writable,
         NEW top \in heap, IsTop(top),
         NEW r \in DataLines \ Written, r # top
  PROVE  InOrder(top, r)
<1>1. /\ \A i \in Stream : Len(file[i]) \in Nat
      /\ \A i \in Stream : \A n \in 2 .. Available(i) : n \in 2 .. Len(file[i])
  BY FileType, LenProperties DEF Available
<1>3. PICK j \in Stream : \E n \in 2 .. Available(j) : r = <<j, n>>
  BY DataLineDef
<1>4. PICK n \in 2 .. Available(j) : r = <<j, n>>
  BY <1>3
<1>5. /\ \A x \in heap : x \in DataLines /\ x[2] = pos[x[1]]
      /\ \A i \in Stream : <<i, pos[i]>> \in heap \/ pos[i] = Available(i)
      /\ Taken \subseteq heap \cup Written
  BY Zenon DEF Accounting, HeapHoldsFronts
<1>6. top \in DataLines
  BY <1>5
<1>7. \A g \in heap : ~Smaller(Text(g), Text(top))
  BY TopIsFirst
<1>8. CASE n <= pos[j]
  <2>1. r \in heap
    BY <1>4, <1>5, <1>8, TakenDef
  <2> QED
    BY <1>7, <2>1 DEF InOrder
<1>9. CASE ~(n <= pos[j])
  <2> DEFINE front == <<j, pos[j]>>
  <2>1. front \in heap /\ front \in DataLines
    BY <1>4, <1>5, <1>9, FileType DEF TypeOK
  <2>2. pos[j] \in 2 .. Available(j) /\ pos[j] < n
    BY <1>4, <1>9, <2>1, DataLineDef, FileType DEF TypeOK
  <2>3. ~Smaller(Text(r), Text(front))
    <3>1. j \in DOMAIN file /\ n \in 2 .. Len(file[j]) /\ pos[j] \in 2 .. Len(file[j])
      BY <1>1, <1>4, <2>2 DEF Stream
    <3>2. ~Smaller(file[j][n], file[j][pos[j]])
      BY <2>2, <3>1 DEF FilesSorted, Stream
    <3> QED
      BY <1>4, <3>2 DEF Text
  <2>4. ~Smaller(Text(front), Text(top))
    BY <1>7, <2>1
  <2>5. Smaller(Text(r), Text(top)) =>
          Smaller(Text(r), Text(front)) \/ Smaller(Text(front), Text(top))
    BY <1>6, <2>1 DEF DataOrdered
  <2> QED
    BY <2>3, <2>4, <2>5 DEF InOrder
<1> QED
  BY <1>8, <1>9

\* No step writes a line too early.
LEMMA LowerSetKept ==
  ASSUME FilesSorted, DataOrdered, TypeOK, Accounting, OutputIsLowerSet,
         [MergeNext]_mergeVars
  PROVE  OutputIsLowerSet'
<1>1. CASE OpenAndSkipHeaders
  BY <1>1 DEF OpenAndSkipHeaders, Accounting, OutputIsLowerSet
<1>2. CASE PrimeHeap
  BY <1>2 DEF PrimeHeap, Accounting, OutputIsLowerSet
<1>3. CASE MergeStep
  <2>1. PICK top \in heap :
          /\ IsTop(top)
          /\ top \in Taken /\ DataLines' = DataLines
          /\ writable' => writable
          /\ writable' = TRUE => out' = Append(out, top)
          /\ writable' = FALSE => out' = out
    BY <1>3, MergeStepEffect, Zenon
  <2>2. /\ file' = file /\ pc = "merge"
        /\ \A x, y : InOrder(x, y)' <=> InOrder(x, y)
    BY <1>3 DEF MergeStep, InOrder, Text
  <2>3. CASE writable' = FALSE
    BY <2>1, <2>2, <2>3 DEF OutputIsLowerSet, Written
  <2>4. CASE writable' = TRUE
    <3>1. /\ top \in DataLines \ Written
          /\ out \in Seq(Stream \X Nat) /\ top \in Stream \X Nat
      BY <2>1 DEF Accounting, Taken, TypeOK
    <3>2. /\ DOMAIN out = 1 .. Len(out) /\ Len(out) \in Nat
          /\ DOMAIN out' = 1 .. (Len(out) + 1)
          /\ \A k \in 1 .. Len(out) : out'[k] = out[k]
          /\ out'[Len(out) + 1] = top
      BY <2>1, <2>4, <3>1, AppendProperties, LenProperties
    <3>3. Written' = Written \cup {top}
      <4>1. out' = Append(out, top)
        BY <2>1, <2>4
      <4>2. Range(Append(out, top)) = Range(out) \cup {top}
        BY <3>1, AppendWrites
      <4> QED
        BY <4>1, <4>2 DEF Written
    <3>4. \A k \in DOMAIN out : InOrder(out[k], top)
      BY <3>1 DEF OutputIsLowerSet
    <3>5. \A r \in DataLines \ Written' : InOrder(top, r)
      BY <2>1, <2>2, <2>4, <3>3, TopIsLeast
    <3>6. \A k, l \in DOMAIN out' : k < l => InOrder(out'[k], out'[l])
      <4> SUFFICES ASSUME NEW k \in 1 .. Len(out), NEW l \in 1 .. (Len(out) + 1),
                          k < l
                   PROVE  InOrder(out'[k], out'[l])
        BY <3>2
      <4>1. CASE l = Len(out) + 1
        BY <3>2, <3>4, <4>1
      <4>2. CASE l # Len(out) + 1
        BY <3>2, <4>2 DEF OutputIsLowerSet
      <4> QED
        BY <4>1, <4>2
    <3>7. \A k \in DOMAIN out' : \A r \in DataLines \ Written' : InOrder(out'[k], r)
      BY <3>2, <3>3, <3>5 DEF OutputIsLowerSet
    <3> QED
      BY <2>1, <2>2, <3>6, <3>7 DEF OutputIsLowerSet
  <2>5. writable' \in BOOLEAN
    BY <1>3, Zenon DEF MergeStep, MayWrite, Outcome
  <2> QED
    BY <2>3, <2>4, <2>5
<1>4. CASE CleanUp
  BY <1>4 DEF CleanUp, OutputIsLowerSet, InOrder, Text, Written, DataLines,
              Available, Stream
<1>5. CASE UNCHANGED mergeVars
  BY <1>5 DEF mergeVars, OutputIsLowerSet, InOrder, Text, Written, DataLines,
              Available, Stream
<1> QED
  BY <1>1, <1>2, <1>3, <1>4, <1>5 DEF MergeNext

\* Sorted inputs and an order of all lines are what the merge asks for.
LEMMA InputsAreOrdered ==
  ASSUME StrictWeakOrder, InputsSorted, TypeOK
  PROVE  FilesSorted /\ DataOrdered
<1>1. FilesSorted
  BY DEF FilesSorted, InputsSorted, TypeOK, Stream
<1>2. \A x \in DataLines : Text(x) \in Line
  <2>1. \A i \in Stream : \A n \in 2 .. Available(i) : file[i][n] \in Line
    BY FileType, LenProperties, ElementOfSeq DEF Available
  <2> QED
    BY <2>1, DataLineDef DEF Text
<1>3. DataOrdered
  BY <1>2, Zenon DEF DataOrdered, StrictWeakOrder
<1> QED
  BY <1>1, <1>3

\* At every moment the result is in order and nothing it still lacks is smaller than
\* what it has, for every strict weak order and all sorted files.
THEOREM MergeIsSorted ==
  ASSUME StrictWeakOrder, InputsSorted
  PROVE  Spec => []OutputIsLowerSet
BY AccountingStarts, LowerSetKept, InputsAreOrdered, MergeTypeCorrect, MergeAccounts, PTL
DEF Spec
=============================================================================
