----------------------------- MODULE MergeSort -----------------------------
(***************************************************************************)
(* Sorter::merge_sort: the k-way merge that joins the sorted chunk files   *)
(* of one input, and later the sorted inputs of a batch, into one file.    *)
(*                                                                         *)
(* A line is known by where it was read: <<i, n>> is line n of the file    *)
(* behind streams[i], and Text(<<i, n>>) is what it says.  The pairs the   *)
(* code keeps in min_heap are (i, text); the line number tells apart two   *)
(* lines of one file that say the same.                                    *)
(*                                                                         *)
(* No file operation of merge_sort is checked.  An ifstream that did not   *)
(* open delivers no line, and an ofstream that did not open, or that met   *)
(* an error, drops everything written to it from then on.  MayFail says    *)
(* whether a model includes those outcomes.                                *)
(***************************************************************************)
EXTENDS Naturals, Sequences, Functions

CONSTANTS
  Line,           \* the lines a file may hold
  Smaller(_, _),  \* Compare::is_smaller on the rows of two lines
  MayFail,        \* whether opening or writing a file may fail
  Inputs          \* the tuples of files merge_sort may be given

ASSUME MergeAssumption ==
  /\ MayFail \in BOOLEAN
  /\ \A f \in Inputs : f \in Seq(Seq(Line))

VARIABLES
  file,      \* file[i]: the lines of the file sorted_chunk_paths[i]
  opened,    \* the streams whose ifstream opened
  pos,       \* pos[i]: how many lines getline has taken from streams[i]
  heap,      \* min_heap
  out,       \* the lines written below the header of the result
  writable,  \* the result's ofstream is open and has met no error
  onDisk,    \* the chunk files not removed yet
  pc

mergeVars == <<file, opened, pos, heap, out, writable, onDisk, pc>>

Stream == DOMAIN file
Text(r) == file[r[1]][r[2]]

\* The number of lines getline delivers before it fails.
Available(i) == IF i \in opened THEN Len(file[i]) ELSE 0

Outcome == IF MayFail THEN BOOLEAN ELSE {TRUE}

\* Variant: the loop looks one line ahead and leaves the last line of a stream.
HasNextButLast(i) == pos[i] + 1 < Available(i)

\* getline will deliver another line of stream i.
HasNext(i) == pos[i] < Available(i)

\* Variant: the number of the stream is taken one too high.
FrontOfNext(i) == <<i + 1, pos[i] + 1>>

\* The entry min_heap gets for the next line of stream i.
FrontOf(i) == <<i, pos[i] + 1>>

\* Variant: a failed write leaves no mark on the stream of the result.
MayWriteAgain == Outcome

\* The result takes output until an error, and never again.
MayWrite == {w \in Outcome : w => writable}

\* Variant: the comparison is not negated.
MayFollowUnnegated(a, b) == Smaller(Text(a), Text(b))

\* Compare::operator(), the negation of is_smaller: priority_queue takes it for
\* "the first comes before the second", and hands out last what comes before.
MayFollow(a, b) == ~Smaller(Text(a), Text(b))

\* No entry comes out of the heap ahead of r, unless r could also come out ahead of it.
IsFirst(r) == \A g \in heap \ {r} : MayFollow(r, g) => MayFollow(g, r)

\* min_heap.top(): a first entry, or any entry where the comparison runs in circles.
IsTop(r) == r \in heap /\ (IsFirst(r) \/ ~\E g \in heap : IsFirst(g))

----------------------------------------------------------------------------

Init ==
  /\ file \in Inputs
  /\ opened = {}
  /\ pos = [i \in Stream |-> 0]
  /\ heap = {}
  /\ out = <<>>
  /\ writable = FALSE
  /\ onDisk = Stream
  /\ pc = "open"

\* Opens every chunk file and drops its first line, the header.
OpenAndSkipHeaders ==
  /\ pc = "open"
  /\ opened' \in {s \in SUBSET Stream : MayFail \/ s = Stream}
  /\ pos' = [i \in Stream |-> IF i \in opened' /\ file[i] # <<>> THEN 1 ELSE 0]
  /\ pc' = "prime"
  /\ UNCHANGED <<file, heap, out, writable, onDisk>>

\* Pushes the first data line of every stream that has one, then opens the
\* result file and writes its header.
PrimeHeap ==
  /\ pc = "prime"
  /\ LET ready == {i \in Stream : HasNext(i)}
     IN  /\ pos' = [i \in Stream |-> IF i \in ready THEN pos[i] + 1 ELSE pos[i]]
         /\ heap' = {FrontOf(i) : i \in ready}
  /\ writable' \in Outcome
  /\ pc' = "merge"
  /\ UNCHANGED <<file, opened, out, onDisk>>

\* Variant: a line that could not be written stays on the heap for another try.
MergeStepWithRetry ==
  /\ pc = "merge"
  /\ \E top \in heap :
       LET i == top[1] IN
       /\ IsTop(top)
       /\ writable' \in MayWrite
       /\ \/ ~writable' /\ UNCHANGED <<out, pos, heap>>
          \/ /\ writable'
             /\ out' = Append(out, top)
             /\ pos' = IF HasNext(i) THEN [pos EXCEPT ![i] = @ + 1] ELSE pos
             /\ heap' = (heap \ {top}) \cup {FrontOf(j) : j \in {i} \cap {k \in Stream : HasNext(k)}}
  /\ UNCHANGED <<file, opened, onDisk, pc>>

\* One turn of the merge loop: the top of the heap is written, if the result
\* still takes output, and the next line of its stream takes its place.
MergeStep ==
  /\ pc = "merge"
  /\ \E top \in heap :
       LET i == top[1] IN
       /\ IsTop(top)
       /\ writable' \in MayWrite
       /\ out' = IF writable' THEN Append(out, top) ELSE out
       /\ \/ /\ HasNext(i)
             /\ pos' = [pos EXCEPT ![i] = @ + 1]
             /\ heap' = (heap \ {top}) \cup {FrontOf(i)}
          \/ /\ ~HasNext(i)
             /\ heap' = heap \ {top}
             /\ UNCHANGED pos
  /\ UNCHANGED <<file, opened, onDisk, pc>>

\* Variant: the loop is left while lines are in the heap, as the check_exit that is
\* commented out there would do.
CleanUpEarly ==
  /\ pc = "merge"
  /\ onDisk' = {}
  /\ pc' = "done"
  /\ UNCHANGED <<file, opened, pos, heap, out, writable>>

\* The heap ran empty: every stream is closed and its file removed.
CleanUp ==
  /\ pc = "merge"
  /\ heap = {}
  /\ onDisk' = {}
  /\ pc' = "done"
  /\ UNCHANGED <<file, opened, pos, heap, out, writable>>

MergeNext == OpenAndSkipHeaders \/ PrimeHeap \/ MergeStep \/ CleanUp

Spec == Init /\ [][MergeNext]_mergeVars

\* merge_sort is a loop of one thread with nothing to wait for.
FairSpec == Spec /\ WF_mergeVars(MergeNext)

----------------------------------------------------------------------------
(* What makes a merge correct. *)

\* std::sort and priority_queue ask this of a comparison.
StrictWeakOrder ==
  /\ \A a, b \in Line : Smaller(a, b) => ~Smaller(b, a)
  /\ \A a, b, c \in Line : Smaller(a, c) => Smaller(a, b) \/ Smaller(b, c)

InOrder(a, b) == ~Smaller(Text(b), Text(a))

\* merge_sort is given files that are sorted below their header.
InputsSorted ==
  \A f \in Inputs : \A i \in DOMAIN f :
    \A m, n \in 2 .. Len(f[i]) : m < n => ~Smaller(f[i][n], f[i][m])

\* The data lines of all streams that opened.
DataLines == UNION {{i} \X (2 .. Available(i)) : i \in Stream}

Written == Range(out)

\* The variables hold values of their types, and streams only lines they have.
TypeOK ==
  /\ file \in Inputs
  /\ opened \subseteq Stream
  /\ pos \in [Stream -> Nat]
  /\ heap \subseteq Stream \X Nat
  /\ out \in Seq(Stream \X Nat)
  /\ writable \in BOOLEAN
  /\ onDisk \subseteq Stream
  /\ pc \in {"open", "prime", "merge", "done"}

\* While merging, the heap holds of every stream the line taken last, and
\* nothing of a stream only when that stream has been read to its end: no
\* stream drops out of the merge early and none is in the heap twice.
HeapHoldsFronts ==
  pc \in {"merge", "done"} =>
    /\ \A r \in heap : r \in DataLines /\ r[2] = pos[r[1]]
    /\ \A i \in Stream : <<i, pos[i]>> \in heap \/ pos[i] = Available(i)

\* At every moment the result is in order, and no line it lacks is smaller than
\* one it has.  A reader that finds a result cut short by a failed write still
\* finds a prefix of the full answer.
OutputIsLowerSet ==
  /\ \A k, l \in DOMAIN out : k < l => InOrder(out[k], out[l])
  /\ \A k \in DOMAIN out : \A r \in DataLines \ Written : InOrder(out[k], r)

\* Every line of the result was a data line of a chunk, and was written once.
\* When the chunk files are gone and no file operation failed, every data line
\* of every chunk is in the result.
NothingLostOrInvented ==
  /\ Written \subseteq DataLines
  /\ IsInjective(out)
  /\ onDisk # Stream /\ writable => Written = DataLines

\* The merge of finite files comes to its end.
Terminates == <>(pc = "done")
============================================================================
