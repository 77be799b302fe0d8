------------------------------- MODULE Sorter -------------------------------
(***************************************************************************)
(* Sorter::sort: every file of a batch is split into chunks, the chunks    *)
(* are sorted by one asynchronous task each, the sorted chunks are merged  *)
(* into a sorted file, and the sorted files are merged into the result.    *)
(* Splitting and merging are the steps of modules Split and MergeSort; the *)
(* tasks run beside the thread that spawns them and waits for them.        *)
(*                                                                         *)
(* The files the program makes are in disk, a function from paths to       *)
(* lines.  A line is a pair <<f, n>>: line n of the input file f.          *)
(*                                                                         *)
(* A chunk is sorted by the columns its own header names.  The merge goes  *)
(* by CSV_COLUMNS, which is the first line of the first file that the      *)
(* process ever sorted.                                                    *)
(***************************************************************************)
EXTENDS Integers, Sequences, FiniteSets, SequencesExt

CONSTANTS
  Content,        \* Content[f]: the lines of the input file f
  Size,           \* Size[l]: the bytes of line l
  Fields,         \* Fields[l]: the number of fields CSV::read_row finds in line l
  Blank,          \* the line without characters
  Named,          \* the lines that, as a header, name all of COLUMNS_TO_SORT
  Smaller(_, _, _),  \* Smaller(h, a, b): is_smaller on the lines a and b with the columns of h
  Throws(_, _, _),   \* that one of them lacks a field that decides, so that at() throws
  NoColumns,      \* CSV_COLUMNS is empty
  Earlier,        \* what an earlier call of sort may have left in CSV_COLUMNS
  Batches,        \* the vectors of paths sort may be given
  ChunkSize,      \* MAX_CHUNK_SIZE_MB in bytes
  MayFail         \* whether file operations and std::async may fail

\* The line that getline leaves behind when it reads the first of ls.
FirstOf(ls) == IF ls = <<>> THEN Blank ELSE ls[1]
FirstLine(f) == FirstOf(Content[f])

\* The line that the split takes for the header of f, the first that is not blank.
TextLines(f) == {n \in DOMAIN Content[f] : Size[Content[f][n]] > 0}
HeaderNumber(f) == CHOOSE n \in TextLines(f) : \A m \in TextLines(f) : n <= m
HeaderLine(f) == IF TextLines(f) = {} THEN Blank ELSE Content[f][HeaderNumber(f)]

ASSUME SorterAssumption ==
  /\ ChunkSize \in Nat \ {0} /\ MayFail \in BOOLEAN
  /\ Size \in [DOMAIN Size -> Nat] /\ Fields \in [DOMAIN Size -> Nat]
  /\ Named \subseteq DOMAIN Size
  /\ \A f \in DOMAIN Content : Content[f] \in Seq(DOMAIN Size)
  /\ Batches \subseteq Seq(DOMAIN Content) \ {<<>>}
  /\ Blank \in DOMAIN Size /\ Size[Blank] = 0 /\ Blank \notin Named
  /\ NoColumns \notin DOMAIN Size
  /\ Earlier \subseteq {NoColumns, Blank} \cup {FirstLine(f) : f \in DOMAIN Content}
  /\ \A f \in DOMAIN Content : TextLines(f) # {} => HeaderLine(f) \in Named

\* The lines with a field for every column of h.
Complete(h) == {l \in DOMAIN Size : Fields[l] >= Fields[h]}

\* Every column has numbers in all complete rows or other text in all, so that is_smaller
\* orders them; see RowOrder.
ASSUME RowsAreOrdered ==
  \A h \in Named :
    /\ \A a, b \in Complete(h) : ~Throws(h, a, b)
    /\ \A a, b \in Complete(h) : Smaller(h, a, b) => ~Smaller(h, b, a)
    /\ \A a, b, c \in Complete(h) : Smaller(h, a, c) => Smaller(h, a, b) \/ Smaller(h, b, c)

VARIABLES
  files,    \* the parameter of sort
  columns,  \* CSV_COLUMNS, as the line it was read from
  sorted,   \* Len(sorted_files)
  phase,    \* where sort and external_sort stand
  disk,
  stuck,    \* the paths whose last removal failed; only the properties read this
  source, next, header, lines, bytes, chunks, reading,  \* see Split
  task,     \* task[k]: how far the std::async task of chunk k has come
  awaited,  \* the futures whose get() has returned
  file, opened, pos, heap, out, writable, onDisk, mergePc  \* see MergeSort

splitState == <<source, next, header, lines, bytes, chunks, reading>>
mergeState == <<file, opened, pos, heap, out, writable, onDisk, mergePc>>
vars == <<files, columns, sorted, phase, disk, stuck, splitState, task, awaited, mergeState>>

\* file_path, the file external_sort works on.
current == files[sorted + 1]

LineOf(x) == Content[x[1]][x[2]]
OwnHeader(x) == HeaderLine(x[1])
LineSmaller(x, y) == Smaller(OwnHeader(x), LineOf(x), LineOf(y))
Malformed(x) == Fields[LineOf(x)] < Fields[OwnHeader(x)]

\* convert_to_row indexes the columns of h past their end.
TooLong(x, h) == Fields[LineOf(x)] > Fields[h]

ChunkPath(k) == <<current, k, "tmp">>

\* Variant: the names of the sorted chunks do not tell the chunks apart.
SortedChunkPathOfFile(k) == <<current, 1, "tmp_s">>

SortedChunkPath(k) == <<current, k, "tmp_s">>
SortedPath(g) == <<g, 0, "s">>
ResultPath == <<files[1], 0, "min-max">>

\* The header that merge_sort writes, whatever the headers of its inputs are.
MergedHeader == <<"", 0>>

Lines(path) == IF path \in DOMAIN disk THEN disk[path] ELSE <<>>
With(path, ls) == [p \in DOMAIN disk \cup {path} |-> IF p = path THEN ls ELSE disk[p]]

\* Variant: nothing is ever removed.
RemoveNoFile(paths) == UNCHANGED <<disk, stuck>>

\* std::remove for each of paths.  A file that cannot be removed stays, and nobody is told.
RemoveFiles(paths) ==
  \E kept \in (IF MayFail THEN SUBSET (paths \cap DOMAIN disk) ELSE {{}}) :
    /\ disk' = [p \in DOMAIN disk \ (paths \ kept) |-> disk[p]]
    /\ stuck' = (stuck \ paths) \cup kept

\* What a stream delivers of a file with the lines ls: nothing, if it cannot be opened.
Delivered(ls) == {ls} \cup (IF MayFail THEN {<<>>} ELSE {})

\* The files merge_sort works on: the sorted chunks, or in the end the sorted files.
MergePath(k) == IF phase = "final" THEN SortedPath(files[k]) ELSE SortedChunkPath(k)
Target == IF phase = "final" THEN ResultPath ELSE SortedPath(current)

\* The lines of a file as Compare::operator() sees them, with the columns it takes them to
\* have.
Under(h, ls) == [m \in DOMAIN ls |-> <<h, ls[m]>>]
UnderSmaller(x, y) == Smaller(x[1], LineOf(x[2]), LineOf(y[2]))
RowIn(r) == file[r[1]][r[2]][2]

S == INSTANCE Split WITH Sources <- UNION {Delivered(Content[g]) : g \in DOMAIN Content}
M == INSTANCE MergeSort WITH
       Line <- (DOMAIN Size) \X ((DOMAIN Content) \X Nat),
       Smaller <- UnderSmaller, Inputs <- {}, pc <- mergePc

Running(k) == task[k] \in {"started", "writing"}

----------------------------------------------------------------------------
(* The thread that runs sort. *)

Init ==
  /\ files \in Batches
  /\ columns \in Earlier
  /\ sorted = 0
  /\ phase = "next"
  /\ disk = <<>> /\ stuck = {}
  /\ source = <<>> /\ next = 0 /\ header = 0 /\ lines = <<>> /\ bytes = 0
  /\ chunks = <<>> /\ reading = FALSE
  /\ task = <<>>
  /\ awaited = 0
  /\ file = <<>> /\ opened = {} /\ pos = <<>> /\ heap = {} /\ out = <<>>
  /\ writable = FALSE /\ onDisk = {} /\ mergePc = "done"

\* CSV_COLUMNS after it was read, where that has not happened yet; each call opens the file
\* on its own.
ReadOnce ==
  IF columns = NoColumns THEN {FirstOf(ls) : ls \in Delivered(Content[current])} ELSE {columns}

\* external_sort is called on the next file.
StartFile ==
  /\ phase = "next"
  /\ sorted < Len(files)
  /\ columns' \in ReadOnce
  /\ source' \in Delivered(Content[current])
  /\ next' = 0 /\ header' = 0 /\ lines' = <<>> /\ bytes' = 0 /\ chunks' = <<>>
  /\ reading' = TRUE
  /\ task' = <<>>
  /\ awaited' = 0
  /\ phase' = "split"
  /\ UNCHANGED <<files, sorted, disk, stuck, mergeState>>

\* A chunk that the split writes is a file from then on.  Where it cannot be opened, a chunk
\* of that name stays that could not be removed when the batch had the file before.
SplitStep ==
  /\ phase = "split"
  /\ S!SplitNext
  /\ \/ chunks' = chunks /\ UNCHANGED disk
     \/ /\ chunks' # chunks
        /\ \/ disk' = With(ChunkPath(Len(chunks')),
                           [m \in DOMAIN Last(chunks') |-> <<current, Last(chunks')[m]>>])
           \/ MayFail /\ Last(chunks') = <<>> /\ UNCHANGED disk
  /\ phase' = IF reading' THEN "split" ELSE "spawn"
  /\ UNCHANGED <<files, columns, sorted, stuck, task, awaited, mergeState>>

\* Variant: one task too many.
UnspawnedOrEqual == Len(task) <= Len(chunks)

Unspawned == Len(task) < Len(chunks)

\* std::async starts a task of its own for every chunk; it throws when the system has
\* no thread left.
Spawn ==
  /\ phase = "spawn"
  /\ \/ /\ Unspawned
        /\ task' = Append(task, "started")
        /\ UNCHANGED phase
     \/ /\ MayFail
        /\ Unspawned
        /\ phase' = "unwind"
        /\ UNCHANGED task
     \/ /\ ~Unspawned
        /\ phase' = "await"
        /\ UNCHANGED task
  /\ UNCHANGED <<files, columns, sorted, disk, stuck, splitState, awaited, mergeState>>

\* Variant: the exception of a task is not rethrown.
AwaitStored ==
  /\ phase = "await"
  /\ awaited < Len(task)
  /\ task[awaited + 1] = "stored"
  /\ awaited' = awaited + 1
  /\ UNCHANGED <<files, columns, sorted, phase, disk, stuck, splitState, task, mergeState>>

\* get() of the next future in the order of the chunks; it rethrows what its task threw.
Await ==
  /\ phase = "await"
  /\ awaited < Len(task)
  /\ \/ /\ task[awaited + 1] = "stored"
        /\ awaited' = awaited + 1
        /\ UNCHANGED phase
     \/ /\ task[awaited + 1] = "threw"
        /\ phase' = "unwind"
        /\ UNCHANGED awaited
  /\ UNCHANGED <<files, columns, sorted, disk, stuck, splitState, task, mergeState>>

\* merge_sort is called, and finds the files at paths as they are now.
StartMerge(paths) ==
  /\ file' = [k \in DOMAIN paths |-> Under(columns, Lines(paths[k]))]
  /\ opened' = {}
  /\ pos' = [k \in DOMAIN paths |-> 0]
  /\ heap' = {}
  /\ out' = <<>>
  /\ writable' = FALSE
  /\ onDisk' = DOMAIN paths
  /\ mergePc' = "open"

\* Variant: the first result is enough.
FirstAwaited == awaited > 0 \/ task = <<>>

AllAwaited == awaited = Len(task)

MergeChunks ==
  /\ phase = "await"
  /\ AllAwaited
  /\ StartMerge([k \in DOMAIN task |-> SortedChunkPath(k)])
  /\ phase' = "merge"
  /\ UNCHANGED <<files, columns, sorted, disk, stuck, splitState, task, awaited>>

MergeFiles ==
  /\ phase = "next"
  /\ sorted = Len(files)
  /\ StartMerge([k \in DOMAIN files |-> SortedPath(files[k])])
  /\ phase' = "final"
  /\ UNCHANGED <<files, columns, sorted, disk, stuck, splitState, task, awaited>>

Merging == phase \in {"merge", "final"}

MergeOpens ==
  /\ Merging
  /\ M!OpenAndSkipHeaders
  /\ UNCHANGED <<files, columns, sorted, phase, disk, stuck, splitState, task, awaited>>

\* The heap h is put in order: some of its lines are compared two by two, and two lines may
\* lack a field that decides, or have more fields than there are columns.
Pairs(h) == {p \in h \X h : p[1] # p[2]}
ThrowsOn(p) == Throws(columns, LineOf(RowIn(p[1])), LineOf(RowIn(p[2])))

Comparing(h) ==
  \/ /\ Pairs(h) = {} \/ \E p \in Pairs(h) : ~ThrowsOn(p)
     /\ UNCHANGED phase
  \/ /\ \E p \in Pairs(h) : ThrowsOn(p)
     /\ phase' = "unwind"
  \/ /\ \E p \in Pairs(h) : TooLong(RowIn(p[1]), columns)
     /\ phase' = "killed"

\* The result file is there from the moment the heap is primed.
MergePrimes ==
  /\ Merging
  /\ M!PrimeHeap
  /\ Comparing(heap')
  /\ disk' = IF writable' /\ phase' = phase THEN With(Target, <<MergedHeader>>) ELSE disk
  /\ UNCHANGED <<files, columns, sorted, stuck, splitState, task, awaited>>

\* An exception comes before the line is written, from pop(), or after it, from push().
MergeWrites ==
  /\ Merging
  /\ M!MergeStep
  /\ Comparing(heap')
  /\ \/ /\ out' # out
        /\ disk' = With(Target, Append(disk[Target], RowIn(Last(out'))))
     \/ /\ out' = out \/ phase' # phase
        /\ UNCHANGED disk
  /\ UNCHANGED <<files, columns, sorted, stuck, splitState, task, awaited>>

\* merge_sort returns, to external_sort or to sort.
MergeReturns ==
  /\ Merging
  /\ M!CleanUp
  /\ RemoveFiles({MergePath(k) : k \in onDisk \ onDisk'})
  /\ phase' = IF phase = "merge" THEN "clean" ELSE "done"
  /\ UNCHANGED <<files, columns, sorted, splitState, task, awaited>>

\* Variant: the last chunk is forgotten.
ChunkPathsButLast == {ChunkPath(k) : k \in 1 .. Len(chunks) - 1}

ChunkPaths == {ChunkPath(k) : k \in DOMAIN chunks}

\* external_sort removes the unsorted chunks and returns.
RemoveChunks ==
  /\ phase = "clean"
  /\ RemoveFiles(ChunkPaths)
  /\ sorted' = sorted + 1
  /\ phase' = "next"
  /\ UNCHANGED <<files, columns, splitState, task, awaited, mergeState>>

\* Variant: the tasks are detached.
UnwindDetached ==
  /\ phase = "unwind"
  /\ phase' = "aborted"
  /\ UNCHANGED <<files, columns, sorted, disk, stuck, splitState, task, awaited, mergeState>>

\* An exception leaves external_sort: the destructor of every future waits for its
\* task, and nothing on disk is removed.
Unwind ==
  /\ phase = "unwind"
  /\ \A k \in DOMAIN task : ~Running(k)
  /\ phase' = "aborted"
  /\ UNCHANGED <<files, columns, sorted, disk, stuck, splitState, task, awaited, mergeState>>

Main ==
  \/ StartFile \/ SplitStep \/ Spawn \/ Await \/ MergeChunks
  \/ MergeOpens \/ MergePrimes \/ MergeWrites \/ MergeReturns
  \/ RemoveChunks \/ MergeFiles \/ Unwind

----------------------------------------------------------------------------
(* The task of chunk k: Sorter::process. *)

\* The header line of a sorted chunk; for an empty file it is a blank line, which the
\* merge would skip like a header.
HeaderOf(ls) == IF ls = <<>> THEN <<>> ELSE <<ls[1]>>

\* The rows of the chunk that task k sorts.
ChunkRows(k) == LET chunk == Lines(ChunkPath(k)) IN {chunk[m] : m \in 2 .. Len(chunk)}

\* Loading a row with more fields than the header may end the process.
LoadKills(k) ==
  /\ task[k] = "started"
  /\ \E r \in ChunkRows(k) : TooLong(r, OwnHeader(r))
  /\ phase' = "killed"
  /\ UNCHANGED <<disk, task>>

\* The chunk is loaded and sorted, and the sorted file opened and given its header.  If one of
\* the two cannot be opened the task reports success all the same: the sorted file is then
\* without a row, or as it was.
OpenSortedChunk(k) ==
  /\ task[k] = "started"
  /\ \/ /\ disk' = With(SortedChunkPath(k), HeaderOf(Lines(ChunkPath(k))))
        /\ task' = [task EXCEPT ![k] = "writing"]
     \/ /\ MayFail
        /\ disk' \in {disk, With(SortedChunkPath(k), <<>>)}
        /\ task' = [task EXCEPT ![k] = "stored"]
  /\ UNCHANGED phase

\* The rows are written in order; std::sort may leave equal rows in any order.  A row
\* without one of the columns makes the task throw.
StoreSortedChunk(k) ==
  /\ task[k] = "writing"
  /\ \/ /\ \E r \in ChunkRows(k) : Malformed(r)
        /\ task' = [task EXCEPT ![k] = "threw"]
        /\ UNCHANGED disk
     \/ /\ \A r \in ChunkRows(k) : ~Malformed(r)
        /\ task' = [task EXCEPT ![k] = "stored"]
        /\ \E s \in SetToSeqs(ChunkRows(k)), n \in 0 .. Cardinality(ChunkRows(k)) :
             /\ \A i, j \in DOMAIN s : i < j => ~LineSmaller(s[j], s[i])
             /\ MayFail \/ n = Cardinality(ChunkRows(k))
             /\ disk' = With(SortedChunkPath(k),
                             disk[SortedChunkPath(k)] \o SubSeq(s, 1, n))
  /\ UNCHANGED phase

Task(k) ==
  /\ phase # "killed"
  /\ k \in DOMAIN task
  /\ LoadKills(k) \/ OpenSortedChunk(k) \/ StoreSortedChunk(k)
  /\ UNCHANGED <<files, columns, sorted, stuck, splitState, awaited, mergeState>>

\* A file has at most as many chunks as lines.
ChunkNumber == UNION {DOMAIN Content[g] : g \in DOMAIN Content}

Next == Main \/ \E k \in ChunkNumber : Task(k)

Spec == Init /\ [][Next]_vars

\* The operating system lets every thread that can run go on.
FairSpec == Spec /\ WF_vars(Main) /\ \A k \in ChunkNumber : WF_vars(Task(k))

----------------------------------------------------------------------------
(* What makes the sort correct. *)

Resting == \A k \in DOMAIN task : ~Running(k)

\* The variables hold values of their types.
TypeOK ==
  /\ files \in Batches
  /\ columns \in (DOMAIN Size) \cup {NoColumns}
  /\ sorted \in 0 .. Len(files)
  /\ phase \in {"next", "split", "spawn", "await", "merge", "clean", "final",
                "done", "unwind", "aborted", "killed"}
  /\ task \in Seq({"started", "writing", "stored", "threw"})
  /\ Len(task) <= Len(chunks)
  /\ awaited \in 0 .. Len(task)
  /\ stuck \subseteq DOMAIN disk
  /\ \A p \in DOMAIN disk : disk[p] \in Seq(((DOMAIN Content) \X Nat) \cup {MergedHeader})
  /\ mergePc \in {"open", "prime", "merge", "done"}

\* The files of the batch all have the columns that the merge goes by.
SameColumns == \A i \in DOMAIN files : HeaderLine(files[i]) = columns

\* What merge_sort relies on while it reads: no task still writes, every file it was given
\* is on disk as it was when merge_sort was called, and is sorted by the columns that the
\* merge goes by, if the files agree on these.
MergeInputsAreSettled ==
  Merging =>
    /\ Resting
    /\ \A k \in onDisk :
         /\ file[k] = Under(columns, Lines(MergePath(k)))
         /\ SameColumns =>
              \A m, n \in 2 .. Len(file[k]) : m < n => ~UnderSmaller(file[k][n], file[k][m])

\* No task outlives the call that started it: the lambda of a task uses this.
TasksAreJoined == phase \in {"next", "final", "done", "aborted"} => Resting

\* When sort returns, of every file of the batch each temporary file is gone or could not be
\* removed, and the result alone is left, whichever file operations failed on the way.
OnlyResultIsLeft == phase = "done" => DOMAIN disk \subseteq {ResultPath} \cup stuck

\* A file of the batch is not sorted over the temporary files of the one before, except for
\* those that could not be removed.
FilesStartClean ==
  phase = "next" => DOMAIN disk \subseteq {SortedPath(files[i]) : i \in 1 .. sorted} \cup stuck

DataLinesOf(g) == {<<g, n>> : n \in {m \in DOMAIN Content[g] : \E h \in TextLines(g) : h < m}}

\* What the caller of sort sees of it.
Outcome ==
  CASE phase = "done" -> "sorted"
    [] phase \in {"aborted", "killed"} -> "failed"
    [] OTHER -> "working"

Result == IF phase = "done" /\ ResultPath \in DOMAIN disk THEN Tail(disk[ResultPath]) ELSE <<>>

\* Seen from outside, sort takes its columns and then makes one step: to the rows of all the
\* files, in order if the files have these columns; or to an end without a result that some
\* row explains, or a pair of rows.
Abstract == INSTANCE SortSpec WITH
  RowsOf <- DataLinesOf,
  HeaderOf <- HeaderLine,
  RowSmaller <- LAMBDA h, x, y : Smaller(h, LineOf(x), LineOf(y)),
  TooShort <- Malformed,
  Readable <- LAMBDA h, x : ~TooLong(x, h) /\ ~TooLong(x, OwnHeader(x)),
  Comparable <- LAMBDA h, x, y : ~Throws(h, LineOf(x), LineOf(y)),
  FirstLineOf <- FirstLine,
  NoHeader <- NoColumns,
  batch <- files,
  header <- columns,
  outcome <- Outcome,
  result <- Result

ImplementsSortSpec == Abstract!Spec

\* A call of sort ends: no wait for a task is a wait for ever.
SortReturns == <>(phase \in {"done", "aborted", "killed"})

\* The example of print_usage: the directory that benchmark/generate fills can be sorted.
BenchmarkDataIsSorted == phase # "aborted"
============================================================================
