--------------------------- MODULE Sorter_proofs ---------------------------
(***************************************************************************)
(* A call of Sorter::sort for any batch, any chunk size and any order of   *)
(* its tasks: no task outlives the call, and no temporary file does,       *)
(* unless an exception left the call early; what is merged is settled and  *)
(* sorted; and what is returned is what SortSpec promises.                 *)
(*                                                                         *)
(* The split and the merge are not proved again: Split_proofs and          *)
(* MergeSort_proofs are instantiated, and their invariants are conjuncts   *)
(* of the one of this module.                                              *)
(***************************************************************************)
EXTENDS Sorter, TLAPS, SequenceTheorems, FiniteSetTheorems

----------------------------------------------------------------------------
(* Sequences of anything. *)

IsSequence(s) == \E n \in Nat : s = [i \in 1 .. n |-> s[i]]

LEMMA SequenceOf ==
  ASSUME NEW s, IsSequence(s), NEW x
  PROVE  s \in Seq({s[i] : i \in DOMAIN s} \cup {x})
BY DEF IsSequence

LEMMA EmptyIsSequence == IsSequence(<<>>) /\ DOMAIN <<>> = {}
<1>1. <<>> = [i \in 1 .. 0 |-> <<>>[i]]
  OBVIOUS
<1> QED
  BY <1>1 DEF IsSequence

LEMMA AppendIsSequence ==
  ASSUME NEW s, IsSequence(s), NEW x
  PROVE  /\ IsSequence(Append(s, x))
         /\ Len(s) \in Nat /\ DOMAIN s = 1 .. Len(s)
         /\ Len(Append(s, x)) = Len(s) + 1
         /\ DOMAIN Append(s, x) = 1 .. Len(s) + 1
         /\ \A i \in 1 .. Len(s) : Append(s, x)[i] = s[i]
         /\ Append(s, x)[Len(s) + 1] = x
<1> DEFINE Values == {s[i] : i \in DOMAIN s} \cup {x}
           t == Append(s, x)
<1>1. s \in Seq(Values) /\ x \in Values
  BY SequenceOf
<1> HIDE DEF Values
<1>2. Len(s) \in Nat /\ DOMAIN s = 1 .. Len(s)
  BY <1>1, LenProperties
<1>3. /\ t \in Seq(Values) /\ Len(t) = Len(s) + 1
      /\ \A i \in 1 .. Len(s) : t[i] = s[i]
      /\ t[Len(s) + 1] = x
  BY <1>1, AppendProperties
<1>4. DOMAIN t = 1 .. Len(s) + 1 /\ t \in [1 .. Len(t) -> Values] /\ Len(t) \in Nat
  BY <1>3, LenProperties
<1>5. t = [i \in 1 .. Len(t) |-> t[i]]
  BY <1>4
<1>6. IsSequence(t)
  BY <1>4, <1>5 DEF IsSequence
<1> QED
  BY <1>2, <1>3, <1>4, <1>6

----------------------------------------------------------------------------
(* The tasks of a file and the thread that waits for them. *)

\* A file is merged when get() has returned for every task, and get() returns for tasks
\* that are done.
Joined ==
  /\ IsSequence(task)
  /\ awaited \in 0 .. Len(task)
  /\ \A k \in 1 .. awaited : task[k] = "stored"
  /\ phase \in {"merge", "clean", "next", "final", "done"} => awaited = Len(task)
  /\ phase = "aborted" => Resting
  /\ phase = "split" => task = <<>>

\* A step of task k is a step of a task that runs, and changes no other.
LEMMA TaskEffect ==
  ASSUME Joined, NEW k, Task(k)
  PROVE  /\ k \in DOMAIN task /\ Running(k)
         /\ DOMAIN task = 1 .. Len(task) /\ Len(task) \in Nat
         /\ IsSequence(task') /\ Len(task') = Len(task) /\ DOMAIN task' = DOMAIN task
         /\ \A j \in DOMAIN task : j # k => task'[j] = task[j]
         /\ phase' \in {phase, "killed"}
         /\ UNCHANGED <<files, sorted, chunks, stuck, awaited, onDisk>>
         /\ \/ disk' = disk
            \/ \E ls : disk' = With(SortedChunkPath(k), ls)
<1>1. PICK n \in Nat : task = [i \in 1 .. n |-> task[i]]
  BY DEF Joined, IsSequence
<1>2. DOMAIN task = 1 .. n /\ Len(task) = n
  <2>1. task \in Seq({task[i] : i \in DOMAIN task} \cup {0})
    BY SequenceOf DEF Joined
  <2> QED
    BY <1>1, <2>1, LenProperties
<1>3. k \in DOMAIN task
  BY DEF Task
<1>4. task' = task \/ \E v : task' = [task EXCEPT ![k] = v]
  BY DEF Task, LoadKills, OpenSortedChunk, StoreSortedChunk
<1>5. /\ task' = [i \in 1 .. n |-> task'[i]]
      /\ \A j \in DOMAIN task : j # k => task'[j] = task[j]
  BY <1>1, <1>2, <1>4
<1>6. DOMAIN task' = 1 .. n /\ IsSequence(task')
  BY <1>5 DEF IsSequence
<1>7. Len(task') = n
  <2>1. task' \in Seq({task'[i] : i \in DOMAIN task'} \cup {0})
    BY <1>6, SequenceOf
  <2> QED
    BY <1>6, <2>1, LenProperties
<1>8. Running(k)
  BY DEF Task, LoadKills, OpenSortedChunk, StoreSortedChunk, Running
<1>9. /\ phase' \in {phase, "killed"}
      /\ disk' = disk \/ \E ls : disk' = With(SortedChunkPath(k), ls)
  BY DEF Task, LoadKills, OpenSortedChunk, StoreSortedChunk
<1>10. UNCHANGED <<files, sorted, chunks, stuck, awaited, onDisk>>
  BY DEF Task, splitState, mergeState
<1> QED
  BY <1>2, <1>3, <1>5, <1>6, <1>7, <1>8, <1>9, <1>10

\* As long as every future was waited for, no task runs.
LEMMA JoinedRests ==
  ASSUME Joined, awaited = Len(task)
  PROVE  Resting
<1>1. task \in Seq({task[i] : i \in DOMAIN task} \cup {0})
  BY SequenceOf DEF Joined
<1>2. DOMAIN task = 1 .. Len(task)
  BY <1>1, LenProperties
<1> QED
  BY <1>2 DEF Joined, Resting, Running

LEMMA JoinedKept ==
  ASSUME Joined, [Next]_vars
  PROVE  Joined'
<1>1. task \in Seq({task[i] : i \in DOMAIN task} \cup {0})
  BY SequenceOf DEF Joined
<1>2. /\ DOMAIN task = 1 .. Len(task) /\ Len(task) \in Nat
      /\ awaited \in 0 .. Len(task) /\ awaited \in Nat
      /\ \A k \in 1 .. awaited : k \in 1 .. Len(task) /\ task[k] = "stored"
  <2>1. awaited \in 0 .. Len(task) /\ \A k \in 1 .. awaited : task[k] = "stored"
    BY DEF Joined
  <2> QED
    BY <1>1, <2>1, LenProperties
<1>3. CASE StartFile
  <2>1. task' = <<>> /\ awaited' = 0 /\ phase' = "split"
    BY <1>3 DEF StartFile
  <2>2. IsSequence(task') /\ Len(task') = 0
    BY <2>1, EmptyIsSequence
  <2> QED
    BY <2>1, <2>2 DEF Joined
<1>4. CASE SplitStep
  <2>1. UNCHANGED <<task, awaited>> /\ phase = "split" /\ phase' \in {"split", "spawn"}
    BY <1>4 DEF SplitStep
  <2> QED
    BY <2>1 DEF Joined
<1>5. CASE Spawn
  <2>1. CASE task' = Append(task, "started") /\ phase' = "spawn" /\ awaited' = awaited
    <3>1. /\ IsSequence(task') /\ Len(task') = Len(task) + 1
          /\ \A i \in 1 .. Len(task) : task'[i] = task[i]
      BY <2>1, AppendIsSequence DEF Joined
    <3>2. awaited' \in 0 .. Len(task') /\ \A k \in 1 .. awaited' : task'[k] = "stored"
      BY <1>2, <2>1, <3>1
    <3> QED
      BY <2>1, <3>1, <3>2 DEF Joined
  <2>2. CASE UNCHANGED task /\ phase' \in {"unwind", "await"} /\ awaited' = awaited
    BY <2>2 DEF Joined
  <2> QED
    BY <1>5, <2>1, <2>2 DEF Spawn
<1>6. CASE Await
  <2>1. /\ task' = task /\ awaited < Len(task) /\ phase = "await"
        /\ \/ /\ task[awaited + 1] = "stored"
              /\ awaited' = awaited + 1
              /\ phase' = phase
           \/ phase' = "unwind" /\ awaited' = awaited
    BY <1>6 DEF Await
  <2>2. CASE task[awaited + 1] = "stored" /\ awaited' = awaited + 1 /\ phase' = phase
    <3>1. /\ awaited \in Nat /\ awaited' \in 0 .. Len(task)
          /\ \A k \in 1 .. awaited' : k \in 1 .. awaited \/ k = awaited + 1
      BY <1>2, <2>1, <2>2 DEF Joined
    <3> QED
      BY <2>1, <2>2, <3>1 DEF Joined
  <2>3. CASE phase' = "unwind" /\ awaited' = awaited
    BY <2>1, <2>3 DEF Joined
  <2> QED
    BY <2>1, <2>2, <2>3
<1>7. CASE MergeChunks
  <2>1. UNCHANGED <<task, awaited>> /\ awaited = Len(task) /\ phase' = "merge"
    BY <1>7 DEF MergeChunks, AllAwaited
  <2> QED
    BY <2>1 DEF Joined
<1>8. CASE MergeOpens \/ MergePrimes \/ MergeWrites \/ MergeReturns \/ RemoveChunks
           \/ MergeFiles
  <2>1. /\ UNCHANGED <<task, awaited>>
        /\ phase \in {"merge", "final", "clean", "next"}
    BY <1>8 DEF MergeOpens, MergePrimes, MergeWrites, MergeReturns, RemoveChunks, MergeFiles,
                Merging
  <2>2. phase' \in {phase, "unwind", "killed", "clean", "done", "next", "final"}
    BY <1>8 DEF MergeOpens, MergePrimes, MergeWrites, MergeReturns, RemoveChunks, MergeFiles,
                Comparing
  <2> QED
    BY <2>1, <2>2 DEF Joined
<1>9. CASE Unwind
  <2>1. UNCHANGED <<task, awaited>> /\ phase' = "aborted" /\ Resting'
    BY <1>9 DEF Unwind, Resting, Running
  <2> QED
    BY <2>1 DEF Joined
<1>10. ASSUME NEW k, Task(k)
       PROVE  Joined'
  <2>1. /\ k \in 1 .. Len(task) /\ Running(k)
        /\ IsSequence(task') /\ Len(task') = Len(task) /\ DOMAIN task' = DOMAIN task
        /\ \A j \in DOMAIN task : j # k => task'[j] = task[j]
        /\ phase' \in {phase, "killed"} /\ awaited' = awaited
    BY <1>10, TaskEffect
  <2>2. awaited # Len(task) /\ ~Resting
    BY <1>2, <2>1, JoinedRests DEF Resting
  <2>3. phase \notin {"merge", "clean", "next", "final", "done", "aborted", "split"}
    <3>1. task # <<>>
      BY <2>1
    <3> QED
      BY <2>2, <3>1 DEF Joined
  <2>4. \A j \in 1 .. awaited : task'[j] = "stored"
    <3>1. awaited \in Nat /\ \A j \in 1 .. awaited : j \in DOMAIN task /\ task[j] = "stored"
      BY <1>2
    <3>2. \A j \in 1 .. awaited : j # k
      BY <2>1, <3>1 DEF Running
    <3> QED
      BY <2>1, <3>1, <3>2
  <2> QED
    BY <2>1, <2>3, <2>4 DEF Joined
<1>11. CASE UNCHANGED vars
  BY <1>11 DEF vars, Joined, Resting, Running
<1> QED
  BY <1>3, <1>4, <1>5, <1>6, <1>7, <1>8, <1>9, <1>10, <1>11 DEF Next, Main

LEMMA JoinedHolds == Spec => []Joined
<1>1. Init => Joined
  <2> SUFFICES ASSUME Init PROVE Joined
    OBVIOUS
  <2>1. task = <<>> /\ awaited = 0 /\ phase = "next"
    BY DEF Init
  <2> QED
    BY <2>1, EmptyIsSequence DEF Joined
<1> QED
  BY <1>1, JoinedKept, PTL DEF Spec

\* Whatever the tasks and the operating system do, and whether sort returns or throws: once
\* external_sort has been left, none of its tasks runs.
THEOREM SorterJoinsTasks == Spec => []TasksAreJoined
<1>1. Joined => TasksAreJoined
  BY JoinedRests DEF Joined, TasksAreJoined
<1> QED
  BY <1>1, JoinedHolds, PTL
----------------------------------------------------------------------------
(* The names of the files on disk. *)

Written(n) == {SortedPath(files[i]) : i \in 1 .. n}
SortedChunkPaths == {SortedChunkPath(k) : k \in DOMAIN task}

\* The files on disk, without those that could not be removed.
Loose == DOMAIN disk \ stuck

\* While a file is sorted there are its chunks, sorted chunks and sorted file, and the
\* sorted files of those before.
Names ==
  /\ IsSequence(chunks)
  /\ files \in Seq(DOMAIN Content) /\ Len(files) \in Nat
  /\ sorted \in Nat
  /\ stuck \subseteq DOMAIN disk
  /\ phase # "done" => \A p \in stuck : p[3] \in {"tmp", "tmp_s"}
  /\ phase \in {"split", "spawn", "await", "merge", "clean"} => sorted < Len(files)
  /\ phase = "merge" => onDisk = DOMAIN task
  /\ phase = "final" => onDisk = DOMAIN files /\ sorted = Len(files)
  /\ phase = "next" => Loose \subseteq Written(sorted)
  /\ phase \in {"split", "spawn", "await"} =>
       Loose \subseteq Written(sorted) \cup ChunkPaths \cup SortedChunkPaths
  /\ phase = "merge" =>
       Loose \subseteq Written(sorted) \cup ChunkPaths \cup SortedChunkPaths
                       \cup {SortedPath(current)}
  /\ phase = "clean" =>
       Loose \subseteq Written(sorted) \cup ChunkPaths \cup {SortedPath(current)}
  /\ phase = "final" => Loose \subseteq Written(Len(files)) \cup {ResultPath}
  /\ phase = "done" => Loose \subseteq {ResultPath}

\* Writing a file adds its name to the disk.
LEMMA DiskNames ==
  /\ \A path, ls : DOMAIN With(path, ls) = DOMAIN disk \cup {path}
  /\ \A path, ls : disk' = With(path, ls) /\ stuck' = stuck /\ stuck \subseteq DOMAIN disk =>
       Loose' \subseteq Loose \cup {path} /\ stuck' \subseteq DOMAIN disk'
  /\ disk' = disk /\ stuck' = stuck /\ stuck \subseteq DOMAIN disk =>
       Loose' = Loose /\ stuck' \subseteq DOMAIN disk'
<1>1. \A path, ls : DOMAIN With(path, ls) = DOMAIN disk \cup {path}
  BY DEF With
<1>2. ASSUME NEW path, NEW ls, disk' = With(path, ls), stuck' = stuck, stuck \subseteq DOMAIN disk
      PROVE  Loose' \subseteq Loose \cup {path} /\ stuck' \subseteq DOMAIN disk'
  <2>1. DOMAIN disk' = DOMAIN disk \cup {path}
    BY <1>1, <1>2
  <2> QED
    BY <1>2, <2>1 DEF Loose
<1>3. disk' = disk /\ stuck' = stuck /\ stuck \subseteq DOMAIN disk =>
        Loose' = Loose /\ stuck' \subseteq DOMAIN disk'
  BY DEF Loose
<1> QED
  BY <1>1, <1>2, <1>3

\* Removing files takes their names from the disk, except for those that get stuck.
LEMMA RemovalNames ==
  ASSUME NEW paths, RemoveFiles(paths), stuck \subseteq DOMAIN disk
  PROVE  /\ DOMAIN disk' \subseteq DOMAIN disk
         /\ \A p \in DOMAIN disk' : disk'[p] = disk[p]
         /\ DOMAIN disk \ paths \subseteq DOMAIN disk'
         /\ Loose' \subseteq Loose \ paths
         /\ stuck' \subseteq DOMAIN disk' /\ stuck' \subseteq stuck \cup paths
         /\ ~MayFail => DOMAIN disk' = DOMAIN disk \ paths /\ stuck' = stuck \ paths
<1>1. PICK kept \in (IF MayFail THEN SUBSET (paths \cap DOMAIN disk) ELSE {{}}) :
        /\ disk' = [p \in DOMAIN disk \ (paths \ kept) |-> disk[p]]
        /\ stuck' = (stuck \ paths) \cup kept
  BY DEF RemoveFiles
<1>2. /\ kept \subseteq paths \cap DOMAIN disk
      /\ ~MayFail => kept = {}
  BY <1>1
<1> QED
  BY <1>1, <1>2 DEF Loose

\* merge_sort removes every file it was given.
LEMMA ReturnRemoves == MergeReturns => RemoveFiles({MergePath(k) : k \in onDisk})
<1> SUFFICES ASSUME MergeReturns PROVE RemoveFiles({MergePath(k) : k \in onDisk})
  OBVIOUS
<1>1. onDisk \ onDisk' = onDisk
  BY DEF MergeReturns, M!CleanUp
<1>2. RemoveFiles({MergePath(k) : k \in onDisk \ onDisk'})
  BY DEF MergeReturns
<1> QED
  BY <1>1, <1>2, Zenon

\* Splitting writes one chunk at a time.
LEMMA SplitAppends ==
  ASSUME IsSequence(chunks), S!SplitNext
  PROVE  /\ IsSequence(chunks')
         /\ \/ chunks' = chunks
            \/ /\ DOMAIN chunks \subseteq DOMAIN chunks'
               /\ Len(chunks') \in DOMAIN chunks'
<1>1. ASSUME NEW x, chunks' = Append(chunks, x)
      PROVE  /\ IsSequence(chunks')
             /\ DOMAIN chunks \subseteq DOMAIN chunks'
             /\ Len(chunks') \in DOMAIN chunks'
  <2>1. /\ IsSequence(chunks') /\ Len(chunks) \in Nat
        /\ DOMAIN chunks = 1 .. Len(chunks) /\ DOMAIN chunks' = 1 .. Len(chunks) + 1
        /\ Len(chunks') = Len(chunks) + 1
    BY <1>1, AppendIsSequence
  <2> QED
    BY <2>1
<1>2. chunks' = chunks \/ \E x : chunks' = Append(chunks, x)
  BY DEF S!SplitNext, S!ReadLine, S!Finish, S!WriteChunk
<1> QED
  BY <1>1, <1>2

LEMMA NamesKept ==
  ASSUME Joined, Names, [Next]_vars
  PROVE  Names'
<1>0. stuck \subseteq DOMAIN disk
  BY DEF Names
<1>1. CASE StartFile
  <2>1. /\ UNCHANGED <<files, sorted, disk, stuck>> /\ phase = "next" /\ phase' = "split"
        /\ sorted < Len(files) /\ chunks' = <<>>
    BY <1>1 DEF StartFile
  <2>2. IsSequence(chunks')
    BY <2>1, EmptyIsSequence
  <2>3. Loose' \subseteq Written(sorted)'
    BY <2>1 DEF Names, Written, SortedPath, Loose
  <2> QED
    BY <1>0, <2>1, <2>2, <2>3 DEF Names
<1>2. CASE SplitStep
  <2>1. /\ UNCHANGED <<files, sorted, stuck, task>>
        /\ phase = "split" /\ phase' \in {"split", "spawn"}
        /\ S!SplitNext
        /\ \/ disk' = disk
           \/ chunks' # chunks /\ \E ls : disk' = With(ChunkPath(Len(chunks')), ls)
    BY <1>2 DEF SplitStep
  <2>2. /\ IsSequence(chunks')
        /\ \/ chunks' = chunks
           \/ DOMAIN chunks \subseteq DOMAIN chunks' /\ Len(chunks') \in DOMAIN chunks'
    BY <2>1, SplitAppends DEF Names
  <2>3. Written(sorted)' = Written(sorted) /\ SortedChunkPaths' = SortedChunkPaths
    BY <2>1 DEF Written, SortedPath, SortedChunkPaths, SortedChunkPath, current
  <2>4. Loose \subseteq Written(sorted) \cup ChunkPaths \cup SortedChunkPaths
    BY <2>1 DEF Names
  <2>5. Loose' \subseteq Written(sorted)' \cup ChunkPaths' \cup SortedChunkPaths'
    <3>1. ChunkPaths \subseteq ChunkPaths'
      BY <2>1, <2>2 DEF ChunkPaths, ChunkPath, current
    <3>2. CASE disk' = disk
      <4>1. Loose' = Loose
        BY <1>0, <2>1, <3>2, DiskNames
      <4> QED
        BY <2>3, <2>4, <3>1, <4>1
    <3>3. ASSUME chunks' # chunks, NEW ls, disk' = With(ChunkPath(Len(chunks')), ls)
          PROVE  Loose' \subseteq Written(sorted)' \cup ChunkPaths' \cup SortedChunkPaths'
      <4>1. ChunkPath(Len(chunks')) \in ChunkPaths'
        BY <2>1, <2>2, <3>3 DEF ChunkPaths, ChunkPath, current
      <4>2. Loose' \subseteq Loose \cup {ChunkPath(Len(chunks'))}
        BY <1>0, <2>1, <3>3, DiskNames
      <4> QED
        BY <2>3, <2>4, <3>1, <4>1, <4>2
    <3> QED
      BY <2>1, <3>2, <3>3
  <2>6. stuck' \subseteq DOMAIN disk'
    BY <1>0, <2>1, DiskNames
  <2> QED
    BY <2>1, <2>2, <2>5, <2>6 DEF Names
<1>3. CASE Spawn \/ Await
  <2>1. /\ UNCHANGED <<files, sorted, disk, stuck, chunks>> /\ phase \in {"spawn", "await"}
        /\ phase' \in {"spawn", "await", "unwind"}
        /\ task' = task \/ task' = Append(task, "started")
    BY <1>3 DEF Spawn, Await, splitState
  <2>2. DOMAIN task \subseteq DOMAIN task'
    <3>1. CASE task' = Append(task, "started")
      <4>1. /\ Len(task) \in Nat /\ DOMAIN task = 1 .. Len(task)
            /\ DOMAIN task' = 1 .. Len(task) + 1
        BY <3>1, AppendIsSequence DEF Joined
      <4> QED
        BY <4>1
    <3> QED
      BY <2>1, <3>1
  <2>3. /\ Written(sorted)' = Written(sorted) /\ ChunkPaths' = ChunkPaths
        /\ SortedChunkPaths \subseteq SortedChunkPaths'
    BY <2>1, <2>2 DEF Written, SortedPath, ChunkPaths, ChunkPath, SortedChunkPaths,
                      SortedChunkPath, current
  <2> QED
    BY <2>1, <2>3 DEF Names, Loose
<1>4. CASE MergeChunks
  <2>1. /\ UNCHANGED <<files, sorted, disk, stuck, chunks, task>>
        /\ phase = "await" /\ phase' = "merge"
        /\ onDisk' = DOMAIN task
    BY <1>4 DEF MergeChunks, StartMerge, splitState
  <2>2. /\ Written(sorted)' = Written(sorted) /\ ChunkPaths' = ChunkPaths
        /\ SortedChunkPaths' = SortedChunkPaths
    BY <2>1 DEF Written, SortedPath, ChunkPaths, ChunkPath, SortedChunkPaths,
                SortedChunkPath, current
  <2> QED
    BY <2>1, <2>2 DEF Names, Loose
<1>5. CASE MergeFiles
  <2>1. /\ UNCHANGED <<files, sorted, disk, stuck, chunks>> /\ phase = "next" /\ phase' = "final"
        /\ onDisk' = DOMAIN files /\ sorted = Len(files)
    BY <1>5 DEF MergeFiles, StartMerge, splitState
  <2>2. Written(Len(files))' = Written(sorted)
    BY <2>1 DEF Written, SortedPath
  <2> QED
    BY <2>1, <2>2 DEF Names, Loose
<1>6. CASE MergeOpens \/ MergePrimes \/ MergeWrites
  <2>1. /\ UNCHANGED <<files, sorted, stuck, chunks, task, onDisk>>
        /\ phase \in {"merge", "final"} /\ phase' \in {phase, "unwind", "killed"}
        /\ disk' = disk \/ \E ls : disk' = With(Target, ls)
    BY <1>6 DEF MergeOpens, MergePrimes, MergeWrites, Merging, Comparing, splitState,
                M!OpenAndSkipHeaders, M!PrimeHeap, M!MergeStep
  <2>2. Loose' \subseteq Loose \cup {Target} /\ stuck' \subseteq DOMAIN disk'
    BY <1>0, <2>1, DiskNames
  <2>3. /\ Written(sorted)' = Written(sorted) /\ Written(Len(files))' = Written(Len(files))
        /\ ChunkPaths' = ChunkPaths /\ SortedChunkPaths' = SortedChunkPaths
        /\ SortedPath(current)' = SortedPath(current) /\ ResultPath' = ResultPath
    BY <2>1 DEF Written, SortedPath, ChunkPaths, ChunkPath, SortedChunkPaths,
                SortedChunkPath, current, ResultPath
  <2>4. /\ phase = "merge" => Target = SortedPath(current)
        /\ phase = "final" => Target = ResultPath
    BY DEF Target
  <2> QED
    BY <2>1, <2>2, <2>3, <2>4 DEF Names
<1>7. CASE MergeReturns
  <2>1. /\ UNCHANGED <<files, sorted, chunks, task>>
        /\ \/ phase = "merge" /\ phase' = "clean"
           \/ phase = "final" /\ phase' = "done"
        /\ RemoveFiles({MergePath(k) : k \in onDisk})
    BY <1>7, ReturnRemoves DEF MergeReturns, Merging, splitState
  <2>2. /\ Written(sorted)' = Written(sorted) /\ ChunkPaths' = ChunkPaths
        /\ SortedPath(current)' = SortedPath(current) /\ ResultPath' = ResultPath
    BY <2>1 DEF Written, SortedPath, ChunkPaths, ChunkPath, current, ResultPath
  <2>3. Loose' \subseteq Loose \ {MergePath(k) : k \in onDisk} /\ stuck' \subseteq DOMAIN disk'
    BY <1>0, <2>1, RemovalNames
  <2>4. CASE phase = "merge"
    <3>1. {MergePath(k) : k \in onDisk} = SortedChunkPaths
      BY <2>4 DEF Names, MergePath, SortedChunkPaths
    <3>2. Loose' \subseteq Written(sorted) \cup ChunkPaths \cup {SortedPath(current)}
      BY <2>3, <2>4, <3>1 DEF Names
    <3>3. \A p \in stuck' : p[3] \in {"tmp", "tmp_s"}
      <4>1. stuck' \subseteq stuck \cup SortedChunkPaths
        BY <1>0, <2>1, <3>1, RemovalNames
      <4>2. \A p \in stuck : p[3] \in {"tmp", "tmp_s"}
        BY <2>1, <2>4 DEF Names
      <4>3. \A p \in SortedChunkPaths : p[3] = "tmp_s"
        BY DEF SortedChunkPaths, SortedChunkPath
      <4> QED
        BY <4>1, <4>2, <4>3
    <3> QED
      BY <2>1, <2>2, <2>3, <2>4, <3>2, <3>3 DEF Names
  <2>5. CASE phase = "final"
    <3>1. DOMAIN files = 1 .. Len(files)
      BY LenProperties DEF Names
    <3>2. {MergePath(k) : k \in onDisk} = Written(Len(files))
      BY <2>5, <3>1 DEF Names, MergePath, Written
    <3>3. Loose' \subseteq {ResultPath}
      BY <2>3, <2>5, <3>2 DEF Names
    <3> QED
      BY <2>1, <2>2, <2>3, <2>5, <3>3 DEF Names
  <2> QED
    BY <2>1, <2>4, <2>5
<1>8. CASE RemoveChunks
  <2>1. /\ UNCHANGED <<files, chunks>> /\ phase = "clean" /\ phase' = "next"
        /\ sorted' = sorted + 1 /\ RemoveFiles(ChunkPaths)
    BY <1>8 DEF RemoveChunks, splitState
  <2>2. Loose' \subseteq Written(sorted) \cup {SortedPath(current)}
    <3>1. Loose' \subseteq Loose \ ChunkPaths
      BY <1>0, <2>1, RemovalNames
    <3>2. Loose \subseteq Written(sorted) \cup ChunkPaths \cup {SortedPath(current)}
      BY <2>1, Zenon DEF Names
    <3> QED
      BY <3>1, <3>2
  <2>3. Written(sorted) \cup {SortedPath(current)} \subseteq Written(sorted)'
    <3>1. sorted \in Nat
      BY DEF Names
    <3>2. \A i \in 1 .. sorted : i \in 1 .. sorted'
      BY <2>1, <3>1
    <3>3. sorted + 1 \in 1 .. sorted'
      BY <2>1, <3>1
    <3> QED
      BY <2>1, <3>2, <3>3 DEF Written, SortedPath, current
  <2>4. sorted' \in Nat
    BY <2>1 DEF Names
  <2>5. stuck' \subseteq DOMAIN disk' /\ stuck' \subseteq stuck \cup ChunkPaths
    BY <1>0, <2>1, RemovalNames
  <2>6. \A p \in stuck' : p[3] \in {"tmp", "tmp_s"}
    <3>1. \A p \in stuck : p[3] \in {"tmp", "tmp_s"}
      BY <2>1 DEF Names
    <3>2. \A p \in ChunkPaths : p[3] = "tmp"
      BY DEF ChunkPaths, ChunkPath
    <3> QED
      BY <2>5, <3>1, <3>2
  <2> QED
    BY <2>1, <2>2, <2>3, <2>4, <2>5, <2>6 DEF Names
<1>9. CASE Unwind
  BY <1>9 DEF Unwind, Names, splitState, Loose
<1>10. ASSUME NEW k, Task(k)
       PROVE  Names'
  <2>1. /\ UNCHANGED <<files, sorted, stuck, chunks, onDisk>> /\ k \in DOMAIN task
        /\ Running(k) /\ phase' \in {phase, "killed"}
        /\ DOMAIN task' = DOMAIN task
        /\ disk' = disk \/ \E ls : disk' = With(SortedChunkPath(k), ls)
    BY <1>10, TaskEffect
  <2>2. phase \notin {"merge", "clean", "next", "final", "done"}
    BY <2>1, JoinedRests DEF Joined, Resting
  <2>3. Loose' \subseteq Loose \cup SortedChunkPaths /\ stuck' \subseteq DOMAIN disk'
    <3>1. SortedChunkPath(k) \in SortedChunkPaths
      BY <2>1, Zenon DEF SortedChunkPaths
    <3> QED
      BY <1>0, <2>1, <3>1, DiskNames
  <2>4. /\ Written(sorted)' = Written(sorted) /\ ChunkPaths' = ChunkPaths
        /\ SortedChunkPaths' = SortedChunkPaths
    BY <2>1 DEF Written, SortedPath, ChunkPaths, ChunkPath, SortedChunkPaths,
                SortedChunkPath, current
  <2> QED
    BY <2>1, <2>2, <2>3, <2>4 DEF Names
<1>11. CASE UNCHANGED vars
  BY <1>11 DEF vars, splitState, mergeState, Names, Written, SortedPath, ChunkPaths, ChunkPath,
               SortedChunkPaths, SortedChunkPath, current, ResultPath, Loose
<1> QED
  BY <1>1, <1>2, <1>3, <1>4, <1>5, <1>6, <1>7, <1>8, <1>9, <1>10, <1>11 DEF Next, Main

LEMMA NamesHold == Spec => []Names
<1>1. Init => Names
  <2> SUFFICES ASSUME Init PROVE Names
    OBVIOUS
  <2>1. /\ files \in Seq(DOMAIN Content) /\ sorted = 0 /\ phase = "next" /\ disk = <<>>
        /\ stuck = {} /\ chunks = <<>>
    BY SorterAssumption DEF Init
  <2>2. IsSequence(chunks) /\ DOMAIN disk = {} /\ Len(files) \in Nat
    BY <2>1, EmptyIsSequence, LenProperties
  <2> QED
    BY <2>1, <2>2 DEF Names, Loose
<1> QED
  BY <1>1, NamesKept, JoinedHolds, PTL DEF Spec

\* A batch of any number of files, each of any number of chunks: when sort returns, it leaves
\* no file of its own but the result and those whose last removal failed, whatever else did.
THEOREM SorterCleansUp == Spec => []OnlyResultIsLeft
<1>1. Names => OnlyResultIsLeft
  BY DEF Names, Loose, OnlyResultIsLeft
<1> QED
  BY <1>1, NamesHold, PTL

\* external_sort begins with nothing on disk but the sorted files of those before and what
\* could not be removed.
THEOREM SorterStartsClean == Spec => []FilesStartClean
<1>1. Names => FilesStartClean
  BY DEF Names, Loose, Written, FilesStartClean
<1> QED
  BY <1>1, NamesHold, PTL

----------------------------------------------------------------------------
(* The inductive invariant of the whole. *)

\* The lines of the files that sort makes, and those lines as merge_sort sees them.
FileLine == ((DOMAIN Content) \X Nat) \cup {MergedHeader}
StreamLine == (DOMAIN Size) \X FileLine

\* The proofs about the split and the merge, at this module's variables.
SP == INSTANCE Split_proofs WITH Sources <- Seq(DOMAIN Size)
MP == INSTANCE MergeSort_proofs WITH
        Line <- StreamLine, Smaller <- UnderSmaller, Inputs <- Seq(Seq(StreamLine)),
        pc <- mergePc

\* How many chunks are full, and the bytes of the next one, when n lines of g are read: the
\* split counts all bytes, so that this depends on nothing but the file.
Advance(s, size) ==
  IF s[2] + size >= ChunkSize THEN <<s[1] + 1, 0>> ELSE <<s[1], s[2] + size>>
IsTrack(g, t, n) ==
  /\ t \in [0 .. n -> Nat \X Nat]
  /\ t[0] = <<0, 0>>
  /\ \A i \in 1 .. n : t[i] = Advance(t[i - 1], Size[Content[g][i]])
Track(g) == CHOOSE t : IsTrack(g, t, Len(Content[g]))

\* The rows of g that belong to chunk k, whether or not this time they were written.
Home(x) == Track(x[1])[x[2] - 1][1] + 1
Part(g, k) == {x \in DataLinesOf(g) : Home(x) = k}

\* The file with the lines ls holds rows below its header: rows of the set, whole ones, each
\* once.
Within(ls, rows) ==
  /\ \A m \in 2 .. Len(ls) : ls[m] \in rows /\ ~Malformed(ls[m])
  /\ \A m, n \in 2 .. Len(ls) : ls[m] = ls[n] => m = n

\* And all of them, unless a file operation may have failed.
Carries(ls, rows) ==
  /\ Within(ls, rows)
  /\ ~MayFail => \A r \in rows : \E m \in 2 .. Len(ls) : ls[m] = r

\* The rows are in order by the columns of h.
Ascends(ls, h) ==
  \A m, n \in 2 .. Len(ls) : m < n => ~Smaller(h, LineOf(ls[n]), LineOf(ls[m]))

\* The files of the batch agree on the header in effect, so that the order is promised.
OneHeader == \A i \in DOMAIN files : HeaderLine(files[i]) = columns

\* The sorted file of g: its rows, in order.
GoodFile(g) ==
  /\ Carries(Lines(SortedPath(g)), DataLinesOf(g))
  /\ OneHeader => Ascends(Lines(SortedPath(g)), columns)

\* There is a file that external_sort works on.
Live == phase \in {"split", "spawn", "await", "merge", "clean"} \/ ~Resting

\* CSV_COLUMNS is a line that was read, from the first call of external_sort on.
Columns ==
  /\ columns \in (DOMAIN Size) \cup {NoColumns}
  /\ phase # "next" \/ sorted > 0 => columns # NoColumns

\* What TypeOK says, and that every chunk has a task when they are waited for.
Typed ==
  /\ files \in Batches
  /\ sorted \in 0 .. Len(files)
  /\ phase \in {"next", "split", "spawn", "await", "merge", "clean", "final",
                "done", "unwind", "aborted", "killed"}
  /\ task \in Seq({"started", "writing", "stored", "threw"})
  /\ Len(task) <= Len(chunks)
  /\ phase \in {"await", "merge"} => Len(task) = Len(chunks)
  /\ \A p \in DOMAIN disk : disk[p] \in Seq(FileLine)
  /\ mergePc \in {"open", "prime", "merge", "done"}

\* The split is as Split_proofs shows; while external_sort works on a file, its chunks are on
\* disk as the split made them, and every line goes to the chunk it belongs to.
Splitting ==
  /\ SP!Invariant
  /\ phase = "split" => reading
  /\ Live =>
       /\ sorted < Len(files)
       /\ source \in Delivered(Content[current])
       /\ phase # "split" => next = Len(source) /\ lines = <<>>
       /\ \A k \in DOMAIN chunks : \A m \in 2 .. Len(chunks[k]) :
            Home(<<current, chunks[k][m]>>) = k
       /\ ~MayFail => \A k \in DOMAIN chunks :
            /\ ChunkPath(k) \in DOMAIN disk
            /\ disk[ChunkPath(k)] = [m \in DOMAIN chunks[k] |-> <<current, chunks[k][m]>>]

\* Where the split stands in the file.
Cutting ==
  phase = "split" =>
    /\ <<Len(chunks), bytes>> = Track(current)[next]
    /\ \A m \in DOMAIN lines : Home(<<current, lines[m]>>) = Len(chunks) + 1

\* What is on disk of chunk k of a file, since this turn of the file or an earlier one, are
\* rows that belong there, and in the sorted chunk they are in order.
Parts ==
  \A g \in DOMAIN Content, k \in Nat :
    /\ LET chunk == Lines(<<g, k, "tmp">>)
       IN  \A m \in 2 .. Len(chunk) : chunk[m] \in Part(g, k)
    /\ Within(Lines(<<g, k, "tmp_s">>), Part(g, k))
    /\ Ascends(Lines(<<g, k, "tmp_s">>), HeaderLine(g))

\* The sorted chunk of task k: its header until the rows are written, then all of its rows.
TaskFiles(k) ==
  /\ task[k] = "writing" =>
       /\ SortedChunkPath(k) \in DOMAIN disk
       /\ disk[SortedChunkPath(k)] = HeaderOf(Lines(ChunkPath(k)))
  /\ task[k] = "stored" => Carries(Lines(SortedChunkPath(k)), Part(current, k))

Tasks == phase \in {"spawn", "await"} \/ ~Resting => \A k \in DOMAIN task : TaskFiles(k)

\* What may end a call of sort without a result.
BatchRows == UNION {DataLinesOf(files[i]) : i \in DOMAIN files}
Unreadable(r) == Malformed(r) \/ TooLong(r, columns) \/ TooLong(r, OwnHeader(r))
Explained ==
  \/ MayFail
  \/ \E r \in BatchRows : Unreadable(r)
  \/ \E r, s \in BatchRows : Throws(columns, LineOf(r), LineOf(s))

Reasons ==
  /\ phase \in {"unwind", "aborted", "killed"} => Explained
  /\ (\E k \in DOMAIN task : task[k] = "threw") => Explained

\* The files sorted so far stay as the merges left them.  A path that is twice in the batch is
\* written anew when its second turn comes.
FilesDone ==
  /\ phase \in {"next", "split", "spawn", "await"} => \A i \in 1 .. sorted : GoodFile(files[i])
  /\ phase = "merge" => \A i \in 1 .. sorted : files[i] # current => GoodFile(files[i])
  /\ phase = "clean" => \A i \in 1 .. sorted + 1 : GoodFile(files[i])

\* The rows that input k of a merge has to have.
InputRows(k) == IF phase = "final" THEN DataLinesOf(files[k]) ELSE Part(current, k)
InputNumbers == IF phase = "final" THEN DOMAIN files ELSE DOMAIN task

\* What the merge holds of its inputs is what is on disk, and that is sorted and complete.
InputsHeld ==
  Merging =>
    /\ DOMAIN file = InputNumbers
    /\ \A k \in InputNumbers :
         /\ file[k] = Under(columns, Lines(MergePath(k)))
         /\ Carries(Lines(MergePath(k)), InputRows(k))
         /\ OneHeader => Ascends(Lines(MergePath(k)), columns)

\* The merge is as MergeSort_proofs shows.
MergeRuns ==
  Merging =>
    /\ mergePc # "done"
    /\ MP!TypeOK /\ MP!Accounting
    /\ OneHeader => MP!OutputIsLowerSet
    /\ ~MayFail /\ mergePc # "open" => opened = DOMAIN file
    /\ ~MayFail /\ mergePc = "merge" => writable

\* The file that a merge writes has the lines it wrote, from the moment the heap is primed; if
\* it could not be opened, then the merge writes nothing.
ResultLines == <<MergedHeader>> \o [k \in DOMAIN out |-> RowIn(out[k])]
Output ==
  Merging =>
    \/ mergePc = "merge" /\ Target \in DOMAIN disk /\ disk[Target] = ResultLines
    \/ /\ ~writable /\ out = <<>>
       /\ ~MayFail => mergePc # "merge"
       /\ IF phase = "final" THEN ResultPath \notin DOMAIN disk ELSE MayFail => GoodFile(current)

\* The inductive invariant.
Inv ==
  /\ Joined /\ Names /\ Columns /\ Typed /\ Splitting /\ Cutting /\ Parts /\ Tasks
  /\ Reasons /\ FilesDone /\ InputsHeld /\ MergeRuns /\ Output

----------------------------------------------------------------------------
(* Constants. *)

\* What modules Split and MergeSort assume of their constants follows from what this one does.
LEMMA SplitAssumed == SP!SplitAssumption
BY SorterAssumption DEF SP!SplitAssumption

LEMMA MergeAssumed == MP!MergeAssumption
BY SorterAssumption DEF MP!MergeAssumption

\* An input file holds lines, and its header is one that names the columns, if it has a line.
LEMMA FileTypes ==
  ASSUME NEW g \in DOMAIN Content
  PROVE  /\ Content[g] \in Seq(DOMAIN Size)
         /\ Len(Content[g]) \in Nat /\ DOMAIN Content[g] = 1 .. Len(Content[g])
         /\ FirstLine(g) \in DOMAIN Size /\ FirstLine(g) # NoColumns
         /\ HeaderLine(g) \in Named \/ TextLines(g) = {}
<1>1. Content[g] \in Seq(DOMAIN Size)
  BY SorterAssumption
<1>2. Len(Content[g]) \in Nat /\ DOMAIN Content[g] = 1 .. Len(Content[g])
  BY <1>1, LenProperties
<1>3. FirstLine(g) \in DOMAIN Size
  <2>1. CASE Content[g] = <<>>
    BY <2>1, SorterAssumption DEF FirstLine, FirstOf
  <2>2. CASE Content[g] # <<>>
    <3>1. 1 \in DOMAIN Content[g]
      BY <1>1, <1>2, <2>2, EmptySeq
    <3> QED
      BY <1>1, <1>2, <2>2, <3>1, ElementOfSeq DEF FirstLine, FirstOf
  <2> QED
    BY <2>1, <2>2
<1>4. FirstLine(g) # NoColumns
  BY <1>3, SorterAssumption
<1>5. HeaderLine(g) \in Named \/ TextLines(g) = {}
  BY SorterAssumption
<1> QED
  BY <1>1, <1>2, <1>3, <1>4, <1>5

\* What is read of a file for its first line is a line, even if the file cannot be opened.
LEMMA FirstTypes ==
  ASSUME NEW g \in DOMAIN Content, NEW ls \in Delivered(Content[g])
  PROVE  ls \in Seq(DOMAIN Size) /\ FirstOf(ls) \in DOMAIN Size /\ FirstOf(ls) # NoColumns
<1>1. CASE ls = Content[g]
  BY <1>1, FileTypes DEF FirstLine
<1>2. CASE ls = <<>>
  BY <1>2, SorterAssumption DEF FirstOf
<1> QED
  BY <1>1, <1>2 DEF Delivered

\* A row of a file is a line of it below a header.
LEMMA RowTypes ==
  ASSUME NEW g \in DOMAIN Content, NEW r \in DataLinesOf(g)
  PROVE  /\ r = <<g, r[2]>> /\ r[1] = g /\ r[2] \in DOMAIN Content[g]
         /\ r \in FileLine
         /\ LineOf(r) \in DOMAIN Size
         /\ OwnHeader(r) = HeaderLine(g)
         /\ HeaderLine(g) \in Named
<1>1. PICK n \in DOMAIN Content[g] : r = <<g, n>> /\ \E h \in TextLines(g) : h < n
  BY DEF DataLinesOf
<1>2. r[1] = g /\ r[2] = n /\ n \in 1 .. Len(Content[g]) /\ Len(Content[g]) \in Nat
  BY <1>1, FileTypes
<1>3. Content[g][n] \in DOMAIN Size
  BY <1>2, FileTypes, ElementOfSeq
<1>4. HeaderLine(g) \in Named
  BY <1>1, FileTypes
<1> QED
  BY <1>1, <1>2, <1>3, <1>4 DEF FileLine, LineOf, OwnHeader

\* The paths given to sort are those of input files, at least one.
LEMMA BatchTypes ==
  ASSUME files \in Batches
  PROVE  /\ files \in Seq(DOMAIN Content) /\ files # <<>>
         /\ Len(files) \in Nat /\ Len(files) > 0 /\ DOMAIN files = 1 .. Len(files)
         /\ \A i \in 1 .. Len(files) : files[i] \in DOMAIN Content
<1>1. files \in Seq(DOMAIN Content) /\ files # <<>>
  BY SorterAssumption
<1>2. Len(files) \in Nat /\ DOMAIN files = 1 .. Len(files) /\ Len(files) # 0
  BY <1>1, LenProperties, EmptySeq
<1> QED
  BY <1>1, <1>2, ElementOfSeq

\* The instances that the proofs of Split and MergeSort are about have the steps of S and M.
LEMMA SplitIsSplit == S!SplitNext <=> SP!SplitNext
BY DEF S!SplitNext, SP!SplitNext, S!ReadLine, SP!ReadLine, S!Finish, SP!Finish, S!IsFull,
       SP!IsFull, S!SizeOf, SP!SizeOf, S!Taken, SP!Taken, S!WriteChunk, SP!WriteChunk,
       S!Chunk, SP!Chunk

LEMMA MergeIsMerge ==
  /\ M!OpenAndSkipHeaders <=> MP!OpenAndSkipHeaders
  /\ M!PrimeHeap <=> MP!PrimeHeap
  /\ M!MergeStep <=> MP!MergeStep
  /\ M!CleanUp <=> MP!CleanUp
BY DEF M!OpenAndSkipHeaders, MP!OpenAndSkipHeaders, M!PrimeHeap, MP!PrimeHeap, M!MergeStep,
       MP!MergeStep, M!CleanUp, MP!CleanUp, M!Stream, MP!Stream, M!HasNext, MP!HasNext,
       M!Available, MP!Available, M!FrontOf, MP!FrontOf, M!Outcome, MP!Outcome, M!MayWrite,
       MP!MayWrite, M!IsTop, MP!IsTop, M!IsFirst, MP!IsFirst, M!MayFollow, MP!MayFollow, M!Text, MP!Text

\* What external_sort and merge_sort start with is what Split and MergeSort start with.
LEMMA SplitStarts == (SP!Init => SP!Invariant)'
BY SP!InvariantInit, SplitAssumed, PTL

LEMMA MergeStarts == (MP!Init => MP!TypeOK /\ MP!Accounting /\ MP!OutputIsLowerSet)'
BY MP!MergeStartsTyped, MP!AccountingStarts, MergeAssumed, PTL

----------------------------------------------------------------------------
(* Where the lines of a file belong. *)

\* A file can be tracked to its end.
LEMMA TrackExists ==
  ASSUME NEW g \in DOMAIN Content
  PROVE  IsTrack(g, Track(g), Len(Content[g]))
<1> DEFINE L == Len(Content[g])
           S0 == {n \in Nat : n <= L => \E t : IsTrack(g, t, n)}
<1>1. /\ L \in Nat /\ ChunkSize \in Nat
      /\ \A n \in 1 .. L : Size[Content[g][n]] \in Nat
  <2>1. L \in Nat /\ \A n \in 1 .. L : Content[g][n] \in DOMAIN Size
    BY FileTypes, ElementOfSeq
  <2> QED
    BY <2>1, SorterAssumption
<1>2. 0 \in S0
  <2>1. IsTrack(g, [i \in 0 .. 0 |-> <<0, 0>>], 0)
    BY DEF IsTrack
  <2> QED
    BY <2>1
<1>3. ASSUME NEW n \in Nat, n \in S0
      PROVE  n + 1 \in S0
  <2> SUFFICES ASSUME n + 1 <= L
               PROVE  \E t : IsTrack(g, t, n + 1)
    OBVIOUS
  <2>1. PICK t : IsTrack(g, t, n)
    BY <1>1, <1>3
  <2> DEFINE size == Size[Content[g][n + 1]]
             u == [i \in 0 .. n + 1 |-> IF i <= n THEN t[i] ELSE Advance(t[n], size)]
  <2>2. size \in Nat
    BY <1>1
  <2>3. Advance(t[n], size) \in Nat \X Nat
    BY <1>1, <2>1, <2>2 DEF IsTrack, Advance
  <2>4. u \in [0 .. n + 1 -> Nat \X Nat] /\ u[0] = <<0, 0>>
    BY <2>1, <2>3 DEF IsTrack
  <2>5. \A i \in 1 .. n + 1 : u[i] = Advance(u[i - 1], Size[Content[g][i]])
    <3> SUFFICES ASSUME NEW i \in 1 .. n + 1
                 PROVE  u[i] = Advance(u[i - 1], Size[Content[g][i]])
      OBVIOUS
    <3>1. i - 1 \in 0 .. n /\ i \in 0 .. n + 1 /\ u[i - 1] = t[i - 1]
      OBVIOUS
    <3>2. CASE i <= n
      BY <2>1, <3>1, <3>2 DEF IsTrack
    <3>3. CASE i = n + 1
      BY <3>1, <3>3
    <3> QED
      BY <3>2, <3>3
  <2>6. IsTrack(g, u, n + 1)
    BY <2>4, <2>5 DEF IsTrack
  <2> QED
    BY <2>6
<1> HIDE DEF S0
<1>4. \A n \in Nat : n \in S0
  BY <1>2, <1>3, SP!SetInduction, SplitAssumed
<1> USE DEF S0
<1>5. \E t : IsTrack(g, t, L)
  BY <1>1, <1>4
<1> QED
  BY <1>5 DEF Track

\* How the track of a file goes on.
LEMMA TrackStep ==
  ASSUME NEW g \in DOMAIN Content
  PROVE  /\ Track(g)[0] = <<0, 0>>
         /\ \A n \in 0 .. Len(Content[g]) : Track(g)[n] \in Nat \X Nat
         /\ \A n \in 0 .. Len(Content[g]) - 1 :
              Track(g)[n + 1] = Advance(Track(g)[n], Size[Content[g][n + 1]])
<1>1. IsTrack(g, Track(g), Len(Content[g])) /\ Len(Content[g]) \in Nat
  BY TrackExists, FileTypes
<1>2. \A n \in 0 .. Len(Content[g]) - 1 :
        n + 1 \in 1 .. Len(Content[g]) /\ (n + 1) - 1 = n
  BY <1>1
<1> QED
  BY <1>1, <1>2 DEF IsTrack

----------------------------------------------------------------------------
(* What is on disk after a step. *)

\* The lines of the file q, and whether it is there, are the same after the step.
Kept(q) ==
  /\ q \in DOMAIN disk' <=> q \in DOMAIN disk
  /\ q \in DOMAIN disk => disk'[q] = disk[q]

\* A file is written, or files are removed, and all others are left as they are.
LEMMA AfterWrite ==
  ASSUME NEW p, NEW ls, disk' = With(p, ls)
  PROVE  /\ p \in DOMAIN disk' /\ disk'[p] = ls /\ Lines(p)' = ls
         /\ \A q : q # p => Kept(q)
BY DEF With, Kept, Lines

LEMMA AfterRemoval ==
  ASSUME NEW paths, RemoveFiles(paths), stuck \subseteq DOMAIN disk
  PROVE  /\ \A q : q \notin paths => Kept(q)
         /\ \A q : Kept(q) \/ (q \notin DOMAIN disk' /\ Lines(q)' = <<>>)
BY RemovalNames DEF Kept, Lines

LEMMA AllKept ==
  ASSUME disk' = disk
  PROVE  \A q : Kept(q)
BY DEF Kept

\* Typed files stay typed when a typed one is written or some are removed.
LEMMA TypedWrite ==
  ASSUME \A p \in DOMAIN disk : disk[p] \in Seq(FileLine),
         NEW p, NEW ls \in Seq(FileLine), disk' = With(p, ls)
  PROVE  \A q \in DOMAIN disk' : disk'[q] \in Seq(FileLine)
BY DEF With

LEMMA TypedRemoval ==
  ASSUME \A p \in DOMAIN disk : disk[p] \in Seq(FileLine),
         NEW paths, RemoveFiles(paths), stuck \subseteq DOMAIN disk
  PROVE  \A q \in DOMAIN disk' : disk'[q] \in Seq(FileLine)
BY RemovalNames

\* The types of the batch, the tasks and the chunks, and when no task runs.
LEMMA Facts ==
  ASSUME Inv
  PROVE  /\ files \in Seq(DOMAIN Content) /\ files # <<>>
         /\ Len(files) \in Nat /\ Len(files) > 0 /\ DOMAIN files = 1 .. Len(files)
         /\ \A i \in 1 .. Len(files) : files[i] \in DOMAIN Content
         /\ sorted \in 0 .. Len(files)
         /\ Len(task) \in Nat /\ DOMAIN task = 1 .. Len(task)
         /\ Len(chunks) \in Nat /\ DOMAIN chunks = 1 .. Len(chunks)
         /\ Len(task) <= Len(chunks)
         /\ phase \in {"next", "split", "merge", "clean", "final", "done", "aborted"} => Resting
<1>1. files \in Batches /\ sorted \in 0 .. Len(files)
      /\ task \in Seq({"started", "writing", "stored", "threw"}) /\ Len(task) <= Len(chunks)
  BY DEF Inv, Typed
<1>2. Len(task) \in Nat /\ DOMAIN task = 1 .. Len(task)
  BY <1>1, LenProperties
<1>3. Len(chunks) \in Nat /\ DOMAIN chunks = 1 .. Len(chunks)
  BY AppendIsSequence DEF Inv, Names
<1>4. phase \in {"next", "merge", "clean", "final", "done"} => Resting
  BY JoinedRests DEF Inv, Joined
<1>5. phase = "aborted" => Resting
  BY DEF Inv, Joined
<1>6. phase = "split" => Resting
  <2> SUFFICES ASSUME phase = "split" PROVE Resting
    OBVIOUS
  <2>1. task = <<>>
    BY DEF Inv, Joined
  <2> QED
    BY <2>1, EmptyIsSequence DEF Resting
<1> QED
  BY <1>1, <1>2, <1>3, <1>4, <1>5, <1>6, BatchTypes

----------------------------------------------------------------------------
(* What no step changes. *)

\* Besides external_sort when it is called, nothing sets CSV_COLUMNS; nothing changes the
\* parameter of sort.
LEMMA ColumnsEffect ==
  ASSUME [Next]_vars
  PROVE  files' = files /\ (columns' = columns \/ StartFile)
<1>1. CASE Main
  BY <1>1 DEF Main, StartFile, SplitStep, Spawn, Await, MergeChunks, MergeOpens, MergePrimes,
              MergeWrites, MergeReturns, RemoveChunks, MergeFiles, Unwind
<1>2. CASE \E k \in ChunkNumber : Task(k)
  BY <1>2 DEF Task
<1>3. CASE UNCHANGED vars
  BY <1>3 DEF vars
<1> QED
  BY <1>1, <1>2, <1>3 DEF Next

\* CSV_COLUMNS stays what it is, but for the first call of external_sort.
LEMMA EffectKept ==
  ASSUME Inv, [Next]_vars
  PROVE  /\ files' = files
         /\ columns' \in (DOMAIN Size) \cup {NoColumns}
         /\ phase # "next" \/ sorted > 0 => columns' = columns
         /\ columns' = columns => (OneHeader' <=> OneHeader) /\ (Explained' <=> Explained)
<1>1. files' = files /\ (columns' = columns \/ StartFile)
  BY ColumnsEffect
<1>2. /\ columns' \in (DOMAIN Size) \cup {NoColumns}
      /\ phase # "next" \/ sorted > 0 => columns' = columns
  <2>1. CASE columns' = columns
    BY <1>1, <2>1 DEF Inv, Columns
  <2>2. CASE StartFile
    <3>1. columns' \in ReadOnce /\ phase = "next" /\ sorted < Len(files)
      BY <2>2 DEF StartFile
    <3>2. current \in DOMAIN Content
      BY <3>1, Facts DEF current
    <3>3. CASE columns = NoColumns
      <4>1. ~(phase # "next" \/ sorted > 0)
        BY <3>1, <3>3, Facts DEF Inv, Columns
      <4> QED
        BY <3>1, <3>2, <3>3, <4>1, FirstTypes DEF ReadOnce
    <3>4. CASE columns # NoColumns
      BY <3>1, <3>4 DEF ReadOnce, Inv, Columns
    <3> QED
      BY <3>3, <3>4
  <2> QED
    BY <1>1, <2>1, <2>2
<1>3. columns' = columns => (OneHeader' <=> OneHeader)
  BY <1>1 DEF OneHeader
<1>4. columns' = columns => (Explained' <=> Explained)
  BY <1>1 DEF Explained, Unreadable, BatchRows
<1> QED
  BY <1>1, <1>2, <1>3, <1>4

\* From the first call of external_sort on CSV_COLUMNS is a line.
LEMMA MergingColumns ==
  ASSUME Inv, phase # "next" \/ sorted > 0
  PROVE  columns \in DOMAIN Size /\ columns # NoColumns
BY SorterAssumption DEF Inv, Columns

\* CSV_COLUMNS is set before anything reads it.
LEMMA ColumnsKept ==
  ASSUME Inv, [Next]_vars
  PROVE  Columns'
<1>1. columns' \in (DOMAIN Size) \cup {NoColumns}
  BY EffectKept
<1>2. CASE StartFile
  <2>1. columns' \in ReadOnce /\ sorted < Len(files)
    BY <1>2 DEF StartFile
  <2>2. current \in DOMAIN Content
    <3>1. sorted + 1 \in 1 .. Len(files)
      BY <2>1, Facts
    <3> QED
      BY <3>1, Facts DEF current
  <2>3. columns' # NoColumns
    BY <2>1, <2>2, FirstTypes DEF ReadOnce
  <2> QED
    BY <1>1, <2>3 DEF Columns
<1>3. CASE MergeFiles
  <2>1. /\ columns' = columns /\ phase = "next" /\ sorted = Len(files) /\ sorted' = sorted
    BY <1>3 DEF MergeFiles
  <2> QED
    BY <1>1, <2>1, Facts DEF Columns, Inv
<1>4. CASE columns' = columns /\ sorted' = sorted /\ phase # "next" /\ phase' # "next"
  BY <1>1, <1>4 DEF Columns, Inv
<1>5. CASE SplitStep \/ Spawn \/ Await \/ MergeChunks
  BY <1>4, <1>5 DEF SplitStep, Spawn, Await, MergeChunks
<1>6. CASE MergeOpens \/ MergePrimes \/ MergeWrites \/ MergeReturns \/ Unwind
  <2>1. columns' = columns /\ sorted' = sorted /\ phase # "next"
    BY <1>6 DEF MergeOpens, MergePrimes, MergeWrites, MergeReturns, Unwind, Merging
  <2>2. phase' \in {phase, "unwind", "killed", "clean", "done", "aborted"}
    BY <1>6 DEF MergeOpens, MergePrimes, MergeWrites, MergeReturns, Unwind, Comparing
  <2> QED
    BY <1>4, <2>1, <2>2
<1>7. CASE RemoveChunks
  <2>1. columns' = columns /\ sorted' = sorted + 1 /\ phase = "clean"
    BY <1>7 DEF RemoveChunks
  <2> QED
    BY <1>1, <2>1 DEF Columns, Inv
<1>8. ASSUME NEW k, Task(k)
      PROVE  Columns'
  <2>1. columns' = columns /\ sorted' = sorted /\ phase' \in {phase, "killed"}
    BY <1>8 DEF Task, LoadKills, OpenSortedChunk, StoreSortedChunk
  <2>2. phase # "next"
    BY <1>8, TaskEffect, Facts DEF Inv, Resting
  <2> QED
    BY <1>1, <2>1, <2>2 DEF Columns, Inv
<1>9. CASE UNCHANGED vars
  BY <1>9 DEF vars, Columns, Inv
<1> QED
  BY <1>2, <1>3, <1>5, <1>6, <1>7, <1>8, <1>9 DEF Next, Main

----------------------------------------------------------------------------
(* The files that are split and merged. *)

\* A file on disk, or the empty one that takes the place of a missing one, holds lines.
LEMMA LinesTyped ==
  ASSUME \A p \in DOMAIN disk : disk[p] \in Seq(FileLine), NEW q
  PROVE  /\ Lines(q) \in Seq(FileLine) /\ Len(Lines(q)) \in Nat
         /\ DOMAIN Lines(q) = 1 .. Len(Lines(q))
<1>1. Lines(q) \in Seq(FileLine)
  BY DEF Lines
<1> QED
  BY <1>1, LenProperties

\* What the merge sees of a file are its lines, one by one.
LEMMA UnderShape ==
  ASSUME NEW h \in DOMAIN Size, NEW ls \in Seq(FileLine)
  PROVE  /\ Under(h, ls) \in Seq(StreamLine)
         /\ Len(Under(h, ls)) = Len(ls) /\ DOMAIN Under(h, ls) = 1 .. Len(ls)
         /\ \A m \in 1 .. Len(ls) : Under(h, ls)[m] = <<h, ls[m]>>
<1>1. Len(ls) \in Nat /\ DOMAIN ls = 1 .. Len(ls) /\ \A m \in 1 .. Len(ls) : ls[m] \in FileLine
  BY LenProperties, ElementOfSeq
<1>2. \A m \in 1 .. Len(ls) : <<h, ls[m]>> \in StreamLine
  BY <1>1 DEF StreamLine
<1> DEFINE u == [m \in 1 .. Len(ls) |-> <<h, ls[m]>>]
<1>3. u \in [1 .. Len(ls) -> StreamLine]
  BY <1>2
<1>4. u \in Seq(StreamLine) /\ Len(u) = Len(ls)
  BY <1>1, <1>3
<1>5. Under(h, ls) = u
  BY <1>1 DEF Under
<1> QED
  BY <1>4, <1>5

\* What the merge takes for a data line is a row of the file that it reads.
LEMMA MergeRow ==
  ASSUME Inv, Merging, NEW r \in MP!DataLines
  PROVE  LET ls == Lines(MergePath(r[1])) IN
         /\ r = <<r[1], r[2]>> /\ r[1] \in InputNumbers /\ r[2] \in 2 .. Len(ls)
         /\ RowIn(r) = ls[r[2]] /\ RowIn(r) \in FileLine
         /\ RowIn(r) \in InputRows(r[1]) /\ ~Malformed(RowIn(r))
         /\ MP!Text(r) = <<columns, RowIn(r)>>
<1> DEFINE i == r[1]
           n == r[2]
           ls == Lines(MergePath(i))
<1>1. i \in DOMAIN file /\ n \in 2 .. MP!Available(i) /\ r = <<i, n>>
  <2>1. PICK j \in MP!Stream : \E m \in 2 .. MP!Available(j) : r = <<j, m>>
    BY MP!DataLineDef, MergeAssumed
  <2>2. PICK m \in 2 .. MP!Available(j) : r = <<j, m>>
    BY <2>1
  <2>3. i = j /\ n = m
    BY <2>2
  <2> QED
    BY <2>2, <2>3 DEF MP!Stream
<1>2. i \in InputNumbers /\ file[i] = Under(columns, ls) /\ Carries(ls, InputRows(i))
  BY <1>1 DEF Inv, InputsHeld
<1>3. ls \in Seq(FileLine) /\ Len(ls) \in Nat
  BY LinesTyped DEF Inv, Typed
<1>4. columns \in DOMAIN Size
  BY MergingColumns, Facts DEF Merging, Inv, Columns
<1> HIDE DEF i, n, ls
<1>5. /\ Len(file[i]) = Len(ls)
      /\ \A m \in 1 .. Len(ls) : file[i][m] = <<columns, ls[m]>> /\ ls[m] \in FileLine
  BY <1>2, <1>3, <1>4, UnderShape, ElementOfSeq
<1>6. MP!Available(i) = Len(ls) \/ MP!Available(i) = 0
  BY <1>5 DEF MP!Available
<1>7. n \in 2 .. Len(ls) /\ n \in 1 .. Len(ls)
  BY <1>1, <1>3, <1>6
<1>8. ls[n] \in InputRows(i) /\ ~Malformed(ls[n])
  BY <1>2, <1>7 DEF Carries, Within
<1>9. RowIn(r) = ls[n] /\ MP!Text(r) = <<columns, ls[n]>>
  BY <1>5, <1>7 DEF RowIn, MP!Text, i, n
<1> QED
  BY <1>1, <1>2, <1>5, <1>7, <1>8, <1>9 DEF i, n, ls

\* A turn of the merge loop that writes a line adds a row to the result on disk.
LEMMA MergeStepWrites ==
  ASSUME Inv, Merging, M!MergeStep
  PROVE  /\ mergePc = "merge" /\ mergePc' = "merge"
         /\ writable' \in BOOLEAN /\ (writable' => writable) /\ (writable /\ ~MayFail => writable')
         /\ UNCHANGED <<file, opened, onDisk>>
         /\ ~writable' => out' = out
         /\ writable' =>
              \E top \in MP!DataLines :
                /\ out' = Append(out, top) /\ Last(out') = top /\ out' # out
                /\ out \in Seq((DOMAIN file) \X Nat) /\ top \in (DOMAIN file) \X Nat
                /\ Target \in DOMAIN disk /\ disk[Target] = ResultLines
<1>1. MP!MergeStep /\ MP!TypeOK /\ MP!Accounting
  BY MergeIsMerge DEF Inv, MergeRuns
<1>2. PICK top \in heap :
        /\ top \in MP!Taken
        /\ writable' => writable
        /\ writable' = TRUE => out' = Append(out, top)
        /\ writable' = FALSE => out' = out
  BY <1>1, MP!MergeStepEffect, MergeAssumed
<1>3. /\ mergePc = "merge" /\ mergePc' = "merge" /\ UNCHANGED <<file, opened, onDisk>>
      /\ writable' \in MP!MayWrite
  BY <1>1 DEF MP!MergeStep
<1>4. writable' \in BOOLEAN /\ (writable /\ ~MayFail => writable')
  <2>1. writable' \in MP!Outcome
    BY <1>3 DEF MP!MayWrite
  <2> QED
    BY <2>1, SorterAssumption DEF MP!Outcome
<1>5. ASSUME writable'
      PROVE  /\ top \in MP!DataLines
             /\ out' = Append(out, top) /\ Last(out') = top /\ out' # out
             /\ out \in Seq((DOMAIN file) \X Nat) /\ top \in (DOMAIN file) \X Nat
             /\ Target \in DOMAIN disk /\ disk[Target] = ResultLines
  <2>1. top \in MP!DataLines
    BY <1>2 DEF MP!Taken
  <2>2. out \in Seq((DOMAIN file) \X Nat) /\ top \in (DOMAIN file) \X Nat
    BY <1>1, <1>2 DEF MP!TypeOK, MP!Stream
  <2>3. out' = Append(out, top)
    BY <1>2, <1>4, <1>5
  <2>4. Len(out) \in Nat /\ Len(out') = Len(out) + 1 /\ out'[Len(out) + 1] = top
    BY <2>2, <2>3, AppendProperties, LenProperties
  <2>5. Last(out') = top /\ out' # out
    BY <2>4 DEF Last
  <2>6. Target \in DOMAIN disk /\ disk[Target] = ResultLines
    BY <1>2, <1>5 DEF Inv, Output
  <2> QED
    BY <2>1, <2>2, <2>3, <2>5, <2>6
<1> QED
  BY <1>2, <1>3, <1>4, <1>5

\* Merging does not touch what the split left, nor the split what the merge works on.
LEMMA SplitInvariantKept ==
  ASSUME Inv, [Next]_vars
  PROVE  SP!Invariant'
<1>1. SP!Invariant
  BY DEF Inv, Splitting
<1>2. CASE StartFile
  <2>1. SP!Init'
    <3>1. sorted + 1 \in 1 .. Len(files)
      BY <1>2, Facts DEF StartFile
    <3>2. source' \in Seq(DOMAIN Size)
      BY <1>2, <3>1, Facts, FirstTypes DEF StartFile, current
    <3> QED
      BY <1>2, <3>2 DEF StartFile, SP!Init
  <2> QED
    BY <2>1, SplitStarts
<1>3. CASE S!SplitNext
  BY <1>1, <1>3, SP!InvariantKept, SplitAssumed, SplitIsSplit
<1>4. CASE UNCHANGED splitState
  BY <1>1, <1>4, SP!InvariantKept, SplitAssumed DEF splitState, SP!splitVars
<1>5. StartFile \/ S!SplitNext \/ UNCHANGED splitState
  <2>1. CASE Main
    BY <2>1 DEF Main, SplitStep, Spawn, Await, MergeChunks, MergeOpens, MergePrimes,
                MergeWrites, MergeReturns, RemoveChunks, MergeFiles, Unwind
  <2>2. CASE \E k \in ChunkNumber : Task(k)
    BY <2>2 DEF Task
  <2>3. CASE UNCHANGED vars
    BY <2>3 DEF vars
  <2> QED
    BY <2>1, <2>2, <2>3 DEF Next
<1> QED
  BY <1>2, <1>3, <1>4, <1>5

----------------------------------------------------------------------------
(* Types. *)

\* The lines that the split writes are lines of the file.
LEMMA ChunkTyped ==
  ASSUME Inv, SplitStep, chunks' # chunks
  PROVE  [m \in DOMAIN Last(chunks') |-> <<current, Last(chunks')[m]>>] \in Seq(FileLine)
<1>1. SP!Invariant'
  <2>1. [Next]_vars
    BY DEF Next, Main
  <2> QED
    BY <2>1, SplitInvariantKept
<1>2. chunks' \in Seq(Seq(1 .. next')) /\ next' \in Nat
  <2>1. SP!TypeOK'
    BY <1>1 DEF SP!Invariant, SP!Typed
  <2>2. source' \in Seq(DOMAIN Size) /\ next' \in 0 .. Len(source')
    BY <2>1 DEF SP!TypeOK
  <2>3. Len(source') \in Nat
    BY <2>2, LenProperties
  <2> QED
    BY <2>1, <2>2, <2>3 DEF SP!TypeOK
<1>3. chunks' # <<>>
  <2>1. \E x : chunks' = Append(chunks, x)
    BY DEF SplitStep, S!SplitNext, S!ReadLine, S!Finish, S!WriteChunk
  <2>2. Len(chunks') = Len(chunks) + 1 /\ Len(chunks) \in Nat
    BY <2>1, AppendIsSequence DEF Inv, Names
  <2>3. Len(<<>>) = 0
    OBVIOUS
  <2> QED
    BY <2>2, <2>3
<1> DEFINE last == Last(chunks')
<1>4. last \in Seq(1 .. next')
  <2>1. Len(chunks') \in 1 .. Len(chunks')
    BY <1>2, <1>3, EmptySeq, LenProperties
  <2> QED
    BY <1>2, <2>1, ElementOfSeq DEF Last
<1> HIDE DEF last
<1>5. DOMAIN last = 1 .. Len(last) /\ Len(last) \in Nat
      /\ \A m \in 1 .. Len(last) : last[m] \in Nat
  BY <1>2, <1>4, LenProperties, ElementOfSeq
<1>6. current \in DOMAIN Content
  <2>1. sorted + 1 \in 1 .. Len(files)
    BY Facts DEF SplitStep, Inv, Names
  <2> QED
    BY <2>1, Facts DEF current
<1>7. \A m \in 1 .. Len(last) : <<current, last[m]>> \in FileLine
  BY <1>5, <1>6 DEF FileLine
<1>8. [m \in DOMAIN last |-> <<current, last[m]>>] \in [1 .. Len(last) -> FileLine]
  BY <1>5, <1>7
<1> QED
  BY <1>5, <1>8 DEF last

\* The rows of a chunk.
LEMMA ChunkRowsTyped ==
  ASSUME \A p \in DOMAIN disk : disk[p] \in Seq(FileLine), NEW k
  PROVE  /\ ChunkRows(k) \subseteq FileLine
         /\ HeaderOf(Lines(ChunkPath(k))) \in Seq(FileLine)
         /\ Len(HeaderOf(Lines(ChunkPath(k)))) \in {0, 1}
<1> DEFINE ls == Lines(ChunkPath(k))
<1>1. ls \in Seq(FileLine) /\ Len(ls) \in Nat
  BY LinesTyped
<1> HIDE DEF ls
<1>2. \A m \in 2 .. Len(ls) : ls[m] \in FileLine
  BY <1>1, ElementOfSeq
<1>3. ChunkRows(k) \subseteq FileLine
  BY <1>2 DEF ChunkRows, ls
<1>4. CASE ls = <<>>
  BY <1>3, <1>4 DEF HeaderOf, ls
<1>5. CASE ls # <<>>
  <2>1. ls[1] \in FileLine
    BY <1>1, <1>5, EmptySeq, ElementOfSeq
  <2> QED
    BY <1>3, <1>5, <2>1 DEF HeaderOf, ls
<1> QED
  BY <1>4, <1>5

\* What a task puts into its file: the header of its chunk, then rows of it.
LEMMA TaskWrites ==
  ASSUME Inv, NEW k, Task(k)
  PROVE  /\ k \in 1 .. Len(task)
         /\ \/ UNCHANGED <<disk, task>> /\ phase' = "killed"
               /\ \E r \in ChunkRows(k) : TooLong(r, OwnHeader(r))
            \/ /\ task[k] = "started" /\ task' = [task EXCEPT ![k] = "writing"] /\ phase' = phase
               /\ disk' = With(SortedChunkPath(k), HeaderOf(Lines(ChunkPath(k))))
            \/ /\ task[k] = "started" /\ task' = [task EXCEPT ![k] = "stored"] /\ phase' = phase
               /\ MayFail /\ disk' \in {disk, With(SortedChunkPath(k), <<>>)}
            \/ /\ task[k] = "writing" /\ task' = [task EXCEPT ![k] = "threw"] /\ phase' = phase
               /\ disk' = disk /\ \E r \in ChunkRows(k) : Malformed(r)
            \/ /\ task[k] = "writing" /\ task' = [task EXCEPT ![k] = "stored"] /\ phase' = phase
               /\ \A r \in ChunkRows(k) : ~Malformed(r)
               /\ \E s \in SetToSeqs(ChunkRows(k)), n \in 0 .. Cardinality(ChunkRows(k)) :
                    /\ \A i, j \in DOMAIN s : i < j => ~LineSmaller(s[j], s[i])
                    /\ MayFail \/ n = Cardinality(ChunkRows(k))
                    /\ disk' = With(SortedChunkPath(k),
                                    HeaderOf(Lines(ChunkPath(k))) \o SubSeq(s, 1, n))
<1>1. k \in 1 .. Len(task)
  BY Facts DEF Task
<1>2. CASE LoadKills(k)
  BY <1>1, <1>2 DEF LoadKills
<1>3. CASE OpenSortedChunk(k)
  BY <1>1, <1>3 DEF OpenSortedChunk
<1>4. CASE StoreSortedChunk(k)
  <2>1. k \in DOMAIN task /\ task[k] = "writing"
    BY <1>4 DEF Task, StoreSortedChunk
  <2>2. disk[SortedChunkPath(k)] = HeaderOf(Lines(ChunkPath(k)))
    BY <2>1 DEF Inv, Tasks, TaskFiles, Resting, Running
  <2>3. CASE disk' = disk /\ task' = [task EXCEPT ![k] = "threw"]
             /\ \E r \in ChunkRows(k) : Malformed(r)
    BY <1>1, <1>4, <2>1, <2>3 DEF StoreSortedChunk
  <2>4. CASE /\ \A r \in ChunkRows(k) : ~Malformed(r)
             /\ task' = [task EXCEPT ![k] = "stored"]
             /\ \E s \in SetToSeqs(ChunkRows(k)), n \in 0 .. Cardinality(ChunkRows(k)) :
                  /\ \A i, j \in DOMAIN s : i < j => ~LineSmaller(s[j], s[i])
                  /\ MayFail \/ n = Cardinality(ChunkRows(k))
                  /\ disk' = With(SortedChunkPath(k),
                                  disk[SortedChunkPath(k)] \o SubSeq(s, 1, n))
    <3>1. phase' = phase
      BY <1>4 DEF StoreSortedChunk
    <3> QED
      BY <1>1, <2>1, <2>2, <2>4, <3>1
  <2> QED
    BY <1>4, <2>3, <2>4 DEF StoreSortedChunk
<1> QED
  BY <1>2, <1>3, <1>4 DEF Task

----------------------------------------------------------------------------
(* The rows of a file and of its chunks. *)

\* While there is a file to sort it is one of the batch, and what the split reads are lines of
\* it.
LEMMA CurrentFile ==
  ASSUME Inv, Live
  PROVE  /\ sorted + 1 \in 1 .. Len(files) /\ current \in DOMAIN Content
         /\ Len(source) \in Nat /\ DOMAIN source = 1 .. Len(source)
         /\ \A n \in 1 .. Len(source) : n \in DOMAIN Content[current] /\ source[n] = Content[current][n]
         /\ ~MayFail => source = Content[current]
<1>1. sorted + 1 \in 1 .. Len(files) /\ source \in Delivered(Content[current])
  BY Facts DEF Inv, Splitting
<1>2. current \in DOMAIN Content
  BY <1>1, Facts DEF current
<1>3. CASE source = Content[current]
  BY <1>1, <1>2, <1>3, FileTypes
<1>4. CASE MayFail /\ source = <<>>
  BY <1>1, <1>2, <1>4, EmptyIsSequence
<1> QED
  BY <1>1, <1>3, <1>4 DEF Delivered

\* The lines that the split gave to a chunk are rows that belong there.
LEMMA BodyInPart ==
  ASSUME Inv, Live, NEW k \in DOMAIN chunks, NEW n \in SP!Body(k)
  PROVE  <<current, n>> \in Part(current, k)
<1>1. /\ SP!TypeOK /\ SP!ChunksCoverBody
      /\ \A m \in 2 .. Len(chunks[k]) : Home(<<current, chunks[k][m]>>) = k
  BY DEF Inv, Splitting, SP!Invariant, SP!Typed, SP!Cut
<1>2. n \in SP!BelowHeader /\ next \in 0 .. Len(source)
  BY <1>1 DEF SP!ChunksCoverBody, SP!TypeOK
<1>3. n \in 1 .. Len(source) /\ \E m \in 1 .. n - 1 : m \in 1 .. Len(source) /\ SP!IsText(m)
  BY <1>2, CurrentFile DEF SP!BelowHeader
<1>4. <<current, n>> \in DataLinesOf(current)
  BY <1>3, CurrentFile DEF DataLinesOf, TextLines, SP!IsText
<1>5. Home(<<current, n>>) = k
  BY <1>1 DEF SP!Body
<1> QED
  BY <1>4, <1>5 DEF Part

\* The rows of a chunk on disk belong there; when every file operation succeeded they are all
\* that belong there.
LEMMA ChunkRowsPart ==
  ASSUME Inv, Live, NEW k \in DOMAIN chunks
  PROVE  /\ ChunkRows(k) \subseteq Part(current, k)
         /\ IsFiniteSet(ChunkRows(k))
         /\ phase # "split" /\ ~MayFail =>
              /\ ChunkRows(k) = {<<current, n>> : n \in SP!Body(k)}
              /\ Part(current, k) \subseteq ChunkRows(k)
<1> DEFINE ls == Lines(ChunkPath(k))
<1>1. current \in DOMAIN Content /\ k \in Nat
  BY CurrentFile, Facts
<1>2. ls \in Seq(FileLine) /\ Len(ls) \in Nat
  BY LinesTyped DEF Inv, Typed
<1>3. \A m \in 2 .. Len(ls) : ls[m] \in Part(current, k)
  BY <1>1 DEF Inv, Parts, ChunkPath
<1> HIDE DEF ls
<1>4. ChunkRows(k) = {ls[m] : m \in 2 .. Len(ls)}
  BY DEF ChunkRows, ls
<1>5. IsFiniteSet(ChunkRows(k))
  <2>1. IsFiniteSet(2 .. Len(ls))
    BY <1>2, FS_Interval
  <2> DEFINE f == [m \in 2 .. Len(ls) |-> ls[m]]
  <2>2. f \in Surjection(2 .. Len(ls), ChunkRows(k))
    <3>1. /\ f \in [2 .. Len(ls) -> ChunkRows(k)]
          /\ \A r \in ChunkRows(k) : \E m \in 2 .. Len(ls) : f[m] = r
      BY <1>4
    <3> HIDE DEF f
    <3> QED
      BY <3>1 DEF Surjection
  <2> QED
    BY <2>1, <2>2, FS_Surjection
<1>6. ASSUME phase # "split", ~MayFail
      PROVE  /\ ChunkRows(k) = {<<current, n>> : n \in SP!Body(k)}
             /\ Part(current, k) \subseteq ChunkRows(k)
  <2> DEFINE c == chunks[k]
  <2>1. ls = [m \in DOMAIN c |-> <<current, c[m]>>]
    BY <1>6 DEF Inv, Splitting, Lines, ls
  <2>2. Len(c) \in Nat /\ DOMAIN c = 1 .. Len(c)
    <3>1. SP!TypeOK
      BY DEF Inv, Splitting, SP!Invariant, SP!Typed
    <3>2. chunks \in Seq(Seq(Nat))
      BY <3>1, SP!PlainNumbers, SplitAssumed
    <3>3. c \in Seq(Nat)
      BY <3>2, Facts, ElementOfSeq
    <3> QED
      BY <3>3, LenProperties
  <2> HIDE DEF c
  <2>3. Len(ls) = Len(c) /\ \A m \in 2 .. Len(c) : ls[m] = <<current, c[m]>>
    BY <2>1, <2>2
  <2>4. ChunkRows(k) = {<<current, n>> : n \in SP!Body(k)}
    BY <1>4, <2>3 DEF SP!Body, c
  <2>5. ASSUME NEW r \in Part(current, k)
        PROVE  r \in ChunkRows(k)
    <3>1. PICK n \in DOMAIN Content[current] :
            r = <<current, n>> /\ \E m \in TextLines(current) : m < n
      BY <2>5 DEF Part, DataLinesOf
    <3>2. source = Content[current] /\ next = Len(source) /\ lines = <<>> /\ Len(source) \in Nat
          /\ DOMAIN source = 1 .. Len(source)
      BY <1>6, CurrentFile DEF Inv, Splitting
    <3>3. n \in SP!BelowHeader
      BY <3>1, <3>2 DEF SP!BelowHeader, TextLines, SP!IsText
    <3>4. SP!Pending = {}
      BY <3>2, EmptyIsSequence DEF SP!Pending
    <3>5. SP!ChunksCoverBody
      BY DEF Inv, Splitting, SP!Invariant, SP!Cut
    <3>6. PICK j \in DOMAIN chunks : n \in SP!Body(j)
      BY <1>6, <3>3, <3>4, <3>5 DEF SP!ChunksCoverBody
    <3>7. Home(r) = j /\ Home(r) = k
      BY <2>5, <3>1, <3>6, BodyInPart DEF Part
    <3> QED
      BY <2>4, <3>1, <3>6, <3>7
  <2> QED
    BY <2>4, <2>5
<1> QED
  BY <1>3, <1>4, <1>5, <1>6

\* When every file operation succeeded, every row of the file is in one of its chunks.
LEMMA PartsOfFile ==
  ASSUME Inv, Live, phase # "split", ~MayFail, NEW r \in DataLinesOf(current)
  PROVE  \E k \in DOMAIN chunks : r \in Part(current, k)
<1>1. PICK n \in DOMAIN Content[current] :
        r = <<current, n>> /\ \E m \in TextLines(current) : m < n
  BY DEF DataLinesOf
<1>2. source = Content[current] /\ next = Len(source) /\ lines = <<>> /\ Len(source) \in Nat
      /\ DOMAIN source = 1 .. Len(source)
  BY CurrentFile DEF Inv, Splitting
<1>3. n \in SP!BelowHeader
  BY <1>1, <1>2 DEF SP!BelowHeader, TextLines, SP!IsText
<1>4. SP!Pending = {} /\ SP!ChunksCoverBody
  BY <1>2, EmptyIsSequence DEF SP!Pending, Inv, Splitting, SP!Invariant, SP!Cut
<1>5. PICK k \in DOMAIN chunks : n \in SP!Body(k)
  BY <1>3, <1>4 DEF SP!ChunksCoverBody
<1> QED
  BY <1>1, <1>5, BodyInPart

----------------------------------------------------------------------------
(* What a task stores. *)

\* Below their first, the lines ls are the first n of the rows R in the order s.
Arranged(ls, R, s, n) ==
  /\ ls \in Seq(FileLine)
  /\ DOMAIN s = 1 .. Cardinality(R)
  /\ \A m \in 2 .. Len(ls) : m - 1 \in 1 .. n /\ ls[m] = s[m - 1] /\ ls[m] \in R
  /\ \A i, j \in 2 .. Len(ls) : ls[i] = ls[j] => i = j
  /\ n = Cardinality(R) => \A r \in R : \E m \in 2 .. Len(ls) : ls[m] = r

\* A sorted chunk as it is written: the header and the first n of the sorted rows.
LEMMA StoredShape ==
  ASSUME NEW R \in SUBSET FileLine, IsFiniteSet(R), NEW hd \in Seq(FileLine),
         Len(hd) \in {0, 1}, R # {} => Len(hd) = 1,
         NEW s \in SetToSeqs(R), NEW n \in 0 .. Cardinality(R),
         NEW ls, ls = hd \o SubSeq(s, 1, n)
  PROVE  Arranged(ls, R, s, n)
<1> DEFINE N == Cardinality(R)
           t == SubSeq(s, 1, n)
<1>1. N \in Nat /\ (R = {} => N = 0)
  BY FS_CardinalityType, FS_EmptySet
<1>2. s \in [1 .. N -> R] /\ \A i, j \in 1 .. N : i # j => s[i] # s[j]
  BY DEF SetToSeqs
<1> HIDE DEF N
<1>3. n \in Nat /\ n <= N
  BY <1>1 DEF N
<1>4. t \in Seq(FileLine) /\ Len(t) = n /\ \A i \in 1 .. n : t[i] = s[i]
  <2>1. \A i \in 1 .. n : s[i] \in FileLine
    BY <1>1, <1>2, <1>3
  <2> QED
    BY <1>3, <2>1, SubSeqProperties
<1>10. ls = hd \o t
  OBVIOUS
<1> HIDE DEF t
<1>5. /\ ls \in Seq(FileLine) /\ Len(ls) = Len(hd) + n
      /\ \A i \in 1 .. Len(hd) + n : ls[i] = IF i <= Len(hd) THEN hd[i] ELSE t[i - Len(hd)]
  BY <1>4, <1>10, ConcatProperties
<1>6. n > 0 => Len(hd) = 1
  BY <1>1, <1>3
<1>7. \A m \in 2 .. Len(ls) : m - 1 \in 1 .. n /\ ls[m] = s[m - 1] /\ ls[m] \in R
  <2> SUFFICES ASSUME NEW m \in 2 .. Len(ls)
               PROVE  m - 1 \in 1 .. n /\ ls[m] = s[m - 1] /\ ls[m] \in R
    OBVIOUS
  <2>1. n > 0 /\ Len(hd) = 1
    BY <1>3, <1>5, <1>6
  <2>2. m - 1 \in 1 .. n /\ ls[m] = t[m - 1]
    BY <1>3, <1>5, <2>1
  <2> QED
    BY <1>1, <1>2, <1>3, <1>4, <2>2
<1>8. \A i, j \in 2 .. Len(ls) : ls[i] = ls[j] => i = j
  <2> SUFFICES ASSUME NEW i \in 2 .. Len(ls), NEW j \in 2 .. Len(ls), ls[i] = ls[j]
               PROVE  i = j
    OBVIOUS
  <2>1. s[i - 1] = s[j - 1] /\ i - 1 \in 1 .. N /\ j - 1 \in 1 .. N
    BY <1>1, <1>3, <1>7
  <2>2. i - 1 = j - 1
    BY <1>2, <2>1
  <2> QED
    BY <2>2
<1>9. ASSUME n = N, NEW r \in R
      PROVE  \E m \in 2 .. Len(ls) : ls[m] = r
  <2>1. s \in Injection(1 .. N, R)
    BY <1>2 DEF Injection, IsInjective
  <2>2. Cardinality(1 .. N) = N
    BY <1>1, FS_Interval
  <2>3. s \in Surjection(1 .. N, R)
    BY <2>1, <2>2, FS_Injection DEF N
  <2>4. PICK i \in 1 .. N : s[i] = r
    BY <2>3 DEF Surjection
  <2>5. i + 1 \in 2 .. Len(ls)
    <3>1. Len(hd) = 1
      BY <1>1, <1>6, <1>9, <2>4
    <3> QED
      BY <1>1, <1>5, <1>9, <2>4, <3>1
  <2>6. ls[i + 1] = r
    BY <1>1, <1>7, <2>4, <2>5
  <2> QED
    BY <2>5, <2>6
<1> QED
  BY <1>2, <1>5, <1>7, <1>8, <1>9 DEF N, Arranged

\* What a task finds of its chunk.
LEMMA RunningChunk ==
  ASSUME Inv, NEW k \in 1 .. Len(task), Live
  PROVE  /\ k \in DOMAIN chunks
         /\ ChunkRows(k) \in SUBSET FileLine /\ IsFiniteSet(ChunkRows(k))
         /\ ChunkRows(k) \subseteq Part(current, k)
         /\ HeaderOf(Lines(ChunkPath(k))) \in Seq(FileLine)
         /\ Len(HeaderOf(Lines(ChunkPath(k)))) \in {0, 1}
         /\ ChunkRows(k) # {} => Len(HeaderOf(Lines(ChunkPath(k)))) = 1
<1>1. k \in DOMAIN chunks
  BY Facts
<1>2. ChunkRows(k) \subseteq FileLine /\ HeaderOf(Lines(ChunkPath(k))) \in Seq(FileLine)
      /\ Len(HeaderOf(Lines(ChunkPath(k)))) \in {0, 1}
  BY ChunkRowsTyped DEF Inv, Typed
<1>3. IsFiniteSet(ChunkRows(k)) /\ ChunkRows(k) \subseteq Part(current, k)
  BY <1>1, ChunkRowsPart
<1>4. ChunkRows(k) # {} => Lines(ChunkPath(k)) # <<>>
  <2>1. CASE Lines(ChunkPath(k)) = <<>>
    <3>1. ChunkRows(k) = {}
      BY <2>1 DEF ChunkRows
    <3> QED
      BY <3>1
  <2> QED
    BY <2>1
<1>5. ChunkRows(k) # {} => Len(HeaderOf(Lines(ChunkPath(k)))) = 1
  BY <1>4 DEF HeaderOf
<1> QED
  BY <1>1, <1>2, <1>3, <1>5

\* What a task leaves when it stores its chunk carries the rows of the chunk, in order.
LEMMA StoredIsGood ==
  ASSUME Inv, Live, phase # "split", NEW k \in 1 .. Len(task),
         \A r \in ChunkRows(k) : ~Malformed(r),
         NEW s \in SetToSeqs(ChunkRows(k)), NEW n \in 0 .. Cardinality(ChunkRows(k)),
         \A i, j \in DOMAIN s : i < j => ~LineSmaller(s[j], s[i]),
         MayFail \/ n = Cardinality(ChunkRows(k))
  PROVE  LET ls == HeaderOf(Lines(ChunkPath(k))) \o SubSeq(s, 1, n) IN
         /\ ls \in Seq(FileLine)
         /\ Carries(ls, Part(current, k))
         /\ Ascends(ls, HeaderLine(current))
<1> SUFFICES ASSUME NEW R, R = ChunkRows(k), NEW hd, hd = HeaderOf(Lines(ChunkPath(k))),
                    NEW ls, ls = hd \o SubSeq(s, 1, n)
             PROVE  /\ ls \in Seq(FileLine) /\ Carries(ls, Part(current, k))
                    /\ Ascends(ls, HeaderLine(current))
  OBVIOUS
<1>1. /\ R \in SUBSET FileLine /\ IsFiniteSet(R) /\ R \subseteq Part(current, k)
      /\ hd \in Seq(FileLine) /\ Len(hd) \in {0, 1} /\ (R # {} => Len(hd) = 1)
      /\ s \in SetToSeqs(R) /\ n \in 0 .. Cardinality(R) /\ (MayFail \/ n = Cardinality(R))
      /\ ls = hd \o SubSeq(s, 1, n)
  BY RunningChunk
<1>2. Cardinality(R) \in Nat
  BY <1>1, FS_CardinalityType
<1>3. /\ ls \in Seq(FileLine)
      /\ DOMAIN s = 1 .. Cardinality(R)
      /\ \A m \in 2 .. Len(ls) : m - 1 \in 1 .. n /\ ls[m] = s[m - 1] /\ ls[m] \in R
      /\ \A i, j \in 2 .. Len(ls) : ls[i] = ls[j] => i = j
      /\ n = Cardinality(R) => \A r \in R : \E m \in 2 .. Len(ls) : ls[m] = r
  <2>1. Arranged(ls, R, s, n)
    BY <1>1, StoredShape
  <2> QED
    BY <2>1 DEF Arranged
<1>4. \A r \in R : OwnHeader(r) = HeaderLine(current)
  <2>1. \A r \in DataLinesOf(current) : r[1] = current
    BY DEF DataLinesOf
  <2> QED
    BY <1>1, <2>1 DEF OwnHeader, Part
<1>5. \A r \in R : ~Malformed(r)
  OBVIOUS
<1>6. ~MayFail => Part(current, k) \subseteq R
  BY RunningChunk, ChunkRowsPart
<1>7. Carries(ls, Part(current, k))
  BY <1>1, <1>3, <1>5, <1>6 DEF Carries, Within
<1>8. ASSUME NEW i \in 2 .. Len(ls), NEW j \in 2 .. Len(ls), i < j
      PROVE  ~Smaller(HeaderLine(current), LineOf(ls[j]), LineOf(ls[i]))
  <2>1. i - 1 \in DOMAIN s /\ j - 1 \in DOMAIN s /\ i - 1 < j - 1
    BY <1>1, <1>2, <1>3, <1>8
  <2>2. ~LineSmaller(ls[j], ls[i]) /\ ls[j] \in R
    BY <1>3, <2>1
  <2> QED
    BY <1>4, <2>2 DEF LineSmaller
<1>9. Ascends(ls, HeaderLine(current))
  BY <1>8 DEF Ascends
<1> QED
  BY <1>3, <1>7, <1>9

\* Every step writes values of the types.
LEMMA TypedKept ==
  ASSUME Inv, [Next]_vars
  PROVE  Typed'
<1>1. /\ files \in Batches
      /\ sorted \in 0 .. Len(files) /\ Len(files) \in Nat
      /\ phase \in {"next", "split", "spawn", "await", "merge", "clean", "final",
                    "done", "unwind", "aborted", "killed"}
      /\ task \in Seq({"started", "writing", "stored", "threw"})
      /\ Len(task) <= Len(chunks) /\ Len(task) \in Nat /\ Len(chunks) \in Nat
      /\ phase \in {"await", "merge"} => Len(task) = Len(chunks)
      /\ \A p \in DOMAIN disk : disk[p] \in Seq(FileLine)
      /\ mergePc \in {"open", "prime", "merge", "done"}
  BY Facts DEF Inv, Typed
<1> USE DEF splitState, mergeState
<1>2. CASE StartFile
  <2>1. /\ UNCHANGED <<files, sorted, disk, mergePc>> /\ phase' = "split" /\ task' = <<>>
        /\ chunks' = <<>>
    BY <1>2 DEF StartFile
  <2> QED
    BY <1>1, <2>1 DEF Typed
<1>3. CASE SplitStep
  <2>1. /\ UNCHANGED <<files, sorted, task, mergePc>> /\ phase = "split"
        /\ phase' \in {"split", "spawn"}
    BY <1>3 DEF SplitStep
  <2>2. Len(task') <= Len(chunks')
    <3>1. Len(task) = 0
      <4>1. task = <<>>
        BY <2>1 DEF Inv, Joined
      <4> QED
        BY <4>1
    <3>2. chunks' = chunks \/ \E x : chunks' = Append(chunks, x)
      BY <1>3 DEF SplitStep, S!SplitNext, S!ReadLine, S!Finish, S!WriteChunk
    <3>3. Len(chunks') \in Nat
      BY <1>1, <3>2, AppendIsSequence DEF Inv, Names
    <3> QED
      BY <2>1, <3>1, <3>3
  <2>3. \A p \in DOMAIN disk' : disk'[p] \in Seq(FileLine)
    <3>1. CASE chunks' = chunks
      <4>1. disk' = disk
        BY <1>3, <3>1 DEF SplitStep
      <4> QED
        BY <1>1, <4>1
    <3>2. CASE chunks' # chunks
      <4> DEFINE ls == [m \in DOMAIN Last(chunks') |-> <<current, Last(chunks')[m]>>]
      <4>1. disk' = With(ChunkPath(Len(chunks')), ls) \/ disk' = disk
        BY <1>3, <3>2 DEF SplitStep
      <4>2. ls \in Seq(FileLine)
        BY <1>3, <3>2, ChunkTyped
      <4> HIDE DEF ls
      <4> QED
        BY <1>1, <4>1, <4>2, TypedWrite
    <3> QED
      BY <3>1, <3>2
  <2> QED
    BY <1>1, <2>1, <2>2, <2>3 DEF Typed
<1>4. CASE Spawn
  <2>1. UNCHANGED <<files, sorted, disk, mergePc, chunks>>
    BY <1>4 DEF Spawn
  <2>2. CASE task' = Append(task, "started") /\ phase' = "spawn" /\ Len(task) < Len(chunks)
    <3>1. task' \in Seq({"started", "writing", "stored", "threw"}) /\ Len(task') = Len(task) + 1
      BY <1>1, <2>2, AppendProperties
    <3> QED
      BY <1>1, <2>1, <2>2, <3>1 DEF Typed
  <2>3. CASE task' = task /\ (phase' = "unwind" \/ (phase' = "await" /\ ~(Len(task) < Len(chunks))))
    BY <1>1, <2>1, <2>3 DEF Typed
  <2> QED
    BY <1>4, <2>2, <2>3 DEF Spawn, Unspawned
<1>5. CASE Await
  <2>1. /\ UNCHANGED <<files, sorted, disk, mergePc, chunks, task>> /\ phase = "await"
        /\ phase' \in {"await", "unwind"}
    BY <1>5 DEF Await
  <2> QED
    BY <1>1, <2>1 DEF Typed
<1>6. CASE MergeChunks \/ MergeFiles
  <2>1. /\ UNCHANGED <<files, sorted, disk, chunks, task>> /\ mergePc' = "open"
        /\ \/ phase = "await" /\ phase' = "merge"
           \/ phase' = "final"
    BY <1>6 DEF MergeChunks, MergeFiles, StartMerge
  <2> QED
    BY <1>1, <2>1 DEF Typed
<1>7. ASSUME UNCHANGED <<files, sorted, chunks, task>>,
             phase' \in {phase, "unwind", "killed", "clean", "done", "aborted"},
             \A p \in DOMAIN disk' : disk'[p] \in Seq(FileLine),
             mergePc' \in {"open", "prime", "merge", "done"}
      PROVE  Typed'
  BY <1>1, <1>7 DEF Typed
<1>8. CASE MergeOpens
  <2>1. UNCHANGED <<files, sorted, chunks, task, phase, disk>> /\ mergePc' = "prime"
    BY <1>8 DEF MergeOpens, M!OpenAndSkipHeaders
  <2> QED
    BY <1>1, <1>7, <2>1
<1>9. CASE MergePrimes
  <2>1. /\ UNCHANGED <<files, sorted, chunks, task>> /\ mergePc' = "merge"
        /\ phase' \in {phase, "unwind", "killed"}
        /\ disk' = disk \/ disk' = With(Target, <<MergedHeader>>)
    BY <1>9 DEF MergePrimes, M!PrimeHeap, Comparing
  <2>2. <<MergedHeader>> \in Seq(FileLine)
    BY DEF FileLine
  <2>3. \A p \in DOMAIN disk' : disk'[p] \in Seq(FileLine)
    BY <1>1, <2>1, <2>2, TypedWrite
  <2> QED
    BY <1>7, <2>1, <2>3
<1>10. CASE MergeWrites
  <2>1. /\ UNCHANGED <<files, sorted, chunks, task>> /\ mergePc' = "merge"
        /\ phase' \in {phase, "unwind", "killed"} /\ Merging /\ M!MergeStep
        /\ \/ disk' = disk
           \/ /\ out' # out
              /\ disk' = With(Target, Append(disk[Target], RowIn(Last(out'))))
    BY <1>10 DEF MergeWrites, M!MergeStep, Comparing
  <2>2. \A p \in DOMAIN disk' : disk'[p] \in Seq(FileLine)
    <3>1. CASE disk' = disk
      BY <1>1, <3>1
    <3>2. CASE out' # out /\ disk' = With(Target, Append(disk[Target], RowIn(Last(out'))))
      <4>1. PICK top \in MP!DataLines :
              Last(out') = top /\ Target \in DOMAIN disk
        BY <2>1, <3>2, MergeStepWrites
      <4>2. RowIn(top) \in FileLine
        BY <2>1, MergeRow
      <4>3. Append(disk[Target], RowIn(top)) \in Seq(FileLine)
        BY <1>1, <4>1, <4>2, AppendProperties
      <4>4. disk' = With(Target, Append(disk[Target], RowIn(top)))
        BY <2>1, <3>2, <4>1
      <4> QED
        BY <1>1, <4>3, <4>4, TypedWrite
    <3> QED
      BY <2>1, <3>1, <3>2
  <2> QED
    BY <1>7, <2>1, <2>2
<1>11. CASE MergeReturns
  <2>1. /\ UNCHANGED <<files, sorted, chunks, task>> /\ mergePc' = "done"
        /\ phase' \in {"clean", "done"}
        /\ RemoveFiles({MergePath(k) : k \in onDisk})
    BY <1>11, ReturnRemoves DEF MergeReturns, M!CleanUp
  <2>2. \A p \in DOMAIN disk' : disk'[p] \in Seq(FileLine)
    BY <1>1, <2>1, TypedRemoval DEF Inv, Names
  <2> QED
    BY <1>7, <2>1, <2>2
<1>12. CASE RemoveChunks
  <2>1. /\ UNCHANGED <<files, chunks, task, mergePc>> /\ phase = "clean" /\ phase' = "next"
        /\ sorted' = sorted + 1 /\ RemoveFiles(ChunkPaths)
    BY <1>12 DEF RemoveChunks
  <2>2. \A p \in DOMAIN disk' : disk'[p] \in Seq(FileLine)
    BY <1>1, <2>1, TypedRemoval DEF Inv, Names
  <2>3. sorted' \in 0 .. Len(files)
    BY <1>1, <2>1 DEF Inv, Names
  <2> QED
    BY <1>1, <2>1, <2>2, <2>3 DEF Typed
<1>13. CASE Unwind
  <2>1. UNCHANGED <<files, sorted, chunks, task, disk, mergePc>> /\ phase' = "aborted"
    BY <1>13 DEF Unwind
  <2> QED
    BY <1>1, <1>7, <2>1
<1>14. ASSUME NEW k, Task(k)
       PROVE  Typed'
  <2>1. /\ UNCHANGED <<files, sorted, chunks, mergePc>> /\ k \in 1 .. Len(task)
        /\ phase' \in {phase, "killed"} /\ Running(k)
    BY <1>14, TaskEffect, TaskWrites DEF Inv, Task
  <2>4. Live /\ phase # "split"
    BY <2>1, Facts DEF Live, Resting
  <2>2. /\ task' \in Seq({"started", "writing", "stored", "threw"}) /\ Len(task') = Len(task)
    <3>1. task' = task \/ \E v \in {"writing", "stored", "threw"} : task' = [task EXCEPT ![k] = v]
      BY <1>14, TaskWrites
    <3> QED
      BY <1>1, <2>1, <3>1, ExceptSeq
  <2>3. \A p \in DOMAIN disk' : disk'[p] \in Seq(FileLine)
    <3>1. CASE disk' = disk
      BY <1>1, <3>1
    <3>2. CASE disk' = With(SortedChunkPath(k), HeaderOf(Lines(ChunkPath(k))))
      <4>1. HeaderOf(Lines(ChunkPath(k))) \in Seq(FileLine)
        BY <2>1, <2>4, RunningChunk
      <4> QED
        BY <1>1, <3>2, <4>1, TypedWrite
    <3>4. CASE disk' = With(SortedChunkPath(k), <<>>)
      <4>1. <<>> \in Seq(FileLine)
        OBVIOUS
      <4> QED
        BY <1>1, <3>4, <4>1, TypedWrite
    <3>3. CASE /\ \A r \in ChunkRows(k) : ~Malformed(r)
               /\ \E s \in SetToSeqs(ChunkRows(k)), n \in 0 .. Cardinality(ChunkRows(k)) :
                    /\ \A i, j \in DOMAIN s : i < j => ~LineSmaller(s[j], s[i])
                    /\ MayFail \/ n = Cardinality(ChunkRows(k))
                    /\ disk' = With(SortedChunkPath(k),
                                    HeaderOf(Lines(ChunkPath(k))) \o SubSeq(s, 1, n))
      <4>1. PICK s \in SetToSeqs(ChunkRows(k)), n \in 0 .. Cardinality(ChunkRows(k)) :
                    /\ \A i, j \in DOMAIN s : i < j => ~LineSmaller(s[j], s[i])
                    /\ MayFail \/ n = Cardinality(ChunkRows(k))
                    /\ disk' = With(SortedChunkPath(k),
                                    HeaderOf(Lines(ChunkPath(k))) \o SubSeq(s, 1, n))
        BY <3>3
      <4>2. HeaderOf(Lines(ChunkPath(k))) \o SubSeq(s, 1, n) \in Seq(FileLine)
        BY <2>1, <2>4, <3>3, <4>1, StoredIsGood
      <4> QED
        BY <1>1, <4>1, <4>2, TypedWrite
    <3> QED
      BY <1>14, <3>1, <3>2, <3>3, <3>4, TaskWrites
  <2> QED
    BY <1>1, <2>1, <2>2, <2>3 DEF Typed
<1>15. CASE UNCHANGED vars
  BY <1>1, <1>15 DEF vars, Typed
<1> QED
  BY <1>2, <1>3, <1>4, <1>5, <1>6, <1>8, <1>9, <1>10, <1>11, <1>12, <1>13, <1>14, <1>15
  DEF Next, Main

----------------------------------------------------------------------------
(* The split and the chunks it left. *)

\* A step that changes neither the split nor a chunk on disk.
LEMMA SplittingSame ==
  ASSUME Inv, [Next]_vars, UNCHANGED <<files, sorted, splitState>>,
         Live' => Live, phase' = "split" <=> phase = "split",
         Live' => \A k : Kept(ChunkPath(k))
  PROVE  Splitting'
<1> USE DEF splitState
<1>1. SP!Invariant' /\ (phase' = "split" => reading')
  BY SplitInvariantKept DEF Inv, Splitting
<1>5. current' = current
  BY DEF current
<1>2. ASSUME Live'
      PROVE  /\ sorted' < Len(files')
             /\ source' \in Delivered(Content[current'])
             /\ phase' # "split" => next' = Len(source') /\ lines' = <<>>
  <2>1. Live
    BY <1>2
  <2> QED
    BY <1>5, <2>1 DEF Inv, Splitting
<1>3. ASSUME Live', ~MayFail, NEW k \in DOMAIN chunks
      PROVE  /\ ChunkPath(k)' \in DOMAIN disk'
             /\ disk'[ChunkPath(k)'] = [m \in DOMAIN chunks[k] |-> <<current', chunks[k][m]>>]
  <2>1. ChunkPath(k)' = ChunkPath(k)
    BY <1>5 DEF ChunkPath
  <2>2. /\ ChunkPath(k) \in DOMAIN disk
        /\ disk[ChunkPath(k)] = [m \in DOMAIN chunks[k] |-> <<current, chunks[k][m]>>]
    BY <1>3 DEF Inv, Splitting
  <2>3. Kept(ChunkPath(k))
    BY <1>3
  <2> QED
    BY <1>5, <2>1, <2>2, <2>3 DEF Kept
<1>4. ASSUME Live', NEW k \in DOMAIN chunks, NEW m \in 2 .. Len(chunks[k])
      PROVE  Home(<<current', chunks[k][m]>>) = k
  BY <1>4, <1>5 DEF Inv, Splitting
<1> QED
  BY <1>1, <1>2, <1>3, <1>4 DEF Splitting

\* A line that is read goes to the chunk that is being filled, and this fills it or does not.
LEMMA ReadPlaces ==
  ASSUME Inv, phase = "split", SP!ReadLine
  PROVE  /\ \A m \in DOMAIN SP!Taken(next + 1) :
              Home(<<current, SP!Taken(next + 1)[m]>>) = Len(chunks) + 1
         /\ Track(current)[next + 1] = Advance(<<Len(chunks), bytes>>, SP!SizeOf(next + 1))
<1> DEFINE n == next + 1
<1>1. /\ SP!Typed /\ n \in 1 .. Len(source) /\ next \in Nat /\ lines \in Seq(Nat)
  <2>1. SP!Typed /\ SP!TypeOK
    BY DEF Inv, Splitting, SP!Invariant, SP!Typed
  <2> QED
    BY <2>1, SP!ReadEffect, SP!PlainNumbers, SplitAssumed
<1>2. /\ <<Len(chunks), bytes>> = Track(current)[next]
      /\ \A m \in DOMAIN lines : Home(<<current, lines[m]>>) = Len(chunks) + 1
  BY DEF Inv, Cutting
<1>3. current \in DOMAIN Content /\ n \in DOMAIN Content[current] /\ source[n] = Content[current][n]
  BY <1>1, CurrentFile DEF Live
<1>4. next \in 0 .. Len(Content[current]) - 1
  BY <1>1, <1>3, FileTypes
<1>5. Home(<<current, n>>) = Len(chunks) + 1
  <2>1. n - 1 = next
    BY <1>1
  <2> QED
    BY <1>2, <2>1 DEF Home
<1>6. SP!Taken(n) = lines \/ SP!Taken(n) = Append(lines, n)
  BY <1>1, SP!ReadEffect, SplitAssumed
<1>7. ASSUME NEW m \in DOMAIN SP!Taken(n)
      PROVE  Home(<<current, SP!Taken(n)[m]>>) = Len(chunks) + 1
  <2>1. CASE SP!Taken(n) = lines
    BY <1>2, <1>7, <2>1
  <2>2. CASE SP!Taken(n) = Append(lines, n)
    <3>1. DOMAIN lines = 1 .. Len(lines) /\ Len(lines) \in Nat
      BY <1>1, LenProperties
    <3>2. m \in 1 .. Len(lines) + 1
          /\ SP!Taken(n)[m] = IF m <= Len(lines) THEN lines[m] ELSE n
      BY <1>1, <1>7, <2>2, <3>1, AppendProperties
    <3>3. CASE m \in DOMAIN lines
      BY <1>2, <3>1, <3>2, <3>3
    <3>4. CASE m \notin DOMAIN lines
      BY <1>5, <3>1, <3>2, <3>4
    <3> QED
      BY <3>3, <3>4
  <2> QED
    BY <1>6, <2>1, <2>2
<1>8. SP!SizeOf(n) = Size[Content[current][n]]
  BY <1>1, <1>3 DEF SP!SizeOf
<1>9. Track(current)[n] = Advance(Track(current)[next], Size[Content[current][n]])
  BY <1>3, <1>4, TrackStep
<1> QED
  BY <1>2, <1>7, <1>8, <1>9

\* A chunk that is written has the lines that belong there.
LEMMA WritePlaces ==
  ASSUME Inv, SplitStep, chunks' # chunks
  PROVE  \E c : /\ chunks' = Append(chunks, c)
                /\ \A m \in 2 .. Len(c) : Home(<<current, c[m]>>) = Len(chunks) + 1
<1>1. phase = "split" /\ (SP!ReadLine \/ SP!Finish)
  BY SplitIsSplit DEF SplitStep, SP!SplitNext
<1>2. /\ SP!Typed /\ next \in Nat /\ lines \in Seq(Nat) /\ chunks \in Seq(Seq(Nat))
  <2>1. SP!Typed /\ SP!TypeOK
    BY DEF Inv, Splitting, SP!Invariant, SP!Typed
  <2> QED
    BY <2>1, SP!PlainNumbers, SplitAssumed
<1>3. ASSUME NEW h \in Nat, NEW ls \in Seq(Nat), SP!WriteChunk(SP!Chunk(h, ls)),
             \A m \in DOMAIN ls : Home(<<current, ls[m]>>) = Len(chunks) + 1
      PROVE  \E c : /\ chunks' = Append(chunks, c)
                    /\ \A m \in 2 .. Len(c) : Home(<<current, c[m]>>) = Len(chunks) + 1
  <2>1. PICK c \in Seq(Nat) :
          /\ chunks' = Append(chunks, c)
          /\ c # <<>> => c[1] = h
          /\ \A m \in 2 .. Len(c) : m - 1 \in DOMAIN ls /\ c[m] = ls[m - 1]
          /\ ~MayFail => Len(c) = Len(ls) + 1
    <3>1. SP!SplitAssumption /\ chunks \in Seq(Seq(Nat))
      BY <1>2, SplitAssumed
    <3> QED
      BY <1>3, <3>1, SP!WriteEffect
  <2> QED
    BY <1>3, <2>1
<1>4. CASE SP!ReadLine
  <2>1. /\ SP!WriteChunk(SP!Chunk(header', SP!Taken(next + 1)))
        /\ header' \in 1 .. next + 1 /\ SP!Taken(next + 1) \in Seq(1 .. next + 1)
    BY <1>2, <1>4, SP!ReadEffect, SplitAssumed
  <2>2. header' \in Nat /\ SP!Taken(next + 1) \in Seq(Nat)
    <3>1. 1 .. next + 1 \subseteq Nat
      OBVIOUS
    <3>2. Seq(1 .. next + 1) \subseteq Seq(Nat)
      BY <3>1, SeqMonotonic
    <3> QED
      BY <2>1, <3>1, <3>2
  <2> QED
    BY <1>1, <1>3, <1>4, <2>1, <2>2, ReadPlaces
<1>5. CASE SP!Finish
  <2>1. SP!WriteChunk(SP!Chunk(header, lines))
    BY <1>5 DEF SP!Finish
  <2>2. header \in Nat
    BY <1>2 DEF SP!Typed, SP!TypeOK
  <2>3. \A m \in DOMAIN lines : Home(<<current, lines[m]>>) = Len(chunks) + 1
    BY <1>1 DEF Inv, Cutting
  <2> QED
    BY <1>2, <1>3, <2>1, <2>2, <2>3
<1> QED
  BY <1>1, <1>4, <1>5

\* A chunk that the split writes is on disk.
LEMMA SplitStepSplits ==
  ASSUME Inv, SplitStep
  PROVE  Splitting'
<1> USE DEF splitState
<1>1. /\ UNCHANGED <<files, sorted, task>> /\ phase = "split" /\ Live /\ S!SplitNext
      /\ source' = source /\ current' = current
      /\ phase' = IF reading' THEN "split" ELSE "spawn"
  BY DEF SplitStep, Live, current, S!SplitNext, S!ReadLine, S!Finish
<1>2. SP!Invariant'
  <2>1. [Next]_vars
    BY DEF Next, Main
  <2> QED
    BY <2>1, SplitInvariantKept
<1>3. reading /\ (~reading' => next' = Len(source') /\ lines' = <<>>)
  <2>1. CASE S!ReadLine
    BY <2>1 DEF S!ReadLine
  <2>2. CASE S!Finish
    <3>1. reading /\ next = Len(source) /\ UNCHANGED <<source, next>>
      BY <2>2 DEF S!Finish
    <3>2. lines' = <<>>
      BY <2>2 DEF S!Finish
    <3> QED
      BY <3>1, <3>2
  <2> QED
    BY <1>1, <2>1, <2>2 DEF S!SplitNext
<1>4. sorted < Len(files) /\ source \in Delivered(Content[current])
  BY <1>1 DEF Inv, Splitting
<1>5. ASSUME NEW k \in DOMAIN chunks'
      PROVE  /\ \A m \in 2 .. Len(chunks'[k]) : Home(<<current', chunks'[k][m]>>) = k
             /\ ~MayFail =>
                  /\ ChunkPath(k)' \in DOMAIN disk'
                  /\ disk'[ChunkPath(k)'] =
                       [m \in DOMAIN chunks'[k] |-> <<current', chunks'[k][m]>>]
  <2>1. \A j : ChunkPath(j)' = ChunkPath(j)
    BY <1>1 DEF ChunkPath, current
  <2>2. \A j \in DOMAIN chunks :
          /\ \A m \in 2 .. Len(chunks[j]) : Home(<<current, chunks[j][m]>>) = j
          /\ ~MayFail =>
               /\ ChunkPath(j) \in DOMAIN disk
               /\ disk[ChunkPath(j)] = [m \in DOMAIN chunks[j] |-> <<current, chunks[j][m]>>]
    BY <1>1 DEF Inv, Splitting
  <2>3. CASE chunks' = chunks
    <3>1. disk' = disk
      BY <2>3 DEF SplitStep
    <3> QED
      BY <1>1, <2>1, <2>2, <2>3, <3>1
  <2>4. CASE chunks' # chunks
    <3> DEFINE last == Len(chunks) + 1
    <3>1. PICK x : /\ chunks' = Append(chunks, x)
                   /\ \A m \in 2 .. Len(x) : Home(<<current, x[m]>>) = last
      BY <2>4, WritePlaces
    <3>2. /\ DOMAIN chunks = 1 .. Len(chunks) /\ Len(chunks) \in Nat
          /\ DOMAIN chunks' = 1 .. last /\ Len(chunks') = last
          /\ \A i \in 1 .. Len(chunks) : chunks'[i] = chunks[i]
          /\ chunks'[last] = x
      BY <3>1, AppendIsSequence DEF Inv, Names
    <3>3. ~MayFail => disk' = With(ChunkPath(last), [m \in DOMAIN x |-> <<current, x[m]>>])
      BY <2>4, <3>2 DEF SplitStep, Last
    <3>4. CASE k = last
      BY <1>1, <2>1, <3>1, <3>2, <3>3, <3>4, AfterWrite
    <3>5. CASE k # last
      <4>1. k \in DOMAIN chunks /\ chunks'[k] = chunks[k]
        BY <3>2, <3>5
      <4>2. ChunkPath(k) # ChunkPath(last)
        BY <3>5 DEF ChunkPath
      <4>3. ~MayFail => Kept(ChunkPath(k))
        BY <3>3, <4>2, AfterWrite
      <4> QED
        BY <1>1, <2>1, <2>2, <4>1, <4>3 DEF Kept
    <3> QED
      BY <3>4, <3>5
  <2> QED
    BY <2>3, <2>4
<1> QED
  BY <1>1, <1>2, <1>3, <1>4, <1>5 DEF Splitting

\* The paths of the different kinds of files differ.
LEMMA PathsDiffer ==
  /\ \A j, k : ChunkPath(j) # SortedChunkPath(k)
  /\ \A j, k : j # k => SortedChunkPath(j) # SortedChunkPath(k)
  /\ \A j, g : ChunkPath(j) # SortedPath(g) /\ SortedChunkPath(j) # SortedPath(g)
  /\ \A j : ChunkPath(j) # ResultPath /\ SortedChunkPath(j) # ResultPath
  /\ \A g : SortedPath(g) # ResultPath
  /\ \A f, g : f # g => SortedPath(f) # SortedPath(g)
BY DEF ChunkPath, SortedChunkPath, SortedPath, ResultPath

\* What the steps of the merge do to disk.
LEMMA MergeDisk ==
  ASSUME MergeOpens \/ MergePrimes \/ MergeWrites
  PROVE  /\ UNCHANGED <<files, columns, sorted, splitState, task, awaited, onDisk, file>>
         /\ phase \in {"merge", "final"} /\ phase' \in {phase, "unwind", "killed"}
         /\ \A q : q # Target => Kept(q)
         /\ Target = IF phase = "final" THEN ResultPath ELSE SortedPath(current)
<1>1. /\ UNCHANGED <<files, columns, sorted, splitState, task, awaited, onDisk, file>>
      /\ phase \in {"merge", "final"} /\ phase' \in {phase, "unwind", "killed"}
      /\ disk' = disk \/ \E ls : disk' = With(Target, ls)
  BY DEF MergeOpens, MergePrimes, MergeWrites, Merging, Comparing, splitState,
         M!OpenAndSkipHeaders, M!PrimeHeap, M!MergeStep
<1> QED
  BY <1>1, AfterWrite, AllKept DEF Target

\* The chunks of the current file stay on disk, as the split made them, until its end.
LEMMA SplittingKept ==
  ASSUME Inv, [Next]_vars
  PROVE  Splitting'
<1> USE DEF splitState
<1>1. CASE StartFile
  <2>1. /\ UNCHANGED <<files, sorted>> /\ phase' = "split" /\ chunks' = <<>> /\ reading'
        /\ source' \in Delivered(Content[current]) /\ sorted < Len(files)
    BY <1>1 DEF StartFile
  <2>2. current' = current /\ DOMAIN chunks' = {}
    BY <2>1, EmptyIsSequence DEF current
  <2>3. SP!Invariant'
    BY SplitInvariantKept
  <2> QED
    BY <2>1, <2>2, <2>3 DEF Splitting
<1>2. CASE SplitStep
  BY <1>2, SplitStepSplits
<1>3. CASE Spawn \/ Await \/ MergeChunks
  <2>1. /\ UNCHANGED <<files, sorted, splitState, disk>> /\ phase \in {"spawn", "await"}
        /\ phase' # "split"
    BY <1>3 DEF Spawn, Await, MergeChunks
  <2> QED
    BY <2>1, AllKept, SplittingSame DEF Live
<1>4. CASE MergeFiles
  <2>1. UNCHANGED <<files, sorted, splitState, disk, task>> /\ phase = "next" /\ phase' = "final"
    BY <1>4 DEF MergeFiles
  <2>2. Resting'
    BY <2>1, Facts DEF Resting, Running
  <2> QED
    BY <2>1, <2>2, AllKept, SplittingSame DEF Live
<1>5. CASE MergeOpens \/ MergePrimes \/ MergeWrites
  <2>1. /\ UNCHANGED <<files, sorted, splitState, task>>
        /\ phase \in {"merge", "final"} /\ phase' \in {phase, "unwind", "killed"}
        /\ \A q : q # Target => Kept(q)
        /\ Target = IF phase = "final" THEN ResultPath ELSE SortedPath(current)
    BY <1>5, MergeDisk
  <2>2. Resting'
    BY <2>1, Facts DEF Resting, Running
  <2>3. \A k : Kept(ChunkPath(k))
    BY <2>1, PathsDiffer
  <2> QED
    BY <2>1, <2>2, <2>3, SplittingSame DEF Live
<1>6. CASE MergeReturns
  <2>1. /\ UNCHANGED <<files, sorted, splitState, task>>
        /\ RemoveFiles({MergePath(k) : k \in onDisk}) /\ stuck \subseteq DOMAIN disk
        /\ phase \in {"merge", "final"} /\ phase' \in {"clean", "done"}
        /\ phase' = "clean" => phase = "merge"
    BY <1>6, ReturnRemoves DEF MergeReturns, Merging, Inv, Names
  <2>2. Resting'
    BY <2>1, Facts DEF Resting, Running
  <2>3. \A j, k : ChunkPath(j) # MergePath(k)
    BY PathsDiffer DEF MergePath
  <2>4. \A j : Kept(ChunkPath(j))
    BY <2>1, <2>3, AfterRemoval
  <2> QED
    BY <2>1, <2>2, <2>4, SplittingSame DEF Live
<1>7. CASE RemoveChunks \/ Unwind
  <2>1. UNCHANGED <<splitState, task>> /\ phase' \in {"next", "aborted"}
        /\ (phase = "clean" \/ \A k \in DOMAIN task : ~Running(k))
    BY <1>7 DEF RemoveChunks, Unwind
  <2>2. Resting'
    BY <2>1, Facts DEF Resting, Running
  <2>3. SP!Invariant'
    BY SplitInvariantKept
  <2> QED
    BY <2>1, <2>2, <2>3 DEF Splitting, Live
<1>8. ASSUME NEW k, Task(k)
      PROVE  Splitting'
  <2>1. /\ UNCHANGED <<files, sorted, splitState>> /\ k \in DOMAIN task /\ Running(k)
        /\ phase' \in {phase, "killed"}
        /\ disk' = disk \/ \E ls : disk' = With(SortedChunkPath(k), ls)
    BY <1>8, TaskEffect DEF Inv, Task
  <2>2. ~Resting /\ Live
    BY <2>1 DEF Resting, Live
  <2>3. phase # "split"
    BY <2>2, Facts
  <2>4. \A j : Kept(ChunkPath(j))
    BY <2>1, AfterWrite, AllKept, PathsDiffer
  <2> QED
    BY <2>1, <2>2, <2>3, <2>4, SplittingSame
<1>9. CASE UNCHANGED vars
  <2>1. UNCHANGED <<files, sorted, splitState, disk, task, phase>>
    BY <1>9 DEF vars
  <2>2. Live' <=> Live
    BY <2>1 DEF Live, Resting, Running
  <2> QED
    BY <2>1, <2>2, AllKept, SplittingSame
<1> QED
  BY <1>1, <1>2, <1>3, <1>4, <1>5, <1>6, <1>7, <1>8, <1>9 DEF Next, Main

\* Where the split stands is where the track of the file has come to.
LEMMA CuttingKept ==
  ASSUME Inv, [Next]_vars
  PROVE  Cutting'
<1> USE DEF splitState
<1>1. CASE StartFile
  <2>1. /\ UNCHANGED <<files, sorted>> /\ sorted < Len(files)
        /\ next' = 0 /\ lines' = <<>> /\ bytes' = 0 /\ chunks' = <<>>
    BY <1>1 DEF StartFile
  <2>2. current \in DOMAIN Content /\ current' = current
    BY <2>1, Facts DEF current
  <2>3. <<Len(chunks'), bytes'>> = Track(current)[0]
    BY <2>1, <2>2, TrackStep
  <2> QED
    BY <2>1, <2>2, <2>3, EmptyIsSequence DEF Cutting
<1>2. CASE SplitStep
  <2>1. /\ UNCHANGED <<files, sorted>> /\ phase = "split" /\ SP!SplitNext
        /\ phase' = IF reading' THEN "split" ELSE "spawn"
    BY <1>2, SplitIsSplit DEF SplitStep
  <2>2. current' = current
    BY <2>1 DEF current
  <2>3. CASE SP!ReadLine
    <3> DEFINE n == next + 1
    <3>1. /\ next' = n
          /\ \/ /\ lines' = SP!Taken(n)
                /\ bytes' = bytes + SP!SizeOf(n) /\ bytes' \in 0 .. ChunkSize - 1
                /\ chunks' = chunks
             \/ /\ bytes + SP!SizeOf(n) >= ChunkSize
                /\ lines' = <<>> /\ bytes' = 0
                /\ SP!WriteChunk(SP!Chunk(header', SP!Taken(n)))
      BY <2>3, SP!ReadEffect, SplitAssumed DEF Inv, Splitting, SP!Invariant
    <3>2. /\ \A m \in DOMAIN SP!Taken(n) : Home(<<current, SP!Taken(n)[m]>>) = Len(chunks) + 1
          /\ Track(current)[n] = Advance(<<Len(chunks), bytes>>, SP!SizeOf(n))
      BY <2>1, <2>3, ReadPlaces
    <3>3. CASE lines' = SP!Taken(n) /\ bytes' = bytes + SP!SizeOf(n)
               /\ bytes' \in 0 .. ChunkSize - 1 /\ chunks' = chunks
      <4>1. ~(bytes + SP!SizeOf(n) >= ChunkSize)
        BY <3>3, SorterAssumption
      <4>2. Track(current)[n] = <<Len(chunks'), bytes'>>
        BY <3>2, <3>3, <4>1 DEF Advance
      <4> QED
        BY <2>2, <3>1, <3>2, <3>3, <4>2 DEF Cutting
    <3>4. CASE bytes + SP!SizeOf(n) >= ChunkSize /\ lines' = <<>> /\ bytes' = 0
               /\ SP!WriteChunk(SP!Chunk(header', SP!Taken(n)))
      <4>1. \E x : chunks' = Append(chunks, x)
        BY <3>4 DEF SP!WriteChunk
      <4>2. Len(chunks') = Len(chunks) + 1
        BY <4>1, AppendIsSequence DEF Inv, Names
      <4>3. Track(current)[n] = <<Len(chunks'), bytes'>>
        BY <3>2, <3>4, <4>2 DEF Advance
      <4> QED
        BY <2>2, <3>1, <3>4, <4>3, EmptyIsSequence DEF Cutting
    <3> QED
      BY <3>1, <3>3, <3>4
  <2>4. CASE SP!Finish
    BY <2>1, <2>4 DEF SP!Finish, Cutting
  <2> QED
    BY <2>1, <2>3, <2>4 DEF SP!SplitNext
<1>3. CASE phase' # "split"
  BY <1>3 DEF Cutting
<1>4. CASE \/ Spawn \/ Await \/ MergeChunks \/ MergeFiles \/ RemoveChunks \/ Unwind
           \/ MergeOpens \/ MergePrimes \/ MergeWrites \/ MergeReturns
  BY <1>3, <1>4 DEF Spawn, Await, MergeChunks, MergeFiles, RemoveChunks, Unwind, MergeOpens,
                    MergePrimes, MergeWrites, MergeReturns, Merging, Comparing
<1>5. ASSUME NEW k, Task(k)
      PROVE  Cutting'
  <2>1. phase' \in {phase, "killed"} /\ ~Resting
    BY <1>5, TaskEffect DEF Inv, Resting
  <2>2. phase # "split"
    BY <2>1, Facts
  <2> QED
    BY <1>3, <2>1, <2>2
<1>6. CASE UNCHANGED vars
  <2>1. UNCHANGED <<files, sorted, chunks, bytes, next, lines, phase>> /\ current' = current
    BY <1>6 DEF vars, current
  <2> QED
    BY <2>1 DEF Inv, Cutting
<1> QED
  BY <1>1, <1>2, <1>4, <1>5, <1>6 DEF Next, Main

----------------------------------------------------------------------------
(* What the tasks have written. *)

\* The rows of a chunk are those of its file.
LEMMA ChunkKept ==
  ASSUME NEW k, UNCHANGED <<files, sorted>>, Kept(ChunkPath(k))
  PROVE  /\ current' = current
         /\ ChunkPath(k)' = ChunkPath(k) /\ SortedChunkPath(k)' = SortedChunkPath(k)
         /\ Lines(ChunkPath(k))' = Lines(ChunkPath(k)) /\ ChunkRows(k)' = ChunkRows(k)
<1>1. current' = current
  BY DEF current
<1>2. ChunkPath(k)' = ChunkPath(k) /\ SortedChunkPath(k)' = SortedChunkPath(k)
  BY <1>1 DEF ChunkPath, SortedChunkPath
<1>3. Lines(ChunkPath(k))' = Lines(ChunkPath(k))
  BY <1>2 DEF Kept, Lines
<1>4. ChunkRows(k)' = ChunkRows(k)
  BY <1>3 DEF ChunkRows
<1> QED
  BY <1>1, <1>2, <1>3, <1>4

\* A task that does not step keeps what it has written, if its files are kept.
LEMMA TaskFilesKept ==
  ASSUME NEW k, UNCHANGED <<files, sorted>>, TaskFiles(k), task'[k] = task[k],
         Kept(ChunkPath(k)), Kept(SortedChunkPath(k))
  PROVE  TaskFiles(k)'
<1>1. /\ ChunkPath(k)' = ChunkPath(k) /\ SortedChunkPath(k)' = SortedChunkPath(k)
      /\ Lines(ChunkPath(k))' = Lines(ChunkPath(k)) /\ ChunkRows(k)' = ChunkRows(k)
      /\ current' = current
  BY ChunkKept
<1>2. Lines(SortedChunkPath(k))' = Lines(SortedChunkPath(k))
  BY <1>1 DEF Kept, Lines
<1> QED
  BY <1>1, <1>2 DEF TaskFiles, Kept

\* A file without a row is one of the outcomes.
LEMMA NothingStored ==
  ASSUME NEW ls, Len(ls) < 2, Len(ls) \in Nat, NEW rows, NEW h
  PROVE  Within(ls, rows) /\ Ascends(ls, h)
BY DEF Within, Ascends

\* The file that a task writes has rows of its chunk, in order; all of them once it is stored,
\* unless a file operation may have failed.
LEMMA TaskStores ==
  ASSUME Inv, NEW k, Task(k)
  PROVE  \/ /\ disk' = disk
            /\ task' = task \/ task'[k] = "threw" \/ (MayFail /\ task'[k] = "stored")
         \/ \E ls : /\ disk' = With(SortedChunkPath(k), ls)
                    /\ Within(ls, Part(current, k)) /\ Ascends(ls, HeaderLine(current))
                    /\ task'[k] = "stored" => Carries(ls, Part(current, k))
                    /\ task'[k] = "writing" => ls = HeaderOf(Lines(ChunkPath(k)))
<1>1. k \in DOMAIN task /\ k \in 1 .. Len(task) /\ Running(k)
  BY TaskEffect, Facts DEF Inv
<1>2. Live /\ phase # "split"
  BY <1>1, Facts DEF Live, Resting
<1>3. CASE /\ task' = [task EXCEPT ![k] = "writing"]
           /\ disk' = With(SortedChunkPath(k), HeaderOf(Lines(ChunkPath(k))))
  <2> DEFINE hd == HeaderOf(Lines(ChunkPath(k)))
  <2>1. Len(hd) \in {0, 1}
    BY <1>1, <1>2, RunningChunk
  <2>2. task'[k] = "writing" /\ disk' = With(SortedChunkPath(k), hd)
    BY <1>1, <1>3
  <2>3. hd = HeaderOf(Lines(ChunkPath(k)))
    OBVIOUS
  <2> HIDE DEF hd
  <2>4. Len(hd) < 2 /\ Len(hd) \in Nat
    <3>1. \A x \in {0, 1} : x < 2 /\ x \in Nat
      OBVIOUS
    <3> QED
      BY <2>1, <3>1, Zenon
  <2>5. Within(hd, Part(current, k)) /\ Ascends(hd, HeaderLine(current))
    BY <2>4, NothingStored
  <2> QED
    BY <2>2, <2>3, <2>5
<1>4. CASE /\ task' = [task EXCEPT ![k] = "stored"] /\ MayFail
           /\ disk' = With(SortedChunkPath(k), <<>>)
  <2>1. Within(<<>>, Part(current, k)) /\ Ascends(<<>>, HeaderLine(current))
    BY NothingStored
  <2>2. task'[k] = "stored"
    BY <1>1, <1>4
  <2> QED
    BY <1>4, <2>1, <2>2 DEF Carries
<1>5. CASE /\ task' = [task EXCEPT ![k] = "stored"]
           /\ \A r \in ChunkRows(k) : ~Malformed(r)
           /\ \E s \in SetToSeqs(ChunkRows(k)), n \in 0 .. Cardinality(ChunkRows(k)) :
                /\ \A i, j \in DOMAIN s : i < j => ~LineSmaller(s[j], s[i])
                /\ MayFail \/ n = Cardinality(ChunkRows(k))
                /\ disk' = With(SortedChunkPath(k),
                                HeaderOf(Lines(ChunkPath(k))) \o SubSeq(s, 1, n))
  <2>1. PICK s \in SetToSeqs(ChunkRows(k)), n \in 0 .. Cardinality(ChunkRows(k)) :
              /\ \A i, j \in DOMAIN s : i < j => ~LineSmaller(s[j], s[i])
              /\ MayFail \/ n = Cardinality(ChunkRows(k))
              /\ disk' = With(SortedChunkPath(k),
                              HeaderOf(Lines(ChunkPath(k))) \o SubSeq(s, 1, n))
    BY <1>5
  <2> DEFINE ls == HeaderOf(Lines(ChunkPath(k))) \o SubSeq(s, 1, n)
  <2>2. Carries(ls, Part(current, k)) /\ Ascends(ls, HeaderLine(current))
    BY <1>1, <1>2, <1>5, <2>1, StoredIsGood
  <2>3. task'[k] = "stored" /\ disk' = With(SortedChunkPath(k), ls)
    BY <1>1, <1>5, <2>1
  <2> HIDE DEF ls
  <2> QED
    BY <2>2, <2>3 DEF Carries
<1>6. CASE /\ disk' = disk
           /\ \/ task' = task \/ task' = [task EXCEPT ![k] = "threw"]
              \/ MayFail /\ task' = [task EXCEPT ![k] = "stored"]
  BY <1>1, <1>6
<1> QED
  BY <1>3, <1>4, <1>5, <1>6, TaskWrites

\* A step of a task leaves its own file as TaskFiles says, and those of the others alone.
LEMMA TaskStepTasks ==
  ASSUME Inv, NEW k, Task(k)
  PROVE  \A j \in DOMAIN task' : TaskFiles(j)'
<1>1. /\ UNCHANGED <<files, sorted>> /\ k \in DOMAIN task /\ Running(k)
      /\ DOMAIN task' = DOMAIN task
      /\ \A j \in DOMAIN task : j # k => task'[j] = task[j]
      /\ disk' = disk \/ \E ls : disk' = With(SortedChunkPath(k), ls)
  BY TaskEffect DEF Inv
<1>2. Live /\ \A j \in DOMAIN task : TaskFiles(j)
  BY <1>1 DEF Inv, Tasks, Resting, Live
<1>3. \A j : Kept(ChunkPath(j)) /\ (j # k => Kept(SortedChunkPath(j)))
  BY <1>1, AfterWrite, AllKept, PathsDiffer
<1>4. \A j \in DOMAIN task : j # k => TaskFiles(j)'
  BY <1>1, <1>2, <1>3, TaskFilesKept
<1>5. /\ ChunkPath(k)' = ChunkPath(k) /\ SortedChunkPath(k)' = SortedChunkPath(k)
      /\ Lines(ChunkPath(k))' = Lines(ChunkPath(k))
      /\ current' = current
  BY <1>1, <1>3, ChunkKept
<1>6. TaskFiles(k)'
  <2>1. CASE \E ls : /\ disk' = With(SortedChunkPath(k), ls)
                     /\ task'[k] = "stored" => Carries(ls, Part(current, k))
                     /\ task'[k] = "writing" => ls = HeaderOf(Lines(ChunkPath(k)))
    <3>1. PICK ls : /\ disk' = With(SortedChunkPath(k), ls)
                    /\ task'[k] = "stored" => Carries(ls, Part(current, k))
                    /\ task'[k] = "writing" => ls = HeaderOf(Lines(ChunkPath(k)))
      BY <2>1
    <3>2. /\ SortedChunkPath(k) \in DOMAIN disk' /\ disk'[SortedChunkPath(k)] = ls
          /\ Lines(SortedChunkPath(k))' = ls
      BY <1>5, <3>1, AfterWrite DEF Lines
    <3>3. task'[k] = "stored" => Carries(Lines(SortedChunkPath(k)), Part(current, k))'
      BY <1>5, <3>1, <3>2 DEF Carries, Within
    <3> QED
      BY <1>5, <3>1, <3>2, <3>3 DEF TaskFiles, HeaderOf
  <2>2. CASE /\ disk' = disk
             /\ task' = task \/ task'[k] = "threw" \/ (MayFail /\ task'[k] = "stored")
    <3>1. Lines(SortedChunkPath(k))' = Lines(SortedChunkPath(k))
      BY <1>5, <2>2 DEF Lines
    <3>2. CASE task' = task
      BY <1>1, <1>2, <1>3, <2>2, <3>2, AllKept, TaskFilesKept
    <3>3. CASE task'[k] = "threw"
      BY <3>3 DEF TaskFiles
    <3>4. CASE MayFail /\ task'[k] = "stored"
      <4>2. current \in DOMAIN Content /\ k \in Nat
        BY <1>1, <1>2, CurrentFile, Facts
      <4>3. Within(Lines(SortedChunkPath(k)), Part(current, k))
        BY <4>2 DEF Inv, Parts, SortedChunkPath
      <4>4. Carries(Lines(SortedChunkPath(k)), Part(current, k))'
        BY <1>5, <3>1, <3>4, <4>3 DEF Carries, Within
      <4> QED
        BY <3>4, <4>4 DEF TaskFiles
    <3> QED
      BY <2>2, <3>2, <3>3, <3>4
  <2> QED
    BY <2>1, <2>2, TaskStores
<1> QED
  BY <1>1, <1>4, <1>6

\* A step writes rows where they belong, in order, or nothing.
LEMMA PartsAfter ==
  ASSUME Inv, NEW D,
         \A q : q \in D \/ Kept(q) \/ Lines(q)' = <<>>,
         \A g \in DOMAIN Content, k \in Nat :
           /\ <<g, k, "tmp">> \in D =>
                \A m \in 2 .. Len(Lines(<<g, k, "tmp">>)') : Lines(<<g, k, "tmp">>)'[m] \in Part(g, k)
           /\ <<g, k, "tmp_s">> \in D =>
                /\ Within(Lines(<<g, k, "tmp_s">>)', Part(g, k))
                /\ Ascends(Lines(<<g, k, "tmp_s">>)', HeaderLine(g))
  PROVE  Parts'
<1> SUFFICES ASSUME NEW g \in DOMAIN Content, NEW k \in Nat
             PROVE  /\ \A m \in 2 .. Len(Lines(<<g, k, "tmp">>)') :
                         Lines(<<g, k, "tmp">>)'[m] \in Part(g, k)
                    /\ Within(Lines(<<g, k, "tmp_s">>)', Part(g, k))
                    /\ Ascends(Lines(<<g, k, "tmp_s">>)', HeaderLine(g))
  BY DEF Parts
<1>1. /\ \A m \in 2 .. Len(Lines(<<g, k, "tmp">>)) : Lines(<<g, k, "tmp">>)[m] \in Part(g, k)
      /\ Within(Lines(<<g, k, "tmp_s">>), Part(g, k))
      /\ Ascends(Lines(<<g, k, "tmp_s">>), HeaderLine(g))
  BY DEF Inv, Parts
<1>2. \A q : Kept(q) => Lines(q)' = Lines(q)
  BY DEF Kept, Lines
<1>3. Len(<<>>) = 0
  OBVIOUS
<1>4. Within(<<>>, Part(g, k)) /\ Ascends(<<>>, HeaderLine(g))
  BY <1>3, NothingStored
<1>5. \A m \in 2 .. Len(Lines(<<g, k, "tmp">>)') : Lines(<<g, k, "tmp">>)'[m] \in Part(g, k)
  <2>1. CASE <<g, k, "tmp">> \in D
    BY <2>1
  <2>2. CASE Kept(<<g, k, "tmp">>)
    BY <1>1, <1>2, <2>2
  <2>3. CASE Lines(<<g, k, "tmp">>)' = <<>>
    BY <1>3, <2>3
  <2> QED
    BY <2>1, <2>2, <2>3
<1>6. /\ Within(Lines(<<g, k, "tmp_s">>)', Part(g, k))
      /\ Ascends(Lines(<<g, k, "tmp_s">>)', HeaderLine(g))
  <2>1. CASE <<g, k, "tmp_s">> \in D
    BY <2>1
  <2>2. CASE Kept(<<g, k, "tmp_s">>)
    BY <1>1, <1>2, <2>2
  <2>3. CASE Lines(<<g, k, "tmp_s">>)' = <<>>
    BY <1>4, <2>3
  <2> QED
    BY <2>1, <2>2, <2>3
<1> QED
  BY <1>5, <1>6

\* The lines that the split gave to its chunks are rows that belong there.
BodiesPlaced == \A k \in DOMAIN chunks : \A n \in SP!Body(k) : <<current, n>> \in Part(current, k)

\* So it is also after a step, from what Splitting says then.
LEMMA BodiesInParts ==
  files \in Seq(DOMAIN Content) /\ Len(files) \in Nat /\ sorted \in Nat /\ Splitting /\ Live => BodiesPlaced
<1> SUFFICES ASSUME files \in Seq(DOMAIN Content), Len(files) \in Nat, sorted \in Nat, Splitting, Live,
                    NEW k \in DOMAIN chunks, NEW n \in SP!Body(k)
             PROVE  <<current, n>> \in Part(current, k)
  BY DEF BodiesPlaced
<1>1. /\ SP!TypeOK /\ SP!ChunksCoverBody
      /\ \A m \in 2 .. Len(chunks[k]) : Home(<<current, chunks[k][m]>>) = k
      /\ source \in Delivered(Content[current]) /\ sorted < Len(files)
  BY DEF Splitting, SP!Invariant, SP!Typed, SP!Cut
<1>2. current \in DOMAIN Content
  BY <1>1, ElementOfSeq DEF current
<1>3. n \in SP!BelowHeader /\ next \in 0 .. Len(source)
  BY <1>1 DEF SP!ChunksCoverBody, SP!TypeOK
<1>4. source = Content[current]
  <2>1. CASE source = <<>>
    <3>1. Len(source) = 0
      BY <2>1
    <3> QED
      BY <1>3, <3>1 DEF SP!BelowHeader
  <2> QED
    BY <1>1, <2>1 DEF Delivered
<1>5. /\ n \in DOMAIN Content[current] /\ n \in Nat
      /\ \E m \in 1 .. n - 1 : m \in DOMAIN Content[current] /\ Size[Content[current][m]] > 0
  BY <1>2, <1>3, <1>4, FileTypes DEF SP!BelowHeader, SP!IsText
<1>6. <<current, n>> \in DataLinesOf(current)
  BY <1>5 DEF DataLinesOf, TextLines
<1>7. Home(<<current, n>>) = k
  BY <1>1 DEF SP!Body
<1> QED
  BY <1>6, <1>7 DEF Part

LEMMA BodiesInPartsAfter ==
  (files \in Seq(DOMAIN Content) /\ Len(files) \in Nat /\ sorted \in Nat /\ Splitting /\ Live
     => BodiesPlaced)'
BY BodiesInParts, PTL

\* A chunk that the split writes has rows that belong there.
LEMMA SplitStepParts ==
  ASSUME Inv, SplitStep
  PROVE  Parts'
<1>0. PICK k, c, p, ls :
        /\ k = Len(chunks') /\ c = Last(chunks') /\ p = <<current, k, "tmp">>
        /\ ls = [m \in DOMAIN c |-> <<current, c[m]>>]
  OBVIOUS
<1>1. /\ UNCHANGED <<files, sorted>> /\ phase' \in {"split", "spawn"} /\ phase = "split"
      /\ disk' = disk \/ (chunks' # chunks /\ disk' = With(p, ls))
  BY <1>0 DEF SplitStep, ChunkPath
<1>2. CASE disk' = disk
  <2> DEFINE D == {}
  <2>1. \A q : q \notin D /\ Kept(q)
    BY <1>2, AllKept
  <2> HIDE DEF D
  <2> QED
    BY <2>1, PartsAfter
<1>3. CASE chunks' # chunks /\ disk' = With(p, ls)
  <2>1. Live' /\ Splitting' /\ current' = current
    BY <1>1, SplitStepSplits DEF Live, current
  <2>2. files' \in Seq(DOMAIN Content) /\ Len(files') \in Nat /\ sorted' \in Nat
    BY <1>1, Facts
  <2>3. BodiesPlaced'
    BY <2>1, <2>2, BodiesInPartsAfter
  <2>4. /\ k \in DOMAIN chunks' /\ c = chunks'[k]
    <3>1. PICK x : chunks' = Append(chunks, x)
      BY <1>3, WritePlaces
    <3>2. DOMAIN chunks' = 1 .. Len(chunks) + 1 /\ Len(chunks') = Len(chunks) + 1 /\ Len(chunks) \in Nat
      BY <3>1, AppendIsSequence DEF Inv, Names
    <3> QED
      BY <1>0, <3>2 DEF Last
  <2>6. \A m \in 2 .. Len(c) : c[m] \in SP!Body(k)'
    BY <2>4 DEF SP!Body
  <2>7. \A m \in 2 .. Len(c) : <<current, c[m]>> \in Part(current, k)
    BY <2>1, <2>3, <2>4, <2>6 DEF BodiesPlaced
  <2>9. Len(ls) = Len(c) /\ \A m \in 2 .. Len(c) : ls[m] = <<current, c[m]>>
    <3>1. c \in Seq(Nat)
      <4>1. SP!TypeOK' /\ SP!Invariant'
        BY <2>1 DEF Splitting, SP!Invariant, SP!Typed
      <4>2. (SP!TypeOK => chunks \in Seq(Seq(Nat)))'
        BY SP!PlainNumbers, SplitAssumed, PTL
      <4>3. chunks' \in Seq(Seq(Nat))
        BY <4>1, <4>2
      <4> QED
        BY <2>4, <4>3, ElementOfSeq, LenProperties
    <3>2. DOMAIN c = 1 .. Len(c) /\ Len(c) \in Nat
      BY <3>1, LenProperties
    <3> QED
      BY <1>0, <3>2
  <2>11. Lines(p)' = ls /\ \A q : q # p => Kept(q)
    BY <1>3, AfterWrite
  <2>12. \A q : q \in {p} \/ Kept(q) \/ Lines(q)' = <<>>
    BY <2>11
  <2>13. ASSUME NEW g \in DOMAIN Content, NEW j \in Nat
         PROVE  /\ <<g, j, "tmp">> \in {p} =>
                     \A m \in 2 .. Len(Lines(<<g, j, "tmp">>)') :
                       Lines(<<g, j, "tmp">>)'[m] \in Part(g, j)
                /\ <<g, j, "tmp_s">> \notin {p}
    <3>1. <<g, j, "tmp_s">> \notin {p}
      BY <1>0
    <3>2. ASSUME <<g, j, "tmp">> = p
          PROVE  \A m \in 2 .. Len(Lines(<<g, j, "tmp">>)') :
                   Lines(<<g, j, "tmp">>)'[m] \in Part(g, j)
      <4>1. g = current /\ j = k
        BY <1>0, <3>2
      <4>2. Lines(<<g, j, "tmp">>)' = ls
        BY <2>11, <3>2 DEF Lines
      <4> QED
        BY <2>7, <2>9, <4>1, <4>2
    <3> QED
      BY <3>1, <3>2
  <2> QED
    BY <2>12, <2>13, PartsAfter
<1> QED
  BY <1>1, <1>2, <1>3

\* On disk the rows are where they belong, and in the sorted chunks they are in order.
LEMMA PartsKept ==
  ASSUME Inv, [Next]_vars
  PROVE  Parts'
<1>1. CASE SplitStep
  BY <1>1, SplitStepParts
<1>2. ASSUME \A q : (\E g : q = SortedPath(g)) \/ q = ResultPath \/ Kept(q) \/ Lines(q)' = <<>>
      PROVE  Parts'
  <2> DEFINE E == {q \in DOMAIN disk' : q[3] \notin {"tmp", "tmp_s"}}
  <2>1. \A q : q \in E \/ Kept(q) \/ Lines(q)' = <<>>
    <3> SUFFICES ASSUME NEW q, q \notin E PROVE Kept(q) \/ Lines(q)' = <<>>
      OBVIOUS
    <3>1. q \notin DOMAIN disk' => Lines(q)' = <<>>
      BY DEF Lines
    <3>2. (\E g : q = SortedPath(g)) \/ q = ResultPath => q[3] \notin {"tmp", "tmp_s"}
      BY DEF SortedPath, ResultPath
    <3> QED
      BY <1>2, <3>1, <3>2
  <2>2. \A g, k : <<g, k, "tmp">> \notin E /\ <<g, k, "tmp_s">> \notin E
    OBVIOUS
  <2> HIDE DEF E
  <2> QED
    BY <2>1, <2>2, PartsAfter
<1>3. CASE \/ StartFile \/ Spawn \/ Await \/ MergeChunks \/ MergeFiles \/ Unwind \/ UNCHANGED vars
  <2>1. disk' = disk
    BY <1>3 DEF StartFile, Spawn, Await, MergeChunks, MergeFiles, Unwind, vars
  <2> QED
    BY <1>2, <2>1, AllKept
<1>4. CASE MergeOpens \/ MergePrimes \/ MergeWrites
  <2>1. \A q : q # Target => Kept(q)
    BY <1>4, MergeDisk
  <2>2. Target = ResultPath \/ \E g : Target = SortedPath(g)
    BY DEF Target
  <2> QED
    BY <1>2, <2>1, <2>2
<1>5. CASE MergeReturns \/ RemoveChunks
  <2>1. \E paths : RemoveFiles(paths)
    BY <1>5 DEF MergeReturns, RemoveChunks
  <2>2. \A q : Kept(q) \/ Lines(q)' = <<>>
    BY <2>1, AfterRemoval DEF Inv, Names
  <2> QED
    BY <1>2, <2>2
<1>6. ASSUME NEW k, Task(k)
      PROVE  Parts'
  <2>1. CASE disk' = disk
    BY <1>2, <2>1, AllKept
  <2>2. CASE \E ls : /\ disk' = With(SortedChunkPath(k), ls)
                     /\ Within(ls, Part(current, k)) /\ Ascends(ls, HeaderLine(current))
    <3>2. PICK p : p = <<current, k, "tmp_s">>
      OBVIOUS
    <3>1. PICK ls : /\ disk' = With(p, ls)
                    /\ Within(ls, Part(current, k)) /\ Ascends(ls, HeaderLine(current))
      BY <2>2, <3>2 DEF SortedChunkPath
    <3>3. Lines(p)' = ls /\ \A q : q # p => Kept(q)
      BY <3>1, AfterWrite
    <3>4. \A q : q \in {p} \/ Kept(q) \/ Lines(q)' = <<>>
      BY <3>3
    <3>5. ASSUME NEW g \in DOMAIN Content, NEW j \in Nat
          PROVE  /\ <<g, j, "tmp">> \notin {p}
                 /\ <<g, j, "tmp_s">> \in {p} =>
                      /\ Within(Lines(<<g, j, "tmp_s">>)', Part(g, j))
                      /\ Ascends(Lines(<<g, j, "tmp_s">>)', HeaderLine(g))
      <4>1. <<g, j, "tmp">> \notin {p}
        BY <3>2
      <4>2. ASSUME <<g, j, "tmp_s">> = p
            PROVE  /\ Within(Lines(<<g, j, "tmp_s">>)', Part(g, j))
                   /\ Ascends(Lines(<<g, j, "tmp_s">>)', HeaderLine(g))
        <5>1. g = current /\ j = k
          BY <3>2, <4>2
        <5>2. Lines(<<g, j, "tmp_s">>)' = ls
          BY <3>3, <4>2 DEF Lines
        <5> QED
          BY <3>1, <5>1, <5>2
      <4> QED
        BY <4>1, <4>2
    <3> QED
      BY <3>4, <3>5, PartsAfter
  <2> QED
    BY <1>6, <2>1, <2>2, TaskStores
<1> QED
  BY <1>1, <1>3, <1>4, <1>5, <1>6 DEF Next, Main

\* The thread that waits for the tasks spoils none of their files.
LEMMA TasksKept ==
  ASSUME Inv, [Next]_vars
  PROVE  Tasks'
<1>1. CASE StartFile \/ SplitStep
  <2>1. task' = <<>>
    BY <1>1 DEF StartFile, SplitStep, Inv, Joined
  <2>2. DOMAIN task' = {}
    BY <2>1, EmptyIsSequence
  <2> QED
    BY <2>2 DEF Tasks
<1>2. CASE Spawn
  <2>1. UNCHANGED <<files, sorted, disk>> /\ phase = "spawn"
    BY <1>2 DEF Spawn
  <2>2. \A k : Kept(ChunkPath(k)) /\ Kept(SortedChunkPath(k))
    BY <2>1, AllKept
  <2>3. \A k \in DOMAIN task : TaskFiles(k)
    BY <2>1 DEF Inv, Tasks
  <2>4. CASE task' = task
    BY <2>1, <2>2, <2>3, <2>4, TaskFilesKept DEF Tasks
  <2>5. CASE task' = Append(task, "started")
    <3>0. PICK new : new = Len(task) + 1
      OBVIOUS
    <3>1. /\ DOMAIN task = 1 .. Len(task) /\ DOMAIN task' = 1 .. new /\ Len(task) \in Nat
          /\ \A i \in 1 .. Len(task) : task'[i] = task[i]
          /\ task'[new] = "started"
      BY <2>5, <3>0, AppendIsSequence DEF Inv, Joined
    <3>2. \A k \in DOMAIN task : TaskFiles(k)'
      BY <2>1, <2>2, <2>3, <3>1, TaskFilesKept
    <3>4. TaskFiles(new)'
      BY <3>1 DEF TaskFiles
    <3> QED
      BY <3>0, <3>1, <3>2, <3>4 DEF Tasks
  <2> QED
    BY <1>2, <2>4, <2>5 DEF Spawn
<1>3. CASE Await
  <2>1. UNCHANGED <<files, sorted, disk, task>> /\ phase = "await"
    BY <1>3 DEF Await
  <2> QED
    BY <2>1, AllKept, TaskFilesKept DEF Inv, Tasks
<1>4. CASE MergeChunks \/ MergeOpens \/ MergePrimes \/ MergeWrites \/ MergeReturns
           \/ RemoveChunks \/ MergeFiles \/ Unwind
  <2>1. task' = task /\ phase' \notin {"spawn", "await"}
    BY <1>4 DEF MergeChunks, MergeOpens, MergePrimes, MergeWrites, MergeReturns, RemoveChunks,
                MergeFiles, Unwind, Comparing, Merging
  <2>2. Resting
    <3>1. phase \in {"next", "merge", "clean", "final"} \/ awaited = Len(task)
          \/ \A k \in DOMAIN task : ~Running(k)
      BY <1>4 DEF MergeChunks, MergeOpens, MergePrimes, MergeWrites, MergeReturns, RemoveChunks,
                  MergeFiles, Unwind, Merging, AllAwaited
    <3> QED
      BY <3>1, Facts, JoinedRests DEF Resting, Inv
  <2>3. Resting'
    BY <2>1, <2>2 DEF Resting, Running
  <2> QED
    BY <2>1, <2>3 DEF Tasks
<1>5. ASSUME NEW k, Task(k)
      PROVE  Tasks'
  BY <1>5, TaskStepTasks DEF Tasks
<1>6. CASE UNCHANGED vars
  <2>1. UNCHANGED <<files, sorted, disk, task, phase>>
    BY <1>6 DEF vars
  <2>2. Resting' <=> Resting
    BY <2>1 DEF Resting, Running
  <2> QED
    BY <2>1, <2>2, AllKept, TaskFilesKept DEF Inv, Tasks
<1> QED
  BY <1>1, <1>2, <1>3, <1>4, <1>5, <1>6 DEF Next, Main

----------------------------------------------------------------------------
(* Why sort may end without a result. *)

\* Every row that a task or a merge meets is a row of a file of the batch.
LEMMA RowsOfBatch ==
  ASSUME Inv
  PROVE  /\ Live => \A k \in 1 .. Len(task) : \A r \in ChunkRows(k) :
                      \E i \in DOMAIN files : r \in DataLinesOf(files[i])
         /\ Merging => \A x \in MP!DataLines :
                         \E i \in DOMAIN files : RowIn(x) \in DataLinesOf(files[i])
<1>1. ASSUME Live, NEW k \in 1 .. Len(task), NEW r \in ChunkRows(k)
      PROVE  \E i \in DOMAIN files : r \in DataLinesOf(files[i])
  <2>1. r \in DataLinesOf(current) /\ sorted + 1 \in DOMAIN files
    BY <1>1, RunningChunk, CurrentFile, Facts DEF Part
  <2> QED
    BY <2>1 DEF current
<1>2. ASSUME Merging, NEW x \in MP!DataLines
      PROVE  \E i \in DOMAIN files : RowIn(x) \in DataLinesOf(files[i])
  <2>1. x[1] \in InputNumbers /\ RowIn(x) \in InputRows(x[1])
    BY <1>2, MergeRow
  <2>2. CASE phase = "final"
    BY <2>1, <2>2 DEF InputNumbers, InputRows
  <2>3. CASE phase = "merge"
    <3>1. RowIn(x) \in DataLinesOf(current) /\ sorted + 1 \in DOMAIN files
      BY <2>1, <2>3, CurrentFile, Facts DEF InputRows, Live, Part
    <3> QED
      BY <3>1 DEF current
  <2> QED
    BY <1>2, <2>2, <2>3 DEF Merging
<1> QED
  BY <1>1, <1>2

\* The lines that stand in the heap after a step are lines of the files.
LEMMA MergeStepTypes ==
  ASSUME Inv, Merging, MP!MergeNext
  PROVE  /\ MP!TypeOK' /\ MP!Accounting'
         /\ mergePc' = "merge" => \A x \in heap' : x \in MP!DataLines'
<1>1. MP!TypeOK' /\ MP!Accounting'
  BY MP!MergeTypeKept, MP!AccountingKept, MergeAssumed DEF Inv, MergeRuns
<1>2. mergePc' = "merge" => \A x \in heap' : x \in MP!DataLines'
  BY <1>1 DEF MP!Accounting, MP!HeapHoldsFronts
<1> QED
  BY <1>1, <1>2

\* A comparison that ends a merge is explained by the rows that it met.
LEMMA ComparingExplained ==
  ASSUME Inv, Merging, M!PrimeHeap \/ M!MergeStep, Comparing(heap'), phase' # phase
  PROVE  Explained
<1>1. MP!MergeNext /\ mergePc' = "merge" /\ UNCHANGED <<file, opened>>
  BY MergeIsMerge DEF MP!MergeNext, MP!PrimeHeap, MP!MergeStep
<1>2. \A x \in heap' : x \in MP!DataLines
  <2>1. MP!DataLines' = MP!DataLines
    BY <1>1 DEF MP!DataLines, MP!Stream, MP!Available
  <2> QED
    BY <1>1, <2>1, MergeStepTypes
<1>3. ASSUME NEW x \in heap'
      PROVE  RowIn(x) \in BatchRows
  <2>1. PICK i \in DOMAIN files : RowIn(x) \in DataLinesOf(files[i])
    BY <1>2, RowsOfBatch
  <2> QED
    BY <2>1 DEF BatchRows
<1>4. CASE \E q \in Pairs(heap') : ThrowsOn(q)
  <2>1. PICK q \in Pairs(heap') : Throws(columns, LineOf(RowIn(q[1])), LineOf(RowIn(q[2])))
    BY <1>4 DEF ThrowsOn
  <2>2. q[1] \in heap' /\ q[2] \in heap'
    BY DEF Pairs
  <2>3. RowIn(q[1]) \in BatchRows /\ RowIn(q[2]) \in BatchRows
    BY <1>3, <2>2
  <2> QED
    BY <2>1, <2>3 DEF Explained
<1>5. CASE \E q \in Pairs(heap') : TooLong(RowIn(q[1]), columns)
  <2>1. PICK q \in Pairs(heap') : TooLong(RowIn(q[1]), columns)
    BY <1>5
  <2>2. q[1] \in heap'
    BY DEF Pairs
  <2> QED
    BY <1>3, <2>1, <2>2 DEF Explained, Unreadable
<1> QED
  BY <1>4, <1>5 DEF Comparing

\* Nothing but an unreadable row or a failing operation makes sort end without a result.
LEMMA ReasonsKept ==
  ASSUME Inv, [Next]_vars
  PROVE  Reasons'
<1>1. /\ phase \in {"unwind", "aborted", "killed"} => Explained
      /\ (\E k \in DOMAIN task : task[k] = "threw") => Explained
      /\ columns' = columns => (Explained' <=> Explained)
      /\ columns' = columns \/ StartFile
  BY EffectKept, ColumnsEffect DEF Inv, Reasons
<1>2. CASE StartFile
  <2>1. phase' = "split" /\ task' = <<>>
    BY <1>2 DEF StartFile
  <2>2. DOMAIN task' = {}
    BY <2>1, EmptyIsSequence
  <2> QED
    BY <2>1, <2>2 DEF Reasons
<1>3. ASSUME task' = task, columns' = columns,
             phase' \in {"unwind", "aborted", "killed"} => Explained
      PROVE  Reasons'
  BY <1>1, <1>3 DEF Reasons
<1>11. SplitStep \/ Spawn \/ Await \/ MergeChunks \/ MergeFiles \/ MergeOpens \/ MergePrimes
       \/ MergeWrites \/ MergeReturns \/ RemoveChunks \/ Unwind \/ UNCHANGED vars
         => columns' = columns
  BY DEF SplitStep, Spawn, Await, MergeChunks, MergeFiles, MergeOpens, MergePrimes, MergeWrites,
         MergeReturns, RemoveChunks, Unwind, vars
<1>4. CASE SplitStep \/ MergeChunks \/ MergeFiles \/ MergeOpens \/ MergeReturns \/ RemoveChunks
  <2>1. /\ task' = task
        /\ phase' \in {"split", "spawn", "merge", "final", "clean", "done", "next"}
    BY <1>4 DEF SplitStep, MergeChunks, MergeFiles, MergeOpens, MergeReturns, RemoveChunks, Merging
  <2> QED
    BY <1>3, <1>4, <1>11, <2>1
<1>5. CASE Spawn
  <2>1. CASE task' = task /\ (phase' = "unwind" => MayFail) /\ phase' \in {"unwind", "await"}
    BY <1>3, <1>5, <1>11, <2>1 DEF Explained
  <2>2. CASE task' = Append(task, "started") /\ phase' = "spawn"
    <3>1. /\ DOMAIN task = 1 .. Len(task) /\ DOMAIN task' = 1 .. Len(task) + 1 /\ Len(task) \in Nat
          /\ \A i \in 1 .. Len(task) : task'[i] = task[i]
          /\ task'[Len(task) + 1] = "started"
      BY <2>2, AppendIsSequence DEF Inv, Joined
    <3>2. \A k \in DOMAIN task' : task'[k] = "threw" => k \in DOMAIN task /\ task[k] = "threw"
      BY <3>1
    <3> QED
      BY <1>1, <1>5, <1>11, <2>2, <3>2 DEF Reasons
  <2> QED
    BY <1>5, <2>1, <2>2 DEF Spawn
<1>6. CASE Await
  <2>1. awaited + 1 \in DOMAIN task
    BY <1>6, Facts DEF Await, Inv, Joined
  <2>2. task' = task /\ (phase' = "unwind" => task[awaited + 1] = "threw")
        /\ phase' \in {"await", "unwind"}
    BY <1>6 DEF Await
  <2> QED
    BY <1>1, <1>3, <1>6, <1>11, <2>1, <2>2
<1>7. CASE MergePrimes \/ MergeWrites
  <2>1. task' = task /\ Merging /\ (M!PrimeHeap \/ M!MergeStep) /\ Comparing(heap')
    BY <1>7 DEF MergePrimes, MergeWrites
  <2>2. phase' = phase \/ Explained
    BY <2>1, ComparingExplained
  <2> QED
    BY <1>1, <1>3, <1>7, <1>11, <2>1, <2>2
<1>8. CASE Unwind
  BY <1>1, <1>3, <1>8, <1>11 DEF Unwind
<1>9. ASSUME NEW k, Task(k)
      PROVE  Reasons'
  <2>1. /\ k \in DOMAIN task /\ DOMAIN task' = DOMAIN task /\ k \in 1 .. Len(task)
        /\ \A j \in DOMAIN task : j # k => task'[j] = task[j]
        /\ phase' \in {phase, "killed"} /\ Running(k) /\ columns' = columns
    BY <1>9, TaskEffect, Facts DEF Inv, Task
  <2>2. Live
    BY <2>1 DEF Live, Resting
  <2>3. ASSUME NEW r \in ChunkRows(k), Malformed(r) \/ TooLong(r, OwnHeader(r))
        PROVE  Explained
    <3>1. PICK i \in DOMAIN files : r \in DataLinesOf(files[i])
      BY <2>1, <2>2, <2>3, RowsOfBatch
    <3> QED
      BY <2>3, <3>1 DEF Explained, Unreadable, BatchRows
  <2>4. phase' = phase \/ Explained
    BY <1>9, <2>3, TaskWrites
  <2>5. task'[k] = "threw" => Explained
    <3>1. CASE task' = task
      BY <1>1, <2>1, <3>1
    <3>2. CASE \E v \in {"writing", "stored"} : task' = [task EXCEPT ![k] = v]
      BY <2>1, <3>2
    <3>3. CASE \E r \in ChunkRows(k) : Malformed(r)
      BY <2>3, <3>3
    <3> QED
      BY <1>9, <3>1, <3>2, <3>3, TaskWrites
  <2>6. (\E j \in DOMAIN task' : task'[j] = "threw") => Explained
    BY <1>1, <2>1, <2>5
  <2> QED
    BY <1>1, <2>1, <2>4, <2>6 DEF Reasons
<1>10. CASE UNCHANGED vars
  BY <1>1, <1>3, <1>10, <1>11 DEF vars
<1> QED
  BY <1>2, <1>4, <1>5, <1>6, <1>7, <1>8, <1>9, <1>10 DEF Next, Main

----------------------------------------------------------------------------
(* What the merge reads. *)

\* A step that leaves a step or the phases of a merge.
LEMMA NotMerging ==
  ASSUME Inv, [Next]_vars, Merging'
  PROVE  MergeChunks \/ MergeFiles \/ MergeOpens \/ MergePrimes \/ MergeWrites \/ UNCHANGED vars
<1>1. CASE StartFile \/ SplitStep \/ Spawn \/ Await \/ MergeReturns \/ RemoveChunks \/ Unwind
  BY <1>1 DEF StartFile, SplitStep, Spawn, Await, MergeReturns, RemoveChunks, Unwind, Merging
<1>2. ASSUME NEW k, Task(k)
      PROVE  FALSE
  <2>1. k \in DOMAIN task /\ Running(k) /\ phase' \in {phase, "killed"}
    BY <1>2, TaskEffect DEF Inv
  <2>2. phase \in {"merge", "final"}
    BY <2>1 DEF Merging
  <2> QED
    BY <2>1, <2>2, Facts DEF Resting
<1> QED
  BY <1>1, <1>2 DEF Next, Main

\* merge_sort is given what the tasks stored, or what the merges before it wrote.
LEMMA MergeChunksHolds ==
  ASSUME Inv, MergeChunks
  PROVE  InputsHeld'
<1> DEFINE paths == [k \in DOMAIN task |-> SortedChunkPath(k)]
<1>1. /\ UNCHANGED <<files, columns, sorted, disk, task>> /\ phase = "await" /\ phase' = "merge"
      /\ awaited = Len(task)
      /\ file' = [k \in DOMAIN paths |-> Under(columns, Lines(paths[k]))]
  BY DEF MergeChunks, AllAwaited, StartMerge
<1>2. /\ DOMAIN file' = DOMAIN task
      /\ \A k \in DOMAIN task : file'[k] = Under(columns, Lines(SortedChunkPath(k)))
  BY <1>1
<1> HIDE DEF paths
<1>3. InputNumbers' = DOMAIN task
  BY <1>1 DEF InputNumbers
<1>4. ASSUME NEW k \in DOMAIN task
      PROVE  /\ file'[k] = Under(columns', Lines(MergePath(k))')
             /\ Carries(Lines(MergePath(k))', InputRows(k)')
             /\ OneHeader' => Ascends(Lines(MergePath(k))', columns')
  <2>1. task[k] = "stored"
    BY <1>1, Facts DEF Inv, Joined
  <2>2. TaskFiles(k)
    BY <1>1 DEF Inv, Tasks
  <2>8. current \in DOMAIN Content /\ k \in Nat
    BY <1>1, CurrentFile, Facts DEF Live
  <2>3. /\ Carries(Lines(SortedChunkPath(k)), Part(current, k))
        /\ Ascends(Lines(SortedChunkPath(k)), HeaderLine(current))
    BY <2>1, <2>2, <2>8 DEF TaskFiles, Inv, Parts, SortedChunkPath
  <2>4. current' = current /\ SortedChunkPath(k)' = SortedChunkPath(k)
    BY <1>1, ChunkKept, AllKept
  <2>5. MergePath(k)' = SortedChunkPath(k) /\ InputRows(k)' = Part(current, k)
    BY <1>1, <2>4 DEF MergePath, InputRows
  <2>6. Lines(MergePath(k))' = Lines(SortedChunkPath(k))
    BY <1>1, <2>5 DEF Lines
  <2>7. OneHeader' => HeaderLine(current) = columns
    <3>1. sorted + 1 \in DOMAIN files
      BY <1>1, CurrentFile, Facts DEF Live
    <3>2. [Next]_vars
      BY DEF Next, Main
    <3>3. OneHeader' <=> OneHeader
      BY <1>1, <3>2, EffectKept
    <3> QED
      BY <3>1, <3>3 DEF OneHeader, current
  <2> QED
    BY <1>1, <1>2, <2>3, <2>5, <2>6, <2>7
<1> QED
  BY <1>2, <1>3, <1>4 DEF InputsHeld

LEMMA MergeFilesHolds ==
  ASSUME Inv, MergeFiles
  PROVE  InputsHeld'
<1> DEFINE paths == [k \in DOMAIN files |-> SortedPath(files[k])]
<1>1. /\ UNCHANGED <<files, columns, sorted, disk, task>> /\ phase = "next" /\ phase' = "final"
      /\ sorted = Len(files)
      /\ file' = [k \in DOMAIN paths |-> Under(columns, Lines(paths[k]))]
  BY DEF MergeFiles, StartMerge
<1>2. /\ DOMAIN file' = DOMAIN files
      /\ \A k \in DOMAIN files : file'[k] = Under(columns, Lines(SortedPath(files[k])))
  BY <1>1
<1> HIDE DEF paths
<1>3. InputNumbers' = DOMAIN files
  BY <1>1 DEF InputNumbers
<1>4. OneHeader' <=> OneHeader
  <2>1. [Next]_vars
    BY DEF Next, Main
  <2> QED
    BY <1>1, <2>1, EffectKept
<1>5. ASSUME NEW k \in DOMAIN files
      PROVE  /\ file'[k] = Under(columns', Lines(MergePath(k))')
             /\ Carries(Lines(MergePath(k))', InputRows(k)')
             /\ OneHeader' => Ascends(Lines(MergePath(k))', columns')
  <2>1. GoodFile(files[k])
    BY <1>1, Facts DEF Inv, FilesDone
  <2>2. MergePath(k)' = SortedPath(files[k]) /\ InputRows(k)' = DataLinesOf(files[k])
    BY <1>1 DEF MergePath, InputRows, SortedPath, DataLinesOf, TextLines
  <2>3. Lines(MergePath(k))' = Lines(SortedPath(files[k]))
    BY <1>1, <2>2 DEF Lines
  <2> QED
    BY <1>1, <1>2, <1>4, <2>1, <2>2, <2>3 DEF GoodFile
<1> QED
  BY <1>2, <1>3, <1>5 DEF InputsHeld

\* The files that a merge reads are not changed while it reads.
LEMMA InputsHeldKept ==
  ASSUME Inv, [Next]_vars
  PROVE  InputsHeld'
<1> SUFFICES ASSUME Merging'
             PROVE  InputsHeld'
  BY DEF InputsHeld
<1>1. CASE MergeChunks
  BY <1>1, MergeChunksHolds
<1>2. CASE MergeFiles
  BY <1>2, MergeFilesHolds
<1>3. CASE MergeOpens \/ MergePrimes \/ MergeWrites \/ UNCHANGED vars
  <2>1. /\ UNCHANGED <<files, columns, sorted, task, file, phase>> /\ Merging
        /\ \A q : q # Target => Kept(q)
        /\ Target = IF phase = "final" THEN ResultPath ELSE SortedPath(current)
    <3>1. CASE MergeOpens \/ MergePrimes \/ MergeWrites
      BY <3>1, MergeDisk DEF Merging
    <3>2. CASE UNCHANGED vars
      BY <3>2, AllKept DEF vars, mergeState, Merging, Target
    <3> QED
      BY <1>3, <3>1, <3>2
  <2>2. InputNumbers' = InputNumbers /\ (OneHeader' <=> OneHeader)
    BY <2>1, EffectKept DEF InputNumbers
  <2>3. ASSUME NEW k \in InputNumbers
        PROVE  /\ Lines(MergePath(k))' = Lines(MergePath(k))
               /\ InputRows(k)' = InputRows(k)
    <3>1. Kept(MergePath(k)) /\ Kept(ChunkPath(k))
      BY <2>1, PathsDiffer DEF MergePath
    <3>2. current' = current /\ SortedChunkPath(k)' = SortedChunkPath(k)
      BY <2>1, <3>1, ChunkKept
    <3>3. MergePath(k)' = MergePath(k) /\ InputRows(k)' = InputRows(k)
      BY <2>1, <3>2 DEF MergePath, InputRows, SortedPath, DataLinesOf, TextLines
    <3> QED
      BY <3>1, <3>3 DEF Kept, Lines
  <2>4. /\ DOMAIN file = InputNumbers
        /\ \A k \in InputNumbers :
             /\ file[k] = Under(columns, Lines(MergePath(k)))
             /\ Carries(Lines(MergePath(k)), InputRows(k))
             /\ OneHeader => Ascends(Lines(MergePath(k)), columns)
    BY <2>1 DEF Inv, InputsHeld
  <2> QED
    BY <2>1, <2>2, <2>3, <2>4 DEF InputsHeld
<1> QED
  BY <1>1, <1>2, <1>3, NotMerging

----------------------------------------------------------------------------
(* How the merge goes. *)

\* With one header for all files, the merge compares lines that have all columns of it.
LEMMA CompleteRow ==
  ASSUME Inv, Merging, OneHeader, NEW x \in MP!DataLines
  PROVE  columns \in Named /\ LineOf(RowIn(x)) \in Complete(columns)
<1>1. PICK i \in DOMAIN files : RowIn(x) \in DataLinesOf(files[i])
  BY RowsOfBatch
<1>2. files[i] \in DOMAIN Content /\ HeaderLine(files[i]) = columns
  BY <1>1, Facts, MergingColumns DEF OneHeader, Merging, Inv, Columns
<1>3. /\ LineOf(RowIn(x)) \in DOMAIN Size /\ OwnHeader(RowIn(x)) = columns /\ columns \in Named
  BY <1>1, <1>2, RowTypes
<1>4. ~Malformed(RowIn(x))
  BY MergeRow
<1>5. Fields[LineOf(RowIn(x))] \in Nat /\ Fields[columns] \in Nat
  BY <1>3, SorterAssumption
<1>6. Fields[LineOf(RowIn(x))] >= Fields[columns]
  BY <1>3, <1>4, <1>5 DEF Malformed
<1> QED
  BY <1>3, <1>6 DEF Complete

\* The comparison that the merge makes is an order of the rows it compares.
LEMMA MergeOrders ==
  ASSUME Inv, Merging, OneHeader
  PROVE  MP!FilesSorted /\ MP!DataOrdered
<1>1. ASSUME NEW i \in DOMAIN file, NEW m \in 2 .. Len(file[i]), NEW n \in 2 .. Len(file[i]), m < n
      PROVE  ~UnderSmaller(file[i][n], file[i][m])
  <2> DEFINE ls == Lines(MergePath(i))
  <2>1. file[i] = Under(columns, ls) /\ Ascends(ls, columns)
    BY DEF Inv, InputsHeld
  <2>2. ls \in Seq(FileLine) /\ columns \in DOMAIN Size /\ Len(ls) \in Nat
    BY LinesTyped, MergingColumns, Facts DEF Inv, Typed, Merging, Columns
  <2> HIDE DEF ls
  <2>3. /\ Len(file[i]) = Len(ls)
        /\ \A l \in 1 .. Len(ls) : file[i][l] = <<columns, ls[l]>>
    BY <2>1, <2>2, UnderShape
  <2>4. file[i][m] = <<columns, ls[m]>> /\ file[i][n] = <<columns, ls[n]>>
    BY <2>2, <2>3
  <2>5. ~Smaller(columns, LineOf(ls[n]), LineOf(ls[m]))
    BY <1>1, <2>1, <2>3 DEF Ascends
  <2> QED
    BY <2>4, <2>5 DEF UnderSmaller
<1>2. ASSUME NEW x \in MP!DataLines, NEW y \in MP!DataLines
      PROVE  UnderSmaller(MP!Text(x), MP!Text(y)) <=>
               Smaller(columns, LineOf(RowIn(x)), LineOf(RowIn(y)))
  <2>1. MP!Text(x) = <<columns, RowIn(x)>> /\ MP!Text(y) = <<columns, RowIn(y)>>
    BY MergeRow
  <2> QED
    BY <2>1 DEF UnderSmaller
<1>3. \A x, y \in MP!DataLines :
        UnderSmaller(MP!Text(x), MP!Text(y)) => ~UnderSmaller(MP!Text(y), MP!Text(x))
  <2> SUFFICES ASSUME NEW x \in MP!DataLines, NEW y \in MP!DataLines
               PROVE  UnderSmaller(MP!Text(x), MP!Text(y)) => ~UnderSmaller(MP!Text(y), MP!Text(x))
    OBVIOUS
  <2>1. /\ columns \in Named /\ LineOf(RowIn(x)) \in Complete(columns)
        /\ LineOf(RowIn(y)) \in Complete(columns)
    BY CompleteRow
  <2>2. Smaller(columns, LineOf(RowIn(x)), LineOf(RowIn(y))) =>
          ~Smaller(columns, LineOf(RowIn(y)), LineOf(RowIn(x)))
    BY <2>1, RowsAreOrdered
  <2> QED
    BY <1>2, <2>2
<1>4. \A x, y, z \in MP!DataLines :
        UnderSmaller(MP!Text(x), MP!Text(z)) =>
          UnderSmaller(MP!Text(x), MP!Text(y)) \/ UnderSmaller(MP!Text(y), MP!Text(z))
  <2> SUFFICES ASSUME NEW x \in MP!DataLines, NEW y \in MP!DataLines, NEW z \in MP!DataLines
               PROVE  UnderSmaller(MP!Text(x), MP!Text(z)) =>
                        UnderSmaller(MP!Text(x), MP!Text(y)) \/ UnderSmaller(MP!Text(y), MP!Text(z))
    OBVIOUS
  <2>1. /\ columns \in Named /\ LineOf(RowIn(x)) \in Complete(columns)
        /\ LineOf(RowIn(y)) \in Complete(columns) /\ LineOf(RowIn(z)) \in Complete(columns)
    BY CompleteRow
  <2>2. Smaller(columns, LineOf(RowIn(x)), LineOf(RowIn(z))) =>
          \/ Smaller(columns, LineOf(RowIn(x)), LineOf(RowIn(y)))
          \/ Smaller(columns, LineOf(RowIn(y)), LineOf(RowIn(z)))
    BY <2>1, RowsAreOrdered
  <2> QED
    BY <1>2, <2>2
<1> QED
  BY <1>1, <1>3, <1>4 DEF MP!FilesSorted, MP!DataOrdered, MP!Stream

\* A merge starts where module MergeSort starts.
LEMMA MergeBegins ==
  ASSUME Inv, NEW N \in Nat, NEW path, columns \in DOMAIN Size,
         DOMAIN path = 1 .. N, StartMerge(path)
  PROVE  MP!TypeOK' /\ MP!Accounting' /\ MP!OutputIsLowerSet'
<1>1. \A k \in 1 .. N : Under(columns, Lines(path[k])) \in Seq(StreamLine)
  <2> SUFFICES ASSUME NEW k \in 1 .. N
               PROVE  Under(columns, Lines(path[k])) \in Seq(StreamLine)
    OBVIOUS
  <2>1. Lines(path[k]) \in Seq(FileLine)
    BY LinesTyped DEF Inv, Typed
  <2> QED
    BY <2>1, UnderShape
<1>2. file' = [k \in 1 .. N |-> Under(columns, Lines(path[k]))]
  BY DEF StartMerge
<1>3. file' \in [1 .. N -> Seq(StreamLine)]
  BY <1>1, <1>2
<1>4. file' \in Seq(Seq(StreamLine)) /\ DOMAIN file' = 1 .. N
  BY <1>3
<1>5. MP!Init'
  BY <1>4 DEF StartMerge, MP!Init, MP!Stream
<1> QED
  BY <1>5, MergeStarts

\* A merge that starts, and every step of it, keeps what MergeSort_proofs shows of merge_sort.
LEMMA MergeRunsStart ==
  ASSUME Inv, MergeChunks \/ MergeFiles
  PROVE  MergeRuns'
<1>1. MP!TypeOK' /\ MP!Accounting' /\ MP!OutputIsLowerSet'
  <2>1. CASE MergeChunks
    <3>1. /\ StartMerge([k \in DOMAIN task |-> SortedChunkPath(k)]) /\ phase = "await"
      BY <2>1 DEF MergeChunks
    <3> DEFINE path == [k \in DOMAIN task |-> SortedChunkPath(k)]
    <3>2. DOMAIN path = 1 .. Len(task) /\ Len(task) \in Nat
      BY Facts
    <3>3. columns \in DOMAIN Size
      BY <3>1, MergingColumns
    <3>4. StartMerge(path)
      BY <3>1
    <3> HIDE DEF path
    <3> QED
      BY <3>2, <3>3, <3>4, MergeBegins
  <2>2. CASE MergeFiles
    <3>1. StartMerge([k \in DOMAIN files |-> SortedPath(files[k])]) /\ sorted = Len(files)
      BY <2>2 DEF MergeFiles
    <3> DEFINE path == [k \in DOMAIN files |-> SortedPath(files[k])]
    <3>2. DOMAIN path = 1 .. Len(files) /\ Len(files) \in Nat
      BY Facts
    <3>3. columns \in DOMAIN Size
      BY <3>1, MergingColumns, Facts
    <3>4. StartMerge(path)
      BY <3>1
    <3> HIDE DEF path
    <3> QED
      BY <3>2, <3>3, <3>4, MergeBegins
  <2> QED
    BY <2>1, <2>2
<1>2. mergePc' = "open"
  BY DEF MergeChunks, MergeFiles, StartMerge
<1> QED
  BY <1>1, <1>2 DEF MergeRuns

LEMMA MergeRunsKept ==
  ASSUME Inv, [Next]_vars
  PROVE  MergeRuns'
<1> SUFFICES ASSUME Merging'
             PROVE  MergeRuns'
  BY DEF MergeRuns
<1>1. CASE MergeChunks \/ MergeFiles
  BY <1>1, MergeRunsStart
<1>2. Merging => (OneHeader' <=> OneHeader)
  <2>1. Merging => columns' = columns
    BY EffectKept DEF Merging
  <2> QED
    BY <2>1, EffectKept
<1>3. ASSUME Merging, MP!MergeNext, mergePc' # "done",
             ~MayFail /\ mergePc' # "open" => opened' = DOMAIN file',
             ~MayFail /\ mergePc' = "merge" => writable'
      PROVE  MergeRuns'
  <2>1. MP!TypeOK' /\ MP!Accounting'
    BY <1>3, MergeStepTypes
  <2>2. OneHeader' => MP!OutputIsLowerSet'
    <3> SUFFICES ASSUME OneHeader PROVE MP!OutputIsLowerSet'
      BY <1>2, <1>3
    <3>1. MP!FilesSorted /\ MP!DataOrdered /\ MP!TypeOK /\ MP!Accounting /\ MP!OutputIsLowerSet
      BY <1>3, MergeOrders DEF Inv, MergeRuns
    <3> QED
      BY <1>3, <3>1, MP!LowerSetKept, MergeAssumed
  <2> QED
    BY <1>3, <2>1, <2>2 DEF MergeRuns
<1>4. CASE MergeOpens
  <2>1. Merging /\ MP!OpenAndSkipHeaders
    BY <1>4, MergeIsMerge DEF MergeOpens
  <2>2. mergePc' = "prime" /\ (~MayFail => opened' = DOMAIN file')
    BY <2>1 DEF MP!OpenAndSkipHeaders, MP!Stream
  <2> QED
    BY <1>3, <2>1, <2>2 DEF MP!MergeNext
<1>5. CASE MergePrimes
  <2>1. Merging /\ MP!PrimeHeap
    BY <1>5, MergeIsMerge DEF MergePrimes
  <2>2. /\ mergePc = "prime" /\ mergePc' = "merge" /\ UNCHANGED <<opened, file>>
        /\ writable' \in MP!Outcome
    BY <2>1 DEF MP!PrimeHeap
  <2>3. ~MayFail => opened = DOMAIN file
    BY <2>1, <2>2 DEF Inv, MergeRuns
  <2>4. ~MayFail => writable'
    BY <2>2 DEF MP!Outcome
  <2> QED
    BY <1>3, <2>1, <2>2, <2>3, <2>4 DEF MP!MergeNext
<1>6. CASE MergeWrites
  <2>1. Merging /\ M!MergeStep /\ MP!MergeStep
    BY <1>6, MergeIsMerge DEF MergeWrites
  <2>2. /\ mergePc = "merge" /\ mergePc' = "merge" /\ UNCHANGED <<opened, file>>
        /\ (writable /\ ~MayFail => writable')
    BY <2>1, MergeStepWrites
  <2>3. ~MayFail => opened = DOMAIN file /\ writable
    BY <2>1, <2>2 DEF Inv, MergeRuns
  <2> QED
    BY <1>3, <2>1, <2>2, <2>3 DEF MP!MergeNext
<1>7. CASE UNCHANGED vars
  <2>1. UNCHANGED <<phase, file, opened, pos, heap, out, writable, onDisk, mergePc>>
    BY <1>7 DEF vars, mergeState
  <2>2. Merging /\ MP!TypeOK /\ MP!Accounting /\ (OneHeader => MP!OutputIsLowerSet)
        /\ mergePc # "done"
        /\ (~MayFail /\ mergePc # "open" => opened = DOMAIN file)
        /\ (~MayFail /\ mergePc = "merge" => writable)
    BY <2>1 DEF Merging, Inv, MergeRuns
  <2>3. UNCHANGED MP!mergeVars
    BY <2>1 DEF MP!mergeVars
  <2>4. MP!TypeOK' /\ MP!Accounting'
    BY <2>2, <2>3, MP!MergeTypeKept, MP!AccountingKept, MergeAssumed
  <2>5. OneHeader' => MP!OutputIsLowerSet'
    BY <1>2, <2>1, <2>2, <2>3, MP!LowerSetKept, MergeOrders, MergeAssumed
  <2> QED
    BY <2>1, <2>2, <2>4, <2>5 DEF MergeRuns
<1> QED
  BY <1>1, <1>4, <1>5, <1>6, <1>7, NotMerging

----------------------------------------------------------------------------
(* What the merge writes. *)

RowsOut == [k \in DOMAIN out |-> RowIn(out[k])]

\* The result on disk: the header, and a row for every line the merge has written.
LEMMA ResultShape ==
  ASSUME Inv, Merging
  PROVE  /\ Len(out) \in Nat /\ DOMAIN out = 1 .. Len(out)
         /\ \A k \in 1 .. Len(out) : out[k] \in MP!DataLines /\ RowIn(out[k]) \in FileLine
         /\ RowsOut \in Seq(FileLine) /\ Len(RowsOut) = Len(out)
         /\ ResultLines \in Seq(FileLine) /\ Len(ResultLines) = Len(out) + 1
         /\ \A k \in 1 .. Len(out) : ResultLines[k + 1] = RowIn(out[k])
         /\ Tail(ResultLines) = RowsOut
<1>1. Len(out) \in Nat /\ DOMAIN out = 1 .. Len(out)
  <2>1. out \in Seq(MP!Stream \X Nat)
    BY DEF Inv, MergeRuns, MP!TypeOK
  <2> QED
    BY <2>1, LenProperties
<1>2. \A k \in 1 .. Len(out) : out[k] \in MP!DataLines
  <2>1. MP!Written \subseteq MP!DataLines
    BY DEF Inv, MergeRuns, MP!Accounting, MP!Taken
  <2> QED
    BY <1>1, <2>1 DEF MP!Written, MP!Range
<1>3. \A k \in 1 .. Len(out) : RowIn(out[k]) \in FileLine
  BY <1>2, MergeRow
<1>4. RowsOut = [k \in 1 .. Len(out) |-> RowIn(out[k])]
  BY <1>1 DEF RowsOut
<1>5. RowsOut \in Seq(FileLine) /\ Len(RowsOut) = Len(out)
  <2>1. RowsOut \in [1 .. Len(out) -> FileLine]
    BY <1>3, <1>4
  <2> QED
    BY <1>1, <2>1
<1>6. ResultLines = <<MergedHeader>> \o RowsOut /\ <<MergedHeader>> \in Seq(FileLine)
      /\ Len(<<MergedHeader>>) = 1
  BY DEF ResultLines, RowsOut, FileLine
<1>7. /\ ResultLines \in Seq(FileLine) /\ Len(ResultLines) = Len(out) + 1
      /\ \A k \in 1 .. Len(out) : ResultLines[k + 1] = RowsOut[k]
  <2>1. /\ ResultLines \in Seq(FileLine) /\ Len(ResultLines) = 1 + Len(out)
        /\ \A i \in 1 .. 1 + Len(out) : ResultLines[i] =
             IF i <= 1 THEN <<MergedHeader>>[i] ELSE RowsOut[i - 1]
    BY <1>5, <1>6, ConcatProperties
  <2>2. \A k \in 1 .. Len(out) : k + 1 \in 1 .. 1 + Len(out) /\ ~(k + 1 <= 1) /\ (k + 1) - 1 = k
    BY <1>1
  <2>3. ASSUME NEW k \in 1 .. Len(out)
        PROVE  ResultLines[k + 1] = RowsOut[k]
    BY <2>1, <2>2
  <2> QED
    BY <1>1, <2>1, <2>3
<1>8. Tail(ResultLines) = RowsOut
  <2>1. ResultLines # <<>>
    BY <1>1, <1>7
  <2>2. /\ Tail(ResultLines) \in Seq(FileLine) /\ Len(Tail(ResultLines)) = Len(ResultLines) - 1
        /\ \A i \in 1 .. Len(Tail(ResultLines)) : Tail(ResultLines)[i] = ResultLines[i + 1]
    BY <1>7, <2>1, HeadTailProperties
  <2>3. Len(Tail(ResultLines)) = Len(out)
    BY <1>1, <1>7, <2>2
  <2>4. \A i \in 1 .. Len(out) : Tail(ResultLines)[i] = RowsOut[i]
    BY <1>7, <2>2, <2>3
  <2> QED
    BY <1>5, <2>2, <2>3, <2>4, SeqEqual
<1> QED
  BY <1>1, <1>2, <1>3, <1>4, <1>5, <1>7, <1>8

\* Writing a line adds its row to the result.
LEMMA ResultGrows ==
  ASSUME Inv, Merging, file' = file, NEW top \in MP!DataLines, out' = Append(out, top)
  PROVE  ResultLines' = Append(ResultLines, RowIn(top))
<1>1. /\ Len(out) \in Nat /\ DOMAIN out = 1 .. Len(out)
      /\ RowsOut \in Seq(FileLine) /\ Len(RowsOut) = Len(out)
      /\ \A k \in 1 .. Len(out) : RowIn(out[k]) \in FileLine
  BY ResultShape
<1>2. RowIn(top) \in FileLine
  BY MergeRow
<1>3. /\ DOMAIN out' = 1 .. Len(out) + 1
      /\ \A k \in 1 .. Len(out) : out'[k] = out[k]
      /\ out'[Len(out) + 1] = top
  <2>1. IsSequence(out)
    <3>1. out \in Seq(MP!Stream \X Nat)
      BY DEF Inv, MergeRuns, MP!TypeOK
    <3> QED
      BY <3>1, LenProperties DEF IsSequence
  <2> QED
    BY <2>1, AppendIsSequence
<1>4. RowsOut' = Append(RowsOut, RowIn(top))
  <2> DEFINE more == [k \in 1 .. Len(out) + 1 |-> RowIn(out'[k])]
  <2>1. RowsOut' = more
    BY <1>3 DEF RowsOut, RowIn
  <2>2. \A k \in 1 .. Len(out) : RowIn(out'[k]) = RowsOut[k]
    BY <1>1, <1>3 DEF RowsOut
  <2>3. \A k \in 1 .. Len(out) + 1 : RowIn(out'[k]) \in FileLine
    <3> SUFFICES ASSUME NEW k \in 1 .. Len(out) + 1
                 PROVE  RowIn(out'[k]) \in FileLine
      OBVIOUS
    <3>1. k \in 1 .. Len(out) \/ k = Len(out) + 1
      BY <1>1
    <3> QED
      BY <1>1, <1>2, <1>3, <3>1
  <2>4. more \in Seq(FileLine) /\ Len(more) = Len(out) + 1
    <3>1. more \in [1 .. Len(out) + 1 -> FileLine]
      BY <2>3
    <3> HIDE DEF more
    <3> QED
      BY <1>1, <3>1
  <2>5. \A k \in 1 .. Len(out) : more[k] = RowsOut[k]
    BY <1>1, <2>2
  <2>6. more[Len(out) + 1] = RowIn(top)
    BY <1>1, <1>3
  <2>7. /\ Append(RowsOut, RowIn(top)) \in Seq(FileLine)
        /\ Len(Append(RowsOut, RowIn(top))) = Len(out) + 1
        /\ \A k \in 1 .. Len(out) : Append(RowsOut, RowIn(top))[k] = RowsOut[k]
        /\ Append(RowsOut, RowIn(top))[Len(out) + 1] = RowIn(top)
    BY <1>1, <1>2, AppendProperties
  <2> HIDE DEF more
  <2>8. \A k \in 1 .. Len(out) + 1 : more[k] = Append(RowsOut, RowIn(top))[k]
    <3> SUFFICES ASSUME NEW k \in 1 .. Len(out) + 1
                 PROVE  more[k] = Append(RowsOut, RowIn(top))[k]
      OBVIOUS
    <3>1. k \in 1 .. Len(out) \/ k = Len(out) + 1
      BY <1>1
    <3> QED
      BY <2>5, <2>6, <2>7, <3>1
  <2>9. more = Append(RowsOut, RowIn(top))
    BY <2>4, <2>7, <2>8, SeqEqual
  <2> QED
    BY <2>1, <2>9
<1>5. ResultLines = <<MergedHeader>> \o RowsOut /\ ResultLines' = <<MergedHeader>> \o RowsOut'
  BY DEF ResultLines, RowsOut
<1>6. <<MergedHeader>> \in Seq(FileLine)
  BY DEF FileLine
<1>7. <<MergedHeader>> \o Append(RowsOut, RowIn(top))
      = Append(<<MergedHeader>> \o RowsOut, RowIn(top))
  <2>1. <<RowIn(top)>> \in Seq(FileLine) /\ <<MergedHeader>> \o RowsOut \in Seq(FileLine)
    BY <1>1, <1>2, <1>6
  <2>2. /\ Append(RowsOut, RowIn(top)) = RowsOut \o <<RowIn(top)>>
        /\ Append(<<MergedHeader>> \o RowsOut, RowIn(top))
           = (<<MergedHeader>> \o RowsOut) \o <<RowIn(top)>>
    BY <1>1, <1>2, <2>1, AppendIsConcat
  <2>3. (<<MergedHeader>> \o RowsOut) \o <<RowIn(top)>>
        = <<MergedHeader>> \o (RowsOut \o <<RowIn(top)>>)
    BY <1>1, <1>6, <2>1, ConcatAssociative
  <2> QED
    BY <2>2, <2>3
<1> QED
  BY <1>4, <1>5, <1>7

\* When a merge starts, what stands at its target is no result yet.
LEMMA OutputStarts ==
  ASSUME Inv, MergeChunks \/ MergeFiles
  PROVE  Output'
<1>1. /\ writable' = FALSE /\ out' = <<>> /\ mergePc' = "open"
      /\ UNCHANGED <<files, columns, sorted, disk>>
      /\ \/ phase = "await" /\ phase' = "merge"
         \/ phase = "next" /\ phase' = "final" /\ sorted = Len(files)
      /\ \A q \in stuck : q[3] \in {"tmp", "tmp_s"}
  BY DEF MergeChunks, MergeFiles, StartMerge, Inv, Names
<1>2. CASE phase' = "final"
  <2>1. ResultPath \notin DOMAIN disk
    <3>1. Loose \subseteq Written(sorted)
      BY <1>1, <1>2 DEF Inv, Names
    <3>2. ResultPath \notin stuck
      BY <1>1 DEF ResultPath
    <3> QED
      BY <3>1, <3>2, PathsDiffer DEF Written, Loose
  <2>2. ResultPath' = ResultPath
    BY <1>1 DEF ResultPath
  <2> QED
    BY <1>1, <1>2, <2>1, <2>2 DEF Output
<1>3. CASE phase' = "merge"
  <2> SUFFICES ASSUME MayFail PROVE GoodFile(current)'
    BY <1>1, <1>3 DEF Output
  <2>1. phase = "await"
    BY <1>1, <1>3
  <2>2. GoodFile(current)
    <3>1. CASE SortedPath(current) \in DOMAIN disk
      <4>1. Loose \subseteq Written(sorted) \cup ChunkPaths \cup SortedChunkPaths
        BY <2>1 DEF Inv, Names
      <4>6. SortedPath(current) \notin stuck
        BY <1>1 DEF SortedPath
      <4>2. SortedPath(current) \in Written(sorted)
        BY <3>1, <4>1, <4>6, PathsDiffer DEF ChunkPaths, SortedChunkPaths, Loose
      <4>3. PICK i \in 1 .. sorted : SortedPath(files[i]) = SortedPath(current)
        BY <4>2 DEF Written
      <4>4. files[i] = current
        BY <4>3, PathsDiffer
      <4>5. GoodFile(files[i])
        BY <2>1 DEF Inv, FilesDone
      <4> QED
        BY <4>4, <4>5
    <3>2. CASE SortedPath(current) \notin DOMAIN disk
      <4>1. Lines(SortedPath(current)) = <<>> /\ Len(<<>>) = 0
        BY <3>2 DEF Lines
      <4>2. Within(<<>>, DataLinesOf(current)) /\ Ascends(<<>>, columns)
        BY <4>1, NothingStored
      <4> QED
        BY <4>1, <4>2 DEF GoodFile, Carries
    <3> QED
      BY <3>1, <3>2
  <2>3. OneHeader' <=> OneHeader
    <3>1. [Next]_vars
      BY DEF Next, Main
    <3> QED
      BY <1>1, <3>1, EffectKept
  <2>4. current' = current /\ Lines(SortedPath(current))' = Lines(SortedPath(current))
        /\ DataLinesOf(current)' = DataLinesOf(current)
    BY <1>1 DEF current, Lines, SortedPath, DataLinesOf, TextLines
  <2> QED
    BY <1>1, <2>2, <2>3, <2>4 DEF GoodFile
<1> QED
  BY <1>1, <1>2, <1>3

\* A file that is left alone stays as good as it was.
LEMMA GoodFileKept ==
  ASSUME Inv, [Next]_vars, NEW g, columns' = columns, GoodFile(g), Kept(SortedPath(g))
  PROVE  GoodFile(g)'
<1>1. OneHeader' <=> OneHeader
  BY EffectKept
<1>2. Lines(SortedPath(g))' = Lines(SortedPath(g))
  BY DEF Kept, Lines, SortedPath
<1> QED
  BY <1>1, <1>2 DEF GoodFile

LEMMA CurrentGoodKept ==
  ASSUME Inv, [Next]_vars, UNCHANGED <<files, columns, sorted>>,
         GoodFile(current), Kept(SortedPath(current))
  PROVE  GoodFile(current)'
<1>1. PICK g : g = current
  OBVIOUS
<1>2. current' = g
  BY <1>1 DEF current
<1>3. GoodFile(g)'
  BY <1>1, GoodFileKept
<1> QED
  BY <1>2, <1>3 DEF GoodFile, Lines, SortedPath, DataLinesOf, TextLines

\* What is on disk at the target are the lines that the merge has written, at every step.
LEMMA OutputKept ==
  ASSUME Inv, [Next]_vars
  PROVE  Output'
<1> SUFFICES ASSUME Merging'
             PROVE  Output'
  BY DEF Output
<1>1. CASE MergeChunks \/ MergeFiles
  BY <1>1, OutputStarts
<1>2. ASSUME Merging, phase' = phase, UNCHANGED <<files, sorted>>
      PROVE  Target' = Target /\ ResultPath' = ResultPath
  BY <1>2 DEF Target, ResultPath, SortedPath, current
<1>3. ASSUME Merging, phase' = phase, UNCHANGED <<files, columns, sorted, disk>>,
             ~writable', out' = <<>>,
             mergePc = "merge" /\ mergePc' = "merge" => UNCHANGED <<out, file>>,
             mergePc' = "merge" /\ mergePc # "merge" => MayFail,
             mergePc = "merge" => mergePc' = "merge"
      PROVE  Output'
  <2>1. Target' = Target /\ ResultPath' = ResultPath
    BY <1>2, <1>3
  <2>2. CASE mergePc = "merge" /\ Target \in DOMAIN disk /\ disk[Target] = ResultLines
    <3>1. ResultLines' = ResultLines
      BY <1>3, <2>2 DEF ResultLines, RowIn
    <3> QED
      BY <1>3, <2>1, <2>2, <3>1 DEF Output
  <2>3. CASE /\ ~writable /\ out = <<>>
             /\ ~MayFail => mergePc # "merge"
             /\ IF phase = "final" THEN ResultPath \notin DOMAIN disk
                ELSE MayFail => GoodFile(current)
    <3>1. phase # "final" /\ MayFail => GoodFile(current)'
      <4>1. Kept(SortedPath(current))
        BY <1>3, AllKept
      <4> QED
        BY <1>3, <2>3, <4>1, CurrentGoodKept
    <3>2. ~MayFail => mergePc' # "merge"
      BY <1>3, <2>3
    <3> QED
      BY <1>3, <2>1, <2>3, <3>1, <3>2 DEF Output
  <2> QED
    BY <1>3, <2>2, <2>3 DEF Inv, Output
<1>4. CASE MergeOpens
  <2>1. /\ Merging /\ phase' = phase /\ UNCHANGED <<files, columns, sorted, disk, out, writable>>
        /\ mergePc = "open" /\ mergePc' = "prime"
    BY <1>4 DEF MergeOpens, M!OpenAndSkipHeaders
  <2>2. out = <<>> /\ ~writable
    BY <2>1 DEF Inv, Output
  <2> QED
    BY <1>3, <2>1, <2>2
<1>5. CASE MergePrimes
  <2>1. /\ Merging /\ phase' \in {phase, "unwind", "killed"}
        /\ UNCHANGED <<files, columns, sorted, out, file>> /\ mergePc = "prime" /\ mergePc' = "merge"
        /\ writable' \in MP!Outcome
        /\ disk' = IF writable' /\ phase' = phase THEN With(Target, <<MergedHeader>>) ELSE disk
    <3>1. MP!PrimeHeap
      BY <1>5, MergeIsMerge DEF MergePrimes
    <3> QED
      BY <1>5, <3>1 DEF MergePrimes, MP!PrimeHeap, Comparing
  <2>2. phase' = phase
    BY <2>1 DEF Merging
  <2>3. out = <<>> /\ ~writable
    BY <2>1 DEF Inv, Output
  <2>4. CASE writable'
    <3>1. disk' = With(Target, <<MergedHeader>>) /\ Target' = Target
      BY <1>2, <2>1, <2>2, <2>4
    <3>2. ResultLines' = <<MergedHeader>>
      <4>1. out' = <<>> /\ DOMAIN out' = {}
        BY <2>1, <2>3, EmptyIsSequence
      <4>2. RowsOut' = <<>>
        BY <4>1 DEF RowsOut
      <4> QED
        BY <4>2 DEF ResultLines, RowsOut
    <3>3. Target \in DOMAIN disk' /\ disk'[Target] = <<MergedHeader>>
      BY <3>1, AfterWrite
    <3> QED
      BY <2>1, <3>1, <3>2, <3>3 DEF Output
  <2>5. CASE ~writable'
    <3>1. MayFail
      BY <2>1, <2>5, SorterAssumption DEF MP!Outcome
    <3> QED
      BY <1>3, <2>1, <2>2, <2>3, <2>5, <3>1
  <2> QED
    BY <2>4, <2>5
<1>6. CASE MergeWrites
  <2>0. /\ Merging /\ phase' \in {phase, "unwind", "killed"}
        /\ UNCHANGED <<files, columns, sorted>> /\ M!MergeStep
        /\ \/ out' # out /\ disk' = With(Target, Append(disk[Target], RowIn(Last(out'))))
           \/ (out' = out \/ phase' # phase) /\ disk' = disk
    BY <1>6 DEF MergeWrites, Comparing
  <2>2. phase' = phase
    BY <2>0 DEF Merging
  <2>1. /\ Merging /\ UNCHANGED <<files, columns, sorted>> /\ M!MergeStep
        /\ disk' = IF out' = out THEN disk
                   ELSE With(Target, Append(disk[Target], RowIn(Last(out'))))
    BY <2>0, <2>2
  <2>3. mergePc = "merge" /\ mergePc' = "merge" /\ file' = file
    BY <2>1, MergeStepWrites
  <2>4. CASE writable'
    <3>1. PICK top \in MP!DataLines :
            /\ out' = Append(out, top) /\ Last(out') = top /\ out' # out
            /\ Target \in DOMAIN disk /\ disk[Target] = ResultLines
      BY <2>1, <2>4, MergeStepWrites
    <3>2. disk' = With(Target, Append(ResultLines, RowIn(top)))
      BY <2>1, <3>1
    <3>3. ResultLines' = Append(ResultLines, RowIn(top))
      BY <2>1, <2>3, <3>1, ResultGrows
    <3>4. Target \in DOMAIN disk' /\ disk'[Target] = ResultLines' /\ Target' = Target
      BY <1>2, <2>1, <2>2, <3>2, <3>3, AfterWrite
    <3> QED
      BY <2>3, <3>4 DEF Output
  <2>5. CASE ~writable'
    <3>1. out' = out /\ disk' = disk
      BY <2>1, <2>5, MergeStepWrites
    <3>2. CASE Target \in DOMAIN disk /\ disk[Target] = ResultLines
      <4>1. ResultLines' = ResultLines /\ Target' = Target
        BY <1>2, <2>1, <2>2, <2>3, <3>1 DEF ResultLines, RowIn
      <4> QED
        BY <2>3, <3>1, <3>2, <4>1 DEF Output
    <3>3. CASE out = <<>>
      BY <1>3, <2>1, <2>2, <2>3, <2>5, <3>1, <3>3
    <3> QED
      BY <2>1, <3>2, <3>3 DEF Inv, Output
  <2> QED
    BY <2>4, <2>5
<1>7. CASE UNCHANGED vars
  <2>1. UNCHANGED <<files, columns, sorted, phase, disk, file, out, writable, mergePc>>
    BY <1>7 DEF vars, mergeState
  <2>2. Merging /\ Target' = Target /\ ResultPath' = ResultPath /\ ResultLines' = ResultLines
    BY <1>2, <2>1 DEF Merging, ResultLines, RowIn
  <2>3. GoodFile(current) => GoodFile(current)'
    BY <2>1, AllKept, CurrentGoodKept
  <2> QED
    BY <2>1, <2>2, <2>3 DEF Inv, Output
<1> QED
  BY <1>1, <1>4, <1>5, <1>6, <1>7, NotMerging

----------------------------------------------------------------------------
(* What a merge leaves. *)

\* No row of an input is written twice, all are in order under one header, and none is missing
\* in the end when no operation fails.
LEMMA MergedRows ==
  ASSUME Inv, Merging, mergePc = "merge"
  PROVE  /\ \A i, j \in 1 .. Len(out) :
              out[i][1] = out[j][1] /\ RowIn(out[i]) = RowIn(out[j]) => i = j
         /\ OneHeader =>
              \A i, j \in 1 .. Len(out) : i < j =>
                ~Smaller(columns, LineOf(RowIn(out[j])), LineOf(RowIn(out[i])))
         /\ heap = {} /\ ~MayFail =>
              \A k \in InputNumbers : \A r \in InputRows(k) :
                \E j \in 1 .. Len(out) : out[j][1] = k /\ RowIn(out[j]) = r
<1>1. /\ Len(out) \in Nat /\ DOMAIN out = 1 .. Len(out)
      /\ \A k \in 1 .. Len(out) : out[k] \in MP!DataLines
  BY ResultShape
<1>2. ASSUME NEW i \in 1 .. Len(out), NEW j \in 1 .. Len(out),
             out[i][1] = out[j][1], RowIn(out[i]) = RowIn(out[j])
      PROVE  i = j
  <2>1. PICK x, y : x = out[i] /\ y = out[j]
    OBVIOUS
  <2>2. x \in MP!DataLines /\ y \in MP!DataLines
    BY <1>1, <2>1
  <2> DEFINE ls == Lines(MergePath(x[1]))
  <2>3. /\ x = <<x[1], x[2]>> /\ x[1] \in InputNumbers /\ x[2] \in 2 .. Len(ls)
        /\ RowIn(x) = ls[x[2]]
    BY <2>2, MergeRow
  <2>4. /\ y = <<y[1], y[2]>> /\ y[2] \in 2 .. Len(Lines(MergePath(y[1])))
        /\ RowIn(y) = Lines(MergePath(y[1]))[y[2]]
    BY <2>2, MergeRow
  <2>5. x[1] = y[1] /\ RowIn(x) = RowIn(y)
    BY <1>2, <2>1
  <2>6. Carries(ls, InputRows(x[1]))
    BY <2>3 DEF Inv, InputsHeld
  <2>7. y[2] \in 2 .. Len(ls) /\ ls[x[2]] = ls[y[2]]
    BY <2>3, <2>4, <2>5
  <2> HIDE DEF ls
  <2>8. x[2] = y[2]
    BY <2>3, <2>6, <2>7 DEF Carries, Within
  <2>9. x = y
    BY <2>3, <2>4, <2>5, <2>8
  <2>10. MP!IsInjective(out)
    BY DEF Inv, MergeRuns, MP!Accounting
  <2> QED
    BY <1>1, <2>1, <2>9, <2>10 DEF MP!IsInjective
<1>3. ASSUME OneHeader, NEW i \in 1 .. Len(out), NEW j \in 1 .. Len(out), i < j
      PROVE  ~Smaller(columns, LineOf(RowIn(out[j])), LineOf(RowIn(out[i])))
  <2>1. ~UnderSmaller(MP!Text(out[j]), MP!Text(out[i]))
    BY <1>1, <1>3 DEF Inv, MergeRuns, MP!OutputIsLowerSet, MP!InOrder
  <2>2. out[i] \in MP!DataLines /\ out[j] \in MP!DataLines
    BY <1>1
  <2>3. MP!Text(out[i]) = <<columns, RowIn(out[i])>> /\ MP!Text(out[j]) = <<columns, RowIn(out[j])>>
    BY <2>2, MergeRow
  <2> QED
    BY <2>1, <2>3 DEF UnderSmaller
<1>4. ASSUME heap = {}, ~MayFail, NEW k \in InputNumbers, NEW r \in InputRows(k)
      PROVE  \E j \in 1 .. Len(out) : out[j][1] = k /\ RowIn(out[j]) = r
  <2> DEFINE ls == Lines(MergePath(k))
  <2>1. /\ writable /\ opened = DOMAIN file /\ DOMAIN file = InputNumbers
        /\ file[k] = Under(columns, ls) /\ Carries(ls, InputRows(k))
    BY <1>4 DEF Inv, MergeRuns, InputsHeld
  <2>2. ls \in Seq(FileLine) /\ Len(ls) \in Nat /\ columns \in DOMAIN Size
    BY LinesTyped, MergingColumns, Facts DEF Inv, Typed, Merging, Columns
  <2> HIDE DEF ls
  <2>3. /\ Len(file[k]) = Len(ls)
        /\ \A m \in 1 .. Len(ls) : file[k][m] = <<columns, ls[m]>>
    BY <2>1, <2>2, UnderShape
  <2>4. PICK m \in 2 .. Len(ls) : ls[m] = r
    BY <1>4, <2>1 DEF Carries
  <2>5. k \in MP!Stream /\ MP!Available(k) = Len(ls)
    BY <2>1, <2>3 DEF MP!Stream, MP!Available
  <2>6. <<k, m>> \in MP!DataLines
    BY <2>4, <2>5, MP!DataLineDef, MergeAssumed
  <2>7. MP!DataLines \subseteq MP!Written
    BY <1>4, <2>1, MP!EmptyHeapIsAll, MergeAssumed DEF Inv, MergeRuns
  <2>8. PICK j \in 1 .. Len(out) : out[j] = <<k, m>>
    BY <1>1, <2>6, <2>7 DEF MP!Written, MP!Range
  <2>9. RowIn(<<k, m>>) = r
    <3>1. m \in 1 .. Len(ls)
      BY <2>2, <2>4
    <3> QED
      BY <2>3, <2>4, <3>1 DEF RowIn
  <2> QED
    BY <2>8, <2>9
<1> QED
  BY <1>2, <1>3, <1>4

\* The sorted file that the merge of the chunks leaves carries the rows of its file.
LEMMA MergedIsGood ==
  ASSUME Inv, phase = "merge", mergePc = "merge", heap = {}
  PROVE  GoodFile(current)
<1> USE DEF Merging
<1>1. CASE ~writable /\ (~MayFail => mergePc # "merge") /\ (MayFail => GoodFile(current))
  BY <1>1
<1>2. CASE Target \in DOMAIN disk /\ disk[Target] = ResultLines
  <2> DEFINE ls == Lines(SortedPath(current))
  <2>1. ls = ResultLines
    BY <1>2 DEF Target, Lines
  <2>2. /\ Len(out) \in Nat /\ Len(ls) = Len(out) + 1
        /\ \A k \in 1 .. Len(out) : out[k] \in MP!DataLines /\ ls[k + 1] = RowIn(out[k])
    BY <2>1, ResultShape
  <2> HIDE DEF ls
  <2>3. \A m \in 2 .. Len(ls) : m - 1 \in 1 .. Len(out) /\ ls[m] = RowIn(out[m - 1])
    <3> SUFFICES ASSUME NEW m \in 2 .. Len(ls)
                 PROVE  m - 1 \in 1 .. Len(out) /\ ls[m] = RowIn(out[m - 1])
      OBVIOUS
    <3>1. m - 1 \in 1 .. Len(out) /\ (m - 1) + 1 = m
      BY <2>2
    <3> QED
      BY <2>2, <3>1
  <2>4. Live /\ InputNumbers = DOMAIN task /\ \A k : InputRows(k) = Part(current, k)
    BY DEF Live, InputNumbers, InputRows
  <2>5. DOMAIN task = DOMAIN chunks
    BY Facts DEF Inv, Typed
  <2>6. \A j \in 1 .. Len(out) :
          /\ out[j][1] \in DOMAIN chunks /\ RowIn(out[j]) \in Part(current, out[j][1])
          /\ ~Malformed(RowIn(out[j]))
    BY <2>2, <2>4, <2>5, MergeRow
  <2>7. \A m \in 2 .. Len(ls) : ls[m] \in DataLinesOf(current) /\ ~Malformed(ls[m])
    <3> SUFFICES ASSUME NEW m \in 2 .. Len(ls)
                 PROVE  ls[m] \in DataLinesOf(current) /\ ~Malformed(ls[m])
      OBVIOUS
    <3>1. PICK j \in 1 .. Len(out) : ls[m] = RowIn(out[j])
      BY <2>3
    <3> QED
      BY <2>6, <3>1 DEF Part
  <2>8. ASSUME NEW m \in 2 .. Len(ls), NEW n \in 2 .. Len(ls), ls[m] = ls[n]
        PROVE  m = n
    <3>1. PICK i \in 1 .. Len(out) : i = m - 1 /\ ls[m] = RowIn(out[i])
      BY <2>3
    <3>2. PICK j \in 1 .. Len(out) : j = n - 1 /\ ls[n] = RowIn(out[j])
      BY <2>3
    <3>3. RowIn(out[i]) = RowIn(out[j])
      BY <2>8, <3>1, <3>2
    <3>4. out[i][1] = out[j][1]
      <4>1. out[i][1] = Home(RowIn(out[i])) /\ out[j][1] = Home(RowIn(out[j]))
        BY <2>6 DEF Part
      <4> QED
        BY <3>3, <4>1
    <3>5. i = j
      BY <3>3, <3>4, MergedRows
    <3> QED
      BY <3>1, <3>2, <3>5
  <2>9. ASSUME ~MayFail, NEW r \in DataLinesOf(current)
        PROVE  \E m \in 2 .. Len(ls) : ls[m] = r
    <3>1. PICK k \in DOMAIN chunks : r \in Part(current, k)
      BY <2>4, <2>9, PartsOfFile
    <3>2. PICK j \in 1 .. Len(out) : RowIn(out[j]) = r
      BY <2>4, <2>5, <2>9, <3>1, MergedRows
    <3>3. j + 1 \in 2 .. Len(ls) /\ ls[j + 1] = r
      BY <2>2, <3>2
    <3> QED
      BY <3>3
  <2>10. Carries(ls, DataLinesOf(current))
    BY <2>7, <2>8, <2>9 DEF Carries, Within
  <2>11. ASSUME OneHeader, NEW m \in 2 .. Len(ls), NEW n \in 2 .. Len(ls), m < n
         PROVE  ~Smaller(columns, LineOf(ls[n]), LineOf(ls[m]))
    <3>1. PICK i \in 1 .. Len(out) : i = m - 1 /\ ls[m] = RowIn(out[i])
      BY <2>3
    <3>2. PICK j \in 1 .. Len(out) : j = n - 1 /\ ls[n] = RowIn(out[j])
      BY <2>3
    <3>3. i < j
      BY <2>11, <3>1, <3>2
    <3> QED
      BY <2>11, <3>1, <3>2, <3>3, MergedRows
  <2> QED
    BY <2>10, <2>11 DEF GoodFile, Ascends, ls
<1> QED
  BY <1>1, <1>2 DEF Inv, Output

\* The sorted files are good until the last merge has read them: split, tasks and the merge of
\* another file do not touch them.  A path may come twice in a batch, and is then sorted again.
LEMMA FilesDoneSame ==
  ASSUME Inv, [Next]_vars, UNCHANGED <<files, sorted>>,
         phase \in {"next", "split", "spawn", "await"},
         phase' \in {"split", "spawn", "await", "merge", "final", "unwind", "killed", "next"},
         \A g : Kept(SortedPath(g))
  PROVE  FilesDone'
<1>1. \A i \in 1 .. sorted : GoodFile(files[i])'
  <2> SUFFICES ASSUME NEW i \in 1 .. sorted
               PROVE  GoodFile(files[i])'
    OBVIOUS
  <2>1. PICK g : g = files[i]
    OBVIOUS
  <2>2. GoodFile(g)'
    <3>1. columns' = columns
      <4>1. sorted > 0
        BY Facts
      <4> QED
        BY <4>1, EffectKept
    <3> QED
      BY <2>1, <3>1, GoodFileKept DEF Inv, FilesDone
  <2>3. files'[i] = g
    BY <2>1
  <2> QED
    BY <2>2, <2>3 DEF GoodFile, Lines, SortedPath, DataLinesOf, TextLines
<1> QED
  BY <1>1 DEF FilesDone

LEMMA FilesDoneKept ==
  ASSUME Inv, [Next]_vars
  PROVE  FilesDone'
<1>1. CASE StartFile \/ SplitStep \/ Spawn \/ Await \/ MergeChunks \/ MergeFiles
  <2>1. /\ UNCHANGED <<files, sorted>>
        /\ phase \in {"next", "split", "spawn", "await"}
        /\ phase' \in {"split", "spawn", "await", "merge", "final", "unwind"}
        /\ disk' = disk \/ \E k, ls : disk' = With(ChunkPath(k), ls)
    BY <1>1 DEF StartFile, SplitStep, Spawn, Await, MergeChunks, MergeFiles
  <2>2. \A g : Kept(SortedPath(g))
    BY <2>1, AllKept, AfterWrite, PathsDiffer
  <2> QED
    BY <2>1, <2>2, FilesDoneSame
<1>2. ASSUME NEW i \in 1 .. Len(files), UNCHANGED <<files, columns>>, GoodFile(files[i]),
             Kept(SortedPath(files[i]))
      PROVE  GoodFile(files[i])'
  <2>1. PICK g : g = files[i]
    OBVIOUS
  <2>2. GoodFile(g)'
    BY <1>2, <2>1, GoodFileKept
  <2>3. files'[i] = g
    BY <1>2, <2>1
  <2> QED
    BY <2>2, <2>3 DEF GoodFile, Lines, SortedPath, DataLinesOf, TextLines
<1>3. CASE MergeOpens \/ MergePrimes \/ MergeWrites
  <2>1. /\ UNCHANGED <<files, columns, sorted>>
        /\ phase \in {"merge", "final"} /\ phase' \in {phase, "unwind", "killed"}
        /\ \A q : q # Target => Kept(q)
        /\ phase = "merge" => Target = SortedPath(current)
    BY <1>3, MergeDisk
  <2> SUFFICES ASSUME phase = "merge", phase' = "merge",
                      NEW i \in 1 .. sorted', files'[i] # current'
               PROVE  GoodFile(files[i])'
    BY <2>1 DEF FilesDone
  <2>2. files[i] # current /\ i \in 1 .. sorted /\ i \in 1 .. Len(files)
    BY <2>1, Facts DEF current
  <2>3. Kept(SortedPath(files[i]))
    BY <2>1, <2>2, PathsDiffer
  <2>4. GoodFile(files[i])
    BY <2>2 DEF Inv, FilesDone
  <2> QED
    BY <1>2, <2>1, <2>2, <2>3, <2>4
<1>4. CASE MergeReturns
  <2>1. /\ UNCHANGED <<files, columns, sorted>> /\ mergePc = "merge" /\ heap = {}
        /\ RemoveFiles({MergePath(k) : k \in onDisk}) /\ stuck \subseteq DOMAIN disk
        /\ phase \in {"merge", "final"} /\ phase' = IF phase = "merge" THEN "clean" ELSE "done"
    BY <1>4, ReturnRemoves DEF MergeReturns, M!CleanUp, Merging, Inv, Names
  <2> SUFFICES ASSUME phase = "merge", NEW i \in 1 .. sorted + 1
               PROVE  GoodFile(files[i])'
    BY <2>1 DEF FilesDone
  <2>2. \A g, k : SortedPath(g) # MergePath(k)
    BY PathsDiffer DEF MergePath
  <2>3. \A g : Kept(SortedPath(g))
    BY <2>1, <2>2, AfterRemoval
  <2>4. i \in 1 .. Len(files)
    BY CurrentFile, Facts DEF Live
  <2>5. GoodFile(files[i])
    <3>1. CASE files[i] = current
      BY <2>1, <3>1, MergedIsGood
    <3>2. CASE files[i] # current
      <4>1. i \in 1 .. sorted
        <5>1. i # sorted + 1
          BY <3>2 DEF current
        <5> QED
          BY <5>1, Facts
      <4> QED
        BY <3>2, <4>1 DEF Inv, FilesDone
    <3> QED
      BY <3>1, <3>2
  <2> QED
    BY <1>2, <2>1, <2>3, <2>4, <2>5
<1>5. CASE RemoveChunks
  <2>1. /\ UNCHANGED <<files, columns>> /\ sorted' = sorted + 1
        /\ phase = "clean" /\ phase' = "next"
        /\ RemoveFiles(ChunkPaths) /\ stuck \subseteq DOMAIN disk
    BY <1>5 DEF RemoveChunks, Inv, Names
  <2> SUFFICES ASSUME NEW i \in 1 .. sorted'
               PROVE  GoodFile(files[i])'
    BY <2>1 DEF FilesDone
  <2>2. \A g : Kept(SortedPath(g))
    BY <2>1, AfterRemoval, PathsDiffer DEF ChunkPaths
  <2>3. i \in 1 .. Len(files) /\ i \in 1 .. sorted + 1
    BY <2>1, CurrentFile, Facts DEF Live
  <2>4. GoodFile(files[i])
    BY <2>1, <2>3 DEF Inv, FilesDone
  <2> QED
    BY <1>2, <2>1, <2>2, <2>3, <2>4
<1>6. CASE Unwind
  BY <1>6 DEF Unwind, FilesDone
<1>7. ASSUME NEW k, Task(k)
      PROVE  FilesDone'
  <2>1. /\ UNCHANGED <<files, sorted>> /\ k \in DOMAIN task /\ Running(k)
        /\ phase' \in {phase, "killed"}
        /\ disk' = disk \/ \E ls : disk' = With(SortedChunkPath(k), ls)
    BY <1>7, TaskEffect DEF Inv
  <2>2. \A g : Kept(SortedPath(g))
    BY <2>1, AllKept, AfterWrite, PathsDiffer
  <2>3. phase \notin {"next", "split", "merge", "clean", "final", "done", "aborted"}
    BY <2>1, Facts DEF Resting
  <2>4. CASE phase' \in {"unwind", "killed"}
    BY <2>4 DEF FilesDone
  <2>5. CASE phase' = phase /\ phase \in {"spawn", "await"}
    BY <2>1, <2>2, <2>5, FilesDoneSame
  <2> QED
    BY <2>1, <2>3, <2>4, <2>5 DEF Inv, Typed
<1>8. CASE UNCHANGED vars
  <2>1. UNCHANGED <<files, columns, sorted, phase, disk>>
    BY <1>8 DEF vars
  <2>2. \A i \in 1 .. Len(files) : GoodFile(files[i]) => GoodFile(files[i])'
    BY <1>2, <2>1, AllKept
  <2>3. current' = current
    BY <2>1 DEF current
  <2>4. phase \in {"next", "split", "spawn", "await", "merge"} =>
          \A i \in 1 .. sorted : i \in 1 .. Len(files)
    BY Facts
  <2>5. phase = "clean" => \A i \in 1 .. sorted + 1 : i \in 1 .. Len(files)
    BY CurrentFile, Facts DEF Live
  <2> QED
    BY <2>1, <2>2, <2>3, <2>4, <2>5 DEF Inv, FilesDone
<1> QED
  BY <1>1, <1>3, <1>4, <1>5, <1>6, <1>7, <1>8 DEF Next, Main

----------------------------------------------------------------------------
(* The inductive invariant. *)

\* The invariant holds at first, every step keeps it, and so it holds always.
LEMMA InvStarts == Init => Inv
<1> SUFFICES ASSUME Init
             PROVE  Inv
  OBVIOUS
<1>1. /\ files \in Batches /\ columns \in Earlier /\ sorted = 0 /\ phase = "next"
      /\ disk = <<>> /\ stuck = {}
      /\ source = <<>> /\ next = 0 /\ header = 0 /\ lines = <<>> /\ bytes = 0 /\ chunks = <<>>
      /\ reading = FALSE /\ task = <<>> /\ awaited = 0 /\ mergePc = "done"
  BY DEF Init
<1>2. IsSequence(<<>>) /\ DOMAIN <<>> = {} /\ Len(<<>>) = 0
  BY EmptyIsSequence
<1>3. /\ files \in Seq(DOMAIN Content) /\ Len(files) \in Nat /\ Len(files) > 0
      /\ DOMAIN files = 1 .. Len(files)
  BY <1>1, BatchTypes
<1>4. Resting
  BY <1>1, <1>2 DEF Resting
<1>5. Joined
  BY <1>1, <1>2 DEF Joined
<1>6. Names
  BY <1>1, <1>2, <1>3 DEF Names, Loose
<1>7. Columns
  <2>1. \A f \in DOMAIN Content : FirstLine(f) \in DOMAIN Size
    BY FileTypes
  <2>2. columns \in (DOMAIN Size) \cup {NoColumns}
    <3>1. /\ Earlier \subseteq {NoColumns, Blank} \cup {FirstLine(f) : f \in DOMAIN Content}
          /\ Blank \in DOMAIN Size
      BY SorterAssumption
    <3>2. {FirstLine(f) : f \in DOMAIN Content} \subseteq DOMAIN Size
      BY <2>1
    <3> QED
      BY <1>1, <3>1, <3>2
  <2> QED
    BY <1>1, <2>2 DEF Columns
<1>8. Typed
  BY <1>1, <1>2, <1>3 DEF Typed
<1>9. Splitting
  <2>1. ~Live
    BY <1>1, <1>4 DEF Live
  <2>2. SP!TypeOK
    <3>1. source \in Seq(DOMAIN Size) /\ Len(source) = 0
      BY <1>1
    <3>2. next \in 0 .. Len(source) /\ header \in 0 .. next
      BY <1>1, <3>1
    <3>3. lines \in Seq(1 .. next) /\ chunks \in Seq(Seq(1 .. next))
      BY <1>1
    <3>4. bytes \in 0 .. ChunkSize - 1
      <4>1. ChunkSize \in Nat \ {0}
        BY SorterAssumption
      <4> QED
        BY <1>1, <4>1
    <3>5. reading \in BOOLEAN
      BY <1>1
    <3> QED
      BY <3>1, <3>2, <3>3, <3>4, <3>5 DEF SP!TypeOK
  <2>3. SP!HeaderFound
    BY <1>1, <1>2 DEF SP!HeaderFound, SP!SizeOf
  <2>4. SP!Cut
    BY <1>1, <1>2 DEF SP!Cut, SP!ChunksKeepOrder, SP!ChunksCoverBody, SP!ChunksStartWithHeader,
                      SP!Pending, SP!BelowHeader
  <2> QED
    BY <1>1, <2>1, <2>2, <2>3, <2>4 DEF Splitting, SP!Invariant, SP!Typed
<1>10. Tasks /\ Reasons
  BY <1>1, <1>2, <1>4 DEF Tasks, Reasons
<1>11. FilesDone
  BY <1>1 DEF FilesDone
<1>12. InputsHeld /\ MergeRuns /\ Output
  BY <1>1 DEF InputsHeld, MergeRuns, Output, Merging
<1>13. Cutting
  BY <1>1 DEF Cutting
<1>14. Parts
  <2>1. \A path : Lines(path) = <<>>
    BY <1>1, <1>2 DEF Lines
  <2>2. Len(<<>>) < 2 /\ Len(<<>>) \in Nat
    BY <1>2
  <2>3. \A rows, h : Within(<<>>, rows) /\ Ascends(<<>>, h)
    BY <2>2, NothingStored
  <2> QED
    BY <1>2, <2>1, <2>3 DEF Parts
<1> QED
  BY <1>5, <1>6, <1>7, <1>8, <1>9, <1>10, <1>11, <1>12, <1>13, <1>14 DEF Inv

LEMMA InvKept ==
  ASSUME Inv, [Next]_vars
  PROVE  Inv'
<1>1. Joined /\ Names
  BY DEF Inv
<1>2. Joined' /\ Names'
  BY <1>1, JoinedKept, NamesKept
<1> QED
  BY <1>2, ColumnsKept, TypedKept, SplittingKept, CuttingKept, PartsKept, TasksKept,
     ReasonsKept, FilesDoneKept, InputsHeldKept, MergeRunsKept, OutputKept DEF Inv

LEMMA InvHolds == Spec => []Inv
BY InvStarts, InvKept, PTL DEF Spec

\* The variables of sort hold values of their types at every step of the thread and its tasks.
THEOREM SorterTypeCorrect == Spec => []TypeOK
<1>1. Inv => TypeOK
  <2> SUFFICES ASSUME Inv
               PROVE  TypeOK
    OBVIOUS
  <2>1. awaited \in 0 .. Len(task) /\ stuck \subseteq DOMAIN disk
    BY DEF Inv, Joined, Names
  <2> QED
    BY <2>1 DEF Inv, Columns, Typed, TypeOK, FileLine
<1> QED
  BY <1>1, InvHolds, PTL

\* merge_sort reads sorted files that nobody writes: neither a task of the file, nor one left
\* from the file before, nor the merge itself.
THEOREM SorterMergesSettledFiles == Spec => []MergeInputsAreSettled
<1>1. Inv => MergeInputsAreSettled
  <2> SUFFICES ASSUME Inv, Merging
               PROVE  /\ Resting
                      /\ \A k \in onDisk :
                           /\ file[k] = Under(columns, Lines(MergePath(k)))
                           /\ SameColumns =>
                                \A m, n \in 2 .. Len(file[k]) :
                                  m < n => ~UnderSmaller(file[k][n], file[k][m])
    BY DEF MergeInputsAreSettled
  <2>1. Resting
    BY Facts DEF Merging
  <2>2. onDisk = InputNumbers /\ DOMAIN file = InputNumbers
    BY DEF Inv, Names, InputsHeld, Merging, InputNumbers
  <2>3. ASSUME SameColumns
        PROVE  MP!FilesSorted
    <3>1. OneHeader
      BY <2>3 DEF SameColumns, OneHeader
    <3> QED
      BY <3>1, MergeOrders
  <2> QED
    BY <2>1, <2>2, <2>3 DEF Inv, InputsHeld, MP!FilesSorted, MP!Stream
<1> QED
  BY <1>1, InvHolds, PTL

----------------------------------------------------------------------------
(* What sort returns. *)

\* The refinement counts as this module does.
LEMMA SameCount == \A X : Abstract!Cardinality(X) = Cardinality(X)
BY DEF Abstract!Cardinality, Cardinality

\* A call that begins has no result yet.
LEMMA AbstractStarts == Init => Abstract!Init
BY DEF Init, Abstract!Init, Outcome, Result

\* What sort returns are the rows that the last merge wrote.
LEMMA ReturnedRows ==
  ASSUME Inv, MergeReturns, phase = "final"
  PROVE  /\ mergePc = "merge" /\ heap = {} /\ files' = files
         /\ Outcome = "working" /\ Outcome' = "sorted"
         /\ Result' = RowsOut
<1>1. /\ mergePc = "merge" /\ heap = {} /\ UNCHANGED <<files, columns, sorted>> /\ phase' = "done"
      /\ RemoveFiles({MergePath(k) : k \in onDisk}) /\ stuck \subseteq DOMAIN disk
  BY ReturnRemoves DEF MergeReturns, M!CleanUp, Inv, Names
<1>2. Outcome = "working" /\ Outcome' = "sorted"
  BY <1>1 DEF Outcome
<1>3. ResultPath' = ResultPath
  BY <1>1 DEF ResultPath
<1>4. Kept(ResultPath)
  <2>1. \A k : ResultPath # MergePath(k)
    BY PathsDiffer DEF MergePath
  <2> QED
    BY <1>1, <2>1, AfterRemoval
<1>5. CASE ResultPath \in DOMAIN disk /\ disk[ResultPath] = ResultLines
  <2>1. ResultPath \in DOMAIN disk' /\ disk'[ResultPath] = ResultLines
    BY <1>4, <1>5 DEF Kept
  <2>2. Tail(ResultLines) = RowsOut
    BY ResultShape DEF Merging
  <2> QED
    BY <1>1, <1>2, <1>3, <2>1, <2>2 DEF Result
<1>6. CASE out = <<>> /\ ResultPath \notin DOMAIN disk
  <2>1. ResultPath \notin DOMAIN disk'
    BY <1>4, <1>6 DEF Kept
  <2>2. RowsOut = <<>>
    <3>1. RowsOut \in Seq(FileLine) /\ Len(RowsOut) = Len(out)
      BY ResultShape DEF Merging
    <3>2. Len(RowsOut) = 0
      BY <1>6, <3>1
    <3> QED
      BY <3>1, <3>2, EmptySeq
  <2> QED
    BY <1>1, <1>2, <1>3, <2>1, <2>2 DEF Result
<1> QED
  BY <1>1, <1>5, <1>6 DEF Inv, Output, Merging, Target

\* They are rows of the batch, in order if the files of the batch agree on their header.
LEMMA RowsOutSorted ==
  ASSUME Inv, phase = "final", mergePc = "merge"
  PROVE  /\ DOMAIN RowsOut = 1 .. Len(out) /\ DOMAIN out = 1 .. Len(out)
         /\ \A k \in DOMAIN RowsOut : RowsOut[k] \in Abstract!BatchRows /\ ~Malformed(RowsOut[k])
         /\ OneHeader => \A k, l \in DOMAIN RowsOut :
              k < l => ~Smaller(columns, LineOf(RowsOut[l]), LineOf(RowsOut[k]))
<1> USE DEF Merging
<1>1. /\ DOMAIN out = 1 .. Len(out) /\ \A k \in 1 .. Len(out) : out[k] \in MP!DataLines
  BY ResultShape
<1>2. DOMAIN RowsOut = 1 .. Len(out) /\ \A k \in 1 .. Len(out) : RowsOut[k] = RowIn(out[k])
  BY <1>1 DEF RowsOut
<1>3. ASSUME NEW k \in 1 .. Len(out)
      PROVE  RowIn(out[k]) \in Abstract!BatchRows /\ ~Malformed(RowIn(out[k]))
  <2>1. \E i \in DOMAIN files : RowIn(out[k]) \in DataLinesOf(files[i])
    BY <1>1, RowsOfBatch
  <2>2. ~Malformed(RowIn(out[k]))
    BY <1>1, MergeRow
  <2> QED
    BY <2>1, <2>2 DEF Abstract!BatchRows
<1>4. OneHeader => \A k, l \in 1 .. Len(out) :
        k < l => ~Smaller(columns, LineOf(RowIn(out[l])), LineOf(RowIn(out[k])))
  BY MergedRows
<1> QED
  BY <1>1, <1>2, <1>3, <1>4

\* Each of them comes as often as the batch has it, or less often if file operations fail.
LEMMA RowCount ==
  ASSUME Inv, phase = "final", mergePc = "merge", heap = {}, NEW r
  PROVE  LET ks == {k \in DOMAIN RowsOut : RowsOut[k] = r}
             is == {i \in DOMAIN files : r \in DataLinesOf(files[i])}
         IN  /\ Cardinality(ks) \in Nat /\ Cardinality(is) \in Nat
             /\ Cardinality(ks) <= Cardinality(is)
             /\ ~MayFail => Cardinality(ks) = Cardinality(is)
<1> USE DEF Merging
<1> DEFINE ks == {k \in DOMAIN RowsOut : RowsOut[k] = r}
           is == {i \in DOMAIN files : r \in DataLinesOf(files[i])}
           origin == [k \in ks |-> out[k][1]]
<1>1. /\ Len(out) \in Nat /\ DOMAIN out = 1 .. Len(out)
      /\ \A k \in 1 .. Len(out) : out[k] \in MP!DataLines
  BY ResultShape
<1>2. ks = {k \in 1 .. Len(out) : RowIn(out[k]) = r}
  BY <1>1 DEF RowsOut
<1>3. InputNumbers = DOMAIN files /\ \A k : InputRows(k) = DataLinesOf(files[k])
  BY DEF InputNumbers, InputRows
<1>4. IsFiniteSet(is)
  <2>1. DOMAIN files = 1 .. Len(files) /\ Len(files) \in Nat
    BY Facts
  <2>2. IsFiniteSet(1 .. Len(files))
    BY <2>1, FS_Interval
  <2> QED
    BY <2>1, <2>2, FS_Subset
<1>5. \A k \in ks : out[k][1] \in is
  BY <1>1, <1>2, <1>3, MergeRow
<1>6. \A k, l \in ks : out[k][1] = out[l][1] => k = l
  BY <1>2, MergedRows
<1>7. ~MayFail => \A i \in is : \E k \in ks : out[k][1] = i
  BY <1>2, <1>3, MergedRows
<1> HIDE DEF ks, is
<1>8. origin \in Injection(ks, is)
  BY <1>5, <1>6 DEF Injection, IsInjective
<1>9. ~MayFail => origin \in Surjection(ks, is)
  BY <1>5, <1>7 DEF Surjection
<1> HIDE DEF origin
<1>10. /\ IsFiniteSet(ks) /\ Cardinality(ks) <= Cardinality(is)
       /\ ~MayFail => Cardinality(ks) = Cardinality(is)
  BY <1>4, <1>8, <1>9, FS_Injection
<1>11. Cardinality(ks) \in Nat /\ Cardinality(is) \in Nat
  BY <1>4, <1>10, FS_CardinalityType
<1> QED
  BY <1>10, <1>11 DEF ks, is

\* The return of the last merge is the step the caller sees as success.
LEMMA ReturnSucceeds ==
  ASSUME Inv, [Next]_vars, MergeReturns, phase = "final"
  PROVE  Abstract!Succeed
<1>1. PICK rows : rows = RowsOut
  OBVIOUS
<1>2. /\ mergePc = "merge" /\ heap = {} /\ UNCHANGED <<files, columns>> /\ columns # NoColumns
      /\ Outcome = "working" /\ Outcome' = "sorted" /\ Result' = rows
  BY <1>1, ReturnedRows, EffectKept, MergingColumns
<1>3. Abstract!ResultIsSorted'
  <2>1. OneHeader => \A k, l \in DOMAIN rows :
          k < l => ~Smaller(columns, LineOf(rows[l]), LineOf(rows[k]))
    BY <1>1, <1>2, RowsOutSorted
  <2> QED
    BY <1>2, <2>1 DEF Abstract!ResultIsSorted, OneHeader, LineOf, HeaderLine,
       HeaderNumber, TextLines
<1>4. Abstract!ResultIsComplete'
  <2>1. Abstract!BatchRows' = Abstract!BatchRows
    BY <1>2 DEF Abstract!BatchRows, DataLinesOf, TextLines
  <2>2. \A k \in DOMAIN rows : rows[k] \in Abstract!BatchRows /\ ~Malformed(rows[k])
    BY <1>1, <1>2, RowsOutSorted
  <2>3. ASSUME NEW r
        PROVE  /\ Abstract!InResult(r)' = Cardinality({k \in DOMAIN rows : rows[k] = r})
               /\ Abstract!InBatch(r)'
                  = Cardinality({i \in DOMAIN files : r \in DataLinesOf(files[i])})
    BY <1>2, SameCount DEF Abstract!InResult, Abstract!InBatch, DataLinesOf, TextLines
  <2>4. ASSUME NEW r
        PROVE  IF MayFail THEN Abstract!InResult(r)' <= Abstract!InBatch(r)'
                          ELSE Abstract!InResult(r)' = Abstract!InBatch(r)'
    <3>1. LET ks == {k \in DOMAIN RowsOut : RowsOut[k] = r}
              is == {i \in DOMAIN files : r \in DataLinesOf(files[i])}
          IN  /\ Cardinality(ks) \in Nat /\ Cardinality(is) \in Nat
              /\ Cardinality(ks) <= Cardinality(is)
              /\ ~MayFail => Cardinality(ks) = Cardinality(is)
      BY <1>2, RowCount
    <3> QED
      BY <1>1, <2>3, <3>1
  <2> QED
    BY <1>2, <2>1, <2>2, <2>4 DEF Abstract!ResultIsComplete, Malformed, LineOf, OwnHeader,
       HeaderLine, HeaderNumber, TextLines
<1> QED
  BY <1>2, <1>3, <1>4 DEF Abstract!Succeed

\* The end of a call without a result is explained by a row of the batch, or by two.
LEMMA EndFails ==
  ASSUME Inv, [Next]_vars, phase \notin {"done", "aborted", "killed"},
         phase' \in {"aborted", "killed"}
  PROVE  Abstract!Fail
<1>1. UNCHANGED <<files, columns>>
  <2>1. ~StartFile
    BY DEF StartFile
  <2> QED
    BY <2>1, ColumnsEffect
<1>2. Explained
  BY <1>1, EffectKept, ReasonsKept DEF Reasons
<1>3. /\ Outcome = "working" /\ Outcome' = "failed"
      /\ Result = <<>> /\ Result' = <<>>
  BY DEF Outcome, Result
<1>4. BatchRows = Abstract!BatchRows
  BY DEF BatchRows, Abstract!BatchRows
<1>5. \/ MayFail
      \/ \E r \in Abstract!BatchRows :
           Malformed(r) \/ ~(~TooLong(r, columns) /\ ~TooLong(r, OwnHeader(r)))
      \/ \E r, s \in Abstract!BatchRows : ~~Throws(columns, LineOf(r), LineOf(s))
  BY <1>2, <1>4 DEF Explained, Unreadable
<1> QED
  BY <1>1, <1>3, <1>5 DEF Abstract!Fail

\* Everything between is hidden, but for the columns that the first file brings.
LEMMA OthersStutter ==
  ASSUME Inv, [Next]_vars, phase \notin {"done", "aborted", "killed"},
         phase' \notin {"done", "aborted", "killed"}
  PROVE  Abstract!TakeHeader \/ UNCHANGED Abstract!sortVars
<1>1. files' = files /\ (columns' = columns \/ StartFile)
  BY ColumnsEffect
<1>2. Outcome = "working" /\ Outcome' = "working" /\ Result = <<>> /\ Result' = <<>>
  BY DEF Outcome, Result
<1>3. CASE columns' = columns
  BY <1>1, <1>2, <1>3 DEF Abstract!sortVars
<1>4. CASE StartFile /\ columns' # columns
  <2>1. columns = NoColumns
    BY <1>4 DEF StartFile, ReadOnce
  <2>2. sorted = 0
    BY <2>1, Facts DEF Inv, Columns
  <2>3. columns' \in {FirstOf(ls) : ls \in Delivered(Content[files[1]])}
    <3>1. current = files[1]
      BY <2>2 DEF current
    <3> QED
      BY <1>4, <2>1, <3>1 DEF StartFile, ReadOnce
  <2>4. FirstOf(<<>>) = Blank
    BY DEF FirstOf
  <2>5. columns' \in {FirstLine(files[1])} \cup (IF MayFail THEN {Blank} ELSE {})
    BY <2>3, <2>4 DEF Delivered, FirstLine
  <2> QED
    BY <1>1, <1>2, <2>1, <2>5 DEF Abstract!TakeHeader
<1> QED
  BY <1>1, <1>3, <1>4

\* Nothing happens after the end.
LEMMA EndIsFinal ==
  ASSUME Inv, [Next]_vars, phase \in {"done", "aborted", "killed"}
  PROVE  UNCHANGED Abstract!sortVars
<1>1. UNCHANGED <<files, columns>>
  BY EffectKept
<1>2. phase' = phase /\ disk' = disk
  <2>1. CASE Main
    BY <2>1 DEF Main, StartFile, SplitStep, Spawn, Await, MergeChunks, MergeOpens, MergePrimes,
                MergeWrites, MergeReturns, RemoveChunks, MergeFiles, Unwind, Merging
  <2>2. ASSUME NEW k, Task(k)
        PROVE  FALSE
    <3>1. k \in DOMAIN task /\ Running(k) /\ phase # "killed"
      BY <2>2, TaskEffect DEF Inv, Task
    <3>2. Resting
      BY <3>1, Facts
    <3> QED
      BY <3>1, <3>2 DEF Resting
  <2>3. CASE UNCHANGED vars
    BY <2>3 DEF vars
  <2> QED
    BY <2>1, <2>2, <2>3 DEF Next
<1>3. ResultPath' = ResultPath
  BY <1>1 DEF ResultPath
<1> QED
  BY <1>1, <1>2, <1>3 DEF Abstract!sortVars, Outcome, Result

\* Every step is a step of SortSpec or hidden from the caller.
LEMMA StepsImplement ==
  ASSUME Inv, [Next]_vars
  PROVE  [Abstract!SortNext]_Abstract!sortVars
<1>1. CASE phase \in {"done", "aborted", "killed"}
  BY <1>1, EndIsFinal
<1>2. CASE phase \notin {"done", "aborted", "killed"} /\ phase' = "done"
  <2>1. MergeReturns /\ phase = "final"
    <3>1. CASE Main
      BY <1>2, <3>1 DEF Main, StartFile, SplitStep, Spawn, Await, MergeChunks, MergeOpens,
                  MergePrimes, MergeWrites, MergeReturns, RemoveChunks, MergeFiles, Unwind,
                  Merging, Comparing
    <3>2. ASSUME NEW k, Task(k)
          PROVE  FALSE
      BY <1>2, <3>2, TaskEffect DEF Inv
    <3>3. CASE UNCHANGED vars
      BY <1>2, <3>3 DEF vars
    <3> QED
      BY <3>1, <3>2, <3>3 DEF Next
  <2> QED
    BY <2>1, ReturnSucceeds DEF Abstract!SortNext
<1>3. CASE phase \notin {"done", "aborted", "killed"} /\ phase' \in {"aborted", "killed"}
  BY <1>3, EndFails DEF Abstract!SortNext
<1>4. CASE phase \notin {"done", "aborted", "killed"} /\ phase' \notin {"done", "aborted", "killed"}
  BY <1>4, OthersStutter DEF Abstract!SortNext
<1> QED
  BY <1>1, <1>2, <1>3, <1>4

\* sort keeps its promise: with chunks, threads, temporary files and failures between, the
\* caller sees it take its columns, and then one step: to all rows of the batch, each as often
\* as the batch has it and in order under one header, or to an end that a row, two rows or a
\* failure explain.
THEOREM SorterImplementsSortSpec == Spec => ImplementsSortSpec
BY InvHolds, AbstractStarts, StepsImplement, PTL DEF Spec, ImplementsSortSpec, Abstract!Spec
============================================================================
