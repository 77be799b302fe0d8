-------------------------------- MODULE Yak --------------------------------
(***************************************************************************)
(* The program: main takes paths from the poller's queue, has every full   *)
(* batch sorted and resampled, and publishes the result in the directory   *)
(* that is watched.  There the poller finds it, and, while it exists, the  *)
(* merged file of the batch, and hands them on like files of the user.     *)
(*                                                                         *)
(* The user puts files into the directory and takes them out, may send a   *)
(* SIGINT, and starts the program again after a crash.  What a sort does   *)
(* to the rows is the subject of Sorter; here it makes one file, or ends   *)
(* the program with an exception that nothing catches.                     *)
(***************************************************************************)
EXTENDS Integers, Sequences, FiniteSets, SequencesExt

CONSTANTS
  Input,             \* the paths of the files that a user provides
  Path,              \* all paths, those of results included
  Before(_, _),      \* the order of std::string
  MergedPath(_, _),  \* result_path of Sorter::sort, from the least and the greatest path
  ResultPath(_),     \* where main publishes the resampled file of a merged file
  BATCH,             \* how many files make a batch: ten
  MayFail,           \* whether the watch, a sort or an operation on a file may fail
  Budget             \* bound: how often the user changes the directory, the program crashes,
                     \* or an operation on one of its files fails

ASSUME YakAssumption ==
  /\ Input \subseteq Path /\ IsFiniteSet(Input)
  /\ BATCH \in Nat \ {0}
  /\ MayFail \in BOOLEAN
  /\ Budget \in Nat

VARIABLES
  dir, watch, event, lastFiles, filePaths, poller, queue,  \* see DirectoryPoller
  pending, handler, shutdown, sleeper,                     \* see SignalChannel
  main,      \* where main stands
  files,     \* the vector files
  merged,    \* sorted_file_path
  budget,    \* what is left of Budget
  early,     \* what came between the list of the constructor and the watch
  owed,      \* owed[p]: how often p came into the directory less how often it was handed on
  given,     \* how many files were there at the start or came from the user
  batches    \* how many batches were sorted

pollerVars == <<dir, watch, event, lastFiles, filePaths, poller, queue>>
channelVars == <<pending, handler, shutdown, sleeper>>
mainVars == <<main, files, merged>>
counts == <<given, batches>>
vars == <<pollerVars, channelVars, mainVars, budget, early, owed, counts>>

D == INSTANCE DirectoryPoller
C == INSTANCE SignalChannel WITH Thread <- {"main", "poller"}

Owed(p) == IF p \in DOMAIN owed THEN owed[p] ELSE 0

\* The accounts after p came (n = 1) or was handed on (n = -1); settled ones are dropped.
Account(p, n) ==
  LET total == Owed(p) + n
      rest  == [q \in DOMAIN owed \ {p} |-> owed[q]]
  IN  IF total = 0 THEN rest ELSE [q \in DOMAIN rest \cup {p} |-> IF q = p THEN total ELSE rest[q]]

Appears(p) ==
  /\ D!Changes(dir \cup {p})
  /\ owed' = IF p \in dir THEN owed ELSE Account(p, 1)

Disappears(p) ==
  /\ D!Changes(dir \ {p})
  /\ UNCHANGED owed

\* A file that the program makes, or its removal.  The operations on files may fail, and
\* main goes on as if they had not.
Fails ==
  /\ MayFail
  /\ budget > 0
  /\ budget' = budget - 1
  /\ UNCHANGED <<dir, event, owed>>
Made(p) == (Appears(p) /\ UNCHANGED budget) \/ Fails
Removed(p) == (Disappears(p) /\ UNCHANGED budget) \/ Fails

Alive == main \notin {"ended", "aborted", "crashed"}

----------------------------------------------------------------------------

Init ==
  /\ D!PollerInit(Input)
  /\ C!ChannelInit
  /\ main = "loop" /\ files = <<>> /\ merged = <<>>
  /\ budget = Budget
  /\ early = {}
  /\ owed = [p \in dir |-> 1]
  /\ given = Cardinality(dir)
  /\ batches = 0

(* The user. *)

UserPuts ==
  \E p \in Input \ dir :
    /\ Alive
    /\ budget > 0
    /\ budget' = budget - 1
    /\ Appears(p)
    /\ given' = given + 1
    /\ UNCHANGED <<watch, lastFiles, filePaths, poller, queue, channelVars, mainVars, early,
                   batches>>

UserTakes ==
  \E p \in Input \cap dir :
    /\ Alive
    /\ budget > 0
    /\ budget' = budget - 1
    /\ Disappears(p)
    /\ UNCHANGED <<watch, lastFiles, filePaths, poller, queue, channelVars, mainVars, early,
                   counts>>

UserInterrupts ==
  /\ Alive
  /\ handler = "waiting"
  /\ ~pending
  /\ C!Interrupt
  /\ UNCHANGED <<handler, shutdown, sleeper, pollerVars, mainVars, budget, early, owed, counts>>

\* Nothing but the directory outlives the program.
Crash ==
  /\ Alive
  /\ budget > 0
  /\ budget' = budget - 1
  /\ main' = "crashed"
  /\ UNCHANGED <<pollerVars, channelVars, files, merged, early, owed, counts>>

Restart ==
  /\ main = "crashed"
  /\ D!Build
  /\ queue' = <<>>
  /\ pending' = FALSE
  /\ handler' = "waiting"
  /\ shutdown' = FALSE
  /\ sleeper' = [t \in {"main", "poller"} |-> "awake"]
  /\ main' = "loop" /\ files' = <<>> /\ merged' = <<>>
  /\ early' = {}
  /\ owed' = [p \in dir |-> 1]
  /\ given' = Cardinality(dir)
  /\ batches' = 0
  /\ UNCHANGED <<dir, budget>>

----------------------------------------------------------------------------
(* The signal handler, and what happens in wait_for. *)

Handle ==
  /\ Alive
  /\ C!TakeSignal \/ C!NotifyAll
  /\ UNCHANGED <<pollerVars, mainVars, budget, early, owed, counts>>

Doze(t) ==
  /\ Alive
  /\ C!FallAsleep(t) \/ C!Timeout(t)
  /\ UNCHANGED <<pollerVars, mainVars, budget, early, owed, counts>>

(* The poller's thread: AbstractWorker::run. *)

PollerTests ==
  /\ poller = "loop"
  /\ \/ /\ shutdown
        /\ poller' = "done"
        /\ UNCHANGED channelVars
     \/ /\ C!BeginWait("poller")
        /\ poller' = "wait"
  /\ UNCHANGED <<dir, watch, event, lastFiles, filePaths, queue, early, owed>>

PollerWakes ==
  /\ poller = "wait"
  /\ sleeper["poller"] = "awake"
  /\ poller' = "poll"
  /\ UNCHANGED <<dir, watch, event, lastFiles, filePaths, queue, channelVars, early, owed>>

\* A watch that cannot be registered makes the poller send itself a SIGINT.
PollerInits ==
  \E refused \in {FALSE, MayFail} :
    /\ D!InitWatch(refused)
    /\ early' = IF watch' = "on" THEN dir \ lastFiles ELSE early
    /\ IF refused THEN C!Interrupt ELSE UNCHANGED pending
    /\ UNCHANGED <<handler, shutdown, sleeper, owed>>

PollerPolls ==
  /\ D!PopPath \/ D!SkipInit \/ D!TakeEvent \/ D!List
  /\ owed' = IF queue' = queue THEN owed ELSE Account(Last(queue'), -1)
  /\ UNCHANGED <<channelVars, early>>

Poll ==
  /\ Alive
  /\ PollerTests \/ PollerWakes \/ PollerInits \/ PollerPolls
  /\ UNCHANGED <<mainVars, budget, counts>>

----------------------------------------------------------------------------
(* The main thread. *)

\* Variant: a batch is full when it has one file more.
DequeueBeyond ==
  /\ main = "loop"
  /\ \/ /\ queue # <<>>
        /\ files' = Append(files, Head(queue))
        /\ queue' = Tail(queue)
        /\ main' = IF Len(files') > BATCH THEN "sort" ELSE "test"
     \/ /\ queue = <<>>
        /\ main' = "test"
        /\ UNCHANGED <<files, queue>>
  /\ UNCHANGED <<dir, watch, event, lastFiles, filePaths, poller, channelVars, merged, owed,
                 counts>>

\* dequeue_with_timeout: a path, or after a second without one nothing.
Dequeue ==
  /\ main = "loop"
  /\ \/ /\ queue # <<>>
        /\ files' = Append(files, Head(queue))
        /\ queue' = Tail(queue)
        /\ main' = IF Len(files') = BATCH THEN "sort" ELSE "test"
     \/ /\ queue = <<>>
        /\ main' = "test"
        /\ UNCHANGED <<files, queue>>
  /\ UNCHANGED <<dir, watch, event, lastFiles, filePaths, poller, channelVars, merged, owed,
                 counts>>

Least(p, ps) == \A q \in ps : ~Before(q, p)
Greatest(p, ps) == \A q \in ps : ~Before(p, q)

\* The temporary files of a sort come and go in the directory.
SortTouchesDirectory ==
  /\ main \in {"sort", "resample"}
  /\ D!Changes(dir)
  /\ UNCHANGED <<watch, lastFiles, filePaths, poller, queue, channelVars, mainVars, owed, counts>>

\* The sort ends with a file whose name the poller accepts.
Sort ==
  /\ main = "sort"
  /\ LET batch == {files[k] : k \in DOMAIN files} IN
     \E p, q \in batch :
       Least(p, batch) /\ Greatest(q, batch) /\ merged' = MergedPath(p, q)
  /\ Made(merged')
  /\ files' = <<>>
  /\ main' = "resample"
  /\ batches' = batches + 1
  /\ UNCHANGED <<watch, lastFiles, filePaths, poller, queue, channelVars, given>>

\* Resampling done, std::remove takes the merged file.
Resample ==
  /\ main = "resample"
  /\ Removed(merged)
  /\ main' = "publish"
  /\ UNCHANGED <<watch, lastFiles, filePaths, poller, queue, channelVars, files, merged, counts>>

\* std::rename gives the result its last name, which the poller accepts, too.
Publish ==
  /\ main = "publish"
  /\ Made(ResultPath(merged))
  /\ main' = "test"
  /\ UNCHANGED <<watch, lastFiles, filePaths, poller, queue, channelVars, files, merged, counts>>

\* sort or resample_and_write throws: std::terminate.
Abort ==
  /\ MayFail
  /\ main \in {"sort", "resample"}
  /\ main' = "aborted"
  /\ UNCHANGED <<pollerVars, channelVars, files, merged, owed, counts>>

Test ==
  /\ main = "test"
  /\ \/ /\ shutdown
        /\ main' = "join"
        /\ UNCHANGED channelVars
     \/ /\ C!BeginWait("main")
        /\ main' = "wait"
  /\ UNCHANGED <<pollerVars, files, merged, owed, counts>>

\* should_exit returns the flag as it is after the wait.
Wake ==
  /\ main = "wait"
  /\ sleeper["main"] = "awake"
  /\ main' = IF shutdown THEN "join" ELSE "loop"
  /\ UNCHANGED <<pollerVars, channelVars, files, merged, owed, counts>>

\* dir_poller_bridge.join(); what main does after that is in LogProcessor.
Join ==
  /\ main = "join"
  /\ poller = "done"
  /\ main' = "ended"
  /\ UNCHANGED <<pollerVars, channelVars, files, merged, owed, counts>>

Work ==
  \/ Sort \/ Resample \/ Publish
  \/ (Dequeue \/ Test \/ Wake \/ Join) /\ UNCHANGED budget

Main ==
  /\ \/ Work
     \/ (SortTouchesDirectory \/ Abort) /\ UNCHANGED budget
  /\ UNCHANGED early

----------------------------------------------------------------------------

Next ==
  \/ UserPuts \/ UserTakes \/ UserInterrupts \/ Crash \/ Restart
  \/ Handle
  \/ \E t \in {"main", "poller"} : Doze(t)
  \/ Poll
  \/ Main

Spec == Init /\ [][Next]_vars

\* Every thread goes on when it can, and the time of a wait passes.  Nothing is assumed of
\* the user.
FairSpec ==
  /\ Spec
  /\ WF_vars(Handle)
  /\ \A t \in {"main", "poller"} : WF_vars(Doze(t))
  /\ WF_vars(Poll)
  /\ WF_vars(Work /\ UNCHANGED early)

----------------------------------------------------------------------------
(* What makes the program correct. *)

\* The variables hold values of their types.
TypeOK ==
  /\ D!PollerTypeOK
  /\ C!ChannelTypeOK
  /\ main \in {"loop", "sort", "resample", "publish", "test", "wait", "join",
               "ended", "aborted", "crashed"}
  /\ files \in Seq(Path)
  /\ Len(files) <= BATCH
  /\ merged \in Path \cup {<<>>}
  /\ budget \in 0 .. Budget
  /\ early \subseteq Path
  /\ DOMAIN owed \subseteq Path /\ owed \in [DOMAIN owed -> Int]
  /\ given \in Nat
  /\ batches \in Nat

\* While the directory is watched, a file that is in it and not in the poller's list is
\* known to the kernel as an event or about to be listed.  The one exception are the files
\* that came after the constructor's list and before the watch: they wait for the next event.
NoFileGoesUnseen ==
  Alive /\ watch = "on" /\ ~event /\ poller # "list" => dir \ lastFiles \subseteq early

\* A file is handed on at most once for each time it came into the directory, so that its
\* rows are not sorted twice, however often the directory is listed.
HandedOnOnce == \A p \in DOMAIN owed : owed[p] >= 0

\* A batch takes BATCH files and brings two at the most, its merged file, for a time, and its
\* result.  With a BATCH of more than two the program's own output cannot keep it busy: every
\* sort, and every path on its way to one, is paid for by files of the user.
BatchesAreFed ==
  LET finished == IF main \in {"resample", "publish"} THEN batches - 1 ELSE batches
  IN  BATCH * batches + Len(files) + Len(queue) + Len(filePaths)
        <= given + batches + finished

\* A SIGINT that was taken ends the main loop and the poller: no wait for the flag, no wait for
\* a path and no wait for the other thread outlasts it, even if the notification came too
\* early.  Only the log is then left to be stopped (LogStops of LogProcessor).
ShutdownEnds == shutdown ~> ~Alive
============================================================================
