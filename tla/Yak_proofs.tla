----------------------------- MODULE Yak_proofs -----------------------------
(***************************************************************************)
(* The program for any directory, any number of files and crashes and any  *)
(* size of a batch: no file goes unseen, none is handed on twice, and the  *)
(* program's own output does not keep it busy.                             *)
(***************************************************************************)
EXTENDS Yak, TLAPS, SequenceTheorems, FiniteSetTheorems

\* The names of results are paths.
PathsAreClosed == \A p, q \in Path : MergedPath(p, q) \in Path /\ ResultPath(p) \in Path

----------------------------------------------------------------------------
(* A directory that is written to has an event, if it is watched. *)

\* While the directory is watched every file in it is in the poller's list, or announced,
\* or came before the watch, whatever the user, the sorts and crashes do.
THEOREM YakSeesAll == Spec => []NoFileGoesUnseen
<1>1. Init => NoFileGoesUnseen
  BY DEF Init, D!PollerInit, NoFileGoesUnseen
<1>2. NoFileGoesUnseen /\ [Next]_vars => NoFileGoesUnseen'
  <2> SUFFICES ASSUME NoFileGoesUnseen, [Next]_vars, Alive', watch' = "on", ~event',
                      poller' # "list"
               PROVE  (dir \ lastFiles \subseteq early)'
    BY DEF NoFileGoesUnseen
  <2>1. ASSUME NEW d, D!Changes(d), UNCHANGED watch PROVE FALSE
    BY <2>1 DEF D!Changes
  <2>2. CASE UserPuts \/ UserTakes
    BY <2>1, <2>2 DEF UserPuts, UserTakes, Appears, Disappears
  <2>3. CASE UserInterrupts \/ Handle \/ (\E t \in {"main", "poller"} : Doze(t))
    BY <2>3 DEF UserInterrupts, Handle, Doze, pollerVars, mainVars, NoFileGoesUnseen, Alive
  <2>4. CASE Crash \/ Restart
    BY <2>4 DEF Crash, Restart, D!Build, Alive
  <2>5. CASE Poll
    <3>1. CASE PollerTests \/ PollerWakes
      BY <2>5, <3>1 DEF Poll, PollerTests, PollerWakes, NoFileGoesUnseen
    <3>2. CASE PollerInits
      BY <3>2 DEF PollerInits, D!InitWatch
    <3>3. CASE PollerPolls
      BY <2>5, <3>3 DEF Poll, PollerPolls, D!PopPath, D!HandOn, D!SkipInit, D!TakeEvent,
                        D!List, NoFileGoesUnseen
    <3> QED
      BY <2>5, <3>1, <3>2, <3>3 DEF Poll
  <2>6. CASE Main
    <3>1. CASE (SortTouchesDirectory \/ Sort \/ Resample \/ Publish) /\ UNCHANGED early
      <4>1. Fails /\ UNCHANGED <<watch, lastFiles, poller>> /\ Alive
        BY <2>1, <3>1
           DEF SortTouchesDirectory, Sort, Resample, Publish, Appears, Disappears, Made, Removed,
               Alive
      <4> QED
        BY <3>1, <4>1 DEF Fails, NoFileGoesUnseen
    <3>2. CASE Dequeue \/ Test \/ Wake \/ Join \/ Abort
      BY <2>6, <3>2 DEF Main, Dequeue, Test, Wake, Join, Abort, pollerVars, NoFileGoesUnseen,
                        Alive
    <3> QED
      BY <2>6, <3>1, <3>2 DEF Main, Work
  <2>7. CASE UNCHANGED vars
    BY <2>7 DEF vars, pollerVars, mainVars, NoFileGoesUnseen, Alive
  <2> QED
    BY <2>2, <2>3, <2>4, <2>5, <2>6, <2>7 DEF Next
<1> QED
  BY <1>1, <1>2, PTL DEF Spec

----------------------------------------------------------------------------
(* Paths on their way from the directory to the queue. *)

\* A listing names every file of a set once.
LEMMA ListingsList ==
  ASSUME NEW S, IsFiniteSet(S), NEW s \in D!Listings(S)
  PROVE  /\ s \in Seq(S)
         /\ Len(s) = Cardinality(S)
         /\ \A i, j \in 1 .. Len(s) : i # j => s[i] # s[j]
<1>1. D!Cardinality(S) = Cardinality(S)
  BY DEF D!Cardinality, Cardinality
<1>2. /\ s \in [1 .. Cardinality(S) -> S]
      /\ \A i, j \in 1 .. Cardinality(S) : i # j => s[i] # s[j]
  BY <1>1 DEF D!Listings, D!SetToSeqs
<1>3. Cardinality(S) \in Nat
  BY FS_CardinalityType
<1> QED
  BY <1>2, <1>3

\* The last path goes to the queue, the others stay.
LEMMA HandOnEffect ==
  ASSUME NEW S, NEW paths \in Seq(S), paths # <<>>, queue \in Seq(S), D!HandOn(paths)
  PROVE  /\ paths[Len(paths)] \in S
         /\ queue' \in Seq(S) /\ queue' # queue /\ Len(queue') = Len(queue) + 1
         /\ Last(queue') = paths[Len(paths)]
         /\ filePaths' \in Seq(S) /\ Len(filePaths') = Len(paths) - 1
         /\ \A k \in 1 .. Len(paths) - 1 : filePaths'[k] = paths[k]
         /\ poller' = "loop"
<1>1. Len(paths) \in Nat \ {0} /\ \A k \in 1 .. Len(paths) : paths[k] \in S
  BY EmptySeq, ElementOfSeq
<1>2. paths[Len(paths)] \in S
  BY <1>1
<1>3. queue' = Append(queue, paths[Len(paths)]) /\ filePaths' = SubSeq(paths, 1, Len(paths) - 1)
  BY DEF D!HandOn, D!Last, D!Front
<1>4. /\ queue' \in Seq(S) /\ Len(queue') = Len(queue) + 1 /\ Len(queue) \in Nat
      /\ queue'[Len(queue) + 1] = paths[Len(paths)]
  BY <1>2, <1>3, AppendProperties, LenProperties
<1>5. queue' # queue /\ Last(queue') = paths[Len(paths)]
  BY <1>4 DEF Last
<1>6. /\ filePaths' \in Seq(S) /\ Len(filePaths') = Len(paths) - 1
      /\ \A k \in 1 .. Len(paths) - 1 : filePaths'[k] = paths[k]
  <2> DEFINE n == Len(paths) - 1
  <2>1. n \in Nat /\ \A k \in 1 .. n : paths[k] \in S
    BY <1>1
  <2>2. filePaths' = SubSeq(paths, 1, n)
    BY <1>3
  <2> HIDE DEF n
  <2>3. /\ SubSeq(paths, 1, n) \in Seq(S)
        /\ Len(SubSeq(paths, 1, n)) = IF 1 <= n THEN n - 1 + 1 ELSE 0
        /\ \A k \in 1 .. n - 1 + 1 : SubSeq(paths, 1, n)[k] = paths[1 + k - 1]
    BY <2>1, SubSeqProperties
  <2>4. filePaths' \in Seq(S) /\ Len(filePaths') = n /\ \A k \in 1 .. n : filePaths'[k] = paths[k]
    BY <2>1, <2>2, <2>3
  <2> QED
    BY <2>4 DEF n
<1> QED
  BY <1>2, <1>4, <1>5, <1>6 DEF D!HandOn

\* The account of f for q.
OwedIn(f, q) == IF q \in DOMAIN f THEN f[q] ELSE 0

\* Accounts are numbers.
Accounts == DOMAIN owed \subseteq Path /\ owed \in [DOMAIN owed -> Int]

\* Booking changes one account.
LEMMA AccountEffect ==
  ASSUME Accounts, NEW p \in Path, NEW n \in Int, NEW f, f = Account(p, n)
  PROVE  /\ DOMAIN f \subseteq Path /\ f \in [DOMAIN f -> Int]
         /\ \A q : OwedIn(owed, q) \in Int
         /\ \A q : OwedIn(f, q) = IF q = p THEN OwedIn(owed, q) + n ELSE OwedIn(owed, q)
<1> DEFINE total == Owed(p) + n
           rest == [q \in DOMAIN owed \ {p} |-> owed[q]]
<1>1. Owed(p) = OwedIn(owed, p) /\ \A q : OwedIn(owed, q) \in Int
  BY DEF Accounts, Owed, OwedIn
<1>2. total \in Int /\ total = OwedIn(owed, p) + n
  BY <1>1
<1>3. /\ DOMAIN rest \subseteq Path /\ rest \in [DOMAIN rest -> Int]
      /\ \A q : OwedIn(rest, q) = IF q = p THEN 0 ELSE OwedIn(owed, q)
  BY DEF Accounts, OwedIn
<1>4. f = IF total = 0 THEN rest
          ELSE [q \in DOMAIN rest \cup {p} |-> IF q = p THEN total ELSE rest[q]]
  BY DEF Account
<1> HIDE DEF total, rest
<1>5. CASE total = 0
  BY <1>1, <1>2, <1>3, <1>4, <1>5
<1>6. CASE total # 0
  <2>1. f = [q \in DOMAIN rest \cup {p} |-> IF q = p THEN total ELSE rest[q]]
    BY <1>4, <1>6
  <2>2. /\ DOMAIN f = DOMAIN rest \cup {p}
        /\ \A q \in DOMAIN f : f[q] = IF q = p THEN total ELSE rest[q]
    BY <2>1
  <2>3. f \in [DOMAIN f -> Int]
    BY <1>2, <1>3, <2>1, <2>2
  <2>4. \A q : OwedIn(f, q) = IF q = p THEN total ELSE OwedIn(rest, q)
    BY <2>2 DEF OwedIn
  <2> QED
    BY <1>1, <1>2, <1>3, <2>2, <2>3, <2>4
<1> QED
  BY <1>5, <1>6

\* A batch is sorted when it is full and not before.
BatchFills ==
  /\ main = "sort" => Len(files) = BATCH
  /\ main \notin {"sort", "aborted", "crashed"} => Len(files) < BATCH

\* The poller looks for an event only when it has no path left; what it holds was listed.
Types ==
  /\ TypeOK
  /\ BatchFills
  /\ IsFiniteSet(dir)
  /\ poller \in {"kevent", "list"} => filePaths = <<>>
  /\ main \in {"resample", "publish"} => merged \in Path

\* The flags of the signal channel keep their types.
LEMMA ChannelType ==
  ASSUME TypeOK, [Next]_vars
  PROVE  C!ChannelTypeOK'
<1>1. /\ pending \in BOOLEAN /\ handler \in {"waiting", "stored", "returned"}
      /\ shutdown \in BOOLEAN
      /\ sleeper \in [{"main", "poller"} -> {"awake", "tested", "asleep"}]
  BY DEF TypeOK, C!ChannelTypeOK
<1>2. CASE UNCHANGED channelVars
  BY <1>1, <1>2, Zenon DEF channelVars, C!ChannelTypeOK
<1>3. ASSUME NEW t \in {"main", "poller"}, C!BeginWait(t) \/ C!FallAsleep(t) \/ C!Timeout(t)
      PROVE  C!ChannelTypeOK'
  <2>1. UNCHANGED <<pending, handler, shutdown>>
    BY <1>3 DEF C!BeginWait, C!FallAsleep, C!Timeout
  <2>2. sleeper' \in [{"main", "poller"} -> {"awake", "tested", "asleep"}]
    BY <1>1, <1>3 DEF C!BeginWait, C!FallAsleep, C!Timeout
  <2> QED
    BY <1>1, <2>1, <2>2, Zenon DEF C!ChannelTypeOK
<1>4. CASE UserInterrupts \/ PollerInits
  <2>1. UNCHANGED <<handler, shutdown, sleeper>>
    BY <1>4 DEF UserInterrupts, PollerInits
  <2>2. pending' \in BOOLEAN
    BY <1>1, <1>4, Zenon DEF UserInterrupts, PollerInits, C!Interrupt
  <2> QED
    BY <1>1, <2>1, <2>2, Zenon DEF C!ChannelTypeOK
<1>5. CASE Handle
  <2>1. handler' \in {"waiting", "stored", "returned"}
    BY <1>5 DEF Handle, C!TakeSignal, C!NotifyAll
  <2>2. pending' \in BOOLEAN /\ shutdown' \in BOOLEAN
    BY <1>1, <1>5, Zenon DEF Handle, C!TakeSignal, C!NotifyAll
  <2>3. sleeper' \in [{"main", "poller"} -> {"awake", "tested", "asleep"}]
    BY <1>1, <1>5 DEF Handle, C!TakeSignal, C!NotifyAll
  <2> QED
    BY <2>1, <2>2, <2>3 DEF C!ChannelTypeOK
<1>6. CASE Restart
  BY <1>6 DEF Restart, C!ChannelTypeOK
<1> QED
  <2>1. CASE UserPuts \/ UserTakes \/ Crash \/ UNCHANGED vars
    BY <1>2, <2>1 DEF UserPuts, UserTakes, Crash, vars
  <2>2. CASE \E t \in {"main", "poller"} : Doze(t)
    BY <1>3, <2>2 DEF Doze
  <2>3. CASE Poll
    BY <1>2, <1>3, <1>4, <2>3 DEF Poll, PollerTests, PollerWakes, PollerPolls
  <2>4. CASE Main
    BY <1>2, <1>3, <2>4
       DEF Main, Work, SortTouchesDirectory, Abort, Dequeue, Sort, Resample, Publish, Test,
           Wake, Join
  <2> QED
    BY <1>4, <1>5, <1>6, <2>1, <2>2, <2>3, <2>4 DEF Next

\* main, its files and what it counts keep their types, and a batch fills up to BATCH.
LEMMA MainType ==
  ASSUME PathsAreClosed, Types, [Next]_vars
  PROVE  /\ (main \in {"loop", "sort", "resample", "publish", "test", "wait", "join",
                      "ended", "aborted", "crashed"})'
         /\ files' \in Seq(Path) /\ Len(files') <= BATCH
         /\ merged' \in Path \cup {<<>>}
         /\ main' \in {"resample", "publish"} => merged' \in Path
         /\ BatchFills'
<1>1. /\ files \in Seq(Path) /\ Len(files) \in Nat /\ Len(files) <= BATCH
      /\ merged \in Path \cup {<<>>}
      /\ queue \in Seq(Path)
      /\ BATCH \in Nat \ {0}
  BY YakAssumption, LenProperties DEF Types, TypeOK, D!PollerTypeOK
<1>2. CASE UNCHANGED mainVars
  BY <1>2 DEF mainVars, Types, TypeOK, BatchFills
<1>3. CASE Restart
  <2>1. files' = <<>> /\ merged' = <<>> /\ main' = "loop"
    BY <1>3 DEF Restart
  <2>2. files' \in Seq(Path) /\ Len(files') = 0
    BY <2>1, EmptySeq
  <2> QED
    BY <1>1, <2>1, <2>2 DEF BatchFills
<1>4. CASE Crash \/ Abort
  BY <1>1, <1>4 DEF Crash, Abort, BatchFills
<1>5. CASE Dequeue
  <2>1. CASE queue # <<>> /\ files' = Append(files, Head(queue))
    <3>1. Head(queue) \in Path
      BY <1>1, <2>1, HeadTailProperties
    <3>2. files' \in Seq(Path) /\ Len(files') = Len(files) + 1
      BY <1>1, <2>1, <3>1, AppendProperties
    <3>3. /\ main = "loop" /\ main' = IF Len(files') = BATCH THEN "sort" ELSE "test"
          /\ merged' = merged
      BY <1>1, <1>5, <2>1 DEF Dequeue
    <3> QED
      BY <1>1, <3>2, <3>3 DEF Types, BatchFills
  <2>2. CASE queue = <<>> /\ main' = "test" /\ UNCHANGED files
    BY <1>1, <1>5, <2>2 DEF Dequeue, Types, BatchFills
  <2> QED
    BY <1>5, <2>1, <2>2 DEF Dequeue
<1>6. CASE Sort
  <2>1. PICK p \in {files[k] : k \in DOMAIN files}, q \in {files[k] : k \in DOMAIN files} :
          merged' = MergedPath(p, q)
    BY <1>6 DEF Sort
  <2>2. p \in Path /\ q \in Path
    BY <1>1, <2>1, LenProperties, ElementOfSeq
  <2>3. merged' \in Path
    BY <2>1, <2>2 DEF PathsAreClosed
  <2>4. files' = <<>> /\ main' = "resample"
    BY <1>6 DEF Sort
  <2>5. files' \in Seq(Path) /\ Len(files') = 0
    BY <2>4, EmptySeq
  <2> QED
    BY <1>1, <2>3, <2>4, <2>5 DEF BatchFills
<1>7. CASE Resample \/ Publish
  BY <1>1, <1>7 DEF Resample, Publish, Types, BatchFills
<1>8. CASE Test \/ Wake \/ Join
  BY <1>1, <1>8 DEF Test, Wake, Join, Types, BatchFills
<1> QED
  BY <1>2, <1>3, <1>4, <1>5, <1>6, <1>7, <1>8
     DEF Next, UserPuts, UserTakes, UserInterrupts, Handle, Doze, Poll, Main, Work,
         SortTouchesDirectory, vars

\* A file comes or goes, or the operation that was to make it so fails.
Touched(p) == Appears(p) \/ Disappears(p) \/ Fails

\* A path that comes is booked, and one that goes is not.
LEMMA DirectoryChanges ==
  ASSUME Types, NEW p \in Path, Touched(p)
  PROVE  /\ dir' \subseteq Path /\ IsFiniteSet(dir') /\ event' \in BOOLEAN
         /\ Accounts'
         /\ \A q : OwedIn(owed, q) \in Int /\ OwedIn(owed', q) \in Int
         /\ \/ /\ dir' = dir \cup {p} /\ p \notin dir
               /\ \A q : OwedIn(owed', q) = IF q = p THEN OwedIn(owed, q) + 1 ELSE OwedIn(owed, q)
            \/ dir' \subseteq dir /\ owed' = owed
<1>1. dir \subseteq Path /\ IsFiniteSet(dir) /\ event \in BOOLEAN /\ Accounts
  BY DEF Types, TypeOK, D!PollerTypeOK, Accounts
<1>2. event' \in BOOLEAN
  BY <1>1, Zenon DEF Touched, Appears, Disappears, Fails, D!Changes
<1>3. \A q : OwedIn(owed, q) \in Int
  BY <1>1 DEF Accounts, OwedIn
<1>4. CASE Appears(p) /\ p \notin dir
  <2>1. dir' = dir \cup {p} /\ owed' = Account(p, 1)
    BY <1>4 DEF Appears, D!Changes
  <2>2. IsFiniteSet(dir')
    BY <1>1, <2>1, FS_AddElement
  <2>3. /\ Accounts'
        /\ \A q : OwedIn(owed', q) = IF q = p THEN OwedIn(owed, q) + 1 ELSE OwedIn(owed, q)
    BY <1>1, <2>1, AccountEffect DEF Accounts
  <2> QED
    BY <1>1, <1>2, <1>3, <1>4, <2>1, <2>2, <2>3
<1>5. CASE dir' \subseteq dir /\ owed' = owed
  <2>1. IsFiniteSet(dir')
    BY <1>1, <1>5, FS_Subset
  <2> QED
    BY <1>1, <1>2, <1>3, <1>5, <2>1 DEF Accounts
<1> QED
  BY <1>4, <1>5 DEF Touched, Appears, Disappears, Fails, D!Changes

\* What a step of poll() does to the paths it holds, the queue and the accounts.
LEMMA PollEffect ==
  ASSUME Types, PollerPolls
  PROVE  /\ UNCHANGED <<dir, watch, early>>
         /\ event' \in BOOLEAN
         /\ poller' \in {"loop", "kevent", "list"}
         /\ poller' \in {"kevent", "list"} => filePaths' = <<>>
         /\ \/ /\ UNCHANGED <<filePaths, queue, owed>>
               /\ \/ lastFiles' = lastFiles
                  \/ lastFiles' = dir /\ dir \ lastFiles = {}
            \/ \E paths \in Seq(Path) :
                 /\ paths # <<>> /\ D!HandOn(paths)
                 /\ owed' = Account(paths[Len(paths)], -1)
                 /\ \/ paths = filePaths /\ lastFiles' = lastFiles
                    \/ /\ filePaths = <<>> /\ lastFiles' = dir
                       /\ paths \in D!Listings(dir \ lastFiles)
<1>1. /\ queue \in Seq(Path) /\ filePaths \in Seq(Path) /\ dir \subseteq Path
      /\ event \in BOOLEAN
  BY DEF Types, TypeOK, D!PollerTypeOK
<1>2. ASSUME NEW paths \in Seq(Path), paths # <<>>, D!HandOn(paths)
      PROVE  owed' = Account(paths[Len(paths)], -1) /\ poller' = "loop"
  <2>1. queue' # queue /\ Last(queue') = paths[Len(paths)] /\ poller' = "loop"
    BY <1>1, <1>2, HandOnEffect
  <2> QED
    BY <2>1 DEF PollerPolls
<1>3. CASE D!PopPath
  BY <1>1, <1>2, <1>3 DEF D!PopPath, PollerPolls
<1>4. CASE D!SkipInit
  BY <1>1, <1>4 DEF D!SkipInit, PollerPolls
<1>5. CASE D!TakeEvent
  <2>1. filePaths = <<>> /\ poller' \in {"loop", "list"} /\ event' = FALSE
    BY <1>5 DEF D!TakeEvent, Types
  <2> QED
    BY <1>5, <2>1 DEF D!TakeEvent, PollerPolls
<1>6. CASE D!List
  <2>1. PICK added \in D!Listings(dir \ lastFiles) :
          IF added = <<>>
          THEN poller' = "loop" /\ UNCHANGED <<filePaths, queue>>
          ELSE D!HandOn(added)
    BY <1>6 DEF D!List
  <2>2. IsFiniteSet(dir \ lastFiles)
    BY FS_Difference DEF Types
  <2>3. /\ added \in Seq(dir \ lastFiles)
        /\ Len(added) = Cardinality(dir \ lastFiles)
    BY <2>1, <2>2, ListingsList
  <2>4. added \in Seq(Path)
    BY <1>1, <2>3, SeqMonotonic
  <2>5. filePaths = <<>> /\ lastFiles' = dir /\ UNCHANGED <<dir, watch, event, early>>
    BY <1>6 DEF D!List, PollerPolls, Types
  <2>6. CASE added = <<>>
    <3>1. dir \ lastFiles = {}
      BY <2>2, <2>3, <2>6, EmptySeq, FS_EmptySet
    <3> QED
      BY <1>1, <2>1, <2>5, <2>6, <3>1 DEF PollerPolls
  <2>7. CASE added # <<>>
    BY <1>1, <1>2, <2>1, <2>4, <2>5, <2>7
  <2> QED
    BY <2>6, <2>7
<1> QED
  BY <1>3, <1>4, <1>5, <1>6 DEF PollerPolls

\* The poller's lists, the queue and the accounts keep their types.
LEMMA PathType ==
  ASSUME PathsAreClosed, Types, [Next]_vars
  PROVE  /\ D!PollerTypeOK'
         /\ IsFiniteSet(dir')
         /\ poller' \in {"kevent", "list"} => filePaths' = <<>>
         /\ early' \subseteq Path
         /\ Accounts'
<1>1. /\ dir \subseteq Path /\ watch \in {"off", "on", "dead"} /\ event \in BOOLEAN
      /\ lastFiles \subseteq Path /\ filePaths \in Seq(Path)
      /\ poller \in {"loop", "wait", "poll", "kevent", "list", "done"}
      /\ queue \in Seq(Path)
      /\ IsFiniteSet(dir) /\ early \subseteq Path /\ Accounts
      /\ poller \in {"kevent", "list"} => filePaths = <<>>
  BY DEF Types, TypeOK, D!PollerTypeOK, Accounts
<1> DEFINE Goal == /\ D!PollerTypeOK /\ IsFiniteSet(dir) /\ early \subseteq Path /\ Accounts
                   /\ poller \in {"kevent", "list"} => filePaths = <<>>
<1>2. CASE UNCHANGED <<pollerVars, early, owed>>
  <2>1. event' \in BOOLEAN
    BY <1>1, <1>2, Zenon DEF pollerVars
  <2> QED
    BY <1>1, <1>2, <2>1 DEF pollerVars, D!PollerTypeOK, Accounts
<1>3. ASSUME NEW p \in Path, Touched(p),
             UNCHANGED <<watch, lastFiles, filePaths, poller, queue, early>>
      PROVE  Goal'
  BY <1>1, <1>3, DirectoryChanges DEF D!PollerTypeOK
<1>4. CASE UserPuts \/ UserTakes
  <2>1. PICK p \in Input : Touched(p)
    BY <1>4 DEF UserPuts, UserTakes, Touched
  <2> QED
    BY <1>3, <1>4, <2>1, YakAssumption DEF UserPuts, UserTakes
<1>5. CASE Restart
  <2>1. filePaths' \in D!Listings(dir)
    BY <1>5 DEF Restart, D!Build
  <2>2. filePaths' \in Seq(Path)
    BY <1>1, <2>1, ListingsList, SeqMonotonic
  <2>3. queue' \in Seq(Path) /\ early' = {}
    BY <1>5, EmptySeq DEF Restart
  <2>4. /\ dir' = dir /\ lastFiles' = dir /\ watch' = "off" /\ event' = FALSE
        /\ poller' = "loop" /\ owed' = [p \in dir |-> 1]
    BY <1>5 DEF Restart, D!Build
  <2>5. DOMAIN owed' = dir /\ owed' \in [dir -> Int]
    BY <2>4
  <2>6. Accounts'
    BY <1>1, <2>5 DEF Accounts
  <2> QED
    BY <1>1, <2>2, <2>3, <2>4, <2>6 DEF D!PollerTypeOK
<1>6. CASE PollerTests \/ PollerWakes
  <2>1. /\ UNCHANGED <<dir, watch, event, lastFiles, filePaths, queue, early, owed>>
        /\ poller' \in {"done", "wait", "poll"}
    BY <1>6 DEF PollerTests, PollerWakes
  <2>2. event' \in BOOLEAN
    BY <1>1, <2>1, Zenon
  <2> QED
    BY <1>1, <2>1, <2>2 DEF D!PollerTypeOK, Accounts
<1>7. CASE PollerInits
  <2>1. /\ UNCHANGED <<dir, event, lastFiles, filePaths, queue, owed>>
        /\ filePaths = <<>> /\ poller' = "kevent" /\ watch' \in {"off", "on", "dead"}
        /\ early' = early \/ early' = dir \ lastFiles
    BY <1>7 DEF PollerInits, D!InitWatch
  <2>2. event' \in BOOLEAN
    BY <1>1, <2>1, Zenon
  <2> QED
    BY <1>1, <2>1, <2>2 DEF D!PollerTypeOK, Accounts
<1>8. CASE PollerPolls
  <2>1. /\ UNCHANGED <<dir, watch, early>> /\ event' \in BOOLEAN
        /\ poller' \in {"loop", "kevent", "list"}
        /\ poller' \in {"kevent", "list"} => filePaths' = <<>>
        /\ lastFiles' = lastFiles \/ lastFiles' = dir
    BY <1>8, PollEffect
  <2>2. CASE UNCHANGED <<filePaths, queue, owed>>
    BY <1>1, <2>1, <2>2 DEF D!PollerTypeOK, Accounts
  <2>3. ASSUME NEW paths \in Seq(Path), paths # <<>>, D!HandOn(paths),
               owed' = Account(paths[Len(paths)], -1)
        PROVE  Goal'
    <3>1. filePaths' \in Seq(Path) /\ queue' \in Seq(Path) /\ paths[Len(paths)] \in Path
      BY <1>1, <2>3, HandOnEffect
    <3>2. Accounts'
      BY <1>1, <2>3, <3>1, AccountEffect DEF Accounts
    <3> QED
      BY <1>1, <2>1, <3>1, <3>2 DEF D!PollerTypeOK
  <2> QED
    BY <1>8, <2>2, <2>3, PollEffect
<1>9. CASE Dequeue /\ UNCHANGED early
  <2>1. /\ UNCHANGED <<dir, watch, event, lastFiles, filePaths, poller, owed>>
        /\ queue' = queue \/ (queue # <<>> /\ queue' = Tail(queue))
    BY <1>9 DEF Dequeue
  <2>2. queue' \in Seq(Path)
    BY <1>1, <2>1, HeadTailProperties
  <2>3. event' \in BOOLEAN
    BY <1>1, <2>1, Zenon
  <2> QED
    BY <1>1, <1>9, <2>1, <2>2, <2>3 DEF D!PollerTypeOK, Accounts
<1>10. CASE SortTouchesDirectory /\ UNCHANGED early
  <2>1. /\ UNCHANGED <<dir, watch, lastFiles, filePaths, poller, queue, owed>>
    BY <1>10 DEF SortTouchesDirectory, D!Changes
  <2>2. event' \in BOOLEAN
    BY <1>10, Zenon DEF SortTouchesDirectory, D!Changes
  <2> QED
    BY <1>1, <1>10, <2>1, <2>2 DEF D!PollerTypeOK, Accounts
<1>11. CASE (Sort \/ Resample \/ Publish) /\ UNCHANGED early
  <2>1. \E p \in Path : Touched(p)
    <3>1. CASE Sort
      BY <3>1, MainType DEF Sort, Made, Touched
    <3>2. CASE Resample
      BY <3>2 DEF Resample, Types, Removed, Touched
    <3>3. CASE Publish
      BY <3>3 DEF Publish, Types, PathsAreClosed, Made, Touched
    <3> QED
      BY <1>11, <3>1, <3>2, <3>3
  <2> QED
    BY <1>3, <1>11, <2>1 DEF Sort, Resample, Publish
<1> QED
  <2>1. CASE UserInterrupts \/ Crash \/ Handle \/ (\E t \in {"main", "poller"} : Doze(t))
             \/ UNCHANGED vars
    BY <1>2, <2>1 DEF UserInterrupts, Crash, Handle, Doze, vars
  <2>2. CASE Poll
    BY <1>6, <1>7, <1>8, <2>2 DEF Poll
  <2>3. CASE Main
    BY <1>2, <1>9, <1>10, <1>11, <2>3 DEF Main, Work, Test, Wake, Join, Abort
  <2> QED
    BY <1>4, <1>5, <2>1, <2>2, <2>3 DEF Next

\* What the user may still do, and what is counted, are numbers.
LEMMA CountType ==
  ASSUME Types, [Next]_vars
  PROVE  budget' \in 0 .. Budget /\ given' \in Nat /\ batches' \in Nat
<1>1. /\ Budget \in Nat /\ budget \in 0 .. Budget /\ given \in Nat /\ batches \in Nat
      /\ Cardinality(dir) \in Nat
  BY YakAssumption, FS_CardinalityType DEF Types, TypeOK
<1>2. budget' = budget \/ (budget > 0 /\ budget' = budget - 1)
  BY DEF Next, UserPuts, UserTakes, UserInterrupts, Crash, Restart, Handle, Doze, Poll, Main,
         Work, Sort, Resample, Publish, Made, Removed, Fails, vars
<1>3. given' \in {given, given + 1, Cardinality(dir)} /\ batches' \in {batches, batches + 1, 0}
  BY DEF Next, UserPuts, UserTakes, UserInterrupts, Crash, Restart, Handle, Doze, Poll, Main,
         Work, SortTouchesDirectory, Abort, Dequeue, Sort, Resample, Publish, Test, Wake, Join,
         counts, vars
<1> QED
  BY <1>1, <1>2, <1>3

\* What the directory holds when the program starts.
LEMMA StartType == Init => Types
<1> SUFFICES ASSUME Init PROVE Types
  OBVIOUS
<1>1. /\ dir \in SUBSET Input /\ lastFiles = dir /\ filePaths \in D!Listings(dir)
      /\ watch = "off" /\ event = FALSE /\ poller = "loop" /\ queue = <<>>
      /\ main = "loop" /\ files = <<>> /\ merged = <<>> /\ budget = Budget /\ early = {}
      /\ owed = [p \in dir |-> 1] /\ given = Cardinality(dir) /\ batches = 0
  BY DEF Init, D!PollerInit
<1>2. IsFiniteSet(dir) /\ dir \subseteq Path
  BY <1>1, YakAssumption, FS_Subset
<1>3. filePaths \in Seq(Path) /\ queue \in Seq(Path) /\ files \in Seq(Path) /\ Len(files) = 0
  BY <1>1, <1>2, ListingsList, SeqMonotonic, EmptySeq
<1>4. D!PollerTypeOK
  BY <1>1, <1>2, <1>3 DEF D!PollerTypeOK
<1>5. C!ChannelTypeOK
  BY DEF Init, C!ChannelInit, C!ChannelTypeOK
<1>6. DOMAIN owed \subseteq Path /\ owed \in [DOMAIN owed -> Int]
  BY <1>1, <1>2
<1>7. budget \in 0 .. Budget /\ given \in Nat /\ batches \in Nat /\ Len(files) < BATCH
  BY <1>1, <1>2, <1>3, FS_CardinalityType, YakAssumption
<1>8. BATCH \in Nat
  BY YakAssumption
<1> QED
  BY <1>1, <1>2, <1>3, <1>4, <1>5, <1>6, <1>7, <1>8 DEF Types, TypeOK, BatchFills

LEMMA TypesKept ==
  ASSUME PathsAreClosed, Types, [Next]_vars
  PROVE  Types'
<1>1. D!PollerTypeOK' /\ C!ChannelTypeOK' /\ IsFiniteSet(dir') /\ Accounts'
  BY PathType, ChannelType DEF Types
<1>2. early' \subseteq Path /\ (poller' \in {"kevent", "list"} => filePaths' = <<>>)
  BY PathType
<1> QED
  BY <1>1, <1>2, MainType, CountType DEF Types, TypeOK, Accounts

LEMMA TypesHold == ASSUME PathsAreClosed PROVE Spec => []Types
BY StartType, TypesKept, PTL DEF Spec

\* The type invariant: the vector of main never holds more than a batch.
THEOREM YakTypeCorrect == ASSUME PathsAreClosed PROVE Spec => []TypeOK
<1>1. Types => TypeOK
  BY DEF Types
<1> QED
  BY <1>1, TypesHold, PTL

----------------------------------------------------------------------------
(* What was handed on came into the directory before. *)

\* What is not in the last list, and what waits to be handed on, is owed to the queue; a path
\* waits once, and is in the last list.
Balance ==
  /\ \A q : OwedIn(owed, q) >= 0
  /\ \A q \in dir \ lastFiles : OwedIn(owed, q) >= 1
  /\ \A k \in 1 .. Len(filePaths) : filePaths[k] \in lastFiles /\ OwedIn(owed, filePaths[k]) >= 1
  /\ \A j, k \in 1 .. Len(filePaths) : j # k => filePaths[j] # filePaths[k]

\* Balance of a program that starts with the files of the directory listed.
LEMMA StartBalance ==
  ASSUME NEW d, IsFiniteSet(d), NEW paths \in D!Listings(d), NEW f, f = [p \in d |-> 1]
  PROVE  /\ \A q : OwedIn(f, q) >= 0
         /\ \A k \in 1 .. Len(paths) : paths[k] \in d /\ OwedIn(f, paths[k]) >= 1
         /\ \A j, k \in 1 .. Len(paths) : j # k => paths[j] # paths[k]
<1>1. \A q : OwedIn(f, q) = IF q \in d THEN 1 ELSE 0
  BY DEF OwedIn
<1>2. /\ paths \in Seq(d)
      /\ \A j, k \in 1 .. Len(paths) : j # k => paths[j] # paths[k]
  BY ListingsList
<1>3. \A k \in 1 .. Len(paths) : paths[k] \in d
  BY <1>2, ElementOfSeq
<1> QED
  BY <1>1, <1>2, <1>3

\* Whoever changes the directory can only add to what is owed.
LEMMA DirectoryKeepsBalance ==
  ASSUME Types, Balance, NEW p \in Path, Touched(p),
         UNCHANGED <<lastFiles, filePaths>>
  PROVE  Balance'
<1>1. \A q : OwedIn(owed, q) \in Int /\ OwedIn(owed', q) \in Int
  BY DirectoryChanges
<1>2. CASE /\ dir' = dir \cup {p} /\ p \notin dir
           /\ \A q : OwedIn(owed', q) = IF q = p THEN OwedIn(owed, q) + 1 ELSE OwedIn(owed, q)
  <2>1. \A q : OwedIn(owed', q) >= OwedIn(owed, q)
    BY <1>1, <1>2
  <2>2. OwedIn(owed', p) >= 1
    BY <1>1, <1>2 DEF Balance
  <2>3. \A q : \A n \in {0, 1} : OwedIn(owed, q) >= n => OwedIn(owed', q) >= n
    BY <1>1, <2>1
  <2> QED
    BY <1>2, <2>2, <2>3 DEF Balance
<1>3. CASE dir' \subseteq dir /\ owed' = owed
  BY <1>3 DEF Balance
<1> QED
  BY <1>2, <1>3, DirectoryChanges

\* poll() hands on one path of those that are owed.
LEMMA PollKeepsBalance ==
  ASSUME Types, Balance, PollerPolls
  PROVE  Balance'
<1>1. /\ filePaths \in Seq(Path) /\ queue \in Seq(Path) /\ Accounts
      /\ IsFiniteSet(dir) /\ dir' = dir
  BY PollEffect DEF Types, TypeOK, D!PollerTypeOK, Accounts
<1>2. CASE /\ UNCHANGED <<filePaths, queue, owed>>
           /\ \/ lastFiles' = lastFiles
              \/ lastFiles' = dir /\ dir \ lastFiles = {}
  <2>1. CASE lastFiles' = lastFiles
    BY <1>1, <1>2, <2>1 DEF Balance
  <2>2. CASE lastFiles' = dir /\ dir \ lastFiles = {} /\ Len(filePaths') = 0
    <3>1. 1 .. Len(filePaths') = {}
      BY <2>2
    <3> QED
      BY <1>1, <1>2, <2>2, <3>1 DEF Balance
  <2>3. CASE lastFiles' = dir /\ lastFiles' # lastFiles
    <3>1. D!List
      BY <2>3 DEF PollerPolls, D!PopPath, D!SkipInit, D!TakeEvent
    <3>2. filePaths = <<>>
      BY <3>1 DEF D!List, Types
    <3>3. Len(filePaths') = 0
      BY <1>2, <3>2, EmptySeq
    <3> QED
      BY <1>2, <2>2, <2>3, <3>3
  <2> QED
    BY <1>2, <2>1, <2>3
<1>3. ASSUME NEW paths \in Seq(Path), paths # <<>>, D!HandOn(paths),
             owed' = Account(paths[Len(paths)], -1),
             \A k \in 1 .. Len(paths) : paths[k] \in lastFiles' /\ OwedIn(owed, paths[k]) >= 1,
             \A j, k \in 1 .. Len(paths) : j # k => paths[j] # paths[k],
             \A q \in dir \ lastFiles' : OwedIn(owed, q) >= 1
      PROVE  Balance'
  <2> DEFINE p == paths[Len(paths)]
             n == Len(paths)
  <2>1. n \in Nat \ {0} /\ n \in 1 .. n
    BY <1>3, EmptySeq, LenProperties
  <2>2. /\ p \in Path /\ Len(filePaths') = n - 1
        /\ \A k \in 1 .. n - 1 : filePaths'[k] = paths[k]
    BY <1>1, <1>3, HandOnEffect
  <2>3. /\ \A q : OwedIn(owed, q) \in Int
        /\ \A q : OwedIn(owed', q) = IF q = p THEN OwedIn(owed, q) + (-1) ELSE OwedIn(owed, q)
    BY <1>1, <1>3, <2>2, AccountEffect
  <2>4. OwedIn(owed, p) >= 1 /\ p \in lastFiles'
    BY <1>3, <2>1
  <2>5. \A k \in 1 .. n - 1 : k \in 1 .. n /\ paths[k] # p
    BY <1>3, <2>1
  <2> HIDE DEF p, n
  <2>6. \A q : OwedIn(owed', q) >= 0
    BY <2>3, <2>4 DEF Balance
  <2>7. \A q \in dir \ lastFiles' : OwedIn(owed', q) >= 1
    BY <1>3, <2>3, <2>4
  <2>8. \A k \in 1 .. n - 1 : paths[k] \in lastFiles' /\ OwedIn(owed', paths[k]) >= 1
    BY <1>3, <2>3, <2>5 DEF n
  <2>9. \A j, k \in 1 .. n - 1 : j # k => paths[j] # paths[k]
    BY <1>3, <2>5 DEF n
  <2> QED
    BY <1>1, <2>2, <2>6, <2>7, <2>8, <2>9 DEF Balance
<1>4. ASSUME NEW paths \in Seq(Path), paths # <<>>, D!HandOn(paths),
             owed' = Account(paths[Len(paths)], -1),
             paths = filePaths, lastFiles' = lastFiles
      PROVE  Balance'
  BY <1>3, <1>4 DEF Balance
<1>5. ASSUME NEW paths \in Seq(Path), paths # <<>>, D!HandOn(paths),
             owed' = Account(paths[Len(paths)], -1),
             lastFiles' = dir, paths \in D!Listings(dir \ lastFiles)
      PROVE  Balance'
  <2>1. IsFiniteSet(dir \ lastFiles)
    BY <1>1, FS_Difference
  <2>2. /\ paths \in Seq(dir \ lastFiles)
        /\ \A j, k \in 1 .. Len(paths) : j # k => paths[j] # paths[k]
    BY <1>5, <2>1, ListingsList
  <2>3. \A k \in 1 .. Len(paths) : paths[k] \in dir \ lastFiles
    BY <2>2, ElementOfSeq
  <2> QED
    BY <1>3, <1>5, <2>2, <2>3 DEF Balance
<1>6. CASE \E paths \in Seq(Path) :
             /\ paths # <<>> /\ D!HandOn(paths)
             /\ owed' = Account(paths[Len(paths)], -1)
             /\ \/ paths = filePaths /\ lastFiles' = lastFiles
                \/ lastFiles' = dir /\ paths \in D!Listings(dir \ lastFiles)
  BY <1>4, <1>5, <1>6
<1>7. \/ /\ UNCHANGED <<filePaths, queue, owed>>
         /\ \/ lastFiles' = lastFiles
            \/ lastFiles' = dir /\ dir \ lastFiles = {}
      \/ \E paths \in Seq(Path) :
           /\ paths # <<>> /\ D!HandOn(paths)
           /\ owed' = Account(paths[Len(paths)], -1)
           /\ \/ paths = filePaths /\ lastFiles' = lastFiles
              \/ lastFiles' = dir /\ paths \in D!Listings(dir \ lastFiles)
  <2> HIDE DEF Types, Balance
  <2> QED
    BY PollEffect
<1> QED
  BY <1>2, <1>6, <1>7

LEMMA BalanceKept ==
  ASSUME PathsAreClosed, Types, Balance, [Next]_vars
  PROVE  Balance'
<1>1. CASE UNCHANGED <<dir, lastFiles, filePaths, owed>>
  BY <1>1 DEF Balance
<1>2. CASE UserPuts \/ UserTakes
  BY <1>2, DirectoryKeepsBalance, YakAssumption DEF UserPuts, UserTakes, Touched
<1>3. CASE Restart
  <2>1. /\ filePaths' \in D!Listings(dir) /\ lastFiles' = dir /\ dir' = dir
        /\ owed' = [p \in dir |-> 1] /\ IsFiniteSet(dir)
    BY <1>3 DEF Restart, D!Build, Types
  <2> QED
    BY <2>1, StartBalance DEF Balance
<1>4. CASE Poll
  <2>1. CASE PollerTests \/ PollerWakes \/ PollerInits
    BY <1>1, <2>1 DEF PollerTests, PollerWakes, PollerInits, D!InitWatch
  <2> QED
    BY <1>4, <2>1, PollKeepsBalance DEF Poll
<1>5. CASE Main
  <2>1. CASE Sort
    BY <2>1, MainType, DirectoryKeepsBalance DEF Sort, Made, Touched
  <2>2. CASE Resample
    BY <2>2, DirectoryKeepsBalance DEF Resample, Types, Removed, Touched
  <2>3. CASE Publish
    BY <2>3, DirectoryKeepsBalance DEF Publish, Types, PathsAreClosed, Made, Touched
  <2>4. CASE SortTouchesDirectory \/ Abort \/ Dequeue \/ Test \/ Wake \/ Join
    BY <1>1, <2>4 DEF SortTouchesDirectory, D!Changes, Abort, Dequeue, Test, Wake, Join, pollerVars
  <2> QED
    BY <1>5, <2>1, <2>2, <2>3, <2>4 DEF Main, Work
<1> QED
  BY <1>1, <1>2, <1>3, <1>4, <1>5
     DEF Next, UserInterrupts, Crash, Handle, Doze, pollerVars, vars

\* Whatever appears in the directory and goes, while the poller lists it or does not, no file
\* is handed on more often than it came.
THEOREM YakHandsOnOnce == ASSUME PathsAreClosed PROVE Spec => []HandedOnOnce
<1>1. Init => Balance
  <2> SUFFICES ASSUME Init PROVE Balance
    OBVIOUS
  <2>1. IsFiniteSet(dir)
    BY StartType DEF Types
  <2>2. filePaths \in D!Listings(dir) /\ lastFiles = dir /\ owed = [p \in dir |-> 1]
    BY DEF Init, D!PollerInit
  <2> QED
    BY <2>1, <2>2, StartBalance DEF Balance
<1>2. Balance => HandedOnOnce
  BY DEF Balance, HandedOnOnce, OwedIn
<1> QED
  BY <1>1, <1>2, BalanceKept, TypesHold, PTL DEF Spec

----------------------------------------------------------------------------
(* What the batches take comes from the user. *)

\* What the user gave, the merged files and the results that were published.
Given ==
  given + batches + (IF main \in {"resample", "publish"} THEN batches - 1 ELSE batches)

\* The paths on their way to a batch: in main's vector, in the queue, in the poller's list, or
\* not listed yet.
OnTheWay ==
  Len(files) + Len(queue) + Len(filePaths) + Cardinality(dir \ lastFiles)

Fed == BATCH * batches + OnTheWay <= Given

LEMMA FedTypes ==
  ASSUME Types
  PROVE  /\ Len(files) \in Nat /\ Len(queue) \in Nat /\ Len(filePaths) \in Nat
         /\ Cardinality(dir \ lastFiles) \in Nat /\ OnTheWay \in Nat
         /\ given \in Nat /\ batches \in Nat /\ BATCH \in Nat /\ BATCH * batches \in Nat
         /\ Given \in Int
<1>1. /\ given \in Nat /\ batches \in Nat /\ BATCH \in Nat
      /\ files \in Seq(Path) /\ queue \in Seq(Path) /\ filePaths \in Seq(Path)
      /\ IsFiniteSet(dir)
  BY YakAssumption DEF Types, TypeOK, D!PollerTypeOK
<1>2. Cardinality(dir \ lastFiles) \in Nat
  BY <1>1, FS_Difference, FS_CardinalityType
<1>3. Len(files) \in Nat /\ Len(queue) \in Nat /\ Len(filePaths) \in Nat
  BY <1>1, LenProperties
<1>4. BATCH * batches \in Nat
  BY <1>1
<1> QED
  BY <1>1, <1>2, <1>3, <1>4 DEF OnTheWay, Given

\* A change of the directory makes one more file that is not listed, at most.
LEMMA OneMoreUnlisted ==
  ASSUME Types, NEW p \in Path, Touched(p), UNCHANGED lastFiles
  PROVE  /\ Cardinality((dir \ lastFiles)') \in Nat
         /\ Cardinality((dir \ lastFiles)') <= Cardinality(dir \ lastFiles) + 1
         /\ Disappears(p) \/ Fails =>
              Cardinality((dir \ lastFiles)') <= Cardinality(dir \ lastFiles)
<1>1. IsFiniteSet(dir \ lastFiles)
  BY FS_Difference DEF Types
<1>2. Cardinality(dir \ lastFiles) \in Nat
  BY <1>1, FS_CardinalityType
<1>3. CASE (dir \ lastFiles)' \subseteq dir \ lastFiles
  BY <1>1, <1>2, <1>3, FS_Subset, FS_CardinalityType
<1>4. CASE (dir \ lastFiles)' = (dir \ lastFiles) \cup {p} /\ ~(Disappears(p) \/ Fails)
  BY <1>1, <1>2, <1>4, FS_AddElement, FS_CardinalityType
<1> QED
  BY <1>3, <1>4 DEF Touched, Fails, Appears, Disappears, D!Changes

\* poll() moves paths, and finds none that it did not find before.
LEMMA PollMovesPaths ==
  ASSUME Types, PollerPolls, UNCHANGED files
  PROVE  OnTheWay' = OnTheWay
<1>1. /\ filePaths \in Seq(Path) /\ queue \in Seq(Path) /\ Accounts
      /\ IsFiniteSet(dir) /\ dir' = dir
  BY PollEffect DEF Types, TypeOK, D!PollerTypeOK, Accounts
<1>2. /\ Len(files) \in Nat /\ Len(queue) \in Nat /\ Len(filePaths) \in Nat
      /\ Cardinality(dir \ lastFiles) \in Nat
  BY FedTypes
<1>3. IsFiniteSet({}) /\ Cardinality({}) = 0
  BY FS_EmptySet
<1>4. ASSUME NEW paths \in Seq(Path), paths # <<>>, D!HandOn(paths)
      PROVE  /\ Len(queue') = Len(queue) + 1 /\ Len(filePaths') = Len(paths) - 1
             /\ Len(paths) \in Nat
  BY <1>1, <1>4, HandOnEffect, LenProperties
<1>5. CASE /\ UNCHANGED <<filePaths, queue>>
           /\ \/ lastFiles' = lastFiles
              \/ lastFiles' = dir /\ dir \ lastFiles = {}
  <2>1. (dir \ lastFiles)' = dir \ lastFiles
    BY <1>1, <1>5
  <2> QED
    BY <1>5, <2>1 DEF OnTheWay
<1>6. ASSUME NEW paths \in Seq(Path), paths # <<>>, D!HandOn(paths),
             paths = filePaths, lastFiles' = lastFiles
      PROVE  OnTheWay' = OnTheWay
  <2>1. dir' \ lastFiles' = dir \ lastFiles
    BY <1>1, <1>6
  <2>2. /\ Len(queue') = Len(queue) + 1 /\ Len(filePaths') = Len(filePaths) - 1
        /\ files' = files
    BY <1>4, <1>6
  <2>3. Len(files') + Len(queue') + Len(filePaths') = Len(files) + Len(queue) + Len(filePaths)
    BY <1>2, <2>2
  <2> QED
    BY <2>1, <2>3 DEF OnTheWay
<1>7. ASSUME NEW paths \in Seq(Path), paths # <<>>, D!HandOn(paths), filePaths = <<>>,
             lastFiles' = dir, paths \in D!Listings(dir \ lastFiles)
      PROVE  OnTheWay' = OnTheWay
  <2>1. Len(paths) = Cardinality(dir \ lastFiles)
    BY <1>1, <1>7, FS_Difference, ListingsList
  <2>2. dir' \ lastFiles' = {} /\ Len(filePaths) = 0
    BY <1>1, <1>7, EmptySeq
  <2>3. /\ Len(queue') = Len(queue) + 1 /\ Len(filePaths') = Len(paths) - 1
        /\ files' = files
    BY <1>4, <1>7
  <2>4. Cardinality(dir' \ lastFiles') = 0
    BY <1>3, <2>2
  <2>5. Len(files') + Len(queue') + Len(filePaths') + 0
          = Len(files) + Len(queue) + Len(filePaths) + Cardinality(dir \ lastFiles)
    BY <1>2, <2>1, <2>2, <2>3
  <2> QED
    BY <2>4, <2>5 DEF OnTheWay
<1>8. \/ /\ UNCHANGED <<filePaths, queue>>
         /\ \/ lastFiles' = lastFiles
            \/ lastFiles' = dir /\ dir \ lastFiles = {}
      \/ \E paths \in Seq(Path) :
           /\ paths # <<>> /\ D!HandOn(paths)
           /\ \/ paths = filePaths /\ lastFiles' = lastFiles
              \/ /\ filePaths = <<>> /\ lastFiles' = dir
                 /\ paths \in D!Listings(dir \ lastFiles)
  <2> HIDE DEF Types
  <2> QED
    BY PollEffect
<1> QED
  BY <1>5, <1>6, <1>7, <1>8

LEMMA Bookkeeping ==
  ASSUME NEW taken \in Int, NEW way \in Int, NEW way2 \in Int, NEW g \in Int, NEW g2 \in Int,
         NEW n \in Int,
         taken + way <= g, way2 <= way + n, g2 >= g + n
  PROVE  taken + way2 <= g2
OBVIOUS

\* n files more are on their way, and no fewer are given.
LEMMA FedStep ==
  ASSUME Types, Fed, UNCHANGED batches, OnTheWay' \in Nat, Given' \in Int,
         NEW n \in Int, OnTheWay' <= OnTheWay + n, Given' >= Given + n
  PROVE  Fed'
<1> DEFINE taken == BATCH * batches
<1>1. taken \in Int /\ OnTheWay \in Int /\ Given \in Int /\ OnTheWay' \in Int
  BY FedTypes
<1>2. taken + OnTheWay <= Given
  BY DEF Fed
<1>3. taken' = taken
  OBVIOUS
<1> HIDE DEF taken
<1>4. taken + OnTheWay' <= Given'
  BY <1>1, <1>2, Bookkeeping
<1> QED
  BY <1>3, <1>4 DEF taken, Fed

LEMMA FedKept ==
  ASSUME PathsAreClosed, Types, Fed, [Next]_vars
  PROVE  Fed'
<1>1. /\ Len(files) \in Nat /\ Len(queue) \in Nat /\ Len(filePaths) \in Nat
      /\ Cardinality(dir \ lastFiles) \in Nat /\ OnTheWay \in Nat
      /\ given \in Nat /\ batches \in Nat /\ BATCH \in Nat /\ BATCH * batches \in Nat
      /\ Given \in Int
  BY FedTypes
<1>2. /\ BATCH * batches + OnTheWay <= Given
      /\ queue \in Seq(Path) /\ files \in Seq(Path)
  BY DEF Fed, Types, TypeOK, D!PollerTypeOK
<1>3. ASSUME UNCHANGED batches, OnTheWay' = OnTheWay, Given' \in Int, Given' >= Given
      PROVE  Fed'
  <2>1. OnTheWay' \in Nat /\ OnTheWay' <= OnTheWay + 0 /\ Given' >= Given + 0
    BY <1>1, <1>3
  <2> QED
    BY <1>3, <2>1, FedStep
<1>4. CASE UserPuts
  <2>1. PICK p \in Path : Appears(p)
    BY <1>4, YakAssumption DEF UserPuts
  <2>2. /\ UNCHANGED <<lastFiles, filePaths, queue, main, files, batches>>
        /\ given' = given + 1
    BY <1>4 DEF UserPuts, mainVars
  <2>3. /\ Cardinality((dir \ lastFiles)') \in Nat
        /\ Cardinality((dir \ lastFiles)') <= Cardinality(dir \ lastFiles) + 1
    BY <2>1, <2>2, OneMoreUnlisted DEF Touched
  <2>4. OnTheWay' \in Nat /\ OnTheWay' <= OnTheWay + 1
    BY <1>1, <2>2, <2>3 DEF OnTheWay
  <2>5. Given' \in Int /\ Given' >= Given + 1
    BY <1>1, <2>2 DEF Given
  <2> QED
    <3>1. UNCHANGED batches
      BY <2>2
    <3> QED
      BY <2>4, <2>5, <3>1, FedStep
<1>5. CASE UserTakes
  <2>1. PICK p \in Path : Disappears(p)
    BY <1>5, YakAssumption DEF UserTakes
  <2>2. UNCHANGED <<lastFiles, filePaths, queue, main, files, given, batches>>
    BY <1>5 DEF UserTakes, mainVars, counts
  <2>3. /\ Cardinality((dir \ lastFiles)') \in Nat
        /\ Cardinality((dir \ lastFiles)') <= Cardinality(dir \ lastFiles)
    BY <2>1, <2>2, OneMoreUnlisted DEF Touched
  <2>4. OnTheWay' \in Nat /\ OnTheWay' <= OnTheWay + 0
    BY <1>1, <2>2, <2>3 DEF OnTheWay
  <2>5. Given' \in Int /\ Given' >= Given + 0
    BY <1>1, <2>2 DEF Given
  <2> QED
    <3>1. UNCHANGED batches
      BY <2>2
    <3> QED
      BY <2>4, <2>5, <3>1, FedStep
<1>6. CASE Crash \/ Abort
  <2>1. /\ UNCHANGED <<dir, lastFiles, filePaths, queue, files, given, batches>>
        /\ main' \in {"crashed", "aborted"}
    BY <1>6 DEF Crash, Abort, pollerVars, counts
  <2>2. OnTheWay' = OnTheWay
    BY <2>1 DEF OnTheWay
  <2>3. Given' \in Int /\ Given' >= Given
    BY <1>1, <2>1 DEF Given
  <2> QED
    BY <1>1, <1>3, <2>1, <2>2, <2>3
<1>7. CASE Restart
  <2>1. /\ filePaths' \in D!Listings(dir) /\ lastFiles' = dir /\ dir' = dir
        /\ queue' = <<>> /\ files' = <<>> /\ main' = "loop"
        /\ given' = Cardinality(dir) /\ batches' = 0 /\ IsFiniteSet(dir)
    BY <1>7 DEF Restart, D!Build, Types
  <2>2. Len(filePaths') = Cardinality(dir) /\ Cardinality(dir) \in Nat
    BY <2>1, ListingsList, FS_CardinalityType
  <2>3. Cardinality(dir' \ lastFiles') = 0
    <3>1. dir' \ lastFiles' = {}
      BY <2>1
    <3> QED
      BY <3>1, FS_EmptySet
  <2>4. Len(queue') = 0 /\ Len(files') = 0
    BY <2>1, EmptySeq
  <2>5. OnTheWay' = Cardinality(dir)
    BY <2>2, <2>3, <2>4 DEF OnTheWay
  <2>6. Given' = Cardinality(dir)
    BY <2>1, <2>2 DEF Given
  <2>7. BATCH * batches' = 0
    BY <1>1, <2>1
  <2> QED
    BY <2>1, <2>2, <2>5, <2>6, <2>7 DEF Fed
<1>8. CASE Dequeue
  <2>1. /\ UNCHANGED <<dir, lastFiles, filePaths, given, batches>>
        /\ main = "loop" /\ main' \in {"sort", "test"}
    BY <1>8 DEF Dequeue, counts
  <2>2. \/ UNCHANGED <<queue, files>>
        \/ queue # <<>> /\ files' = Append(files, Head(queue)) /\ queue' = Tail(queue)
    BY <1>8 DEF Dequeue
  <2>3. Len(files') + Len(queue') = Len(files) + Len(queue)
    <3>1. CASE queue # <<>> /\ files' = Append(files, Head(queue)) /\ queue' = Tail(queue)
      <4>1. Head(queue) \in Path /\ Len(queue') = Len(queue) - 1
        BY <1>2, <3>1, HeadTailProperties
      <4>2. Len(files') = Len(files) + 1
        BY <1>2, <3>1, <4>1, AppendProperties
      <4> QED
        BY <1>1, <4>1, <4>2
    <3> QED
      BY <2>2, <3>1
  <2>4. OnTheWay' = OnTheWay
    BY <1>1, <2>1, <2>3 DEF OnTheWay
  <2>5. Given' = Given
    BY <2>1 DEF Given
  <2> QED
    BY <1>1, <1>3, <2>1, <2>4, <2>5
<1>9. CASE Sort
  <2>1. /\ UNCHANGED <<lastFiles, filePaths, queue, given>> /\ Made(merged')
        /\ files' = <<>> /\ main = "sort" /\ main' = "resample" /\ batches' = batches + 1
    BY <1>9 DEF Sort
  <2>2. Len(files) = BATCH /\ Len(files') = 0
    BY <2>1, EmptySeq DEF Types, BatchFills
  <2>3. merged' \in Path
    BY <2>1, MainType
  <2>4. /\ Cardinality((dir \ lastFiles)') \in Nat
        /\ Cardinality((dir \ lastFiles)') <= Cardinality(dir \ lastFiles) + 1
    BY <2>1, <2>3, OneMoreUnlisted DEF Made, Touched
  <2>5. OnTheWay' \in Nat /\ OnTheWay' + BATCH <= OnTheWay + 1
    BY <1>1, <2>1, <2>2, <2>4 DEF OnTheWay
  <2>6. Given' = Given + 1 /\ Given' \in Int
    BY <1>1, <2>1 DEF Given
  <2> DEFINE taken == BATCH * batches
  <2>7. taken \in Nat /\ taken' = taken + BATCH
    BY <1>1, <2>1
  <2>8. taken + OnTheWay <= Given
    BY <1>2
  <2> HIDE DEF taken
  <2>9. taken + (OnTheWay' + BATCH) <= Given'
    <3>1. OnTheWay' + BATCH \in Int
      BY <1>1, <2>5
    <3>2. taken \in Int /\ OnTheWay \in Int /\ Given \in Int /\ Given' >= Given + 1
      BY <1>1, <2>6, <2>7
    <3> QED
      BY <2>5, <2>6, <2>8, <3>1, <3>2, Bookkeeping
  <2>10. taken' + OnTheWay' <= Given'
    <3>1. \A a, b, c \in Int : a + (b + c) = (a + c) + b
      OBVIOUS
    <3>2. taken + (OnTheWay' + BATCH) = (taken + BATCH) + OnTheWay'
      BY <1>1, <2>5, <2>7, <3>1
    <3> QED
      BY <2>7, <2>9, <3>2
  <2> QED
    BY <2>10 DEF taken, Fed
<1>10. CASE Resample
  <2>1. /\ UNCHANGED <<lastFiles, filePaths, queue, files, given, batches>>
        /\ Removed(merged) /\ merged \in Path
        /\ main = "resample" /\ main' = "publish"
    BY <1>10 DEF Resample, counts, Types
  <2>2. /\ Cardinality((dir \ lastFiles)') \in Nat
        /\ Cardinality((dir \ lastFiles)') <= Cardinality(dir \ lastFiles)
    BY <2>1, OneMoreUnlisted DEF Removed, Touched
  <2>3. OnTheWay' \in Nat /\ OnTheWay' <= OnTheWay + 0
    BY <1>1, <2>1, <2>2 DEF OnTheWay
  <2>4. Given' \in Int /\ Given' >= Given + 0
    BY <1>1, <2>1 DEF Given
  <2> QED
    <3>1. UNCHANGED batches
      BY <2>1
    <3> QED
      BY <2>3, <2>4, <3>1, FedStep
<1>11. CASE Publish
  <2>1. /\ UNCHANGED <<lastFiles, filePaths, queue, files, given, batches>>
        /\ Made(ResultPath(merged)) /\ ResultPath(merged) \in Path
        /\ main = "publish" /\ main' = "test"
    BY <1>11 DEF Publish, counts, Types, PathsAreClosed
  <2>2. /\ Cardinality((dir \ lastFiles)') \in Nat
        /\ Cardinality((dir \ lastFiles)') <= Cardinality(dir \ lastFiles) + 1
    BY <2>1, OneMoreUnlisted DEF Made, Touched
  <2>3. OnTheWay' \in Nat /\ OnTheWay' <= OnTheWay + 1
    BY <1>1, <2>1, <2>2 DEF OnTheWay
  <2>4. Given' \in Int /\ Given' >= Given + 1
    BY <1>1, <2>1 DEF Given
  <2> QED
    <3>1. UNCHANGED batches
      BY <2>1
    <3> QED
      BY <2>3, <2>4, <3>1, FedStep
<1>12. CASE PollerPolls /\ UNCHANGED <<mainVars, counts>>
  <2>1. UNCHANGED <<files, given, batches>> /\ Given' = Given
    BY <1>12 DEF mainVars, counts, Given
  <2> QED
    BY <1>1, <1>3, <1>12, <2>1, PollMovesPaths
<1>13. CASE UNCHANGED <<dir, lastFiles, filePaths, queue, files, main, given, batches>>
  <2>1. OnTheWay' = OnTheWay /\ Given' = Given
    BY <1>13 DEF OnTheWay, Given
  <2> QED
    BY <1>1, <1>3, <1>13, <2>1
<1>14. CASE Test \/ Wake \/ Join \/ SortTouchesDirectory
  <2>1. /\ UNCHANGED <<dir, lastFiles, filePaths, queue, files, given, batches>>
        /\ main \notin {"resample", "publish"} \/ main' = main
        /\ main' \notin {"resample", "publish"} \/ main' = main
    BY <1>14 DEF Test, Wake, Join, SortTouchesDirectory, D!Changes, pollerVars, mainVars, counts
  <2>2. OnTheWay' = OnTheWay /\ Given' = Given
    BY <2>1 DEF OnTheWay, Given
  <2> QED
    BY <1>1, <1>3, <2>1, <2>2
<1> QED
  <2>1. CASE UserInterrupts \/ Handle \/ (\E t \in {"main", "poller"} : Doze(t))
             \/ UNCHANGED vars
    BY <1>13, <2>1 DEF UserInterrupts, Handle, Doze, vars, pollerVars, mainVars, counts
  <2>2. CASE Poll
    BY <1>12, <1>13, <2>2 DEF Poll, PollerTests, PollerWakes, PollerInits, D!InitWatch,
                              mainVars, counts
  <2>3. CASE Main
    BY <1>6, <1>8, <1>9, <1>10, <1>11, <1>14, <2>3 DEF Main, Work
  <2> QED
    BY <1>4, <1>5, <1>6, <1>7, <2>1, <2>2, <2>3 DEF Next

\* With any number of users' files every sort is paid for: BATCH files go into a batch, and
\* no more than two come out of it.
THEOREM YakBatchesAreFed == ASSUME PathsAreClosed PROVE Spec => []BatchesAreFed
<1>1. Init => Fed
  <2> SUFFICES ASSUME Init PROVE Fed
    OBVIOUS
  <2>1. /\ filePaths \in D!Listings(dir) /\ lastFiles = dir
        /\ queue = <<>> /\ files = <<>> /\ main = "loop"
        /\ given = Cardinality(dir) /\ batches = 0
    BY DEF Init, D!PollerInit
  <2>2. Types
    BY StartType
  <2>3. Len(filePaths) = Cardinality(dir) /\ Cardinality(dir) \in Nat
    BY <2>1, <2>2, ListingsList, FS_CardinalityType DEF Types
  <2>4. Len(queue) = 0 /\ Len(files) = 0 /\ Cardinality(dir \ lastFiles) = 0
    <3>1. dir \ lastFiles = {}
      BY <2>1
    <3> QED
      BY <2>1, <3>1, EmptySeq, FS_EmptySet
  <2>5. OnTheWay = Cardinality(dir)
    BY <2>3, <2>4 DEF OnTheWay
  <2>6. Given = Cardinality(dir)
    BY <2>1, <2>3 DEF Given
  <2>7. BATCH * batches = 0
    BY <2>1, YakAssumption
  <2> QED
    BY <2>1, <2>3, <2>5, <2>6, <2>7 DEF Fed
<1>2. Types /\ Fed => BatchesAreFed
  <2> SUFFICES ASSUME Types, Fed PROVE BatchesAreFed
    OBVIOUS
  <2>1. BATCH * batches + Len(files) + Len(queue) + Len(filePaths) <= Given
    <3> DEFINE taken == BATCH * batches
    <3>1. taken + OnTheWay <= Given
      BY DEF Fed
    <3>2. taken \in Nat
      BY FedTypes
    <3> HIDE DEF taken
    <3>3. taken + Len(files) + Len(queue) + Len(filePaths) <= Given
      BY <3>1, <3>2, FedTypes DEF OnTheWay
    <3> QED
      BY <3>3 DEF taken
  <2> QED
    BY <2>1 DEF BatchesAreFed, Given
<1> QED
  BY <1>1, <1>2, FedKept, TypesHold, PTL DEF Spec
============================================================================
