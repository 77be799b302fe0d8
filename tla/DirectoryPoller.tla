-------------------------- MODULE DirectoryPoller --------------------------
(***************************************************************************)
(* The DirectoryPoller on kqueue: which files of the watched directory it  *)
(* hands on, and when.  It lists the directory when it is built, and after *)
(* each event lists it again and hands on what was not in the list before. *)
(*                                                                         *)
(* dir holds the paths that should_add_file accepts: names that end with   *)
(* ".csv" and do not start with a dot.  Other entries of the directory do  *)
(* not change what is handed on; that they come and go is an event.        *)
(***************************************************************************)
EXTENDS Naturals, Sequences, SequencesExt

CONSTANTS
  Path,           \* the paths of the directory that should_add_file accepts
  Before(_, _),   \* the order of std::string
  MayFail         \* whether registering the watch may fail

VARIABLES
  dir,        \* the accepted files there are in the directory
  watch,      \* "off" before init_dir_watch, "on", or "dead" when kevent refused it
  event,      \* the kernel has an event for the poller
  lastFiles,  \* m_last_files
  filePaths,  \* m_file_paths
  poller,     \* where the poller stands in poll()
  queue       \* files_to_sort_queue

pollerVars == <<dir, watch, event, lastFiles, filePaths, poller, queue>>

\* A std::set is listed in the order of its strings.
Listings(S) == {s \in SetToSeqs(S) : \A i, j \in DOMAIN s : i < j => Before(s[i], s[j])}

\* Something is written to the directory: EV_CLEAR keeps one event until it is taken.
Changes(d) ==
  /\ dir' = d
  /\ event' = (event \/ watch = "on")

----------------------------------------------------------------------------

\* The constructor.
Build ==
  /\ lastFiles' = dir
  /\ filePaths' \in Listings(dir)
  /\ watch' = "off"
  /\ event' = FALSE
  /\ poller' = "loop"

\* The directory may hold some of the files of S from the start.
PollerInit(S) ==
  /\ dir \in SUBSET S
  /\ lastFiles = dir
  /\ filePaths \in Listings(dir)
  /\ watch = "off"
  /\ event = FALSE
  /\ poller = "loop"
  /\ queue = <<>>

\* The last path is returned by poll(), and enqueued by AbstractPoller::step.
HandOn(paths) ==
  /\ queue' = Append(queue, Last(paths))
  /\ filePaths' = Front(paths)
  /\ poller' = "loop"

\* As long as there are paths, poll() looks for no event.
PopPath ==
  /\ poller = "poll"
  /\ filePaths # <<>>
  /\ HandOn(filePaths)
  /\ UNCHANGED <<dir, watch, event, lastFiles>>

\* The first poll that finds no path registers the watch; refused says that it failed.
\* When the directory could not be opened the next poll tries again.
InitWatch(refused) ==
  /\ poller = "poll"
  /\ filePaths = <<>>
  /\ watch = "off"
  /\ IF refused THEN watch' \in {"off", "dead"} ELSE watch' = "on"
  /\ poller' = "kevent"
  /\ UNCHANGED <<dir, event, lastFiles, filePaths, queue>>

SkipInit ==
  /\ poller = "poll"
  /\ filePaths = <<>>
  /\ watch # "off"
  /\ poller' = "kevent"
  /\ UNCHANGED <<dir, watch, event, lastFiles, filePaths, queue>>

\* Variant: the flags of an event are compared with NOTE_WRITE, so that an event that
\* carries another flag besides is passed over.
TakeEventOneFlag ==
  /\ poller = "kevent"
  /\ event' = FALSE
  /\ IF event THEN poller' \in {"list", "loop"} ELSE poller' = "loop"
  /\ UNCHANGED <<dir, watch, lastFiles, filePaths, queue>>

\* kevent returns the event there is, or at once that there is none.
TakeEvent ==
  /\ poller = "kevent"
  /\ event' = FALSE
  /\ poller' = IF event THEN "list" ELSE "loop"
  /\ UNCHANGED <<dir, watch, lastFiles, filePaths, queue>>

\* Variant: m_last_files stays as it was built.
ForgetList ==
  /\ poller = "list"
  /\ UNCHANGED <<dir, watch, event, lastFiles>>
  /\ \E added \in Listings(dir \ lastFiles) :
       IF added = <<>>
       THEN poller' = "loop" /\ UNCHANGED <<filePaths, queue>>
       ELSE HandOn(added)

\* The directory is listed; what was not in the last list is handed on.
List ==
  /\ poller = "list"
  /\ lastFiles' = dir
  /\ \E added \in Listings(dir \ lastFiles) :
       IF added = <<>>
       THEN poller' = "loop" /\ UNCHANGED <<filePaths, queue>>
       ELSE HandOn(added)
  /\ UNCHANGED <<dir, watch, event>>

PollerTypeOK ==
  /\ dir \subseteq Path
  /\ watch \in {"off", "on", "dead"}
  /\ event \in BOOLEAN
  /\ lastFiles \subseteq Path
  /\ filePaths \in Seq(Path)
  /\ poller \in {"loop", "wait", "poll", "kevent", "list", "done"}
  /\ queue \in Seq(Path)
============================================================================
