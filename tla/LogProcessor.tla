---------------------------- MODULE LogProcessor ----------------------------
(***************************************************************************)
(* Logging::LogProcessor: every thread of the program puts its messages    *)
(* into log_queue, and one thread takes them out and prints them.  main    *)
(* starts that thread first and stops it last, when the threads that log   *)
(* have been joined.                                                       *)
(*                                                                         *)
(* The wait for m_active_processors is left out: the counter is always     *)
(* zero, and wait_for with a true predicate returns at once.               *)
(***************************************************************************)
EXTENDS Naturals, Sequences

CONSTANTS
  Producer,    \* the threads that log, main among them
  MaxMessages  \* bound: how many messages a thread logs at the most

ASSUME LogAssumption == "main" \in Producer /\ MaxMessages \in Nat

VARIABLES
  queue, waiter, val,  \* log_queue, see SafeQueue
  left,       \* left[p]: how many messages p has still to log
  shouldRun,  \* m_should_run
  log,        \* where the log thread stands
  main,       \* where main stands
  sent,       \* the messages in the order in which they were enqueued
  printed     \* the messages in the order in which they were printed

queueVars == <<queue, waiter, val>>
vars == <<queueVars, left, shouldRun, log, main, sent, printed>>

Message == Producer \X (1 .. MaxMessages)
None == <<>>

Q == INSTANCE SafeQueue WITH Consumer <- {"log"}, Item <- Message, Nothing <- None

message == val["log"]

----------------------------------------------------------------------------

\* m_should_run is not initialized.
Init ==
  /\ Q!QueueInit
  /\ left \in [Producer -> 0 .. MaxMessages]
  /\ shouldRun \in BOOLEAN
  /\ log = "started"
  /\ main = "working"
  /\ sent = <<>>
  /\ printed = <<>>

\* Logging::INFO and its like.
Log(p) ==
  /\ left[p] > 0
  /\ main = "working"
  /\ Q!Enqueue(<<p, left[p]>>)
  /\ sent' = Append(sent, <<p, left[p]>>)
  /\ left' = [left EXCEPT ![p] = @ - 1]
  /\ UNCHANGED <<shouldRun, log, main, printed>>

\* The other threads that log were joined before.
Stop ==
  /\ main = "working"
  /\ \A p \in Producer : left[p] = 0
  /\ shouldRun' = FALSE
  /\ main' = "join"
  /\ UNCHANGED <<queueVars, left, log, sent, printed>>

Join ==
  /\ main = "join"
  /\ log = "returned"
  /\ main' = "ended"
  /\ UNCHANGED <<queueVars, left, shouldRun, log, sent, printed>>

\* run sets the flag, even if it was reset before the thread came to run.
Run ==
  /\ log = "started"
  /\ shouldRun' = TRUE
  /\ log' = "loop"
  /\ UNCHANGED <<queueVars, left, main, sent, printed>>

\* Variant: the flag, which is not atomic, is read once.
LoopForEver ==
  /\ log = "loop"
  /\ log' = "dequeue"
  /\ UNCHANGED <<queueVars, left, shouldRun, main, sent, printed>>

Loop ==
  /\ log = "loop"
  /\ log' = IF shouldRun THEN "dequeue" ELSE "drain"
  /\ UNCHANGED <<queueVars, left, shouldRun, main, sent, printed>>

\* A step of dequeue_with_timeout, called in the loop or after it.
InDequeue(step) ==
  /\ log \in {"dequeue", "drain"}
  /\ step
  /\ \/ waiter'["log"] # "away" /\ UNCHANGED log
     \/ waiter'["log"] = "away" /\ log = "dequeue" /\ log' = "print"
     \/ waiter'["log"] = "away" /\ log = "drain" /\ log' = "flush"
  /\ UNCHANGED <<left, shouldRun, main, sent, printed>>

Dequeue == InDequeue(Q!Call("log") \/ Q!Wake("log") \/ Q!SpuriousWake("log"))

GiveUp == InDequeue(Q!TimeOut("log"))

\* Variant: that there is no message is not noticed.
PrintBlank ==
  /\ log = "print"
  /\ printed' = Append(printed, message)
  /\ val' = [val EXCEPT !["log"] = None]
  /\ log' = "loop"
  /\ UNCHANGED <<queue, waiter, left, shouldRun, main, sent>>

\* The body of the loop has a message of its own in each turn.
PrintLine ==
  /\ log = "print"
  /\ printed' = IF message = None THEN printed ELSE Append(printed, message)
  /\ val' = [val EXCEPT !["log"] = None]
  /\ log' = "loop"
  /\ UNCHANGED <<queue, waiter, left, shouldRun, main, sent>>

\* Variant: msg is not cleared.
FlushAgain ==
  /\ log = "flush"
  /\ IF message = None
     THEN log' = "returned" /\ UNCHANGED printed
     ELSE log' = "drain" /\ printed' = Append(printed, message)
  /\ UNCHANGED <<queueVars, left, shouldRun, main, sent>>

\* Variant: one message is taken for the rest.
FlushOnce ==
  /\ log = "flush"
  /\ log' = "returned"
  /\ printed' = IF message = None THEN printed ELSE Append(printed, message)
  /\ val' = [val EXCEPT !["log"] = None]
  /\ UNCHANGED <<queue, waiter, left, shouldRun, main, sent>>

\* What is left in the queue is printed, until a call returns nothing.
Flush ==
  /\ log = "flush"
  /\ IF message = None
     THEN log' = "returned" /\ UNCHANGED printed
     ELSE log' = "drain" /\ printed' = Append(printed, message)
  /\ val' = [val EXCEPT !["log"] = None]
  /\ UNCHANGED <<queue, waiter, left, shouldRun, main, sent>>

Logger == Run \/ Loop \/ Dequeue \/ PrintLine \/ Flush

Next ==
  \/ \E p \in Producer : Log(p)
  \/ Stop
  \/ Join
  \/ Logger
  \/ GiveUp

Spec == Init /\ [][Next]_vars

\* Every thread goes on when it can; the time of a wait passes.
FairSpec ==
  /\ Spec
  /\ \A p \in Producer : WF_vars(Log(p))
  /\ WF_vars(Stop) /\ WF_vars(Join) /\ WF_vars(Logger) /\ WF_vars(GiveUp)

----------------------------------------------------------------------------
(* What makes logging correct. *)

\* The variables hold values of their types.
TypeOK ==
  /\ Q!QueueTypeOK
  /\ left \in [Producer -> 0 .. MaxMessages]
  /\ shouldRun \in BOOLEAN
  /\ log \in {"started", "loop", "dequeue", "print", "drain", "flush", "returned"}
  /\ main \in {"working", "join", "ended"}
  /\ sent \in Seq(Message)
  /\ printed \in Seq(Message)

InHand == IF message = None THEN <<>> ELSE <<message>>

\* Between the threads that log and the output no message is lost, printed twice or
\* overtaken: what was sent is what was printed, what is in hand, and what is queued.
MessagesKeepOrder == sent = printed \o InHand \o queue

\* The log thread does not sleep over a message: a wake-up is never lost, and the timeout is
\* not what keeps messages going.
NoSleepOverMessage == waiter["log"] = "asleep" => queue = <<>>

\* When the program ends every message has been printed.
AllIsPrinted == main = "ended" => printed = sent

\* The program gets past join, unless stop came before the log thread ran its first line:
\* then that thread sets the flag again and is joined for ever.
LogStops == <>(main = "ended" \/ (main = "join" /\ shouldRun))
============================================================================
