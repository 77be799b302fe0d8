--------------------------- MODULE SignalChannel ---------------------------
(***************************************************************************)
(* The SignalChannel through which a SIGINT ends the program.  A detached  *)
(* thread takes the signal, stores m_shutdown_requested and notifies m_cv; *)
(* the worker threads test the flag in a wait_for of ten milliseconds.     *)
(*                                                                         *)
(* The handler stores the flag without holding m_cv_mutex.  A thread that  *)
(* has tested the flag and does not sleep yet is therefore a state of its  *)
(* own: what is notified then does not reach it.                           *)
(***************************************************************************)

CONSTANT Thread  \* the threads that wait on m_cv

VARIABLES
  pending,   \* a SIGINT was sent and has not been taken
  handler,   \* how far the signal handler thread has come
  shutdown,  \* m_shutdown_requested
  sleeper    \* sleeper[t]: where t is in wait_for

channelVars == <<pending, handler, shutdown, sleeper>>

ChannelInit ==
  /\ pending = FALSE
  /\ handler = "waiting"
  /\ shutdown = FALSE
  /\ sleeper = [t \in Thread |-> "awake"]

\* kill(getpid(), SIGINT), or Ctrl-C.
Interrupt == pending' = TRUE

TakeSignal ==
  /\ handler = "waiting"
  /\ pending
  /\ pending' = FALSE
  /\ shutdown' = TRUE
  /\ handler' = "stored"
  /\ UNCHANGED sleeper

NotifyAll ==
  /\ handler = "stored"
  /\ sleeper' = [t \in Thread |-> IF sleeper[t] = "asleep" THEN "awake" ELSE sleeper[t]]
  /\ handler' = "returned"
  /\ UNCHANGED <<pending, shutdown>>

\* Only one thread at a time holds m_cv_mutex, from its test until it sleeps.
Unlocked == \A t \in Thread : sleeper[t] # "tested"

\* wait_for finds the flag unset.
BeginWait(t) ==
  /\ sleeper[t] = "awake"
  /\ Unlocked
  /\ ~shutdown
  /\ sleeper' = [sleeper EXCEPT ![t] = "tested"]
  /\ UNCHANGED <<pending, handler, shutdown>>

FallAsleep(t) ==
  /\ sleeper[t] = "tested"
  /\ sleeper' = [sleeper EXCEPT ![t] = "asleep"]
  /\ UNCHANGED <<pending, handler, shutdown>>

\* Variant: wait in the place of wait_for.
NoTimeout(t) == FALSE /\ UNCHANGED channelVars

\* Ten milliseconds have passed.
Timeout(t) ==
  /\ sleeper[t] = "asleep"
  /\ Unlocked
  /\ sleeper' = [sleeper EXCEPT ![t] = "awake"]
  /\ UNCHANGED <<pending, handler, shutdown>>

ChannelTypeOK ==
  /\ pending \in BOOLEAN
  /\ handler \in {"waiting", "stored", "returned"}
  /\ shutdown \in BOOLEAN
  /\ sleeper \in [Thread -> {"awake", "tested", "asleep"}]
============================================================================
