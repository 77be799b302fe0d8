----------------------------- MODULE SafeQueue -----------------------------
(***************************************************************************)
(* SafeQueue: a std::queue under a mutex, with a condition variable on     *)
(* which consumers wait for the next element, for a limited time.          *)
(*                                                                         *)
(* What a call does while it holds m_mutex is one step.  A consumer gives  *)
(* the mutex up only inside wait_for, where it sleeps until a notification *)
(* wakes it or its time is over, and needs the mutex to go on.             *)
(***************************************************************************)
EXTENDS Sequences

CONSTANTS Consumer, Item, Nothing

VARIABLES
  queue,   \* m_queue
  waiter,  \* waiter[c]: consumer c is away from the queue, or in wait_for asleep or awake
  val      \* val[c]: the variable that c has its element put into

queueVars == <<queue, waiter, val>>

QueueInit ==
  /\ queue = <<>>
  /\ waiter = [c \in Consumer |-> "away"]
  /\ val = [c \in Consumer |-> Nothing]

\* Variant: the consumers are not told.
EnqueueSilently(x) ==
  /\ queue' = Append(queue, x)
  /\ UNCHANGED <<waiter, val>>

\* enqueue, with notify_all.
Enqueue(x) ==
  /\ queue' = Append(queue, x)
  /\ waiter' = [c \in Consumer |-> IF waiter[c] = "asleep" THEN "awake" ELSE waiter[c]]
  /\ UNCHANGED val

Take(c) ==
  /\ queue # <<>>
  /\ val' = [val EXCEPT ![c] = Head(queue)]
  /\ queue' = Tail(queue)
  /\ waiter' = [waiter EXCEPT ![c] = "away"]

\* The predicate of wait_for is false.
Sleep(c) ==
  /\ queue = <<>>
  /\ waiter' = [waiter EXCEPT ![c] = "asleep"]
  /\ UNCHANGED <<queue, val>>

\* dequeue_with_timeout is called.
Call(c) == waiter[c] = "away" /\ (Take(c) \/ Sleep(c))

\* A condition variable may wake a consumer without a notification.
SpuriousWake(c) ==
  /\ waiter[c] = "asleep"
  /\ waiter' = [waiter EXCEPT ![c] = "awake"]
  /\ UNCHANGED <<queue, val>>

\* A consumer that woke has the mutex again, and tests the predicate again.
Wake(c) == waiter[c] = "awake" /\ (Take(c) \/ Sleep(c))

\* The time of the call is over: it takes what there is now, and otherwise leaves val alone.
TimeOut(c) ==
  /\ waiter[c] # "away"
  /\ \/ Take(c)
     \/ /\ queue = <<>>
        /\ waiter' = [waiter EXCEPT ![c] = "away"]
        /\ UNCHANGED <<queue, val>>

QueueTypeOK ==
  /\ queue \in Seq(Item)
  /\ waiter \in [Consumer -> {"away", "asleep", "awake"}]
  /\ val \in [Consumer -> Item \cup {Nothing}]
============================================================================
