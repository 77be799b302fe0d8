------------------------ MODULE LogProcessor_proofs ------------------------
(***************************************************************************)
(* The log, for any number of threads and messages: messages keep their    *)
(* order, the log thread never sleeps over one, and none is left over.     *)
(***************************************************************************)
EXTENDS LogProcessor, TLAPS, SequenceTheorems

\* A message is in hand only between a call that took it and the step that prints it; when
\* the calls at the end find nothing, nothing more comes.
Draining ==
  /\ waiter["log"] # "away" => log \in {"dequeue", "drain"}
  /\ message # None => log \in {"print", "flush"}
  /\ log # "started" /\ ~shouldRun => main # "working"
  /\ log \in {"drain", "flush", "returned"} => main # "working"
  /\ log = "flush" /\ message = None => queue = <<>>
  /\ log = "returned" => queue = <<>>
  /\ main = "ended" => log = "returned"

\* That there is no message is told apart from every message.
LEMMA NoneIsNoMessage == None \notin Message
<1>1. \A m \in Message : m = <<m[1], m[2]>>
  BY DEF Message
<1>2. \A x, y : <<x, y>> # <<>>
  OBVIOUS
<1> QED
  BY <1>1, <1>2 DEF None

\* A sequence that is not empty is its head before its tail.
LEMMA HeadBeforeTail ==
  ASSUME NEW S, NEW s \in Seq(S), s # <<>>
  PROVE  Head(s) \in S /\ Tail(s) \in Seq(S) /\ s = <<Head(s)>> \o Tail(s)
<1>1. /\ Head(s) \in S /\ Tail(s) \in Seq(S) /\ Len(Tail(s)) = Len(s) - 1
      /\ \A i \in 1 .. Len(Tail(s)) : Tail(s)[i] = s[i + 1]
      /\ Len(s) \in Nat \ {0}
  BY HeadTailProperties, EmptySeq
<1>2. /\ <<Head(s)>> \in Seq(S) /\ Len(<<Head(s)>>) = 1 /\ <<Head(s)>>[1] = s[1]
  BY <1>1
<1>3. /\ <<Head(s)>> \o Tail(s) \in Seq(S)
      /\ Len(<<Head(s)>> \o Tail(s)) = Len(s)
      /\ \A i \in 1 .. Len(s) :
           (<<Head(s)>> \o Tail(s))[i] = IF i <= 1 THEN <<Head(s)>>[i] ELSE Tail(s)[i - 1]
  BY <1>1, <1>2, ConcatProperties
<1>4. ASSUME NEW i \in 1 .. Len(s) PROVE s[i] = (<<Head(s)>> \o Tail(s))[i]
  <2>1. CASE i = 1
    BY <1>1, <1>2, <1>3, <2>1
  <2>2. CASE i # 1
    <3>1. i - 1 \in 1 .. Len(Tail(s)) /\ ~(i <= 1) /\ (i - 1) + 1 = i
      BY <1>1, <2>2
    <3> QED
      BY <1>1, <1>3, <3>1
  <2> QED
    BY <2>1, <2>2
<1> QED
  BY <1>1, <1>3, <1>4, SeqEqual

\* The head of one sequence can move to the end of another.
LEMMA HeadMoves ==
  ASSUME NEW S, NEW s \in Seq(S), NEW t \in Seq(S), t # <<>>
  PROVE  s \o t = (s \o <<Head(t)>>) \o Tail(t)
<1>1. /\ <<Head(t)>> \in Seq(S) /\ Tail(t) \in Seq(S)
      /\ t = <<Head(t)>> \o Tail(t)
  BY HeadBeforeTail
<1>2. \A h, u \in Seq(S) : s \o (h \o u) = (s \o h) \o u
  BY ConcatAssociative
<1>3. s \o (<<Head(t)>> \o Tail(t)) = (s \o <<Head(t)>>) \o Tail(t)
  BY <1>1, <1>2, Zenon
<1> QED
  BY <1>1, <1>3, Zenon

\* What a step of dequeue_with_timeout does to the queue and to the message in hand.
LEMMA DequeueEffect ==
  ASSUME TypeOK, Dequeue \/ GiveUp
  PROVE  /\ UNCHANGED <<left, shouldRun, main, sent, printed>>
         /\ log \in {"dequeue", "drain"}
         /\ \/ log' = log /\ waiter'["log"] # "away"
            \/ log' = (IF log = "dequeue" THEN "print" ELSE "flush") /\ waiter'["log"] = "away"
         /\ waiter' \in [{"log"} -> {"away", "asleep", "awake"}]
         /\ \/ /\ queue # <<>>
               /\ message' = Head(queue) /\ queue' = Tail(queue)
               /\ val' \in [{"log"} -> Message \cup {None}]
               /\ waiter'["log"] = "away"
            \/ /\ UNCHANGED <<queue, val>>
               /\ waiter'["log"] \in {"away", "asleep"} => queue = <<>>
<1>1. /\ queue \in Seq(Message)
      /\ waiter \in [{"log"} -> {"away", "asleep", "awake"}]
      /\ val \in [{"log"} -> Message \cup {None}]
  BY DEF TypeOK, Q!QueueTypeOK
<1>2. /\ UNCHANGED <<left, shouldRun, main, sent, printed>>
      /\ log \in {"dequeue", "drain"}
      /\ \/ log' = log /\ waiter'["log"] # "away"
         \/ log' = (IF log = "dequeue" THEN "print" ELSE "flush") /\ waiter'["log"] = "away"
  BY DEF Dequeue, GiveUp, InDequeue
<1>3. CASE Q!Take("log")
  BY <1>1, <1>2, <1>3, HeadBeforeTail DEF Q!Take, message
<1>4. CASE Q!Sleep("log")
  BY <1>1, <1>2, <1>4 DEF Q!Sleep
<1>5. CASE Q!SpuriousWake("log")
  BY <1>1, <1>2, <1>5 DEF Q!SpuriousWake
<1>6. CASE waiter' = [waiter EXCEPT !["log"] = "away"] /\ queue = <<>> /\ UNCHANGED <<queue, val>>
  BY <1>1, <1>2, <1>6
<1> QED
  BY <1>3, <1>4, <1>5, <1>6
     DEF Dequeue, GiveUp, InDequeue, Q!Call, Q!Wake, Q!TimeOut

\* The variables of the log keep their types.
THEOREM LogTypeCorrect == Spec => []TypeOK
<1>1. Init => TypeOK
  <2> SUFFICES ASSUME Init PROVE TypeOK
    OBVIOUS
  <2>1. \A S : <<>> \in Seq(S)
    BY EmptySeq
  <2>2. shouldRun \in BOOLEAN
    BY Zenon DEF Init
  <2> QED
    BY <2>1, <2>2 DEF Init, Q!QueueInit, TypeOK, Q!QueueTypeOK
<1>2. TypeOK /\ [Next]_vars => TypeOK'
  <2> SUFFICES ASSUME TypeOK, [Next]_vars PROVE TypeOK'
    OBVIOUS
  <2>1. ASSUME NEW p \in Producer, Log(p) PROVE TypeOK'
    <3>1. /\ left \in [Producer -> 0 .. MaxMessages] /\ left[p] \in 1 .. MaxMessages
          /\ left' = [left EXCEPT ![p] = @ - 1]
      BY <2>1, LogAssumption DEF Log, TypeOK
    <3>2. <<p, left[p]>> \in Message
      BY <3>1 DEF Message
    <3>3. left[p] - 1 \in 0 .. MaxMessages
      BY <3>1, LogAssumption
    <3>4. left' \in [Producer -> 0 .. MaxMessages]
      BY <3>1, <3>3
    <3>5. queue' \in Seq(Message) /\ sent' \in Seq(Message)
      BY <2>1, <3>2, AppendProperties DEF Log, Q!Enqueue, TypeOK, Q!QueueTypeOK
    <3>6. waiter' \in [{"log"} -> {"away", "asleep", "awake"}] /\ UNCHANGED val
      BY <2>1 DEF Log, Q!Enqueue, TypeOK, Q!QueueTypeOK
    <3>7. UNCHANGED <<shouldRun, log, main, printed>>
      BY <2>1 DEF Log
    <3>8. shouldRun' \in BOOLEAN
      BY <3>7, Zenon DEF TypeOK
    <3> QED
      BY <3>4, <3>5, <3>6, <3>7, <3>8 DEF TypeOK, Q!QueueTypeOK
  <2>2. ASSUME Dequeue \/ GiveUp PROVE TypeOK'
    <3>1. shouldRun' \in BOOLEAN
      BY <2>2, DequeueEffect, Zenon DEF TypeOK
    <3>2. queue \in Seq(Message)
      BY DEF TypeOK, Q!QueueTypeOK
    <3>3. queue' = queue \/ (queue # <<>> /\ queue' = Tail(queue))
      BY <2>2, DequeueEffect
    <3>4. queue' \in Seq(Message)
      BY <3>2, <3>3, HeadBeforeTail
    <3> QED
      BY <2>2, <3>1, <3>4, DequeueEffect DEF TypeOK, Q!QueueTypeOK
  <2>3. ASSUME PrintLine \/ Flush PROVE TypeOK'
    <3>1. /\ UNCHANGED <<queue, waiter, left, shouldRun, main, sent>>
          /\ val' = [val EXCEPT !["log"] = None]
          /\ log' \in {"loop", "drain", "returned"}
      BY <2>3 DEF PrintLine, Flush
    <3>6. printed' = printed \/ (message # None /\ printed' = Append(printed, message))
      BY <2>3 DEF PrintLine, Flush
    <3>2. val' \in [{"log"} -> Message \cup {None}]
      BY <3>1 DEF TypeOK, Q!QueueTypeOK
    <3>3. message \in Message \cup {None}
      BY DEF TypeOK, Q!QueueTypeOK, message
    <3>4. printed' \in Seq(Message)
      BY <3>3, <3>6, AppendProperties DEF TypeOK
    <3>5. shouldRun' \in BOOLEAN
      BY <3>1, Zenon DEF TypeOK
    <3> QED
      BY <3>1, <3>2, <3>4, <3>5 DEF TypeOK, Q!QueueTypeOK
  <2>4. ASSUME Stop \/ Join \/ Run \/ Loop \/ UNCHANGED vars PROVE TypeOK'
    <3>1. UNCHANGED <<queueVars, left, sent, printed>>
      BY <2>4 DEF Stop, Join, Run, Loop, vars
    <3>2. shouldRun' \in BOOLEAN
      BY <2>4, Zenon DEF Stop, Join, Run, Loop, vars, TypeOK
    <3>3. log' \in {"started", "loop", "dequeue", "print", "drain", "flush", "returned"}
      BY <2>4 DEF Stop, Join, Run, Loop, vars, TypeOK
    <3>4. main' \in {"working", "join", "ended"}
      BY <2>4 DEF Stop, Join, Run, Loop, vars, TypeOK
    <3> QED
      BY <3>1, <3>2, <3>3, <3>4 DEF queueVars, TypeOK, Q!QueueTypeOK
  <2> QED
    BY <2>1, <2>2, <2>3, <2>4 DEF Next, Logger
<1> QED
  BY <1>1, <1>2, PTL DEF Spec

\* The log thread stops only when nothing is left to print.
LEMMA LogDrains == Spec => []Draining
<1>1. Init => Draining
  BY DEF Init, Q!QueueInit, Draining, message, None
<1>2. TypeOK /\ Draining /\ [Next]_vars => Draining'
  <2> SUFFICES ASSUME TypeOK, Draining, [Next]_vars PROVE Draining'
    OBVIOUS
  <2>1. ASSUME NEW p \in Producer, Log(p) PROVE Draining'
    <3>1. /\ main = "working"
          /\ UNCHANGED <<val, shouldRun, log, main>>
          /\ waiter'["log"] # "away" => waiter["log"] # "away"
      BY <2>1 DEF Log, Q!Enqueue
    <3> QED
      BY <3>1 DEF Draining, message
  <2>2. ASSUME Dequeue \/ GiveUp PROVE Draining'
    <3>1. CASE queue # <<>> /\ message' = Head(queue) /\ waiter'["log"] = "away"
      <4>1. message' # None
        BY <3>1, HeadBeforeTail, NoneIsNoMessage DEF TypeOK, Q!QueueTypeOK
      <4> QED
        BY <2>2, <3>1, <4>1, DequeueEffect DEF Draining
    <3>2. CASE UNCHANGED <<queue, val>> /\ (waiter'["log"] \in {"away", "asleep"} => queue = <<>>)
      BY <2>2, <3>2, DequeueEffect DEF Draining, message
    <3> QED
      BY <2>2, <3>1, <3>2, DequeueEffect
  <2>3. ASSUME PrintLine \/ Flush PROVE Draining'
    <3>1. message' = None
      BY <2>3 DEF PrintLine, Flush, TypeOK, Q!QueueTypeOK, message
    <3> QED
      BY <2>3, <3>1 DEF PrintLine, Flush, Draining
  <2>4. ASSUME Stop \/ Join \/ Run \/ Loop PROVE Draining'
    BY <2>4 DEF Stop, Join, Run, Loop, queueVars, Draining, message
  <2>5. ASSUME UNCHANGED vars PROVE Draining'
    BY <2>5 DEF vars, queueVars, Draining, message
  <2> QED
    BY <2>1, <2>2, <2>3, <2>4, <2>5 DEF Next, Logger
<1> QED
  BY <1>1, <1>2, LogTypeCorrect, PTL DEF Spec

\* Messages are printed in the order in which they were enqueued, none is lost or doubled.
THEOREM LogKeepsOrder == Spec => []MessagesKeepOrder
<1>1. Init => MessagesKeepOrder
  BY DEF Init, Q!QueueInit, MessagesKeepOrder, InHand, message, None
<1>2. TypeOK /\ Draining /\ MessagesKeepOrder /\ [Next]_vars => MessagesKeepOrder'
  <2> SUFFICES ASSUME TypeOK, Draining, MessagesKeepOrder, [Next]_vars
               PROVE  MessagesKeepOrder'
    OBVIOUS
  <2>1. /\ printed \in Seq(Message) /\ queue \in Seq(Message) /\ InHand \in Seq(Message)
        /\ sent = (printed \o InHand) \o queue
    <3>1. message = None \/ message \in Message
      BY DEF TypeOK, Q!QueueTypeOK, message
    <3>2. <<>> \in Seq(Message) /\ (message \in Message => <<message>> \in Seq(Message))
      BY EmptySeq
    <3> QED
      BY <3>1, <3>2 DEF InHand, MessagesKeepOrder, TypeOK, Q!QueueTypeOK
  <2>2. ASSUME NEW p \in Producer, Log(p) PROVE MessagesKeepOrder'
    <3> DEFINE m == <<p, left[p]>>
    <3>1. m \in Message
      BY <2>2, LogAssumption DEF Log, TypeOK, Message
    <3>2. queue' = Append(queue, m) /\ sent' = Append(sent, m) /\ UNCHANGED <<val, printed>>
      BY <2>2 DEF Log, Q!Enqueue
    <3> HIDE DEF m
    <3>3. printed \o InHand \in Seq(Message) /\ sent \in Seq(Message) /\ <<m>> \in Seq(Message)
      BY <2>1, <3>1, ConcatProperties
    <3>4. Append(queue, m) = queue \o <<m>> /\ Append(sent, m) = sent \o <<m>>
      BY <2>1, <3>1, <3>3, AppendIsConcat
    <3>5. sent \o <<m>> = (printed \o InHand) \o (queue \o <<m>>)
      BY <2>1, <3>3, ConcatAssociative
    <3> QED
      BY <3>2, <3>4, <3>5 DEF MessagesKeepOrder, InHand, message
  <2>3. ASSUME Dequeue \/ GiveUp PROVE MessagesKeepOrder'
    <3>1. CASE queue # <<>> /\ message' = Head(queue) /\ queue' = Tail(queue)
      <4>1. InHand = <<>> /\ printed' = printed /\ sent' = sent
        BY <2>3, DequeueEffect DEF Draining, InHand
      <4>2. Head(queue) \in Message
        BY <2>1, <3>1, HeadBeforeTail
      <4>3. InHand' = <<Head(queue)>>
        BY <3>1, <4>2, NoneIsNoMessage DEF InHand
      <4>4. printed \o InHand = printed
        BY <2>1, <4>1, ConcatEmptySeq
      <4>5. printed \o queue = (printed \o <<Head(queue)>>) \o Tail(queue)
        BY <2>1, <3>1, HeadMoves
      <4> QED
        BY <2>1, <3>1, <4>1, <4>3, <4>4, <4>5 DEF MessagesKeepOrder
    <3>2. CASE UNCHANGED <<queue, val>>
      BY <2>3, <3>2, DequeueEffect DEF MessagesKeepOrder, InHand, message
    <3> QED
      BY <2>3, <3>1, <3>2, DequeueEffect
  <2>4. ASSUME PrintLine \/ Flush PROVE MessagesKeepOrder'
    <3>1. /\ UNCHANGED <<queue, sent>>
          /\ printed' = IF message = None THEN printed ELSE Append(printed, message)
          /\ message' = None
      BY <2>4 DEF PrintLine, Flush, TypeOK, Q!QueueTypeOK, message
    <3>2. InHand' = <<>>
      BY <3>1 DEF InHand
    <3>3. printed' = printed \o InHand
      <4>1. CASE message = None
        BY <2>1, <3>1, <4>1, ConcatEmptySeq DEF InHand
      <4>2. CASE message # None
        BY <2>1, <3>1, <4>2, AppendIsConcat DEF InHand, TypeOK, Q!QueueTypeOK, message
      <4> QED
        BY <4>1, <4>2
    <3>4. printed' \in Seq(Message)
      BY <2>1, <3>3, ConcatProperties
    <3>5. printed' \o <<>> = printed'
      BY <3>4, ConcatEmptySeq
    <3> QED
      BY <2>1, <3>1, <3>2, <3>3, <3>5 DEF MessagesKeepOrder
  <2>5. ASSUME Stop \/ Join \/ Run \/ Loop \/ UNCHANGED vars PROVE MessagesKeepOrder'
    BY <2>5 DEF Stop, Join, Run, Loop, vars, queueVars, MessagesKeepOrder, InHand, message
  <2> QED
    BY <2>2, <2>3, <2>4, <2>5 DEF Next, Logger
<1> QED
  BY <1>1, <1>2, LogTypeCorrect, LogDrains, PTL DEF Spec

\* The log thread is never asleep while there is a message: no wake-up is lost.
THEOREM LogNeverOversleeps == Spec => []NoSleepOverMessage
<1>1. Init => NoSleepOverMessage
  BY DEF Init, Q!QueueInit, NoSleepOverMessage
<1>2. TypeOK /\ NoSleepOverMessage /\ [Next]_vars => NoSleepOverMessage'
  <2> SUFFICES ASSUME TypeOK, NoSleepOverMessage, [Next]_vars PROVE NoSleepOverMessage'
    OBVIOUS
  <2>1. ASSUME NEW p \in Producer, Log(p) PROVE NoSleepOverMessage'
    <3>1. waiter'["log"] # "asleep"
      BY <2>1 DEF Log, Q!Enqueue
    <3> QED
      BY <3>1 DEF NoSleepOverMessage
  <2>2. ASSUME Dequeue \/ GiveUp PROVE NoSleepOverMessage'
    BY <2>2, DequeueEffect DEF NoSleepOverMessage
  <2>3. ASSUME UNCHANGED <<queue, waiter>> PROVE NoSleepOverMessage'
    BY <2>3 DEF NoSleepOverMessage
  <2> QED
    BY <2>1, <2>2, <2>3
       DEF Next, Logger, Stop, Join, Run, Loop, PrintLine, Flush, vars, queueVars
<1> QED
  BY <1>1, <1>2, LogTypeCorrect, PTL DEF Spec

\* Whoever gets past join has everything printed that was ever logged.
THEOREM LogPrintsAll == Spec => []AllIsPrinted
<1>1. TypeOK /\ Draining /\ MessagesKeepOrder => AllIsPrinted
  <2> SUFFICES ASSUME TypeOK, Draining, MessagesKeepOrder, main = "ended" PROVE printed = sent
    BY DEF AllIsPrinted
  <2>1. InHand = <<>> /\ queue = <<>>
    BY DEF Draining, InHand
  <2>2. printed \o <<>> = printed
    BY ConcatEmptySeq DEF TypeOK
  <2> QED
    BY <2>1, <2>2 DEF MessagesKeepOrder
<1> QED
  BY <1>1, LogTypeCorrect, LogDrains, LogKeepsOrder, PTL
============================================================================
