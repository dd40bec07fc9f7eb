-------------------------- MODULE DispatcherProofs --------------------------
(* Proofs about the alert dispatcher, for any sinks, callers, closers and  *)
(* queue depth: what the read-write lock buys, that the dispatcher         *)
(* implements AlertDelivery, and that it accounts for every alert once.    *)
EXTENDS Dispatcher, FiniteSetTheorems, TLAPS

(* Channels are closed together with the dispatcher, and nobody is in      *)
(* Dispatch by then.                                                       *)
ClosedTogether ==
    /\ qclosed # {} => closed
    /\ readers # {} => ~closed
    /\ \A m \in Closers : closer[m] = "wait" => closed
    /\ \A c \in readers : count[c] > 0

(* Every alert that has been taken has a worker, and a registered sink has *)
(* one until the dispatcher is closed; sinks are closed after the workers. *)
WorkersStay ==
    /\ \A s \in Sinks : queue[s] # <<>> \/ hand[s] # NoAlert => s \in running
    /\ ~closed => \A i \in DOMAIN workers : workers[i] \in running
    /\ sinkClosed # {} => closed /\ running = {}

DispatchInv == TypeOK /\ ClosedTogether /\ WorkersStay

(* The placeholder for an empty hand is not an alert.                      *)
LEMMA NoAlertIsNone == NoAlert \notin Alerts
<1>1. \A p \in Callers \X (1..MaxAlerts) : DOMAIN p = 1..2 OBVIOUS
<1>2. DOMAIN <<>> = {} OBVIOUS
<1>3. 1 \in 1..2 OBVIOUS
<1>4. QED BY <1>1, <1>2, <1>3 DEF NoAlert, Alerts

(* A new dispatcher has no workers and no alerts.                          *)
LEMMA DispatchInitially == Init => DispatchInv
<1> SUFFICES ASSUME Init PROVE DispatchInv OBVIOUS
<1> USE DispatcherAssumption DEF DispatcherAssumption, Init
<1>1. TypeOK
  <2>1. workers \in Seq(Sinks) /\ queue \in [Sinks -> Seq(Alerts)] /\ sent \in [Sinks -> Seq(Alerts)]
    OBVIOUS
  <2>2. \A s \in Sinks : Len(queue[s]) <= QueueDepth OBVIOUS
  <2>3. hand \in [Sinks -> Alerts \cup {NoAlert}] /\ at \in [Callers -> Nat]
        /\ count \in [Callers -> 0..MaxAlerts]
    OBVIOUS
  <2>4. closer \in [Closers -> {"start", "lock", "wait", "returned"}]
        /\ dropped \in [Sinks -> SUBSET Alerts]
    OBVIOUS
  <2>5. QED BY <2>1, <2>2, <2>3, <2>4 DEF TypeOK
<1>2. ClosedTogether /\ WorkersStay BY DEF ClosedTogether, WorkersStay
<1>3. QED BY <1>1, <1>2 DEF DispatchInv

(* A call of Dispatch is for an alert of its caller.                       *)
LEMMA CurrentIsAlert ==
    ASSUME TypeOK, NEW c \in Callers, count[c] > 0 PROVE Current(c) \in Alerts
<1>1. count[c] \in 1..MaxAlerts BY DispatcherAssumption DEF DispatcherAssumption, TypeOK
<1>2. QED BY <1>1 DEF Current, Alerts

(* Every step keeps the invariant.                                         *)
LEMMA DispatchInductive == DispatchInv /\ [Next]_vars => DispatchInv'
<1> SUFFICES ASSUME DispatchInv, [Next]_vars PROVE DispatchInv' OBVIOUS
<1> USE DispatcherAssumption DEF DispatcherAssumption
<1>t. TypeOK /\ ClosedTogether /\ WorkersStay BY DEF DispatchInv
<1>1. ASSUME NEW s \in Sinks, Register(s) PROVE DispatchInv'
  <2>1. TypeOK' BY <1>t, <1>1 DEF Register, TypeOK, lockVars
  <2>2. ClosedTogether' BY <1>t, <1>1 DEF Register, ClosedTogether, lockVars
  <2>3. \A i \in DOMAIN workers' : workers'[i] \in running'
    <3>1. SUFFICES ASSUME NEW i \in DOMAIN workers' PROVE workers'[i] \in running' OBVIOUS
    <3>2. workers \in Seq(Sinks) /\ workers' = Append(workers, s) /\ running' = running \cup {s}
      BY <1>t, <1>1 DEF Register, TypeOK
    <3>3. i \in DOMAIN workers \/ i = Len(workers) + 1 BY <3>2
    <3>4. CASE i \in DOMAIN workers
      <4>1. workers'[i] = workers[i] BY <3>2, <3>4
      <4>2. QED BY <1>t, <1>1, <3>2, <3>4, <4>1 DEF Register, WorkersStay
    <3>5. CASE i = Len(workers) + 1 BY <3>2, <3>5
    <3>6. QED BY <3>3, <3>4, <3>5
  <2>4. WorkersStay' BY <1>t, <1>1, <2>3 DEF Register, WorkersStay, lockVars
  <2>5. QED BY <2>1, <2>2, <2>4 DEF DispatchInv
<1>2. ASSUME NEW c \in Callers, BeginDispatch(c) PROVE DispatchInv'
  <2>1. TypeOK' BY <1>t, <1>2 DEF BeginDispatch, TypeOK, workerVars
  <2>2. ClosedTogether' BY <1>t, <1>2 DEF BeginDispatch, TypeOK, ClosedTogether, workerVars
  <2>3. WorkersStay' BY <1>t, <1>2 DEF BeginDispatch, WorkersStay, workerVars
  <2>4. QED BY <2>1, <2>2, <2>3 DEF DispatchInv
<1>3. ASSUME NEW c \in Callers, enqueue(c) PROVE DispatchInv'
  <2> DEFINE s == workers[at[c] + 1]
  <2>1. s \in Sinks /\ s \in running /\ ~closed
    BY <1>t, <1>3 DEF enqueue, TypeOK, ClosedTogether, WorkersStay
  <2> HIDE DEF s
  <2>2. Current(c) \in Alerts BY <1>t, <1>3, CurrentIsAlert DEF enqueue, ClosedTogether
  <2>3. UNCHANGED <<workers, closed, readers, waiting, qclosed, hand, running, sent, count, closer, sinkClosed>>
    BY <1>3 DEF enqueue, lockVars
  <2>4. at' \in [Callers -> Nat] BY <1>t, <1>3 DEF enqueue, TypeOK
  <2>5. CASE HasRoom(s)
    <3>1. queue' = [queue EXCEPT ![s] = Append(@, Current(c))] /\ UNCHANGED dropped
      BY <1>3, <2>5 DEF enqueue, s
    <3>2. TypeOK'
      <4>1. queue[s] \in Seq(Alerts) /\ Len(queue[s]) < QueueDepth
        BY <1>t, <2>1, <2>5 DEF TypeOK, HasRoom
      <4>2. Append(queue[s], Current(c)) \in Seq(Alerts)
            /\ Len(Append(queue[s], Current(c))) = Len(queue[s]) + 1
        BY <2>2, <4>1
      <4>3. Len(Append(queue[s], Current(c))) <= QueueDepth BY <4>1, <4>2
      <4>4. \A t \in Sinks : queue'[t] = IF t = s THEN Append(queue[s], Current(c)) ELSE queue[t]
        BY <1>t, <2>1, <3>1 DEF TypeOK
      <4>5. queue' \in [Sinks -> Seq(Alerts)] BY <1>t, <2>1, <3>1, <4>2 DEF TypeOK
      <4>6. \A t \in Sinks : Len(queue'[t]) <= QueueDepth BY <1>t, <4>3, <4>4 DEF TypeOK
      <4>7. QED BY <1>t, <2>3, <2>4, <3>1, <4>5, <4>6 DEF TypeOK
    <3>3. WorkersStay' BY <1>t, <2>1, <2>3, <3>1 DEF TypeOK, WorkersStay
    <3>4. QED BY <1>t, <2>3, <3>2, <3>3 DEF DispatchInv, ClosedTogether
  <2>6. CASE ~HasRoom(s)
    <3>1. dropped' = [dropped EXCEPT ![s] = @ \cup {Current(c)}] /\ UNCHANGED queue
      BY <1>3, <2>6 DEF enqueue, CountDrop, s
    <3>2. TypeOK' BY <1>t, <2>1, <2>2, <2>3, <2>4, <3>1 DEF TypeOK
    <3>3. QED BY <1>t, <2>3, <3>1, <3>2 DEF DispatchInv, ClosedTogether, WorkersStay
  <2>7. QED BY <2>5, <2>6
<1>4. ASSUME NEW c \in Callers, EndDispatch(c) PROVE DispatchInv'
  <2>1. TypeOK' BY <1>t, <1>4 DEF EndDispatch, TypeOK, workerVars
  <2>2. ClosedTogether' BY <1>t, <1>4 DEF EndDispatch, ClosedTogether, workerVars
  <2>3. WorkersStay' BY <1>t, <1>4 DEF EndDispatch, WorkersStay, workerVars
  <2>4. QED BY <2>1, <2>2, <2>3 DEF DispatchInv
<1>5. ASSUME NEW s \in Sinks, Receive(s) PROVE DispatchInv'
  <2>1. TypeOK'
    <3>1. Head(queue[s]) \in Alerts /\ Tail(queue[s]) \in Seq(Alerts)
          /\ Len(Tail(queue[s])) <= QueueDepth
      BY <1>t, <1>5 DEF Receive, TypeOK
    <3>2. QED BY <1>t, <1>5, <3>1 DEF Receive, TypeOK, lockVars
  <2>2. ClosedTogether' BY <1>t, <1>5 DEF Receive, ClosedTogether, lockVars
  <2>3. WorkersStay' BY <1>t, <1>5 DEF Receive, TypeOK, WorkersStay, lockVars
  <2>4. QED BY <2>1, <2>2, <2>3 DEF DispatchInv
<1>6. ASSUME NEW s \in Sinks, Send(s) PROVE DispatchInv'
  <2>1. TypeOK'
    <3>1. hand[s] \in Alerts BY <1>t, <1>6 DEF Send, TypeOK
    <3>2. QED BY <1>t, <1>6, <3>1 DEF Send, TypeOK, lockVars
  <2>2. ClosedTogether' BY <1>t, <1>6 DEF Send, ClosedTogether, lockVars
  <2>3. WorkersStay' BY <1>t, <1>6 DEF Send, TypeOK, WorkersStay, lockVars
  <2>4. QED BY <2>1, <2>2, <2>3 DEF DispatchInv
<1>7. ASSUME NEW s \in Sinks, Return(s) PROVE DispatchInv'
  <2>1. TypeOK' BY <1>t, <1>7 DEF Return, TypeOK, lockVars
  <2>2. ClosedTogether' BY <1>t, <1>7 DEF Return, ClosedTogether, lockVars
  <2>3. closed BY <1>t, <1>7 DEF Return, Drained, ClosedTogether
  <2>4. WorkersStay' BY <1>t, <1>7, <2>3 DEF Return, Drained, WorkersStay, lockVars
  <2>5. QED BY <2>1, <2>2, <2>4 DEF DispatchInv
<1>8. ASSUME NEW m \in Closers, AnnounceClose(m) PROVE DispatchInv'
  <2>1. TypeOK' BY <1>t, <1>8 DEF AnnounceClose, TypeOK, workerVars
  <2>2. ClosedTogether' BY <1>t, <1>8 DEF AnnounceClose, TypeOK, ClosedTogether, workerVars
  <2>3. WorkersStay' BY <1>t, <1>8 DEF AnnounceClose, WorkersStay, workerVars
  <2>4. QED BY <2>1, <2>2, <2>3 DEF DispatchInv
<1>9. ASSUME NEW m \in Closers, CloseQueues(m) PROVE DispatchInv'
  <2>1. Registered \subseteq Sinks BY <1>t DEF TypeOK, Registered
  <2>2. readers = {} /\ UNCHANGED <<workers, readers, queue, hand, running, at, count, sent, dropped, sinkClosed>>
        /\ waiting' = Nobody
    BY <1>9 DEF CloseQueues, HoldsLock
  <2>3. CASE closed
    <3>1. UNCHANGED <<closed, qclosed>> /\ closer' = [closer EXCEPT ![m] = "returned"]
      BY <1>9, <2>3 DEF CloseQueues
    <3>2. TypeOK' BY <1>t, <2>2, <3>1 DEF TypeOK
    <3>3. QED BY <1>t, <2>2, <3>1, <3>2 DEF DispatchInv, TypeOK, ClosedTogether, WorkersStay
  <2>4. CASE ~closed
    <3>1. closed' = TRUE /\ qclosed' = Registered /\ closer' = [closer EXCEPT ![m] = "wait"]
      BY <1>9, <2>4 DEF CloseQueues, QueuesToClose
    <3>2. TypeOK' BY <1>t, <2>1, <2>2, <3>1 DEF TypeOK
    <3>3. QED BY <1>t, <2>2, <2>4, <3>1, <3>2 DEF DispatchInv, ClosedTogether, WorkersStay
  <2>5. QED BY <2>3, <2>4
<1>10. ASSUME NEW m \in Closers, NEW s \in Sinks, CloseSink(m, s) PROVE DispatchInv'
  <2>1. TypeOK' BY <1>t, <1>10 DEF CloseSink, TypeOK, lockVars, workerVars
  <2>2. ClosedTogether' BY <1>t, <1>10 DEF CloseSink, ClosedTogether, lockVars, workerVars
  <2>3. WorkersStay'
    BY <1>t, <1>10 DEF CloseSink, WorkersReturned, ClosedTogether, WorkersStay, lockVars, workerVars
  <2>4. QED BY <2>1, <2>2, <2>3 DEF DispatchInv
<1>11. ASSUME NEW m \in Closers, CloseReturns(m) PROVE DispatchInv'
  <2>1. TypeOK' BY <1>t, <1>11 DEF CloseReturns, TypeOK, lockVars, workerVars
  <2>2. ClosedTogether' BY <1>t, <1>11 DEF CloseReturns, TypeOK, ClosedTogether, lockVars, workerVars
  <2>3. WorkersStay' BY <1>t, <1>11 DEF CloseReturns, WorkersStay, lockVars, workerVars
  <2>4. QED BY <2>1, <2>2, <2>3 DEF DispatchInv
<1>12. CASE UNCHANGED vars
  BY <1>t, <1>12 DEF DispatchInv, TypeOK, ClosedTogether, WorkersStay, vars, lockVars, workerVars
<1>13. QED
  BY <1>1, <1>2, <1>3, <1>4, <1>5, <1>6, <1>7, <1>8, <1>9, <1>10, <1>11, <1>12
  DEF Next, Dispatch, run, Close

(* Every variable of the dispatcher keeps its type, and no queue grows     *)
(* past queueDepth.                                                        *)
THEOREM TypeCorrect == Spec => []TypeOK
<1>1. DispatchInv => TypeOK BY DEF DispatchInv
<1>2. QED BY <1>1, DispatchInitially, DispatchInductive, PTL DEF Spec

(* Dispatch never meets a closed channel, however it interleaves with      *)
(* Register and with any number of calls of Close.                         *)
THEOREM NoSendOnClosed == Spec => []NoSendOnClosedQueue
<1>1. DispatchInv => NoSendOnClosedQueue
  BY DEF DispatchInv, ClosedTogether, NoSendOnClosedQueue
<1>2. QED BY <1>1, DispatchInitially, DispatchInductive, PTL DEF Spec

-----------------------------------------------------------------------------
(* What a worker holds, and what a sink is owed (the refinement mapping).  *)
Held(s) == IF hand[s] = NoAlert THEN <<>> ELSE <<hand[s]>>
Owed == [s \in Sinks |-> Held(s) \o queue[s]]
AbstractVars == <<Owed, sent, dropped, ~closed, sinkClosed>>

(* What a worker holds is a sequence of at most one alert.                 *)
LEMMA HeldIsSeq == ASSUME TypeOK, NEW s \in Sinks PROVE Held(s) \in Seq(Alerts)
<1>1. CASE hand[s] = NoAlert BY <1>1 DEF Held
<1>2. CASE hand[s] # NoAlert
  <2>1. hand[s] \in Alerts BY <1>2 DEF TypeOK
  <2>2. QED BY <1>2, <2>1 DEF Held
<1>3. QED BY <1>1, <1>2

(* A sink is owed nothing when its queue and its worker's hand are empty.  *)
LEMMA OwedNothing ==
    ASSUME TypeOK, NEW s \in Sinks, hand[s] = NoAlert, queue[s] = <<>> PROVE Owed[s] = <<>>
BY DEF Owed, Held

(* An alert put into the queue is owed last.                               *)
LEMMA AppendOwed ==
    ASSUME NEW S, NEW h \in Seq(S), NEW q \in Seq(S), NEW a \in S
    PROVE  h \o Append(q, a) = Append(h \o q, a)
OBVIOUS

(* A worker that takes the head of its queue changes nothing that is owed. *)
LEMMA TakeOwed ==
    ASSUME NEW S, NEW q \in Seq(S), q # <<>> PROVE <<Head(q)>> \o Tail(q) = <<>> \o q
OBVIOUS

(* The alert in a worker's hand is the first that is owed.                 *)
LEMMA HandFirst ==
    ASSUME NEW S, NEW q \in Seq(S), NEW a \in S
    PROVE  Head(<<a>> \o q) = a /\ Tail(<<a>> \o q) = q /\ <<a>> \o q # <<>>
OBVIOUS

(* Nothing in front of a queue is the queue.                               *)
LEMMA EmptyFront == ASSUME NEW S, NEW q \in Seq(S) PROVE <<>> \o q = q
OBVIOUS

(* Two owed functions are equal when they are at every sink.               *)
LEMMA OwedUnchanged ==
    ASSUME UNCHANGED <<hand, queue>> PROVE Owed' = Owed
BY DEF Owed, Held

(* Every step of the dispatcher is a step of AlertDelivery or invisible to *)
(* it.                                                                     *)
LEMMA StepRefines ==
    DispatchInv /\ DispatchInv' /\ [Next]_vars => [Delivery!Next]_(Delivery!vars)
<1> SUFFICES ASSUME DispatchInv, DispatchInv', [Next]_vars
             PROVE  [Delivery!Next]_(Delivery!vars)
  OBVIOUS
<1> USE DispatcherAssumption DEF DispatcherAssumption
<1>t. TypeOK /\ TypeOK' /\ ClosedTogether /\ WorkersStay BY DEF DispatchInv
<1>v. UNCHANGED AbstractVars => UNCHANGED Delivery!vars
  BY DEF AbstractVars, Owed, Held, Delivery!vars
<1>1. ASSUME NEW c \in Callers, enqueue(c) PROVE Delivery!Next
  <2> DEFINE s == workers[at[c] + 1]
  <2>1. s \in Sinks /\ ~closed
    BY <1>t, <1>1 DEF enqueue, TypeOK, ClosedTogether
  <2> HIDE DEF s
  <2>2. Current(c) \in Alerts BY <1>t, <1>1, CurrentIsAlert DEF enqueue, ClosedTogether
  <2>3. UNCHANGED <<closed, hand, sent, sinkClosed>> BY <1>1 DEF enqueue, lockVars
  <2>4. CASE HasRoom(s)
    <3>1. queue' = [queue EXCEPT ![s] = Append(@, Current(c))] /\ UNCHANGED dropped
      BY <1>1, <2>4 DEF enqueue, s
    <3>2. Owed' = [Owed EXCEPT ![s] = Append(@, Current(c))]
      <4>1. queue[s] \in Seq(Alerts) /\ Held(s) \in Seq(Alerts)
        BY <1>t, <2>1, HeldIsSeq DEF TypeOK
      <4>2. Held(s) \o Append(queue[s], Current(c)) = Append(Held(s) \o queue[s], Current(c))
        BY <2>2, <4>1, AppendOwed
      <4>3. \A t \in Sinks : Held(t)' = Held(t) BY <2>3 DEF Held
      <4>4. \A t \in Sinks : queue'[t] = IF t = s THEN Append(queue[s], Current(c)) ELSE queue[t]
        BY <1>t, <2>1, <3>1 DEF TypeOK
      <4>5. Owed' = [t \in Sinks |-> Held(t)' \o queue'[t]] BY DEF Owed
      <4>6. QED BY <2>1, <4>2, <4>3, <4>4, <4>5 DEF Owed
    <3>3. Delivery!Take(s, Current(c))
      BY <2>1, <2>3, <3>1, <3>2 DEF Delivery!Take, Owed, Held
    <3>4. PICK t \in Sinks, a \in Alerts : t = s /\ a = Current(c) BY <2>1, <2>2
    <3>5. Delivery!Take(t, a) BY <3>3, <3>4 DEF Delivery!Take
    <3>6. QED BY <3>5 DEF Delivery!Next
  <2>5. CASE ~HasRoom(s)
    <3>1. dropped' = [dropped EXCEPT ![s] = @ \cup {Current(c)}] /\ UNCHANGED queue
      BY <1>1, <2>5 DEF enqueue, CountDrop, s
    <3>2. Len(Owed[s]) >= QueueDepth
      <4>1. queue[s] \in Seq(Alerts) /\ Held(s) \in Seq(Alerts)
        BY <1>t, <2>1, HeldIsSeq DEF TypeOK
      <4>2. Len(Held(s) \o queue[s]) = Len(Held(s)) + Len(queue[s]) BY <4>1
      <4>3. Len(queue[s]) >= QueueDepth BY <2>5, <4>1 DEF HasRoom
      <4>4. Len(Held(s)) \in Nat /\ Len(queue[s]) \in Nat BY <4>1
      <4>5. QED BY <2>1, <4>2, <4>3, <4>4 DEF Owed
    <3>3. Owed' = Owed BY <2>3, <3>1, OwedUnchanged
    <3>4. Delivery!Drop(s, Current(c))
      BY <2>1, <2>3, <3>1, <3>2, <3>3 DEF Delivery!Drop, Owed, Held
    <3>5. QED BY <2>1, <2>2, <3>4 DEF Delivery!Next
  <2>6. QED BY <2>4, <2>5
<1>2. ASSUME NEW s \in Sinks, Receive(s) PROVE UNCHANGED Delivery!vars
  <2>1. queue[s] \in Seq(Alerts) /\ queue[s] # <<>> /\ Head(queue[s]) \in Alerts
    BY <1>t, <1>2 DEF Receive, TypeOK
  <2>2. Head(queue[s]) # NoAlert BY <2>1, NoAlertIsNone
  <2>3. hand' = [hand EXCEPT ![s] = Head(queue[s])] /\ queue' = [queue EXCEPT ![s] = Tail(@)]
        /\ hand[s] = NoAlert
    BY <1>2 DEF Receive
  <2>4. Held(s) = <<>> /\ Held(s)' = <<Head(queue[s])>> BY <1>t, <2>2, <2>3 DEF Held, TypeOK
  <2>5. \A t \in Sinks : Held(t)' \o queue'[t] = Held(t) \o queue[t]
    <3>1. SUFFICES ASSUME NEW t \in Sinks PROVE Held(t)' \o queue'[t] = Held(t) \o queue[t] OBVIOUS
    <3>2. CASE t = s
      <4>1. queue'[s] = Tail(queue[s]) BY <1>t, <2>3 DEF TypeOK
      <4>2. QED BY <2>1, <2>4, <3>2, <4>1, TakeOwed
    <3>3. CASE t # s
      <4>1. hand'[t] = hand[t] /\ queue'[t] = queue[t] BY <1>t, <2>3, <3>3 DEF TypeOK
      <4>2. QED BY <4>1 DEF Held
    <3>4. QED BY <3>2, <3>3
  <2>6. Owed' = Owed BY <2>5 DEF Owed
  <2>7. QED BY <1>v, <1>2, <2>6 DEF Receive, AbstractVars, lockVars
<1>3. ASSUME NEW s \in Sinks, Send(s) PROVE Delivery!Next
  <2>1. hand[s] \in Alerts /\ hand[s] # NoAlert /\ queue[s] \in Seq(Alerts)
    BY <1>t, <1>3 DEF Send, TypeOK
  <2>2. hand' = [hand EXCEPT ![s] = NoAlert] /\ sent' = [sent EXCEPT ![s] = Append(@, hand[s])]
        /\ UNCHANGED <<closed, queue, dropped, sinkClosed>>
    BY <1>3 DEF Send, lockVars
  <2>3. s \notin sinkClosed BY <1>t, <2>1 DEF WorkersStay
  <2>4. Owed[s] = <<hand[s]>> \o queue[s] BY <2>1 DEF Owed, Held
  <2>5. Owed[s] # <<>> /\ Head(Owed[s]) = hand[s] /\ Tail(Owed[s]) = queue[s]
    BY <2>1, <2>4, HandFirst
  <2>6. Owed' = [Owed EXCEPT ![s] = Tail(@)]
    <3>1. \A t \in Sinks : hand'[t] = IF t = s THEN NoAlert ELSE hand[t]
      BY <1>t, <2>2 DEF TypeOK
    <3>2. Held(s)' = <<>> BY <3>1 DEF Held
    <3>3. \A t \in Sinks : t # s => Held(t)' = Held(t) BY <3>1 DEF Held
    <3>4. Held(s)' \o queue'[s] = queue[s] BY <2>1, <2>2, <3>2, EmptyFront
    <3>5. Owed' = [t \in Sinks |-> Held(t)' \o queue'[t]] BY DEF Owed
    <3>6. QED BY <2>2, <2>5, <3>3, <3>4, <3>5 DEF Owed
  <2>7. Delivery!SendNext(s)
    BY <2>2, <2>3, <2>5, <2>6 DEF Delivery!SendNext, Owed, Held
  <2>8. QED BY <2>7 DEF Delivery!Next
<1>4. ASSUME NEW m \in Closers, CloseQueues(m) PROVE [Delivery!Next]_(Delivery!vars)
  <2>1. Owed' = Owed BY <1>4, OwedUnchanged DEF CloseQueues
  <2>2. CASE closed BY <1>v, <1>4, <2>1, <2>2 DEF CloseQueues, AbstractVars
  <2>3. CASE ~closed
    <3>1. Delivery!Close BY <1>4, <2>1, <2>3 DEF CloseQueues, Delivery!Close, Owed, Held
    <3>2. QED BY <3>1 DEF Delivery!Next
  <2>4. QED BY <2>2, <2>3
<1>5. ASSUME NEW m \in Closers, NEW s \in Sinks, CloseSink(m, s) PROVE Delivery!Next
  <2>1. closed /\ running = {} BY <1>t, <1>5 DEF CloseSink, WorkersReturned, ClosedTogether
  <2>2. \A t \in Sinks : Owed[t] = <<>> BY <1>t, <2>1, OwedNothing DEF WorkersStay
  <2>3. Owed' = Owed BY <1>5, OwedUnchanged DEF CloseSink, workerVars
  <2>4. Delivery!ShutSink(s)
    BY <1>5, <2>1, <2>2, <2>3 DEF CloseSink, workerVars, Delivery!ShutSink, Owed, Held
  <2>5. QED BY <2>4 DEF Delivery!Next
<1>6. ASSUME NEW s \in Sinks, Register(s) \/ Return(s) PROVE UNCHANGED Delivery!vars
  <2>1. UNCHANGED <<hand, queue, sent, dropped, closed, sinkClosed>>
    BY <1>6 DEF Register, Return
  <2>2. QED BY <1>v, <2>1, OwedUnchanged DEF AbstractVars
<1>7. ASSUME NEW c \in Callers, BeginDispatch(c) \/ EndDispatch(c) PROVE UNCHANGED Delivery!vars
  <2>1. UNCHANGED <<hand, queue, sent, dropped, closed, sinkClosed>>
    BY <1>7 DEF BeginDispatch, EndDispatch, workerVars
  <2>2. QED BY <1>v, <2>1, OwedUnchanged DEF AbstractVars
<1>8. ASSUME NEW m \in Closers, AnnounceClose(m) \/ CloseReturns(m) PROVE UNCHANGED Delivery!vars
  <2>1. UNCHANGED <<hand, queue, sent, dropped, closed, sinkClosed>>
    BY <1>8 DEF AnnounceClose, CloseReturns, workerVars
  <2>2. QED BY <1>v, <2>1, OwedUnchanged DEF AbstractVars
<1>9. CASE UNCHANGED vars
  <2>1. UNCHANGED <<hand, queue, sent, dropped, closed, sinkClosed>> BY <1>9 DEF vars, workerVars
  <2>2. QED BY <1>v, <2>1, OwedUnchanged DEF AbstractVars
<1>10. QED
  BY <1>1, <1>2, <1>3, <1>4, <1>5, <1>6, <1>7, <1>8, <1>9 DEF Next, Dispatch, run, Close

(* A new dispatcher owes nothing.                                          *)
LEMMA InitRefines == Init => Delivery!Init
<1> SUFFICES ASSUME Init PROVE Delivery!Init OBVIOUS
<1>1. \A s \in Sinks : hand[s] = NoAlert /\ queue[s] = <<>> BY DEF Init
<1>2. \A s \in Sinks : Held(s) \o queue[s] = <<>> BY <1>1 DEF Held
<1>3. Owed = [s \in Sinks |-> <<>>] BY <1>2 DEF Owed
<1>4. QED BY <1>3 DEF Init, Delivery!Init, Owed, Held

(* The dispatcher, with its locks, goroutines and channels, keeps the      *)
(* promise of AlertDelivery: nothing is lost without being counted,        *)
(* nothing is reordered, and no sink closes before all is sent.            *)
THEOREM Implements == Spec => KeepsPromise
<1>1. QED
  BY InitRefines, StepRefines, DispatchInitially, DispatchInductive, PTL
  DEF Spec, KeepsPromise, Delivery!Spec
-----------------------------------------------------------------------------
(* The places of an alert in a queue, or among those sent.                 *)
At(q, a) == {i \in DOMAIN q : q[i] = a}

(* There are finitely many of them.                                        *)
LEMMA AtFinite ==
    ASSUME NEW S, NEW q \in Seq(S), NEW a
    PROVE  IsFiniteSet(At(q, a)) /\ Cardinality(At(q, a)) \in Nat
<1>1. At(q, a) \in SUBSET (1..Len(q)) BY DEF At
<1>2. Len(q) \in Int /\ 1 \in Int OBVIOUS
<1>3. IsFiniteSet(1..Len(q)) BY <1>2, FS_Interval
<1>4. IsFiniteSet(At(q, a)) BY <1>1, <1>3, FS_Subset
<1>5. QED BY <1>4, FS_CardinalityType

(* One more behind the last element if that is the alert.                  *)
LEMMA AtAppend ==
    ASSUME NEW S, NEW q \in Seq(S), NEW x \in S, NEW a
    PROVE  Cardinality(At(Append(q, x), a)) = Cardinality(At(q, a)) + (IF x = a THEN 1 ELSE 0)
<1> DEFINE n == Len(q) + 1
<1>1. Append(q, x) \in Seq(S) /\ DOMAIN Append(q, x) = 1..n OBVIOUS
<1>2. n \in Nat /\ \A i \in 1..n : Append(q, x)[i] = IF i = n THEN x ELSE q[i] OBVIOUS
<1>3. DOMAIN q = 1..Len(q) /\ 1..n = (1..Len(q)) \cup {n} /\ n \notin 1..Len(q) OBVIOUS
<1>4. At(Append(q, x), a) = IF x = a THEN At(q, a) \cup {n} ELSE At(q, a)
  BY <1>1, <1>2, <1>3 DEF At
<1>5. n \notin At(q, a) BY <1>3 DEF At
<1> HIDE DEF n
<1>6. Cardinality(At(q, a) \cup {n}) = Cardinality(At(q, a)) + 1 BY <1>5, AtFinite, FS_AddElement
<1>7. QED BY <1>4, <1>6, AtFinite

(* The first element, and the rest shifted by one.                         *)
LEMMA AtTail ==
    ASSUME NEW S, NEW q \in Seq(S), q # <<>>, NEW a
    PROVE  Cardinality(At(q, a)) = Cardinality(At(Tail(q), a)) + (IF Head(q) = a THEN 1 ELSE 0)
<1> DEFINE rest == At(q, a) \ {1}
           f == [i \in At(Tail(q), a) |-> i + 1]
<1>1. Tail(q) \in Seq(S) /\ DOMAIN q = 1..Len(q) /\ DOMAIN Tail(q) = 1..(Len(q) - 1) /\ Len(q) \in Nat
  OBVIOUS
<1>2. \A i \in 1..(Len(q) - 1) : Tail(q)[i] = q[i + 1] OBVIOUS
<1>3. Head(q) = q[1] /\ 1 \in DOMAIN q OBVIOUS
<1>4. f \in Bijection(At(Tail(q), a), rest)
  <2>1. \A i \in At(Tail(q), a) : i \in Nat /\ f[i] = i + 1 /\ i + 1 \in rest BY <1>1, <1>2 DEF At
  <2>2. \A j \in rest : j - 1 \in At(Tail(q), a) /\ (j - 1) + 1 = j BY <1>1, <1>2 DEF At
  <2>3. f \in [At(Tail(q), a) -> rest] BY <2>1
  <2>4. \A i, j \in At(Tail(q), a) : f[i] = f[j] => i = j BY <2>1
  <2>5. \A j \in rest : \E i \in At(Tail(q), a) : f[i] = j BY <2>1, <2>2
  <2> HIDE DEF f, rest
  <2>6. f \in Injection(At(Tail(q), a), rest) BY <2>3, <2>4 DEF Injection, IsInjective
  <2>7. f \in Surjection(At(Tail(q), a), rest) BY <2>3, <2>5 DEF Surjection
  <2>8. QED BY <2>6, <2>7 DEF Bijection
<1>5. Cardinality(rest) = Cardinality(At(Tail(q), a))
  <2>1. ExistsBijection(At(Tail(q), a), rest) BY <1>4 DEF ExistsBijection
  <2>2. IsFiniteSet(At(Tail(q), a)) BY <1>1, AtFinite
  <2>3. QED BY <2>1, <2>2, FS_Bijection
<1>6. Cardinality(rest) = IF 1 \in At(q, a) THEN Cardinality(At(q, a)) - 1 ELSE Cardinality(At(q, a))
  BY AtFinite, FS_RemoveElement
<1>7. 1 \in At(q, a) <=> Head(q) = a BY <1>3 DEF At
<1>8. Cardinality(At(q, a)) \in Nat BY AtFinite
<1>9. QED BY <1>5, <1>6, <1>7, <1>8

(* In which of its places a sink has an alert.                             *)
LEMMA PlacesAre ==
    ASSUME TypeOK, NEW s \in Sinks, NEW a
    PROVE  /\ Places(s, a) = Cardinality(At(sent[s], a)) + Cardinality(At(queue[s], a))
                               + (IF hand[s] = a THEN 1 ELSE 0) + (IF a \in dropped[s] THEN 1 ELSE 0)
           /\ Cardinality(At(sent[s], a)) \in Nat /\ Cardinality(At(queue[s], a)) \in Nat
           /\ Places(s, a) \in Nat
<1>1. sent[s] \in Seq(Alerts) /\ queue[s] \in Seq(Alerts) BY DEF TypeOK
<1>2. Cardinality(At(sent[s], a)) \in Nat /\ Cardinality(At(queue[s], a)) \in Nat
  BY <1>1, AtFinite
<1>3. Places(s, a) = Cardinality(At(sent[s], a)) + Cardinality(At(queue[s], a))
                       + (IF hand[s] = a THEN 1 ELSE 0) + (IF a \in dropped[s] THEN 1 ELSE 0)
  BY DEF Places, At
<1>4. QED BY <1>2, <1>3

(* A worker that takes an alert from its queue, or hands it to its sink,   *)
(* only moves it.                                                          *)
LEMMA WorkersMove ==
    ASSUME TypeOK, TypeOK', NEW t \in Sinks, run(t), NEW s \in Sinks, NEW a \in Alerts
    PROVE  Places(s, a)' = Places(s, a)
<1>1. NoAlert # a BY NoAlertIsNone
<1>2. Places(s, a) = Cardinality(At(sent[s], a)) + Cardinality(At(queue[s], a))
                       + (IF hand[s] = a THEN 1 ELSE 0) + (IF a \in dropped[s] THEN 1 ELSE 0)
      /\ Cardinality(At(sent[s], a)) \in Nat /\ Cardinality(At(queue[s], a)) \in Nat
  BY PlacesAre
<1>3. Places(s, a)' = Cardinality(At(sent'[s], a)) + Cardinality(At(queue'[s], a))
                        + (IF hand'[s] = a THEN 1 ELSE 0) + (IF a \in dropped'[s] THEN 1 ELSE 0)
  BY DEF Places, At
<1>4. CASE Receive(t)
  <2>1. UNCHANGED <<sent, dropped>> BY <1>4 DEF Receive
  <2>2. CASE s = t
    <3>1. /\ queue[s] \in Seq(Alerts) /\ queue[s] # <<>> /\ hand[s] = NoAlert
          /\ queue'[s] = Tail(queue[s]) /\ hand'[s] = Head(queue[s])
      BY <1>4, <2>2 DEF Receive, TypeOK
    <3>2. Cardinality(At(queue[s], a))
            = Cardinality(At(queue'[s], a)) + (IF hand'[s] = a THEN 1 ELSE 0)
      BY <3>1, AtTail
    <3>3. Cardinality(At(queue'[s], a)) \in Nat BY PlacesAre, AtFinite DEF TypeOK
    <3>4. hand[s] # a BY <1>1, <3>1
    <3>5. QED BY <1>2, <1>3, <2>1, <3>2, <3>3, <3>4
  <2>3. CASE s # t
    <3>1. queue'[s] = queue[s] /\ hand'[s] = hand[s] BY <1>4, <2>3 DEF Receive, TypeOK
    <3>2. QED BY <1>2, <1>3, <2>1, <3>1
  <2>4. QED BY <2>2, <2>3
<1>5. CASE Send(t)
  <2>1. UNCHANGED <<queue, dropped>> BY <1>5 DEF Send
  <2>2. CASE s = t
    <3>1. /\ sent[s] \in Seq(Alerts) /\ hand[s] \in Alerts
          /\ sent'[s] = Append(sent[s], hand[s]) /\ hand'[s] = NoAlert
      BY <1>5, <2>2 DEF Send, TypeOK
    <3>2. Cardinality(At(sent'[s], a))
            = Cardinality(At(sent[s], a)) + (IF hand[s] = a THEN 1 ELSE 0)
      BY <3>1, AtAppend
    <3>3. hand'[s] # a BY <1>1, <3>1
    <3>4. QED BY <1>2, <1>3, <2>1, <3>2, <3>3
  <2>3. CASE s # t
    <3>1. sent'[s] = sent[s] /\ hand'[s] = hand[s] BY <1>5, <2>3 DEF Send, TypeOK
    <3>2. QED BY <1>2, <1>3, <2>1, <3>1
  <2>4. QED BY <2>2, <2>3
<1>6. CASE Return(t)
  <2>1. UNCHANGED <<sent, queue, hand, dropped>> BY <1>6 DEF Return
  <2>2. QED BY <1>2, <1>3, <2>1
<1>7. QED BY <1>4, <1>5, <1>6 DEF run

(* A step of Dispatch that enqueues an alert, or drops it, adds one place  *)
(* for it at its sink if it had none there, and changes nothing else.      *)
LEMMA EnqueueAdds ==
    ASSUME TypeOK, ClosedTogether, NEW c \in Callers, enqueue(c), NEW s \in Sinks, NEW a \in Alerts,
           s = workers[at[c] + 1] /\ a = Current(c) => Places(s, a) = 0
    PROVE  Places(s, a)' = IF s = workers[at[c] + 1] /\ a = Current(c) THEN 1 ELSE Places(s, a)
<1> DEFINE w == workers[at[c] + 1]
<1>1. w \in Sinks BY DEF enqueue, TypeOK
<1>2. Places(s, a) = Cardinality(At(sent[s], a)) + Cardinality(At(queue[s], a))
                       + (IF hand[s] = a THEN 1 ELSE 0) + (IF a \in dropped[s] THEN 1 ELSE 0)
      /\ Cardinality(At(sent[s], a)) \in Nat /\ Cardinality(At(queue[s], a)) \in Nat
  BY PlacesAre
<1>3. Places(s, a)' = Cardinality(At(sent'[s], a)) + Cardinality(At(queue'[s], a))
                        + (IF hand'[s] = a THEN 1 ELSE 0) + (IF a \in dropped'[s] THEN 1 ELSE 0)
  BY DEF Places, At
<1>4. UNCHANGED <<sent, hand>> BY DEF enqueue
<1>5. Current(c) \in Alerts BY CurrentIsAlert DEF enqueue, ClosedTogether
<1>6. CASE HasRoom(w)
  <2>1. queue' = [queue EXCEPT ![w] = Append(@, Current(c))] /\ UNCHANGED dropped
    BY <1>6 DEF enqueue
  <2> HIDE DEF w
  <2>2. CASE s = w
    <3>1. queue[s] \in Seq(Alerts) /\ queue'[s] = Append(queue[s], Current(c))
      BY <1>1, <2>1, <2>2 DEF TypeOK
    <3>2. Cardinality(At(queue'[s], a))
            = Cardinality(At(queue[s], a)) + (IF Current(c) = a THEN 1 ELSE 0)
      BY <1>5, <3>1, AtAppend
    <3>3. QED BY <1>2, <1>3, <1>4, <2>1, <2>2, <3>2 DEF w
  <2>3. CASE s # w
    <3>1. queue'[s] = queue[s] BY <1>1, <2>1, <2>3 DEF TypeOK
    <3>2. QED BY <1>2, <1>3, <1>4, <2>1, <2>3, <3>1 DEF w
  <2>4. QED BY <2>2, <2>3
<1>7. CASE ~HasRoom(w)
  <2>1. dropped' = [dropped EXCEPT ![w] = @ \cup {Current(c)}] /\ UNCHANGED queue
    BY <1>7 DEF enqueue, CountDrop
  <2> HIDE DEF w
  <2>2. dropped'[s] = IF s = w THEN dropped[s] \cup {Current(c)} ELSE dropped[s]
    BY <1>1, <2>1 DEF TypeOK
  <2>3. CASE s = w /\ a = Current(c)
    <3>1. a \notin dropped[s] BY <1>2, <2>3 DEF w
    <3>2. QED BY <1>2, <1>3, <1>4, <2>1, <2>2, <2>3, <3>1 DEF w
  <2>4. CASE ~(s = w /\ a = Current(c))
    <3>1. a \in dropped'[s] <=> a \in dropped[s] BY <2>2, <2>4
    <3>2. QED BY <1>2, <1>3, <1>4, <2>1, <2>4, <3>1 DEF w
  <2>5. QED BY <2>3, <2>4
<1>8. QED BY <1>6, <1>7

(* AccountedOnce with the alert and its sink named, and what makes it      *)
(* inductive: no sink is registered twice, and alerts that were never      *)
(* dispatched are nowhere.                                                 *)
Tallied ==
    \A c \in readers, i \in 1..Len(workers), s \in Sinks, a \in Alerts :
        s = workers[i] /\ a = Current(c) => Places(s, a) = IF i <= at[c] THEN 1 ELSE 0
NoneTwice == \A i, j \in DOMAIN workers : workers[i] = workers[j] => i = j
Unmade ==
    \A c \in Callers, n \in 1..MaxAlerts, s \in Sinks : n > count[c] => Places(s, <<c, n>>) = 0
AccountInv == NoneTwice /\ Unmade /\ Tallied

(* A step that neither registers nor dispatches, and only moves alerts.    *)
LEMMA MovesKeepAccount ==
    ASSUME AccountInv, UNCHANGED <<workers, at, count>>, readers' \subseteq readers,
           \A s \in Sinks, a \in Alerts : Places(s, a)' = Places(s, a)
    PROVE  AccountInv'
<1>1. NoneTwice' BY DEF AccountInv, NoneTwice
<1>2. \A c \in Callers, n \in 1..MaxAlerts : <<c, n>> \in Alerts BY DEF Alerts
<1>3. Unmade' BY <1>2 DEF AccountInv, Unmade
<1>4. Tallied' BY DEF AccountInv, Tallied, Current
<1>5. QED BY <1>1, <1>3, <1>4 DEF AccountInv

(* Every step keeps AccountInv.                                            *)
LEMMA AccountInductive ==
    ASSUME DispatchInv, DispatchInv', AccountInv, [Next]_vars PROVE AccountInv'
<1> USE DispatcherAssumption DEF DispatcherAssumption
<1>t. TypeOK /\ ClosedTogether /\ TypeOK' BY DEF DispatchInv
<1>w. /\ workers \in Seq(Sinks) /\ readers \subseteq Callers /\ at \in [Callers -> Nat]
      /\ count \in [Callers -> 0..MaxAlerts]
  BY <1>t DEF TypeOK
<1>p. ASSUME UNCHANGED <<sent, queue, hand, dropped>>
      PROVE  \A s \in Sinks, a \in Alerts : Places(s, a)' = Places(s, a)
  BY <1>p DEF Places
<1>1. ASSUME NEW s \in Sinks, Register(s) PROVE AccountInv'
  <2>1. /\ UNCHANGED <<sent, queue, hand, dropped, count, readers>> /\ readers = {}
        /\ workers' = Append(workers, s) /\ s \notin Registered
    BY <1>1 DEF Register, lockVars
  <2>2. NoneTwice'
    <3>1. \A i \in DOMAIN workers' : \/ i \in DOMAIN workers /\ workers'[i] = workers[i]
                                     \/ i = Len(workers) + 1 /\ workers'[i] = s
      BY <1>w, <2>1
    <3>2. \A i \in DOMAIN workers : workers[i] # s BY <2>1 DEF Registered
    <3>3. QED BY <3>1, <3>2 DEF AccountInv, NoneTwice
  <2>3. Unmade'
    <3>1. \A c \in Callers, n \in 1..MaxAlerts : <<c, n>> \in Alerts BY DEF Alerts
    <3>2. QED BY <1>p, <2>1, <3>1 DEF AccountInv, Unmade
  <2>4. Tallied' BY <2>1 DEF Tallied
  <2>5. QED BY <2>2, <2>3, <2>4 DEF AccountInv
<1>2. ASSUME NEW c \in Callers, BeginDispatch(c) PROVE AccountInv'
  <2>1. /\ UNCHANGED <<workers, sent, queue, hand, dropped>>
        /\ count' = [count EXCEPT ![c] = @ + 1] /\ at' = [at EXCEPT ![c] = 0]
        /\ readers' \subseteq readers \cup {c} /\ c \notin readers /\ count[c] < MaxAlerts
    BY <1>2 DEF BeginDispatch, workerVars
  <2>2. \A d \in Callers, n \in 1..MaxAlerts : <<d, n>> \in Alerts BY DEF Alerts
  <2>3. NoneTwice' BY <2>1 DEF AccountInv, NoneTwice
  <2>4. Unmade'
    <3>1. \A d \in Callers, n \in 1..MaxAlerts : n > count'[d] => n > count[d] BY <1>w, <2>1
    <3>2. QED BY <1>p, <2>1, <2>2, <3>1 DEF AccountInv, Unmade
  <2>5. Tallied'
    <3>1. SUFFICES ASSUME NEW d \in readers', NEW i \in 1..Len(workers'), NEW s \in Sinks, NEW a \in Alerts,
                          s = workers'[i], a = Current(d)'
                   PROVE  Places(s, a)' = IF i <= at'[d] THEN 1 ELSE 0
      BY DEF Tallied
    <3>2. CASE d = c
      <4>1. a = <<c, count[c] + 1>> /\ count[c] + 1 \in 1..MaxAlerts /\ count[c] + 1 > count[c]
        BY <1>w, <2>1, <3>1, <3>2 DEF Current
      <4>2. Places(s, a) = 0 BY <4>1 DEF AccountInv, Unmade
      <4>3. at'[d] = 0 /\ ~(i <= 0) BY <1>w, <2>1, <3>2
      <4>4. QED BY <1>p, <2>1, <4>2, <4>3
    <3>3. CASE d # c
      <4>1. d \in readers /\ a = Current(d) /\ at'[d] = at[d]
        BY <1>w, <2>1, <3>1, <3>3 DEF Current
      <4>2. QED BY <1>p, <2>1, <3>1, <4>1 DEF AccountInv, Tallied
    <3>4. QED BY <3>2, <3>3
  <2>6. QED BY <2>3, <2>4, <2>5 DEF AccountInv
<1>3. ASSUME NEW c \in Callers, enqueue(c) PROVE AccountInv'
  <2> DEFINE k == at[c] + 1
  <2>1. /\ UNCHANGED <<workers, count, readers>> /\ at' = [at EXCEPT ![c] = @ + 1]
        /\ c \in readers /\ k \in 1..Len(workers)
    BY <1>3, <1>w DEF enqueue, lockVars
  <2>2. workers[k] \in Sinks BY <1>w, <2>1
  <2>3. Current(c) \in Alerts BY <1>t, <2>1, CurrentIsAlert DEF ClosedTogether
  <2>4. \A s \in Sinks, a \in Alerts :
            Places(s, a)' = IF s = workers[k] /\ a = Current(c) THEN 1 ELSE Places(s, a)
    <3>1. Places(workers[k], Current(c)) = 0
      <4>1. ~(k <= at[c]) BY <1>w
      <4>2. QED BY <2>1, <2>2, <2>3, <4>1 DEF AccountInv, Tallied
    <3>2. QED BY <1>t, <1>3, <3>1, EnqueueAdds
  <2> HIDE DEF k
  <2>5. NoneTwice' BY <2>1 DEF AccountInv, NoneTwice
  <2>6. Unmade'
    <3>1. SUFFICES ASSUME NEW d \in Callers, NEW n \in 1..MaxAlerts, NEW s \in Sinks, n > count'[d]
                   PROVE  Places(s, <<d, n>>)' = 0
      BY DEF Unmade
    <3>2. <<d, n>> \in Alerts /\ <<d, n>> # Current(c) /\ n > count[d]
      BY <1>w, <2>1, <3>1 DEF Alerts, Current
    <3>3. QED BY <2>4, <3>2 DEF AccountInv, Unmade
  <2>7. Tallied'
    <3>1. SUFFICES ASSUME NEW d \in readers', NEW i \in 1..Len(workers'), NEW s \in Sinks, NEW a \in Alerts,
                          s = workers'[i], a = Current(d)'
                   PROVE  Places(s, a)' = IF i <= at'[d] THEN 1 ELSE 0
      BY DEF Tallied
    <3>2. d \in readers /\ i \in 1..Len(workers) /\ s = workers[i] /\ a = Current(d)
      BY <2>1, <3>1 DEF Current
    <3>3. Places(s, a) = IF i <= at[d] THEN 1 ELSE 0 BY <3>2 DEF AccountInv, Tallied
    <3>4. CASE d = c
      <4>1. at'[d] = at[c] + 1 /\ at[c] \in Nat BY <1>w, <2>1, <3>4
      <4>2. CASE i = k
        <5>1. i <= at'[d] BY <4>1, <4>2 DEF k
        <5>2. QED BY <2>4, <3>2, <3>4, <4>2, <5>1
      <4>3. CASE i # k
        <5>1. s # workers[k] BY <1>w, <2>1, <3>2, <4>3 DEF AccountInv, NoneTwice
        <5>2. i <= at'[d] <=> i <= at[d] BY <3>4, <4>1, <4>3 DEF k
        <5>3. QED BY <2>4, <3>3, <5>1, <5>2
      <4>4. QED BY <4>2, <4>3
    <3>5. CASE d # c
      <4>1. at'[d] = at[d] /\ a # Current(c) BY <1>w, <2>1, <3>2, <3>5 DEF Current
      <4>2. QED BY <2>4, <3>3, <4>1
    <3>6. QED BY <3>4, <3>5
  <2>8. QED BY <2>5, <2>6, <2>7 DEF AccountInv
<1>4. ASSUME NEW c \in Callers, EndDispatch(c) PROVE AccountInv'
  BY <1>4, <1>p, MovesKeepAccount DEF EndDispatch, workerVars
<1>5. ASSUME NEW s \in Sinks, run(s) PROVE AccountInv'
  <2>1. UNCHANGED <<workers, at, count, readers>>
    BY <1>5 DEF run, Receive, Send, Return, lockVars
  <2>2. QED BY <1>t, <1>5, <2>1, WorkersMove, MovesKeepAccount
<1>6. ASSUME NEW m \in Closers, Close(m) PROVE AccountInv'
  BY <1>6, <1>p, MovesKeepAccount
  DEF Close, AnnounceClose, CloseQueues, CloseSink, CloseReturns, lockVars, workerVars
<1>7. CASE UNCHANGED vars
  BY <1>7, <1>p, MovesKeepAccount DEF vars, lockVars, workerVars
<1>8. QED BY <1>1, <1>2, <1>3, <1>4, <1>5, <1>6, <1>7 DEF Next, Dispatch

(* A new dispatcher holds no alerts.                                       *)
LEMMA AccountInitially == Init => AccountInv
<1> SUFFICES ASSUME Init PROVE AccountInv OBVIOUS
<1>1. NoneTwice /\ Tallied BY DEF Init, NoneTwice, Tallied
<1>2. Unmade
  <2>1. SUFFICES ASSUME NEW c \in Callers, NEW n \in 1..MaxAlerts, NEW s \in Sinks
                 PROVE  Places(s, <<c, n>>) = 0
    BY DEF Unmade
  <2>2. <<c, n>> \in Alerts BY DEF Alerts
  <2>3. sent[s] = <<>> /\ queue[s] = <<>> /\ hand[s] = NoAlert /\ dropped[s] = {} BY DEF Init
  <2>4. At(sent[s], <<c, n>>) = {} /\ At(queue[s], <<c, n>>) = {} BY <2>3 DEF At
  <2>5. hand[s] # <<c, n>> BY <2>2, <2>3, NoAlertIsNone
  <2>6. QED BY <2>3, <2>4, <2>5, FS_EmptySet DEF Places, At
<1>3. QED BY <1>1, <1>2 DEF AccountInv

(* Every alert that a Dispatch is through with at a sink is there exactly  *)
(* once -- sent, in the worker's hand, queued or counted as dropped -- and *)
(* nowhere at the sinks it has still to reach, for any number of sinks and *)
(* callers that dispatch at the same time.                                 *)
THEOREM AccountsOnce == Spec => []AccountedOnce
<1>1. Init => DispatchInv /\ AccountInv BY DispatchInitially, AccountInitially
<1>2. DispatchInv /\ AccountInv /\ [Next]_vars => (DispatchInv /\ AccountInv)'
  BY DispatchInductive, AccountInductive
<1>3. DispatchInv /\ AccountInv => AccountedOnce
  <2> SUFFICES ASSUME DispatchInv, AccountInv PROVE AccountedOnce OBVIOUS
  <2>1. \A c \in readers : Current(c) \in Alerts
    BY CurrentIsAlert DEF DispatchInv, ClosedTogether, TypeOK
  <2>2. \A i \in 1..Len(workers) : workers[i] \in Sinks BY DEF DispatchInv, TypeOK
  <2>3. QED BY <2>1, <2>2 DEF AccountInv, Tallied, AccountedOnce
<1>4. QED BY <1>1, <1>2, <1>3, PTL DEF Spec
=============================================================================
