----------------------------- MODULE Dispatcher -----------------------------
(* The alert dispatcher (internal/alert/alert.go): Dispatch enqueues to    *)
(* every registered sink under a read lock and never blocks; one worker    *)
(* goroutine per sink drains its queue; Close takes the write lock, closes *)
(* the queues, waits for the workers and then closes the sinks.  Callers,  *)
(* registrations and Close run concurrently.                               *)
EXTENDS Naturals, Sequences, FiniteSets

CONSTANTS
    Sinks,       \* the sinks that may be registered
    Callers,     \* goroutines that call Dispatch
    Closers,     \* goroutines that call Close
    QueueDepth,  \* queueDepth
    MaxAlerts,   \* bound: alerts per caller
    Stuck        \* sinks whose Send may never return

Alerts == Callers \X (1..MaxAlerts)
NoAlert == <<>>

ASSUME DispatcherAssumption ==
    /\ QueueDepth \in Nat \ {0}
    /\ MaxAlerts \in Nat
    /\ Stuck \subseteq Sinks
    /\ IsFiniteSet(Sinks)

VARIABLES
    workers,   \* Dispatcher.workers, in order of registration
    closed,    \* Dispatcher.closed
    readers,   \* callers holding mu.RLock
    waiting,   \* the goroutine that has announced itself for mu.Lock, or none
    queue,     \* contents of each sink's channel
    qclosed,   \* the sinks whose channel has been closed
    hand,      \* the alert a worker has taken and is sending
    running,   \* workers that have not returned from run()
    at,        \* how many workers the caller's Dispatch has gone through
    count,     \* how many Dispatch calls each caller has made
    closer,    \* where each Close is
    sent, dropped,  \* history: alerts sent to / dropped for each sink
    sinkClosed \* the sinks whose Close has been called

lockVars == <<readers, waiting>>
workerVars == <<queue, qclosed, hand, running, sent>>
vars == <<workers, closed, lockVars, workerVars, at, count, closer, dropped,
          sinkClosed>>

Nobody == "nobody"

Init ==
    /\ workers = <<>>
    /\ closed = FALSE
    /\ readers = {}
    /\ waiting = Nobody
    /\ queue = [s \in Sinks |-> <<>>]
    /\ qclosed = {}
    /\ hand = [s \in Sinks |-> NoAlert]
    /\ running = {}
    /\ at = [c \in Callers |-> 0]
    /\ count = [c \in Callers |-> 0]
    /\ closer = [m \in Closers |-> "start"]
    /\ sent = [s \in Sinks |-> <<>>]
    /\ dropped = [s \in Sinks |-> {}]
    /\ sinkClosed = {}

Registered == {workers[i] : i \in DOMAIN workers}
Current(c) == <<c, count[c]>>

-----------------------------------------------------------------------------
(* Register holds the write lock for its whole body.                       *)
Register(s) ==
    /\ readers = {} /\ waiting = Nobody
    /\ ~closed
    /\ s \notin Registered
    /\ workers' = Append(workers, s)
    /\ running' = running \cup {s}
    /\ UNCHANGED <<closed, lockVars, queue, qclosed, hand, sent, at, count,
                   closer, dropped, sinkClosed>>

(* Dispatch: RLock (a waiting writer holds new readers back) and the check *)
(* of closed, ...                                                          *)
BeginDispatch(c) ==
    /\ c \notin readers
    /\ waiting = Nobody
    /\ count[c] < MaxAlerts
    /\ count' = [count EXCEPT ![c] = @ + 1]
    /\ readers' = IF closed THEN readers ELSE readers \cup {c}
    /\ at' = [at EXCEPT ![c] = 0]
    /\ UNCHANGED <<workers, closed, waiting, workerVars, closer, dropped,
                   sinkClosed>>

(* ... a non-blocking send to each queue in turn, ...                      *)
\* Mutant: the send is tried only while the queue is one short of full.
HasRoomOffByOne(s) == Len(queue[s]) < QueueDepth - 1
HasRoom(s) == Len(queue[s]) < QueueDepth

\* Mutant: a full queue is skipped without telling anyone.
DropSilently(s, a) == UNCHANGED dropped
CountDrop(s, a) == dropped' = [dropped EXCEPT ![s] = @ \cup {a}]

enqueue(c) ==
    /\ c \in readers
    /\ at[c] < Len(workers)
    /\ LET s == workers[at[c] + 1] IN
          \/ /\ HasRoom(s)
             /\ queue' = [queue EXCEPT ![s] = Append(@, Current(c))]
             /\ UNCHANGED dropped
          \/ /\ ~HasRoom(s)
             /\ CountDrop(s, Current(c))
             /\ UNCHANGED queue
    /\ at' = [at EXCEPT ![c] = @ + 1]
    /\ UNCHANGED <<workers, closed, lockVars, qclosed, hand, running, sent,
                   count, closer, sinkClosed>>

(* ... and RUnlock.                                                        *)
EndDispatch(c) ==
    /\ c \in readers
    /\ at[c] = Len(workers)
    /\ readers' = readers \ {c}
    /\ UNCHANGED <<workers, closed, waiting, workerVars, at, count, closer,
                   dropped, sinkClosed>>

Dispatch(c) == BeginDispatch(c) \/ enqueue(c) \/ EndDispatch(c)

-----------------------------------------------------------------------------
(* sinkWorker.run: take, send (a panic in Send is recovered, so a send     *)
(* always ends the same way), and return once the channel is closed and    *)
(* empty.                                                                  *)
Receive(s) ==
    /\ s \in running
    /\ hand[s] = NoAlert
    /\ queue[s] # <<>>
    /\ hand' = [hand EXCEPT ![s] = Head(queue[s])]
    /\ queue' = [queue EXCEPT ![s] = Tail(@)]
    /\ UNCHANGED <<workers, closed, lockVars, qclosed, running, sent, at, count,
                   closer, dropped, sinkClosed>>

Send(s) ==
    /\ hand[s] # NoAlert
    /\ sent' = [sent EXCEPT ![s] = Append(@, hand[s])]
    /\ hand' = [hand EXCEPT ![s] = NoAlert]
    /\ UNCHANGED <<workers, closed, lockVars, queue, qclosed, running, at, count,
                   closer, dropped, sinkClosed>>

\* Mutant: the worker returns as soon as its channel is closed.
AbandonQueue(s) == s \in qclosed /\ hand[s] = NoAlert
Drained(s) == s \in qclosed /\ hand[s] = NoAlert /\ queue[s] = <<>>

Return(s) ==
    /\ s \in running
    /\ Drained(s)
    /\ running' = running \ {s}
    /\ UNCHANGED <<workers, closed, lockVars, queue, qclosed, hand, sent, at,
                   count, closer, dropped, sinkClosed>>

run(s) == Receive(s) \/ Send(s) \/ Return(s)

-----------------------------------------------------------------------------
(* Close announces itself for the write lock, ...                          *)
AnnounceClose(m) ==
    /\ closer[m] = "start"
    /\ waiting = Nobody
    /\ waiting' = m
    /\ closer' = [closer EXCEPT ![m] = "lock"]
    /\ UNCHANGED <<workers, closed, readers, workerVars, at, count, dropped,
                   sinkClosed>>

(* ... gets it when the readers are gone, marks the dispatcher closed and  *)
(* closes the queues (or returns if another Close was first), ...          *)
\* Mutant: Close does not wait for the readers.
LockWithoutWaiting(m) == waiting = m
HoldsLock(m) == waiting = m /\ readers = {}

\* Mutant: only the worker registered last is told to stop.
LastRegistered == IF workers = <<>> THEN {} ELSE {workers[Len(workers)]}
QueuesToClose == Registered

CloseQueues(m) ==
    /\ closer[m] = "lock"
    /\ HoldsLock(m)
    /\ \/ /\ closed
          /\ closer' = [closer EXCEPT ![m] = "returned"]
          /\ UNCHANGED <<closed, qclosed>>
       \/ /\ ~closed
          /\ closed' = TRUE
          /\ qclosed' = QueuesToClose
          /\ closer' = [closer EXCEPT ![m] = "wait"]
    /\ waiting' = Nobody
    /\ UNCHANGED <<workers, readers, queue, hand, running, at, count, sent,
                   dropped, sinkClosed>>

(* ... waits for every worker to return, and closes the sinks one by one.  *)
WorkersReturned == running = {}

CloseSink(m, s) ==
    /\ closer[m] = "wait"
    /\ WorkersReturned
    /\ s \in Registered \ sinkClosed
    /\ sinkClosed' = sinkClosed \cup {s}
    /\ UNCHANGED <<workers, closed, lockVars, workerVars, at, count, closer,
                   dropped>>

CloseReturns(m) ==
    /\ closer[m] = "wait"
    /\ WorkersReturned
    /\ Registered \subseteq sinkClosed
    /\ closer' = [closer EXCEPT ![m] = "returned"]
    /\ UNCHANGED <<workers, closed, lockVars, workerVars, at, count, dropped,
                   sinkClosed>>

Close(m) ==
    \/ AnnounceClose(m) \/ CloseQueues(m)
    \/ \E s \in Sinks : CloseSink(m, s)
    \/ CloseReturns(m)

Next ==
    \/ \E c \in Callers : Dispatch(c)
    \/ \E s \in Sinks : Register(s) \/ run(s)
    \/ \E m \in Closers : Close(m)

Spec == Init /\ [][Next]_vars

(* Fairness: a Dispatch or Close under way is scheduled, a worker too, and *)
(* Send returns unless the sink is stuck (the HTTP sinks time out after 5  *)
(* seconds).  Nothing forces anyone to call Dispatch, Register or Close.   *)
Fairness ==
    /\ \A c \in Callers : WF_vars(enqueue(c) \/ EndDispatch(c))
    /\ \A s \in Sinks : WF_vars(Receive(s) \/ Return(s))
    /\ \A s \in Sinks \ Stuck : WF_vars(Send(s))
    /\ \A m \in Closers : WF_vars(CloseQueues(m) \/ CloseReturns(m)
                                    \/ \E s \in Sinks : CloseSink(m, s))
FairSpec == Spec /\ Fairness

-----------------------------------------------------------------------------
TypeOK ==
    /\ workers \in Seq(Sinks)
    /\ closed \in BOOLEAN
    /\ readers \subseteq Callers
    /\ waiting \in Closers \cup {Nobody}
    /\ queue \in [Sinks -> Seq(Alerts)]
    /\ \A s \in Sinks : Len(queue[s]) <= QueueDepth
    /\ qclosed \subseteq Sinks
    /\ hand \in [Sinks -> Alerts \cup {NoAlert}]
    /\ running \subseteq Sinks
    /\ at \in [Callers -> Nat]
    /\ count \in [Callers -> 0..MaxAlerts]
    /\ closer \in [Closers -> {"start", "lock", "wait", "returned"}]
    /\ sent \in [Sinks -> Seq(Alerts)]
    /\ dropped \in [Sinks -> SUBSET Alerts]
    /\ sinkClosed \subseteq Sinks

(* A Dispatch that is under way never meets a closed channel (a send on    *)
(* one panics): Close and Dispatch exclude each other through the lock.    *)
NoSendOnClosedQueue == readers # {} => qclosed = {} /\ ~closed

(* The detailed dispatcher implements what AlertDelivery promises: nothing *)
(* is lost without being counted, nothing is reordered, duplicated or sent *)
(* to a closed sink, and everything taken is sent before any sink closes.  *)
Delivery ==
    INSTANCE AlertDelivery
        WITH Depth <- QueueDepth,
             owed <- [s \in Sinks |-> (IF hand[s] = NoAlert THEN <<>>
                                       ELSE <<hand[s]>>) \o queue[s]],
             open <- ~closed,
             shut <- sinkClosed
KeepsPromise == Delivery!Spec

(* An alert dispatched to a registered sink is sent, waiting or counted as *)
(* dropped when Dispatch returns, and never more than one of them.         *)
Places(s, a) ==
    Cardinality({i \in DOMAIN sent[s] : sent[s][i] = a})
      + Cardinality({i \in DOMAIN queue[s] : queue[s][i] = a})
      + (IF hand[s] = a THEN 1 ELSE 0) + (IF a \in dropped[s] THEN 1 ELSE 0)
AccountedOnce ==
    \A c \in readers : \A i \in 1..Len(workers) :
        Places(workers[i], Current(c)) = IF i <= at[c] THEN 1 ELSE 0

(* "a slow or stuck sink only drops alerts for itself": what was taken for *)
(* a sink that works is sent, even if another sink never answers again.    *)
HealthySinksDrain ==
    \A s \in Sinks \ Stuck : queue[s] # <<>> ~> queue[s] = <<>> /\ hand[s] = NoAlert

(* Close returns once it has started, unless a sink with an alert in hand  *)
(* is stuck: no dispatcher, worker or second Close waits for another.      *)
CloseTerminates ==
    \A m \in Closers :
        closer[m] = "lock" ~> \/ closer[m] = "returned"
                              \/ \E s \in Stuck : hand[s] # NoAlert
=============================================================================
