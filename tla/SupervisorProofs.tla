-------------------------- MODULE SupervisorProofs --------------------------
(* Proofs about the supervisor and its workers, for any number of workers, *)
(* signals and links and any capacity of the audit log: the links a worker *)
(* has sealed, what stops it, what becomes of its audit records and which  *)
(* workers the supervisor loses sight of.                                  *)
EXTENDS Supervisor, FiniteSetTheorems, TLAPS

(* The parts of TypeOK.                                                    *)
SupTypes ==
    /\ sup \in {"spawn", "select", "wait", "sleep", "exited"}
    /\ cur \in Worker \cup {0}
    /\ sigCh \in {NoSignal, "HUP", "TERM"}
    /\ recent \in 0..MaxRestarts
    /\ hups \in Nat
OutsideTypes ==
    /\ signals \in 0..MaxSignals
    /\ records \in 0..MaxLogs
WorkerTypes ==
    /\ phase \in [Worker -> Phases]
    /\ stoppedBy \in [Worker -> {"nobody", "init", "other", "supervisor"}]
AuditTypes == audit \in [Worker -> Loggers]
ProtectTypes ==
    /\ mlinks \in [Worker -> SUBSET Links]
    /\ links \in [Worker -> SUBSET Links]
    /\ self_pid \in [Worker -> BOOLEAN]
    /\ reg \in [Worker -> 0..Len(Order)]
    /\ protected_ids \in [Worker -> SUBSET Nat]
    /\ held \in [Worker -> SUBSET Links]
    /\ sealed \in [Worker -> SUBSET Links]

(* TypeOK is the conjunction of its parts.                                 *)
LEMMA TypeParts ==
    TypeOK <=> SupTypes /\ OutsideTypes /\ WorkerTypes /\ AuditTypes /\ ProtectTypes
BY DEF TypeOK, SupTypes, OutsideTypes, WorkerTypes, AuditTypes, ProtectTypes

-----------------------------------------------------------------------------
(* One audit log: its counters and its switches.                           *)
Counts(l) ==
    /\ l.logged \in Nat /\ l.queue \in 0..AuditCap /\ l.buf \in 0..BufCap
    /\ l.file \in Nat /\ l.dropped \in Nat /\ l.lost \in Nat
Sound(l) == l \in Loggers /\ Accounted(l)

(* The counters of a logger are numbers.                                   *)
LEMMA LoggerCounts == ASSUME NEW l \in Loggers PROVE Counts(l)
BY DEF Loggers, Counts

(* A new logger has accounted for its no records.                          *)
LEMMA NewSound == Sound(NewLogger)
<1>1. NewLogger \in Loggers BY AuditAssumption DEF AuditAssumption, NewLogger, Loggers
<1>2. Accounted(NewLogger) BY DEF NewLogger, Accounted
<1>3. QED BY <1>1, <1>2 DEF Sound

(* Log counts its record as queued or as dropped.                          *)
LEMMA LogSound ==
    ASSUME NEW l, Sound(l)
    PROVE  /\ Sound(Log(l))
           /\ Log(l).open = l.open /\ Log(l).running = l.running
           /\ Log(l).failed = l.failed /\ Log(l).lost = l.lost
<1>1. l \in Loggers /\ Counts(l) /\ Accounted(l) BY LoggerCounts DEF Sound
<1>2. CASE l.queue < AuditCap
  <2>1. Log(l) = [l EXCEPT !.logged = @ + 1, !.queue = @ + 1] BY <1>2 DEF Log
  <2>2. l.logged + 1 \in Nat /\ l.queue + 1 \in 0..AuditCap
    BY <1>1, <1>2, AuditAssumption DEF AuditAssumption, Counts
  <2>3. Log(l) \in Loggers BY <1>1, <2>1, <2>2 DEF Loggers
  <2>4. Accounted(Log(l)) BY <1>1, <2>1 DEF Counts, Accounted, Loggers
  <2>5. QED BY <1>1, <2>1, <2>3, <2>4 DEF Sound, Loggers
<1>3. CASE ~(l.queue < AuditCap)
  <2>1. Log(l) = [l EXCEPT !.logged = @ + 1, !.dropped = @ + 1] BY <1>3 DEF Log
  <2>0. l.logged + 1 \in Nat /\ l.dropped + 1 \in Nat BY <1>1 DEF Counts
  <2>2. Log(l) \in Loggers BY <1>1, <2>0, <2>1 DEF Loggers
  <2>3. Accounted(Log(l)) BY <1>1, <2>1 DEF Counts, Accounted, Loggers
  <2>4. QED BY <1>1, <2>1, <2>2, <2>3 DEF Sound, Loggers
<1>4. QED BY <1>2, <1>3

(* Write moves one record, and the whole buffer when it is full.           *)
LEMMA WriteSound ==
    ASSUME NEW l, Sound(l), CanWrite(l)
    PROVE  /\ Sound(Write(l))
           /\ Write(l).open = l.open /\ Write(l).running = l.running
           /\ Write(l).failed = l.failed /\ Write(l).lost = l.lost
<1>1. l \in Loggers /\ Counts(l) /\ Accounted(l) BY LoggerCounts DEF Sound
<1>2. l.queue - 1 \in 0..AuditCap BY <1>1, AuditAssumption DEF AuditAssumption, CanWrite, Counts
<1>3. CASE l.buf < BufCap
  <2>1. Write(l) = [l EXCEPT !.queue = @ - 1, !.buf = @ + 1] BY <1>3 DEF Write
  <2>2. l.buf + 1 \in 0..BufCap BY <1>1, <1>3, AuditAssumption DEF AuditAssumption, Counts
  <2>3. Write(l) \in Loggers BY <1>1, <1>2, <2>1, <2>2 DEF Loggers
  <2>4. Accounted(Write(l)) BY <1>1, <2>1 DEF Counts, Accounted, Loggers
  <2>5. QED BY <1>1, <2>1, <2>3, <2>4 DEF Sound, Loggers
<1>4. CASE BufCap = 0
  <2>1. Write(l) = [l EXCEPT !.queue = @ - 1, !.file = @ + 1] BY <1>1, <1>4 DEF Write, Counts
  <2>2. l.file + 1 \in Nat BY <1>1 DEF Counts
  <2>3. Write(l) \in Loggers BY <1>1, <1>2, <2>1, <2>2 DEF Loggers
  <2>4. Accounted(Write(l)) BY <1>1, <2>1 DEF Counts, Accounted, Loggers
  <2>5. QED BY <1>1, <2>1, <2>3, <2>4 DEF Sound, Loggers
<1>5. CASE ~(l.buf < BufCap) /\ BufCap # 0
  <2>1. Write(l) = [l EXCEPT !.queue = @ - 1, !.file = @ + l.buf, !.buf = 1] BY <1>5 DEF Write
  <2>2. l.file + l.buf \in Nat /\ 1 \in 0..BufCap
    BY <1>1, <1>5, AuditAssumption DEF AuditAssumption, Counts
  <2>3. Write(l) \in Loggers BY <1>1, <1>2, <2>1, <2>2 DEF Loggers
  <2>4. Accounted(Write(l)) BY <1>1, <2>1 DEF Counts, Accounted, Loggers
  <2>5. QED BY <1>1, <2>1, <2>3, <2>4 DEF Sound, Loggers
<1>6. QED BY <1>3, <1>4, <1>5

(* The last flush leaves nothing in memory.                                *)
LEMMA FinishSound ==
    ASSUME NEW l, Sound(l), CanFinish(l)
    PROVE  /\ Sound(Finish(l))
           /\ ~Finish(l).running /\ ~Finish(l).open
           /\ Finish(l).queue = 0 /\ Finish(l).buf = 0
           /\ Finish(l).failed = l.failed /\ Finish(l).lost = l.lost
<1>1. l \in Loggers /\ Counts(l) /\ Accounted(l) BY LoggerCounts DEF Sound
<1>2. Finish(l) = [l EXCEPT !.buf = 0, !.file = @ + l.buf, !.running = FALSE] BY DEF Finish
<1>3. l.file + l.buf \in Nat /\ 0 \in 0..BufCap BY <1>1, AuditAssumption DEF AuditAssumption, Counts
<1>4. Finish(l) \in Loggers BY <1>1, <1>2, <1>3 DEF Loggers
<1>5. Accounted(Finish(l)) BY <1>1, <1>2 DEF Counts, Accounted, Loggers
<1>6. QED BY <1>1, <1>2, <1>4, <1>5 DEF Sound, CanFinish, Loggers

(* A failed write counts what it loses.                                    *)
LEMMA FailSound ==
    ASSUME NEW l, Sound(l), CanWrite(l)
    PROVE  Sound(WriteFails(l)) /\ WriteFails(l).failed /\ WriteFails(l).open = l.open
<1>1. l \in Loggers /\ Counts(l) /\ Accounted(l) BY LoggerCounts DEF Sound
<1>2. WriteFails(l) = [l EXCEPT !.queue = @ - 1, !.buf = 0, !.lost = @ + l.buf + 1,
                                !.running = FALSE, !.failed = TRUE]
  BY DEF WriteFails
<1>3. l.queue - 1 \in 0..AuditCap /\ 0 \in 0..BufCap /\ l.lost + l.buf + 1 \in Nat
  BY <1>1, AuditAssumption DEF AuditAssumption, CanWrite, Counts
<1>4. WriteFails(l) \in Loggers BY <1>1, <1>2, <1>3 DEF Loggers
<1>5. Accounted(WriteFails(l)) BY <1>1, <1>2 DEF Counts, Accounted, Loggers
<1>6. QED BY <1>1, <1>2, <1>4, <1>5 DEF Sound, Loggers

(* A failed last flush counts what it loses.                               *)
LEMMA FinishFailSound ==
    ASSUME NEW l, Sound(l)
    PROVE  Sound(FinishFails(l)) /\ FinishFails(l).failed /\ FinishFails(l).open = l.open
<1>1. l \in Loggers /\ Counts(l) /\ Accounted(l) BY LoggerCounts DEF Sound
<1>2. FinishFails(l) = [l EXCEPT !.buf = 0, !.lost = @ + l.buf, !.running = FALSE, !.failed = TRUE]
  BY DEF FinishFails
<1>3. 0 \in 0..BufCap /\ l.lost + l.buf \in Nat BY <1>1, AuditAssumption DEF AuditAssumption, Counts
<1>4. FinishFails(l) \in Loggers BY <1>1, <1>2, <1>3 DEF Loggers
<1>5. Accounted(FinishFails(l)) BY <1>1, <1>2 DEF Counts, Accounted, Loggers
<1>6. QED BY <1>1, <1>2, <1>4, <1>5 DEF Sound, Loggers

(* Closing the channel moves no record.                                    *)
LEMMA CloseSound ==
    ASSUME NEW l, Sound(l)
    PROVE  /\ Sound(Close(l)) /\ ~Close(l).open
           /\ Close(l).running = l.running /\ Close(l).failed = l.failed
           /\ Close(l).queue = l.queue /\ Close(l).buf = l.buf /\ Close(l).lost = l.lost
BY DEF Sound, Close, Loggers, Accounted

(* A process that dies loses what it has in memory, and only that.         *)
LEMMA DieSound ==
    ASSUME NEW l, Sound(l)
    PROVE  /\ Sound(Die(l)) /\ Die(l).failed = l.failed
           /\ l.queue = 0 /\ l.buf = 0 => Die(l).lost = l.lost
<1>1. l \in Loggers /\ Counts(l) /\ Accounted(l) BY LoggerCounts DEF Sound
<1>2. Die(l) = [l EXCEPT !.queue = 0, !.buf = 0, !.lost = @ + l.queue + l.buf,
                         !.open = FALSE, !.running = FALSE]
  BY DEF Die
<1>3. 0 \in 0..AuditCap /\ 0 \in 0..BufCap /\ l.lost + l.queue + l.buf \in Nat
  BY <1>1, AuditAssumption DEF AuditAssumption, Counts
<1>4. Die(l) \in Loggers BY <1>1, <1>2, <1>3 DEF Loggers
<1>5. Accounted(Die(l)) BY <1>1, <1>2 DEF Counts, Accounted, Loggers
<1>6. l.queue = 0 /\ l.buf = 0 => Die(l).lost = l.lost BY <1>1, <1>2 DEF Counts, Loggers
<1>7. QED BY <1>1, <1>2, <1>4, <1>5, <1>6 DEF Sound, Loggers

-----------------------------------------------------------------------------
(* The newest worker is cmd's, and the later ones are not yet born.        *)
CurIsNewest ==
    /\ sup \in {"select", "wait"} => cur \in Worker
    /\ \A w \in Worker : w > cur => phase[w] = "unborn"

(* What a worker has sealed stays attached and registered, with the hooks  *)
(* armed, as long as it lives; only PID 1 gets past its task_kill hook.    *)
SealHolds(w) ==
    /\ phase[w] \in Starting \cup {"unborn"} => sealed[w] = {} /\ stoppedBy[w] = "nobody"
    /\ phase[w] = "armed" => self_pid[w]
    /\ Alive(w) /\ sealed[w] # {} =>
          self_pid[w] /\ CmdLink \in sealed[w] /\ sealed[w] \subseteq OutOfReach(w)
    /\ KillLink \in sealed[w] => stoppedBy[w] \in {"nobody", "init"}

(* Audit records are accounted for; the goroutine ends only with the       *)
(* channel closed and nothing in memory, or after a failure; records are   *)
(* lost only to a failure or with the process.                             *)
AuditHolds(w) ==
    /\ Accounted(audit[w])
    /\ phase[w] \notin Ended /\ ~audit[w].running /\ ~audit[w].failed =>
          ~audit[w].open /\ audit[w].queue = 0 /\ audit[w].buf = 0
    /\ phase[w] \notin Ended \cup {"closing"} => audit[w].open
    /\ phase[w] # "crashed" /\ ~audit[w].failed => audit[w].lost = 0

WorkersHold == \A w \in Worker : SealHolds(w) /\ AuditHolds(w)

SupInv == TypeOK /\ CurIsNewest /\ WorkersHold

(* The supervisor and its workers begin this way.                          *)
LEMMA SupInitially == Init => SupInv
<1> SUFFICES ASSUME Init PROVE SupInv OBVIOUS
<1>1. TypeOK
  <2>1. SupTypes BY SupervisorAssumption DEF SupervisorAssumption, Init, SupTypes
  <2>6. OutsideTypes
    <3>1. 0 \in 0..MaxSignals /\ 0 \in 0..MaxLogs
      BY SupervisorAssumption, AuditAssumption DEF SupervisorAssumption, AuditAssumption
    <3>2. QED BY <3>1 DEF Init, OutsideTypes
  <2>2. WorkerTypes BY DEF Init, WorkerTypes, Phases
  <2>3. AuditTypes BY NewSound DEF Init, AuditTypes, Sound
  <2>4. ProtectTypes
    <3>1. 0 \in 0..Len(Order) BY SelfProtectAssumption DEF SelfProtectAssumption
    <3>2. QED BY <3>1 DEF Init, InitProtect, ProtectTypes
  <2>5. QED BY <2>1, <2>2, <2>3, <2>4, <2>6, TypeParts
<1>2. CurIsNewest BY DEF Init, CurIsNewest
<1>3. \A w \in Worker : SealHolds(w)
  BY DEF Init, InitProtect, SealHolds, Starting, Alive
<1>4. \A w \in Worker : AuditHolds(w)
  <2>1. SUFFICES ASSUME NEW w \in Worker PROVE AuditHolds(w) OBVIOUS
  <2>2. audit[w] = NewLogger /\ phase[w] = "unborn" BY DEF Init
  <2>3. QED BY <2>2, NewSound DEF AuditHolds, Sound, NewLogger, Ended
<1>5. QED BY <1>1, <1>2, <1>3, <1>4 DEF SupInv, WorkersHold

-----------------------------------------------------------------------------
(* A signal moves a worker on, kills it or does nothing.                   *)
LEMMA ReceivedPhase ==
    ASSUME WorkerTypes, NEW w \in Worker, NEW sig, NEW caller
    PROVE  /\ Received(w, sig, caller) \in Phases
           /\ Received(w, sig, caller) # phase[w] =>
                 /\ Alive(w) /\ TaskKillAllows(w, caller)
                 /\ \/ phase[w] \in Starting /\ Received(w, sig, caller) = "crashed"
                    \/ phase[w] = "online" /\ Received(w, sig, caller) = "stopping"
BY DEF WorkerTypes, Received, Phases, Starting, Stopping, Ended

(* A process that ends takes its hooks, maps and variables along.          *)
LEMMA UnhookTypes ==
    ASSUME ProtectTypes, NEW w \in Worker, Unhook(w) PROVE ProtectTypes'
<1>1. 0 \in 0..Len(Order) BY SelfProtectAssumption DEF SelfProtectAssumption
<1>2. QED BY <1>1 DEF ProtectTypes, Unhook

(* Deliver keeps the types.                                                *)
LEMMA DeliverTypes ==
    ASSUME WorkerTypes, AuditTypes, ProtectTypes, NEW w \in Worker, NEW sig,
           NEW caller \in {"init", "other", "supervisor"}, Deliver(w, sig, caller),
           Sound(audit[w])
    PROVE  WorkerTypes' /\ AuditTypes' /\ ProtectTypes'
<1>1. WorkerTypes' BY ReceivedPhase DEF Deliver, WorkerTypes
<1>2. AuditTypes' BY DieSound DEF Deliver, AuditTypes, Sound
<1>3. ProtectTypes' BY UnhookTypes DEF Deliver, protectVars, ProtectTypes
<1>4. QED BY <1>1, <1>2, <1>3

(* Every step keeps the types.                                             *)
LEMMA TypesKept == SupInv /\ [Next]_vars => TypeOK'
<1> SUFFICES ASSUME SupInv, [Next]_vars PROVE TypeOK' OBVIOUS
<1> USE SupervisorAssumption, AuditAssumption
    DEF SupervisorAssumption, AuditAssumption
<1>t. SupTypes /\ OutsideTypes /\ WorkerTypes /\ AuditTypes /\ ProtectTypes
  BY TypeParts DEF SupInv
<1>q. SupTypes' /\ OutsideTypes' /\ WorkerTypes' /\ AuditTypes' /\ ProtectTypes' => TypeOK'
  BY DEF TypeOK, SupTypes, OutsideTypes, WorkerTypes, AuditTypes, ProtectTypes
<1>a. \A w \in Worker : Sound(audit[w])
  BY <1>t DEF SupInv, WorkersHold, AuditHolds, AuditTypes, Sound
<1>c. CurIsNewest BY DEF SupInv
<1>1. ASSUME NEW w \in Worker, NEW sig \in {"HUP", "TERM"}, NEW caller \in {"init", "other"},
             SignalWorker(w, sig, caller)
      PROVE  TypeOK'
  <2>1. Deliver(w, sig, caller) BY <1>1 DEF SignalWorker
  <2>2. WorkerTypes' /\ AuditTypes' /\ ProtectTypes' BY <1>t, <1>a, <2>1, DeliverTypes
  <2>3. SupTypes' BY <1>t, <1>1 DEF SignalWorker, supVars, SupTypes
  <2>4. OutsideTypes' BY <1>t, <1>1 DEF SignalWorker, OutsideTypes
  <2>5. QED BY <2>2, <2>3, <2>4, <1>q
<1>2. ASSUME NEW sig \in {"HUP", "TERM"}, SignalSupervisor(sig) PROVE TypeOK'
  <2>1. SupTypes' BY <1>t, <1>2 DEF SignalSupervisor, SupTypes
  <2>2. OutsideTypes' BY <1>t, <1>2 DEF SignalSupervisor, OutsideTypes
  <2>3. UNCHANGED <<phase, audit, stoppedBy, protectVars>> BY <1>2 DEF SignalSupervisor
  <2>4. WorkerTypes' /\ AuditTypes' /\ ProtectTypes'
    BY <1>t, <2>3 DEF WorkerTypes, AuditTypes, ProtectTypes, protectVars
  <2>5. QED BY <2>1, <2>2, <2>4, <1>q
<1>3. ASSUME ForwardHup \/ ForwardTerm PROVE TypeOK'
  <2>1. cur \in Worker BY <1>c, <1>3 DEF CurIsNewest, ForwardHup, ForwardTerm
  <2>2. \E sig : Deliver(cur, sig, "supervisor") BY <1>3 DEF ForwardHup, ForwardTerm
  <2>3. WorkerTypes' /\ AuditTypes' /\ ProtectTypes' BY <1>t, <1>a, <2>1, <2>2, DeliverTypes
  <2>4. SupTypes' BY <1>t, <1>3 DEF ForwardHup, ForwardTerm, SupTypes
  <2>5. OutsideTypes' BY <1>t, <1>3 DEF ForwardHup, ForwardTerm, outsideVars, OutsideTypes
  <2>6. QED BY <2>3, <2>4, <2>5, <1>q
<1>4. ASSUME SpawnFails \/ Purge \/ ChildDoneAfterTerm \/ ChildDone \/ Slept PROVE TypeOK'
  <2>1. UNCHANGED <<phase, audit, outsideVars, stoppedBy, protectVars>>
    BY <1>4 DEF SpawnFails, Purge, ChildDoneAfterTerm, ChildDone, Slept
  <2>2. SupTypes'
    BY <1>t, <1>4 DEF SpawnFails, Purge, ChildDoneAfterTerm, ChildDone, Slept, SupTypes
  <2>3. WorkerTypes' /\ AuditTypes' /\ ProtectTypes' /\ OutsideTypes'
    BY <1>t, <2>1 DEF WorkerTypes, AuditTypes, ProtectTypes, protectVars, OutsideTypes, outsideVars
  <2>4. QED BY <2>2, <2>3, <1>q
<1>5. ASSUME Spawn PROVE TypeOK'
  <2>1. UNCHANGED <<audit, outsideVars, stoppedBy, protectVars>> BY <1>5 DEF Spawn
  <2>2. SupTypes' BY <1>t, <1>5 DEF Spawn, SupTypes
  <2>3. WorkerTypes' BY <1>t, <1>5 DEF Spawn, WorkerTypes, Phases, Starting
  <2>4. AuditTypes' /\ ProtectTypes' /\ OutsideTypes'
    BY <1>t, <2>1 DEF AuditTypes, ProtectTypes, protectVars, OutsideTypes, outsideVars
  <2>5. QED BY <2>2, <2>3, <2>4, <1>q
<1>6. ASSUME NEW w \in Worker, Load(w) \/ Arm(w) \/ Register(w) \/ GoOnline(w) PROVE TypeOK'
  <2>1. UNCHANGED <<supVars, audit, outsideVars, stoppedBy>>
    BY <1>6 DEF Load, Arm, Register, GoOnline
  <2>2. WorkerTypes' BY <1>t, <1>6 DEF Load, Arm, Register, GoOnline, WorkerTypes, Phases, Starting
  <2>3. ProtectTypes'
    <3>1. CASE Load(w) BY <1>t, <3>1 DEF Load, AttachHooks, ProtectTypes
    <3>2. CASE Arm(w) BY <1>t, <3>2 DEF Arm, SetSelfPid, ProtectTypes
    <3>3. CASE Register(w)
      <4> DEFINE o == Order[reg[w] + 1]
      <4>0. Len(Order) \in Nat /\ reg[w] \in 0..Len(Order) /\ reg[w] < Len(Order)
        BY <1>t, <3>3, SelfProtectAssumption
        DEF Register, RegisterProtectedID, ProtectTypes, SelfProtectAssumption
      <4>5. reg[w] + 1 \in 1..Len(Order) BY <4>0
      <4>1. Number[o] \in Nat /\ reg[w] + 1 \in 0..Len(Order)
        <5>1. o \in Object BY <4>5 DEF Object
        <5>2. Number \in [Object -> Nat] BY SelfProtectAssumption DEF SelfProtectAssumption
        <5>3. QED BY <4>0, <4>5, <5>1, <5>2
      <4>2. protected_ids' \in [Worker -> SUBSET Nat]
        BY <1>t, <3>3, <4>1 DEF Register, RegisterProtectedID, ProtectTypes
      <4>3. reg' \in [Worker -> 0..Len(Order)]
        BY <1>t, <3>3, <4>1 DEF Register, RegisterProtectedID, ProtectTypes
      <4>4. QED BY <1>t, <3>3, <4>2, <4>3 DEF Register, RegisterProtectedID, ProtectTypes
    <3>4. CASE GoOnline(w)
      BY <1>t, <3>4 DEF GoOnline, RegistrationDone, OutOfReach, ProtectTypes
    <3>5. QED BY <1>6, <3>1, <3>2, <3>3, <3>4
  <2>4. SupTypes' /\ AuditTypes' /\ OutsideTypes'
    BY <1>t, <2>1 DEF SupTypes, AuditTypes, OutsideTypes, supVars, outsideVars
  <2>5. QED BY <2>2, <2>3, <2>4, <1>q
<1>7. ASSUME NEW w \in Worker, HandleRecord(w) PROVE TypeOK'
  <2>1. UNCHANGED <<supVars, phase, signals, stoppedBy, protectVars>>
    BY <1>7 DEF HandleRecord
  <2>2. AuditTypes' BY <1>t, <1>a, <1>7, LogSound DEF HandleRecord, AuditTypes, Sound
  <2>3. records' \in 0..MaxLogs BY <1>t, <1>7 DEF HandleRecord, OutsideTypes
  <2>4. SupTypes' /\ WorkerTypes' /\ ProtectTypes' /\ OutsideTypes'
    BY <1>t, <2>1, <2>3
    DEF SupTypes, WorkerTypes, ProtectTypes, OutsideTypes, supVars, protectVars
  <2>5. QED BY <2>2, <2>4, <1>q
<1>8. ASSUME NEW w \in Worker, AuditStep(w) \/ AuditFails(w) PROVE TypeOK'
  <2>1. UNCHANGED <<supVars, phase, outsideVars, stoppedBy, protectVars>>
    BY <1>8 DEF AuditStep, AuditFails
  <2>2. AuditTypes'
    BY <1>t, <1>a, <1>8, WriteSound, FinishSound, FailSound, FinishFailSound
    DEF AuditStep, AuditFails, AuditTypes, CanFail, Sound
  <2>3. SupTypes' /\ WorkerTypes' /\ ProtectTypes' /\ OutsideTypes'
    BY <1>t, <2>1
    DEF SupTypes, WorkerTypes, ProtectTypes, OutsideTypes, supVars, outsideVars, protectVars
  <2>4. QED BY <2>2, <2>3, <1>q
<1>9. ASSUME NEW w \in Worker, ReaderDone(w) PROVE TypeOK'
  <2>1. UNCHANGED <<supVars, outsideVars, stoppedBy, protectVars>> BY <1>9 DEF ReaderDone
  <2>2. AuditTypes' BY <1>t, <1>a, <1>9, CloseSound DEF ReaderDone, AuditTypes, Sound
  <2>3. WorkerTypes' BY <1>t, <1>9 DEF ReaderDone, WorkerTypes, Phases, Stopping
  <2>4. SupTypes' /\ ProtectTypes' /\ OutsideTypes'
    BY <1>t, <2>1 DEF SupTypes, ProtectTypes, OutsideTypes, supVars, outsideVars, protectVars
  <2>5. QED BY <2>2, <2>3, <2>4, <1>q
<1>10. ASSUME NEW w \in Worker, Exit(w) \/ Crash(w) PROVE TypeOK'
  <2>1. UNCHANGED <<supVars, outsideVars, stoppedBy>> /\ Unhook(w) BY <1>10 DEF Exit, Crash
  <2>2. AuditTypes' BY <1>t, <1>a, <1>10, DieSound DEF Exit, Crash, AuditTypes, Sound
  <2>3. WorkerTypes' BY <1>t, <1>10 DEF Exit, Crash, WorkerTypes, Phases, Ended
  <2>4. ProtectTypes' BY <1>t, <2>1, UnhookTypes
  <2>5. SupTypes' /\ OutsideTypes'
    BY <1>t, <2>1 DEF SupTypes, OutsideTypes, supVars, outsideVars
  <2>6. QED BY <2>2, <2>3, <2>4, <2>5, <1>q
<1>11. ASSUME NEW w \in Worker, NEW l \in Links, OutsideBpf(w, l) PROVE TypeOK'
  <2>1. UNCHANGED <<supVars, phase, audit, outsideVars, stoppedBy>> BY <1>11 DEF OutsideBpf
  <2>2. ProtectTypes'
    <3>1. CASE GetLinkFd(w, l) BY <1>t, <3>1 DEF GetLinkFd, ProtectTypes
    <3>2. ASSUME NEW fd \in Descriptors, Detach(w, l, fd) PROVE ProtectTypes'
      BY <1>t, <3>2 DEF Detach, ProtectTypes
    <3>3. QED BY <1>11, <3>1, <3>2 DEF OutsideBpf
  <2>3. SupTypes' /\ WorkerTypes' /\ AuditTypes' /\ OutsideTypes'
    BY <1>t, <2>1 DEF SupTypes, WorkerTypes, AuditTypes, OutsideTypes, supVars, outsideVars
  <2>4. QED BY <2>2, <2>3, <1>q
<1>12. CASE UNCHANGED vars
  BY <1>t, <1>12, <1>q
  DEF vars, supVars, outsideVars, protectVars, SupTypes, WorkerTypes, AuditTypes, OutsideTypes, ProtectTypes
<1>13. QED
  BY <1>1, <1>2, <1>3, <1>4, <1>5, <1>6, <1>7, <1>8, <1>9, <1>10, <1>11, <1>12
  DEF Next, SupervisorStep, WorkerStep, Environment

(* The newest worker stays the newest: Spawn takes the next number.        *)
LEMMA NewestKept == SupInv /\ [Next]_vars => CurIsNewest'
<1> SUFFICES ASSUME SupInv, [Next]_vars PROVE CurIsNewest' OBVIOUS
<1>t. SupTypes /\ WorkerTypes /\ CurIsNewest BY TypeParts DEF SupInv
<1>w. Worker \subseteq Nat BY DEF Worker
<1>f. ASSUME NEW w \in Worker, UNCHANGED <<sup, cur>>, \A u \in Worker \ {w} : phase'[u] = phase[u],
             phase[w] # "unborn"
      PROVE  CurIsNewest'
  BY <1>t, <1>f DEF CurIsNewest
<1>p. ASSUME UNCHANGED <<cur, phase>>, sup' \in {"select", "wait"} => sup \in {"select", "wait"}
      PROVE  CurIsNewest'
  BY <1>t, <1>p DEF CurIsNewest
<1>1. ASSUME NEW w \in Worker, NEW sig \in {"HUP", "TERM"}, NEW caller \in {"init", "other"},
             SignalWorker(w, sig, caller)
      PROVE  CurIsNewest'
  <2>1. UNCHANGED <<sup, cur>> /\ phase[w] # "unborn" BY <1>1 DEF SignalWorker, supVars, Alive
  <2>2. \A u \in Worker \ {w} : phase'[u] = phase[u]
    BY <1>t, <1>1 DEF SignalWorker, Deliver, WorkerTypes
  <2>3. QED BY <1>f, <2>1, <2>2
<1>2. ASSUME NEW sig \in {"HUP", "TERM"}, SignalSupervisor(sig) PROVE CurIsNewest'
  BY <1>p, <1>2 DEF SignalSupervisor
<1>3. ASSUME ForwardHup \/ ForwardTerm PROVE CurIsNewest'
  <2>1. cur \in Worker BY <1>t, <1>3 DEF CurIsNewest, ForwardHup, ForwardTerm
  <2>2. PICK sig : Deliver(cur, sig, "supervisor") BY <1>3 DEF ForwardHup, ForwardTerm
  <2>3. \A u \in Worker \ {cur} : phase'[u] = phase[u] BY <1>t, <2>1, <2>2 DEF Deliver, WorkerTypes
  <2>4. UNCHANGED cur BY <1>3 DEF ForwardHup, ForwardTerm
  <2>5. QED BY <1>t, <1>w, <2>1, <2>3, <2>4 DEF CurIsNewest
<1>4. ASSUME SpawnFails \/ Purge \/ ChildDoneAfterTerm \/ ChildDone \/ Slept PROVE CurIsNewest'
  BY <1>p, <1>4 DEF SpawnFails, Purge, ChildDoneAfterTerm, ChildDone, Slept
<1>5. ASSUME Spawn PROVE CurIsNewest'
  <2>1. cur' = cur + 1 /\ cur' \in Worker BY <1>5 DEF Spawn
  <2>2. \A u \in Worker \ {cur + 1} : phase'[u] = phase[u] BY <1>t, <1>5 DEF Spawn, WorkerTypes
  <2>3. \A u \in Worker : u > cur' => u > cur /\ u # cur + 1 BY <1>t, <1>w, <2>1 DEF SupTypes
  <2>4. QED BY <1>t, <2>1, <2>2, <2>3 DEF CurIsNewest
<1>6. ASSUME NEW w \in Worker, Load(w) \/ Arm(w) \/ GoOnline(w) \/ ReaderDone(w) \/ Exit(w) \/ Crash(w)
      PROVE  CurIsNewest'
  <2>1. UNCHANGED <<sup, cur>> /\ phase[w] # "unborn"
    BY <1>6 DEF Load, Arm, GoOnline, ReaderDone, Exit, Crash, supVars, Alive
  <2>2. \A u \in Worker \ {w} : phase'[u] = phase[u]
    BY <1>t, <1>6 DEF Load, Arm, GoOnline, ReaderDone, Exit, Crash, WorkerTypes
  <2>3. QED BY <1>f, <2>1, <2>2
<1>7. ASSUME NEW w \in Worker, Register(w) \/ HandleRecord(w) \/ AuditStep(w) \/ AuditFails(w)
      PROVE  CurIsNewest'
  BY <1>p, <1>7 DEF Register, HandleRecord, AuditStep, AuditFails, supVars
<1>8. ASSUME NEW w \in Worker, NEW l \in Links, OutsideBpf(w, l) PROVE CurIsNewest'
  BY <1>p, <1>8 DEF OutsideBpf, supVars
<1>9. CASE UNCHANGED vars BY <1>p, <1>9 DEF vars, supVars
<1>10. QED
  BY <1>1, <1>2, <1>3, <1>4, <1>5, <1>6, <1>7, <1>8, <1>9
  DEF Next, SupervisorStep, WorkerStep, Environment

-----------------------------------------------------------------------------
(* A worker at which nothing that its seals depend on changes.             *)
LocalSeal(w) ==
    <<phase[w], stoppedBy[w], links[w], self_pid[w], protected_ids[w], held[w], sealed[w]>>

(* Its seals hold as before.                                               *)
LEMMA SealFrame == ASSUME NEW w, SealHolds(w), UNCHANGED LocalSeal(w) PROVE SealHolds(w)'
BY DEF LocalSeal, SealHolds, Alive, OutOfReach

(* A worker that ended has nothing more to hold than who stopped it.       *)
LEMMA SealEnded ==
    ASSUME NEW w, phase'[w] \in Ended,
           KillLink \in sealed'[w] => stoppedBy'[w] \in {"nobody", "init"}
    PROVE  SealHolds(w)'
BY DEF SealHolds, Alive, Ended, Starting

(* A signal keeps the seals: it is refused, or sent by PID 1, or finds a   *)
(* worker that has not sealed task_kill.                                   *)
LEMMA DeliverSeal ==
    ASSUME WorkerTypes, ProtectTypes, NEW w \in Worker, SealHolds(w), NEW sig,
           NEW caller \in {"init", "other", "supervisor"}, Deliver(w, sig, caller)
    PROVE  SealHolds(w)'
<1> DEFINE to == Received(w, sig, caller)
<1>1. phase'[w] = to /\ UNCHANGED sealed
  BY DEF Deliver, Unhook, protectVars, WorkerTypes
<1>2. CASE to = phase[w]
  <2>1. UNCHANGED protectVars BY <1>2 DEF Deliver
  <2>2. stoppedBy'[w] = stoppedBy[w] BY <1>2 DEF Deliver, WorkerTypes
  <2>3. UNCHANGED LocalSeal(w) BY <1>1, <1>2, <2>1, <2>2 DEF LocalSeal, protectVars
  <2>4. QED BY <2>3, SealFrame
<1>3. CASE to # phase[w]
  <2>1. Alive(w) /\ TaskKillAllows(w, caller) BY <1>3, ReceivedPhase
  <2>2. stoppedBy'[w] = caller BY <1>3 DEF Deliver, WorkerTypes
  <2>3. KillLink \in sealed[w] => caller = "init"
    BY <2>1 DEF SealHolds, OutOfReach, TaskKillAllows
  <2>4. CASE phase[w] \in Starting /\ to = "crashed"
    BY <1>1, <2>2, <2>3, <2>4, SealEnded DEF Ended
  <2>5. CASE phase[w] = "online" /\ to = "stopping"
    <3>1. UNCHANGED protectVars BY <2>5 DEF Deliver
    <3>2. phase'[w] = "stopping" BY <1>1, <2>5
    <3>3. UNCHANGED <<links, self_pid, protected_ids, held, sealed>> BY <3>1 DEF protectVars
    <3>4. OutOfReach(w)' = OutOfReach(w) BY <3>3 DEF OutOfReach
    <3>5. QED BY <2>1, <2>2, <2>3, <3>2, <3>3, <3>4 DEF SealHolds, Starting, Alive
  <2>6. QED BY <1>3, <2>4, <2>5, ReceivedPhase
<1>4. QED BY <1>2, <1>3

(* Every step keeps every worker's seals: an outside process gets no       *)
(* descriptor of what is registered, so it detaches only what it held      *)
(* before, whatever numbers its descriptors have.                          *)
LEMMA SealKept ==
    ASSUME SupInv, [Next]_vars, NEW u \in Worker PROVE SealHolds(u)'
<1>t. SupTypes /\ WorkerTypes /\ AuditTypes /\ ProtectTypes BY TypeParts DEF SupInv
<1>c. CurIsNewest /\ SealHolds(u) BY DEF SupInv, WorkersHold
<1>f. ASSUME UNCHANGED LocalSeal(u) PROVE SealHolds(u)' BY <1>c, <1>f, SealFrame
<1>1. ASSUME NEW w \in Worker, NEW sig, NEW caller \in {"init", "other", "supervisor"},
             Deliver(w, sig, caller)
      PROVE  SealHolds(u)'
  <2>1. CASE u = w BY <1>t, <1>c, <1>1, <2>1, DeliverSeal
  <2>2. CASE u # w
    <3>1. phase'[u] = phase[u] /\ stoppedBy'[u] = stoppedBy[u]
      BY <1>t, <1>1, <2>2 DEF Deliver, WorkerTypes
    <3>2. /\ links'[u] = links[u] /\ self_pid'[u] = self_pid[u]
          /\ protected_ids'[u] = protected_ids[u] /\ held'[u] = held[u]
          /\ sealed'[u] = sealed[u]
      BY <1>t, <1>1, <2>2 DEF Deliver, Unhook, protectVars, ProtectTypes
    <3>3. QED BY <1>f, <3>1, <3>2 DEF LocalSeal
  <2>3. QED BY <2>1, <2>2
<1>2. ASSUME NEW w \in Worker, NEW sig \in {"HUP", "TERM"}, NEW caller \in {"init", "other"},
             SignalWorker(w, sig, caller)
      PROVE  SealHolds(u)'
  BY <1>1, <1>2 DEF SignalWorker
<1>3. ASSUME ForwardHup \/ ForwardTerm PROVE SealHolds(u)'
  <2>1. cur \in Worker BY <1>c, <1>3 DEF CurIsNewest, ForwardHup, ForwardTerm
  <2>2. PICK sig : Deliver(cur, sig, "supervisor") BY <1>3 DEF ForwardHup, ForwardTerm
  <2>3. QED BY <1>1, <2>1, <2>2
<1>4. ASSUME UNCHANGED <<phase, stoppedBy, protectVars>> PROVE SealHolds(u)'
  BY <1>f, <1>4 DEF protectVars, LocalSeal
<1>5. ASSUME Spawn PROVE SealHolds(u)'
  <2>1. UNCHANGED <<stoppedBy, protectVars>> BY <1>5 DEF Spawn
  <2>2. CASE u = cur + 1
    <3>1. phase[u] = "unborn" BY <1>t, <1>c, <2>2 DEF SupTypes, CurIsNewest, Worker
    <3>2. phase'[u] = "load" BY <1>t, <1>5, <2>2 DEF Spawn, WorkerTypes
    <3>3. sealed'[u] = {} /\ stoppedBy'[u] = "nobody"
      BY <1>c, <2>1, <3>1 DEF SealHolds, protectVars
    <3>4. QED BY <3>2, <3>3 DEF SealHolds
  <2>3. CASE u # cur + 1
    <3>1. phase'[u] = phase[u] BY <1>t, <1>5, <2>3 DEF Spawn, WorkerTypes
    <3>2. QED BY <1>f, <2>1, <3>1 DEF protectVars, LocalSeal
  <2>4. QED BY <2>2, <2>3
<1>6. ASSUME NEW w \in Worker, Load(w) PROVE SealHolds(u)'
  <2>1. CASE u = w
    <3>1. phase'[u] = "attached" /\ phase[u] = "load" /\ UNCHANGED <<sealed, stoppedBy>>
      BY <1>t, <1>6, <2>1 DEF Load, AttachHooks, WorkerTypes
    <3>2. sealed'[u] = {} /\ stoppedBy'[u] = "nobody" BY <1>c, <3>1 DEF SealHolds, Starting
    <3>3. QED BY <3>1, <3>2 DEF SealHolds
  <2>2. CASE u # w
    <3>1. UNCHANGED LocalSeal(u)
      BY <1>t, <1>6, <2>2 DEF Load, AttachHooks, WorkerTypes, ProtectTypes, LocalSeal
    <3>2. QED BY <1>f, <3>1
  <2>3. QED BY <2>1, <2>2
<1>7. ASSUME NEW w \in Worker, Arm(w) PROVE SealHolds(u)'
  <2>1. CASE u = w
    <3>1. phase'[u] = "armed" /\ phase[u] = "attached" /\ UNCHANGED <<sealed, stoppedBy>> /\ self_pid'[u]
      BY <1>t, <1>7, <2>1 DEF Arm, SetSelfPid, WorkerTypes, ProtectTypes
    <3>2. sealed'[u] = {} /\ stoppedBy'[u] = "nobody" BY <1>c, <3>1 DEF SealHolds, Starting
    <3>3. QED BY <3>1, <3>2 DEF SealHolds
  <2>2. CASE u # w
    <3>1. UNCHANGED LocalSeal(u)
      BY <1>t, <1>7, <2>2 DEF Arm, SetSelfPid, WorkerTypes, ProtectTypes, LocalSeal
    <3>2. QED BY <1>f, <3>1
  <2>3. QED BY <2>1, <2>2
<1>8. ASSUME NEW w \in Worker, Register(w) PROVE SealHolds(u)'
  <2>1. CASE u = w
    <3>1. phase'[u] = "armed" /\ phase[u] = "armed" /\ UNCHANGED <<sealed, stoppedBy, self_pid>>
      BY <1>8, <2>1 DEF Register, RegisterProtectedID
    <3>2. sealed'[u] = {} /\ stoppedBy'[u] = "nobody" /\ self_pid'[u]
      BY <1>c, <3>1 DEF SealHolds, Starting
    <3>3. QED BY <3>1, <3>2 DEF SealHolds
  <2>2. CASE u # w
    <3>1. UNCHANGED LocalSeal(u)
      BY <1>t, <1>8, <2>2 DEF Register, RegisterProtectedID, ProtectTypes, LocalSeal
    <3>2. QED BY <1>f, <3>1
  <2>3. QED BY <2>1, <2>2
<1>9. ASSUME NEW w \in Worker, GoOnline(w) PROVE SealHolds(u)'
  <2>1. CASE u = w
    <3>1. phase'[u] = "online" /\ phase[u] = "armed"
          /\ UNCHANGED <<stoppedBy, self_pid, links, protected_ids, held>>
      BY <1>t, <1>9, <2>1 DEF GoOnline, RegistrationDone, WorkerTypes
    <3>2. stoppedBy'[u] = "nobody" /\ self_pid'[u] BY <1>c, <3>1 DEF SealHolds, Starting
    <3>3. OutOfReach(u)' = OutOfReach(u) BY <3>1 DEF OutOfReach
    <3>4. sealed'[u] = IF CmdLink \in OutOfReach(u) THEN OutOfReach(u) ELSE {}
      BY <1>t, <1>9, <2>1 DEF GoOnline, RegistrationDone, ProtectTypes
    <3>5. QED BY <3>1, <3>2, <3>3, <3>4 DEF SealHolds, Starting
  <2>2. CASE u # w
    <3>1. UNCHANGED LocalSeal(u)
      BY <1>t, <1>9, <2>2 DEF GoOnline, RegistrationDone, WorkerTypes, ProtectTypes, LocalSeal
    <3>2. QED BY <1>f, <3>1
  <2>3. QED BY <2>1, <2>2
<1>10. ASSUME NEW w \in Worker, ReaderDone(w) PROVE SealHolds(u)'
  <2>1. UNCHANGED <<stoppedBy, protectVars>> BY <1>10 DEF ReaderDone
  <2>2. CASE u = w
    <3>1. phase'[u] = "closing" /\ phase[u] = "stopping" BY <1>t, <1>10, <2>2 DEF ReaderDone, WorkerTypes
    <3>2. OutOfReach(u)' = OutOfReach(u) BY <2>1 DEF protectVars, OutOfReach
    <3>3. QED BY <1>c, <2>1, <3>1, <3>2 DEF SealHolds, Alive, Starting, Ended, protectVars
  <2>3. CASE u # w
    <3>1. phase'[u] = phase[u] BY <1>t, <1>10, <2>3 DEF ReaderDone, WorkerTypes
    <3>2. QED BY <1>f, <2>1, <3>1 DEF protectVars, LocalSeal
  <2>4. QED BY <2>2, <2>3
<1>11. ASSUME NEW w \in Worker, Exit(w) \/ Crash(w) PROVE SealHolds(u)'
  <2>1. UNCHANGED <<stoppedBy, sealed>> BY <1>11 DEF Exit, Crash, Unhook
  <2>2. CASE u = w
    <3>1. phase'[u] \in Ended BY <1>t, <1>11, <2>2 DEF Exit, Crash, WorkerTypes, Ended
    <3>2. QED BY <1>c, <2>1, <3>1, SealEnded DEF SealHolds
  <2>3. CASE u # w
    <3>1. UNCHANGED LocalSeal(u)
      BY <1>t, <1>11, <2>1, <2>3 DEF Exit, Crash, Unhook, WorkerTypes, ProtectTypes, LocalSeal
    <3>2. QED BY <1>f, <3>1
  <2>4. QED BY <2>2, <2>3
<1>12. ASSUME NEW w \in Worker, NEW l \in Links, OutsideBpf(w, l) PROVE SealHolds(u)'
  <2>1. UNCHANGED <<phase, stoppedBy, self_pid, protected_ids, sealed>>
    BY <1>12 DEF OutsideBpf, GetLinkFd, Detach
  <2>2. CASE u = w
    <3>1. links'[u] \in {links[u], links[u] \ {l}} /\ held'[u] \in {held[u] \cup {l}, held[u] \ {l}}
      BY <1>t, <1>12, <2>2 DEF OutsideBpf, GetLinkFd, Detach, ProtectTypes
    <3>2. l \in held[u] \/ BpfCmdAllows(u, "other", Number[l])
      BY <1>12, <2>2 DEF OutsideBpf, GetLinkFd, Detach
    <3>3. Alive(u) /\ sealed[u] # {} => l \notin sealed[u]
      BY <1>c, <3>2 DEF SealHolds, OutOfReach, BpfCmdAllows
    <3>4. Alive(u) /\ sealed[u] # {} => sealed'[u] \subseteq OutOfReach(u)'
      BY <1>c, <2>1, <3>1, <3>3 DEF SealHolds, OutOfReach
    <3>5. QED BY <1>c, <2>1, <3>4 DEF SealHolds, Alive
  <2>3. CASE u # w
    <3>1. links'[u] = links[u] /\ held'[u] = held[u]
      BY <1>t, <1>12, <2>3 DEF OutsideBpf, GetLinkFd, Detach, ProtectTypes
    <3>2. QED BY <1>f, <2>1, <3>1 DEF LocalSeal
  <2>4. QED BY <2>2, <2>3
<1>13. ASSUME \/ SpawnFails \/ Purge \/ ChildDoneAfterTerm \/ ChildDone \/ Slept
              \/ \E sig \in {"HUP", "TERM"} : SignalSupervisor(sig)
              \/ \E w \in Worker : HandleRecord(w) \/ AuditStep(w) \/ AuditFails(w)
              \/ UNCHANGED vars
       PROVE  SealHolds(u)'
  <2>1. UNCHANGED <<phase, stoppedBy, protectVars>>
    BY <1>13 DEF SpawnFails, Purge, ChildDoneAfterTerm, ChildDone, Slept, SignalSupervisor,
                 HandleRecord, AuditStep, AuditFails, vars
  <2>2. QED BY <1>4, <2>1
<1>14. QED
  BY <1>2, <1>3, <1>5, <1>6, <1>7, <1>8, <1>9, <1>10, <1>11, <1>12, <1>13
  DEF Next, SupervisorStep, WorkerStep, Environment

-----------------------------------------------------------------------------
(* A worker whose phase and logger do not change keeps its accounts.       *)
LEMMA AuditFrame ==
    ASSUME NEW w, AuditHolds(w), phase'[w] = phase[w], audit'[w] = audit[w] PROVE AuditHolds(w)'
BY DEF AuditHolds

(* A worker that crashes has only lost what was in memory.                 *)
LEMMA AuditCrashed ==
    ASSUME NEW w, Sound(audit[w]), phase'[w] = "crashed", audit'[w] = Die(audit[w])
    PROVE  AuditHolds(w)'
BY DieSound DEF AuditHolds, Sound, Ended

(* Every step keeps every worker's accounts.                               *)
LEMMA AuditKept ==
    ASSUME SupInv, [Next]_vars, NEW u \in Worker PROVE AuditHolds(u)'
<1>t. SupTypes /\ WorkerTypes /\ AuditTypes BY TypeParts DEF SupInv
<1>c. CurIsNewest /\ AuditHolds(u) BY DEF SupInv, WorkersHold
<1>a. Sound(audit[u]) BY <1>t, <1>c DEF AuditHolds, AuditTypes, Sound
<1>f. ASSUME phase'[u] = phase[u], audit'[u] = audit[u] PROVE AuditHolds(u)'
  BY <1>c, <1>f, AuditFrame
<1>1. ASSUME NEW w \in Worker, NEW sig, NEW caller, Deliver(w, sig, caller) PROVE AuditHolds(u)'
  <2> DEFINE to == Received(w, sig, caller)
  <2>1. CASE u = w /\ to # phase[w]
    <3>1. phase'[u] = to BY <1>t, <1>1, <2>1 DEF Deliver, WorkerTypes
    <3>2. CASE phase[w] \in Starting /\ to = "crashed"
      <4>1. audit' = [audit EXCEPT ![w] = Die(@)] BY <1>1, <3>2 DEF Deliver, Starting
      <4>2. audit'[u] = Die(audit[u]) BY <1>t, <2>1, <4>1 DEF AuditTypes
      <4>3. QED BY <1>a, <3>1, <3>2, <4>2, AuditCrashed
    <3>3. CASE phase[w] = "online" /\ to = "stopping"
      <4>1. audit'[u] = audit[u] BY <1>1, <3>3 DEF Deliver
      <4>2. QED BY <1>c, <2>1, <3>1, <3>3, <4>1 DEF AuditHolds, Ended
    <3>4. QED BY <1>t, <2>1, <3>2, <3>3, ReceivedPhase
  <2>2. CASE u = w /\ to = phase[w]
    <3>1. audit' = audit BY <1>1, <2>2 DEF Deliver
    <3>2. phase'[u] = phase[u] BY <1>t, <1>1, <2>2 DEF Deliver, WorkerTypes
    <3>3. QED BY <1>f, <3>1, <3>2
  <2>3. CASE u # w
    <3>1. phase'[u] = phase[u] /\ audit'[u] = audit[u]
      BY <1>t, <1>1, <2>3 DEF Deliver, WorkerTypes, AuditTypes
    <3>2. QED BY <1>f, <3>1
  <2>4. QED BY <2>1, <2>2, <2>3
<1>2. ASSUME NEW w \in Worker, NEW sig \in {"HUP", "TERM"}, NEW caller \in {"init", "other"},
             SignalWorker(w, sig, caller)
      PROVE  AuditHolds(u)'
  BY <1>1, <1>2 DEF SignalWorker
<1>3. ASSUME ForwardHup \/ ForwardTerm PROVE AuditHolds(u)'
  <2>1. cur \in Worker BY <1>c, <1>3 DEF CurIsNewest, ForwardHup, ForwardTerm
  <2>2. PICK sig : Deliver(cur, sig, "supervisor") BY <1>3 DEF ForwardHup, ForwardTerm
  <2>3. QED BY <1>1, <2>1, <2>2
<1>4. ASSUME NEW w \in Worker, u = w, phase[w] \notin Ended \cup {"closing"},
             phase'[w] \notin Ended \cup {"closing"}, UNCHANGED audit
      PROVE  AuditHolds(u)'
  BY <1>c, <1>4 DEF AuditHolds, Ended
<1>5. ASSUME Spawn PROVE AuditHolds(u)'
  <2>1. UNCHANGED audit BY <1>5 DEF Spawn
  <2>2. CASE u = cur + 1
    <3>1. phase[u] = "unborn" BY <1>t, <1>c, <2>2 DEF SupTypes, CurIsNewest, Worker
    <3>2. phase'[u] = "load" BY <1>t, <1>5, <2>2 DEF Spawn, WorkerTypes
    <3>3. QED BY <1>4, <2>1, <3>1, <3>2 DEF Ended
  <2>3. CASE u # cur + 1
    <3>1. phase'[u] = phase[u] BY <1>t, <1>5, <2>3 DEF Spawn, WorkerTypes
    <3>2. QED BY <1>f, <2>1, <3>1
  <2>4. QED BY <2>2, <2>3
<1>6. ASSUME NEW w \in Worker, Load(w) \/ Arm(w) \/ GoOnline(w) PROVE AuditHolds(u)'
  <2>1. UNCHANGED audit BY <1>6 DEF Load, Arm, GoOnline
  <2>2. CASE u = w
    <3>1. phase[u] \in Starting /\ phase'[u] \in {"attached", "armed", "online"}
      BY <1>t, <1>6, <2>2 DEF Load, Arm, GoOnline, WorkerTypes, Starting
    <3>2. QED BY <1>4, <2>1, <2>2, <3>1 DEF Starting, Ended
  <2>3. CASE u # w
    <3>1. phase'[u] = phase[u] BY <1>t, <1>6, <2>3 DEF Load, Arm, GoOnline, WorkerTypes
    <3>2. QED BY <1>f, <2>1, <3>1
  <2>4. QED BY <2>2, <2>3
<1>7. ASSUME NEW w \in Worker, HandleRecord(w) PROVE AuditHolds(u)'
  <2>1. UNCHANGED phase BY <1>7 DEF HandleRecord
  <2>2. CASE u = w
    <3>1. audit'[u] = Log(audit[u]) /\ phase[u] \in {"online", "stopping"}
      BY <1>t, <1>7, <2>2 DEF HandleRecord, AuditTypes
    <3>2. audit[u].open /\ (~audit[u].failed => audit[u].lost = 0)
      BY <1>c, <3>1 DEF AuditHolds, Ended
    <3>3. audit[u].running \/ audit[u].failed BY <1>c, <3>1, <3>2 DEF AuditHolds, Ended
    <3>4. /\ Accounted(Log(audit[u])) /\ Log(audit[u]).open
          /\ Log(audit[u]).running \/ Log(audit[u]).failed
          /\ ~Log(audit[u]).failed => Log(audit[u]).lost = 0
      BY <1>a, <3>2, <3>3, LogSound DEF Sound
    <3>5. QED BY <2>1, <3>1, <3>4 DEF AuditHolds
  <2>3. CASE u # w
    <3>1. audit'[u] = audit[u] BY <1>t, <1>7, <2>3 DEF HandleRecord, AuditTypes
    <3>2. QED BY <1>f, <2>1, <3>1
  <2>4. QED BY <2>2, <2>3
<1>8. ASSUME NEW w \in Worker, AuditStep(w) \/ AuditFails(w) PROVE AuditHolds(u)'
  <2>1. UNCHANGED phase /\ Alive(w) BY <1>8 DEF AuditStep, AuditFails
  <2>2. CASE u = w
    <3>1. CASE CanWrite(audit[u]) /\ audit'[u] = Write(audit[u])
      <4>1. Write(audit[u]).running BY <1>a, <3>1, WriteSound DEF CanWrite
      <4>2. /\ Accounted(Write(audit[u])) /\ Write(audit[u]).open = audit[u].open
            /\ Write(audit[u]).failed = audit[u].failed /\ Write(audit[u]).lost = audit[u].lost
        BY <1>a, <3>1, WriteSound DEF Sound
      <4>3. QED BY <1>c, <2>1, <3>1, <4>1, <4>2 DEF AuditHolds
    <3>2. CASE CanFinish(audit[u]) /\ audit'[u] = Finish(audit[u])
      <4>1. ~audit[u].open BY <3>2 DEF CanFinish
      <4>2. QED BY <1>a, <1>c, <2>1, <3>2, <4>1, FinishSound DEF AuditHolds, Sound
    <3>3. CASE CanFail(audit[u]) /\ audit'[u] = WriteFails(audit[u])
      <4>1. CanWrite(audit[u]) BY <3>3 DEF CanFail
      <4>2. QED BY <1>a, <1>c, <2>1, <3>3, <4>1, FailSound DEF AuditHolds, Sound
    <3>4. CASE audit'[u] = FinishFails(audit[u])
      BY <1>a, <1>c, <2>1, <3>4, FinishFailSound DEF AuditHolds, Sound
    <3>5. QED BY <1>t, <1>8, <2>2, <3>1, <3>2, <3>3, <3>4 DEF AuditStep, AuditFails, AuditTypes
  <2>3. CASE u # w
    <3>1. audit'[u] = audit[u] BY <1>t, <1>8, <2>3 DEF AuditStep, AuditFails, AuditTypes
    <3>2. QED BY <1>f, <2>1, <3>1
  <2>4. QED BY <2>2, <2>3
<1>9. ASSUME NEW w \in Worker, ReaderDone(w) PROVE AuditHolds(u)'
  <2>1. CASE u = w
    <3>1. phase[u] = "stopping" /\ phase'[u] = "closing" /\ audit'[u] = Close(audit[u])
      BY <1>t, <1>9, <2>1 DEF ReaderDone, WorkerTypes, AuditTypes
    <3>2. audit[u].open BY <1>c, <3>1 DEF AuditHolds, Ended
    <3>3. audit[u].running \/ audit[u].failed BY <1>c, <3>1, <3>2 DEF AuditHolds, Ended
    <3>4. ~audit[u].failed => audit[u].lost = 0 BY <1>c, <3>1 DEF AuditHolds
    <3>5. QED BY <1>a, <3>1, <3>3, <3>4, CloseSound DEF AuditHolds, Sound
  <2>2. CASE u # w
    <3>1. phase'[u] = phase[u] /\ audit'[u] = audit[u]
      BY <1>t, <1>9, <2>2 DEF ReaderDone, WorkerTypes, AuditTypes
    <3>2. QED BY <1>f, <3>1
  <2>3. QED BY <2>1, <2>2
<1>10. ASSUME NEW w \in Worker, Exit(w) PROVE AuditHolds(u)'
  <2>1. CASE u = w
    <3>1. phase[u] = "closing" /\ phase'[u] = "exited" /\ audit'[u] = Die(audit[u]) /\ ~audit[u].running
      BY <1>t, <1>10, <2>1 DEF Exit, WorkerTypes, AuditTypes
    <3>2. ~audit[u].failed => audit[u].queue = 0 /\ audit[u].buf = 0 /\ audit[u].lost = 0
      BY <1>c, <3>1 DEF AuditHolds, Ended
    <3>3. QED BY <1>a, <3>1, <3>2, DieSound DEF AuditHolds, Sound, Ended
  <2>2. CASE u # w
    <3>1. phase'[u] = phase[u] /\ audit'[u] = audit[u]
      BY <1>t, <1>10, <2>2 DEF Exit, WorkerTypes, AuditTypes
    <3>2. QED BY <1>f, <3>1
  <2>3. QED BY <2>1, <2>2
<1>11. ASSUME NEW w \in Worker, Crash(w) PROVE AuditHolds(u)'
  <2>1. CASE u = w
    <3>1. phase'[u] = "crashed" /\ audit'[u] = Die(audit[u])
      BY <1>t, <1>11, <2>1 DEF Crash, WorkerTypes, AuditTypes
    <3>2. QED BY <1>a, <3>1, AuditCrashed
  <2>2. CASE u # w
    <3>1. phase'[u] = phase[u] /\ audit'[u] = audit[u]
      BY <1>t, <1>11, <2>2 DEF Crash, WorkerTypes, AuditTypes
    <3>2. QED BY <1>f, <3>1
  <2>3. QED BY <2>1, <2>2
<1>12. ASSUME \/ SpawnFails \/ Purge \/ ChildDoneAfterTerm \/ ChildDone \/ Slept
              \/ \E sig \in {"HUP", "TERM"} : SignalSupervisor(sig)
              \/ \E w \in Worker : Register(w) \/ \E l \in Links : OutsideBpf(w, l)
              \/ UNCHANGED vars
       PROVE  AuditHolds(u)'
  <2>1. UNCHANGED <<phase, audit>>
    BY <1>12 DEF SpawnFails, Purge, ChildDoneAfterTerm, ChildDone, Slept, SignalSupervisor,
                 Register, OutsideBpf, vars
  <2>2. QED BY <1>f, <2>1
<1>13. QED
  BY <1>2, <1>3, <1>5, <1>6, <1>7, <1>8, <1>9, <1>10, <1>11, <1>12
  DEF Next, SupervisorStep, WorkerStep, Environment

(* Every step keeps the invariant.                                         *)
LEMMA SupInductive == SupInv /\ [Next]_vars => SupInv'
<1> SUFFICES ASSUME SupInv, [Next]_vars PROVE SupInv' OBVIOUS
<1>1. TypeOK' /\ CurIsNewest' BY TypesKept, NewestKept
<1>2. \A u \in Worker : SealHolds(u)' /\ AuditHolds(u)' BY SealKept, AuditKept
<1>3. QED BY <1>1, <1>2 DEF SupInv, WorkersHold

-----------------------------------------------------------------------------
(* Every variable of the supervisor, its workers and their hooks keeps its *)
(* type.                                                                   *)
THEOREM TypeCorrect == Spec => []TypeOK
<1>1. SupInv => TypeOK BY DEF SupInv
<1>2. QED BY <1>1, SupInitially, SupInductive, PTL DEF Spec

(* While a worker lives, nobody outside takes a link away that it had      *)
(* sealed, for any links, ids (colliding ones too), size of the map and    *)
(* descriptor numbers: lsm_bpf_cmd judges a detach by such a number, which *)
(* proves nothing, but hands out no descriptor of a sealed link either.    *)
THEOREM SealsHold == Spec => []SealedStay
<1>1. SupInv => SealedStay
  BY DEF SupInv, WorkersHold, SealHolds, OutOfReach, SealedStay
<1>2. QED BY <1>1, SupInitially, SupInductive, PTL DEF Spec

(* A worker whose task_kill link was sealed is stopped by a signal of PID  *)
(* 1 or by none, although a detach of that link is not judged by its id.   *)
THEOREM OnlyInitStops == Spec => []SealedStoppedByInit
<1>1. SupInv => SealedStoppedByInit
  BY DEF SupInv, WorkersHold, SealHolds, SealedStoppedByInit
<1>2. QED BY <1>1, SupInitially, SupInductive, PTL DEF Spec

(* Every audited decision is in the file, in memory, dropped or lost, and  *)
(* a clean exit loses nothing but to a failed write.                       *)
THEOREM ExitComplete == Spec => []CleanExitIsComplete
<1>1. SupInv => CleanExitIsComplete
  BY DEF SupInv, WorkersHold, AuditHolds, CleanExitIsComplete
<1>2. QED BY <1>1, SupInitially, SupInductive, PTL DEF Spec

-----------------------------------------------------------------------------
(* The workers that live, and those the supervisor has lost sight of.      *)
Living == {w \in Worker : Alive(w)}
Strays == {w \in Worker : Alive(w) /\ (w # cur \/ sup = "exited")}

(* A SIGHUP may add one stray.  When the supervisor is about to start a    *)
(* worker, all that live are strays already.                               *)
StrayInv ==
    /\ Cardinality(Strays) <= hups
    /\ sup \in {"spawn", "sleep"} => Cardinality(Living) <= hups

(* A set of workers has no more elements than one it is part of.           *)
LEMMA FewerWorkers ==
    ASSUME NEW S \in SUBSET Worker, NEW R \in SUBSET S
    PROVE  /\ IsFiniteSet(S) /\ Cardinality(S) \in Nat /\ Cardinality(R) \in Nat
           /\ Cardinality(R) <= Cardinality(S)
<1>1. IsFiniteSet(Worker)
  BY FS_Interval, SelfProtectAssumption DEF SelfProtectAssumption, Worker
<1>2. IsFiniteSet(S) BY <1>1, FS_Subset
<1>3. QED BY <1>2, FS_Subset, FS_CardinalityType

(* No step but Spawn brings a worker to life.                              *)
LEMMA OnlySpawnBrings ==
    ASSUME SupInv, [Next]_vars, ~Spawn, NEW u \in Worker, Alive(u)' PROVE Alive(u)
<1>t. WorkerTypes /\ CurIsNewest BY TypeParts DEF SupInv
<1>1. ASSUME NEW w \in Worker, NEW sig, NEW caller, Deliver(w, sig, caller) PROVE Alive(u)
  <2>1. CASE u = w
    <3>1. phase'[u] = Received(w, sig, caller) BY <1>t, <1>1, <2>1 DEF Deliver, WorkerTypes
    <3>2. QED BY <1>t, <2>1, <3>1, ReceivedPhase DEF Alive
  <2>2. CASE u # w BY <1>t, <1>1, <2>2 DEF Deliver, WorkerTypes, Alive
  <2>3. QED BY <2>1, <2>2
<1>2. ASSUME NEW w \in Worker, NEW sig \in {"HUP", "TERM"}, NEW caller \in {"init", "other"},
             SignalWorker(w, sig, caller)
      PROVE  Alive(u)
  BY <1>1, <1>2 DEF SignalWorker
<1>3. ASSUME ForwardHup \/ ForwardTerm PROVE Alive(u)
  <2>1. cur \in Worker BY <1>t, <1>3 DEF CurIsNewest, ForwardHup, ForwardTerm
  <2>2. PICK sig : Deliver(cur, sig, "supervisor") BY <1>3 DEF ForwardHup, ForwardTerm
  <2>3. QED BY <1>1, <2>1, <2>2
<1>4. ASSUME NEW w \in Worker, Load(w) \/ Arm(w) \/ GoOnline(w) \/ ReaderDone(w) \/ Exit(w) \/ Crash(w)
      PROVE  Alive(u)
  <2>1. \A v \in Worker : v # w => phase'[v] = phase[v]
    BY <1>t, <1>4 DEF Load, Arm, GoOnline, ReaderDone, Exit, Crash, WorkerTypes
  <2>2. Alive(w) BY <1>4 DEF Load, Arm, GoOnline, ReaderDone, Exit, Crash, Alive, Ended
  <2>3. QED BY <2>1, <2>2 DEF Alive
<1>5. ASSUME \/ SpawnFails \/ Purge \/ ChildDoneAfterTerm \/ ChildDone \/ Slept
             \/ \E sig \in {"HUP", "TERM"} : SignalSupervisor(sig)
             \/ \E w \in Worker : \/ Register(w) \/ HandleRecord(w) \/ AuditStep(w) \/ AuditFails(w)
                                  \/ \E l \in Links : OutsideBpf(w, l)
             \/ UNCHANGED vars
      PROVE  Alive(u)
  <2>1. UNCHANGED phase
    BY <1>5 DEF SpawnFails, Purge, ChildDoneAfterTerm, ChildDone, Slept, SignalSupervisor,
                Register, HandleRecord, AuditStep, AuditFails, OutsideBpf, vars
  <2>2. QED BY <2>1 DEF Alive
<1>6. QED
  BY <1>2, <1>3, <1>4, <1>5 DEF Next, SupervisorStep, WorkerStep, Environment

(* Every step but the supervisor's own leaves sup, cur and hups alone.     *)
LEMMA SupOnlyItself ==
    ASSUME [Next]_vars, ~SupervisorStep, ~SpawnFails PROVE UNCHANGED <<sup, cur, hups>>
BY DEF Next, SupervisorStep, WorkerStep, Environment, vars, supVars, Purge, SignalSupervisor,
       SignalWorker, Load, Arm, Register, GoOnline, HandleRecord, AuditStep, AuditFails,
       ReaderDone, Exit, Crash, OutsideBpf

(* Every step keeps the count of strays.                                   *)
LEMMA StraysKept == SupInv /\ StrayInv /\ [Next]_vars => StrayInv'
<1> SUFFICES ASSUME SupInv, StrayInv, [Next]_vars PROVE StrayInv' OBVIOUS
<1>t. SupTypes /\ WorkerTypes /\ CurIsNewest BY TypeParts DEF SupInv
<1>h. hups \in Nat BY <1>t DEF SupTypes
<1>s. Strays \subseteq Living /\ Living \subseteq Worker /\ Living' \subseteq Worker /\ Strays' \subseteq Living'
  BY DEF Strays, Living
<1>n. Cardinality(Strays') \in Nat /\ Cardinality(Living') \in Nat
  BY <1>s, FewerWorkers
<1>1. CASE Spawn
  <2>1. Strays' \subseteq Living
    <3>1. SUFFICES ASSUME NEW w \in Strays' PROVE w \in Living OBVIOUS
    <3>2. w \in Worker /\ w # cur' /\ Alive(w)' BY <1>1, <3>1 DEF Strays, Spawn
    <3>3. phase'[w] = phase[w] BY <1>t, <1>1, <3>2 DEF Spawn, WorkerTypes
    <3>4. QED BY <3>2, <3>3 DEF Living, Alive
  <2>2. Cardinality(Living) <= hups /\ hups' = hups /\ sup' = "select"
    BY <1>1 DEF Spawn, StrayInv
  <2>3. Cardinality(Strays') <= Cardinality(Living) /\ Cardinality(Living) \in Nat
    BY <1>s, <2>1, FewerWorkers
  <2>4. QED BY <1>h, <1>n, <2>2, <2>3 DEF StrayInv
<1>2. CASE ~Spawn
  <2>1. Living' \subseteq Living BY <1>2, OnlySpawnBrings DEF Living
  <2>2. Cardinality(Living') <= Cardinality(Living) /\ Cardinality(Living) \in Nat
    BY <1>s, <2>1, FewerWorkers
  <2>3. Cardinality(Strays') <= Cardinality(Living') BY <1>s, FewerWorkers
  <2>4. Cardinality(Strays) \in Nat BY <1>s, FewerWorkers
  <2>e. ASSUME phase[cur] \in Ended \/ sup \in {"spawn", "sleep"}, UNCHANGED hups PROVE StrayInv'
    <3>1. CASE sup \in {"spawn", "sleep"}
      BY <1>h, <1>n, <2>2, <2>3, <2>e, <3>1 DEF StrayInv
    <3>2. CASE phase[cur] \in Ended
      <4>1. Living \subseteq Strays BY <3>2 DEF Living, Strays, Alive
      <4>2. Cardinality(Living) <= Cardinality(Strays) BY <1>s, <4>1, FewerWorkers
      <4>3. QED BY <1>h, <1>n, <2>2, <2>3, <2>4, <2>e, <4>2 DEF StrayInv
    <3>3. QED BY <2>e, <3>1, <3>2
  <2>5. CASE ForwardHup
    <3>1. Living \subseteq Strays \cup {cur} BY DEF Living, Strays
    <3>2. cur \in Worker BY <1>t, <2>5 DEF CurIsNewest, ForwardHup
    <3>3. IsFiniteSet(Strays) BY <1>s, FewerWorkers
    <3>4. Cardinality(Strays \cup {cur}) <= Cardinality(Strays) + 1
      BY <2>4, <3>3, FS_AddElement
    <3>5. Strays \cup {cur} \in SUBSET Worker BY <1>s, <3>2
    <3>6. Cardinality(Living) <= Cardinality(Strays \cup {cur}) /\ Cardinality(Strays \cup {cur}) \in Nat
      BY <3>1, <3>5, FewerWorkers
    <3>7. hups' = hups + 1 BY <2>5 DEF ForwardHup
    <3>8. QED BY <1>h, <1>n, <2>2, <2>3, <2>4, <3>4, <3>6, <3>7 DEF StrayInv
  <2>6. CASE ForwardTerm
    <3>1. sup = "select" /\ sup' = "wait" /\ UNCHANGED <<cur, hups>> BY <2>6 DEF ForwardTerm
    <3>2. Strays' \subseteq Strays BY <2>1, <3>1 DEF Strays, Living
    <3>3. Cardinality(Strays') <= Cardinality(Strays) BY <1>s, <3>2, FewerWorkers
    <3>4. QED BY <1>h, <1>n, <2>4, <3>1, <3>3 DEF StrayInv
  <2>7. CASE ChildDoneAfterTerm \/ ChildDone BY <2>e, <2>7 DEF ChildDoneAfterTerm, ChildDone
  <2>8. CASE Slept \/ SpawnFails BY <2>e, <2>8 DEF Slept, SpawnFails
  <2>9. CASE ~SupervisorStep /\ ~SpawnFails
    <3>1. UNCHANGED <<sup, cur, hups>> BY <2>9, SupOnlyItself
    <3>2. Strays' \subseteq Strays BY <2>1, <3>1 DEF Strays, Living
    <3>3. Cardinality(Strays') <= Cardinality(Strays) BY <1>s, <3>2, FewerWorkers
    <3>4. QED BY <1>h, <1>n, <2>2, <2>4, <3>1, <3>3 DEF StrayInv
  <2>10. QED BY <1>2, <2>5, <2>6, <2>7, <2>8, <2>9 DEF SupervisorStep
<1>3. QED BY <1>1, <1>2

(* The supervisor loses sight of at most one worker per SIGHUP, however    *)
(* signals, crashes and restarts interleave.                               *)
THEOREM StraysCounted == Spec => []StrayOnlyByHup
<1>1. Init => StrayInv
  <2>1. ASSUME Init PROVE StrayInv
    <3>1. Living = {} /\ Strays = {} BY <2>1 DEF Init, Living, Strays, Alive
    <3>2. QED BY <2>1, <3>1, FS_EmptySet DEF Init, StrayInv
  <2>2. QED BY <2>1
<1>2. StrayInv => StrayOnlyByHup BY DEF StrayInv, StrayOnlyByHup, Strays
<1>3. QED BY <1>1, <1>2, SupInitially, SupInductive, StraysKept, PTL DEF Spec
=============================================================================
