----------------------------- MODULE Supervisor -----------------------------
(* runSupervisor and the life of the worker processes it starts (main.go): *)
(* loading and arming the hooks, the event loop with its audit log, the    *)
(* shutdown sequence, crashes, restarts, and the signals that an operator, *)
(* PID 1 and the supervisor send.                                          *)
EXTENDS SelfProtect, AuditLog

CONSTANTS
    MaxSignals,  \* bound: signals sent from outside
    MaxRestarts  \* maxRestarts

ASSUME SupervisorAssumption == MaxSignals \in Nat /\ MaxRestarts \in Nat

VARIABLES
    sup,        \* where runSupervisor is
    cur,        \* cmd: the newest worker, 0 before the first
    sigCh,      \* the one-slot channel of signal.Notify
    recent,     \* len(restartTimestamps)
    phase,      \* where each worker's main is
    audit,      \* each worker's audit.Logger
    signals,    \* bound: signals sent from outside so far
    records,    \* bound: records audited so far, by all workers
    hups,       \* history: SIGHUPs that the supervisor took from sigCh
    stoppedBy   \* history: whose signal stopped or killed the worker

supVars == <<sup, cur, sigCh, recent, hups>>
outsideVars == <<signals, records>>
vars == <<supVars, phase, audit, outsideVars, stoppedBy, protectVars>>

(* Up to online the process has the default signal dispositions.           *)
Starting == {"load", "attached", "armed"}
Stopping == {"stopping", "closing"}
Ended == {"exited", "crashed"}
Phases == {"unborn", "online"} \cup Starting \cup Stopping \cup Ended
Alive(w) == phase[w] \notin Ended \cup {"unborn"}
NoSignal == "none"

Init ==
    /\ sup = "spawn"
    /\ cur = 0
    /\ sigCh = NoSignal
    /\ recent = 0
    /\ phase = [w \in Worker |-> "unborn"]
    /\ audit = [w \in Worker |-> NewLogger]
    /\ signals = 0
    /\ records = 0
    /\ hups = 0
    /\ stoppedBy = [w \in Worker |-> "nobody"]
    /\ InitProtect

-----------------------------------------------------------------------------
(* Signals.  Deliver is what kill(2) does to worker w: the hook may refuse *)
(* it; before signal.Notify the process dies of it; SIGHUP reloads the     *)
(* configuration, SIGTERM begins the shutdown.                             *)
Received(w, sig, caller) ==
    IF ~Alive(w) \/ ~TaskKillAllows(w, caller) THEN phase[w]
    ELSE IF phase[w] \in Starting THEN "crashed"
    ELSE IF phase[w] = "online" /\ sig = "TERM" THEN "stopping" ELSE phase[w]

Deliver(w, sig, caller) ==
    LET to == Received(w, sig, caller) IN
    /\ phase' = [phase EXCEPT ![w] = to]
    /\ stoppedBy' = [stoppedBy EXCEPT ![w] = IF to # phase[w] THEN caller ELSE @]
    /\ IF to = "crashed" /\ phase[w] # "crashed"
       THEN Unhook(w) /\ audit' = [audit EXCEPT ![w] = Die(@)]
       ELSE UNCHANGED <<protectVars, audit>>

SignalWorker(w, sig, caller) ==
    /\ signals < MaxSignals
    /\ Alive(w)
    /\ signals' = signals + 1
    /\ Deliver(w, sig, caller)
    /\ UNCHANGED <<supVars, records>>

(* signal.Notify does not wait for room in the channel.                    *)
SignalSupervisor(sig) ==
    /\ signals < MaxSignals
    /\ sup # "exited"
    /\ signals' = signals + 1
    /\ sigCh' = IF sigCh = NoSignal THEN sig ELSE sigCh
    /\ UNCHANGED <<sup, cur, recent, hups, records, phase, audit, stoppedBy,
                   protectVars>>

-----------------------------------------------------------------------------
(* The supervisor.  The check of restartTimestamps only logs.              *)

(* Mutant: the check stops the restarts.                                   *)
SpawnLimited ==
    /\ sup = "spawn"
    /\ recent < MaxRestarts
    /\ cur + 1 \in Worker
    /\ cur' = cur + 1
    /\ phase' = [phase EXCEPT ![cur + 1] = "load"]
    /\ sup' = "select"
    /\ UNCHANGED <<sigCh, recent, hups, audit, outsideVars, stoppedBy, protectVars>>

Spawn ==
    /\ sup = "spawn"
    /\ cur + 1 \in Worker
    /\ cur' = cur + 1
    /\ phase' = [phase EXCEPT ![cur + 1] = "load"]
    /\ sup' = "select"
    /\ UNCHANGED <<sigCh, recent, hups, audit, outsideVars, stoppedBy, protectVars>>

SpawnFails ==
    /\ sup = "spawn"
    /\ cur + 1 \in Worker
    /\ sup' = "exited"
    /\ UNCHANGED <<cur, sigCh, recent, hups, phase, audit, outsideVars, stoppedBy,
                   protectVars>>

(* A timestamp leaves the five-minute window.                              *)
Purge ==
    /\ sup = "spawn"
    /\ recent > 0
    /\ recent' = recent - 1
    /\ UNCHANGED <<sup, cur, sigCh, hups, phase, audit, outsideVars, stoppedBy,
                   protectVars>>

ForwardHup ==
    /\ sup = "select"
    /\ sigCh = "HUP"
    /\ sigCh' = NoSignal
    /\ hups' = hups + 1
    /\ sup' = "spawn"
    /\ Deliver(cur, "HUP", "supervisor")
    /\ UNCHANGED <<cur, recent, outsideVars>>

ForwardTerm ==
    /\ sup = "select"
    /\ sigCh = "TERM"
    /\ sigCh' = NoSignal
    /\ sup' = "wait"
    /\ Deliver(cur, "TERM", "supervisor")
    /\ UNCHANGED <<cur, recent, hups, outsideVars>>

(* Mutant: the supervisor exits without waiting for childDone.             *)
ChildDoneUnwaited ==
    /\ sup = "wait"
    /\ sup' = "exited"
    /\ UNCHANGED <<cur, sigCh, recent, hups, phase, audit, outsideVars, stoppedBy,
                   protectVars>>

ChildDoneAfterTerm ==
    /\ sup = "wait"
    /\ phase[cur] \in Ended
    /\ sup' = "exited"
    /\ UNCHANGED <<cur, sigCh, recent, hups, phase, audit, outsideVars, stoppedBy,
                   protectVars>>

(* childDone is received: a clean exit ends the supervisor.                *)
ChildDone ==
    /\ sup = "select"
    /\ phase[cur] \in Ended
    /\ sup' = IF phase[cur] = "exited" THEN "exited" ELSE "sleep"
    /\ recent' = IF recent < MaxRestarts THEN recent + 1 ELSE recent
    /\ UNCHANGED <<cur, sigCh, hups, phase, audit, outsideVars, stoppedBy, protectVars>>

Slept ==
    /\ sup = "sleep"
    /\ sup' = "spawn"
    /\ UNCHANGED <<cur, sigCh, recent, hups, phase, audit, outsideVars, stoppedBy,
                   protectVars>>

-----------------------------------------------------------------------------
(* A worker.  NewManager attaches the hooks, sets self_pid, registers the  *)
(* ids; then main calls signal.Notify and starts the event loop.           *)
Load(w) ==
    /\ phase[w] = "load"
    /\ phase' = [phase EXCEPT ![w] = "attached"]
    /\ AttachHooks(w)
    /\ UNCHANGED <<supVars, audit, outsideVars, stoppedBy>>

Arm(w) ==
    /\ phase[w] = "attached"
    /\ phase' = [phase EXCEPT ![w] = "armed"]
    /\ SetSelfPid(w)
    /\ UNCHANGED <<supVars, audit, outsideVars, stoppedBy>>

Register(w) ==
    /\ phase[w] = "armed"
    /\ RegisterProtectedID(w)
    /\ UNCHANGED <<supVars, phase, audit, outsideVars, stoppedBy>>

GoOnline(w) ==
    /\ phase[w] = "armed"
    /\ phase' = [phase EXCEPT ![w] = "online"]
    /\ RegistrationDone(w)
    /\ UNCHANGED <<supVars, audit, outsideVars, stoppedBy>>

(* The reader goroutine handles a record that is audited; it still may     *)
(* after quit was closed, until it looks at it.                            *)
HandleRecord(w) ==
    /\ phase[w] \in {"online", "stopping"}
    /\ records < MaxLogs
    /\ records' = records + 1
    /\ audit' = [audit EXCEPT ![w] = Log(@)]
    /\ UNCHANGED <<supVars, phase, signals, stoppedBy, protectVars>>

AuditStep(w) ==
    /\ Alive(w)
    /\ \/ CanWrite(audit[w]) /\ audit' = [audit EXCEPT ![w] = Write(@)]
       \/ CanFinish(audit[w]) /\ audit' = [audit EXCEPT ![w] = Finish(@)]
    /\ UNCHANGED <<supVars, phase, outsideVars, stoppedBy, protectVars>>

(* The disk is full.                                                       *)
AuditFails(w) ==
    /\ Alive(w)
    /\ \/ CanFail(audit[w]) /\ audit' = [audit EXCEPT ![w] = WriteFails(@)]
       \/ /\ CanFinish(audit[w]) /\ audit[w].buf > 0
          /\ audit' = [audit EXCEPT ![w] = FinishFails(@)]
    /\ UNCHANGED <<supVars, phase, outsideVars, stoppedBy, protectVars>>

(* wg.Wait returned: no record is handled any more.  The servers and the   *)
(* dispatcher are closed, then the deferred Close of the audit logger is   *)
(* called.                                                                 *)
ReaderDone(w) ==
    /\ phase[w] = "stopping"
    /\ phase' = [phase EXCEPT ![w] = "closing"]
    /\ audit' = [audit EXCEPT ![w] = Close(@)]
    /\ UNCHANGED <<supVars, outsideVars, stoppedBy, protectVars>>

(* The deferred mgr.Close is the last.                                     *)
Exit(w) ==
    /\ phase[w] = "closing"
    /\ ~audit[w].running
    /\ phase' = [phase EXCEPT ![w] = "exited"]
    /\ audit' = [audit EXCEPT ![w] = Die(@)]
    /\ Unhook(w)
    /\ UNCHANGED <<supVars, outsideVars, stoppedBy>>

(* os.Exit(1) of a failed start, a panic, the OOM killer.                  *)
Crash(w) ==
    /\ Alive(w)
    /\ phase' = [phase EXCEPT ![w] = "crashed"]
    /\ audit' = [audit EXCEPT ![w] = Die(@)]
    /\ Unhook(w)
    /\ UNCHANGED <<supVars, outsideVars, stoppedBy>>

(* Some other process gets hold of a link, or detaches one it holds.       *)
OutsideBpf(w, l) ==
    /\ Alive(w)
    /\ GetLinkFd(w, l) \/ \E fd \in Descriptors : Detach(w, l, fd)
    /\ UNCHANGED <<supVars, phase, audit, outsideVars, stoppedBy>>

-----------------------------------------------------------------------------
SupervisorStep ==
    \/ Spawn \/ ForwardHup \/ ForwardTerm \/ ChildDoneAfterTerm \/ ChildDone \/ Slept

WorkerStep(w) ==
    \/ Load(w) \/ Arm(w) \/ Register(w) \/ GoOnline(w)
    \/ ReaderDone(w) \/ Exit(w) \/ AuditStep(w)

Environment ==
    \/ SpawnFails \/ Purge
    \/ \E sig \in {"HUP", "TERM"} :
          \/ SignalSupervisor(sig)
          \/ \E w \in Worker, caller \in {"init", "other"} : SignalWorker(w, sig, caller)
    \/ \E w \in Worker :
          \/ HandleRecord(w) \/ AuditFails(w) \/ Crash(w)
          \/ \E l \in Links : OutsideBpf(w, l)

Next == SupervisorStep \/ (\E w \in Worker : WorkerStep(w)) \/ Environment

(* The Go scheduler runs every goroutine that can run, and the kernel      *)
(* every process.                                                          *)
Spec ==
    /\ Init /\ [][Next]_vars
    /\ WF_vars(SupervisorStep)
    /\ \A w \in Worker : WF_vars(WorkerStep(w))

-----------------------------------------------------------------------------
TypeOK ==
    /\ sup \in {"spawn", "select", "wait", "sleep", "exited"}
    /\ cur \in Worker \cup {0}
    /\ sigCh \in {NoSignal, "HUP", "TERM"}
    /\ recent \in 0..MaxRestarts
    /\ phase \in [Worker -> Phases]
    /\ audit \in [Worker -> Loggers]
    /\ signals \in 0..MaxSignals
    /\ records \in 0..MaxLogs
    /\ hups \in Nat
    /\ stoppedBy \in [Worker -> {"nobody", "init", "other", "supervisor"}]
    /\ mlinks \in [Worker -> SUBSET Links]
    /\ links \in [Worker -> SUBSET Links]
    /\ self_pid \in [Worker -> BOOLEAN]
    /\ reg \in [Worker -> 0..Len(Order)]
    /\ protected_ids \in [Worker -> SUBSET Nat]
    /\ held \in [Worker -> SUBSET Links]
    /\ sealed \in [Worker -> SUBSET Links]

(* README: "resists kill and detach attempts".  lsm_bpf_cmd judges a       *)
(* BPF_LINK_DETACH by a descriptor number, so what keeps links in place is *)
(* that it refuses descriptors by id, its own link's included: a link that *)
(* was registered with it before any other process got hold of it is not   *)
(* taken away while the worker lives.                                      *)
SealedStay == \A w \in Worker : Alive(w) => sealed[w] \subseteq links[w]

(* README: "resists kill and detach attempts".  A worker whose task_kill   *)
(* link was sealed is stopped by a signal only if PID 1 sent it.           *)
SealedStoppedByInit ==
    \A w \in Worker :
        phase[w] \in Stopping \cup Ended /\ KillLink \in sealed[w]
            => stoppedBy[w] \in {"nobody", "init"}

(* main.go: "wait for child to unhook eBPF".  runSupervisor loses sight of *)
(* a worker only when it handles SIGHUP: the live workers that cmd no      *)
(* longer names, or that are left when the supervisor is gone, are at most *)
(* as many as the SIGHUPs it took.                                         *)
StrayOnlyByHup ==
    Cardinality({w \in Worker : Alive(w) /\ (w # cur \/ sup = "exited")}) <= hups

(* Every audited decision of a worker that left main is in the file, was   *)
(* dropped by a full channel, of which the code keeps no count, or was     *)
(* lost to a failed write; none is in two places.                          *)
CleanExitIsComplete ==
    \A w \in Worker :
        /\ Accounted(audit[w])
        /\ phase[w] = "exited" /\ ~audit[w].failed => audit[w].lost = 0

(* A worker that ended is noticed: another one is started or the           *)
(* supervisor ends, however often workers crashed.                         *)
Unnoticed ==
    /\ sup # "exited" /\ cur + 1 \in Worker
    /\ cur \in Worker /\ phase[cur] \in Ended
EndedChildNoticed == Unnoticed ~> ~Unnoticed

(* The shutdown sequence of a worker terminates: nothing it waits for      *)
(* waits for it, so of the workers there ever are none stays in it.        *)
ShutdownTerminates == <>[](\A w \in Worker : phase[w] \notin Stopping)

(* README: "SIGINT/SIGTERM shut down gracefully".  Violated: a SIGTERM got *)
(* through to the supervisor, but the hook refuses the one it forwards,    *)
(* and it waits for its child for ever.                                    *)
StopTerminates ==
    sigCh = "TERM" \/ sup = "wait"
        ~> sup = "exited" \/ (sup = "spawn" /\ cur = MaxWorkers)
=============================================================================
