--------------------------- MODULE ConfigManager ---------------------------
(* Hot reload of the configuration file (internal/config/config.go) as the *)
(* daemon wires it up in main.go.  Two goroutines call ReloadNow, the      *)
(* poller started by WatchPoll and the SIGHUP handler, and no lock is held *)
(* across a reload.  The main goroutine meanwhile builds the subscribers,  *)
(* each of which applies Current() and only then registers with OnChange.  *)
(*                                                                         *)
(* A configuration is abstracted to the number of the file edit that wrote *)
(* it, and the file's mtime to the same number: edits get strictly later   *)
(* mtimes.                                                                 *)
EXTENDS Naturals

CONSTANTS
    MaxEdits,  \* bound on the number of edits of the file
    Panicky    \* subscribers whose callback may panic

(* Subscribers in the order of their OnChange calls (engine.go:50,52 and   *)
(* event.go:93).                                                           *)
Engine == 1
K8sResolver == 2
Router == 3
Subscribers == {Engine, K8sResolver, Router}

Versions == 0..MaxEdits
Reloaders == {"poll", "hup"}

ASSUME ConfigAssumption ==
    /\ MaxEdits \in Nat
    /\ Panicky \subseteq Subscribers

VARIABLES
    file,     \* the config file: version (= mtime) and status
    current,  \* Manager.current
    lastMod,  \* Manager.lastMod
    nsubs,    \* length of Manager.subscribers
    boot,     \* next statement of the main goroutine's startup, see BootSteps
    pc,       \* where each reloading goroutine is
    seen,     \* the mtime the poller's Stat returned
    loaded,   \* the config each reloading goroutine has read
    next,     \* the subscriber that goroutine calls next ...
    upto,     \* ... and the length of its copy of the subscriber list
    pending,  \* a SIGHUP sits in reloadChan, which has room for one
    applied,  \* the config each subscriber works with
    accepted, \* history: the versions Validate has accepted or would accept
    quiet,    \* history: the last edit met no race that loses it, see Edit
    signal,   \* history: what SIGHUP was sent since the last edit, see Signals
    overlap   \* history: the reload under way met another one, or startup

configVars == <<file, current, lastMod, nsubs, boot, pc, seen, loaded, next, upto,
                pending, applied, accepted, quiet, signal, overlap>>
historyVars == <<accepted, quiet, signal, overlap>>
envVars == <<file, pending, historyVars>>
goroutineVars == <<pc, seen, loaded, next, upto>>

Statuses == {"valid", "invalid", "absent"}
PCs == {"idle", "check", "load", "store", "stat", "notify", "call"}

(* No SIGHUP since the last edit; one sent while a reload that had read an *)
(* older file was under way; one sent while there was none.                *)
Signals == {"none", "late", "clear"}

(* The startup statements that read the configuration or register a        *)
(* callback: the Stat of NewManager, the resolver built from Current(),    *)
(* then NewEngine and NewRouter.  0 stands for "startup done".             *)
BootStat == 1
BootSteps ==
    [step \in 2..7 |->
        CASE step = 2 -> [do |-> "apply",    sub |-> K8sResolver]
          [] step = 3 -> [do |-> "apply",    sub |-> Engine]
          [] step = 4 -> [do |-> "onchange", sub |-> Engine]
          [] step = 5 -> [do |-> "onchange", sub |-> K8sResolver]
          [] step = 6 -> [do |-> "apply",    sub |-> Router]
          [] step = 7 -> [do |-> "onchange", sub |-> Router]]
BootDone == 8

(* The program starts being interesting once NewManager's Load succeeded:  *)
(* a failure exits before any of this state exists.                        *)
ConfigInit ==
    /\ file = [ver |-> 0, status |-> "valid"]
    /\ current = 0
    /\ lastMod = 0
    /\ nsubs = 0
    /\ boot = BootStat
    /\ pc = [r \in Reloaders |-> "idle"]
    /\ seen = 0
    /\ loaded = [r \in Reloaders |-> 0]
    /\ next = [r \in Reloaders |-> 1]
    /\ upto = [r \in Reloaders |-> 0]
    /\ pending = FALSE
    /\ applied = [s \in Subscribers |-> 0]
    /\ accepted = {0}
    /\ quiet = TRUE
    /\ signal = "none"
    /\ overlap = FALSE

(* What os.Stat leaves in lastMod: the mtime, or nothing when it fails.     *)
\* Mutant: record the time of the reload instead of the file's mtime.
WallClockMtime == file.ver + 1
Mtime == IF file.status = "absent" THEN lastMod ELSE file.ver

(* Load accepts a readable file that parses and validates, nothing else.   *)
\* Mutant: a parse error is logged but the partial config is used.
LoadIgnoringErrors == file.status # "absent"
LoadSucceeds == file.status = "valid"

InReload(r) == pc[r] \notin {"idle", "check"}
HasLoaded(r) == pc[r] \in {"store", "stat", "notify", "call"}

Outdated(r) == HasLoaded(r) /\ loaded[r] # file.ver
Together == \A r \in Reloaders : InReload(r)

(* Goroutine r enters ReloadNow.  Nothing keeps it out while the other one *)
(* is in there, or while main still reads the configuration.               *)
EnterReload(r) ==
    /\ pc' = [pc EXCEPT ![r] = "load"]
    /\ overlap' = (boot # BootDone \/ \E q \in Reloaders \ {r} : InReload(q))
    /\ quiet' = (quiet /\ \A q \in Reloaders : ~Outdated(q))

-----------------------------------------------------------------------------
(* Environment: the operator edits the file (well or badly), replaces it   *)
(* non-atomically, or sends SIGHUP, at any time.                           *)
Edit(status) ==
    /\ file.ver < MaxEdits
    /\ file' = [ver |-> file.ver + 1, status |-> status]
    /\ accepted' = IF status = "valid" THEN accepted \cup {file'.ver} ELSE accepted
    /\ quiet' = /\ boot = BootDone
                /\ \A r \in Reloaders :
                      pc[r] \notin {"store", "stat"} /\ ~(Together /\ HasLoaded(r))
    /\ signal' = "none"
    /\ UNCHANGED <<current, lastMod, nsubs, boot, goroutineVars, pending, applied,
                   overlap>>

Remove ==
    /\ file.ver < MaxEdits
    /\ file.status # "absent"
    /\ file' = [file EXCEPT !.status = "absent"]
    /\ UNCHANGED <<current, lastMod, nsubs, boot, goroutineVars, pending, applied,
                   historyVars>>

(* reloadChan has capacity 1: a SIGHUP that finds it full is merged with   *)
(* the one waiting there.                                                  *)
Sighup ==
    /\ boot = BootDone
    /\ pending' = TRUE
    /\ signal' = IF \A r \in Reloaders : ~Outdated(r)
                 THEN "clear" ELSE IF signal = "none" THEN "late" ELSE signal
    /\ UNCHANGED <<file, current, lastMod, nsubs, boot, goroutineVars, applied,
                   accepted, quiet, overlap>>

-----------------------------------------------------------------------------
(* The main goroutine.                                                     *)
NewManagerStat ==
    /\ boot = BootStat
    /\ lastMod' = Mtime
    /\ boot' = boot + 1
    /\ UNCHANGED <<envVars, current, nsubs, goroutineVars, applied>>

(* NewResolver, NewEngine and NewRouter start from cfg.Current() ...       *)
ApplyCurrent ==
    /\ boot \in DOMAIN BootSteps
    /\ BootSteps[boot].do = "apply"
    /\ applied' = [applied EXCEPT ![BootSteps[boot].sub] = current]
    /\ boot' = boot + 1
    /\ UNCHANGED <<envVars, current, lastMod, nsubs, goroutineVars>>

(* ... and are told of later ones from here on.                            *)
OnChange ==
    /\ boot \in DOMAIN BootSteps
    /\ BootSteps[boot].do = "onchange"
    /\ nsubs' = nsubs + 1
    /\ boot' = boot + 1
    /\ UNCHANGED <<envVars, current, lastMod, goroutineVars, applied>>

Startup == NewManagerStat \/ ApplyCurrent \/ OnChange

-----------------------------------------------------------------------------
(* The poller: Stat, then compare with lastMod under the lock.             *)
PollStat ==
    /\ pc["poll"] = "idle"
    /\ boot # BootStat
    /\ file.status # "absent"
    /\ seen' = file.ver
    /\ pc' = [pc EXCEPT !["poll"] = "check"]
    /\ UNCHANGED <<envVars, current, lastMod, nsubs, boot, loaded, next, upto,
                   applied>>

PollCheck ==
    /\ pc["poll"] = "check"
    /\ \/ /\ seen > lastMod
          /\ EnterReload("poll")
       \/ /\ seen <= lastMod
          /\ pc' = [pc EXCEPT !["poll"] = "idle"]
          /\ UNCHANGED <<quiet, overlap>>
    /\ UNCHANGED <<file, current, lastMod, nsubs, boot, seen, loaded, next, upto,
                   pending, applied, accepted, signal>>

(* The SIGHUP goroutine takes the signal out of the channel.               *)
\* Mutant: like the poller, SIGHUP reloads only a file newer than lastMod.
TakeSighupIfNewer ==
    /\ pc["hup"] = "idle"
    /\ pending
    /\ pending' = FALSE
    /\ IF file.ver > lastMod THEN EnterReload("hup") ELSE UNCHANGED <<pc, quiet, overlap>>
    /\ UNCHANGED <<file, current, lastMod, nsubs, boot, seen, loaded, next, upto,
                   applied, accepted, signal>>
TakeSighup ==
    /\ pc["hup"] = "idle"
    /\ pending
    /\ pending' = FALSE
    /\ EnterReload("hup")
    /\ UNCHANGED <<file, current, lastMod, nsubs, boot, seen, loaded, next, upto,
                   applied, accepted, signal>>

(* ReloadNow, run by goroutine r.                                          *)
\* Mutant: a failed load falls back to the configuration of the start.
LoadOrDefault(r) ==
    /\ pc[r] = "load"
    /\ loaded' = [loaded EXCEPT ![r] = IF LoadSucceeds THEN file.ver ELSE 0]
    /\ pc' = [pc EXCEPT ![r] = "store"]
    /\ UNCHANGED <<envVars, current, lastMod, nsubs, boot, seen, next, upto,
                   applied>>
Load(r) ==
    /\ pc[r] = "load"
    /\ \/ /\ LoadSucceeds
          /\ loaded' = [loaded EXCEPT ![r] = file.ver]
          /\ pc' = [pc EXCEPT ![r] = "store"]
       \/ /\ ~LoadSucceeds
          /\ pc' = [pc EXCEPT ![r] = "idle"]
          /\ UNCHANGED loaded
    /\ UNCHANGED <<envVars, current, lastMod, nsubs, boot, seen, next, upto,
                   applied>>

Store(r) ==
    /\ pc[r] = "store"
    /\ current' = loaded[r]
    /\ pc' = [pc EXCEPT ![r] = "stat"]
    /\ UNCHANGED <<envVars, lastMod, nsubs, boot, seen, loaded, next, upto,
                   applied>>

StatLastMod(r) ==
    /\ pc[r] = "stat"
    /\ lastMod' = Mtime
    /\ pc' = [pc EXCEPT ![r] = "notify"]
    /\ UNCHANGED <<envVars, current, nsubs, boot, seen, loaded, next, upto,
                   applied>>

(* notify copies the subscriber list under the lock ...                    *)
CopySubscribers(r) ==
    /\ pc[r] = "notify"
    /\ next' = [next EXCEPT ![r] = 1]
    /\ upto' = [upto EXCEPT ![r] = nsubs]
    /\ pc' = [pc EXCEPT ![r] = "call"]
    /\ UNCHANGED <<envVars, current, lastMod, nsubs, boot, seen, loaded,
                   applied>>

(* ... and calls each of them without it; a panic is recovered per call.   *)
\* Mutant: one recover around the whole loop.
StopNotifying(r) == upto[r] + 1
AfterPanic(r) == next[r] + 1

CallSubscriber(r) ==
    /\ pc[r] = "call"
    /\ next[r] <= upto[r]
    /\ \/ /\ applied' = [applied EXCEPT ![next[r]] = loaded[r]]
          /\ next' = [next EXCEPT ![r] = @ + 1]
       \/ /\ next[r] \in Panicky
          /\ next' = [next EXCEPT ![r] = AfterPanic(r)]
          /\ UNCHANGED applied
    /\ UNCHANGED <<envVars, current, lastMod, nsubs, boot, pc, seen, loaded,
                   upto>>

ReloadDone(r) ==
    /\ pc[r] = "call"
    /\ next[r] > upto[r]
    /\ pc' = [pc EXCEPT ![r] = "idle"]
    /\ UNCHANGED <<envVars, current, lastMod, nsubs, boot, seen, loaded, next,
                   upto, applied>>

ReloadNow(r) ==
    \/ Load(r) \/ Store(r) \/ StatLastMod(r)
    \/ CopySubscribers(r) \/ CallSubscriber(r) \/ ReloadDone(r)

Poller == PollStat \/ PollCheck \/ ReloadNow("poll")
SighupHandler == TakeSighup \/ ReloadNow("hup")

ConfigNext ==
    \/ \E status \in {"valid", "invalid"} : Edit(status)
    \/ Remove
    \/ Sighup
    \/ Startup
    \/ Poller
    \/ SighupHandler

ConfigSpec == ConfigInit /\ [][ConfigNext]_configVars

(* Fairness: the Go scheduler runs every runnable goroutine, and the poll  *)
(* ticker keeps firing.  Nothing is assumed of the operator.               *)
FairSpec == ConfigSpec /\ WF_configVars(Startup) /\ WF_configVars(Poller) /\ WF_configVars(SighupHandler)

-----------------------------------------------------------------------------
ConfigTypeOK ==
    /\ file \in [ver : Versions, status : Statuses]
    /\ current \in Versions
    /\ lastMod \in Versions
    /\ nsubs \in 0..3
    /\ boot \in BootStat..BootDone
    /\ pc \in [Reloaders -> PCs]
    /\ seen \in Versions
    /\ loaded \in [Reloaders -> Versions]
    /\ next \in [Reloaders -> 1..4]
    /\ upto \in [Reloaders -> 0..3]
    /\ pending \in BOOLEAN
    /\ applied \in [Subscribers -> Versions]
    /\ accepted \in SUBSET Versions
    /\ quiet \in BOOLEAN
    /\ signal \in Signals
    /\ overlap \in BOOLEAN

(* "On failure, the previously loaded config is left untouched": no        *)
(* interleaving of edits, removals, reloads and startup ever puts a        *)
(* configuration in force, in the manager or in a subscriber, that was not *)
(* accepted by Load.                                                       *)
OnlyAcceptedInForce ==
    /\ current \in accepted
    /\ \A s \in Subscribers : applied[s] \in accepted

(* WatchPoll only notices an edit whose mtime is after lastMod, so an edit *)
(* recorded as loaded but never applied is lost.  Between reloads a last   *)
(* edit that met none of the losing races (see Edit and EnterReload) is    *)
(* still noticeable, or in force in the manager and every subscriber.      *)
InForce ==
    /\ current = file.ver
    /\ \A s \in Subscribers \ Panicky : applied[s] = file.ver
EditNotLost ==
    boot = BootDone /\ quiet /\ (\A r \in Reloaders : ~InReload(r))
        => file.ver > lastMod \/ InForce

(* A reload that met neither another reload nor startup ends with the      *)
(* kernel policy, the router and the resolver all working with the         *)
(* configuration Current() returns, however out of step earlier races left *)
(* them; a subscriber that panicked while it was being told (notify) is    *)
(* the only one left behind.                                               *)
SubscribersInStep ==
    \A r \in Reloaders :
        pc[r] = "call" /\ next[r] > upto[r] /\ ~overlap
            => \A s \in Subscribers \ Panicky : applied[s] = current

(* ReloadNow does not order overlapping calls, so a reload can replace a   *)
(* configuration by an older one; but only one that met another reload or  *)
(* startup does, however the file is edited while it runs.                 *)
NoRollbackStep ==
    ~overlap => /\ current' >= current
                /\ \A s \in Subscribers : applied'[s] >= applied[s]
NoRollback == [][NoRollbackStep]_configVars

(* "Configs reload on SIGHUP or via a 5-second poll loop": once the        *)
(* operator stops editing, a valid file ends up in force everywhere with   *)
(* no SIGHUP at all, through removed and invalid files before it.  Not so  *)
(* when its edit fell into startup, between a Load and its Stat, or into   *)
(* a reload that another one overlaps: these are the only ways to lose it. *)
EventuallyInForce == <>[](file.status = "valid" /\ quiet => InForce)

(* SIGHUP reloads without looking at the mtime, so it also brings an edit  *)
(* into force whose mtime a racing reload recorded without having read it; *)
(* provided no reload of an older file is under way when it is sent.       *)
SighupRepairs == <>[](file.status = "valid" /\ signal = "clear" => InForce)

(* "Send SIGHUP to reload the config immediately": a SIGHUP sent after the *)
(* last edit brings that edit into force.                                  *)
SighupTakesEffect == <>[](file.status = "valid" /\ signal # "none" => InForce)

=============================================================================
