---------------------------- MODULE ReloadProofs ----------------------------
(* What TLAPS proves of the two halves of a reload.  First ConfigManager,  *)
(* for any number of edits and any set of subscribers that may panic; then *)
(* PolicySync, which one of those subscribers runs, for any paths,         *)
(* prefixes and policies.                                                  *)
EXTENDS ConfigManager, PolicySync, FiniteSetTheorems, TLAPS

(* The number of registered subscribers follows from the startup step.     *)
BootInv ==
    /\ boot \in 1..4 => nsubs = 0
    /\ boot = 5 => nsubs = 1
    /\ boot \in {6, 7} => nsubs = 2
    /\ boot = BootDone => nsubs = 3

TypeInv == ConfigTypeOK /\ BootInv

(* The variables have their types in every reachable state; in particular  *)
(* notify never indexes past the subscriber list it copied.                *)
THEOREM ConfigTypeCorrect == ConfigSpec => []TypeInv
<1> USE ConfigAssumption DEF ConfigAssumption, Versions, Subscribers, Engine, K8sResolver, Router,
        Reloaders, Statuses, PCs, BootStat, BootDone, TypeInv, ConfigTypeOK, BootInv
<1>1. ASSUME ConfigInit PROVE TypeInv
  <2> USE <1>1 DEF ConfigInit, Signals
  <2>1. file \in [ver : Versions, status : Statuses] /\ accepted \in SUBSET Versions
    OBVIOUS
  <2>2. pending \in BOOLEAN /\ quiet \in BOOLEAN /\ overlap \in BOOLEAN
    OBVIOUS
  <2>3. QED BY <2>1, <2>2
<1>2. ASSUME TypeInv, [ConfigNext]_configVars PROVE TypeInv'
  <2> USE <1>2 DEF historyVars, envVars, goroutineVars, Mtime, Signals
  <2>1. ASSUME NEW status \in {"valid", "invalid"}, Edit(status) PROVE TypeInv'
    <3>1. file' \in [ver : Versions, status : Statuses] /\ file'.ver \in Versions
      BY <2>1 DEF Edit
    <3>2. accepted' \in SUBSET Versions
      BY <2>1, <3>1 DEF Edit
    <3>3. QED BY <2>1, <3>1, <3>2 DEF Edit
  <2>2. CASE Remove
    BY <2>2 DEF Remove
  <2>3. CASE Sighup
    BY <2>3 DEF Sighup
  <2>4. CASE NewManagerStat
    BY <2>4 DEF NewManagerStat
  <2>5. CASE ApplyCurrent
    <3>1. BootSteps[boot].sub \in Subscribers /\ boot \in {2, 3, 6}
      BY <2>5 DEF ApplyCurrent, BootSteps
    <3>2. QED BY <2>5, <3>1 DEF ApplyCurrent
  <2>6. CASE OnChange
    <3>1. boot \in {4, 5, 7}
      BY <2>6 DEF OnChange, BootSteps
    <3>2. QED BY <2>6, <3>1 DEF OnChange
  <2>7. CASE PollStat
    BY <2>7 DEF PollStat
  <2>8. CASE PollCheck
    BY <2>8 DEF PollCheck, EnterReload
  <2>9. CASE TakeSighup
    BY <2>9 DEF TakeSighup, EnterReload
  <2>10. ASSUME NEW r \in Reloaders, ReloadNow(r) PROVE TypeInv'
    <3>1. CASE Load(r) BY <3>1 DEF Load
    <3>2. CASE Store(r) BY <3>2 DEF Store
    <3>3. CASE StatLastMod(r) BY <3>3 DEF StatLastMod
    <3>4. CASE CopySubscribers(r) BY <3>4 DEF CopySubscribers
    <3>5. CASE CallSubscriber(r) BY <3>5 DEF CallSubscriber, AfterPanic
    <3>6. CASE ReloadDone(r) BY <3>6 DEF ReloadDone
    <3>7. QED BY <2>10, <3>1, <3>2, <3>3, <3>4, <3>5, <3>6 DEF ReloadNow
  <2>11. CASE UNCHANGED configVars
    BY <2>11 DEF configVars
  <2>12. QED
    BY <2>1, <2>2, <2>3, <2>4, <2>5, <2>6, <2>7, <2>8, <2>9, <2>10, <2>11
       DEF ConfigNext, Startup, Poller, SighupHandler
<1>3. QED
  BY <1>1, <1>2, PTL DEF ConfigSpec
-----------------------------------------------------------------------------
(* What a reload carries from its Load to its last callback was accepted.  *)
AcceptedInv ==
    /\ OnlyAcceptedInForce
    /\ file.status = "valid" => file.ver \in accepted
    /\ \A r \in Reloaders :
          pc[r] \in {"store", "stat", "notify", "call"} => loaded[r] \in accepted

(* Whatever the interleaving of edits, removals, reloads and startup, only *)
(* a configuration that Load accepted is ever in force: ReloadNow leaves   *)
(* the previous one untouched when Load fails.                             *)
THEOREM OnlyAccepted == ConfigSpec => []OnlyAcceptedInForce
<1> USE ConfigAssumption DEF ConfigAssumption, Subscribers, Reloaders,
        AcceptedInv, OnlyAcceptedInForce
<1>1. ConfigInit => AcceptedInv
  BY DEF ConfigInit
<1>2. ASSUME TypeInv, AcceptedInv, [ConfigNext]_configVars PROVE AcceptedInv'
  <2> USE <1>2 DEF TypeInv, ConfigTypeOK, historyVars, envVars, goroutineVars, LoadSucceeds
  <2>1. ASSUME NEW status \in {"valid", "invalid"}, Edit(status)
        PROVE AcceptedInv'
    <3>1. accepted \subseteq accepted' BY <2>1 DEF Edit
    <3>2. file'.status = "valid" => file'.ver \in accepted' BY <2>1 DEF Edit
    <3>3. QED BY <2>1, <3>1, <3>2 DEF Edit
  <2>2. CASE Remove BY <2>2 DEF Remove
  <2>3. CASE Sighup BY <2>3 DEF Sighup
  <2>4. CASE NewManagerStat BY <2>4 DEF NewManagerStat
  <2>5. CASE ApplyCurrent BY <2>5 DEF ApplyCurrent
  <2>6. CASE OnChange BY <2>6 DEF OnChange
  <2>7. CASE PollStat BY <2>7 DEF PollStat
  <2>8. CASE PollCheck BY <2>8 DEF PollCheck, EnterReload
  <2>9. CASE TakeSighup BY <2>9 DEF TakeSighup, EnterReload
  <2>10. ASSUME NEW r \in Reloaders, ReloadNow(r) PROVE AcceptedInv'
    <3>1. CASE Load(r) BY <3>1 DEF Load
    <3>2. CASE Store(r) BY <3>2 DEF Store
    <3>3. CASE StatLastMod(r) BY <3>3 DEF StatLastMod
    <3>4. CASE CopySubscribers(r) BY <3>4 DEF CopySubscribers
    <3>5. CASE CallSubscriber(r) BY <3>5 DEF CallSubscriber, AfterPanic
    <3>6. CASE ReloadDone(r) BY <3>6 DEF ReloadDone
    <3>7. QED BY <2>10, <3>1, <3>2, <3>3, <3>4, <3>5, <3>6 DEF ReloadNow
  <2>11. CASE UNCHANGED configVars BY <2>11 DEF configVars
  <2>12. QED
    BY <2>1, <2>2, <2>3, <2>4, <2>5, <2>6, <2>7, <2>8, <2>9, <2>10, <2>11
       DEF ConfigNext, Startup, Poller, SighupHandler
<1>3. QED
  BY <1>1, <1>2, ConfigTypeCorrect, PTL DEF ConfigSpec

-----------------------------------------------------------------------------
(* Nothing is newer than the file, and before startup is done only the     *)
(* poller can be in a reload.                                              *)
OrderInv ==
    /\ current <= file.ver /\ lastMod <= file.ver
    /\ \A s \in Subscribers : applied[s] <= file.ver
    /\ \A r \in Reloaders : HasLoaded(r) => loaded[r] <= file.ver
    /\ boot # BootDone => ~pending /\ pc["hup"] = "idle"
    /\ boot = BootStat => pc["poll"] = "idle"

(* What a reload that meets nothing has done so far.                       *)
LoneInv ==
    ~overlap =>
    /\ ~Together
    /\ boot # BootDone =>
          /\ current = 0 /\ \A s \in Subscribers : applied[s] = 0
          /\ \A r \in Reloaders : ~InReload(r)
    /\ \A r \in Reloaders :
          /\ HasLoaded(r) => /\ current <= loaded[r]
                            /\ \A s \in Subscribers : applied[s] <= loaded[r]
          /\ pc[r] \in {"stat", "notify", "call"} => loaded[r] = current
          /\ pc[r] = "call" =>
                /\ upto[r] = 3
                /\ \A s \in Subscribers \ Panicky :
                      s < next[r] => applied[s] = current

(* Every step keeps both, and none that a lone reload takes rolls back.    *)
LEMMA LoneInductive ==
    ASSUME TypeInv, OrderInv, LoneInv, [ConfigNext]_configVars
    PROVE  OrderInv' /\ LoneInv' /\ (NoRollbackStep \/ UNCHANGED configVars)
<1> USE ConfigAssumption DEF ConfigAssumption, Subscribers, Engine,
        K8sResolver, Router, Reloaders, Versions, BootStat, BootDone, TypeInv,
        ConfigTypeOK, BootInv, OrderInv, LoneInv, NoRollbackStep, InReload, HasLoaded,
        Together, historyVars, envVars, goroutineVars, Mtime
<1> DEFINE Kept == OrderInv' /\ LoneInv' /\ NoRollbackStep
<1>1. ASSUME NEW status \in {"valid", "invalid"}, Edit(status) PROVE Kept
  <2>1. file'.ver = file.ver + 1 BY <1>1 DEF Edit
  <2>2. QED BY <1>1, <2>1 DEF Edit
<1>2. CASE Remove
  <2>1. file'.ver = file.ver BY <1>2 DEF Remove
  <2>2. QED BY <1>2, <2>1 DEF Remove
<1>3. CASE Sighup BY <1>3 DEF Sighup
<1>4. CASE NewManagerStat BY <1>4 DEF NewManagerStat
<1>5. CASE ApplyCurrent
  <2>1. BootSteps[boot].sub \in Subscribers /\ boot \in {2, 3, 6}
    BY <1>5 DEF ApplyCurrent, BootSteps
  <2>2. QED BY <1>5, <2>1 DEF ApplyCurrent
<1>6. CASE OnChange
  <2>1. boot \in {4, 5, 7} BY <1>6 DEF OnChange, BootSteps
  <2>2. QED BY <1>6, <2>1 DEF OnChange
<1>7. CASE PollStat BY <1>7 DEF PollStat
<1>8. CASE PollCheck
  <2>1. CASE seen <= lastMod BY <1>8, <2>1 DEF PollCheck
  <2>2. CASE EnterReload("poll")
    <3>1. overlap' <=> (boot # BootDone \/ InReload("hup"))
      BY <2>2 DEF EnterReload
    <3>2. QED BY <1>8, <2>2, <3>1 DEF PollCheck, EnterReload
  <2>3. QED BY <1>8, <2>1, <2>2 DEF PollCheck
<1>9. CASE TakeSighup
  <2>1. overlap' <=> (boot # BootDone \/ InReload("poll"))
    BY <1>9 DEF TakeSighup, EnterReload
  <2>2. QED BY <1>9, <2>1 DEF TakeSighup, EnterReload
<1>10. ASSUME NEW r \in Reloaders, ReloadNow(r) PROVE Kept
  <2>1. CASE Load(r) BY <2>1 DEF Load
  <2>2. CASE Store(r) BY <2>2 DEF Store
  <2>3. CASE StatLastMod(r) BY <2>3 DEF StatLastMod
  <2>4. CASE CopySubscribers(r) BY <2>4 DEF CopySubscribers
  <2>5. CASE CallSubscriber(r) BY <2>5 DEF CallSubscriber, AfterPanic
  <2>6. CASE ReloadDone(r) BY <2>6 DEF ReloadDone
  <2>7. QED BY <1>10, <2>1, <2>2, <2>3, <2>4, <2>5, <2>6 DEF ReloadNow
<1>11. CASE UNCHANGED configVars BY <1>11 DEF configVars
<1>12. QED
  BY <1>1, <1>2, <1>3, <1>4, <1>5, <1>6, <1>7, <1>8, <1>9, <1>10, <1>11
     DEF ConfigNext, Startup, Poller, SighupHandler

(* So both hold in every reachable state.                                  *)
LEMMA LoneCorrect == ConfigSpec => [](TypeInv /\ OrderInv /\ LoneInv)
<1>1. ConfigInit => OrderInv /\ LoneInv
  BY DEF ConfigInit, OrderInv, LoneInv, BootStat, BootDone, Subscribers, Engine,
         K8sResolver, Router, Reloaders, InReload, HasLoaded, Together
<1>2. TypeInv /\ OrderInv /\ LoneInv /\ [ConfigNext]_configVars => OrderInv' /\ LoneInv'
  BY LoneInductive
<1>3. QED BY <1>1, <1>2, ConfigTypeCorrect, PTL DEF ConfigSpec

(* A reload that met neither another reload nor startup leaves every       *)
(* subscriber that did not panic with the configuration of Current(),      *)
(* whatever the races before it, for any edits while it ran.               *)
THEOREM InStep == ConfigSpec => []SubscribersInStep
<1>1. TypeInv /\ LoneInv => SubscribersInStep
  BY DEF TypeInv, ConfigTypeOK, LoneInv, SubscribersInStep, Subscribers, Engine,
         K8sResolver, Router, Reloaders
<1>2. QED BY <1>1, LoneCorrect, PTL

(* Only a reload that met another one, or startup, ever goes back to an    *)
(* older configuration: two calls of ReloadNow are not ordered.            *)
THEOREM LoneNeverRollsBack == ConfigSpec => NoRollback
<1>1. TypeInv /\ OrderInv /\ LoneInv /\ [ConfigNext]_configVars
        => [NoRollbackStep]_configVars
  BY LoneInductive
<1>2. QED BY <1>1, LoneCorrect, PTL DEF ConfigSpec, NoRollback

(* Why a quiet edit is not lost.  A reload that carries an older file is   *)
(* past its Stat and alone, so lastMod is older than the file; and once    *)
(* lastMod is the file's mtime, the manager has the file and each          *)
(* subscriber has it or is about to be called with it.                     *)
QuietInv ==
    quiet =>
    /\ file.ver > 0 => boot = BootDone
    /\ \A r \in Reloaders :
          /\ Outdated(r) => /\ pc[r] \in {"notify", "call"}
                           /\ ~Together
                           /\ lastMod < file.ver
          /\ pc[r] \in {"stat", "notify", "call"} /\ loaded[r] = file.ver
                => current = file.ver
          /\ pc[r] = "call" /\ loaded[r] = file.ver /\ file.ver > 0 => upto[r] = 3
    /\ lastMod = file.ver =>
          /\ current = file.ver
          /\ \A s \in Subscribers \ Panicky :
                \/ applied[s] = file.ver
                \/ \E r \in Reloaders :
                      /\ loaded[r] = file.ver
                      /\ pc[r] = "notify" \/ (pc[r] = "call" /\ next[r] <= s)

(* Every step keeps it.                                                    *)
LEMMA QuietInductive ==
    ASSUME TypeInv, OrderInv, QuietInv, [ConfigNext]_configVars
    PROVE  QuietInv'
<1> USE ConfigAssumption DEF ConfigAssumption, Subscribers, Engine,
        K8sResolver, Router, Reloaders, Versions, BootStat, BootDone, TypeInv,
        ConfigTypeOK, BootInv, OrderInv, QuietInv, InReload, HasLoaded,
        Outdated, Together, historyVars, envVars, goroutineVars, Mtime
<1>1. ASSUME NEW status \in {"valid", "invalid"}, Edit(status) PROVE QuietInv'
  <2>1. file'.ver = file.ver + 1 BY <1>1 DEF Edit
  <2>2. lastMod' < file'.ver /\ lastMod' # file'.ver BY <1>1, <2>1 DEF Edit
  <2>3. quiet' => /\ boot = BootDone
                  /\ \A r \in Reloaders :
                        pc[r] \notin {"store", "stat"} /\ ~(Together /\ HasLoaded(r))
    BY <1>1 DEF Edit
  <2>4. \A r \in Reloaders : HasLoaded(r) => loaded[r] # file'.ver
    BY <2>1
  <2>5. UNCHANGED <<current, lastMod, boot, pc, loaded, next, upto, applied>>
    BY <1>1 DEF Edit
  <2>6. quiet' => boot' = BootDone
    BY <2>3, <2>5
  <2>7. ASSUME quiet', NEW r \in Reloaders
        PROVE  /\ Outdated(r)' => /\ pc'[r] \in {"notify", "call"}
                                 /\ ~Together'
                                 /\ lastMod' < file'.ver
               /\ pc'[r] \in {"stat", "notify", "call"} => loaded'[r] # file'.ver
    BY <2>2, <2>3, <2>4, <2>5, <2>7
  <2>8. QED BY ONLY <2>2, <2>6, <2>7 DEF QuietInv, Reloaders, BootDone
<1>2. CASE Remove
  <2>1. file'.ver = file.ver BY <1>2 DEF Remove
  <2>2. QED BY <1>2, <2>1 DEF Remove
<1>3. CASE Sighup BY <1>3 DEF Sighup
<1>4. CASE NewManagerStat BY <1>4 DEF NewManagerStat
<1>5. CASE ApplyCurrent
  <2>1. BootSteps[boot].sub \in Subscribers /\ boot \in {2, 3, 6}
    BY <1>5 DEF ApplyCurrent, BootSteps
  <2>2. QED BY <1>5, <2>1 DEF ApplyCurrent
<1>6. CASE OnChange
  <2>1. boot \in {4, 5, 7} BY <1>6 DEF OnChange, BootSteps
  <2>2. QED BY <1>6, <2>1 DEF OnChange
<1>7. CASE PollStat BY <1>7 DEF PollStat
<1>8. CASE PollCheck
  <2>1. CASE seen <= lastMod
    <3>1. pc' = [pc EXCEPT !["poll"] = "idle"] /\ pc["poll"] = "check"
      BY <1>8, <2>1 DEF PollCheck
    <3>2. UNCHANGED <<file, current, lastMod, boot, loaded, next, upto, applied, quiet>>
      BY <1>8, <2>1 DEF PollCheck
    <3>3. QED BY <3>1, <3>2
  <2>2. CASE EnterReload("poll")
    <3>1. quiet' => quiet /\ \A q \in Reloaders : ~Outdated(q)
      BY <2>2 DEF EnterReload
    <3>2. QED BY <1>8, <2>2, <3>1 DEF PollCheck, EnterReload
  <2>3. QED BY <1>8, <2>1, <2>2 DEF PollCheck
<1>9. CASE TakeSighup BY <1>9 DEF TakeSighup, EnterReload
<1>10. ASSUME NEW r \in Reloaders, ReloadNow(r) PROVE QuietInv'
  <2>1. CASE Load(r) BY <2>1 DEF Load
  <2>2. CASE Store(r) BY <2>2 DEF Store
  <2>3. CASE StatLastMod(r) BY <2>3 DEF StatLastMod
  <2>4. CASE CopySubscribers(r) BY <2>4 DEF CopySubscribers
  <2>5. CASE CallSubscriber(r) BY <2>5 DEF CallSubscriber, AfterPanic
  <2>6. CASE ReloadDone(r) BY <2>6 DEF ReloadDone
  <2>7. QED BY <1>10, <2>1, <2>2, <2>3, <2>4, <2>5, <2>6 DEF ReloadNow
<1>11. CASE UNCHANGED configVars BY <1>11 DEF configVars
<1>12. QED
  BY <1>1, <1>2, <1>3, <1>4, <1>5, <1>6, <1>7, <1>8, <1>9, <1>10, <1>11
     DEF ConfigNext, Startup, Poller, SighupHandler

(* With both goroutines and the operator unrestrained, the last edit stays *)
(* noticeable to WatchPoll until it is in force everywhere, unless it fell *)
(* into startup, between a Load and its Stat, or into overlapping reloads. *)
THEOREM QuietEditNotLost == ConfigSpec => []EditNotLost
<1>1. ConfigInit => QuietInv
  BY DEF ConfigInit, QuietInv, BootStat, BootDone, Subscribers, Engine, K8sResolver,
         Router, Reloaders, HasLoaded, Outdated, Together
<1>2. TypeInv /\ OrderInv /\ QuietInv /\ [ConfigNext]_configVars => QuietInv'
  BY QuietInductive
<1>3. TypeInv /\ OrderInv /\ QuietInv => EditNotLost
  BY DEF TypeInv, ConfigTypeOK, OrderInv, QuietInv, EditNotLost, InForce, InReload,
         HasLoaded, Versions, Reloaders
<1>4. QED BY <1>1, <1>2, <1>3, LoneCorrect, PTL DEF ConfigSpec

-----------------------------------------------------------------------------
(* Reloads do not overlap: one goroutine is in applyConfig.               *)
Serial == Appliers # {} /\ \A g, h \in Appliers : g = h

(* What a policy wants is a table.                                         *)
LEMMA WantType ==
    ASSUME NEW P PROVE Want(P) \in [Keys -> {Absent} \cup Modes]
BY DEF Want, Modes

(* No rules want nothing.                                                  *)
LEMMA EmptyWant == \A k \in Keys : Want(EmptyPolicy)[k] = Absent
BY DEF Want, EmptyPolicy

(* Every variable keeps its type, with any number of appliers at work.     *)
THEOREM TypeCorrect == Spec => []TypeOK
<1> USE DEF TypeOK, Absent, Modes, Enforce, Audit
<1>1. ASSUME Init PROVE TypeOK
  <2>1. enforcing \in BOOLEAN /\ intact \in BOOLEAN
    BY <1>1 DEF Init
  <2>2. (CHOOSE p \in Paths : TRUE) \in Paths
    BY PolicyAssumption DEF PolicyAssumption
  <2>3. failed \in [Appliers -> BOOLEAN]
    BY <1>1 DEF Init
  <2>4. QED BY <1>1, <2>1, <2>2, <2>3 DEF Init, NoHook
<1>2. ASSUME TypeOK, [Next]_vars PROVE TypeOK'
  <2> USE <1>2
  <2>1. ASSUME NEW g \in Appliers, NEW P \in Policies, BeginApply(g, P)
        PROVE  TypeOK'
    BY <2>1 DEF BeginApply
  <2>2. ASSUME NEW g \in Appliers, applyConfig(g) PROVE TypeOK'
    <3>0. CASE IterateFails(g)
      <4>1. stage[g] \in {"prefix", "exact"} /\ unread' = unread \cup {stage[g]}
        BY <3>0 DEF IterateFails, Syncing
      <4>2. unread' \in SUBSET {"prefix", "exact"} BY <4>1
      <4>3. QED BY <3>0, <4>2 DEF IterateFails, NextStage, StageAfter
    <3>1. CASE Iterate(g) BY <3>1 DEF Iterate
    <3>2. ASSUME NEW k \in Keys, DeleteEntry(g, k) PROVE TypeOK'
      BY <3>2 DEF DeleteEntry
    <3>3. ASSUME NEW k \in Keys, UpdateEntry(g, k) PROVE TypeOK'
      <4>1. Want(policy[g])[k] \in {Absent} \cup Modes BY WantType
      <4>2. QED BY <3>3, <4>1 DEF UpdateEntry
    <3>4. ASSUME NEW k \in Keys, UpdateFails(g, k) PROVE TypeOK'
      BY <3>4 DEF UpdateFails, NextStage, StageAfter
    <3>5. CASE DeletesDone(g) BY <3>5 DEF DeletesDone
    <3>6. CASE UpdatesDone(g)
      BY <3>6 DEF UpdatesDone, NextStage, StageAfter
    <3>7. CASE SetEnforcement(g)
      <4>1. enforcing' \in BOOLEAN /\ intact' \in BOOLEAN
        BY <3>7 DEF SetEnforcement
      <4>2. QED BY <3>7, <4>1 DEF SetEnforcement
    <3>8. QED
      BY <2>2, <3>0, <3>1, <3>2, <3>3, <3>4, <3>5, <3>6, <3>7 DEF applyConfig
  <2>3. ASSUME NEW p \in Paths, NEW kind \in Kinds, HookStart(p, kind)
        PROVE TypeOK'
    <3>1. Owed(Live, p) \in SUBSET Keys BY DEF Owed
    <3>2. QED BY <2>3, <3>1 DEF HookStart, AfterLineage, applierVars
  <2>4. CASE HookRecheck \/ HookExact \/ HookPrefix
    BY <2>4 DEF HookRecheck, HookExact, HookPrefix, HookStep, applierVars
  <2>5. CASE UNCHANGED vars BY <2>5 DEF vars, applierVars
  <2>6. QED
    BY <2>1, <2>2, <2>3, <2>4, <2>5 DEF Next, lsm_bprm_check
<1>3. QED BY <1>1, <1>2, PTL DEF Spec
-----------------------------------------------------------------------------
(* The last sync of k's map could read it.                                 *)
Read(k) == (IF k \in Prefixes THEN "prefix" ELSE "exact") \notin unread

(* An entry of a map that this application has not reached yet, ...        *)
OldEntry(k) ==
    /\ Read(k) /\ table[k] # Absent => Want(inForce)[k] # Absent
    /\ intact => table[k] = Want(inForce)[k]

(* ... of one that it has finished with, ...                               *)
NewEntry(g, k) ==
    /\ Read(k) /\ table[k] # Absent => Want(policy[g])[k] # Absent
    /\ ~failed[g] /\ Read(k) => table[k] = Want(policy[g])[k]
    /\ intact => table[k] \in {Want(inForce)[k], Want(policy[g])[k]}

(* ... and of the one it is writing.                                       *)
MidEntry(g, k) ==
    /\ phase[g] = "iterate" => OldEntry(k)
    /\ phase[g] = "delete" =>
          /\ existing[g][k] = table[k]
          /\ Read(k) /\ table[k] # Absent => Want(inForce)[k] # Absent
          /\ intact => \/ table[k] = Want(inForce)[k]
                       \/ table[k] = Absent /\ Want(policy[g])[k] = Absent
    /\ phase[g] = "update" =>
          /\ Read(k)
          /\ existing[g][k] = table[k]
          /\ table[k] # Absent => Want(policy[g])[k] # Absent
          /\ intact => table[k] \in {Want(inForce)[k], Want(policy[g])[k]}

EntryInv(g, k) ==
    /\ stage[g] = "idle" => OldEntry(k)
    /\ stage[g] = "prefix" /\ k \in Paths => OldEntry(k)
    /\ stage[g] \in {"prefix", "exact"} /\ k \in KeysOf(stage[g]) => MidEntry(g, k)
    /\ stage[g] = "exact" /\ k \in Prefixes => NewEntry(g, k)
    /\ stage[g] = "switch" => NewEntry(g, k)

SyncInv ==
    /\ \A g \in Appliers : \A k \in Keys : EntryInv(g, k)
    /\ enforcing = (inForce.enforce /\ LSMEnabled)

(* Every step of the sync or the hook keeps the invariant.                 *)
LEMMA SyncInductive ==
    ASSUME Serial, TypeOK, SyncInv, [Next]_vars PROVE SyncInv'
<1> USE PolicyAssumption DEF PolicyAssumption, TypeOK, Serial, Keys, KeysOf
<1>1. ASSUME NEW g \in Appliers, NEW P \in Policies, BeginApply(g, P)
      PROVE  SyncInv'
  <2>1. ASSUME NEW j \in Keys PROVE EntryInv(g, j)'
    BY <1>1 DEF BeginApply, SyncInv, EntryInv, MidEntry, OldEntry, Read
  <2>2. QED BY <1>1, <2>1 DEF BeginApply, SyncInv
<1>2. ASSUME NEW g \in Appliers, applyConfig(g), ~SetEnforcement(g)
      PROVE  SyncInv'
  <2>1. enforcing' = enforcing /\ inForce' = inForce /\ intact' = intact
    BY <1>2 DEF applyConfig, Iterate, IterateFails, DeleteEntry, UpdateEntry,
       UpdateFails, DeletesDone, UpdatesDone
  <2>2. ASSUME NEW j \in Keys PROVE EntryInv(g, j)'
    <3> USE <2>1 DEF SyncInv, EntryInv, MidEntry, OldEntry, NewEntry, Syncing, Read
    <3>0. CASE IterateFails(g) BY <3>0 DEF IterateFails, NextStage, StageAfter
    <3>1. CASE Iterate(g) BY <3>1 DEF Iterate
    <3>2. ASSUME NEW k \in Keys, DeleteEntry(g, k) PROVE EntryInv(g, j)'
      BY <3>2 DEF DeleteEntry, Unwanted
    <3>3. ASSUME NEW k \in Keys, UpdateEntry(g, k) PROVE EntryInv(g, j)'
      BY <3>3 DEF UpdateEntry, Missing
    <3>4. ASSUME NEW k \in Keys, UpdateFails(g, k) PROVE EntryInv(g, j)'
      BY <3>4 DEF UpdateFails, NextStage, StageAfter
    <3>5. CASE DeletesDone(g) BY <3>5 DEF DeletesDone, Unwanted
    <3>6. CASE UpdatesDone(g)
      BY <3>6 DEF UpdatesDone, Missing, NextStage, StageAfter
    <3>7. QED BY <1>2, <3>0, <3>1, <3>2, <3>3, <3>4, <3>5, <3>6 DEF applyConfig
  <2>3. QED BY <2>1, <2>2 DEF SyncInv
<1>3. ASSUME NEW g \in Appliers, SetEnforcement(g) PROVE SyncInv'
  <2>1. enforcing' = (inForce'.enforce /\ LSMEnabled)
    BY <1>3 DEF SetEnforcement
  <2>2. ASSUME NEW j \in Keys PROVE EntryInv(g, j)'
    <3>1. NewEntry(g, j)
      BY <1>3 DEF SetEnforcement, SyncInv, EntryInv
    <3>2. /\ stage'[g] = "idle" /\ inForce' = policy[g]
          /\ table' = table /\ unread' = unread
      BY <1>3 DEF SetEnforcement
    <3>3. intact' => ~failed[g] /\ unread = {}
      BY <1>3 DEF SetEnforcement
    <3>4. OldEntry(j)'
      BY <3>1, <3>2, <3>3 DEF NewEntry, OldEntry, Read
    <3>5. QED BY <3>2, <3>4 DEF EntryInv
  <2>3. QED BY <2>1, <2>2 DEF SyncInv
<1>4. ASSUME UNCHANGED <<table, enforcing, inForce, intact, unread, applierVars>>
      PROVE  SyncInv'
  BY <1>4 DEF SyncInv, applierVars, EntryInv, MidEntry, OldEntry, NewEntry, Read
<1>5. QED
  BY <1>1, <1>2, <1>3, <1>4 DEF Next, lsm_bprm_check, HookStart, HookRecheck,
     HookExact, HookPrefix, HookStep, vars

(* So it holds in every reachable state.                                   *)
LEMMA SyncCorrect == ASSUME Serial PROVE Spec => []SyncInv
<1>1. ASSUME Init PROVE SyncInv
  <2>1. \A g \in Appliers : \A k \in Keys : EntryInv(g, k)
    BY <1>1, EmptyWant DEF Init, EntryInv, OldEntry, Read
  <2>2. enforcing = (inForce.enforce /\ LSMEnabled)
    BY <1>1 DEF Init, EmptyPolicy
  <2>3. QED BY <2>1, <2>2 DEF SyncInv
<1>2. TypeOK /\ SyncInv /\ [Next]_vars => SyncInv'
  BY SyncInductive
<1>3. QED BY <1>1, <1>2, TypeCorrect, PTL DEF Spec

(* When reloads do not overlap and every map could be read and was large   *)
(* enough, the kernel holds exactly the policy applied last: syncValueMap  *)
(* leaves nothing behind and forgets nothing, whatever was in the maps.    *)
THEOREM KernelHoldsPolicy ==
    ASSUME Serial PROVE Spec => []SettledMatches
<1>1. ASSUME TypeOK, SyncInv PROVE SettledMatches
  <2>1. Quiet /\ intact => \A k \in Keys : table[k] = Want(inForce)[k]
    BY <1>1 DEF Serial, SyncInv, EntryInv, OldEntry, Quiet
  <2>2. Want(inForce) \in [Keys -> {Absent} \cup Modes]
    BY WantType
  <2>3. Quiet /\ intact => table = Want(inForce)
    BY <1>1, <2>1, <2>2 DEF TypeOK
  <2>4. QED BY <1>1, <2>3 DEF SettledMatches, SyncInv
<1>2. QED BY <1>1, SyncCorrect, TypeCorrect, PTL

(* Only the two policies at hand ever have entries in the kernel.          *)
LEMMA EntriesAreLive ==
    ASSUME Serial, TypeOK, SyncInv, NEW k \in Keys, table[k] # Absent, intact \/ Read(k)
    PROVE  \E P \in Live : Want(P)[k] # Absent
<1>1. PICK g \in Appliers : TRUE BY DEF Serial
<1>2. inForce \in Live /\ (stage[g] # "idle" => policy[g] \in Live)
  BY DEF Live
<1>3. EntryInv(g, k) BY DEF SyncInv
<1>4. CASE Want(inForce)[k] # Absent BY <1>2, <1>4
<1>5. CASE stage[g] # "idle" /\ Want(policy[g])[k] # Absent BY <1>2, <1>5
<1>6. QED
  BY <1>3, <1>4, <1>5 DEF EntryInv, MidEntry, OldEntry, NewEntry, TypeOK, Keys,
     KeysOf

(* Between the entries of the old policy and those of the new one there is *)
(* never a third: the sync deletes by comparing, not by remembering.       *)
THEOREM NothingStray ==
    ASSUME Serial PROVE Spec => []NoStrayEntry
<1>1. ASSUME TypeOK, SyncInv PROVE NoStrayEntry
  <2> SUFFICES ASSUME NEW k \in Keys, table[k] # Absent, Read(k)
               PROVE  \E P \in Live :
                        /\ Want(P)[k] # Absent
                        /\ intact /\ (\A g \in Appliers : ~failed[g])
                              => Want(P)[k] = table[k]
    BY PolicyAssumption DEF PolicyAssumption, NoStrayEntry, Read, Keys, KeysOf
  <2>1. PICK g \in Appliers : TRUE BY DEF Serial
  <2>2. inForce \in Live /\ (stage[g] # "idle" => policy[g] \in Live)
    BY DEF Live
  <2>3. EntryInv(g, k) BY <1>1 DEF SyncInv
  <2>4. CASE intact /\ ~failed[g]
    <3>1. \/ Want(inForce)[k] = table[k]
          \/ stage[g] # "idle" /\ Want(policy[g])[k] = table[k]
      BY <1>1, <2>3, <2>4 DEF EntryInv, MidEntry, OldEntry, NewEntry, TypeOK,
         Keys, KeysOf
    <3>2. QED BY <2>2, <3>1
  <2>5. CASE ~(intact /\ ~failed[g])
    BY <1>1, <2>5, EntriesAreLive
  <2>6. QED BY <2>4, <2>5
<1>2. QED BY <1>1, SyncCorrect, TypeCorrect, PTL
-----------------------------------------------------------------------------
(* No longer prefix than k says anything of p.                             *)
Unshadowed(k, p) ==
    k \in Prefixes => \A s \in Prefixes :
        p \in Covers[s] /\ Length[s] > Length[k] => table[s] = Absent

(* While the hook runs, the keys it owes a denial to stay in the kernel,   *)
(* and no prefix that shadows one of them gets there.                      *)
HookInv ==
    /\ hook.at \in {"recheck", "exact", "prefix"} =>
          \A k \in hook.owed :
              /\ table[k] = Enforce
              /\ \A P \in Live : Decides(P, k, hook.path)
              /\ Unshadowed(k, hook.path)
    /\ hook.at = "prefix" => hook.path \notin hook.owed
    /\ hook.at \in {"idle", "allowed"} => hook.owed = {}

(* A key every live policy denies by is in the kernel at any time.         *)
LEMMA OwedIsEnforced ==
    ASSUME Serial, TypeOK, SyncInv, NEW p \in Paths, NEW k \in Owed(Live, p)
    PROVE  /\ table[k] = Enforce /\ enforcing /\ Unshadowed(k, p)
           /\ \A P \in Live : Decides(P, k, p)
<1>1. PICK g \in Appliers : TRUE BY DEF Serial
<1>2. /\ k \in Keys /\ intact /\ LSMEnabled
      /\ \A P \in Live : Decides(P, k, p)
  BY DEF Owed
<1>3. inForce \in Live /\ (stage[g] # "idle" => policy[g] \in Live)
  BY DEF Live
<1>4. /\ Want(inForce)[k] = Enforce /\ inForce.enforce
      /\ stage[g] # "idle" => Want(policy[g])[k] = Enforce
  BY <1>2, <1>3 DEF Decides
<1>5. EntryInv(g, k) BY <1>2 DEF SyncInv
<1>6. table[k] = Enforce
  BY <1>2, <1>4, <1>5 DEF EntryInv, MidEntry, OldEntry, NewEntry, TypeOK, Keys,
     KeysOf, Enforce, Absent
<1>7. enforcing BY <1>2, <1>4 DEF SyncInv
<1>8. Unshadowed(k, p)
  <2> SUFFICES ASSUME k \in Prefixes, NEW s \in Prefixes, p \in Covers[s],
                      Length[s] > Length[k], table[s] # Absent
               PROVE  FALSE
    BY DEF Unshadowed
  <2>1. s \in Keys BY DEF Keys
  <2>2. PICK P \in Live : Want(P)[s] # Absent BY <1>2, <2>1, EntriesAreLive
  <2>3. k # p BY PolicyAssumption DEF PolicyAssumption
  <2>4. QED BY <1>2, <2>2, <2>3 DEF Decides
<1>9. QED BY <1>2, <1>6, <1>7, <1>8

(* The LPM lookup returns an enforcing prefix that nothing longer shadows. *)
LEMMA DecidingPrefixFound ==
    ASSUME TypeOK, NEW p \in Paths, NEW k \in Prefixes, p \in Covers[k],
           table[k] = Enforce, Unshadowed(k, p)
    PROVE  is_prefix_blocked(table, p) = Enforce
<1> USE PolicyAssumption DEF PolicyAssumption
<1>1. k \in Matches(table, p) BY DEF Matches, Enforce, Absent
<1>2. ASSUME NEW s \in Matches(table, p) PROVE Length[s] <= Length[k]
  <2>1. s \in Prefixes /\ p \in Covers[s] /\ table[s] # Absent
    BY DEF Matches
  <2>2. ~(Length[s] > Length[k]) BY <2>1 DEF Unshadowed
  <2>3. QED BY <2>1, <2>2
<1>3. ASSUME NEW q \in Matches(table, p),
             \A s \in Matches(table, p) : Length[s] <= Length[q]
      PROVE  q = k
  BY <1>1, <1>2, <1>3 DEF Matches
<1>4. (CHOOSE q \in Matches(table, p) :
          \A s \in Matches(table, p) : Length[s] <= Length[q]) = k
  BY <1>1, <1>2, <1>3
<1>5. QED BY <1>1, <1>4 DEF is_prefix_blocked

(* Every step keeps what a running hook is owed.                           *)
LEMMA HookInductive ==
    ASSUME Serial, TypeOK, SyncInv, HookInv, [Next]_vars PROVE HookInv'
<1> USE DEF TypeOK, HookInv
<1>1. ASSUME NEW g \in Appliers, NEW P \in Policies, BeginApply(g, P)
      PROVE  HookInv'
  <2>1. Live' \subseteq Live \cup {P} BY <1>1 DEF BeginApply, Live
  <2>2. hook'.owed = hook.owed \cap Owed(Live \cup {P}, hook.path)
        /\ hook'.at = hook.at /\ hook'.path = hook.path /\ table' = table
    BY <1>1 DEF BeginApply
  <2>3. \A k \in hook'.owed : \A Q \in Live \cup {P} : Decides(Q, k, hook.path)
    BY <2>2 DEF Owed
  <2>4. QED BY <2>1, <2>2, <2>3 DEF Unshadowed
<1>2. ASSUME NEW g \in Appliers, applyConfig(g) PROVE HookInv'
  <2>1. Live' \subseteq Live /\ hook' = hook
    BY <1>2 DEF applyConfig, Iterate, IterateFails, DeleteEntry, UpdateEntry,
       UpdateFails, DeletesDone, UpdatesDone, SetEnforcement, NextStage, StageAfter,
       Live, Syncing
  <2>2. ASSUME NEW k \in Keys, table[k] = Enforce,
               \A P \in Live : Decides(P, k, hook.path), Unshadowed(k, hook.path)
        PROVE  table'[k] = Enforce /\ Unshadowed(k, hook.path)'
    <3> DEFINE Goal == table'[k] = Enforce /\ Unshadowed(k, hook.path)'
    <3>1. stage[g] # "idle" => Want(policy[g])[k] = Enforce
                               /\ Decides(policy[g], k, hook.path)
      BY <2>2 DEF Live, Decides
    <3>2. ASSUME NEW j \in Keys, DeleteEntry(g, j) PROVE Goal
      BY <2>1, <2>2, <3>1, <3>2 DEF DeleteEntry, Syncing, Unwanted, Enforce, Absent,
         Unshadowed, Keys
    <3>3. ASSUME NEW j \in Keys, UpdateEntry(g, j) PROVE Goal
      <4>1. /\ table' = [table EXCEPT ![j] = Want(policy[g])[j]]
            /\ j \in Missing(g) /\ stage[g] # "idle"
        BY <3>3 DEF UpdateEntry, Syncing
      <4>2. table'[k] = Enforce BY <2>2, <3>1, <4>1
      <4>3. ASSUME k \in Prefixes, NEW s \in Prefixes, hook.path \in Covers[s],
                   Length[s] > Length[k]
            PROVE  table'[s] = Absent
        <5>1. table[s] = Absent BY <2>2, <4>3 DEF Unshadowed
        <5>2. Want(policy[g])[s] = Absent
          BY <3>1, <4>1, <4>3, PolicyAssumption DEF PolicyAssumption, Decides
        <5>3. QED BY <4>1, <4>3, <5>1, <5>2 DEF Keys
      <4>4. QED BY <2>1, <4>2, <4>3 DEF Unshadowed
    <3>4. CASE table' = table BY <2>1, <2>2, <3>4 DEF Unshadowed
    <3>5. QED
      BY <1>2, <3>2, <3>3, <3>4 DEF applyConfig, Iterate, IterateFails, UpdateFails,
         DeletesDone, UpdatesDone, SetEnforcement
  <2>3. QED BY <2>1, <2>2
<1>3. ASSUME NEW p \in Paths, NEW kind \in Kinds, HookStart(p, kind)
      PROVE  HookInv'
  <2>1. Live' = Live /\ table' = table
    BY <1>3 DEF HookStart, Live, applierVars
  <2>2. /\ hook'.path = p
        /\ hook'.owed = IF kind = "fileless" THEN {} ELSE Owed(Live, p)
        /\ hook'.at = IF ~enforcing THEN "allowed"
                      ELSE IF kind = "redirected" THEN "recheck"
                      ELSE AfterLineage(kind)
    BY <1>3 DEF HookStart
  <2>3. \A k \in hook'.owed :
           /\ table[k] = Enforce /\ enforcing /\ Unshadowed(k, p)
           /\ \A P \in Live : Decides(P, k, p)
    BY <2>2, OwedIsEnforced
  <2>4. QED BY <2>1, <2>2, <2>3 DEF AfterLineage, Unshadowed
<1>4. CASE HookRecheck \/ HookExact \/ HookPrefix
  <2>1. Live' = Live /\ table' = table /\ enforcing' = enforcing
    BY <1>4 DEF HookRecheck, HookExact, HookPrefix, HookStep, Live, applierVars
  <2>2. CASE HookRecheck
    BY <2>1, <2>2 DEF HookRecheck, HookStep, Unshadowed
  <2>3. CASE HookExact
    BY <2>1, <2>3 DEF HookExact, HookStep, Unshadowed
  <2>4. CASE HookPrefix
    <3>1. ASSUME hook.owed # {} PROVE is_prefix_blocked(table, hook.path) = Enforce
      <4>1. PICK k \in hook.owed : TRUE BY <3>1
      <4>2. k # hook.path /\ k \in Keys /\ hook.path \in Paths
            /\ table[k] = Enforce /\ Unshadowed(k, hook.path)
            /\ \A P \in Live : Decides(P, k, hook.path)
        BY <2>4, <4>1 DEF HookPrefix, HookStep
      <4>3. k \in Prefixes /\ hook.path \in Covers[k] BY <4>2 DEF Decides, Live
      <4>4. QED BY <4>2, <4>3, DecidingPrefixFound
    <3>2. QED BY <2>1, <2>4, <3>1 DEF HookPrefix, HookStep
  <2>5. QED BY <1>4, <2>2, <2>3, <2>4
<1>5. CASE UNCHANGED vars BY <1>5 DEF vars, applierVars, Live, Unshadowed
<1>6. QED BY <1>1, <1>2, <1>3, <1>4, <1>5 DEF Next, lsm_bprm_check

(* A binary whose block-list key is kept by a reload is never let through, *)
(* although lsm_bprm_check reads the kill-switch and the two maps one      *)
(* after the other and the daemon rewrites them in between.                *)
THEOREM KeptRuleNeverLapses ==
    ASSUME Serial PROVE Spec => []KeptRuleDenies
<1>1. Init => HookInv BY DEF Init, HookInv, NoHook
<1>2. TypeOK /\ SyncInv /\ HookInv /\ [Next]_vars => HookInv'
  BY HookInductive
<1>3. HookInv => KeptRuleDenies BY DEF HookInv, KeptRuleDenies
<1>4. QED BY <1>1, <1>2, <1>3, SyncCorrect, TypeCorrect, PTL DEF Spec
-----------------------------------------------------------------------------
(* In the update phase the map holds only wanted keys, so a wanted key that *)
(* is not there yet finds room if the whole list has room.                 *)
LEMMA FailureMeansTooBig ==
    ASSUME Serial, TypeOK, SyncInv, NEW g \in Appliers, NEW k \in Keys,
           UpdateFails(g, k)
    PROVE  ~Fits(policy[g])
<1> DEFINE ks == KeysOf(stage[g])
           wanted == {j \in ks : Want(policy[g])[j] # Absent}
           held == {j \in ks : table[j] # Absent}
<1>1. stage[g] \in {"prefix", "exact"} /\ phase[g] = "update" /\ k \in wanted
      /\ k \notin held /\ Cardinality(held) >= CapacityOf(stage[g])
  BY DEF UpdateFails, Syncing, Missing, Full
<1>2. ks \subseteq Keys BY DEF KeysOf, Keys
<1>3. held \subseteq wanted \ {k}
  BY <1>1, <1>2 DEF SyncInv, EntryInv, MidEntry
<1>4. IsFiniteSet(wanted) /\ IsFiniteSet(wanted \ {k}) /\ IsFiniteSet(held)
  BY <1>2, <1>3, FS_Subset, PolicyAssumption DEF PolicyAssumption
<1>5. Cardinality(held) <= Cardinality(wanted \ {k})
  BY <1>3, <1>4, FS_Subset
<1>6. Cardinality(wanted \ {k}) = Cardinality(wanted) - 1
  BY <1>1, <1>4, FS_RemoveElement
<1>7. /\ Cardinality(held) \in Nat /\ Cardinality(wanted) \in Nat
      /\ Cardinality(wanted \ {k}) \in Nat /\ CapacityOf(stage[g]) \in Nat
  BY <1>4, FS_CardinalityType, PolicyAssumption DEF PolicyAssumption, CapacityOf
<1>8. Cardinality(wanted) > CapacityOf(stage[g]) BY <1>1, <1>5, <1>6, <1>7
<1>9. QED BY <1>1, <1>7, <1>8 DEF Fits

(* A policy whose lists fit the BPF maps is always installed completely:   *)
(* deleting first is what keeps a full map from refusing a reload.         *)
THEOREM FittingNeverFails ==
    ASSUME Serial PROVE Spec => []FittingPolicyInstalled
<1> USE DEF FittingPolicyInstalled
<1>1. Init => FittingPolicyInstalled BY DEF Init
<1>2. ASSUME TypeOK, SyncInv, FittingPolicyInstalled, [Next]_vars
      PROVE  FittingPolicyInstalled'
  <2> USE <1>2 DEF TypeOK
  <2>1. ASSUME NEW g \in Appliers, NEW P \in Policies, BeginApply(g, P)
        PROVE  FittingPolicyInstalled'
    BY <2>1 DEF BeginApply, Serial
  <2>2. ASSUME NEW g \in Appliers, NEW k \in Keys, UpdateFails(g, k)
        PROVE  FittingPolicyInstalled'
    <3>1. ~Fits(policy[g]) BY <2>2, FailureMeansTooBig
    <3>2. QED BY <2>2, <3>1 DEF UpdateFails, Serial
  <2>3. CASE UNCHANGED <<failed, policy>>
    BY <2>3
  <2>4. QED
    BY <2>1, <2>2, <2>3 DEF Next, applyConfig, Iterate, IterateFails, DeleteEntry, UpdateEntry,
       DeletesDone, UpdatesDone, SetEnforcement, lsm_bprm_check, HookStart,
       HookRecheck, HookExact, HookPrefix, HookStep, vars, applierVars
<1>3. QED BY <1>1, <1>2, SyncCorrect, TypeCorrect, PTL DEF Spec
=============================================================================
