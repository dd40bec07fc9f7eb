---------------------------- MODULE EngineProofs ----------------------------
(* Proofs about deduplication and the rule loop, for any rules, windows,    *)
(* reloads, processes and sizes of the deduplication map.                   *)
EXTENDS Engine, TLAPS

(* What the map of the deduper says of the alerts that passed: an entry is *)
(* the time of one, not after the last one; and an alert without its entry *)
(* is older than any window there was since.                               *)
DedupInv ==
    \A k \in Key :
        /\ floor[k] <= window
        /\ last[k] # Never => told[k] # Never /\ last[k] <= told[k]
        /\ told[k] # Never => told[k] <= now
        /\ told[k] # Never => last[k] = told[k] \/ now - told[k] >= floor[k]

(* What the map has an entry for was sent out since, except for the alert  *)
(* that waits for a kill.                                                  *)
SentInv ==
    \A k \in Key :
        \/ at = "kill" /\ k = RuleKey(RulesInHand[rule])
        \/ last[k] = Never
        \/ sent[k] # Never /\ last[k] <= sent[k] /\ sent[k] <= now

(* The loop runs over the rules in force when the event was taken up.      *)
LoopInv ==
    /\ at \in {"rules", "kill"} => snapshot = judgedBy /\ ev.file \notin judgedBy.allowlist
    /\ at = "kill" => Kills(RulesInHand[rule]) /\ ev.file \in RulesInHand[rule].match

IInv == TypeOK /\ DedupInv /\ SentInv /\ LoopInv

-----------------------------------------------------------------------------
(* Allow(k) returning true: the deduper stays sound and k's alert is due.  *)
LEMMA PassStep ==
  ASSUME DedupTypeOK, DedupInv, NEW k \in Key, AllowTrue(k)
  PROVE  /\ DedupTypeOK' /\ DedupInv'
         /\ \A j \in Key : last'[j] = Never \/ (j = k /\ last'[j] = now) \/ last'[j] = last[j]
         /\ \A j \in Key : j # k => told'[j] = told[j]
         /\ told'[k] = now
         /\ told[k] # Never => now - told[k] >= floor[k]
  <1> USE DeduperAssumption DEF DeduperAssumption
  <1>1. Recorded(k) \in [Key -> Times] /\ Recorded(k)[k] = now
        /\ \A j \in Key : j # k => Recorded(k)[j] = last[j]
    BY DEF DedupTypeOK, Recorded, Times
  <1>2. \/ window = 0 /\ last' = last
        \/ window > 0 /\ last' = Purge(Recorded(k))
        \/ window > 0 /\ last' = Recorded(k)
    BY DEF AllowTrue, AfterPass, DedupTypeOK
  <1>3. /\ last' \in [Key -> Times]
        /\ \A j \in Key : last'[j] = Never \/ (j = k /\ last'[j] = now) \/ last'[j] = last[j]
    BY <1>1, <1>2 DEF Purge, Times, DedupTypeOK
  <1>4. told' \in [Key -> Times] /\ floor' \in [Key -> Nat] /\ told'[k] = now /\ floor'[k] = window
        /\ \A j \in Key : j # k => told'[j] = told[j] /\ floor'[j] = floor[j]
    BY DEF AllowTrue, DedupTypeOK, Times
  <1>5. now' = now /\ window' = window
    BY DEF AllowTrue
  <1>6. DedupTypeOK'
    BY <1>3, <1>4, <1>5 DEF DedupTypeOK
  <1>7. told[k] # Never => now - told[k] >= floor[k]
    BY DEF AllowTrue, Suppressed, DedupInv, DedupTypeOK, Times
  <1>8. window > 0 => last'[k] = now
    BY <1>1, <1>2 DEF Purge, Expired, DedupTypeOK
  <1>9. \A j \in Key : j # k /\ last'[j] # last[j] => last'[j] = Never /\ last[j] # Never /\ now - last[j] > window
    BY <1>1, <1>2 DEF Purge, Expired, DedupTypeOK
  <1>10. ASSUME NEW j \in Key
         PROVE  /\ floor'[j] <= window'
                /\ last'[j] # Never => told'[j] # Never /\ last'[j] <= told'[j]
                /\ told'[j] # Never => told'[j] <= now'
                /\ told'[j] # Never => last'[j] = told'[j] \/ now' - told'[j] >= floor'[j]
    <2>1. CASE j = k
      BY <2>1, <1>3, <1>4, <1>5, <1>8 DEF DedupInv, DedupTypeOK, Times
    <2>2. CASE j # k
      BY <2>2, <1>3, <1>4, <1>5, <1>9 DEF DedupInv, DedupTypeOK, Times
    <2> QED BY <2>1, <2>2
  <1>11. DedupInv'
    BY <1>10 DEF DedupInv
  <1> QED BY <1>3, <1>4, <1>6, <1>7, <1>11

(* SetWindow may shrink or grow the window under live entries.             *)
LEMMA WindowStep ==
  ASSUME DedupTypeOK, DedupInv, NEW w \in Nat, SetWindow(w)
  PROVE  DedupTypeOK' /\ DedupInv'
  <1>1. DedupTypeOK'
    BY DEF SetWindow, DedupTypeOK, Lower
  <1>2. \A k \in Key : floor'[k] <= floor[k] /\ floor'[k] <= w /\ floor'[k] \in Nat
    BY DEF SetWindow, DedupTypeOK, Lower
  <1> QED BY <1>1, <1>2, DeduperAssumption DEF SetWindow, DedupTypeOK, DedupInv, Times, DeduperAssumption

(* Entries only get older.                                                 *)
LEMMA TickStep ==
  ASSUME DedupTypeOK, DedupInv, Tick
  PROVE  DedupTypeOK' /\ DedupInv'
  <1>1. DedupTypeOK'
    BY DeduperAssumption DEF Tick, DedupTypeOK, DeduperAssumption
  <1> QED BY <1>1, DeduperAssumption DEF Tick, DedupTypeOK, DedupInv, Times, DeduperAssumption

-----------------------------------------------------------------------------
(* What the handler reads through its snapshot is a rule.                  *)
LEMMA RuleTypes ==
  ASSUME TypeOK, at \in {"rules", "kill"}, rule <= Len(RulesInHand)
  PROVE  /\ RulesInHand[rule] \in Rules
         /\ rule \in DOMAIN RulesInHand
         /\ Len(RulesInHand) \in Nat
         /\ RuleKey(RulesInHand[rule]) \in Key
  <1>1. snapshot \in Configs /\ rule \in 1..(Len(RulesInHand) + 1) /\ ev.pid \in Pid
    BY DEF TypeOK
  <1>2. RulesInHand \in Seq(Rules)
    BY <1>1, EngineAssumption DEF EngineAssumption, RulesInHand
  <1>3. rule \in 1..Len(RulesInHand) /\ Len(RulesInHand) \in Nat
    BY <1>1, <1>2
  <1>4. RulesInHand[rule] \in Rules /\ rule \in DOMAIN RulesInHand
    BY <1>2, <1>3
  <1>5. RulesInHand[rule].name \in Name
    BY <1>4 DEF Rules
  <1> QED BY <1>1, <1>3, <1>4, <1>5, EngineAssumption DEF EngineAssumption, RuleKey

(* Every alert and audit record the handlers build is an output.           *)
LEMMA OutputTypes ==
  /\ \A t \in {"EXEC", "EXEC_BLOCKED", "DROP_AND_EXEC", "FILELESS_EXEC", "REVERSE_SHELL", "SENSOR"} :
        Alert(t) \in Outputs
  /\ \A t \in {"BLOCK", "KILL"} : Audit(t) \in Outputs
  BY DEF Alert, Audit, Outputs

(* NewEngine starts with an empty deduper and no record in hand.           *)
LEMMA InitIInv == Init => IInv
  <1> SUFFICES ASSUME Init PROVE IInv
    OBVIOUS
  <1>1. cfg.window \in Nat
    BY EngineAssumption DEF Init, EngineAssumption
  <1>2. DedupTypeOK /\ DedupInv
    BY <1>1, DeduperAssumption DEF Init, DedupInit, DedupTypeOK, DedupInv, Times, DeduperAssumption
  <1>3. TypeOK
    BY <1>2 DEF Init, TypeOK, Times
  <1>4. SentInv /\ LoopInv
    BY DEF Init, DedupInit, SentInv, LoopInv
  <1> QED BY <1>2, <1>3, <1>4 DEF IInv

(* The reloads and the clock leave the handler alone.                      *)
LEMMA WorldStep ==
  ASSUME IInv,
         \/ \E g \in Appliers, c \in Configs : Reload(g, c)
         \/ \E g \in Appliers : applyConfig(g)
         \/ Clock
  PROVE  IInv'
  <1> USE DEF IInv
  <1>1. UNCHANGED <<at, ev, snapshot, rule, recentPathWrites, recentIDWrites, sent, judgedBy>>
        /\ emitted' = {}
    BY DEF Reload, applyConfig, Clock, handlerVars, writeVars
  <1>2. DedupTypeOK' /\ DedupInv' /\ last' = last /\ now <= now'
    <2>1. CASE \E g \in Appliers, c \in Configs : Reload(g, c)
      <3>1. UNCHANGED <<now, window, last, told, floor>>
        BY <2>1 DEF Reload, dedupVars
      <3> QED BY <3>1 DEF TypeOK, DedupTypeOK, DedupInv
    <2>2. ASSUME NEW g \in Appliers, applyConfig(g) PROVE DedupTypeOK' /\ DedupInv' /\ last' = last /\ now <= now'
      <3>1. pending[g].window \in Nat
        BY <2>2, EngineAssumption DEF applyConfig, TypeOK, EngineAssumption
      <3>2. SetWindow(pending[g].window)
        BY <2>2 DEF applyConfig
      <3>3. last' = last /\ now' = now
        BY <3>2 DEF SetWindow
      <3> QED BY <3>1, <3>2, <3>3, WindowStep DEF TypeOK, DedupTypeOK
    <2>3. CASE Clock
      BY <2>3, TickStep DEF Clock, Tick, TypeOK, DedupTypeOK
    <2> QED BY <2>1, <2>2, <2>3
  <1>3. cfg' \in Configs /\ pending' \in [Appliers -> Configs \cup {None}]
    BY DEF Reload, applyConfig, Clock, TypeOK
  <1>4. TypeOK'
    BY <1>1, <1>2, <1>3 DEF TypeOK, RulesInHand
  <1>5. LoopInv'
    BY <1>1 DEF LoopInv, RulesInHand, Kills
  <1>6. SentInv'
    BY <1>1, <1>2, DeduperAssumption DEF SentInv, RuleKey, RulesInHand, TypeOK, DedupTypeOK, Times, DeduperAssumption
  <1> QED BY <1>2, <1>4, <1>5, <1>6

(* A step that leaves the deduper alone.                                   *)
LEMMA SameDedup ==
  ASSUME DedupTypeOK, DedupInv, UNCHANGED dedupVars
  PROVE  DedupTypeOK' /\ DedupInv' /\ last' = last /\ now' = now /\ window' = window
  BY DEF DedupTypeOK, DedupInv, dedupVars

(* AnalyzeExec answers at once or starts the loop on its own copy.         *)
LEMMA ExecEventStep ==
  ASSUME IInv, NEW p \in Pid, NEW f \in File, NEW exe \in File, NEW b \in BOOLEAN, NEW fileless \in BOOLEAN,
         AnalyzeExec(p, f, exe, b, fileless)
  PROVE  IInv'
  <1> USE DEF IInv
  <1>1. DedupTypeOK' /\ DedupInv' /\ last' = last /\ now' = now
    BY SameDedup DEF AnalyzeExec, TypeOK
  <1>2. UNCHANGED <<cfg, pending, recentPathWrites, recentIDWrites, sent>> /\ at = "idle"
    BY DEF AnalyzeExec, writeVars
  <1>3. CASE /\ NeedsRules(b, f, exe, fileless)
             /\ at' = "rules" /\ ev' = [pid |-> p, file |-> f]
             /\ snapshot' = cfg /\ rule' = 1 /\ judgedBy' = cfg
             /\ emitted' = {}
    <2>1. cfg \in Configs /\ cfg.rules \in Seq(Rules)
      BY EngineAssumption DEF TypeOK, EngineAssumption
    <2>2. rule' \in 1..(Len(RulesInHand') + 1)
      BY <1>3, <2>1 DEF RulesInHand
    <2>3. TypeOK'
      BY <1>1, <1>2, <1>3, <2>1, <2>2 DEF TypeOK
    <2>4. LoopInv'
      BY <1>3 DEF LoopInv, NeedsRules
    <2>5. SentInv'
      BY <1>1, <1>2, <1>3 DEF SentInv
    <2> QED BY <1>1, <2>3, <2>4, <2>5
  <1>4. CASE /\ emitted' = Answer(f, exe, fileless)
             /\ UNCHANGED <<handlerVars, judgedBy>>
    <2>1. emitted' \subseteq Outputs
      BY <1>4, OutputTypes DEF Answer
    <2>2. TypeOK'
      BY <1>1, <1>2, <1>4, <2>1 DEF TypeOK, handlerVars
    <2>3. LoopInv' /\ SentInv'
      BY <1>1, <1>2, <1>4 DEF LoopInv, SentInv, handlerVars
    <2> QED BY <1>1, <2>2, <2>3
  <1> QED BY <1>3, <1>4 DEF AnalyzeExec

(* An alert passes the deduper and goes out in the same step.              *)
LEMMA PassAndSend ==
  ASSUME TypeOK, DedupInv, SentInv, at # "kill", at' # "kill",
         NEW k \in Key, AllowTrue(k), sent' = [sent EXCEPT ![k] = now]
  PROVE  SentInv' /\ sent' \in [Key -> Times]
  <1>a. DedupTypeOK
    BY DEF TypeOK
  <1>b. \A j \in Key : last'[j] = Never \/ (j = k /\ last'[j] = now) \/ last'[j] = last[j]
    BY <1>a, PassStep
  <1>c. now' = now
    BY DEF AllowTrue
  <1>d. now \in Nat
    BY <1>a, DeduperAssumption DEF DedupTypeOK, DeduperAssumption
  <1>1. /\ now' = now /\ now \in Nat
        /\ \A j \in Key : last'[j] = Never \/ (j = k /\ last'[j] = now) \/ last'[j] = last[j]
    BY <1>b, <1>c, <1>d
  <1>2. \A j \in Key : last[j] # Never => last[j] \in Nat /\ last[j] <= now
    BY DeduperAssumption DEF DedupInv, TypeOK, DedupTypeOK, Times, DeduperAssumption
  <1>3. sent' \in [Key -> Times] /\ sent'[k] = now /\ \A j \in Key : j # k => sent'[j] = sent[j]
    BY <1>1 DEF TypeOK, Times
  <1> QED BY <1>1, <1>2, <1>3, DeduperAssumption DEF SentInv, DeduperAssumption

(* One turn of the rule loop: no match, suppressed, alert or kill.         *)
LEMMA NextRuleStep ==
  ASSUME IInv, NextRule
  PROVE  IInv'
  <1> USE DEF IInv
  <1> DEFINE r == RulesInHand[rule]
  <1>1. /\ at = "rules" /\ rule <= Len(RulesInHand)
        /\ UNCHANGED <<cfg, pending, recentPathWrites, recentIDWrites>>
    BY DEF NextRule, writeVars
  <1>2. /\ r \in Rules /\ RuleKey(r) \in Key /\ rule \in DOMAIN RulesInHand
        /\ rule \in Nat /\ Len(RulesInHand) \in Nat /\ snapshot \in Configs
    BY <1>1, RuleTypes DEF TypeOK
  <1>3. ASSUME GoOn
        PROVE  /\ at' = "rules" /\ ev' = ev /\ snapshot' = snapshot /\ judgedBy' = judgedBy
               /\ rule' \in 1..(Len(RulesInHand') + 1)
               /\ LoopInv'
    BY <1>1, <1>2, <1>3 DEF GoOn, TypeOK, LoopInv, RulesInHand
  <1>4. CASE GoOn /\ emitted' = {} /\ UNCHANGED <<dedupVars, sent>>
    <2>1. DedupTypeOK' /\ DedupInv' /\ last' = last /\ now' = now
      BY <1>4, SameDedup DEF TypeOK
    <2>2. TypeOK'
      BY <1>1, <1>2, <1>3, <1>4, <2>1 DEF TypeOK
    <2>3. SentInv'
      BY <1>1, <1>3, <1>4, <2>1 DEF SentInv
    <2> QED BY <1>3, <1>4, <2>1, <2>2, <2>3
  <1>5. CASE /\ AllowTrue(RuleKey(r)) /\ GoOn
             /\ emitted' = {Alert("EXEC")}
             /\ sent' = [sent EXCEPT ![RuleKey(r)] = now]
    <2>1. DedupTypeOK' /\ DedupInv'
      BY <1>2, <1>5, PassStep DEF TypeOK
    <2>2. SentInv' /\ sent' \in [Key -> Times]
      BY <1>1, <1>2, <1>3, <1>5, PassAndSend
    <2>3. TypeOK'
      BY <1>1, <1>2, <1>3, <1>5, <2>1, <2>2, OutputTypes DEF TypeOK
    <2> QED BY <1>3, <1>5, <2>1, <2>2, <2>3
  <1>6. CASE /\ ev.file \in r.match /\ Kills(r)
             /\ AllowTrue(RuleKey(r))
             /\ at' = "kill" /\ UNCHANGED <<ev, snapshot, rule, judgedBy>>
             /\ emitted' = {}
             /\ UNCHANGED sent
    <2>1. DedupTypeOK' /\ DedupInv'
      BY <1>2, <1>6, PassStep DEF TypeOK
    <2>2. RulesInHand' = RulesInHand /\ RulesInHand'[rule'] = r /\ RuleKey(RulesInHand[rule])' = RuleKey(r)
      BY <1>6 DEF RulesInHand, RuleKey
    <2>3. TypeOK'
      BY <1>1, <1>2, <1>6, <2>1, <2>2 DEF TypeOK
    <2>4. LoopInv'
      BY <1>1, <1>6, <2>2 DEF LoopInv, Kills
    <2>5. SentInv'
      <3>1. /\ now' = now
            /\ \A j \in Key : last'[j] = Never \/ j = RuleKey(r) \/ last'[j] = last[j]
        BY <1>2, <1>6, PassStep DEF TypeOK, AllowTrue
      <3> QED BY <1>1, <1>6, <2>2, <3>1 DEF SentInv
    <2> QED BY <2>1, <2>3, <2>4, <2>5
  <1> QED BY <1>4, <1>5, <1>6 DEF NextRule, AllowFalse

(* The handler is done with its event.                                     *)
LEMMA FinishStep ==
  ASSUME IInv, Finish, UNCHANGED <<dedupVars, cfg, pending, writeVars>>,
         emitted' \subseteq Outputs, sent' \in [Key -> Times],
         \A k \in Key : \/ last[k] = Never
                        \/ sent'[k] # Never /\ last[k] <= sent'[k] /\ sent'[k] <= now
  PROVE  IInv'
  <1> USE DEF IInv
  <1>1. DedupTypeOK' /\ DedupInv' /\ last' = last /\ now' = now
    BY SameDedup DEF TypeOK
  <1>2. TypeOK'
    BY <1>1 DEF TypeOK, Finish, writeVars
  <1>3. LoopInv' /\ SentInv'
    BY <1>1 DEF LoopInv, SentInv, Finish
  <1> QED BY <1>1, <1>2, <1>3

(* The loop ends, by its last rule or by a kill, failed or not.            *)
LEMMA EndStep ==
  ASSUME IInv, EndOfRules \/ KillShell \/ \E killed \in BOOLEAN : Kill(killed)
  PROVE  IInv'
  <1> USE DEF IInv
  <1>1. CASE EndOfRules \/ KillShell
    <2>1. at # "kill" /\ sent' = sent /\ emitted' \subseteq Outputs
      BY <1>1, OutputTypes DEF EndOfRules, KillShell
    <2>2. \A k \in Key : \/ last[k] = Never
                         \/ sent[k] # Never /\ last[k] <= sent[k] /\ sent[k] <= now
      BY <2>1 DEF SentInv
    <2> QED BY <1>1, <2>1, <2>2, FinishStep DEF EndOfRules, KillShell, TypeOK
  <1>2. ASSUME NEW killed \in BOOLEAN, Kill(killed) PROVE IInv'
    <2> DEFINE k == RuleKey(RulesInHand[rule])
    <2>1. at = "kill" /\ rule <= Len(RulesInHand)
      <3>1. at = "kill" /\ rule \in DOMAIN RulesInHand /\ snapshot \in Configs
        BY <1>2 DEF Kill, TypeOK
      <3>2. RulesInHand \in Seq(Rules)
        BY <3>1, EngineAssumption DEF RulesInHand, EngineAssumption
      <3> QED BY <3>1, <3>2
    <2>2. k \in Key
      BY <2>1, RuleTypes
    <2>3. sent' = [sent EXCEPT ![k] = now] /\ now \in Nat
      BY <1>2 DEF Kill, Tell, TypeOK, DedupTypeOK
    <2>4. sent' \in [Key -> Times] /\ sent'[k] = now /\ \A j \in Key : j # k => sent'[j] = sent[j]
      BY <2>2, <2>3 DEF TypeOK, Times
    <2>5. \A j \in Key : last[j] # Never => last[j] \in Nat /\ last[j] <= now
      BY DeduperAssumption DEF DedupInv, TypeOK, DedupTypeOK, Times, DeduperAssumption
    <2>6. \A j \in Key : \/ last[j] = Never
                         \/ sent'[j] # Never /\ last[j] <= sent'[j] /\ sent'[j] <= now
      BY <2>2, <2>3, <2>4, <2>5, DeduperAssumption DEF SentInv, DeduperAssumption
    <2>7. emitted' \subseteq Outputs
      BY <1>2, OutputTypes DEF Kill, Answered
    <2> QED BY <1>2, <2>4, <2>6, <2>7, FinishStep DEF Kill, Terminated
  <1> QED BY <1>1, <1>2

(* A reverse shell leaves deduper and rules alone.                         *)
LEMMA ShellStep ==
  ASSUME IInv, NEW p \in Pid, NEW f \in File, AnalyzeReverseShell(p, f)
  PROVE  IInv'
  <1> USE DEF IInv
  <1>1. DedupTypeOK' /\ DedupInv' /\ last' = last /\ now' = now
    BY SameDedup DEF AnalyzeReverseShell, TypeOK
  <1>2. emitted' \subseteq Outputs /\ at' \in {"idle", "shell"}
        /\ (at' = "shell" => ev' = [pid |-> p, file |-> f])
        /\ UNCHANGED <<cfg, pending, recentPathWrites, recentIDWrites, sent>> /\ at = "idle"
    BY OutputTypes DEF AnalyzeReverseShell, handlerVars, writeVars
  <1>3. TypeOK'
    BY <1>1, <1>2 DEF TypeOK
  <1>4. LoopInv' /\ SentInv'
    BY <1>1, <1>2 DEF LoopInv, SentInv
  <1> QED BY <1>1, <1>3, <1>4

(* The sensors pass the deduper and send in one step.                      *)
LEMMA SensorStep ==
  ASSUME IInv,
         \/ \E p \in Pid, s \in Sensor : SensorEvent(p, s)
         \/ \E p \in Pid, f, exe \in File, s \in Sensor : WriteEvent(p, f, exe, s)
         \/ PreventedEvent \/ Discard
  PROVE  IInv'
  <1> USE DEF IInv
  <1>a. now \in Times
    BY DeduperAssumption DEF TypeOK, DedupTypeOK, Times, DeduperAssumption
  <1>b. at = "idle" /\ at' = "idle" /\ UNCHANGED <<cfg, pending>>
    BY DEF SensorEvent, WriteEvent, PreventedEvent, Discard, handlerVars
  <1>c. recentPathWrites' \in [File -> Times] /\ recentIDWrites' \in [File -> Times]
    <2>1. recentPathWrites \in [File -> Times] /\ recentIDWrites \in [File -> Times]
      BY DEF TypeOK
    <2>2. CASE UNCHANGED writeVars
      BY <2>1, <2>2 DEF writeVars
    <2>3. ASSUME NEW f \in File, NEW exe \in File,
                 recentPathWrites' = [recentPathWrites EXCEPT ![f] = now],
                 recentIDWrites' = [recentIDWrites EXCEPT ![exe] = now]
          PROVE  recentPathWrites' \in [File -> Times] /\ recentIDWrites' \in [File -> Times]
      BY <1>a, <2>1, <2>3
    <2> QED BY <2>2, <2>3 DEF SensorEvent, WriteEvent, PreventedEvent, Discard
  <1>1. /\ at = "idle" /\ at' = "idle" /\ UNCHANGED <<cfg, pending>>
        /\ recentPathWrites' \in [File -> Times] /\ recentIDWrites' \in [File -> Times]
    BY <1>b, <1>c
  <1>2. \/ UNCHANGED <<dedupVars, sent>> /\ emitted' \subseteq Outputs
        \/ \E k \in Key : AllowTrue(k) /\ sent' = [sent EXCEPT ![k] = now] /\ emitted' = {Alert("SENSOR")}
    <2>1. ASSUME NEW p \in Pid, NEW s \in Sensor PROVE <<s, p>> \in Key
      BY EngineAssumption DEF EngineAssumption
    <2>2. ASSUME NEW p \in Pid, NEW s \in Sensor, Sensed(p, s)
          PROVE  \/ UNCHANGED <<dedupVars, sent>> /\ emitted' \subseteq Outputs
                 \/ \E k \in Key : AllowTrue(k) /\ sent' = [sent EXCEPT ![k] = now] /\ emitted' = {Alert("SENSOR")}
      <3>1. CASE AllowFalse(<<s, p>>) /\ emitted' = {} /\ UNCHANGED sent
        BY <3>1 DEF AllowFalse
      <3>2. CASE /\ AllowTrue(<<s, p>>)
                 /\ emitted' = {Alert("SENSOR")}
                 /\ sent' = [sent EXCEPT ![<<s, p>>] = now]
        BY <2>1, <3>2
      <3> QED BY <2>2, <3>1, <3>2 DEF Sensed
    <2>3. CASE PreventedEvent \/ Discard
      BY <2>3, OutputTypes DEF PreventedEvent, Prevented, Discard
    <2> QED BY <2>2, <2>3 DEF SensorEvent, WriteEvent
  <1>3. CASE UNCHANGED <<dedupVars, sent>> /\ emitted' \subseteq Outputs
    <2>1. DedupTypeOK' /\ DedupInv' /\ last' = last /\ now' = now
      BY <1>3, SameDedup DEF TypeOK
    <2>2. TypeOK' /\ LoopInv' /\ SentInv'
      BY <1>1, <1>3, <2>1 DEF TypeOK, LoopInv, SentInv
    <2> QED BY <2>1, <2>2
  <1>4. ASSUME NEW k \in Key, AllowTrue(k), sent' = [sent EXCEPT ![k] = now], emitted' = {Alert("SENSOR")}
        PROVE  IInv'
    <2>1. DedupTypeOK' /\ DedupInv'
      BY <1>4, PassStep DEF TypeOK
    <2>2. SentInv' /\ sent' \in [Key -> Times]
      BY <1>1, <1>4, PassAndSend
    <2>3. TypeOK' /\ LoopInv'
      BY <1>1, <1>4, <2>1, <2>2, OutputTypes DEF TypeOK, LoopInv
    <2> QED BY <2>1, <2>2, <2>3
  <1> QED BY <1>2, <1>3, <1>4

(* Every step of the engine keeps the invariant.                           *)
LEMMA NextStep ==
  ASSUME IInv, [Next]_vars
  PROVE  IInv'
  <1>1. ASSUME NEW p \in Pid, NEW f \in File, ExecEvent(p, f) \/ ExecBlockedEvent(p, f) PROVE IInv'
    BY <1>1, ExecEventStep DEF ExecEvent, ExecBlockedEvent
  <1>2. CASE UNCHANGED vars
    <2>1. DedupTypeOK' /\ DedupInv' /\ last' = last /\ now' = now
      BY <1>2, SameDedup DEF vars, IInv, TypeOK
    <2>2. TypeOK'
      BY <1>2, <2>1 DEF vars, handlerVars, writeVars, IInv, TypeOK, RulesInHand
    <2>3. LoopInv' /\ SentInv'
      BY <1>2, <2>1 DEF vars, handlerVars, IInv, LoopInv, SentInv, RulesInHand, RuleKey, Kills
    <2> QED BY <2>1, <2>2, <2>3 DEF IInv
  <1> QED BY <1>1, <1>2, WorldStep, NextRuleStep, EndStep, ShellStep, SensorStep DEF Next

(* The invariant holds in every reachable state.                           *)
LEMMA Inductive == Spec => []IInv
  <1>1. IInv /\ [Next]_vars => IInv'
    BY NextStep
  <1> QED BY <1>1, InitIInv, PTL DEF Spec

-----------------------------------------------------------------------------
(* Type correctness of engine, deduper and correlator.                     *)
THEOREM TypeCorrect == Spec => []TypeOK
  <1>1. IInv => TypeOK
    BY DEF IInv
  <1> QED BY <1>1, Inductive, PTL

(* Nothing is suppressed that was not told within the window, whatever     *)
(* kills fail and windows change (Deduper.Allow, processExecRuleMatch).    *)
THEOREM NothingHidden == Spec => []SuppressedOnlyIfTold
  <1>1. IInv => SuppressedOnlyIfTold
    <2> SUFFICES ASSUME IInv, NEW k \in Key, at # "kill", Suppressed(k)
                 PROVE  sent[k] # Never /\ now - sent[k] < window
      BY DEF SuppressedOnlyIfTold
    <2>1. last[k] # Never /\ now - last[k] < window
      BY DEF Suppressed
    <2>2. sent[k] # Never /\ last[k] <= sent[k] /\ sent[k] <= now
      BY <2>1 DEF IInv, SentInv
    <2> QED BY <2>1, <2>2 DEF IInv, TypeOK, DedupTypeOK, Times
  <1> QED BY <1>1, Inductive, PTL

(* Every kill for an exec was demanded by the configuration its event was  *)
(* judged by (AnalyzeExec, processExecRuleMatch).                          *)
THEOREM KillsJustified == Spec => []KilledByRule
  <1>1. IInv => KilledByRule
    <2> SUFFICES ASSUME IInv, at = "kill"
                 PROVE  /\ \E n \in DOMAIN judgedBy.rules :
                              Kills(judgedBy.rules[n]) /\ ev.file \in judgedBy.rules[n].match
                        /\ ev.file \notin judgedBy.allowlist
      BY DEF KilledByRule
    <2>1. rule \in DOMAIN RulesInHand /\ snapshot = judgedBy /\ ev.file \notin judgedBy.allowlist
          /\ Kills(RulesInHand[rule]) /\ ev.file \in RulesInHand[rule].match
      BY DEF IInv, TypeOK, LoopInv
    <2> QED BY <2>1 DEF RulesInHand
  <1> QED BY <1>1, Inductive, PTL

(* Alerts with one key keep their distance through reloads and purges      *)
(* (Deduper.Allow, Deduper.SetWindow).                                     *)
THEOREM AlertsSpaced == Spec => AlertSpacing
  <1> DEFINE A == \A k \in Key : told'[k] # told[k] /\ told[k] # Never => told'[k] - told[k] >= floor[k]
  <1>1. ASSUME IInv, Next, NEW k \in Key, told'[k] # told[k], told[k] # Never
        PROVE  told'[k] - told[k] >= floor[k]
    <2>1. PICK j \in Key : AllowTrue(j)
      <3>1. ASSUME told' = told PROVE FALSE
        BY <1>1, <3>1
      <3>2. ASSUME NextRule, told' # told PROVE \E j \in Key : AllowTrue(j)
        BY <1>1, <3>2, RuleTypes DEF IInv, NextRule, AllowFalse, dedupVars
      <3>3. ASSUME NEW p \in Pid, NEW s \in Sensor PROVE <<s, p>> \in Key
        BY EngineAssumption DEF EngineAssumption
      <3>4. ASSUME \/ \E p \in Pid, s \in Sensor : SensorEvent(p, s)
                   \/ \E p \in Pid, f, exe \in File, s \in Sensor : WriteEvent(p, f, exe, s),
                   told' # told
            PROVE  \E j \in Key : AllowTrue(j)
        BY <3>3, <3>4 DEF SensorEvent, WriteEvent, Sensed, AllowFalse, dedupVars
      <3>5. CASE \/ \E g \in Appliers, c \in Configs : Reload(g, c)
                 \/ \E g \in Appliers : applyConfig(g)
                 \/ Clock
        BY <3>1, <3>5 DEF Reload, applyConfig, Clock, Tick, SetWindow, dedupVars
      <3>6. CASE \/ \E p \in Pid, f \in File : ExecEvent(p, f) \/ ExecBlockedEvent(p, f) \/ AnalyzeReverseShell(p, f)
                 \/ EndOfRules \/ KillShell \/ PreventedEvent \/ Discard
                 \/ \E killed \in BOOLEAN : Kill(killed)
        BY <3>1, <3>6 DEF ExecEvent, ExecBlockedEvent, AnalyzeExec, AnalyzeReverseShell, EndOfRules,
              KillShell, PreventedEvent, Discard, Kill, dedupVars
      <3> QED BY <1>1, <3>1, <3>2, <3>4, <3>5, <3>6 DEF Next
    <2>2. j = k
      BY <1>1, <2>1, PassStep DEF IInv, TypeOK
    <2> QED BY <1>1, <2>1, <2>2, PassStep DEF IInv, TypeOK
  <1>2. IInv /\ [Next]_vars => [A]_dedupVars
    BY <1>1 DEF vars
  <1> HIDE DEF A
  <1>3. [][A]_dedupVars => AlertSpacing
    BY DEF A, AlertSpacing
  <1> QED BY <1>2, <1>3, Inductive, PTL DEF Spec

=============================================================================
