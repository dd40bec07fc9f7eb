------------------------------- MODULE Engine -------------------------------
(* The exec path of internal/processor: one goroutine takes records off the *)
(* ring buffer, judges them by the configuration it finds, and answers with *)
(* alerts, audit records and kills, while reloads put another configuration *)
(* in force and set the deduplication window, and time goes by.             *)
EXTENDS Deduper, Sequences

CONSTANTS
    Pid,          \* process ids
    File,         \* files, each with its path and its (dev, inode)
    Name,         \* rule names; nothing makes them unique
    Sensor,       \* the other sensors, with what their events name
    Configs,      \* the configurations the operator may put in force
    Appliers,     \* the goroutines that reload
    WriteWindow,  \* how long a write is remembered (30 s)
    LSMEnabled,   \* did the LSM hooks attach?
    None          \* nothing

Rules == [name : Name, action : {"ALERT", "KILL", "BLOCK"}, mode : {"enforce", "audit"},
          match : SUBSET File]

(* Every configuration has rules in order, a window, an allowlist and the  *)
(* enforcement switch; alerts are told apart by rule or sensor and pid.    *)
ASSUME EngineAssumption ==
    /\ Configs \subseteq [rules : Seq(Rules), window : Nat, allowlist : SUBSET File, enforce : BOOLEAN]
    /\ Configs # {} /\ None \notin Configs
    /\ Key = (Name \cup Sensor) \X Pid
    /\ WriteWindow \in Nat /\ LSMEnabled \in BOOLEAN

VARIABLES
    cfg,               \* Manager.Current()
    pending,           \* the configuration each reload is still to apply
    at,                \* where the handler is
    ev,                \* the record it handles
    snapshot,          \* its cfg := e.cfg.Current()
    rule,              \* its place in cfg.Rules
    recentPathWrites,  \* Correlator: when a path was written
    recentIDWrites,    \* Correlator: when an identity was
    emitted,           \* what the last step sent out
    sent,              \* history: when the last alert of a key went out
    judgedBy           \* history: in force when the handler took ev

handlerVars == <<at, ev, snapshot, rule>>
writeVars == <<recentPathWrites, recentIDWrites>>
vars == <<dedupVars, cfg, pending, handlerVars, writeVars, emitted, sent, judgedBy>>

Alert(t) == [kind |-> "alert", type |-> t]
Audit(t) == [kind |-> "audit", type |-> t]
Outputs == [kind : {"alert", "audit"}, type : {"EXEC", "EXEC_BLOCKED", "DROP_AND_EXEC",
              "FILELESS_EXEC", "REVERSE_SHELL", "SENSOR", "BLOCK", "KILL"}]

Init ==
    /\ cfg \in Configs
    /\ DedupInit(cfg.window)
    /\ pending = [g \in Appliers |-> None]
    /\ at = "idle" /\ ev = None /\ snapshot = None /\ rule = 1
    /\ recentPathWrites = [f \in File |-> Never]
    /\ recentIDWrites = [f \in File |-> Never]
    /\ emitted = {}
    /\ sent = [k \in Key |-> Never]
    /\ judgedBy = None

-----------------------------------------------------------------------------
(* A reload first puts the configuration in force and then applies it.     *)
Reload(g, c) ==
    /\ pending[g] = None /\ c # cfg
    /\ cfg' = c
    /\ pending' = [pending EXCEPT ![g] = c]
    /\ emitted' = {}
    /\ UNCHANGED <<dedupVars, handlerVars, writeVars, sent, judgedBy>>

applyConfig(g) ==
    /\ pending[g] # None
    /\ SetWindow(pending[g].window)
    /\ pending' = [pending EXCEPT ![g] = None]
    /\ emitted' = {}
    /\ UNCHANGED <<cfg, handlerVars, writeVars, sent, judgedBy>>

Clock ==
    /\ Tick
    /\ emitted' = {}
    /\ UNCHANGED <<cfg, pending, handlerVars, writeVars, sent, judgedBy>>

-----------------------------------------------------------------------------
Recent(t) == t # Never /\ now - t <= WriteWindow

(* GetRecentWrite: by the identity in the event, then by path.             *)
GetRecentWrite(f, exe) == Recent(recentIDWrites[exe]) \/ Recent(recentPathWrites[f])

(* AnalyzeExec up to the rule loop.  f is the program and exe the image    *)
(* the process had when the event was made: f or its interpreter after an  *)
(* exec, the caller's in the hook's reports.  The first answer that        *)
(* applies ends the matter.                                                *)
Answer(f, exe, fileless) ==
    IF f \in cfg.allowlist THEN {}
    ELSE IF GetRecentWrite(f, exe) THEN {Alert("DROP_AND_EXEC")}
    ELSE IF fileless THEN {Alert("FILELESS_EXEC")}
    ELSE {Audit("BLOCK"), Alert("EXEC_BLOCKED")}

NeedsRules(b, f, exe, fileless) ==
    ~b /\ ~fileless /\ f \notin cfg.allowlist /\ ~GetRecentWrite(f, exe)

AnalyzeExec(p, f, exe, b, fileless) ==
    /\ at = "idle"
    /\ \/ /\ NeedsRules(b, f, exe, fileless)
          /\ at' = "rules" /\ ev' = [pid |-> p, file |-> f]
          /\ snapshot' = cfg /\ rule' = 1 /\ judgedBy' = cfg
          /\ emitted' = {}
       \/ /\ ~NeedsRules(b, f, exe, fileless)
          /\ emitted' = Answer(f, exe, fileless)
          /\ UNCHANGED <<handlerVars, judgedBy>>
    /\ UNCHANGED <<dedupVars, cfg, pending, writeVars, sent>>

(* The hook's own report of a memfd sets isFileless; tp_schedexec leaves   *)
(* it as the ring buffer had it, so it may be anything.                    *)
ExecEvent(p, f) == \E exe \in File, fileless \in BOOLEAN : AnalyzeExec(p, f, exe, FALSE, fileless)
ExecBlockedEvent(p, f) == \E exe \in File : AnalyzeExec(p, f, exe, TRUE, FALSE)

(* The rule loop works on the configuration it started with.               *)
(* Mutant: on the one in force.                                            *)
RulesNow == cfg.rules
RulesInHand == snapshot.rules

Finish ==
    /\ at' = "idle" /\ ev' = None
    /\ snapshot' = None /\ rule' = 1 /\ judgedBy' = None

GoOn == rule' = rule + 1 /\ UNCHANGED <<at, ev, snapshot, judgedBy>>

EndOfRules ==
    /\ at = "rules" /\ rule > Len(RulesInHand)
    /\ Finish
    /\ emitted' = {}
    /\ UNCHANGED <<dedupVars, cfg, pending, writeVars, sent>>

Kills(r) == r.mode = "enforce" /\ r.action # "ALERT"
RuleKey(r) == <<r.name, ev.pid>>

NextRule ==
    /\ at = "rules" /\ rule <= Len(RulesInHand)
    /\ LET r == RulesInHand[rule] IN
       \/ /\ ev.file \notin r.match
          /\ GoOn
          /\ emitted' = {}
          /\ UNCHANGED <<dedupVars, sent>>
       \/ /\ ev.file \in r.match
          /\ AllowFalse(RuleKey(r))
          /\ GoOn
          /\ emitted' = {}
          /\ UNCHANGED sent
       \/ /\ ev.file \in r.match /\ ~Kills(r)
          /\ AllowTrue(RuleKey(r))
          /\ GoOn
          /\ emitted' = {Alert("EXEC")}
          /\ sent' = [sent EXCEPT ![RuleKey(r)] = now]
       \/ /\ ev.file \in r.match /\ Kills(r)
          /\ AllowTrue(RuleKey(r))
          /\ at' = "kill" /\ UNCHANGED <<ev, snapshot, rule, judgedBy>>
          /\ emitted' = {}
          /\ UNCHANGED sent
    /\ UNCHANGED <<cfg, pending, writeVars>>

Terminated == Finish

(* processExecRuleMatch: SafeKill succeeds or refuses; either way the      *)
(* alert goes out and no further rule is looked at.                        *)
Answered(killed) == IF killed THEN {Audit("KILL"), Alert("EXEC")} ELSE {Alert("EXEC")}

(* Mutant: a kill that fails is not reported.                              *)
TellIfKilled(killed, k) == IF killed THEN [sent EXCEPT ![k] = now] ELSE sent
Tell(killed, k) == [sent EXCEPT ![k] = now]

Kill(killed) ==
    /\ at = "kill"
    /\ emitted' = Answered(killed)
    /\ sent' = Tell(killed, RuleKey(RulesInHand[rule]))
    /\ Terminated
    /\ UNCHANGED <<dedupVars, cfg, pending, writeVars>>

-----------------------------------------------------------------------------
(* AnalyzeReverseShell: what the hook is taken to have blocked is only     *)
(* reported; otherwise the KILL is put on record and then tried.           *)
AnalyzeReverseShell(p, f) ==
    /\ at = "idle"
    /\ \/ /\ cfg.enforce /\ LSMEnabled
          /\ emitted' = {Audit("BLOCK"), Alert("REVERSE_SHELL")}
          /\ UNCHANGED <<handlerVars, judgedBy>>
       \/ /\ ~(cfg.enforce /\ LSMEnabled)
          /\ emitted' = {Audit("KILL")}
          /\ at' = "shell" /\ ev' = [pid |-> p, file |-> f]
          /\ UNCHANGED <<snapshot, rule, judgedBy>>
    /\ UNCHANGED <<dedupVars, cfg, pending, writeVars, sent>>

KillShell ==
    /\ at = "shell"
    /\ Finish
    /\ emitted' = {Alert("REVERSE_SHELL")}
    /\ UNCHANGED <<dedupVars, cfg, pending, writeVars, sent>>

(* AnalyzeGeneric and its like: the alert goes out unless the deduper      *)
(* suppresses it.                                                          *)
Sensed(p, s) ==
    \/ AllowFalse(<<s, p>>) /\ emitted' = {} /\ UNCHANGED sent
    \/ /\ AllowTrue(<<s, p>>)
       /\ emitted' = {Alert("SENSOR")}
       /\ sent' = [sent EXCEPT ![<<s, p>>] = now]

SensorEvent(p, s) ==
    /\ at = "idle"
    /\ Sensed(p, s)
    /\ UNCHANGED <<cfg, pending, handlerVars, writeVars, judgedBy>>

(* A record that leads to nothing: it cannot be decoded, nobody handles    *)
(* its type, or it is a connection of an ignored program or to loopback.   *)
Discard ==
    /\ at = "idle"
    /\ emitted' = {}
    /\ UNCHANGED <<dedupVars, cfg, pending, handlerVars, writeVars, sent, judgedBy>>

(* What a hook has prevented is always put on record and reported.         *)
Prevented == {Audit("BLOCK"), Alert("SENSOR")}

PreventedEvent ==
    /\ at = "idle"
    /\ emitted' = Prevented
    /\ UNCHANGED <<dedupVars, cfg, pending, handlerVars, writeVars, sent, judgedBy>>

(* SENSITIVE_WRITE: the write is remembered under the path written and     *)
(* under the identity in the event, which is that of the writer's image.   *)
WriteEvent(p, f, exe, s) ==
    /\ at = "idle"
    /\ recentPathWrites' = [recentPathWrites EXCEPT ![f] = now]
    /\ recentIDWrites' = [recentIDWrites EXCEPT ![exe] = now]
    /\ Sensed(p, s)
    /\ UNCHANGED <<cfg, pending, handlerVars, judgedBy>>

Next ==
    \/ \E g \in Appliers, c \in Configs : Reload(g, c)
    \/ \E g \in Appliers : applyConfig(g)
    \/ Clock
    \/ \E p \in Pid, f \in File : ExecEvent(p, f) \/ ExecBlockedEvent(p, f) \/ AnalyzeReverseShell(p, f)
    \/ NextRule \/ EndOfRules \/ KillShell
    \/ \E killed \in BOOLEAN : Kill(killed)
    \/ \E p \in Pid, s \in Sensor : SensorEvent(p, s)
    \/ \E p \in Pid, f, exe \in File, s \in Sensor : WriteEvent(p, f, exe, s)
    \/ PreventedEvent \/ Discard

Spec == Init /\ [][Next]_vars

-----------------------------------------------------------------------------
(* Type correctness, with the handler's place in the rules.                *)
TypeOK ==
    /\ DedupTypeOK
    /\ cfg \in Configs
    /\ pending \in [Appliers -> Configs \cup {None}]
    /\ at \in {"idle", "rules", "kill", "shell"}
    /\ at # "idle" => ev \in [pid : Pid, file : File]
    /\ at \in {"rules", "kill"} => /\ snapshot \in Configs /\ judgedBy \in Configs
                                  /\ rule \in 1..(Len(RulesInHand) + 1)
    /\ at = "kill" => rule \in DOMAIN RulesInHand
    /\ recentPathWrites \in [File -> Times] /\ recentIDWrites \in [File -> Times]
    /\ emitted \subseteq Outputs
    /\ sent \in [Key -> Times]

(* An alert is suppressed only if one with its key really went out less    *)
(* than a window ago, also when the alert had to wait for a kill that then *)
(* failed.                                                                 *)
SuppressedOnlyIfTold ==
    \A k \in Key : at # "kill" /\ Suppressed(k) => sent[k] # Never /\ now - sent[k] < window

(* A process is killed for its exec only if a rule of the configuration    *)
(* that was in force when the event was taken up demands it and that       *)
(* configuration does not allow the program, however many reloads fall     *)
(* into the rule loop.                                                     *)
KilledByRule ==
    at = "kill" =>
        /\ \E n \in DOMAIN judgedBy.rules : Kills(judgedBy.rules[n]) /\ ev.file \in judgedBy.rules[n].match
        /\ ev.file \notin judgedBy.allowlist
=============================================================================
