----------------------------- MODULE PolicySync -----------------------------
(* How a policy reaches the kernel and what the exec hook makes of it while *)
(* it does: BLOCK rules become the exact and the prefix block list          *)
(* (internal/config/rules.go), Engine.applyConfig writes them entry by      *)
(* entry into two BPF maps and sets the kill-switch last (engine.go,        *)
(* loader.go), and bprm_check_security looks all three up, one after the    *)
(* other, in every exec (bpf/sensors/lsm.h).  A path is a model value; a    *)
(* prefix is one with the set of paths it covers and a length.              *)
EXTENDS Naturals, FiniteSets

CONSTANTS
    Paths,      \* the binaries that are executed, and the exact keys
    Prefixes,   \* the prefix keys
    Covers,     \* the paths below each prefix
    Length,     \* the length of each prefix
    Policies,   \* the configurations a reload may bring: rules and kill-switch
    Appliers,   \* goroutines that may be in applyConfig at the same time
    PrefixCapacity, ExactCapacity,  \* max_entries of the two maps
    LSMEnabled  \* did the LSM hooks attach?

Enforce == 1
Audit == 2
Absent == 0
Modes == {Enforce, Audit}

Keys == Paths \cup Prefixes
Rules == Keys \X Modes      \* a BLOCK rule with an extractable path or prefix

ASSUME PolicyAssumption ==
    /\ Paths # {} /\ Paths \cap Prefixes = {}
    /\ IsFiniteSet(Keys)
    /\ Covers \in [Prefixes -> SUBSET Paths]
    /\ Length \in [Prefixes -> Nat]
    /\ \A p \in Paths : \A q, s \in Prefixes :
          p \in Covers[q] \cap Covers[s] /\ Length[q] = Length[s] => q = s
    /\ Policies \subseteq [rules : SUBSET Rules, enforce : BOOLEAN]
    /\ PrefixCapacity \in Nat /\ ExactCapacity \in Nat
    /\ LSMEnabled \in BOOLEAN

(* BlockedPatterns and BlockedPrefix: one entry per key, and an enforcing  *)
(* rule is never overridden by an audit rule for the same key.             *)
Want(P) ==
    [k \in Keys |-> IF <<k, Enforce>> \in P.rules THEN Enforce
                    ELSE IF <<k, Audit>> \in P.rules THEN Audit
                    ELSE Absent]

(* applyConfig syncs the prefix map before the exact map.                  *)
CapacityOf(st) == IF st = "prefix" THEN PrefixCapacity ELSE ExactCapacity
KeysOf(st) == IF st = "prefix" THEN Prefixes ELSE Paths
StageAfter(st) == IF st = "prefix" THEN "exact" ELSE "switch"

VARIABLES
    table,      \* the two BPF maps: the mode of each key, or Absent
    enforcing,  \* enforcement_enabled
    inForce,    \* the policy that was last applied completely
    intact,     \* did that application succeed in every read and update?
    unread,     \* history: the maps whose last sync ended in a read error
    stage,      \* what each applier is syncing
    phase,      \* how far syncValueMap is with it
    policy,     \* the policy each applier applies
    existing,   \* syncValueMap's copy of the map, updated as it writes
    failed,     \* has this applier hit a full map?
    hook        \* one execution of bprm_check_security

applierVars == <<stage, phase, policy, existing, failed>>
vars == <<table, enforcing, inForce, intact, unread, applierVars, hook>>

EmptyPolicy == [rules |-> {}, enforce |-> FALSE]
NoHook == [at |-> "idle", path |-> CHOOSE p \in Paths : TRUE, owed |-> {}]

(* NewManager leaves the maps empty and enforcement off.                   *)
Init ==
    /\ table = [k \in Keys |-> Absent]
    /\ enforcing = FALSE
    /\ inForce = EmptyPolicy
    /\ intact = TRUE
    /\ unread = {}
    /\ stage = [g \in Appliers |-> "idle"]
    /\ phase = [g \in Appliers |-> "iterate"]
    /\ policy = [g \in Appliers |-> EmptyPolicy]
    /\ existing = [g \in Appliers |-> [k \in Keys |-> Absent]]
    /\ failed = [g \in Appliers |-> FALSE]
    /\ hook = NoHook

-----------------------------------------------------------------------------
(* The hook's two lookups.  The LPM trie returns the longest match only.   *)
Matches(t, p) == {q \in Prefixes : p \in Covers[q] /\ t[q] # Absent}
is_prefix_blocked(t, p) ==
    IF Matches(t, p) = {} THEN Absent
    ELSE t[CHOOSE q \in Matches(t, p) :
              \A s \in Matches(t, p) : Length[s] <= Length[q]]

(* A key that makes policy P deny p whatever else is in the map: p itself, *)
(* or a prefix that no longer prefix shadows.                              *)
Decides(P, k, p) ==
    /\ P.enforce
    /\ Want(P)[k] = Enforce
    /\ \/ k = p
       \/ /\ k \in Prefixes
          /\ p \in Covers[k]
          /\ \A s \in Prefixes : p \in Covers[s] /\ Length[s] > Length[k]
                                   => Want(P)[s] = Absent

(* The policies that have a say now, and the keys that deny p under all.   *)
Live == {inForce} \cup {policy[g] : g \in {a \in Appliers : stage[a] # "idle"}}
Owed(live, p) ==
    IF intact /\ LSMEnabled THEN {k \in Keys : \A P \in live : Decides(P, k, p)}
    ELSE {}

-----------------------------------------------------------------------------
(* Engine.applyConfig of a new configuration by goroutine g.               *)
BeginApply(g, P) ==
    /\ stage[g] = "idle"
    /\ stage' = [stage EXCEPT ![g] = "prefix"]
    /\ phase' = [phase EXCEPT ![g] = "iterate"]
    /\ policy' = [policy EXCEPT ![g] = P]
    /\ failed' = [failed EXCEPT ![g] = FALSE]
    /\ hook' = [hook EXCEPT !.owed = @ \cap Owed(Live \cup {P}, hook.path)]
    /\ UNCHANGED <<table, enforcing, inForce, intact, unread, existing>>

Syncing(g) == stage[g] \in {"prefix", "exact"}

(* syncValueMap: read the map, ...                                         *)
Iterate(g) ==
    /\ Syncing(g)
    /\ phase[g] = "iterate"
    /\ existing' = [existing EXCEPT ![g] = table]
    /\ phase' = [phase EXCEPT ![g] = "delete"]
    /\ UNCHANGED <<table, enforcing, inForce, intact, unread, stage, policy, failed,
                   hook>>

NextStage(g) ==
    /\ stage' = [stage EXCEPT ![g] = StageAfter(@)]
    /\ phase' = [phase EXCEPT ![g] = "iterate"]

(* ... which may fail: the map is left as it is and applyConfig goes on.   *)
IterateFails(g) ==
    /\ Syncing(g)
    /\ phase[g] = "iterate"
    /\ unread' = unread \cup {stage[g]}
    /\ NextStage(g)
    /\ UNCHANGED <<table, enforcing, inForce, intact, policy, existing, failed, hook>>

\* Mutant: entries of the old policy are left behind.
KeepStale(g) == {}
\* Mutant: delete everything, then insert.
Everything(g) == {k \in KeysOf(stage[g]) : existing[g][k] # Absent}
Unwanted(g) ==
    {k \in KeysOf(stage[g]) : existing[g][k] # Absent /\ Want(policy[g])[k] = Absent}
\* Mutant: a key that is there already is skipped, whatever its mode.
MissingNewOnly(g) ==
    {k \in KeysOf(stage[g]) : Want(policy[g])[k] # Absent /\ existing[g][k] = Absent}
Missing(g) ==
    {k \in KeysOf(stage[g]) :
        Want(policy[g])[k] # Absent /\ existing[g][k] # Want(policy[g])[k]}

(* ... delete what is no longer wanted, in any order, ...                  *)
DeleteEntry(g, k) ==
    /\ Syncing(g)
    /\ phase[g] = "delete"
    /\ k \in Unwanted(g)
    /\ table' = [table EXCEPT ![k] = Absent]
    /\ existing' = [existing EXCEPT ![g][k] = Absent]
    /\ UNCHANGED <<enforcing, inForce, intact, unread, stage, phase, policy, failed,
                   hook>>

DeletesDone(g) ==
    /\ Syncing(g)
    /\ phase[g] = "delete"
    /\ Unwanted(g) = {}
    /\ phase' = [phase EXCEPT ![g] = "update"]
    /\ unread' = unread \ {stage[g]}
    /\ UNCHANGED <<table, enforcing, inForce, intact, stage, policy, existing,
                   failed, hook>>

(* ... then add or change the rest.  A new key does not fit a full map; the *)
(* first error ends the sync of this map and applyConfig goes on.          *)
Full(g) ==
    Cardinality({k \in KeysOf(stage[g]) : table[k] # Absent}) >= CapacityOf(stage[g])

UpdateEntry(g, k) ==
    /\ Syncing(g)
    /\ phase[g] = "update"
    /\ k \in Missing(g)
    /\ table[k] # Absent \/ ~Full(g)
    /\ table' = [table EXCEPT ![k] = Want(policy[g])[k]]
    /\ existing' = [existing EXCEPT ![g][k] = Want(policy[g])[k]]
    /\ UNCHANGED <<enforcing, inForce, intact, unread, stage, phase, policy, failed,
                   hook>>

UpdateFails(g, k) ==
    /\ Syncing(g)
    /\ phase[g] = "update"
    /\ k \in Missing(g)
    /\ table[k] = Absent /\ Full(g)
    /\ failed' = [failed EXCEPT ![g] = TRUE]
    /\ NextStage(g)
    /\ UNCHANGED <<table, enforcing, inForce, intact, unread, policy, existing, hook>>

UpdatesDone(g) ==
    /\ Syncing(g)
    /\ phase[g] = "update"
    /\ Missing(g) = {}
    /\ NextStage(g)
    /\ UNCHANGED <<table, enforcing, inForce, intact, unread, policy, existing, failed,
                   hook>>

(* SetEnforcement is applyConfig's last statement.                         *)
SetEnforcement(g) ==
    /\ stage[g] = "switch"
    /\ enforcing' = (policy[g].enforce /\ LSMEnabled)
    /\ inForce' = policy[g]
    /\ intact' = (~failed[g] /\ unread = {})
    /\ stage' = [stage EXCEPT ![g] = "idle"]
    /\ UNCHANGED <<table, unread, phase, policy, existing, failed, hook>>

applyConfig(g) ==
    \/ Iterate(g) \/ IterateFails(g)
    \/ \E k \in Keys : DeleteEntry(g, k) \/ UpdateEntry(g, k) \/ UpdateFails(g, k)
    \/ DeletesDone(g) \/ UpdatesDone(g) \/ SetEnforcement(g)

-----------------------------------------------------------------------------
(* lsm_bprm_check for an exec of p, with other CPUs and the daemon running *)
(* between its lookups.  A task whose stdio is a socket is refused first; a *)
(* fileless image is reported and let through.  hook.owed collects the     *)
(* keys that denied p under every policy that had a say since the exec     *)
(* began.                                                                  *)
Kinds == {"plain", "redirected", "fileless"}
AfterLineage(kind) == IF kind = "fileless" THEN "allowed" ELSE "exact"

HookStart(p, kind) ==
    /\ LSMEnabled
    /\ hook.at \in {"idle", "allowed", "denied"}
    /\ hook' = [at |-> IF ~enforcing THEN "allowed"
                       ELSE IF kind = "redirected" THEN "recheck"
                       ELSE AfterLineage(kind),
                path |-> p,
                owed |-> IF kind = "fileless" THEN {} ELSE Owed(Live, p)]
    /\ UNCHANGED <<table, enforcing, inForce, intact, unread, applierVars>>

HookStep(at, outcome) ==
    /\ hook.at = at
    /\ hook' = [hook EXCEPT !.at = outcome]
    /\ UNCHANGED <<table, enforcing, inForce, intact, unread, applierVars>>

HookRecheck == HookStep("recheck", IF enforcing THEN "denied" ELSE "exact")
HookExact ==
    HookStep("exact", IF table[hook.path] = Enforce THEN "denied" ELSE "prefix")
HookPrefix ==
    HookStep("prefix", IF is_prefix_blocked(table, hook.path) = Enforce
                       THEN "denied" ELSE "allowed")

lsm_bprm_check ==
    \/ \E p \in Paths, kind \in Kinds : HookStart(p, kind)
    \/ HookRecheck \/ HookExact \/ HookPrefix

Next ==
    \/ \E g \in Appliers : (\E P \in Policies : BeginApply(g, P)) \/ applyConfig(g)
    \/ lsm_bprm_check

Spec == Init /\ [][Next]_vars
-----------------------------------------------------------------------------
TypeOK ==
    /\ table \in [Keys -> {Absent} \cup Modes]
    /\ enforcing \in BOOLEAN
    /\ inForce \in Policies \cup {EmptyPolicy}
    /\ intact \in BOOLEAN
    /\ unread \in SUBSET {"prefix", "exact"}
    /\ stage \in [Appliers -> {"idle", "prefix", "exact", "switch"}]
    /\ phase \in [Appliers -> {"iterate", "delete", "update"}]
    /\ policy \in [Appliers -> Policies \cup {EmptyPolicy}]
    /\ existing \in [Appliers -> [Keys -> {Absent} \cup Modes]]
    /\ failed \in [Appliers -> BOOLEAN]
    /\ hook \in [at : {"idle", "recheck", "exact", "prefix", "allowed", "denied"},
                 path : Paths, owed : SUBSET Keys]

Quiet == \A g \in Appliers : stage[g] = "idle"

(* Between reloads the kernel holds exactly the policy that was applied    *)
(* last, unless a map was too small for it or could not be read: no entry  *)
(* of any earlier policy survives and none of the new one is missing.      *)
SettledMatches ==
    Quiet /\ intact => /\ table = Want(inForce)
                       /\ enforcing = (inForce.enforce /\ LSMEnabled)

(* Even in the middle of a sync, or after one that failed, every entry is  *)
(* one of the old or of the new policy, and it has the mode one of them    *)
(* gives it unless an update was refused.  Only a map that syncValueMap    *)
(* could not read keeps older entries, until it is next read.              *)
NoStrayEntry ==
    \A m \in {"prefix", "exact"} \ unread : \A k \in KeysOf(m) : table[k] # Absent =>
        \E P \in Live :
            /\ Want(P)[k] # Absent
            /\ intact /\ (\A g \in Appliers : ~failed[g]) => Want(P)[k] = table[k]

(* "deleting everything [leaves] a little amount of time where a binary    *)
(* that could be blocked isn't in the list, so we avoid that": an exec is  *)
(* never let through when one and the same block-list key denies it under  *)
(* every policy that had a say while the hook ran.                         *)
KeptRuleDenies == hook.at = "allowed" => hook.owed = {}

(* A policy whose lists fit the maps never fails to be applied, because    *)
(* syncValueMap makes room before it adds.                                 *)
Fits(P) ==
    \A st \in {"prefix", "exact"} :
        Cardinality({k \in KeysOf(st) : Want(P)[k] # Absent}) <= CapacityOf(st)
FittingPolicyInstalled == \A g \in Appliers : failed[g] => ~Fits(policy[g])
=============================================================================
