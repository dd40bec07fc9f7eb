------------------------------ MODULE SafeKill ------------------------------
(* The guard that kills processes for the engine (internal/safety): one     *)
(* kill at a time, as the ring buffer reader makes them, against a reload   *)
(* that replaces the protected pids and binaries, and against processes     *)
(* that exec, exit and have their pid reused.                               *)
EXTENDS TrustSet

CONSTANTS
    Self,      \* the daemon's pid
    PidLists,  \* the protected_pids lists a reload may bring
    MaxInc,    \* bound: how often a pid is reused
    MaxKills   \* bound: number of kills asked for

ASSUME KillAssumption ==
    /\ {1, Self} \subseteq Pids
    /\ PidLists \subseteq SUBSET Pids
    /\ MaxInc \in Nat
    /\ MaxKills \in Nat

VARIABLES
    protectedPIDs,  \* Guard.protectedPIDs
    reload,         \* is SetProtected between its two halves?
    inc,            \* how many processes have had each pid
    kill,           \* the SafeKill under way or last finished
    kills,          \* how many kills were asked for
    byPid, byExe    \* history: has that protected the target throughout?

guardVars == <<protectedPIDs, reload>>
killVars == <<kill, kills>>
vars == <<trustVars, guardVars, inc, killVars, byPid, byExe>>

Always == {1, Self}
KillSteps == {"idle", "queued", "exe", "contains", "open", "send",
              "refused", "gone", "killed"}
Over == {"idle", "refused", "gone", "killed"}

Init ==
    /\ TrustInit
    /\ exe = [pid \in Pids |-> IF pid \in Always THEN System ELSE None]
    /\ protectedPIDs = {}
    /\ reload = FALSE
    /\ inc = [pid \in Pids |-> 0]
    /\ kill = [at |-> "idle", pid |-> Self, event |-> 0, id |-> None, file |-> None,
               pidfd |-> 0]
    /\ kills = 0
    /\ byPid = FALSE
    /\ byExe = FALSE

-----------------------------------------------------------------------------
(* The target counts as shielded by its pid while that is in the list, and *)
(* by its binary while it is the same process, executes the same file and  *)
(* that file's id is in the set whenever the set is not locked.            *)
PidListed == kill.pid \in Always \cup protectedPIDs
Trusts(i) == at # "idle" \/ i \in ids
ExeListed == exe[kill.pid] # None /\ Trusts(ino[exe[kill.pid]])
SameProcess == exe'[kill.pid] = exe[kill.pid] /\ inc'[kill.pid] = inc[kill.pid]

Watch ==
    /\ byPid' = (byPid /\ (kill.at \in Over \/ PidListed'))
    /\ byExe' = (byExe /\ (kill.at \in Over \/ (SameProcess /\ ExeListed')))

(* Everything outside the guard; PID 1 and the daemon stay.                *)
Reborn(pid) == exe[pid] = None /\ exe'[pid] # None
CountStarts ==
    /\ inc' = [pid \in Pids |-> IF Reborn(pid) THEN inc[pid] + 1 ELSE inc[pid]]
    /\ \A pid \in Pids : inc'[pid] <= MaxInc

Environment ==
    /\ World \/ \E pid \in Pids : Exit(pid)
    /\ \A pid \in Always : exe'[pid] = exe[pid]
    /\ CountStarts
    /\ UNCHANGED <<guardVars, killVars>>
    /\ Watch

-----------------------------------------------------------------------------
(* SetProtected: the pids under Guard.mu, then the paths under Set.mu.     *)
SetProtected(P) ==
    /\ ~reload /\ at = "idle"
    /\ protectedPIDs' = P
    /\ reload' = TRUE
    /\ UNCHANGED <<trustVars, inc, killVars>>
    /\ Watch

SyncProtected(L) ==
    /\ reload
    /\ BeginSync(L)
    /\ reload' = FALSE
    /\ UNCHANGED <<protectedPIDs, inc, killVars>>
    /\ Watch

SyncStep ==
    /\ Sync
    /\ UNCHANGED <<guardVars, inc, killVars>>
    /\ Watch

-----------------------------------------------------------------------------
(* An event about a running process reaches the engine some time later and *)
(* asks for its kill.                                                      *)
Event(pid) ==
    /\ kill.at \in Over
    /\ kills < MaxKills
    /\ exe[pid] # None
    /\ kills' = kills + 1
    /\ kill' = [at |-> "queued", pid |-> pid, event |-> inc[pid], id |-> None,
                file |-> None, pidfd |-> 0]
    /\ byPid' = (pid \in Always \cup protectedPIDs)
    /\ byExe' = Trusts(ino[exe[pid]])
    /\ UNCHANGED <<trustVars, guardVars, inc>>

KillStep ==
    UNCHANGED <<trustVars, guardVars, inc, kills, byPid, byExe>>

(* IsProtected: the pid, ...                                               *)
ProtectedPid(pid) == pid \in Always \cup protectedPIDs

CheckPid ==
    /\ kill.at = "queued"
    /\ kill' = [kill EXCEPT !.at = IF ProtectedPid(kill.pid) THEN "refused" ELSE "exe"]
    /\ KillStep

(* ... the id of the binary it executes, if it still runs, ...             *)
exeIdentity ==
    /\ kill.at = "exe"
    /\ \/ /\ exe[kill.pid] = None
          /\ kill' = [kill EXCEPT !.at = "open"]
       \/ /\ exe[kill.pid] # None
          /\ kill' = [kill EXCEPT !.at = "contains", !.id = ino[exe[kill.pid]],
                                  !.file = exe[kill.pid]]
    /\ KillStep

(* ... and, once no Sync holds the lock, whether that id is trusted.       *)
\* Mutant: the lookup does not take the lock.
LookupUnlocked == TRUE
SetUnlocked == at = "idle"

IsTrusted ==
    /\ kill.at = "contains"
    /\ SetUnlocked
    /\ kill' = [kill EXCEPT !.at = IF Contains(kill.id) THEN "refused" ELSE "open"]
    /\ KillStep

(* The pidfd stands for the process that has the pid now ...               *)
PidfdOpen ==
    /\ kill.at = "open"
    /\ \/ /\ exe[kill.pid] = None
          /\ kill' = [kill EXCEPT !.at = "gone"]
       \/ /\ exe[kill.pid] # None
          /\ kill' = [kill EXCEPT !.at = "send", !.pidfd = inc[kill.pid]]
    /\ KillStep

(* ... and the signal reaches that process or nobody.                      *)
PidfdSendSignal ==
    /\ kill.at = "send"
    /\ \/ /\ exe[kill.pid] # None /\ inc[kill.pid] = kill.pidfd
          /\ Exit(kill.pid)
          /\ kill' = [kill EXCEPT !.at = "killed"]
          /\ UNCHANGED <<guardVars, inc, kills, byPid, byExe>>
       \/ /\ exe[kill.pid] = None \/ inc[kill.pid] # kill.pidfd
          /\ kill' = [kill EXCEPT !.at = "gone"]
          /\ KillStep

SafeKill == CheckPid \/ exeIdentity \/ IsTrusted \/ PidfdOpen \/ PidfdSendSignal

Next ==
    \/ Environment
    \/ \E P \in PidLists : SetProtected(P)
    \/ \E L \in SUBSET Paths : SyncProtected(L)
    \/ SyncStep
    \/ \E pid \in Pids : Event(pid)
    \/ SafeKill

Spec == Init /\ [][Next]_vars
-----------------------------------------------------------------------------
TypeOK ==
    /\ TrustTypeOK
    /\ protectedPIDs \subseteq Pids
    /\ reload \in BOOLEAN
    /\ inc \in [Pids -> 0..MaxInc]
    /\ kill \in [at : KillSteps, pid : Pids, event : 0..MaxInc, id : Inos \cup {None},
                 file : Files \cup {None}, pidfd : 0..MaxInc]
    /\ kills \in 0..MaxKills
    /\ byPid \in BOOLEAN
    /\ byExe \in BOOLEAN

(* "K-Guard never SIGKILLs PID 1, its own PID, any PID in protected_pids,  *)
(* or any process whose live exe identity matches protected_comms": no     *)
(* process is killed that the pid list, or the binary list, protected from *)
(* the event to the signal, however SetProtected interleaves with the kill. *)
ProtectedNeverKilled == kill.at = "killed" => ~byPid /\ ~byExe

(* A process is spared for its binary only if that binary was verified,    *)
(* although the guard compares inode numbers and those are reused.         *)
SparedIsVerified ==
    kill.at = "refused" /\ kill.file # None /\ kill.file = exe[kill.pid]
        => kill.file \in Trustworthy

(* "a recycled PID can't be hit by mistake": the process killed is the one *)
(* the event was about.                                                    *)
NoRecycledKill == kill.at = "killed" => kill.pidfd = kill.event
=============================================================================
