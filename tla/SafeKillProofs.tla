--------------------------- MODULE SafeKillProofs ---------------------------
(* Proofs about the trust set and the guard, for any paths, files, inode    *)
(* numbers and processes.                                                   *)
EXTENDS SafeKill, TLAPS

(* Why a trusted inode cannot be reused: live files have distinct inodes,  *)
(* and each trusted id is that of a file pinned for a listed path which    *)
(* the Sync under way is done with.                                        *)
UniqueInos ==
    \A f, g \in Files : Live(f) /\ Live(g) /\ ino[f] = ino[g] => f = g
IdsHeld ==
    \A i \in ids : \E p \in want \ todo :
        p # cur /\ pinned[p] # None /\ ino[pinned[p]] = i
PinsVerified == \A p \in Paths : pinned[p] # None => pinned[p] \in Trustworthy
Created ==
    /\ \A p \in Paths : /\ dir[p] # None => ino[dir[p]] # None
                        /\ pinned[p] # None => ino[pinned[p]] # None
    /\ \A pid \in Pids : exe[pid] # None => ino[exe[pid]] # None
SyncState ==
    /\ todo \subseteq want
    /\ at = "verify" => /\ cur \in want \ todo
                        /\ fd \in Files
                        /\ ino[fd] # None
    /\ at # "verify" => cur = None /\ fd = None
TrustInv ==
    TrustTypeOK /\ UniqueInos /\ IdsHeld /\ PinsVerified /\ Created /\ SyncState

(* An empty set trusts nothing.                                            *)
LEMMA TrustInitially == TrustInit => TrustInv
<1> SUFFICES ASSUME TrustInit PROVE TrustInv OBVIOUS
<1> USE TrustAssumption DEF TrustAssumption, TrustInit
<1>1. TrustTypeOK BY DEF TrustTypeOK
<1>2. UniqueInos BY DEF UniqueInos, Live
<1>3. IdsHeld /\ PinsVerified /\ Created /\ SyncState
  BY DEF IdsHeld, PinsVerified, Created, SyncState
<1>4. QED BY <1>1, <1>2, <1>3 DEF TrustInv

(* Except for Create, no step makes a file live that was not.              *)
LEMMA NothingRevives ==
    ASSUME UniqueInos, UNCHANGED ino, \A f \in Files : Live(f)' => Live(f)
    PROVE  UniqueInos'
BY DEF UniqueInos

(* Every step of the trust set and of the world around it keeps TrustInv.  *)
LEMMA TrustInductive == TrustInv /\ [TrustNext]_trustVars => TrustInv'
<1> SUFFICES ASSUME TrustInv, [TrustNext]_trustVars PROVE TrustInv' OBVIOUS
<1> USE TrustAssumption DEF TrustAssumption
<1>1. ASSUME NEW p \in Paths, NEW f \in Files, Create(p, f) PROVE TrustInv'
  <2> USE <1>1
  <2>1. PICK i \in FreeInos : ino' = [ino EXCEPT ![f] = i] BY DEF Create
  <2>2. f \in Uncreated /\ i \in Inos /\ ino[f] = None /\ i # None
    BY <2>1 DEF Create, FreeInos, Uncreated
  <2>3. TrustTypeOK' BY <2>1, <2>2 DEF Create, TrustInv, TrustTypeOK, setVars
  <2>4. \A g \in Files : g # f => ino'[g] = ino[g] /\ (Live(g)' => Live(g))
    BY <2>1 DEF Create, TrustInv, TrustTypeOK, Live, setVars
  <2>5. UniqueInos' BY <2>1, <2>4 DEF FreeInos, TrustInv, TrustTypeOK, UniqueInos
  <2>6. \A p1 \in Paths : /\ pinned[p1] # f
                          /\ pinned[p1] # None => ino'[pinned[p1]] = ino[pinned[p1]]
    BY <2>1, <2>2 DEF TrustInv, TrustTypeOK, Created
  <2>7. IdsHeld' BY <2>6 DEF Create, TrustInv, TrustTypeOK, IdsHeld, setVars
  <2>8. PinsVerified' /\ Created' /\ SyncState'
    BY <2>1, <2>2, <2>4
    DEF Create, TrustInv, TrustTypeOK, PinsVerified, Created, SyncState, setVars
  <2>9. QED BY <2>3, <2>5, <2>7, <2>8 DEF TrustInv
<1>2. ASSUME NEW p \in Paths, Unlink(p) PROVE TrustInv'
  <2> USE <1>2 DEF Unlink, setVars
  <2>1. TrustTypeOK' BY DEF TrustInv, TrustTypeOK
  <2>2. UniqueInos' BY NothingRevives DEF TrustInv, TrustTypeOK, Live
  <2>3. IdsHeld' /\ PinsVerified' /\ Created' /\ SyncState'
    BY DEF TrustInv, TrustTypeOK, IdsHeld, PinsVerified, Created, SyncState
  <2>4. QED BY <2>1, <2>2, <2>3 DEF TrustInv
<1>3. ASSUME NEW pid \in Pids, NEW p \in Paths, Start(pid, p) \/ Exec(pid, p)
      PROVE TrustInv'
  <2> USE <1>3 DEF Start, Exec, setVars
  <2>1. TrustTypeOK' BY DEF TrustInv, TrustTypeOK
  <2>2. UniqueInos' BY NothingRevives DEF TrustInv, TrustTypeOK, Live
  <2>3. IdsHeld' /\ PinsVerified' /\ Created' /\ SyncState'
    BY DEF TrustInv, TrustTypeOK, IdsHeld, PinsVerified, Created, SyncState
  <2>4. QED BY <2>1, <2>2, <2>3 DEF TrustInv
<1>4. ASSUME NEW pid \in Pids, Exit(pid) PROVE TrustInv'
  <2> USE <1>4 DEF Exit, setVars
  <2>1. TrustTypeOK' BY DEF TrustInv, TrustTypeOK
  <2>2. UniqueInos' BY NothingRevives DEF TrustInv, TrustTypeOK, Live
  <2>3. IdsHeld' /\ PinsVerified' /\ Created' /\ SyncState'
    BY DEF TrustInv, TrustTypeOK, IdsHeld, PinsVerified, Created, SyncState
  <2>4. QED BY <2>1, <2>2, <2>3 DEF TrustInv
<1>5. ASSUME NEW L \in SUBSET Paths, BeginSync(L) PROVE TrustInv'
  <2> USE <1>5 DEF BeginSync, FreshIds, fsVars
  <2>1. TrustTypeOK' BY DEF TrustInv, TrustTypeOK
  <2>2. UniqueInos' BY NothingRevives DEF TrustInv, TrustTypeOK, Live
  <2>3. IdsHeld' /\ PinsVerified' /\ Created' /\ SyncState'
    BY DEF TrustInv, TrustTypeOK, IdsHeld, PinsVerified, Created, SyncState
  <2>4. QED BY <2>1, <2>2, <2>3 DEF TrustInv
<1>6. ASSUME NEW p \in Paths, KeepPin(p) PROVE TrustInv'
  <2> USE <1>6 DEF KeepPin, fsVars
  <2>1. TrustTypeOK' BY DEF TrustInv, TrustTypeOK, Created
  <2>2. UniqueInos' BY NothingRevives DEF TrustInv, TrustTypeOK, Live
  <2>3. p \in want /\ p # cur BY DEF TrustInv, SyncState
  <2>4. IdsHeld' BY <2>3 DEF TrustInv, TrustTypeOK, IdsHeld
  <2>5. PinsVerified' /\ Created' /\ SyncState'
    BY DEF TrustInv, TrustTypeOK, PinsVerified, Created, SyncState
  <2>6. QED BY <2>1, <2>2, <2>4, <2>5 DEF TrustInv
<1>7. ASSUME NEW p \in Paths, DropPin(p) PROVE TrustInv'
  <2> USE <1>7 DEF DropPin, AfterDrop, fsVars
  <2>1. TrustTypeOK' BY DEF TrustInv, TrustTypeOK
  <2>2. UniqueInos' BY NothingRevives DEF TrustInv, TrustTypeOK, Live
  <2>3. IdsHeld' BY DEF TrustInv, TrustTypeOK, IdsHeld
  <2>4. PinsVerified' /\ Created' /\ SyncState'
    BY DEF TrustInv, TrustTypeOK, PinsVerified, Created, SyncState
  <2>5. QED BY <2>1, <2>2, <2>3, <2>4 DEF TrustInv
<1>8. ASSUME NEW p \in Paths, OpenFileSafely(p) PROVE TrustInv'
  <2> USE <1>8 DEF OpenFileSafely, fsVars
  <2>1. TrustTypeOK' BY DEF TrustInv, TrustTypeOK
  <2>2. UniqueInos' BY NothingRevives DEF TrustInv, TrustTypeOK, Live, Created
  <2>3. IdsHeld' BY DEF TrustInv, TrustTypeOK, IdsHeld, SyncState
  <2>4. PinsVerified' /\ Created' /\ SyncState'
    BY DEF TrustInv, TrustTypeOK, PinsVerified, Created, SyncState
  <2>5. QED BY <2>1, <2>2, <2>3, <2>4 DEF TrustInv
<1>9. ASSUME VerifyAndPin PROVE TrustInv'
  <2> USE <1>9 DEF VerifyAndPin, fsVars
  <2>1. cur \in Paths /\ fd \in Files /\ ino[fd] \in Inos
    BY DEF TrustInv, TrustTypeOK, SyncState
  <2>2. TrustTypeOK' BY <2>1 DEF TrustInv, TrustTypeOK
  <2>3. UniqueInos' BY NothingRevives DEF TrustInv, TrustTypeOK, Live
  <2>4. IdsHeld' BY <2>1 DEF TrustInv, TrustTypeOK, IdsHeld, SyncState
  <2>5. PinsVerified' /\ Created' /\ SyncState'
    BY <2>1 DEF TrustInv, TrustTypeOK, PinsVerified, Created, SyncState
  <2>6. QED BY <2>2, <2>3, <2>4, <2>5 DEF TrustInv
<1>10. ASSUME FinishSync PROVE TrustInv'
  <2> USE <1>10 DEF FinishSync, fsVars
  <2>1. TrustTypeOK' BY DEF TrustInv, TrustTypeOK
  <2>2. UniqueInos' BY NothingRevives DEF TrustInv, TrustTypeOK, Live
  <2>3. IdsHeld' BY DEF TrustInv, TrustTypeOK, IdsHeld, SyncState
  <2>4. PinsVerified' /\ Created' /\ SyncState'
    BY DEF TrustInv, TrustTypeOK, PinsVerified, Created, SyncState
  <2>5. QED BY <2>1, <2>2, <2>3, <2>4 DEF TrustInv
<1>11. ASSUME UNCHANGED trustVars PROVE TrustInv'
  BY <1>11 DEF trustVars, fsVars, setVars, TrustInv, TrustTypeOK, UniqueInos, Live,
               IdsHeld, PinsVerified, Created, SyncState
<1>12. QED
  BY <1>1, <1>2, <1>3, <1>4, <1>5, <1>6, <1>7, <1>8, <1>9, <1>10, <1>11
  DEF TrustNext, World, Sync

(* The invariant is strong enough.                                         *)
LEMMA TrustSound == TrustInv => OnlyVerifiedTrusted
BY TrustAssumption
DEF TrustAssumption, TrustInv, TrustTypeOK, UniqueInos, IdsHeld, PinsVerified, Created,
    Live, OnlyVerifiedTrusted

(* Whatever happens to the file system while lists are synced, a trusted   *)
(* id never names a file that was not verified.                            *)
THEOREM TrustNeverMisplaced == TrustSpec => []OnlyVerifiedTrusted
<1>1. QED BY TrustInitially, TrustInductive, TrustSound, PTL DEF TrustSpec

(* What Sync owes to a path that nobody touched since it began: while the  *)
(* path is open for verification it leads to the open file, and once Sync  *)
(* is done with it a trustworthy file it leads to is trusted.              *)
Opened == at = "verify" /\ cur \notin touched => dir[cur] = fd
DoneIsTrusted ==
    \A p \in want \ (touched \cup todo) :
        p # cur /\ dir[p] # None /\ dir[p] \in Trustworthy => ino[dir[p]] \in ids
NothingLeft == at = "idle" => todo = {}
ListedInv == Opened /\ DoneIsTrusted /\ NothingLeft

(* Every step of the trust set and of the world around it keeps ListedInv. *)
LEMMA ListedInductive ==
    ASSUME TrustInv, ListedInv, [TrustNext]_trustVars PROVE ListedInv'
<1> USE TrustAssumption
    DEF TrustAssumption, TrustInv, TrustTypeOK, SyncState, ListedInv, Opened, DoneIsTrusted,
        NothingLeft
<1>1. ASSUME NEW p \in Paths, NEW f \in Files, Create(p, f) PROVE ListedInv'
  <2>1. /\ ino[f] = None /\ dir' = [dir EXCEPT ![p] = f] /\ touched' = touched \cup {p}
        /\ \A g \in Files \ {f} : ino'[g] = ino[g]
        /\ UNCHANGED setVars
    BY <1>1 DEF Create, Uncreated
  <2>2. \A q \in Paths : dir[q] # None => dir[q] # f BY <2>1 DEF Created
  <2>3. \A q \in Paths \ {p} : dir'[q] = dir[q] /\ (dir[q] # None => ino'[dir[q]] = ino[dir[q]])
    BY <2>1, <2>2
  <2>4. QED BY <2>1, <2>3 DEF setVars
<1>2. ASSUME NEW p \in Paths, Unlink(p) PROVE ListedInv' BY <1>2 DEF Unlink, setVars
<1>3. ASSUME NEW pid \in Pids, NEW p \in Paths, Start(pid, p) \/ Exec(pid, p) PROVE ListedInv'
  BY <1>3 DEF Start, Exec, setVars
<1>4. ASSUME NEW pid \in Pids, Exit(pid) PROVE ListedInv' BY <1>4 DEF Exit, setVars
<1>5. ASSUME NEW L \in SUBSET Paths, BeginSync(L) PROVE ListedInv' BY <1>5 DEF BeginSync, fsVars
<1>6. ASSUME NEW p \in Paths, KeepPin(p) PROVE ListedInv' BY <1>6 DEF KeepPin, StillThere, fsVars
<1>7. ASSUME NEW p \in Paths, DropPin(p) PROVE ListedInv' BY <1>7 DEF DropPin, AfterDrop, fsVars
<1>8. ASSUME NEW p \in Paths, OpenFileSafely(p) PROVE ListedInv'
  BY <1>8 DEF OpenFileSafely, fsVars
<1>9. ASSUME VerifyAndPin PROVE ListedInv' BY <1>9 DEF VerifyAndPin, fsVars
<1>10. ASSUME FinishSync PROVE ListedInv' BY <1>10 DEF FinishSync, fsVars
<1>11. ASSUME UNCHANGED trustVars PROVE ListedInv' BY <1>11 DEF trustVars, fsVars, setVars
<1>12. QED
  BY <1>1, <1>2, <1>3, <1>4, <1>5, <1>6, <1>7, <1>8, <1>9, <1>10, <1>11
  DEF TrustNext, World, Sync

LEMMA ListedInitially == TrustInit => ListedInv
BY DEF TrustInit, ListedInv, Opened, DoneIsTrusted, NothingLeft

LEMMA ListedSound == TrustInv /\ ListedInv => ListedIsTrusted
BY TrustAssumption
DEF TrustAssumption, TrustInv, TrustTypeOK, SyncState, ListedInv, DoneIsTrusted, NothingLeft,
    ListedIsTrusted

(* Once a Sync has returned, a listed path that was left alone and leads   *)
(* to a trustworthy file is trusted, also when that file took the place of *)
(* a pinned one.                                                           *)
THEOREM ListedTrusted == TrustSpec => []ListedIsTrusted
<1>1. TrustInit => TrustInv /\ ListedInv BY TrustInitially, ListedInitially
<1>2. TrustInv /\ ListedInv /\ [TrustNext]_trustVars => (TrustInv /\ ListedInv)'
  BY TrustInductive, ListedInductive
<1>3. QED BY <1>1, <1>2, ListedSound, PTL DEF TrustSpec

(* Files that exist keep their inode, and one that nothing links, opens or *)
(* executes any more never comes back.                                     *)
LEMMA DeadStaysDead ==
    ASSUME TrustInv, [TrustNext]_trustVars, NEW f \in Files, ino[f] # None
    PROVE  ino'[f] = ino[f] /\ (Live(f)' => Live(f))
<1> USE TrustAssumption DEF TrustAssumption, TrustInv, TrustTypeOK, Live
<1>1. ASSUME NEW p \in Paths, NEW g \in Files, Create(p, g)
      PROVE  ino'[f] = ino[f] /\ (Live(f)' => Live(f))
  <2>1. g # f BY <1>1 DEF Create, Uncreated
  <2>2. QED BY <1>1, <2>1 DEF Create, setVars
<1>2. ASSUME NEW p \in Paths, Unlink(p) PROVE ino'[f] = ino[f] /\ (Live(f)' => Live(f))
  BY <1>2 DEF Unlink, setVars
<1>3. ASSUME NEW pid \in Pids, NEW p \in Paths, Start(pid, p) \/ Exec(pid, p)
      PROVE  ino'[f] = ino[f] /\ (Live(f)' => Live(f))
  BY <1>3 DEF Start, Exec, setVars
<1>4. ASSUME NEW pid \in Pids, Exit(pid) PROVE ino'[f] = ino[f] /\ (Live(f)' => Live(f))
  BY <1>4 DEF Exit, setVars
<1>5. ASSUME NEW L \in SUBSET Paths, BeginSync(L) PROVE ino'[f] = ino[f] /\ (Live(f)' => Live(f))
  BY <1>5 DEF BeginSync, fsVars
<1>6. ASSUME NEW p \in Paths, KeepPin(p) \/ DropPin(p) \/ OpenFileSafely(p)
      PROVE  ino'[f] = ino[f] /\ (Live(f)' => Live(f))
  BY <1>6 DEF KeepPin, DropPin, OpenFileSafely, fsVars
<1>7. ASSUME VerifyAndPin \/ FinishSync PROVE ino'[f] = ino[f] /\ (Live(f)' => Live(f))
  BY <1>7 DEF VerifyAndPin, FinishSync, fsVars
<1>8. ASSUME UNCHANGED trustVars PROVE ino'[f] = ino[f] /\ (Live(f)' => Live(f))
  BY <1>8 DEF trustVars, fsVars, setVars
<1>9. QED
  BY <1>1, <1>2, <1>3, <1>4, <1>5, <1>6, <1>7, <1>8 DEF TrustNext, World, Sync
-----------------------------------------------------------------------------
(* The guard only adds to what may happen to files and to the trust set.   *)
LEMMA GuardRefines ==
    ASSUME kill.pid \in Pids, [Next]_vars PROVE [TrustNext]_trustVars
<1>1. CASE Environment BY <1>1 DEF Environment, TrustNext
<1>2. CASE \E P \in PidLists : SetProtected(P) BY <1>2 DEF SetProtected
<1>3. CASE \E L \in SUBSET Paths : SyncProtected(L)
  BY <1>3 DEF SyncProtected, TrustNext
<1>4. CASE SyncStep BY <1>4 DEF SyncStep, TrustNext
<1>5. CASE \E pid \in Pids : Event(pid) BY <1>5 DEF Event
<1>6. CASE CheckPid \/ exeIdentity \/ IsTrusted \/ PidfdOpen
  BY <1>6 DEF CheckPid, exeIdentity, IsTrusted, PidfdOpen, KillStep
<1>7. CASE PidfdSendSignal BY <1>7 DEF PidfdSendSignal, KillStep, TrustNext
<1>8. CASE UNCHANGED vars BY <1>8 DEF vars
<1>9. QED
  BY <1>1, <1>2, <1>3, <1>4, <1>5, <1>6, <1>7, <1>8 DEF Next, SafeKill

KillRecord ==
    [at : KillSteps, pid : Pids, event : 0..MaxInc, id : Inos \cup {None},
     file : Files \cup {None}, pidfd : 0..MaxInc]
GuardTypeOK ==
    /\ protectedPIDs \subseteq Pids
    /\ inc \in [Pids -> 0..MaxInc]
    /\ kill \in KillRecord
    /\ kills \in 0..MaxKills
Flags == reload \in BOOLEAN /\ byPid \in BOOLEAN /\ byExe \in BOOLEAN

(* Every step of guard, files and processes keeps the types.               *)
LEMMA GuardTyped ==
    ASSUME TrustTypeOK, GuardTypeOK, [Next]_vars PROVE GuardTypeOK'
<1> USE KillAssumption DEF KillAssumption, GuardTypeOK
<1>1. CASE Environment
  <2>1. inc' \in [Pids -> 0..MaxInc] BY <1>1 DEF Environment, CountStarts
  <2>2. QED BY <1>1, <2>1 DEF Environment, guardVars, killVars
<1>2. CASE \E P \in PidLists : SetProtected(P)
  BY <1>2 DEF SetProtected, killVars
<1>3. CASE \E L \in SUBSET Paths : SyncProtected(L)
  BY <1>3 DEF SyncProtected, killVars
<1>4. CASE SyncStep BY <1>4 DEF SyncStep, guardVars, killVars
<1>5. ASSUME NEW pid \in Pids, Event(pid) PROVE GuardTypeOK'
  <2>1. kill' \in KillRecord BY <1>5 DEF Event, KillRecord, KillSteps
  <2>2. QED BY <1>5, <2>1 DEF Event, guardVars
<1>6. CASE CheckPid BY <1>6 DEF CheckPid, KillStep, guardVars, KillRecord, KillSteps
<1>7. CASE exeIdentity
  BY <1>7 DEF exeIdentity, KillStep, guardVars, KillRecord, KillSteps, TrustTypeOK
<1>8. CASE IsTrusted BY <1>8 DEF IsTrusted, KillStep, guardVars, KillRecord, KillSteps
<1>9. CASE PidfdOpen BY <1>9 DEF PidfdOpen, KillStep, guardVars, KillRecord, KillSteps
<1>10. CASE PidfdSendSignal
  BY <1>10 DEF PidfdSendSignal, KillStep, guardVars, KillRecord, KillSteps
<1>11. CASE UNCHANGED vars BY <1>11 DEF vars, guardVars, killVars
<1>12. QED
  BY <1>1, <1>2, <1>3, <1>4, <1>5, <1>6, <1>7, <1>8, <1>9, <1>10, <1>11
  DEF Next, SafeKill

(* The history flags stay Boolean.                                         *)
LEMMA FlagsTyped == Flags /\ [Next]_vars => Flags'
<1> SUFFICES ASSUME Flags, [Next]_vars PROVE Flags' OBVIOUS
<1>1. CASE Environment BY <1>1, Zenon DEF Environment, Watch, Flags, guardVars
<1>2. CASE \E P \in PidLists : SetProtected(P) BY <1>2, Zenon DEF SetProtected, Watch, Flags
<1>3. CASE \E L \in SUBSET Paths : SyncProtected(L)
  BY <1>3, Zenon DEF SyncProtected, Watch, Flags
<1>4. CASE SyncStep BY <1>4, Zenon DEF SyncStep, Watch, Flags, guardVars
<1>5. ASSUME NEW pid \in Pids, Event(pid) PROVE Flags'
  <2>0. (pid \in Always \cup protectedPIDs) \in BOOLEAN OBVIOUS
  <2>1. byPid' \in BOOLEAN BY <1>5, <2>0, Zenon DEF Event
  <2>2. byExe' \in BOOLEAN BY <1>5, Zenon DEF Event, Trusts
  <2>3. QED BY <1>5, <2>1, <2>2, Zenon DEF Event, Flags, guardVars
<1>6. CASE SafeKill
  BY <1>6, Zenon DEF SafeKill, CheckPid, exeIdentity, IsTrusted, PidfdOpen,
                     PidfdSendSignal, KillStep, Flags, guardVars
<1>7. CASE UNCHANGED vars BY <1>7, Zenon DEF vars, Flags, guardVars
<1>8. QED BY <1>1, <1>2, <1>3, <1>4, <1>5, <1>6, <1>7 DEF Next

(* Type correctness of the guard and of the trust set it uses.             *)
THEOREM TypeCorrect == Spec => []TypeOK
<1> DEFINE Inv == TrustInv /\ GuardTypeOK /\ Flags
<1>1. Init => Inv
  <2> SUFFICES ASSUME Init PROVE Inv OBVIOUS
  <2>1. GuardTypeOK
    BY TrustAssumption, KillAssumption
    DEF Init, GuardTypeOK, KillRecord, KillSteps, KillAssumption
  <2>2. Flags BY DEF Init, Flags
  <2>3. QED BY <2>1, <2>2, TrustInitially DEF Init
<1>2. Inv /\ [Next]_vars => Inv'
  <2> SUFFICES ASSUME Inv, [Next]_vars PROVE Inv' OBVIOUS
  <2>1. kill.pid \in Pids BY DEF GuardTypeOK, KillRecord
  <2>2. TrustInv' BY <2>1, GuardRefines, TrustInductive
  <2>3. GuardTypeOK' BY GuardTyped DEF TrustInv
  <2>4. Flags' BY FlagsTyped
  <2>5. QED BY <2>2, <2>3, <2>4
<1>3. Inv => TypeOK
  BY Zenon DEF TrustInv, GuardTypeOK, KillRecord, Flags, TypeOK
<1>4. QED BY <1>1, <1>2, <1>3, PTL DEF Spec
-----------------------------------------------------------------------------
(* What the guard knows at each step of a kill.  A protection that has     *)
(* lasted so far still holds, so the check that comes to it refuses; past  *)
(* that check the protection cannot have lasted.                           *)
Shielded ==
    kill.at \notin Over =>
        /\ byPid => PidListed
        /\ byExe => ExeListed
PastPidCheck ==
    kill.at \in {"exe", "contains", "open", "send", "killed"} => ~byPid
PastExeCheck ==
    /\ kill.at = "contains" /\ byExe => kill.id = ino[exe[kill.pid]]
    /\ kill.at \in {"open", "send", "killed"} => ~byExe
KillInv == Shielded /\ PastPidCheck /\ PastExeCheck

(* A step outside the kill leaves it where it is and keeps a shield only   *)
(* if the protection still holds afterwards.                               *)
LEMMA OutsideSteps ==
    ASSUME TrustInv, GuardTypeOK, KillInv, Watch, UNCHANGED kill,
           \A f \in Files : ino[f] # None => ino'[f] = ino[f]
    PROVE  KillInv'
<1>1. /\ byPid' => byPid /\ (kill.at \in Over \/ PidListed')
      /\ byExe' => byExe /\ (kill.at \in Over \/ (SameProcess /\ ExeListed'))
  BY Zenon DEF Watch
<1>2. Shielded' BY <1>1 DEF Shielded
<1>3. PastPidCheck' BY <1>1 DEF KillInv, PastPidCheck
<1>4. PastExeCheck'
  <2>1. ASSUME kill.at = "contains", byExe' PROVE kill.id = ino'[exe'[kill.pid]]
    <3>1. exe'[kill.pid] = exe[kill.pid] /\ byExe
      BY <1>1, <2>1 DEF SameProcess, Over
    <3>2. exe[kill.pid] # None /\ kill.id = ino[exe[kill.pid]]
      BY <2>1, <3>1 DEF KillInv, Shielded, PastExeCheck, ExeListed, Over
    <3>3. exe[kill.pid] \in Files /\ ino[exe[kill.pid]] # None
      BY <3>2 DEF TrustInv, TrustTypeOK, Created, GuardTypeOK, KillRecord
    <3>4. QED BY <3>1, <3>2, <3>3
  <2>2. QED BY <1>1, <2>1 DEF KillInv, PastExeCheck
<1>5. QED BY <1>2, <1>3, <1>4 DEF KillInv

(* A protection that lasted so far still holds after any step.             *)
LEMMA KillInductive ==
    ASSUME TrustInv, GuardTypeOK, KillInv, [Next]_vars PROVE KillInv'
<1> USE DEF KillInv
<1>1. CASE Environment
  <2>1. \A f \in Files : ino[f] # None => ino'[f] = ino[f]
    BY <1>1 DEF Environment, World, Create, Unlink, Start, Exec, Exit, Uncreated,
                TrustInv, TrustTypeOK
  <2>2. QED BY <1>1, <2>1, OutsideSteps DEF Environment, killVars
<1>2. CASE \E P \in PidLists : SetProtected(P)
  BY <1>2, OutsideSteps DEF SetProtected, killVars, trustVars, fsVars
<1>3. CASE \E L \in SUBSET Paths : SyncProtected(L)
  BY <1>3, OutsideSteps DEF SyncProtected, BeginSync, killVars, fsVars
<1>4. CASE SyncStep
  BY <1>4, OutsideSteps DEF SyncStep, Sync, KeepPin, DropPin, OpenFileSafely,
                            VerifyAndPin, FinishSync, killVars, fsVars
<1>5. ASSUME NEW pid \in Pids, Event(pid) PROVE KillInv'
  <2>1. kill'.at = "queued" /\ kill'.pid = pid BY <1>5 DEF Event
  <2>2. UNCHANGED <<protectedPIDs, exe, ino, ids, at>> /\ exe[pid] # None
    BY <1>5 DEF Event, trustVars, fsVars, setVars, guardVars
  <2>3. /\ byPid' => pid \in Always \cup protectedPIDs
        /\ byExe' => Trusts(ino[exe[pid]])
    BY <1>5, Zenon DEF Event
  <2>4. Shielded' BY <2>1, <2>2, <2>3 DEF Shielded, PidListed, ExeListed, Trusts
  <2>5. QED BY <2>1, <2>4 DEF PastPidCheck, PastExeCheck
<1>6. CASE SafeKill
  <2>1. kill.at \notin Over BY <1>6
    DEF SafeKill, CheckPid, exeIdentity, IsTrusted, PidfdOpen, PidfdSendSignal, Over
  <2>2. UNCHANGED <<byPid, byExe>> /\ kill'.pid = kill.pid
    BY <1>6 DEF SafeKill, CheckPid, exeIdentity, IsTrusted, PidfdOpen,
                PidfdSendSignal, KillStep, GuardTypeOK, KillRecord
  <2>3. CASE CheckPid
    BY <2>1, <2>2, <2>3 DEF CheckPid, ProtectedPid, KillStep, trustVars, fsVars,
       setVars, guardVars, GuardTypeOK, KillRecord, Shielded, PidListed, ExeListed,
       Trusts, PastPidCheck, PastExeCheck
  <2>4. CASE exeIdentity
    <3>1. UNCHANGED <<protectedPIDs, exe, ino, ids, at>> /\ kill.at = "exe"
      BY <2>4 DEF exeIdentity, KillStep, trustVars, fsVars, setVars, guardVars
    <3>2. ~byPid /\ (byExe => ExeListed)
      BY <2>1, <3>1 DEF Shielded, PastPidCheck
    <3>3. CASE exe[kill.pid] = None
      <4>1. kill'.at = "open"
        BY <2>4, <3>3 DEF exeIdentity, GuardTypeOK, KillRecord
      <4>2. ~byExe BY <3>2, <3>3 DEF ExeListed
      <4>3. QED BY <2>2, <3>2, <4>1, <4>2 DEF Shielded, PastPidCheck, PastExeCheck
    <3>4. CASE exe[kill.pid] # None
      <4>1. kill'.at = "contains" /\ kill'.id = ino[exe[kill.pid]]
        BY <2>4, <3>4 DEF exeIdentity, GuardTypeOK, KillRecord
      <4>2. ExeListed' = ExeListed BY <2>2, <3>1 DEF ExeListed, Trusts
      <4>3. QED
        BY <2>2, <3>1, <3>2, <4>1, <4>2 DEF Shielded, PastPidCheck, PastExeCheck
    <3>5. QED BY <3>3, <3>4
  <2>5. CASE IsTrusted
    BY <2>1, <2>2, <2>5 DEF IsTrusted, SetUnlocked, Contains, KillStep, trustVars,
       fsVars, setVars, guardVars, GuardTypeOK, KillRecord, Shielded, PidListed,
       ExeListed, Trusts, PastPidCheck, PastExeCheck
  <2>6. CASE PidfdOpen
    BY <2>1, <2>2, <2>6 DEF PidfdOpen, KillStep, trustVars, fsVars, setVars,
       guardVars, GuardTypeOK, KillRecord, Shielded, PidListed, ExeListed, Trusts,
       PastPidCheck, PastExeCheck
  <2>7. CASE PidfdSendSignal
    BY <2>1, <2>2, <2>7 DEF PidfdSendSignal, Over, GuardTypeOK, KillRecord, Shielded,
       PastPidCheck, PastExeCheck
  <2>8. QED BY <1>6, <2>3, <2>4, <2>5, <2>6, <2>7 DEF SafeKill
<1>7. CASE UNCHANGED vars
  BY <1>7 DEF vars, trustVars, fsVars, setVars, guardVars, killVars, Shielded,
     PidListed, ExeListed, Trusts, PastPidCheck, PastExeCheck
<1>8. QED BY <1>1, <1>2, <1>3, <1>4, <1>5, <1>6, <1>7 DEF Next

(* No process that one of the two lists protected from the event to the    *)
(* signal is ever killed, and a trusted id never names a file that was not *)
(* verified, for any number of pids, paths, files and reloads.             *)
THEOREM ProtectedSurvive == Spec => []ProtectedNeverKilled /\ []OnlyVerifiedTrusted
<1> DEFINE Inv == TrustInv /\ GuardTypeOK /\ KillInv
<1>1. Init => Inv
  <2> SUFFICES ASSUME Init PROVE Inv OBVIOUS
  <2>1. GuardTypeOK
    BY TrustAssumption, KillAssumption
    DEF Init, GuardTypeOK, KillRecord, KillSteps, KillAssumption
  <2>2. KillInv BY DEF Init, KillInv, Shielded, PastPidCheck, PastExeCheck, Over
  <2>3. QED BY <2>1, <2>2, TrustInitially DEF Init
<1>2. Inv /\ [Next]_vars => Inv'
  <2> SUFFICES ASSUME Inv, [Next]_vars PROVE Inv' OBVIOUS
  <2>1. kill.pid \in Pids BY DEF GuardTypeOK, KillRecord
  <2>2. TrustInv' BY <2>1, GuardRefines, TrustInductive
  <2>3. GuardTypeOK' BY GuardTyped DEF TrustInv
  <2>4. KillInv' BY KillInductive
  <2>5. QED BY <2>2, <2>3, <2>4
<1>3. Inv => ProtectedNeverKilled /\ OnlyVerifiedTrusted
  BY TrustSound DEF KillInv, PastPidCheck, PastExeCheck, ProtectedNeverKilled
<1>4. QED BY <1>1, <1>2, <1>3, PTL DEF Spec
-----------------------------------------------------------------------------
(* The binary that a kill has looked up keeps the id it was looked up by;  *)
(* if that binary made the guard refuse and still exists it was verified.  *)
SpareInv ==
    /\ kill.at = "queued" => kill.file = None
    /\ kill.file # None => ino[kill.file] # None /\ ino[kill.file] = kill.id
    /\ kill.at = "refused" /\ kill.file # None /\ Live(kill.file) => kill.file \in Trustworthy

(* Every step keeps SpareInv.                                              *)
LEMMA SpareInductive ==
    ASSUME TrustInv, GuardTypeOK, SpareInv, [Next]_vars PROVE SpareInv'
<1> USE TrustAssumption DEF TrustAssumption, GuardTypeOK, KillRecord
<1>1. \A f \in Files : ino[f] # None => ino'[f] = ino[f] /\ (Live(f)' => Live(f))
  BY GuardRefines, DeadStaysDead
<1>2. ASSUME UNCHANGED kill PROVE SpareInv'
  BY <1>1, <1>2 DEF SpareInv
<1>3. CASE Environment BY <1>2, <1>3 DEF Environment, killVars
<1>4. CASE \E P \in PidLists : SetProtected(P) BY <1>2, <1>4 DEF SetProtected, killVars
<1>5. CASE \E L \in SUBSET Paths : SyncProtected(L) BY <1>2, <1>5 DEF SyncProtected, killVars
<1>6. CASE SyncStep BY <1>2, <1>6 DEF SyncStep, killVars
<1>7. ASSUME NEW pid \in Pids, Event(pid) PROVE SpareInv'
  BY <1>7 DEF Event, SpareInv
<1>8. CASE CheckPid
  BY <1>1, <1>8 DEF CheckPid, SpareInv
<1>9. CASE exeIdentity
  <2>1. UNCHANGED <<ino, exe>> BY <1>9 DEF exeIdentity, KillStep, trustVars, fsVars
  <2>2. CASE exe[kill.pid] = None
    BY <1>1, <1>9, <2>2 DEF exeIdentity, SpareInv
  <2>3. CASE exe[kill.pid] # None
    <3>1. kill'.at = "contains" /\ kill'.file = exe[kill.pid] /\ kill'.id = ino[exe[kill.pid]]
      BY <1>9, <2>3 DEF exeIdentity
    <3>2. ino[exe[kill.pid]] # None BY <2>3 DEF TrustInv, Created
    <3>3. QED BY <2>1, <3>1, <3>2 DEF SpareInv
  <2>4. QED BY <2>2, <2>3
<1>10. CASE IsTrusted
  <2>1. /\ kill.at = "contains" /\ kill'.file = kill.file /\ kill'.id = kill.id
        /\ kill'.at \in {"refused", "open"} /\ (kill'.at = "refused" => kill.id \in ids)
    BY <1>10 DEF IsTrusted, Contains
  <2>2. OnlyVerifiedTrusted BY TrustSound
  <2>3. QED BY <1>1, <2>1, <2>2 DEF SpareInv, OnlyVerifiedTrusted
<1>11. CASE PidfdOpen
  BY <1>1, <1>11 DEF PidfdOpen, SpareInv
<1>12. CASE PidfdSendSignal
  BY <1>1, <1>12 DEF PidfdSendSignal, SpareInv
<1>13. CASE UNCHANGED vars BY <1>2, <1>13 DEF vars, killVars
<1>14. QED
  BY <1>3, <1>4, <1>5, <1>6, <1>7, <1>8, <1>9, <1>10, <1>11, <1>12, <1>13 DEF Next, SafeKill

(* A process that runs the binary it was spared for runs one that was      *)
(* verified, however files, inode numbers and pids were reused meanwhile;  *)
(* and the guard's Syncs trust every listed path as those of TrustSet do.  *)
THEOREM SparedOnlyVerified == Spec => []SparedIsVerified /\ []ListedIsTrusted
<1> DEFINE Inv == TrustInv /\ ListedInv /\ GuardTypeOK /\ SpareInv
<1>1. Init => Inv
  <2> SUFFICES ASSUME Init PROVE Inv OBVIOUS
  <2>1. GuardTypeOK
    BY TrustAssumption, KillAssumption
    DEF Init, GuardTypeOK, KillRecord, KillSteps, KillAssumption
  <2>2. SpareInv BY DEF Init, SpareInv
  <2>3. QED BY <2>1, <2>2, TrustInitially, ListedInitially DEF Init
<1>2. Inv /\ [Next]_vars => Inv'
  <2> SUFFICES ASSUME Inv, [Next]_vars PROVE Inv' OBVIOUS
  <2>1. kill.pid \in Pids BY DEF GuardTypeOK, KillRecord
  <2>2. TrustInv' /\ ListedInv' BY <2>1, GuardRefines, TrustInductive, ListedInductive
  <2>3. GuardTypeOK' BY GuardTyped DEF TrustInv
  <2>4. SpareInv' BY SpareInductive
  <2>5. QED BY <2>2, <2>3, <2>4
<1>3. Inv => SparedIsVerified
  BY DEF SpareInv, SparedIsVerified, Live, GuardTypeOK, KillRecord
<1>4. QED BY <1>1, <1>2, <1>3, ListedSound, PTL DEF Spec
=============================================================================
