------------------------------ MODULE TrustSet ------------------------------
(* The set of pinned binaries (internal/trust/set.go).  Sync resolves each  *)
(* configured path to a file, keeps it open and trusts its (device, inode)  *)
(* pair; meanwhile files are replaced and removed, and the file system      *)
(* gives the inode of a file that nothing refers to any more to a new one.  *)
(* A file is an object that is never reused, its inode number may be.  The  *)
(* configured list is a set of paths: lists that name a path twice are      *)
(* left out.                                                                *)
EXTENDS Naturals

CONSTANTS
    Paths,        \* absolute paths
    Files,        \* file objects
    Inos,         \* inode numbers
    Pids,         \* processes
    System,       \* the file that PID 1 and the daemon execute
    Trustworthy,  \* files that pass verifyBinaryIntegrity
    None          \* no file, no inode, no path

ASSUME TrustAssumption ==
    /\ Trustworthy \subseteq Files
    /\ System \in Files
    /\ None \notin Files \cup Inos \cup Paths

VARIABLES
    dir,      \* the file each path leads to
    ino,      \* inode number of each file, None before it is created
    exe,      \* the file each process executes, None if there is no process
    pinned,   \* Set.pinned
    ids,      \* the keys of Set.ids
    at,       \* where Sync is; it holds Set.mu unless at = "idle"
    todo,     \* the paths Sync still has to look at
    want,     \* the paths of the list being or last synced
    cur, fd,  \* the path Sync has just opened, and the file it got
    touched   \* history: paths that changed since that Sync began

fsVars == <<dir, ino, exe>>
setVars == <<pinned, ids, at, todo, want, cur, fd>>
trustVars == <<fsVars, setVars, touched>>

Uncreated == {f \in Files : ino[f] = None}

(* The kernel keeps the inode of a file that is linked, open or executed.   *)
Live(f) ==
    /\ ino[f] # None
    /\ \/ \E p \in Paths : dir[p] = f \/ pinned[p] = f
       \/ fd = f
       \/ \E pid \in Pids : exe[pid] = f
FreeInos == Inos \ {ino[f] : f \in {g \in Files : Live(g)}}

TrustInit ==
    /\ dir = [p \in Paths |-> None]
    /\ \E i \in Inos : ino = [f \in Files |-> IF f = System THEN i ELSE None]
    /\ exe \in [Pids -> {System, None}]
    /\ pinned = [p \in Paths |-> None]
    /\ ids = {}
    /\ at = "idle"
    /\ todo = {}
    /\ want = {}
    /\ cur = None
    /\ fd = None
    /\ touched = {}

-----------------------------------------------------------------------------
(* The system around the daemon: files are put in place or removed,        *)
(* processes start, exec and end.                                          *)
Create(p, f) ==
    /\ f \in Uncreated
    /\ \E i \in FreeInos : ino' = [ino EXCEPT ![f] = i]
    /\ dir' = [dir EXCEPT ![p] = f]
    /\ touched' = touched \cup {p}
    /\ UNCHANGED <<exe, setVars>>

Unlink(p) ==
    /\ dir[p] # None
    /\ dir' = [dir EXCEPT ![p] = None]
    /\ touched' = touched \cup {p}
    /\ UNCHANGED <<ino, exe, setVars>>

Start(pid, p) ==
    /\ exe[pid] = None
    /\ dir[p] # None
    /\ exe' = [exe EXCEPT ![pid] = dir[p]]
    /\ UNCHANGED <<dir, ino, setVars, touched>>

Exec(pid, p) ==
    /\ exe[pid] # None
    /\ dir[p] # None
    /\ exe' = [exe EXCEPT ![pid] = dir[p]]
    /\ UNCHANGED <<dir, ino, setVars, touched>>

Exit(pid) ==
    /\ exe[pid] # None
    /\ exe' = [exe EXCEPT ![pid] = None]
    /\ UNCHANGED <<dir, ino, setVars, touched>>

-----------------------------------------------------------------------------
(* Sync takes the lock and starts from an empty id set, ...                *)
\* Mutant: the ids of the previous list are kept.
KeptIds == ids
FreshIds == {}

BeginSync(L) ==
    /\ at = "idle"
    /\ at' = "path"
    /\ todo' = L
    /\ want' = L
    /\ ids' = FreshIds
    /\ touched' = {}
    /\ UNCHANGED <<fsVars, pinned, cur, fd>>

(* ... keeps a pin whose path still leads to the pinned inode, ...         *)
StillThere(p) == dir[p] # None /\ ino[dir[p]] = ino[pinned[p]]

KeepPin(p) ==
    /\ at = "path" /\ p \in todo /\ pinned[p] # None
    /\ StillThere(p)
    /\ ids' = ids \cup {ino[pinned[p]]}
    /\ todo' = todo \ {p}
    /\ UNCHANGED <<fsVars, pinned, at, want, cur, fd, touched>>

(* ... closes any other and opens the path anew, ...                       *)
\* Mutant: a changed path is dropped and not looked at again.
DropAndForget(p) == todo \ {p}
AfterDrop(p) == todo

DropPin(p) ==
    /\ at = "path" /\ p \in todo /\ pinned[p] # None
    /\ ~StillThere(p)
    /\ pinned' = [pinned EXCEPT ![p] = None]
    /\ todo' = AfterDrop(p)
    /\ UNCHANGED <<fsVars, ids, at, want, cur, fd, touched>>

OpenFileSafely(p) ==
    /\ at = "path" /\ p \in todo /\ pinned[p] = None
    /\ todo' = todo \ {p}
    /\ \/ /\ dir[p] = None
          /\ UNCHANGED <<at, cur, fd>>
       \/ /\ dir[p] # None
          /\ cur' = p
          /\ fd' = dir[p]
          /\ at' = "verify"
    /\ UNCHANGED <<fsVars, pinned, ids, want, touched>>

(* ... and pins what it opened if that may be trusted.  Verification and   *)
(* fstat both look at the open file, whatever has become of the path.      *)
VerifyAndPin ==
    /\ at = "verify"
    /\ \/ /\ fd \in Trustworthy
          /\ pinned' = [pinned EXCEPT ![cur] = fd]
          /\ ids' = ids \cup {ino[fd]}
       \/ /\ fd \notin Trustworthy
          /\ UNCHANGED <<pinned, ids>>
    /\ at' = "path"
    /\ cur' = None
    /\ fd' = None
    /\ UNCHANGED <<fsVars, todo, want, touched>>

(* At the end it closes the pins of paths that are not listed any more.    *)
FinishSync ==
    /\ at = "path" /\ todo = {}
    /\ pinned' = [p \in Paths |-> IF p \in want THEN pinned[p] ELSE None]
    /\ at' = "idle"
    /\ UNCHANGED <<fsVars, ids, todo, want, cur, fd, touched>>

Sync ==
    \/ \E p \in Paths : KeepPin(p) \/ DropPin(p) \/ OpenFileSafely(p)
    \/ VerifyAndPin \/ FinishSync

(* Contains, under the read lock, compares ids and nothing else.           *)
\* Mutant: any pinned binary will do.
AnyPinned(i) == ids # {}
Contains(i) == i \in ids

World ==
    \/ \E p \in Paths, f \in Files : Create(p, f)
    \/ \E p \in Paths : Unlink(p)
    \/ \E pid \in Pids, p \in Paths : Start(pid, p) \/ Exec(pid, p)

TrustNext ==
    \/ World
    \/ \E pid \in Pids : Exit(pid)
    \/ \E L \in SUBSET Paths : BeginSync(L)
    \/ Sync

TrustSpec == TrustInit /\ [][TrustNext]_trustVars
-----------------------------------------------------------------------------
TrustTypeOK ==
    /\ dir \in [Paths -> Files \cup {None}]
    /\ ino \in [Files -> Inos \cup {None}]
    /\ exe \in [Pids -> Files \cup {None}]
    /\ pinned \in [Paths -> Files \cup {None}]
    /\ ids \subseteq Inos
    /\ at \in {"idle", "path", "verify"}
    /\ todo \subseteq Paths
    /\ want \subseteq Paths
    /\ cur \in Paths \cup {None}
    /\ fd \in Files \cup {None}
    /\ touched \subseteq Paths

(* "kept pinned via a held file descriptor": a trusted id never names any  *)
(* file but one that was verified, although inode numbers are reused.      *)
OnlyVerifiedTrusted ==
    \A f \in Files : Live(f) /\ ino[f] \in ids => f \in Trustworthy

(* After a Sync every listed path that was left alone since it began and   *)
(* leads to a trustworthy file is trusted, also when the file replaced a   *)
(* pinned one.                                                             *)
ListedIsTrusted ==
    at = "idle" =>
        \A p \in want \ touched :
            dir[p] # None /\ dir[p] \in Trustworthy => ino[dir[p]] \in ids
=============================================================================
