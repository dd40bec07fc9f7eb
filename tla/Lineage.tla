------------------------------ MODULE Lineage ------------------------------
(* What the kernel side remembers of a task and its ancestors: the          *)
(* process_lineage in BPF task storage (bpf/types.h), inherited by          *)
(* lsm/task_alloc, marked by the exec and dup sensors and consulted by      *)
(* lsm/bprm_check_security and lsm/task_fix_setuid.  Tasks fork, exec, exit *)
(* and change their uid on different CPUs, user space flips the             *)
(* enforcement switch at any time and reads the ring buffer, which may be   *)
(* full; storage for a task may not be had.                                 *)
EXTENDS Naturals, Sequences

CONSTANTS
    Task,        \* task_structs
    Boot,        \* the tasks that run when the agent starts
    Program,     \* what execve is called with: a name and the file behind it
    Suspicious,  \* the programs whose name is in suspicious_paths
    Setuid,      \* the programs whose file has S_ISUID
    Fileless,    \* the programs whose file is an unlinked one on tmpfs
    LongPath,    \* the programs whose path does not fit bpf_d_path's buffer
    Exact,       \* the program's entry in blocked_paths
    Prefix,      \* its longest match in blocked_prefix
    None,        \* no program
    RingSize     \* bound: events the ring buffer holds

(* Values of the two maps: 1 enforces, 2 only reports, 0 is no entry.      *)
ASSUME LineageAssumption ==
    /\ Boot \subseteq Task
    /\ Suspicious \cup Setuid \cup Fileless \cup LongPath \subseteq Program
    /\ None \notin Program
    /\ Exact \in [Program -> 0..2] /\ Prefix \in [Program -> 0..2]
    /\ RingSize \in Nat

VARIABLES
    status,               \* free, running, or where in execve
    target,               \* the program of the execve under way
    root,                 \* is the real uid 0?
    lineage_map,          \* the task storage
    enforcement_enabled,  \* the kill-switch
    rb,                   \* the ring buffer: the types of the events in it
    redirected,           \* history: had a socket put on its stdio
    lastSuspicious,       \* history: the last suspicious program run
    elevated,             \* history: was let into a setuid program
    dupMissed,            \* history: whose redirection could not be recorded
    execMissed            \* history: whose suspicious exec could not be

worldVars == <<status, target, root>>
missed == <<dupMissed, execMissed>>
history == <<redirected, lastSuspicious, elevated, missed>>
vars == <<worldVars, lineage_map, enforcement_enabled, rb, history>>

(* struct process_lineage; parent_pid and expected_uid are written and     *)
(* never read.                                                             *)
Lineages == [suspicious_ancestor : BOOLEAN, ancestor_filename : Program \cup {None},
             setuid_allowed : BOOLEAN, socket_redirected : BOOLEAN]
NoStorage == [none |-> TRUE]
Zeroed == [suspicious_ancestor |-> FALSE, ancestor_filename |-> None,
           setuid_allowed |-> FALSE, socket_redirected |-> FALSE]

EventTypes == {"EXEC", "EXEC_BLOCKED", "REVERSE_SHELL", "LPE_BLOCKED"}

Init ==
    /\ status = [t \in Task |-> IF t \in Boot THEN "running" ELSE "free"]
    /\ target = [t \in Task |-> None]
    /\ root \in [Task -> BOOLEAN]
    /\ lineage_map = [t \in Task |-> NoStorage]
    /\ enforcement_enabled = FALSE
    /\ rb = << >>
    /\ redirected = {}
    /\ lastSuspicious = [t \in Task |-> None]
    /\ elevated = {}
    /\ dupMissed = {}
    /\ execMissed = {}

-----------------------------------------------------------------------------
HasStorage(t) == lineage_map[t] # NoStorage
Value(l) == IF l = NoStorage THEN Zeroed ELSE l
Live(t) == Value(lineage_map[t])

(* bpf_ringbuf_reserve and submit: an event that finds no room is lost.    *)
HasRoom == Len(rb) < RingSize
Submit(q, e) == IF Len(q) < RingSize THEN Append(q, e) ELSE q

(* bpf_task_storage_get with F_CREATE yields the storage, zeroed when new, *)
(* or fails for want of memory.                                            *)
Store(t, l) == lineage_map' = [lineage_map EXCEPT ![t] = l]
NoMemory(t) == ~HasStorage(t) /\ UNCHANGED lineage_map

-----------------------------------------------------------------------------
(* lsm/task_alloc: the child of a task without storage starts with a clean *)
(* slate.  Its storage is new, so creating it may fail.                    *)
ForgetsAncestor(p) == IF HasStorage(p) THEN [lineage_map[p] EXCEPT !.ancestor_filename = None] ELSE Zeroed
ForgetsSocket(p) == IF HasStorage(p) THEN [lineage_map[p] EXCEPT !.socket_redirected = FALSE] ELSE Zeroed
TrustsOrphan(p) == IF HasStorage(p) THEN lineage_map[p] ELSE [Zeroed EXCEPT !.setuid_allowed = TRUE]
Inherited(p) == Live(p)

Heirs(S, p, c) == IF p \in S THEN S \cup {c} ELSE S

kguard_task_alloc(p, c) ==
    \/ /\ Store(c, Inherited(p))
       /\ dupMissed' = Heirs(dupMissed, p, c)
       /\ execMissed' = Heirs(execMissed, p, c)
    \/ /\ NoMemory(c)
       /\ dupMissed' = dupMissed \cup {c}
       /\ execMissed' = execMissed \cup {c}

Fork(p, c) ==
    /\ status[p] = "running" /\ status[c] = "free"
    /\ status' = [status EXCEPT ![c] = "running"]
    /\ root' = [root EXCEPT ![c] = root[p]]
    /\ kguard_task_alloc(p, c)
    /\ redirected' = Heirs(redirected, p, c)
    /\ elevated' = Heirs(elevated, p, c)
    /\ lastSuspicious' = [lastSuspicious EXCEPT ![c] = lastSuspicious[p]]
    /\ UNCHANGED <<target, enforcement_enabled, rb>>

(* Task storage goes with the task.                                        *)
Exit(t) ==
    /\ status[t] = "running"
    /\ status' = [status EXCEPT ![t] = "free"]
    /\ lineage_map' = [lineage_map EXCEPT ![t] = NoStorage]
    /\ redirected' = redirected \ {t}
    /\ elevated' = elevated \ {t}
    /\ dupMissed' = dupMissed \ {t}
    /\ execMissed' = execMissed \ {t}
    /\ lastSuspicious' = [lastSuspicious EXCEPT ![t] = None]
    /\ UNCHANGED <<target, root, enforcement_enabled, rb>>

(* dup2 and dup3 of a socket onto fd 0, 1 or 2, seen at system call entry. *)
check_socket_dup(t) ==
    /\ status[t] = "running"
    /\ \/ Store(t, [Live(t) EXCEPT !.socket_redirected = TRUE]) /\ dupMissed' = dupMissed \ {t}
       \/ NoMemory(t) /\ dupMissed' = dupMissed \cup {t}
    /\ redirected' = redirected \cup {t}
    /\ UNCHANGED <<worldVars, enforcement_enabled, rb, lastSuspicious, elevated, execMissed>>

-----------------------------------------------------------------------------
(* lsm/bprm_check_security.  What the hook does once it is past the        *)
(* redirection check, with q the ring buffer so far: a fileless program    *)
(* passes before the block lists and before the setuid flag; the lists     *)
(* report and, in mode 1, deny; otherwise the flag follows the file.       *)
AfterList(q, mode) == IF mode > 0 THEN Submit(q, "EXEC_BLOCKED") ELSE q

Denied(t) ==
    /\ status' = [status EXCEPT ![t] = "running"]
    /\ target' = [target EXCEPT ![t] = None]
    /\ UNCHANGED <<lineage_map, elevated>>

Passed(t, b) ==
    /\ status' = [status EXCEPT ![t] = "passed"]
    /\ target' = [target EXCEPT ![t] = b]

SetuidFlag(t, b) ==
    \/ HasStorage(t) /\ b \in Setuid /\ Store(t, [lineage_map[t] EXCEPT !.setuid_allowed = TRUE])
    \/ HasStorage(t) /\ b \notin Setuid /\ Store(t, [lineage_map[t] EXCEPT !.setuid_allowed = FALSE])
    \/ ~HasStorage(t) /\ UNCHANGED lineage_map

CheckLists(t, b) ==
    \/ /\ b \in Fileless
       /\ rb' = Submit(rb, "EXEC")
       /\ Passed(t, b)
       /\ UNCHANGED <<lineage_map, elevated>>
    \/ /\ b \notin Fileless
       /\ Exact[b] = 1
       /\ rb' = AfterList(rb, Exact[b])
       /\ Denied(t)
    \/ /\ b \notin Fileless
       /\ Exact[b] # 1
       /\ rb' = AfterList(AfterList(rb, Exact[b]), Prefix[b])
       /\ \/ Prefix[b] = 1 /\ Denied(t)
          \/ /\ Prefix[b] # 1
             /\ Passed(t, b)
             /\ SetuidFlag(t, b)
             /\ elevated' = IF b \in Setuid THEN elevated \cup {t} ELSE elevated

IsRedirected(t) == Live(t).socket_redirected

(* The hook looks at the switch on entry and, having reported a            *)
(* redirected task, once more before it denies.  A program whose path it   *)
(* cannot get passes before anything is looked at.                         *)
Unchecked(b) == ~enforcement_enabled \/ b \in LongPath

lsm_bprm_check(t, b) ==
    /\ status[t] = "running"
    /\ \/ /\ Unchecked(b)
          /\ Passed(t, b)
          /\ UNCHANGED <<lineage_map, rb, elevated>>
       \/ /\ ~Unchecked(b) /\ IsRedirected(t)
          /\ rb' = Submit(rb, "REVERSE_SHELL")
          /\ status' = [status EXCEPT ![t] = "reported"]
          /\ target' = [target EXCEPT ![t] = b]
          /\ UNCHANGED <<lineage_map, elevated>>
       \/ /\ ~Unchecked(b) /\ ~IsRedirected(t)
          /\ CheckLists(t, b)
    /\ UNCHANGED <<root, enforcement_enabled, redirected, lastSuspicious, missed>>

RereadSwitch(t) ==
    /\ status[t] = "reported"
    /\ \/ enforcement_enabled /\ Denied(t) /\ UNCHANGED rb
       \/ ~enforcement_enabled /\ CheckLists(t, target[t])
    /\ UNCHANGED <<root, enforcement_enabled, redirected, lastSuspicious, missed>>

(* After the hook, execve may still fail for other reasons.                *)
ExecFails(t) ==
    /\ status[t] = "passed"
    /\ status' = [status EXCEPT ![t] = "running"]
    /\ target' = [target EXCEPT ![t] = None]
    /\ UNCHANGED <<root, lineage_map, enforcement_enabled, rb, history>>

(* sched_process_exec: without room for the event, tp_schedexec returns    *)
(* before it gets to the lineage.                                          *)
Marked(l, b) == [l EXCEPT !.suspicious_ancestor = TRUE, !.ancestor_filename = b]

handle_suspicious_lineage(t, b) ==
    \/ /\ Store(t, Marked(Live(t), b))
       /\ execMissed' = execMissed \ {t}
    \/ /\ NoMemory(t)
       /\ execMissed' = execMissed \cup {t}

tp_schedexec(t) ==
    LET b == target[t] IN
    /\ status[t] = "passed"
    /\ status' = [status EXCEPT ![t] = "running"]
    /\ target' = [target EXCEPT ![t] = None]
    /\ \/ /\ HasRoom
          /\ rb' = Submit(rb, "EXEC")
          /\ \/ b \in Suspicious /\ handle_suspicious_lineage(t, b)
             \/ b \notin Suspicious /\ UNCHANGED <<lineage_map, execMissed>>
       \/ /\ ~HasRoom
          /\ execMissed' = IF b \in Suspicious THEN execMissed \cup {t} ELSE execMissed
          /\ UNCHANGED <<lineage_map, rb>>
    /\ lastSuspicious' = [lastSuspicious EXCEPT ![t] = IF b \in Suspicious THEN b ELSE @]
    /\ UNCHANGED <<root, enforcement_enabled, redirected, elevated, dupMissed>>

-----------------------------------------------------------------------------
(* lsm/task_fix_setuid on the real uid; r says whether the new one is 0.   *)
Escalates(t, r) == HasStorage(t) /\ ~root[t] /\ r /\ ~lineage_map[t].setuid_allowed

kguard_task_fix_setuid(t, r) ==
    /\ status[t] = "running" /\ root[t] # r
    /\ \/ /\ ~enforcement_enabled \/ ~Escalates(t, r)
          /\ root' = [root EXCEPT ![t] = r]
          /\ UNCHANGED rb
       \/ /\ enforcement_enabled /\ Escalates(t, r)
          /\ rb' = Submit(rb, "LPE_BLOCKED")
          /\ UNCHANGED root
    /\ UNCHANGED <<status, target, lineage_map, enforcement_enabled, history>>

SetEnforcement(on) ==
    /\ enforcement_enabled' = on
    /\ UNCHANGED <<worldVars, lineage_map, rb, history>>

ReadRecord ==
    /\ rb # << >>
    /\ rb' = Tail(rb)
    /\ UNCHANGED <<worldVars, lineage_map, enforcement_enabled, history>>

Next ==
    \/ \E p, c \in Task : Fork(p, c)
    \/ \E t \in Task : \/ Exit(t) \/ check_socket_dup(t) \/ RereadSwitch(t)
                       \/ ExecFails(t) \/ tp_schedexec(t)
    \/ \E t \in Task, b \in Program : lsm_bprm_check(t, b)
    \/ \E t \in Task, r \in BOOLEAN : kguard_task_fix_setuid(t, r)
    \/ \E on \in BOOLEAN : SetEnforcement(on)
    \/ ReadRecord

Spec == Init /\ [][Next]_vars

-----------------------------------------------------------------------------
(* Type correctness: storage is zeroed or a process_lineage, and the ring  *)
(* buffer never holds more than fits.                                      *)
TypeOK ==
    /\ status \in [Task -> {"free", "running", "reported", "passed"}]
    /\ target \in [Task -> Program \cup {None}]
    /\ root \in [Task -> BOOLEAN]
    /\ lineage_map \in [Task -> Lineages \cup {NoStorage}]
    /\ enforcement_enabled \in BOOLEAN
    /\ rb \in Seq(EventTypes) /\ Len(rb) <= RingSize
    /\ redirected \subseteq Task /\ elevated \subseteq Task
    /\ dupMissed \subseteq Task /\ execMissed \subseteq Task
    /\ lastSuspicious \in [Task -> Suspicious \cup {None}]

(* The suspicious mark is exact through forks, execs, exits and losses: a  *)
(* task is marked iff it or an ancestor ran a suspicious program, and      *)
(* ancestor_filename is the last one of them (tp_schedexec, task_alloc).   *)
(* Excepted are the tasks below an exec that could not be recorded.        *)
LineageExact ==
    \A t \in Task \ execMissed :
        /\ Live(t).suspicious_ancestor <=> lastSuspicious[t] # None
        /\ Live(t).ancestor_filename = lastSuspicious[t]

(* While enforcement is on, the exec hook lets no task pass that has, or   *)
(* had an ancestor that had, a socket put on its standard I/O              *)
(* (check_socket_dup, task_alloc, bprm_check_security), unless the path of *)
(* the program is too long for the hook.                                   *)
RedirectedNeverExecs ==
    [][\A t \in Task :
          enforcement_enabled /\ status[t] # "passed" /\ status'[t] = "passed"
              => t \notin redirected \ dupMissed \/ target'[t] \in LongPath]_vars

(* While enforcement is on, a task with a lineage changes its uid to 0     *)
(* only after it or an ancestor was let into a setuid program              *)
(* (task_fix_setuid, bprm_check_security, task_alloc).                     *)
RootNeedsSetuid ==
    [][\A t \in Task :
          enforcement_enabled /\ HasStorage(t) /\ ~root[t] /\ root'[t]
              => t \in elevated]_vars
=============================================================================
