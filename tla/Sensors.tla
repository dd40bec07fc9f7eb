------------------------------ MODULE Sensors -------------------------------
(* The sensors of one CPU and what they share: the per-CPU scratch buffer, *)
(* the ring buffer and the LRU hash container_cgroups, which the daemon    *)
(* fills from their events (bpf/sensors/*.h, internal/processor/event.go). *)
(* A tracepoint program runs in one piece; an LSM program may be preempted *)
(* by a task whose hook uses the same scratch buffer.                      *)
EXTENDS PathBuf, FiniteSets

CONSTANTS
    Task,
    Path,              \* the paths that are opened and executed
    BlockedWrite, BlockedPrefix, SensitiveWrite, Suspicious,  \* the path lists
    Cgroup,
    CgroupOf,          \* the cgroup of a task
    HostTasks,         \* tasks in the host's mount namespace
    Debuggers,         \* tasks whose executable is in allowed_ptrace_attaches
    Switches,          \* the enforcement switches that are on
    Nil,
    RingSize,          \* bound: records the ring buffer holds
    MaxTracked         \* bound: entries of container_cgroups

ASSUME SensorsAssumption ==
    /\ Path \cup BlockedWrite \cup BlockedPrefix \cup SensitiveWrite \cup Suspicious \subseteq Seq(Char)
    /\ CgroupOf \in [Task -> Cgroup]
    /\ HostTasks \subseteq Task /\ Debuggers \subseteq Task
    /\ Nil \notin Cgroup
    /\ RingSize \in Nat /\ MaxTracked \in Nat \ {0}
    /\ Switches \subseteq {"exec", "kmod", "ptrace"}

VARIABLES
    primary,    \* scratch->primary
    hook,       \* the LSM program with a path that a task is in
    rb,         \* the ring buffer
    containers, \* container_cgroups
    changed,    \* history: cgroups that have made a namespace change
    lost        \* history: cgroups whose event was dropped or whose entry evicted

vars == <<primary, hook, rb, containers, changed, lost>>

(* The keys of the maps blocked_write_paths, sensitive_write_paths and     *)
(* suspicious_paths.                                                       *)
blocked_write_paths == {pathToKey(p) : p \in BlockedWrite}
sensitive_write_paths == {pathToKey(p) : p \in SensitiveWrite}
suspicious_paths == {pathToKey(p) : p \in Suspicious}

-----------------------------------------------------------------------------
(* What the structs of types.h hold besides the header, which fill_common  *)
(* clears and fills, and what the decoders take from them.                 *)
ExecFields == {"filename", "args", "isFileless", "path_truncated"}
AddrFields == {"family", "daddr", "daddr6", "dport", "unix_path"}
Decoded ==
    [EXEC |-> ExecFields, EXEC_BLOCKED |-> ExecFields, REVERSE_SHELL |-> ExecFields,
     CONNECT |-> AddrFields, SENDTO |-> AddrFields,
     OPEN_SENSITIVE |-> {"filename", "path_truncated"},
     SENSITIVE_WRITE |-> {"filename", "path_truncated"},
     BLOCKED_WRITE |-> {"filename", "path_truncated"},
     MEMFD |-> {"filename", "path_truncated"},
     PTRACE |-> {}, SETUID |-> {}, MODULE_LOAD |-> {},
     PTRACE_BLOCKED |-> {"target_pid", "mode", "target_comm"},
     KMOD_BLOCKED |-> {}, LPE_BLOCKED |-> {"old_uid", "new_uid"}, IO_URING |-> {"opcode", "filename"},
     BRANCH_MISPREDICT |-> {"mispred_count"}, NS_CHANGE |-> {"flags", "nstype", "op"},
     RWX_VIOLATION |-> {"req_prot", "prot"}, CAPABILITY_CHANGE |-> {"cap"},
     BPF_PROG_LOAD |-> {"prog_type", "attach_type", "prog_name"},
     VM_READ |-> {"target_pid", "nr_segs", "target_comm"},
     VM_WRITE |-> {"target_pid", "nr_segs", "target_comm"}]

(* A record: the decoded fields that the program left as the reused memory *)
(* had them, and the cgroup where the decoder acts on it.                  *)
Record(type, filled, cgroup) == [type |-> type, unset |-> Decoded[type] \ filled, cgroup |-> cgroup]
Records ==
    [type : DOMAIN Decoded, unset : SUBSET UNION {Decoded[x] : x \in DOMAIN Decoded},
     cgroup : Cgroup \cup {Nil}]

(* bpf_ringbuf_reserve, and submit when there was room.                    *)
Put(buf, r) == IF Len(buf) < RingSize THEN Append(buf, r) ELSE buf
Report(type, filled) == rb' = Put(rb, Record(type, filled, Nil))

(* A program that only fills a record.                                     *)
Emit(type, filled) == Report(type, filled) /\ UNCHANGED <<primary, hook, containers, changed, lost>>

tp_ptrace == Emit("PTRACE", {})
tp_setuid == Emit("SETUID", {})
tp_init_module == Emit("MODULE_LOAD", {})
tp_io_uring_submit_req == Emit("IO_URING", {"opcode"})
on_branch_mispredict == Emit("BRANCH_MISPREDICT", {"mispred_count"})
check_rwx_violation == Emit("RWX_VIOLATION", {"req_prot", "prot"})
bpf_prog_load == Emit("BPF_PROG_LOAD", {"prog_type", "attach_type", "prog_name"})

(* The name of the target is read from the caller's own task_struct.       *)
emit_vm_rw_event(type) == Emit(type, {"target_pid", "nr_segs", "target_comm"})

(* The fields of an address by its family; in tp_connect, tp_sendto,       *)
(* tp_sendmsg and tp_sendmmsg all of them are zeroed first.                *)
FamilyFields(family) ==
    CASE family = "inet" -> {"daddr", "dport"}
      [] family = "inet6" -> {"daddr6", "dport"}
      [] OTHER -> {"unix_path"}
(* Mutant: nothing is zeroed.                                              *)
NothingZeroed == {}
ZeroedFirst == {"daddr", "daddr6", "dport", "unix_path"}
egress(type, family) == Emit(type, {"family"} \cup ZeroedFirst \cup FamilyFields(family))

lsm_ptrace_access_check(t) ==
    /\ "ptrace" \in Switches /\ t \notin Debuggers
    /\ Emit("PTRACE_BLOCKED", {"target_pid", "mode", "target_comm"})

(* A change to uid 0 that no setuid executable explains (Lineage has the   *)
(* condition).                                                             *)
kguard_task_fix_setuid == "exec" \in Switches /\ Emit("LPE_BLOCKED", {"old_uid", "new_uid"})

-----------------------------------------------------------------------------
(* A program writes the scratch buffer: for the programs that are          *)
(* preempted, what is in it is no longer theirs (own is history).          *)
Idle == [at |-> "idle"]
Overwritten(h) == IF h = Idle THEN h ELSE [h EXCEPT !.own = FALSE]
Scratch(buf) ==
    /\ primary' = buf
    /\ hook' = [t \in Task |-> Overwritten(hook[t])]

(* handle_open_checks on the path in a buffer: up to two events.           *)
OpenEvents(buf, write) ==
    (IF write /\ path_in_map(buf, sensitive_write_paths) THEN {"SENSITIVE_WRITE"} ELSE {})
    \cup (IF path_in_map(buf, suspicious_paths) THEN {"OPEN_SENSITIVE"} ELSE {})
handle_open_checks(buf, write) ==
    LET events == OpenEvents(buf, write)
        put(b, type) == IF type \in events THEN Put(b, Record(type, {"filename", "path_truncated"}, Nil)) ELSE b
    IN rb' = put(put(rb, "SENSITIVE_WRITE"), "OPEN_SENSITIVE")

tp_openat(p, write) ==
    LET buf == read_path(primary, p).buf IN
    /\ Scratch(buf)
    /\ handle_open_checks(buf, write)
    /\ UNCHANGED <<containers, changed, lost>>

(* The flags are in user memory; when they cannot be read write is FALSE.  *)
tp_openat2(p, write) == tp_openat(p, write)

tp_memfd_create(p) ==
    /\ Scratch(ReadStr(Zeroed, p))
    /\ Report("MEMFD", {"filename"})
    /\ UNCHANGED <<containers, changed, lost>>

(* tp_schedexec, with arguments that can be read or not.                   *)
tp_schedexec(p, args) ==
    /\ Scratch(ReadStr(Zeroed, p))
    /\ Report("EXEC", {"filename", "path_truncated"} \cup args)
    /\ UNCHANGED <<containers, changed, lost>>

(* What emit_exec_event fills, with arguments that can be read or not.     *)
Emitted(args) == {"filename", "isFileless", "path_truncated"} \cup args

(* lsm_file_open and lsm_bprm_check: a path that does not fit is let       *)
(* through, but the scratch buffer has been cleared.                       *)
PathTooLong(t, p) ==
    /\ "exec" \in Switches
    /\ hook[t] = Idle
    /\ ~Fits(p)
    /\ Scratch(d_path_fails(p))
    /\ UNCHANGED <<rb, containers, changed, lost>>

(* lsm_bprm_check ends before the path lists: a task with a socket for its *)
(* standard streams, or a fileless payload (Lineage has the first, and     *)
(* what the switch does in between).  Which path the record has is not     *)
(* kept, so a preemption before it changes nothing here.                   *)
EndsEarly(t, type, p, args) ==
    /\ "exec" \in Switches
    /\ hook[t] = Idle
    /\ Fits(p)
    /\ Scratch(get_safe_path(d_path(p), Len(p) + 1))
    /\ Report(type, Emitted(args))
    /\ UNCHANGED <<containers, changed, lost>>

(* The two hooks up to get_safe_path.                                      *)
SafePath(t, prog, p) ==
    /\ "exec" \in Switches
    /\ hook[t] = Idle
    /\ Fits(p)
    /\ primary' = get_safe_path(d_path(p), Len(p) + 1)
    /\ hook' = [[u \in Task |-> Overwritten(hook[u])]
                EXCEPT ![t] = [at |-> "lookup", prog |-> prog, path |-> p, own |-> TRUE]]
    /\ UNCHANGED <<rb, containers, changed, lost>>

is_prefix_blocked(buf) == \E r \in BlockedPrefix : IsPrefix(r, StringOf(buf))

(* The lookup with whatever the scratch buffer holds by now.  Of the lists *)
(* of lsm_bprm_check this is the one by prefix, in mode BLOCK; the list of *)
(* exact paths, whose lookup comes before, and the modes are in            *)
(* PolicySync.                                                             *)
Denies(prog, buf) ==
    IF prog = "file_open" THEN buf \in blocked_write_paths ELSE is_prefix_blocked(buf)
PathLookup(t) ==
    /\ hook[t].at = "lookup"
    /\ hook' = [hook EXCEPT ![t] = IF Denies(hook[t].prog, primary) THEN [@ EXCEPT !.at = "deny"] ELSE Idle]
    /\ UNCHANGED <<primary, rb, containers, changed, lost>>

(* emit_sensitive_write_event or emit_exec_event, and -EPERM.              *)
Deny(t, args) ==
    /\ hook[t].at = "deny"
    /\ Report(IF hook[t].prog = "file_open" THEN "BLOCKED_WRITE" ELSE "EXEC_BLOCKED",
              Emitted(args))
    /\ hook' = [hook EXCEPT ![t] = Idle]
    /\ UNCHANGED <<primary, containers, changed, lost>>

-----------------------------------------------------------------------------
Pending(c) == \E i \in DOMAIN rb : rb[i].type = "NS_CHANGE" /\ rb[i].cgroup = c

(* tp_unshare and tp_setns.                                                *)
ns_change(t) ==
    /\ rb' = Put(rb, Record("NS_CHANGE", {"flags", "nstype", "op"}, CgroupOf[t]))
    /\ changed' = changed \cup {CgroupOf[t]}
    /\ lost' = IF Len(rb) < RingSize THEN lost ELSE lost \cup {CgroupOf[t]}
    /\ UNCHANGED <<primary, hook, containers>>

(* AddContainerCgroup: when the LRU hash is full another entry goes.       *)
AddContainerCgroup(c) ==
    \E v \in SUBSET (containers \ {c}) :
        /\ IF Cardinality(containers \cup {c}) <= MaxTracked THEN v = {} ELSE Cardinality(v) = 1
        /\ containers' = (containers \ v) \cup {c}
        /\ lost' = (lost \cup v) \ {c}

(* The Kubernetes resolver finds a container.                              *)
OnContainerDiscovered(c) ==
    AddContainerCgroup(c) /\ UNCHANGED <<primary, hook, rb, changed>>

(* Mutant: the event is only turned into an alert.                         *)
IgnoreNsChange(c) == UNCHANGED <<containers, lost>>
decodeNsChange(c) == AddContainerCgroup(c)

(* Mutant: the reader does not get past a namespace change.                *)
ProcessStops ==
    /\ rb # << >> /\ Head(rb).type # "NS_CHANGE"
    /\ rb' = Tail(rb)
    /\ UNCHANGED <<primary, hook, containers, changed, lost>>

(* The daemon takes the next record.                                       *)
ProcessRawRecord ==
    /\ rb # << >>
    /\ rb' = Tail(rb)
    /\ IF Head(rb).type = "NS_CHANGE"
       THEN decodeNsChange(Head(rb).cgroup) ELSE UNCHANGED <<containers, lost>>
    /\ UNCHANGED <<primary, hook, changed>>

(* A module is loaded from a tracked cgroup: denied.                       *)
handle_kmod_check(t) ==
    /\ CgroupOf[t] \in containers /\ "kmod" \in Switches
    /\ Emit("KMOD_BLOCKED", {})

kguard_capable(t) ==
    /\ CgroupOf[t] \in containers /\ t \notin HostTasks
    /\ Emit("CAPABILITY_CHANGE", {"cap"})

-----------------------------------------------------------------------------
Init ==
    /\ primary = Zeroed
    /\ hook = [t \in Task |-> Idle]
    /\ rb = << >>
    /\ containers = {} /\ changed = {} /\ lost = {}

Args == {{}, {"args"}}

Next ==
    \/ tp_ptrace \/ tp_setuid \/ tp_init_module \/ tp_io_uring_submit_req
    \/ on_branch_mispredict \/ check_rwx_violation \/ bpf_prog_load \/ kguard_task_fix_setuid
    \/ \E type \in {"VM_READ", "VM_WRITE"} : emit_vm_rw_event(type)
    \/ \E type \in {"CONNECT", "SENDTO"}, f \in {"inet", "inet6", "unix"} : egress(type, f)
    \/ \E p \in Path, w \in BOOLEAN : tp_openat(p, w) \/ tp_openat2(p, w)
    \/ \E p \in Path : tp_memfd_create(p) \/ \E a \in Args : tp_schedexec(p, a)
    \/ \E t \in Task :
          \/ \E p \in Path, prog \in {"file_open", "bprm_check"} : SafePath(t, prog, p)
          \/ \E p \in Path : PathTooLong(t, p)
          \/ \E p \in Path, type \in {"EXEC", "REVERSE_SHELL"}, a \in Args : EndsEarly(t, type, p, a)
          \/ PathLookup(t) \/ \E a \in Args : Deny(t, a)
          \/ lsm_ptrace_access_check(t) \/ handle_kmod_check(t) \/ kguard_capable(t) \/ ns_change(t)
    \/ ProcessRawRecord
    \/ \E c \in Cgroup : OnContainerDiscovered(c)

(* The reader goroutine keeps reading.                                     *)
Spec == Init /\ [][Next]_vars /\ WF_vars(ProcessRawRecord)

-----------------------------------------------------------------------------
Hooks == {Idle} \cup [at : {"lookup", "deny"}, prog : {"file_open", "bprm_check"}, path : Path, own : BOOLEAN]

TypeOK ==
    /\ primary \in Buffer
    /\ hook \in [Task -> Hooks]
    /\ rb \in Seq(Records) /\ Len(rb) <= RingSize
    /\ containers \subseteq Cgroup /\ changed \subseteq Cgroup /\ lost \subseteq Cgroup
    /\ Cardinality(containers) <= MaxTracked

(* A hook that no other program preempted finds its own path in the        *)
(* scratch buffer, with nothing but zeroes behind it, so that it can be    *)
(* the key of a map.                                                       *)
ScratchIsOwn ==
    \A t \in Task : hook[t] # Idle => (hook[t].own => primary = pathToKey(hook[t].path))

(* The verdict of such a hook is that of the path lists.                   *)
MustDeny(h) ==
    IF h.prog = "file_open" THEN h.path \in BlockedWrite
    ELSE \E r \in BlockedPrefix : IsPrefix(r, h.path)
VerdictIsOwn ==
    [][\A t \in Task :
          hook[t].at = "lookup" /\ hook'[t].at # "lookup" =>
              (hook[t].own => (hook'[t].at = "deny" <=> MustDeny(hook[t])))]_vars

(* Whatever earlier programs have left in the scratch buffer, an open now  *)
(* is reported exactly when its path, or a directory above it, is listed;  *)
(* a path that does not fit is taken for what fits of it.                  *)
OpenJudged ==
    \A p \in Path :
        LET events == OpenEvents(read_path(primary, p).buf, TRUE)
            read == SubSeq(p, 1, StrLen(p) - 1)
        IN /\ "OPEN_SENSITIVE" \in events <=> Listed(read, Suspicious)
           /\ "SENSITIVE_WRITE" \in events <=> Listed(read, SensitiveWrite)

(* What a decoder takes from a record was written by the program of this   *)
(* record, not left in the ring buffer by an earlier one; except for four  *)
(* fields that their programs do not fill, or not always.                  *)
Unfilled(type) ==
    CASE type = "EXEC" -> {"isFileless", "args"}
      [] type \in {"EXEC_BLOCKED", "REVERSE_SHELL"} -> {"args"}
      [] type = "MEMFD" -> {"path_truncated"}
      [] type = "IO_URING" -> {"filename"}
      [] OTHER -> {}
NoForeignData == \A i \in DOMAIN rb : rb[i].unset \subseteq Unfilled(rb[i].type)

(* A cgroup that has changed a namespace is tracked, so that its module    *)
(* loads are denied, or its event is still in the ring buffer; unless the  *)
(* event was dropped or the LRU hash has evicted it since.                 *)
TrackedUnlessLost == \A c \in changed : c \in containers \/ Pending(c) \/ c \in lost

(* An event that got into the ring buffer leads to its cgroup's tracking.  *)
NsChangeTracked == \A c \in Cgroup : Pending(c) ~> c \in containers
=============================================================================
