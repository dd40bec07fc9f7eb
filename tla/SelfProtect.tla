---------------------------- MODULE SelfProtect -----------------------------
(* The agent's defence of itself: the hooks of bpf/sensors/selfprotect.h   *)
(* and the part of internal/ebpf/loader.go that arms them.  Every worker   *)
(* process loads its own copy of the programs, maps and .bss variables.    *)
EXTENDS Naturals, Sequences, FiniteSets

CONSTANTS
    MaxWorkers,    \* bound: worker processes
    Order,         \* maps, programs, links: the objects in the order of
                   \* RegisterProtectedIDs
    Number,        \* the kernel id of an object; ids of different kinds of
                   \* objects may be equal
    Links,         \* the objects that are links
    KillLink,      \* the link of lsm_task_kill
    CmdLink,       \* the link of lsm_bpf_cmd
    MaxProtected,  \* max_entries of protected_ids (64 in the code)
    Descriptors    \* descriptor numbers an outside process may give a link

(* Worker processes, in order of creation.                                 *)
Worker == 1..MaxWorkers

Object == {Order[i] : i \in 1..Len(Order)}

ASSUME SelfProtectAssumption ==
    /\ MaxWorkers \in Nat
    /\ Order \in Seq(Object)
    /\ Number \in [Object -> Nat]
    /\ KillLink \in Links /\ CmdLink \in Links /\ Links \subseteq Object
    /\ MaxProtected \in Nat
    /\ Descriptors \subseteq Nat

VARIABLES
    mlinks,    \* Manager.links: the links the loader got
    links,     \* the links that are attached in the kernel
    self_pid,  \* has the variable of the worker's .bss been set?
    reg,       \* how many of Order RegisterProtectedIDs has been through
    protected_ids,
    held,      \* attached links some outside process has a descriptor of
    sealed     \* history: links in place and out of reach when it returned

protectVars == <<mlinks, links, self_pid, reg, protected_ids, held, sealed>>

InitProtect ==
    /\ mlinks = [w \in Worker |-> {}]
    /\ links = [w \in Worker |-> {}]
    /\ self_pid = [w \in Worker |-> FALSE]
    /\ reg = [w \in Worker |-> 0]
    /\ protected_ids = [w \in Worker |-> {}]
    /\ held = [w \in Worker |-> {}]
    /\ sealed = [w \in Worker |-> {}]

(* Mutant: the hook compares the target with the caller where it should    *)
(* compare it with self_pid.                                               *)
TaskKillWrongTarget(w, caller) ==
    KillLink \in links[w] /\ self_pid[w] /\ caller = "self" => caller \in {"self", "init"}

(* lsm_task_kill of worker w lets caller signal w.                         *)
TaskKillAllows(w, caller) ==
    KillLink \in links[w] /\ self_pid[w] => caller \in {"self", "init"}

(* Mutant: BPF_LINK_GET_FD_BY_ID takes the default branch of the switch.   *)
BpfCmdUnfiltered(w, caller, number) == TRUE

(* lsm_bpf_cmd of worker w lets caller run one of the filtered commands.   *)
(* number is what it finds in the first word of the command: the object's  *)
(* id for the GET_FD_BY_ID commands, but for BPF_LINK_DETACH, whose        *)
(* link_fd lies where link_id is read, the caller's descriptor number.     *)
BpfCmdAllows(w, caller, number) ==
    CmdLink \in links[w] /\ self_pid[w] /\ caller \notin {"self", "init"}
        => number \notin protected_ids[w]

(* The AttachLSM calls of NewManager: a hook that does not attach is left  *)
(* out with a warning.                                                     *)
AttachHooks(w) ==
    /\ \E got \in SUBSET Links :
          /\ mlinks' = [mlinks EXCEPT ![w] = got]
          /\ links' = [links EXCEPT ![w] = got]
    /\ UNCHANGED <<self_pid, reg, protected_ids, held, sealed>>

SetSelfPid(w) ==
    /\ self_pid' = [self_pid EXCEPT ![w] = TRUE]
    /\ UNCHANGED <<mlinks, links, reg, protected_ids, held, sealed>>

(* The loop passes over what the loader did not get.                       *)
Skips(w, o) == o \in Links /\ o \notin mlinks[w]

(* Update of a full hash map fails, and the error is not looked at.        *)
Fits(w, o) ==
    Number[o] \in protected_ids[w] \/ Cardinality(protected_ids[w]) < MaxProtected

RegisterProtectedID(w) ==
    LET o == Order[reg[w] + 1] IN
    /\ reg[w] < Len(Order)
    /\ reg' = [reg EXCEPT ![w] = @ + 1]
    /\ protected_ids' = [protected_ids EXCEPT ![w] =
           IF ~Skips(w, o) /\ Fits(w, o) THEN @ \cup {Number[o]} ELSE @]
    /\ UNCHANGED <<mlinks, links, self_pid, held, sealed>>

(* A link is sealed if it and the link of the hook that guards links are   *)
(* attached and registered, and no outside process got a descriptor of     *)
(* either before they were.                                                *)
OutOfReach(w) == {l \in links[w] \ held[w] : Number[l] \in protected_ids[w]}

RegistrationDone(w) ==
    /\ reg[w] = Len(Order)
    /\ sealed' = [sealed EXCEPT ![w] =
           IF CmdLink \in OutOfReach(w) THEN OutOfReach(w) ELSE {}]
    /\ UNCHANGED <<mlinks, links, self_pid, reg, protected_ids, held>>

(* BPF_LINK_GET_FD_BY_ID by some other process.                            *)
GetLinkFd(w, l) ==
    /\ l \in links[w] \ held[w]
    /\ BpfCmdAllows(w, "other", Number[l])
    /\ held' = [held EXCEPT ![w] = @ \cup {l}]
    /\ UNCHANGED <<mlinks, links, self_pid, reg, protected_ids, sealed>>

(* BPF_LINK_DETACH by the process that has l as its descriptor fd.         *)
Detach(w, l, fd) ==
    /\ l \in held[w]
    /\ BpfCmdAllows(w, "other", fd)
    /\ links' = [links EXCEPT ![w] = @ \ {l}]
    /\ held' = [held EXCEPT ![w] = @ \ {l}]
    /\ UNCHANGED <<mlinks, self_pid, reg, protected_ids, sealed>>

(* The process ends: the kernel closes its descriptors, and its links,     *)
(* maps and variables go away.  (A link held outside stays attached, but   *)
(* guards only the pid and the ids of the worker that is gone.)            *)
Unhook(w) ==
    /\ mlinks' = [mlinks EXCEPT ![w] = {}]
    /\ links' = [links EXCEPT ![w] = {}]
    /\ self_pid' = [self_pid EXCEPT ![w] = FALSE]
    /\ reg' = [reg EXCEPT ![w] = 0]
    /\ protected_ids' = [protected_ids EXCEPT ![w] = {}]
    /\ held' = [held EXCEPT ![w] = {}]
    /\ UNCHANGED sealed
=============================================================================
