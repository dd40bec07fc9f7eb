# K-Guard: TLA+ specifications and proofs

K-Guard is an eBPF runtime-security agent: LSM hooks, tracepoints and tc
programs in the kernel, and a Go daemon that loads them, compiles a rule file
into kernel maps, reads events from a ring buffer, and answers them with alerts,
audit records and kills.  A supervisor process restarts the daemon.  This
directory holds TLA+ models of the parts where several actors meet, TLC
configurations that check them on small instances, and TLAPS proofs of the
results that matter most for every instance.  Source paths below are relative to
`src/`.

## The system and its parts

| Part | Source | State | Operations | Module |
|---|---|---|---|---|
| Configuration manager | `internal/config/config.go`, `main.go` | current config, lastMod, subscribers | NewManager, OnChange, ReloadNow (poller and SIGHUP goroutine) | ConfigManager |
| Rule compiler | `internal/config/rules.go`, `sigma.go` | none | Validate, BlockedPatterns, BlockedPrefix | PolicySync (lists only) |
| Policy sync | `engine.go` applyConfig, `internal/ebpf/loader.go` | BPF maps, kill-switch globals | Sync*, Set*Enforcement | PolicySync |
| Exec hook | `bpf/sensors/lsm.h`, `bpf/helpers.h` | reads the maps | lsm_bprm_check | PolicySync, Lineage, Sensors |
| Kill guard | `internal/safety/safety.go` | protected pids, trust set | SetProtected, SafeKill | SafeKill |
| Trust set | `internal/trust/set.go` | pinned files, ids | Sync, Contains | TrustSet |
| Alert dispatcher | `internal/alert/alert.go` | workers, queues | Register, Dispatch, Close | Dispatcher, AlertDelivery |
| Event engine and router | `internal/processor` | dedup table, correlator, caches | ProcessRawRecord, Analyze* | Engine, Deduper |
| Task lineage | `bpf/sensors/lsm.h`, `exec.h`, `net.h` | task storage, ring buffer | task_alloc, exec, dup2, fix_setuid | Lineage |
| Path and event sensors | `bpf/sensors/file.h`, `sys.h`, `iouring.h`, `pmu.h`, `lsm.h`, `bpf/helpers.h` | per-CPU scratch buffer, ring buffer, container_cgroups | every tracepoint and hook | Sensors, PathBuf |
| DNS and egress | `bpf/sensors/net.h`, `processor/correlate.go`, `event.go` | dns_pending_tx, ring buffer, two IP caches | tc_egress_dns, tc_ingress_dns, connect, sendto, sendmsg, sendmmsg | DnsEgress |
| Self-protection | `bpf/sensors/selfprotect.h`, `loader.go` | self_pid, protected_ids, links | lsm_task_kill, lsm_bpf_cmd, RegisterProtectedIDs | SelfProtect |
| Audit logger | `internal/audit/audit.go` | queue, buffer, file | Log, worker, Close | AuditLog |
| Supervisor and worker | `main.go` | restart times, sigCh, the worker's phase | spawn, forward signals, restart, shut down | Supervisor |
| Kubernetes resolver | `internal/k8s` | pid and pod caches | Resolve, SyncPods, UpdateConfig | -- |
| Alert store, telemetry, metrics, dashboard | `store.go`, `dataset`, `metrics`, `dashboard` | files, counters | append, serve | -- |

What is hard about it: no lock covers a reload, so the poller, the SIGHUP
goroutine and startup interleave; the hooks run on every CPU while the maps are
being rewritten and share scratch memory that a preempting program overwrites;
maps are bounded, some evict, some refuse; the ring buffer hands out memory with
old contents and drops what does not fit; the daemon acts on events about
processes that may be gone, or replaced by others with the same pid or inode
number; queues are bounded and sinks may be slow or stuck; the daemon's own hooks
decide which signals reach it.  `hazards` in `PROJECT.json` lists these at their
lines with the properties that watch them.

## Modules

`ConfigManager` -- the reload protocol.  One action per statement of
ReloadNow/notify/WatchPoll that reads or writes shared state; the main
goroutine's startup is the fixed sequence `BootSteps`.  A configuration is the
number of the edit that wrote it, which also is the file's mtime.  Nothing keeps
the two goroutines, startup and the editor apart: an edit may fall between Load and
Stat, both goroutines may be inside ReloadNow, a poll may fall into startup.  The
code loses edits and rolls configurations back in these races, so three history
variables say which of them happened, and the properties say what holds without:
`quiet` -- the last edit did not fall into startup, between a Load and its Stat, or
into a reload that another one overlaps, and no reload began while one carried an
older file; `overlap` -- the reload under way met another one or startup; `signal`
-- was a SIGHUP sent since the last edit, and was a reload of an older file under
way then?

`PolicySync` -- one applyConfig per applier goroutine: `Iterate`,
`DeleteEntry`, `UpdateEntry`, ... are the loop bodies of syncValueMap, first for
the prefix map, then for the exact map, then the kill-switch.  The exec hook's
lookups are steps of their own, so a hook can run anywhere inside a sync.
`IterateFails` is the error return after the iteration, which ends the sync before
any delete; `unread` remembers maps that were left so, and the properties except
them.  The lists and switches which the exec hook does not read are left out.

`Dispatcher` -- Register, Dispatch, the worker loop and Close, with the
read-write lock modelled as Go implements it: a waiting writer holds new readers
back.  `AlertDelivery` is the abstract specification: alerts are taken or
counted as dropped, sent in order, and all of them before any sink is closed.
`Dispatcher` implements it (`KeepsPromise`) with what the worker holds plus its
queue as what is owed.

`TrustSet` -- Sync and Contains over a file system in which files are replaced
and inode numbers reused; the kernel keeps an inode as long as the file is
linked, open or executed.  `SafeKill` extends it with the guard: SetProtected in
its two halves, and a kill as pid check, `/proc/<pid>/exe` lookup, trust lookup,
pidfd_open and pidfd_send_signal, with processes starting, exec'ing and ending
in between.

`Lineage` -- what the hooks keep per task: the suspicious ancestor, the
redirected-socket flag and the setuid permission, handed down by
kguard_task_alloc, set by dup2/dup3, tp_schedexec and the exec hook, and read by
the exec hook and kguard_task_fix_setuid.  Storage can be refused, the ring
buffer can be full (tp_schedexec then returns before it marks anything), and the
daemon flips the enforcement switch at any time, also between the hook's two
reads of it.  History variables remember what was lost on the way, so
`LineageExact` says what the marks mean *except* for those losses.

`Deduper` -- Allow and SetWindow with the purge; `Engine` extends it with the
goroutine that takes records off the ring buffer: AnalyzeExec up to its first
answer, then one step per rule of the configuration it started with, the kill
as a step that may fail, reverse shells, deduplicated sensors, those that report
something prevented, and the recent-writes tables.  Reloads change the
configuration and, later, the window, anywhere in between.  A rule is the set of
files its expression matches; an alert's key is rule or sensor and pid, the
further parts of a sensor's key being part of the sensor's name.  Decoding is
abstracted to what a record leads to, possibly nothing (`Discard`).

`AuditLog` -- one audit logger as a value: queue, bufio.Writer, file, and the
operations of Log, the worker goroutine, a failed write and Close on it.
`SelfProtect` -- per worker process the attached links, self_pid and
protected_ids, registered one id after the other (maps, programs, then links, in
one number space, into a map that may be full), what lsm_task_kill and
lsm_bpf_cmd allow a caller, and what an outside process can do with bpf(2).
lsm_bpf_cmd compares the first word of the command with the registered ids: for
BPF_LINK_GET_FD_BY_ID that is the link's id (`GetLinkFd`), for BPF_LINK_DETACH it is
the caller's descriptor number (`Detach`), which says nothing about the link.  A
link is *sealed* (history) when, at the end of registration, it and the hook that
guards links are attached and registered and no outside process has a descriptor of
either; from then on none can get one.  `Supervisor` extends both:
runSupervisor's loop with its one-slot signal channel, and each worker's main
from loading and arming the hooks through the event loop to the deferred closes,
with crashes at every step, a disk that fills up, signals from PID 1, from the
supervisor and from others, and outside processes that get hold of links and detach
them.

`PathBuf` -- path buffers as keys of hash maps: what the daemon writes
(`pathToKey`), what the kernel's string and path helpers leave in a buffer,
get_safe_path's clean-up by bytes and words, and path_in_map's walk through the
directories of a path.  It is byte-level on purpose: whether a buffer is a key
depends on every byte behind the NUL, and `VerdictIsOwn` and `OpenJudged` are about
exactly these.  `Sensors` extends it with the programs of one CPU.  A
tracepoint program runs in one piece; an LSM program with a path is three steps
-- get_safe_path, lookup, answer -- so others may take the scratch buffer in
between (`own` remembers).  A path that does not fit is let through, with the
scratch buffer overwritten all the same (`PathTooLong`), and the exec hook may end
before the lists, with a reverse shell or a fileless payload (`EndsEarly`).  Of the
exec hook's lists only the one by prefix is here (`Denies`); the exact list and the
modes are in PolicySync, the conditions of the early ends in Lineage.  A record is its type, the decoded fields that its
program left as the reused memory had them, and its cgroup where the decoder acts
on it; the daemon adds the cgroups of namespace changes to container_cgroups, an
LRU hash that kernel module loads are judged by.

`DnsEgress` -- tc_egress_dns enters a query under resolver, port and id;
tc_ingress_dns on any CPU reserves a record, looks the key up and copies the
element, which a query on another CPU may meanwhile have taken (`torn`), deletes
the entry and submits or discards.  A packet is the sequence of its records, each an
address or something else, and whether its question can be skipped; the program
looks at two records and reports the first address it finds (`FirstAddr`), the
process learns all of them (`Addresses`).  Answers are lost, repeated and late.  The
four egress calls report destinations, any address the process has learnt; ProcessRawRecord keeps answers in a cache per
cgroup and address and in one per address, and names destinations from them.  The
reader stops at a record that is reserved and not submitted.

`MCPolicySync`, `MCSafeKill`, `MCLineage`, `MCEngine`, `MCSupervisor`,
`MCDnsEgress` and `MCSensors` give the constants their values; the other two
components get theirs from the .cfg.  The `...Proofs` modules hold the theorems of
the module they are named after, `ReloadProofs` those of `ConfigManager` and
`PolicySync`.  Operators marked `Mutant:` are faulty variants
of the definition they precede; they are not used by the specifications and show
that the properties depend on the code.

## Runs

| Run | What it shows |
|---|---|
| config | all races allowed: only accepted configurations are in force; the last edit is noticeable to the poller or in force, and comes into force without a signal, unless it met one of the losing races; a reload that met no other one or startup leaves all subscribers in step, even if one panics, and rolls nothing back; a SIGHUP repairs what a race lost, if no reload of an older file is under way when it is sent |
| config_sighup | a SIGHUP after the last edit is not always enough: a poller that had read the older file stores it after the SIGHUP goroutine (expected violation) |
| policy_sync | one applier and a concurrent hook: settled kernel state = last policy, a key both policies enforce denies throughout, nothing stray, a fitting policy is never refused |
| dispatcher | refinement of AlertDelivery, no send on a closed channel, each alert accounted for once, Close returns, a stuck sink harms only itself |
| safekill | protected processes survive, nobody is spared for an unverified binary, Sync trusts what it should and nothing else |
| lineage | suspicious marks are exactly what ran above a task, losses excepted; no redirected task execs under enforcement; uid 0 takes a setuid program |
| engine | alerts of one key are spaced by the smallest window, suppressed only if their like went out; a kill is demanded by the configuration the event was taken up with |
| supervisor | sealed links stay while their worker lives; a worker with a sealed task_kill link is stopped only by PID 1's signal; live workers out of the supervisor's sight are at most the SIGHUPs it took; every audited decision of a clean exit is in the file, unless a full queue dropped it (the code counts none of these) or a write failed; ended workers are noticed; a shutdown terminates |
| dns | a submitted answer names its packet's query and the cgroup that asked, torn reads excepted; an address that got a record in the buffer -- the first of its answer -- is named in every later call to it while the cache keeps it |
| sensors | a hook that was not preempted gives the verdict of the path lists; an open is judged by its path whatever the buffer held before; decoders see no field of an earlier record but the known ones; a namespace change leads to its cgroup's tracking, losses excepted |
| safekill_recycle | a pid reused before pidfd_open is hit (expected violation) |
| supervisor_stop | an armed worker's hook refuses the SIGTERM its supervisor forwards, and the supervisor waits for ever (expected violation) |

The type invariants are left to the proofs; only dns also checks its own, for the
bound of the ring buffer that the CPUs fill.

The violations are recorded under `findings` in `PROJECT.json` with the comment
or doc line they contradict.  One constant that a passing run keeps small is worth
enlarging: two `Appliers` in `PolicySync` -- the two overlapping reloads of
`ConfigManager` -- leave a mixture of two policies in the kernel.

### Bounds

- Configuration: two edits suffice for one to be lost or overtaken by another, and
  for an invalid file to come between; one subscriber may panic.
- Policy: two paths and two nested prefixes give every relation between keys
  (equal path, shorter and longer prefix, unrelated); policies have up to two of
  seven rules, which block or only audit, and two have enforcement off; the exact map has room for one entry so that an update can fail.
- Dispatcher: one dispatching goroutine, two sinks, two Closes and a queue of two
  with four alerts make queues full, drained and closed in every order.
- Kill guard: three files besides the system's share two further inode numbers, so
  reuse happens; one pid is reused once.  Inode numbers and the two trustworthy
  files are symmetric (only invariants are checked there).
- Lineage: two tasks (one is reused by forks, so chains of any depth arise), one
  program of each kind, a ring buffer of one record, so it is full whenever a
  record waits.
- Engine: one pid, two files, two configurations -- a shadow rule that the other
  turns into a BLOCK under the same name, with different windows, allowlist and
  switch -- a clock up to 3 and a purge above one entry, so windows grow and
  shrink around live entries and the purge runs.
- Supervisor: two workers (the second is a restart or a stray), two outside
  signals, an audit queue and a buffer of one record each with two records, so
  that both drop and flush happen; three programs and two links for a
  protected_ids of two entries, so that it is full, one update is refused and the
  links get in under numbers that programs share with them; descriptor numbers that
  are, and are not, among the registered ids.  A link that does not
  fit at all is covered by the proofs.
- DNS: two queries (one forwarded by the host) of two cgroups, two keys, two CPUs,
  a ring buffer of two records, two addresses, one repeated query or egress call, and
  answers with two addresses, with one behind an alias, with one behind two, and with
  a question that cannot be skipped.  CPUs and keys are
  symmetric (invariants only).
- Sensors: buffers of six bytes in words of two, with paths that end inside a word
  (`/a`), just fit (`/a/aa`) and do not fit (`/a/aaa`), one of the lists matching a
  directory; a ring buffer and an LRU hash of one entry each; two tasks in two
  cgroups, one of them on the host.

### Fairness

ConfigManager: weak fairness of startup, of the poller and of the SIGHUP goroutine
-- the ticker keeps firing and the Go scheduler runs every runnable goroutine;
nothing is assumed of the operator.  Dispatcher: a Dispatch or Close under way and
the workers run, and Send returns unless the sink is in `Stuck` (HTTP sinks have a
5 s timeout); nobody is forced to call anything.  Supervisor: weak fairness of the
supervisor's steps and of each worker's -- processes and goroutines that can run
do; signals, crashes, detach attempts and full disks are never forced.  Sensors:
the reader goroutine keeps reading.  DnsEgress states no liveness.

## Proofs

All for arbitrary constants that satisfy the modules' ASSUMEs.  Each proof module
starts with type correctness.

- `ReloadProofs`, on `ConfigManager`, all of it with poller, SIGHUP goroutine,
  startup and editor unrestrained: `OnlyAcceptedInForce` (type correctness here ties
  how far startup is to the number of registered subscribers); `SubscribersInStep`
  and `NoRollback` from `LoneInv`, which says what a reload that meets nothing has
  done so far, with `OrderInv` -- nothing is newer than the file; `EditNotLost` from
  `QuietInv`: as long as the last edit is quiet, a reload that carries an older file
  is past its Stat and alone, and once lastMod is the file's mtime every subscriber
  has the file or is about to be called with it.
  On `PolicySync`, with one applier (`Serial`): `SettledMatches` and
  `NoStrayEntry`, both except for maps that could not be read, `KeptRuleDenies` and
  `FittingPolicyInstalled`.  `SyncInv` says for each entry, depending on stage and phase, that it is the old policy's, the
  new one's or absent; `HookInv` that a hook which has passed the lookup of a key
  owes it no longer.
- `DispatcherProofs`: `NoSendOnClosedQueue`, and that Dispatcher implements
  AlertDelivery (`KeepsPromise`): initial states map to initial states and every
  step to a step or a stutter, with the alert in a worker's hand followed by its
  queue as what the sink is owed.  `DispatchInv` adds to the types that no queue is
  closed while a reader holds the lock (`ClosedTogether`), and that what was taken
  has a worker until it is sent, sinks being closed after the last of them
  (`WorkersStay`).  `AccountedOnce` counts the places of the alert being
  dispatched; it is inductive with `AccountInv`, which adds that no sink is
  registered twice (`NoneTwice`) and that an alert not dispatched yet is nowhere
  (`Unmade`).  `WorkersMove` shows that a worker only moves alerts from one place
  to the next, `EnqueueAdds` that a turn of Dispatch's loop adds exactly one.
- `SafeKillProofs`: `OnlyVerifiedTrusted` from `TrustInv` -- live files have
  distinct inodes and every trusted id belongs to a pin the Sync under way has
  finished with -- and `ProtectedNeverKilled` from `KillInv`: a protection that
  has lasted so far still holds, so the check that comes to it refuses.
  `ListedIsTrusted` needs to know what the Sync under way has done: `ListedInv`
  says that a path it is past, and that nobody has touched since it began, has its
  file's id in the set, and that what it holds open is what the path led to.
  `SparedIsVerified` follows from `SpareInv` -- the file a kill has looked up has
  the id it compares, and one it was refused for is verified as long as it is live
  -- with a lemma that a file which is gone never comes back (`DeadStaysDead`): a
  reused inode number is another file's.
- `LineageProofs`: all properties of the run, for any tasks, programs and buffer
  size.  `LineageExact` is inductive only together with `FreeClean` (a task that
  does not exist has left nothing behind, so a fork starts clean);
  `RedirectMarked` ties the flag in storage to the history of redirections, and
  `SetuidEarned` the permission to a setuid program let through at or above the
  task.
- `EngineProofs`: `DedupInv` relates the deduper's map to the alerts that passed
  -- an entry is the time of one of them, and an alert without its entry is older
  than the smallest window since -- which gives `AlertSpacing`; `SentInv` says
  that whatever the map has an entry for went out since, except while a kill for
  it is under way, which gives `SuppressedOnlyIfTold`; `LoopInv` says that the
  handler's copy is the configuration it took the event up with and that no
  program it allows is in the loop, which gives `KilledByRule`.
- `SupervisorProofs`: all four invariants of the run, for any number of workers,
  objects, ids, descriptor numbers and map sizes.  `SupInv` says of each worker that
  a sealed link's number is in its protected_ids, that no outside process has a
  descriptor of it, and that the guarding link is itself sealed (`SealHolds`) -- the
  detach, which is judged by a descriptor number, then has no descriptor to go by --, that its logger's records add up in every phase (`AuditHolds`),
  and that cmd names the newest worker (`CurIsNewest`); `StrayInv` counts the live
  workers cmd no longer names by the SIGHUPs that made them so.
- `SensorsProofs`: `NoForeignData`, `TrackedUnlessLost`, `VerdictIsOwn`,
  `ScratchIsOwn` and `OpenJudged`.  Underneath is a lemma on get_safe_path for every
  buffer and word size (`SafePathIsKey`: what it leaves is exactly the daemon's key
  of the path) and one that keys tell paths that fit apart (`KeyInjective`).  For
  `OpenJudged` the loop of path_in_map is compared with `Listed`
  (`PathInMapExact`).  `Walked` is the loop in closed form -- after m iterations the
  buffer is cut behind its first Size - m bytes, and the first hit is kept; it
  satisfies the recursion (`WalkedSteps`), and a least index where another solution
  differs cannot exist (`WalkIs`, with `LeastOf` from the well-foundedness of the
  natural numbers), so the loop computes it; its hits are the path and the
  directories above it (`HitIsListed`).
- `DnsEgressProofs`: all properties of the run, for any queries, keys, cgroups,
  CPUs and sizes.  `RingInv`: a program past its lookup holds exactly one reserved
  record, the one of its query (`Held`), which makes `Slot` name the right record.  `OriginInv`: an entry of the map is under the key
  its query left with, one of the values a program may read is the entry it looked
  up, and a record that is not torn is as that entry, which gives
  `AnswerOfItsQuery`; it holds because a query never changes its key.  `KnownInv`:
  every noted address, and that of every call after it was noted, is in the
  fallback cache, was let go by it, or is in an answer *further ahead* in the ring
  buffer, which gives `ConnectNamed`.

So every invariant and action property that a passing run checks, and the
refinement, is also a theorem.  Only model-checked: the liveness properties
(`EventuallyInForce`, `SighupRepairs`, `CloseTerminates`, `HealthySinksDrain`,
`EndedChildNoticed`, `ShutdownTerminates`, `NsChangeTracked`), since TLAPS 1.4.5
reasons about neither fairness nor ENABLED.  The three expected violations are TLC's
counterexamples.

## Where code and documents disagree

The three that a run shows are `findings`.  Others met while modelling:

- An edit between Load and Stat is recorded as loaded (`config.go:203`), so the
  poller never loads it; `docs/configuration.md:5`.  So is one that falls into a poll
  during startup, and a subscriber that has not registered yet misses it
  (`engine.go:49`).
- A longer AUDIT prefix shadows a shorter ENFORCE prefix (`helpers.h:176`), against
  the comment at `rules.go:302`.
- With the enforcement switch off the exec hook returns before it detects anything
  (`lsm.h:67`), against `docs/prevention.md:23`.
- The deduper suppresses kills and their audit records too (`engine.go:209`),
  against `docs/configuration.md:93`.
- The crash limit of the supervisor only logs (`main.go:138-144`), against
  `docs/prevention.md:51`; SIGHUP starts a second worker (`main.go:168-170`); the
  signal channel has one slot, so a SIGTERM behind a SIGHUP can be lost.
- `protected_ids` has 64 entries for about 81 objects, errors are ignored
  (`loader.go:591`, `600`, `618`), and maps, programs and links share one key space.
- For BPF_LINK_DETACH lsm_bpf_cmd looks a descriptor number up among these ids
  (`selfprotect.h:83-84` reads `link_id` where the command has `link_fd`), so whether
  it refuses depends on the number the caller happens to have, against
  `docs/prevention.md:30`; what protects a link is that no descriptor is handed out.
- A DNS answer can carry the name of another query whose element was reused while
  it was read, against "Deterministic pairing" (`docs/enrichment.md:34`); sendmmsg
  reports only the first message of a call (`docs/sensors.md:79`).
- tc_ingress_dns looks at two records and stops at the first address
  (`net.h:265-308`), against "parses A/AAAA records" (`docs/enrichment.md:41`): a
  connection to any other address of the answer has no name.
- A full audit queue drops records and nothing counts them (`audit.go:75`).
- `isFileless` (`exec.h:124`), `path_truncated` of memfd events and the file name of
  io_uring events are what the reused memory held; the target's name of
  process_vm_readv and writev is the caller's (`sys.h:139-145`).
- LSM hooks let through paths that do not fit the buffer, and preempted ones share
  `scratch->primary` (`types.h:195`).
- Any namespace change makes the daemon track the cgroup, also one of the host.

## Not modelled

- `bpf/include/vmlinux.h` and the generated Go files: generated declarations, 150415
  of the repository's 152492 lines of C.
- Kubernetes resolver: its caches only decorate alerts; the kubelet client is I/O.
- Alert store, telemetry, metrics, dashboard: appending to files, rotating them
  and serving them read-only.
- CEL and Sigma parsing, validation, formatting, the diff of two configurations
  (only logged).
- The SHA-256 cache (`hash.go:115` takes the identity before the file is opened), the
  process tree and LRU eviction of the correlator.
- In the engine: the order of allowlist, recent writes and the kernel's own verdict
  (`engine.go:151`), attribution of a denial to a rule of a newer configuration
  (`engine.go:260`), the audit record that precedes a kill (`engine.go:527`), and that
  a write is remembered under the writer's executable (`event.go:297`).
- In the loader: the ptrace allow list, whose old pins are closed before the kernel
  copy changes (`loader.go:522`), watch lists, tc filters and perf events.
- A list that names a path twice is outside `TrustSet`: if the file is replaced
  between the two occurrences in one Sync the old id stays trusted without a pin.

What would be worth adding next: Engine composed with PolicySync (records of the old
policy judged by the new configuration) and the ptrace allow list over TrustSet.
