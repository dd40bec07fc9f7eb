--------------------------- MODULE SensorsProofs ----------------------------
(* Proofs about the sensors of one CPU, for any paths, path lists, buffer  *)
(* and word size, tasks and cgroups: the scratch buffer and the verdicts   *)
(* of the LSM hooks, what a record holds, which cgroups are tracked, and   *)
(* which opens are reported.                                               *)
EXTENDS Sensors, FiniteSetTheorems, WellFoundedInduction, TLAPS

(* Rounding down to whole words.                                           *)
LEMMA RoundDown ==
    ASSUME NEW n \in Nat, NEW W \in Nat \ {0}
    PROVE  /\ n \div W \in Nat /\ (n \div W) * W \in Nat
           /\ (n \div W) * W <= n /\ n < (n \div W) * W + W
<1>1. n \div W \in Nat OBVIOUS
<1>2. (n \div W) * W <= n OBVIOUS
<1>3. n < (n \div W) * W + W OBVIOUS
<1>4. (n \div W) * W \in Nat BY <1>1
<1>5. QED BY <1>1, <1>2, <1>3, <1>4

(* A number of whole words that is not above n is not above n rounded down *)
(* to whole words.                                                         *)
LEMMA WholeWords ==
    ASSUME NEW n \in Nat, NEW k \in Nat, NEW W \in Nat \ {0}, k * W <= n
    PROVE  k * W <= (n \div W) * W
<1> DEFINE q == n \div W
<1>1. q \in Nat /\ n < q * W + W BY RoundDown
<1> HIDE DEF q
<1>2. q < k => q * W + W <= k * W BY <1>1
<1>3. k * W \in Nat /\ q * W \in Nat BY <1>1
<1>4. ~(q < k) BY <1>1, <1>2, <1>3
<1>5. k <= q BY <1>1, <1>4
<1>6. k * W <= q * W BY <1>1, <1>5
<1>7. QED BY <1>6 DEF q

(* get_safe_path leaves the path, and zeroes behind it, whatever           *)
(* bpf_d_path left at the end of the buffer and whatever the word size.    *)
LEMMA SafePathIsKey ==
    ASSUME NEW p \in Seq(Char), Fits(p)
    PROVE  get_safe_path(d_path(p), Len(p) + 1) = pathToKey(p)
<1> DEFINE ret == Len(p) + 1
<1> DEFINE k == (ret + Word - 1) \div Word
<1>w. Word \in Nat \ {0} /\ Size \in Nat \ {0} BY PathBufAssumption DEF PathBufAssumption
<1>r. ret \in Nat /\ ret >= 1 OBVIOUS
<1>n. ret + Word - 1 \in Nat BY <1>w, <1>r
<1>1. k \in Nat /\ k * Word \in Nat /\ ret + Word - 1 < k * Word + Word BY <1>w, <1>n, RoundDown
<1> HIDE DEF k, ret
<1>2. ret <= k * Word BY <1>w, <1>r, <1>1
<1>3. ASSUME NEW i \in Index
      PROVE  get_safe_path(d_path(p), ret)[i] = pathToKey(p)[i]
  <2>1. i \in Nat BY <1>w DEF Index
  <2>2. CASE i < ret
    <3>1. (i \div Word) * Word <= i /\ (i \div Word) * Word \in Nat BY <1>w, <2>1, RoundDown
    <3>2. ~((i \div Word) * Word >= k * Word) BY <1>r, <1>1, <1>2, <2>1, <2>2, <3>1
    <3>3. get_safe_path(d_path(p), ret)[i] = d_path(p)[i]
      BY <1>r, <2>1, <2>2, <3>2 DEF get_safe_path, k
    <3>4. ~(i > Len(p)) BY <2>1, <2>2 DEF ret
    <3>5. QED BY <3>3, <3>4 DEF d_path
  <2>3. CASE ~(i < ret)
    <3>1. pathToKey(p)[i] = Nul BY <2>1, <2>3 DEF pathToKey, ret
    <3>2. CASE i < k * Word
      BY <1>r, <1>1, <2>1, <2>3, <3>1, <3>2 DEF get_safe_path, k
    <3>3. CASE ~(i < k * Word)
      <4>0. k * Word <= i BY <1>1, <2>1, <3>3
      <4>1. k * Word <= (i \div Word) * Word BY <1>w, <1>1, <2>1, <4>0, WholeWords
      <4>2. (i \div Word) * Word \in Nat BY <1>w, <2>1, RoundDown
      <4>3. (i \div Word) * Word >= k * Word BY <1>1, <4>1, <4>2
      <4>4. QED BY <3>1, <4>3 DEF get_safe_path, k
    <3>4. QED BY <3>2, <3>3
  <2>4. QED BY <2>2, <2>3
<1>4. get_safe_path(d_path(p), ret) = [i \in Index |-> get_safe_path(d_path(p), ret)[i]]
  BY DEF get_safe_path
<1>5. pathToKey(p) = [i \in Index |-> pathToKey(p)[i]] BY DEF pathToKey
<1>6. QED BY <1>3, <1>4, <1>5 DEF ret

(* Two paths with one key are equal if one of them fits.                   *)
LEMMA KeyInjective ==
    ASSUME NEW p \in Seq(Char), NEW q \in Seq(Char), Fits(p), pathToKey(p) = pathToKey(q)
    PROVE  p = q
<1>a. Size \in Nat \ {0} /\ Nul \notin Char BY PathBufAssumption DEF PathBufAssumption
<1>1. \A i \in Index : (IF i < Len(p) THEN p[i + 1] ELSE Nul) = (IF i < Len(q) THEN q[i + 1] ELSE Nul)
  BY DEF pathToKey
<1>2. Len(p) \in Index BY <1>a DEF Fits, Index
<1>3. Len(q) <= Len(p)
  <2>1. Len(p) < Len(q) => q[Len(p) + 1] \in Char OBVIOUS
  <2>2. QED BY <1>a, <1>1, <1>2, <2>1
<1>4. Len(q) \in Index BY <1>a, <1>2, <1>3 DEF Index
<1>5. Len(p) <= Len(q)
  <2>1. Len(q) < Len(p) => p[Len(q) + 1] \in Char OBVIOUS
  <2>2. QED BY <1>a, <1>1, <1>4, <2>1
<1>6. Len(p) = Len(q) BY <1>3, <1>5
<1>7. \A i \in 1..Len(p) : p[i] = q[i]
  <2>1. SUFFICES ASSUME NEW i \in 1..Len(p) PROVE p[i] = q[i] OBVIOUS
  <2>2. i - 1 \in Index /\ i - 1 < Len(p) /\ (i - 1) + 1 = i BY <1>a, <1>2 DEF Index
  <2>3. QED BY <1>1, <1>6, <2>2
<1>8. QED BY <1>6, <1>7

(* The string in a buffer that starts with a path and its NUL.             *)
LEMMA StringIn ==
    ASSUME NEW p \in Seq(Char), Len(p) \in Index, NEW b, b[Len(p)] = Nul,
           \A i \in Index : i < Len(p) => b[i] = p[i + 1]
    PROVE  StringOf(b) = p
<1> DEFINE ends == {i \in Index : b[i] = Nul}
<1> DEFINE n == CHOOSE i \in ends : \A j \in ends : i <= j
<1>a. Size \in Nat \ {0} /\ Nul \notin Char BY PathBufAssumption DEF PathBufAssumption
<1>1. Len(p) \in ends OBVIOUS
<1>2. \A j \in ends : j \in Nat /\ Len(p) <= j
  <2>1. SUFFICES ASSUME NEW j \in Index, j < Len(p) PROVE b[j] # Nul
    BY <1>a DEF Index
  <2>2. j + 1 \in 1..Len(p) BY <2>1, <1>a DEF Index
  <2>3. p[j + 1] \in Char BY <2>2
  <2>4. QED BY <1>a, <2>1, <2>3
<1>3. n \in ends /\ \A j \in ends : n <= j
  <2>1. \E i \in ends : \A j \in ends : i <= j BY <1>1, <1>2
  <2> HIDE DEF ends
  <2>2. QED BY <2>1
<1> HIDE DEF n, ends
<1>4. n = Len(p) BY <1>1, <1>2, <1>3
<1>5. StringOf(b) = [i \in 1..n |-> b[i - 1]] BY DEF StringOf, n, ends
<1>6. \A i \in 1..Len(p) : b[i - 1] = p[i]
  <2>1. SUFFICES ASSUME NEW i \in 1..Len(p) PROVE b[i - 1] = p[i] OBVIOUS
  <2>2. i - 1 \in Index /\ i - 1 < Len(p) /\ (i - 1) + 1 = i BY <1>a DEF Index
  <2>3. QED BY <2>2
<1>7. p = [i \in 1..Len(p) |-> p[i]] OBVIOUS
<1>8. QED BY <1>4, <1>5, <1>6, <1>7

(* The string in the key of a path that fits is the path.                  *)
LEMMA StringOfKey ==
    ASSUME NEW p \in Seq(Char), Fits(p) PROVE StringOf(pathToKey(p)) = p
<1>a. Size \in Nat \ {0} BY PathBufAssumption DEF PathBufAssumption
<1>1. Len(p) \in Index /\ pathToKey(p)[Len(p)] = Nul BY <1>a DEF Fits, Index, pathToKey
<1>2. \A i \in Index : i < Len(p) => pathToKey(p)[i] = p[i + 1] BY DEF pathToKey
<1>3. QED BY <1>1, <1>2, StringIn

-----------------------------------------------------------------------------
(* A record that a decoder may take as it is, and a ring buffer of them.   *)
GoodRecord(r) ==
    /\ r \in Records /\ r.unset \subseteq Unfilled(r.type)
    /\ r.type = "NS_CHANGE" => r.cgroup \in Cgroup
GoodBuffer(b) == b \in Seq(Records) /\ Len(b) <= RingSize /\ \A i \in DOMAIN b : GoodRecord(b[i])

(* A program that fills all but the excepted fields makes a good record.   *)
LEMMA RecordGood ==
    ASSUME NEW type \in DOMAIN Decoded, NEW filled, NEW c \in Cgroup \cup {Nil},
           type = "NS_CHANGE" => c \in Cgroup,
           Decoded[type] \ filled \subseteq Unfilled(type)
    PROVE  GoodRecord(Record(type, filled, c))
<1> DEFINE r == Record(type, filled, c)
<1> DEFINE all == UNION {Decoded[x] : x \in DOMAIN Decoded}
<1>1. r = [type |-> type, unset |-> Decoded[type] \ filled, cgroup |-> c] BY DEF Record
<1>2. Decoded[type] \ filled \in SUBSET all OBVIOUS
<1>3. Records = [type : DOMAIN Decoded, unset : SUBSET all, cgroup : Cgroup \cup {Nil}]
  BY DEF Records
<1> HIDE DEF r, all
<1>4. r \in Records BY <1>1, <1>2, <1>3
<1>5. QED BY <1>1, <1>4 DEF GoodRecord, r

(* Put keeps what is in the ring buffer and adds at most the one record.   *)
LEMMA PutGood ==
    ASSUME NEW b, GoodBuffer(b), NEW r, GoodRecord(r)
    PROVE  /\ GoodBuffer(Put(b, r))
           /\ \A i \in DOMAIN b : i \in DOMAIN Put(b, r) /\ Put(b, r)[i] = b[i]
           /\ Len(b) < RingSize =>
                 Len(b) + 1 \in DOMAIN Put(b, r) /\ Put(b, r)[Len(b) + 1] = r
<1>1. b \in Seq(Records) /\ r \in Records /\ RingSize \in Nat
  BY SensorsAssumption DEF SensorsAssumption, GoodBuffer, GoodRecord
<1>2. CASE Len(b) < RingSize
  <2>1. Put(b, r) = Append(b, r) BY <1>2 DEF Put
  <2>2. /\ Append(b, r) \in Seq(Records) /\ Len(Append(b, r)) = Len(b) + 1
        /\ DOMAIN Append(b, r) = 1..(Len(b) + 1) /\ DOMAIN b = 1..Len(b)
        /\ Append(b, r)[Len(b) + 1] = r /\ \A i \in 1..Len(b) : Append(b, r)[i] = b[i]
    BY <1>1
  <2>3. Len(Append(b, r)) <= RingSize BY <1>1, <1>2, <2>2
  <2>4. \A i \in DOMAIN Append(b, r) : GoodRecord(Append(b, r)[i])
    <3>1. SUFFICES ASSUME NEW i \in DOMAIN Append(b, r) PROVE GoodRecord(Append(b, r)[i]) OBVIOUS
    <3>2. i = Len(b) + 1 \/ i \in 1..Len(b) BY <1>1, <2>2
    <3>3. QED BY <2>2, <3>2 DEF GoodBuffer
  <2>5. QED BY <1>1, <2>1, <2>2, <2>3, <2>4 DEF GoodBuffer
<1>3. CASE ~(Len(b) < RingSize) BY <1>3 DEF Put
<1>4. QED BY <1>2, <1>3

-----------------------------------------------------------------------------
(* The hooks and the scratch buffer: a hook past get_safe_path has a path  *)
(* that fits, and finds it in the buffer unless it was preempted.          *)
HookHolds(h) ==
    h # Idle => Fits(h.path) /\ (h.own => primary = pathToKey(h.path))
HookInv ==
    /\ primary \in Buffer /\ hook \in [Task -> Hooks]
    /\ \A t \in Task : HookHolds(hook[t])

RingInv == GoodBuffer(rb)

(* The cgroups.                                                            *)
TrackInv ==
    /\ containers \subseteq Cgroup /\ changed \subseteq Cgroup /\ lost \subseteq Cgroup
    /\ IsFiniteSet(containers) /\ Cardinality(containers) <= MaxTracked
    /\ TrackedUnlessLost

SensInv == HookInv /\ RingInv /\ TrackInv

(* Nothing is in the buffers at first.                                     *)
LEMMA SensInitially == Init => SensInv
<1> SUFFICES ASSUME Init PROVE SensInv OBVIOUS
<1> USE PathBufAssumption, SensorsAssumption DEF PathBufAssumption, SensorsAssumption, Init
<1>1. HookInv BY DEF HookInv, HookHolds, Buffer, Zeroed, Hooks
<1>2. RingInv
  <2>1. <<>> \in Seq(Records) /\ Len(<<>>) = 0 /\ DOMAIN <<>> = {} OBVIOUS
  <2>2. 0 <= RingSize OBVIOUS
  <2>3. QED BY <2>1, <2>2 DEF RingInv, GoodBuffer
<1>3. TrackInv BY FS_EmptySet DEF TrackInv, TrackedUnlessLost
<1>4. QED BY <1>1, <1>2, <1>3 DEF SensInv

(* A key and what bpf_probe_read_str leaves are buffers.                   *)
LEMMA BufferTypes ==
    ASSUME NEW p \in Seq(Char)
    PROVE  pathToKey(p) \in Buffer /\ \A b \in Buffer : ReadStr(b, p) \in Buffer
<1>a. Size \in Nat \ {0} BY PathBufAssumption DEF PathBufAssumption
<1>i. Index \subseteq Nat BY <1>a DEF Index
<1>1. pathToKey(p) \in Buffer
  <2>1. \A i \in Index : (IF i < Len(p) THEN p[i + 1] ELSE Nul) \in Char \cup {Nul}
    <3>1. SUFFICES ASSUME NEW i \in Index, i < Len(p) PROVE p[i + 1] \in Char OBVIOUS
    <3>2. i + 1 \in 1..Len(p) BY <1>i, <3>1
    <3>3. QED BY <3>2
  <2>2. QED BY <2>1 DEF pathToKey, Buffer
<1>2. ASSUME NEW b \in Buffer PROVE ReadStr(b, p) \in Buffer
  <2>1. \A i \in Index : ReadStr(b, p)[i] \in Char \cup {Nul}
    <3>1. SUFFICES ASSUME NEW i \in Index PROVE ReadStr(b, p)[i] \in Char \cup {Nul} OBVIOUS
    <3>2. CASE i < StrLen(p) - 1
      <4>1. i + 1 \in 1..Len(p) BY <1>a, <1>i, <3>2 DEF StrLen
      <4>2. p[i + 1] \in Char BY <4>1
      <4>3. QED BY <3>2, <4>2 DEF ReadStr
    <3>3. CASE ~(i < StrLen(p) - 1) BY <3>3 DEF ReadStr, Buffer
    <3>4. QED BY <3>2, <3>3
  <2>2. ReadStr(b, p) = [i \in Index |-> ReadStr(b, p)[i]] BY DEF ReadStr
  <2>3. QED BY <2>1, <2>2 DEF Buffer
<1>3. QED BY <1>1, <1>2

(* Whoever writes the scratch buffer takes it from all others.             *)
LEMMA ScratchKeeps ==
    ASSUME HookInv, NEW b \in Buffer, Scratch(b) PROVE HookInv'
<1>1. \A t \in Task : hook'[t] = Overwritten(hook[t]) BY DEF Scratch
<1>2. ASSUME NEW t \in Task PROVE hook'[t] \in Hooks /\ HookHolds(hook[t])'
  <2>1. CASE hook[t] = Idle BY <1>1, <2>1 DEF Overwritten, Hooks, HookHolds
  <2>2. CASE hook[t] # Idle
    <3>1. hook'[t] = [hook[t] EXCEPT !.own = FALSE] BY <1>1, <2>2 DEF Overwritten
    <3>2. hook[t] \in [at : {"lookup", "deny"}, prog : {"file_open", "bprm_check"}, path : Path, own : BOOLEAN]
      BY <2>2 DEF HookInv, Hooks
    <3>3. hook'[t] \in Hooks BY <3>1, <3>2 DEF Hooks
    <3>4. hook'[t].path = hook[t].path /\ ~hook'[t].own BY <3>1, <3>2
    <3>5. Fits(hook[t].path) BY <2>2 DEF HookInv, HookHolds
    <3>6. QED BY <3>3, <3>4, <3>5 DEF HookHolds, Fits
  <2>3. QED BY <2>1, <2>2
<1>3. hook' = [t \in Task |-> hook'[t]] BY DEF Scratch
<1>4. primary' \in Buffer BY DEF Scratch
<1>5. QED BY <1>2, <1>3, <1>4 DEF HookInv

(* What stays in the ring buffer is still pending.                         *)
LEMMA TrackGrows ==
    ASSUME TrackInv, \A i \in DOMAIN rb : i \in DOMAIN rb' /\ rb'[i] = rb[i],
           UNCHANGED <<containers, changed, lost>>
    PROVE  TrackInv'
<1>1. \A c \in Cgroup : Pending(c) => Pending(c)' BY DEF Pending
<1>2. TrackedUnlessLost' BY <1>1 DEF TrackInv, TrackedUnlessLost
<1>3. QED BY <1>2 DEF TrackInv

(* A program that reports.                                                 *)
LEMMA ReportKeeps ==
    ASSUME RingInv, TrackInv, NEW type \in DOMAIN Decoded \ {"NS_CHANGE"}, NEW filled,
           Decoded[type] \ filled \subseteq Unfilled(type),
           Report(type, filled), UNCHANGED <<containers, changed, lost>>
    PROVE  RingInv' /\ TrackInv'
<1> DEFINE r == Record(type, filled, Nil)
<1>1. GoodRecord(r) BY RecordGood
<1>2. rb' = Put(rb, r) BY DEF Report
<1> HIDE DEF r
<1>3. GoodBuffer(rb') /\ \A i \in DOMAIN rb : i \in DOMAIN rb' /\ rb'[i] = rb[i]
  BY <1>1, <1>2, PutGood DEF RingInv
<1>4. QED BY <1>3, TrackGrows DEF RingInv

(* A program that does nothing but report.                                 *)
LEMMA EmitKeeps ==
    ASSUME SensInv, NEW type \in DOMAIN Decoded \ {"NS_CHANGE"}, NEW filled,
           Decoded[type] \ filled \subseteq Unfilled(type), Emit(type, filled)
    PROVE  SensInv'
<1>1. Report(type, filled) /\ UNCHANGED <<primary, hook, containers, changed, lost>> BY DEF Emit
<1>2. RingInv' /\ TrackInv' BY <1>1, ReportKeeps DEF SensInv
<1>3. HookInv' BY <1>1 DEF SensInv, HookInv, HookHolds
<1>4. QED BY <1>2, <1>3 DEF SensInv

(* AddContainerCgroup tracks its cgroup and notes what it evicts.          *)
LEMMA AddKeeps ==
    ASSUME TrackInv, NEW c \in Cgroup, AddContainerCgroup(c), UNCHANGED changed
    PROVE  /\ containers' \subseteq Cgroup /\ lost' \subseteq Cgroup
           /\ IsFiniteSet(containers') /\ Cardinality(containers') <= MaxTracked
           /\ c \in containers'
           /\ \A d \in Cgroup \ {c} : d \in containers \cup lost => d \in containers' \cup lost'
<1>m. MaxTracked \in Nat \ {0} BY SensorsAssumption DEF SensorsAssumption
<1>1. PICK v \in SUBSET (containers \ {c}) :
        /\ IF Cardinality(containers \cup {c}) <= MaxTracked THEN v = {} ELSE Cardinality(v) = 1
        /\ containers' = (containers \ v) \cup {c}
        /\ lost' = (lost \cup v) \ {c}
  BY DEF AddContainerCgroup
<1>2. IsFiniteSet(containers) /\ Cardinality(containers) \in Nat BY FS_CardinalityType DEF TrackInv
<1>3. IsFiniteSet(containers \ v) BY <1>2, FS_Subset
<1>4. IsFiniteSet(containers') BY <1>1, <1>3, FS_AddElement
<1>5. Cardinality(containers') <= MaxTracked
  <2>1. CASE Cardinality(containers \cup {c}) <= MaxTracked
    <3>1. containers' = containers \cup {c} BY <1>1, <2>1
    <3>2. QED BY <2>1, <3>1
  <2>2. CASE ~(Cardinality(containers \cup {c}) <= MaxTracked)
    <3>1. IsFiniteSet(v) /\ Cardinality(v) = 1 BY <1>1, <1>2, <2>2, FS_Subset
    <3>2. PICK x : v = {x} BY <3>1, FS_Singleton
    <3>3. x \in containers BY <3>2
    <3>4. Cardinality(containers \ {x}) = Cardinality(containers) - 1
      BY <1>2, <3>3, FS_RemoveElement
    <3>5. Cardinality((containers \ {x}) \cup {c}) <= Cardinality(containers \ {x}) + 1
      <4>1. IsFiniteSet(containers \ {x}) BY <1>3, <3>2
      <4>2. Cardinality(containers \ {x}) \in Nat BY <4>1, FS_CardinalityType
      <4>3. QED BY <4>1, <4>2, FS_AddElement
    <3>6. Cardinality((containers \ {x}) \cup {c}) \in Nat
      BY <1>1, <1>4, <3>2, FS_CardinalityType
    <3>7. Cardinality(containers) <= MaxTracked BY DEF TrackInv
    <3>8. QED BY <1>1, <1>2, <1>m, <3>2, <3>4, <3>5, <3>6, <3>7
  <2>3. QED BY <2>1, <2>2
<1>6. QED BY <1>1, <1>4, <1>5 DEF TrackInv

(* What bpf_d_path leaves of a path that does not fit.                     *)
LEMMA FailedTyped ==
    ASSUME NEW p \in Seq(Char), ~Fits(p)
    PROVE  d_path_fails(p) \in Buffer
<1>a. Size \in Nat \ {0} BY PathBufAssumption DEF PathBufAssumption
<1>1. ASSUME NEW i \in Index, i < Size - 1 PROVE p[Len(p) + i + 2 - Size] \in Char
  <2>1. i \in Nat /\ Len(p) \in Nat BY <1>a DEF Index
  <2>2. Len(p) + i + 2 - Size \in 1..Len(p) BY <1>a, <1>1, <2>1 DEF Fits
  <2>3. QED BY <2>2
<1>2. QED BY <1>1 DEF d_path_fails, Buffer

(* Every step keeps the invariant.                                         *)
LEMMA SensInductive == SensInv /\ [Next]_vars => SensInv'
<1> SUFFICES ASSUME SensInv, [Next]_vars PROVE SensInv' OBVIOUS
<1>t. HookInv /\ RingInv /\ TrackInv BY DEF SensInv
<1>p. \A p \in Path : p \in Seq(Char) BY SensorsAssumption DEF SensorsAssumption
<1>z. Zeroed \in Buffer BY DEF Zeroed, Buffer
<1>u. ASSUME UNCHANGED <<primary, hook>> PROVE HookInv' BY <1>t, <1>u DEF HookInv, HookHolds
<1>1. ASSUME \/ tp_ptrace \/ tp_setuid \/ tp_init_module \/ tp_io_uring_submit_req
             \/ on_branch_mispredict \/ check_rwx_violation \/ bpf_prog_load \/ kguard_task_fix_setuid
      PROVE  SensInv'
  <2>1. CASE tp_ptrace BY <2>1, EmitKeeps DEF tp_ptrace, Decoded
  <2>2. CASE tp_setuid BY <2>2, EmitKeeps DEF tp_setuid, Decoded
  <2>3. CASE tp_init_module BY <2>3, EmitKeeps DEF tp_init_module, Decoded
  <2>4. CASE tp_io_uring_submit_req
    <3>1. "IO_URING" \in DOMAIN Decoded /\ Decoded["IO_URING"] \ {"opcode"} \subseteq Unfilled("IO_URING")
      BY DEF Decoded, Unfilled
    <3>2. QED BY <2>4, <3>1, EmitKeeps DEF tp_io_uring_submit_req
  <2>5. CASE on_branch_mispredict
    <3>1. "BRANCH_MISPREDICT" \in DOMAIN Decoded
          /\ Decoded["BRANCH_MISPREDICT"] \ {"mispred_count"} \subseteq Unfilled("BRANCH_MISPREDICT")
      BY DEF Decoded
    <3>2. QED BY <2>5, <3>1, EmitKeeps DEF on_branch_mispredict
  <2>6. CASE check_rwx_violation
    <3>1. "RWX_VIOLATION" \in DOMAIN Decoded
          /\ Decoded["RWX_VIOLATION"] \ {"req_prot", "prot"} \subseteq Unfilled("RWX_VIOLATION")
      BY DEF Decoded
    <3>2. QED BY <2>6, <3>1, EmitKeeps DEF check_rwx_violation
  <2>7. CASE bpf_prog_load
    <3>1. "BPF_PROG_LOAD" \in DOMAIN Decoded
          /\ Decoded["BPF_PROG_LOAD"] \ {"prog_type", "attach_type", "prog_name"} \subseteq Unfilled("BPF_PROG_LOAD")
      BY DEF Decoded
    <3>2. QED BY <2>7, <3>1, EmitKeeps DEF bpf_prog_load
  <2>8. CASE kguard_task_fix_setuid
    <3>1. "LPE_BLOCKED" \in DOMAIN Decoded
          /\ Decoded["LPE_BLOCKED"] \ {"old_uid", "new_uid"} \subseteq Unfilled("LPE_BLOCKED")
      BY DEF Decoded
    <3>2. QED BY <2>8, <3>1, EmitKeeps DEF kguard_task_fix_setuid
  <2>9. QED BY <1>1, <2>1, <2>2, <2>3, <2>4, <2>5, <2>6, <2>7, <2>8
<1>2. ASSUME NEW type \in {"VM_READ", "VM_WRITE"}, emit_vm_rw_event(type) PROVE SensInv'
  <2>1. type \in DOMAIN Decoded
        /\ Decoded[type] \ {"target_pid", "nr_segs", "target_comm"} \subseteq Unfilled(type)
    BY DEF Decoded
  <2>2. QED BY <1>2, <2>1, EmitKeeps DEF emit_vm_rw_event
<1>3. ASSUME NEW type \in {"CONNECT", "SENDTO"}, NEW f \in {"inet", "inet6", "unix"}, egress(type, f)
      PROVE  SensInv'
  <2>1. type \in DOMAIN Decoded /\ Decoded[type] = AddrFields BY DEF Decoded
  <2>2. AddrFields \subseteq {"family"} \cup ZeroedFirst BY DEF AddrFields, ZeroedFirst
  <2>3. Decoded[type] \ ({"family"} \cup ZeroedFirst \cup FamilyFields(f)) \subseteq Unfilled(type)
    BY <2>1, <2>2
  <2>4. QED BY <1>3, <2>1, <2>3, EmitKeeps DEF egress
<1>4. ASSUME NEW p \in Path, NEW w \in BOOLEAN, tp_openat(p, w) PROVE SensInv'
  <2> DEFINE buf == read_path(primary, p).buf
  <2> DEFINE events == OpenEvents(buf, w)
  <2> DEFINE sens == Record("SENSITIVE_WRITE", {"filename", "path_truncated"}, Nil)
  <2> DEFINE open == Record("OPEN_SENSITIVE", {"filename", "path_truncated"}, Nil)
  <2> DEFINE mid == IF "SENSITIVE_WRITE" \in events THEN Put(rb, sens) ELSE rb
  <2>1. buf \in Buffer
    <3>1. buf = ReadStr(primary, p) BY DEF read_path
    <3>2. QED BY <1>p, <1>t, <3>1, BufferTypes DEF HookInv
  <2>2. Scratch(buf) /\ UNCHANGED <<containers, changed, lost>> BY <1>4 DEF tp_openat
  <2>3. rb' = IF "OPEN_SENSITIVE" \in events THEN Put(mid, open) ELSE mid
    BY <1>4 DEF tp_openat, handle_open_checks
  <2>4. GoodRecord(sens) /\ GoodRecord(open)
    <3>1. /\ "SENSITIVE_WRITE" \in DOMAIN Decoded /\ "OPEN_SENSITIVE" \in DOMAIN Decoded
          /\ Decoded["SENSITIVE_WRITE"] = {"filename", "path_truncated"}
          /\ Decoded["OPEN_SENSITIVE"] = {"filename", "path_truncated"}
      BY DEF Decoded
    <3>2. QED BY <3>1, RecordGood
  <2> HIDE DEF sens, open, events, buf
  <2>5. GoodBuffer(mid) /\ \A i \in DOMAIN rb : i \in DOMAIN mid /\ mid[i] = rb[i]
    BY <1>t, <2>4, PutGood DEF RingInv
  <2> HIDE DEF mid
  <2>6. GoodBuffer(rb') /\ \A i \in DOMAIN mid : i \in DOMAIN rb' /\ rb'[i] = mid[i]
    BY <2>3, <2>4, <2>5, PutGood
  <2>7. TrackInv' BY <1>t, <2>2, <2>5, <2>6, TrackGrows
  <2>8. HookInv' BY <1>t, <2>1, <2>2, ScratchKeeps
  <2>9. QED BY <2>6, <2>7, <2>8 DEF SensInv, RingInv
<1>5. ASSUME NEW p \in Path, tp_memfd_create(p) PROVE SensInv'
  <2>1. "MEMFD" \in DOMAIN Decoded /\ Decoded["MEMFD"] \ {"filename"} \subseteq Unfilled("MEMFD")
    BY DEF Decoded, Unfilled
  <2>2. RingInv' /\ TrackInv' BY <1>t, <1>5, <2>1, ReportKeeps DEF tp_memfd_create
  <2>3. ReadStr(Zeroed, p) \in Buffer BY <1>p, <1>z, BufferTypes
  <2>4. HookInv' BY <1>t, <1>5, <2>3, ScratchKeeps DEF tp_memfd_create
  <2>5. QED BY <2>2, <2>4 DEF SensInv
<1>6. ASSUME NEW p \in Path, NEW args \in Args, tp_schedexec(p, args) PROVE SensInv'
  <2>1. "EXEC" \in DOMAIN Decoded
        /\ Decoded["EXEC"] \ ({"filename", "path_truncated"} \cup args) \subseteq Unfilled("EXEC")
    BY DEF Decoded, ExecFields, Unfilled
  <2>2. RingInv' /\ TrackInv' BY <1>t, <1>6, <2>1, ReportKeeps DEF tp_schedexec
  <2>3. ReadStr(Zeroed, p) \in Buffer BY <1>p, <1>z, BufferTypes
  <2>4. HookInv' BY <1>t, <1>6, <2>3, ScratchKeeps DEF tp_schedexec
  <2>5. QED BY <2>2, <2>4 DEF SensInv
<1>7. ASSUME NEW t \in Task, NEW p \in Path, NEW prog \in {"file_open", "bprm_check"}, SafePath(t, prog, p)
      PROVE  SensInv'
  <2> DEFINE own == [at |-> "lookup", prog |-> prog, path |-> p, own |-> TRUE]
  <2> DEFINE others == [u \in Task |-> Overwritten(hook[u])]
  <2>1. primary' = pathToKey(p) /\ Fits(p) BY <1>7, <1>p, SafePathIsKey DEF SafePath
  <2>2. hook' = [others EXCEPT ![t] = own] /\ UNCHANGED <<rb, containers, changed, lost>>
    BY <1>7 DEF SafePath
  <2>3. pathToKey(p) \in Buffer BY <1>p, BufferTypes
  <2>4. own \in Hooks BY DEF Hooks
  <2>5. own.own /\ own.path = p OBVIOUS
  <2>6. ASSUME NEW u \in Task, u # t PROVE hook'[u] \in Hooks /\ HookHolds(hook[u])'
    <3>1. hook'[u] = Overwritten(hook[u]) BY <2>2, <2>6
    <3>2. CASE hook[u] = Idle BY <3>1, <3>2 DEF Overwritten, Hooks, HookHolds
    <3>3. CASE hook[u] # Idle
      <4>1. hook'[u] = [hook[u] EXCEPT !.own = FALSE] BY <3>1, <3>3 DEF Overwritten
      <4>2. hook[u] \in [at : {"lookup", "deny"}, prog : {"file_open", "bprm_check"}, path : Path, own : BOOLEAN]
        BY <1>t, <3>3 DEF HookInv, Hooks
      <4>3. hook'[u] \in Hooks BY <4>1, <4>2 DEF Hooks
      <4>4. hook'[u].path = hook[u].path /\ ~hook'[u].own BY <4>1, <4>2
      <4>5. Fits(hook[u].path) BY <1>t, <3>3 DEF HookInv, HookHolds
      <4>6. QED BY <4>3, <4>4, <4>5 DEF HookHolds, Fits
    <3>4. QED BY <3>2, <3>3
  <2>7. hook'[t] = own BY <2>2
  <2> HIDE DEF own
  <2>8. hook'[t] \in Hooks /\ HookHolds(hook[t])' BY <2>1, <2>4, <2>5, <2>7 DEF HookHolds, Fits
  <2>9. hook' = [u \in Task |-> hook'[u]] BY <2>2
  <2>10. \A u \in Task : hook'[u] \in Hooks /\ HookHolds(hook[u])' BY <2>6, <2>8
  <2>11. HookInv' BY <2>1, <2>3, <2>9, <2>10 DEF HookInv
  <2>12. RingInv' /\ TrackInv' BY <1>t, <2>2 DEF RingInv, TrackInv, TrackedUnlessLost, Pending
  <2>13. QED BY <2>11, <2>12 DEF SensInv
<1>8. ASSUME NEW t \in Task, PathLookup(t) \/ \E a \in Args : Deny(t, a) PROVE HookInv'
  <2>1. hook[t] # Idle /\ UNCHANGED primary /\ hook[t] \in Hooks
    <3>1. hook[t].at # "idle" /\ UNCHANGED primary BY <1>8 DEF PathLookup, Deny
    <3>2. Idle.at = "idle" BY DEF Idle
    <3>3. QED BY <1>t, <3>1, <3>2 DEF HookInv
  <2>2. hook[t] \in [at : {"lookup", "deny"}, prog : {"file_open", "bprm_check"}, path : Path, own : BOOLEAN]
    BY <2>1 DEF Hooks
  <2>3. \A u \in Task : u # t => hook'[u] = hook[u] BY <1>t, <1>8 DEF PathLookup, Deny, HookInv
  <2>4. hook' = [u \in Task |-> hook'[u]] BY <1>t, <1>8 DEF PathLookup, Deny, HookInv
  <2>5. hook'[t] = Idle \/ hook'[t] = [hook[t] EXCEPT !.at = "deny"]
    BY <1>t, <1>8 DEF PathLookup, Deny, HookInv
  <2>6. CASE hook'[t] = Idle
    BY <1>t, <2>1, <2>3, <2>4, <2>6 DEF HookInv, HookHolds, Hooks
  <2>7. CASE hook'[t] = [hook[t] EXCEPT !.at = "deny"]
    <3>1. hook'[t] \in Hooks BY <2>2, <2>7 DEF Hooks
    <3>2. hook'[t].path = hook[t].path /\ (hook'[t].own <=> hook[t].own) BY <2>2, <2>7
    <3>3. HookHolds(hook[t]) BY <1>t DEF HookInv
    <3>4. HookHolds(hook[t])' BY <2>1, <3>2, <3>3 DEF HookHolds, Fits
    <3>5. \A u \in Task : HookHolds(hook[u])' BY <1>t, <2>1, <2>3, <3>4 DEF HookInv, HookHolds
    <3>6. \A u \in Task : hook'[u] \in Hooks BY <1>t, <2>3, <3>1 DEF HookInv
    <3>7. QED BY <1>t, <2>1, <2>4, <3>5, <3>6 DEF HookInv
  <2>8. QED BY <2>5, <2>6, <2>7
<1>9. ASSUME NEW t \in Task, PathLookup(t) PROVE SensInv'
  <2>1. RingInv' /\ TrackInv'
    BY <1>t, <1>9 DEF PathLookup, RingInv, TrackInv, TrackedUnlessLost, Pending
  <2>2. QED BY <1>8, <1>9, <2>1 DEF SensInv
<1>10. ASSUME NEW t \in Task, NEW a \in Args, Deny(t, a) PROVE SensInv'
  <2> DEFINE type == IF hook[t].prog = "file_open" THEN "BLOCKED_WRITE" ELSE "EXEC_BLOCKED"
  <2> DEFINE filled == Emitted(a)
  <2>1. type \in DOMAIN Decoded \ {"NS_CHANGE"} /\ Decoded[type] \ filled \subseteq Unfilled(type)
    BY DEF Decoded, ExecFields, Unfilled, Emitted
  <2>2. Report(type, filled) /\ UNCHANGED <<containers, changed, lost>> BY <1>10 DEF Deny
  <2> HIDE DEF type, filled
  <2>3. RingInv' /\ TrackInv' BY <1>t, <2>1, <2>2, ReportKeeps
  <2>4. QED BY <1>8, <1>10, <2>3 DEF SensInv
<1>11. ASSUME NEW t \in Task, lsm_ptrace_access_check(t) PROVE SensInv'
  <2>1. "PTRACE_BLOCKED" \in DOMAIN Decoded
        /\ Decoded["PTRACE_BLOCKED"] \ {"target_pid", "mode", "target_comm"} \subseteq Unfilled("PTRACE_BLOCKED")
    BY DEF Decoded
  <2>2. QED BY <1>11, <2>1, EmitKeeps DEF lsm_ptrace_access_check
<1>12. ASSUME NEW t \in Task, handle_kmod_check(t) PROVE SensInv'
  BY <1>12, EmitKeeps DEF handle_kmod_check, Decoded
<1>13. ASSUME NEW t \in Task, kguard_capable(t) PROVE SensInv'
  <2>1. "CAPABILITY_CHANGE" \in DOMAIN Decoded
        /\ Decoded["CAPABILITY_CHANGE"] \ {"cap"} \subseteq Unfilled("CAPABILITY_CHANGE")
    BY DEF Decoded
  <2>2. QED BY <1>13, <2>1, EmitKeeps DEF kguard_capable
<1>14. ASSUME NEW t \in Task, ns_change(t) PROVE SensInv'
  <2> DEFINE c == CgroupOf[t]
  <2> DEFINE r == Record("NS_CHANGE", {"flags", "nstype", "op"}, c)
  <2>1. c \in Cgroup BY SensorsAssumption DEF SensorsAssumption
  <2>2. GoodRecord(r)
    <3>1. "NS_CHANGE" \in DOMAIN Decoded
          /\ Decoded["NS_CHANGE"] \ {"flags", "nstype", "op"} \subseteq Unfilled("NS_CHANGE")
      BY DEF Decoded
    <3>2. QED BY <2>1, <3>1, RecordGood
  <2>3. r.type = "NS_CHANGE" /\ r.cgroup = c BY DEF Record
  <2>4. /\ rb' = Put(rb, r) /\ changed' = changed \cup {c}
        /\ lost' = IF Len(rb) < RingSize THEN lost ELSE lost \cup {c}
        /\ UNCHANGED <<primary, hook, containers>>
    BY <1>14 DEF ns_change
  <2> HIDE DEF r, c
  <2>5. /\ GoodBuffer(rb') /\ \A i \in DOMAIN rb : i \in DOMAIN rb' /\ rb'[i] = rb[i]
        /\ Len(rb) < RingSize => Len(rb) + 1 \in DOMAIN rb' /\ rb'[Len(rb) + 1] = r
    BY <1>t, <2>2, <2>4, PutGood DEF RingInv
  <2>6. \A d \in Cgroup : Pending(d) => Pending(d)' BY <2>5 DEF Pending
  <2>7. Len(rb) < RingSize => Pending(c)' BY <2>3, <2>5 DEF Pending
  <2>8. TrackedUnlessLost'
    BY <1>t, <2>1, <2>4, <2>6, <2>7 DEF TrackInv, TrackedUnlessLost
  <2>9. TrackInv' BY <1>t, <2>1, <2>4, <2>8 DEF TrackInv
  <2>10. QED BY <1>u, <2>4, <2>5, <2>9 DEF SensInv, RingInv
<1>15. ASSUME ProcessRawRecord PROVE SensInv'
  <2>1. rb # <<>> /\ rb \in Seq(Records) /\ rb' = Tail(rb) /\ UNCHANGED <<primary, hook, changed>>
    BY <1>t, <1>15 DEF ProcessRawRecord, RingInv, GoodBuffer
  <2>2. /\ rb' \in Seq(Records) /\ Len(rb') = Len(rb) - 1 /\ Head(rb) = rb[1] /\ 1 \in DOMAIN rb
        /\ \A i \in DOMAIN rb' : i + 1 \in DOMAIN rb /\ rb'[i] = rb[i + 1]
        /\ \A i \in DOMAIN rb : i # 1 => i - 1 \in DOMAIN rb' /\ rb'[i - 1] = rb[i]
    BY <2>1
  <2>3. RingInv'
    <3>1. Len(rb') <= RingSize
      BY <1>t, <2>1, <2>2, SensorsAssumption DEF SensorsAssumption, RingInv, GoodBuffer
    <3>2. QED BY <1>t, <2>2, <3>1 DEF RingInv, GoodBuffer
  <2>4. \A d \in Cgroup : Pending(d) =>
            Pending(d)' \/ (Head(rb).type = "NS_CHANGE" /\ Head(rb).cgroup = d)
    BY <2>2 DEF Pending
  <2>8. Head(rb).type = "NS_CHANGE" => Head(rb).cgroup \in Cgroup
    BY <1>t, <2>2 DEF RingInv, GoodBuffer, GoodRecord
  <2>5. CASE Head(rb).type = "NS_CHANGE" /\ Head(rb).cgroup \in Cgroup
    <3> DEFINE c == Head(rb).cgroup
    <3>1. AddContainerCgroup(c) BY <1>15, <2>5 DEF ProcessRawRecord, decodeNsChange
    <3> HIDE DEF c
    <3>2. c \in Cgroup /\ \A d \in Cgroup : Pending(d) => Pending(d)' \/ d = c
      BY <2>4, <2>5 DEF c
    <3>3. /\ containers' \subseteq Cgroup /\ lost' \subseteq Cgroup
          /\ IsFiniteSet(containers') /\ Cardinality(containers') <= MaxTracked
          /\ c \in containers'
          /\ \A d \in Cgroup \ {c} : d \in containers \cup lost => d \in containers' \cup lost'
      BY <1>t, <2>1, <3>1, <3>2, AddKeeps
    <3>4. TrackedUnlessLost'
      BY <1>t, <2>1, <3>2, <3>3 DEF TrackInv, TrackedUnlessLost
    <3>5. TrackInv' BY <1>t, <2>1, <3>3, <3>4 DEF TrackInv
    <3>6. QED BY <1>u, <2>1, <2>3, <3>5 DEF SensInv
  <2>6. CASE Head(rb).type # "NS_CHANGE"
    <3>1. UNCHANGED <<containers, lost>> BY <1>15, <2>6 DEF ProcessRawRecord
    <3>2. TrackedUnlessLost'
      BY <1>t, <2>1, <2>4, <2>6, <3>1 DEF TrackInv, TrackedUnlessLost
    <3>3. TrackInv' BY <1>t, <2>1, <3>1, <3>2 DEF TrackInv
    <3>4. QED BY <1>u, <2>1, <2>3, <3>3 DEF SensInv
  <2>7. QED BY <2>5, <2>6, <2>8
<1>16. ASSUME NEW c \in Cgroup, OnContainerDiscovered(c) PROVE SensInv'
  <2>1. AddContainerCgroup(c) /\ UNCHANGED <<primary, hook, rb, changed>>
    BY <1>16 DEF OnContainerDiscovered
  <2>2. /\ containers' \subseteq Cgroup /\ lost' \subseteq Cgroup
        /\ IsFiniteSet(containers') /\ Cardinality(containers') <= MaxTracked
        /\ c \in containers'
        /\ \A d \in Cgroup \ {c} : d \in containers \cup lost => d \in containers' \cup lost'
    BY <1>t, <2>1, AddKeeps
  <2>3. \A d \in Cgroup : Pending(d)' <=> Pending(d) BY <2>1 DEF Pending
  <2>4. TrackedUnlessLost' BY <1>t, <2>1, <2>2, <2>3 DEF TrackInv, TrackedUnlessLost
  <2>5. TrackInv' BY <1>t, <2>1, <2>2, <2>4 DEF TrackInv
  <2>6. QED BY <1>t, <1>u, <2>1, <2>5 DEF SensInv, RingInv
<1>a. ASSUME NEW t \in Task, NEW p \in Path, PathTooLong(t, p) PROVE SensInv'
  <2>1. Scratch(d_path_fails(p)) /\ ~Fits(p) /\ UNCHANGED <<rb, containers, changed, lost>>
    BY <1>a DEF PathTooLong
  <2>2. HookInv' BY <1>p, <1>t, <2>1, FailedTyped, ScratchKeeps
  <2>3. RingInv' /\ TrackInv' BY <1>t, <2>1 DEF RingInv, TrackInv, TrackedUnlessLost, Pending
  <2>4. QED BY <2>2, <2>3 DEF SensInv
<1>b. ASSUME NEW t \in Task, NEW p \in Path, NEW type \in {"EXEC", "REVERSE_SHELL"}, NEW a \in Args,
             EndsEarly(t, type, p, a)
      PROVE  SensInv'
  <2>1. /\ Scratch(get_safe_path(d_path(p), Len(p) + 1)) /\ Fits(p)
        /\ Report(type, Emitted(a)) /\ UNCHANGED <<containers, changed, lost>>
    BY <1>b DEF EndsEarly
  <2>2. Scratch(pathToKey(p)) BY <1>p, <2>1, SafePathIsKey
  <2>3. HookInv' BY <1>p, <1>t, <2>2, BufferTypes, ScratchKeeps
  <2>4. type \in DOMAIN Decoded \ {"NS_CHANGE"} /\ Decoded[type] \ Emitted(a) \subseteq Unfilled(type)
    BY DEF Decoded, ExecFields, Unfilled, Emitted
  <2>5. RingInv' /\ TrackInv' BY <1>t, <2>1, <2>4, ReportKeeps
  <2>6. QED BY <2>3, <2>5 DEF SensInv
<1>17. CASE UNCHANGED vars
  <2>1. UNCHANGED <<primary, hook, rb, containers, changed, lost>> BY <1>17 DEF vars
  <2>2. RingInv' /\ TrackInv' BY <1>t, <2>1 DEF RingInv, TrackInv, TrackedUnlessLost, Pending
  <2>3. QED BY <1>u, <2>1, <2>2 DEF SensInv
<1>18. QED
  BY <1>1, <1>2, <1>3, <1>4, <1>5, <1>6, <1>7, <1>9, <1>10, <1>11, <1>12, <1>13, <1>14, <1>15, <1>16, <1>17,
     <1>a, <1>b
  DEF Next, tp_openat2

-----------------------------------------------------------------------------
(* Every variable of the sensors keeps its type; the ring buffer and       *)
(* container_cgroups keep their bounds.                                    *)
THEOREM TypeCorrect == Spec => []TypeOK
<1>1. SensInv => TypeOK
  BY DEF SensInv, HookInv, RingInv, GoodBuffer, TrackInv, TypeOK
<1>2. QED BY <1>1, SensInitially, SensInductive, PTL DEF Spec

(* No decoder takes a field that its record's program did not fill, but    *)
(* for the four that Unfilled names.                                       *)
THEOREM RecordsAreOwn == Spec => []NoForeignData
<1>1. SensInv => NoForeignData
  BY DEF SensInv, RingInv, GoodBuffer, GoodRecord, NoForeignData
<1>2. QED BY <1>1, SensInitially, SensInductive, PTL DEF Spec

(* A cgroup that changed a namespace is tracked or its event is pending,   *)
(* unless the ring buffer or the LRU hash was full.                        *)
THEOREM ChangesTracked == Spec => []TrackedUnlessLost
<1>1. SensInv => TrackedUnlessLost BY DEF SensInv, TrackInv
<1>2. QED BY <1>1, SensInitially, SensInductive, PTL DEF Spec

(* A hook that was not preempted finds its own path, zero-filled, in the   *)
(* scratch buffer.                                                         *)
THEOREM ScratchOwned == Spec => []ScratchIsOwn
<1>1. SensInv => ScratchIsOwn BY DEF SensInv, HookInv, HookHolds, ScratchIsOwn
<1>2. QED BY <1>1, SensInitially, SensInductive, PTL DEF Spec

(* A lookup in the map of a path that fits answers for that path alone.    *)
LEMMA LookupExact ==
    ASSUME NEW h, h \in Hooks, h # Idle, Fits(h.path)
    PROVE  Denies(h.prog, pathToKey(h.path)) <=> MustDeny(h)
<1>1. h.path \in Path BY DEF Hooks
<1>2. h.path \in Seq(Char) /\ BlockedWrite \subseteq Seq(Char)
  BY <1>1, SensorsAssumption DEF SensorsAssumption
<1>3. CASE h.prog = "file_open"
  <2>1. pathToKey(h.path) \in blocked_write_paths <=> h.path \in BlockedWrite
    BY <1>2, KeyInjective DEF blocked_write_paths
  <2>2. QED BY <1>3, <2>1 DEF Denies, MustDeny
<1>4. CASE h.prog # "file_open"
  <2>1. StringOf(pathToKey(h.path)) = h.path BY <1>2, StringOfKey
  <2>2. QED BY <1>4, <2>1 DEF Denies, MustDeny, is_prefix_blocked
<1>5. QED BY <1>3, <1>4

(* The step that takes a hook out of its lookup takes the verdict that the *)
(* path lists give its own path.                                           *)
LEMMA VerdictStep ==
    ASSUME SensInv, [Next]_vars, NEW t \in Task,
           hook[t].at = "lookup", hook'[t].at # "lookup", hook[t].own
    PROVE  hook'[t].at = "deny" <=> MustDeny(hook[t])
<1>t. HookInv BY DEF SensInv
<1>i. Idle.at = "idle" BY DEF Idle
<1>1. hook[t] \in Hooks /\ hook[t] # Idle BY <1>t, <1>i DEF HookInv
<1>2. hook[t] \in [at : {"lookup", "deny"}, prog : {"file_open", "bprm_check"}, path : Path, own : BOOLEAN]
  BY <1>1 DEF Hooks
<1>3. Fits(hook[t].path) /\ primary = pathToKey(hook[t].path)
  BY <1>t, <1>1 DEF HookInv, HookHolds
<1>4. ASSUME hook'[t] = hook[t] \/ hook'[t] = Overwritten(hook[t]) PROVE FALSE
  <2>1. Overwritten(hook[t]) = [hook[t] EXCEPT !.own = FALSE] BY <1>1 DEF Overwritten
  <2>2. Overwritten(hook[t]).at = hook[t].at BY <1>2, <2>1
  <2>3. QED BY <1>4, <2>2
<1>5. ASSUME NEW b, Scratch(b) PROVE FALSE BY <1>4, <1>5 DEF Scratch
<1>6. ASSUME UNCHANGED hook PROVE FALSE BY <1>4, <1>6
<1>7. ASSUME NEW u \in Task, NEW p, NEW prog, SafePath(u, prog, p) PROVE FALSE
  <2>1. hook[u] = Idle BY <1>7 DEF SafePath
  <2>2. u # t BY <1>1, <2>1
  <2>3. hook'[t] = Overwritten(hook[t]) BY <1>7, <2>2 DEF SafePath
  <2>4. QED BY <1>4, <2>3
<1>8. ASSUME NEW u \in Task, NEW a, Deny(u, a) PROVE FALSE
  <2>1. u # t BY <1>8 DEF Deny
  <2>2. hook'[t] = hook[t] BY <1>t, <1>8, <2>1 DEF Deny, HookInv
  <2>3. QED BY <1>4, <2>2
<1>9. ASSUME NEW u \in Task, PathLookup(u) PROVE hook'[t].at = "deny" <=> MustDeny(hook[t])
  <2>1. u = t
    <3>1. u # t => hook'[t] = hook[t] BY <1>t, <1>9 DEF PathLookup, HookInv
    <3>2. QED BY <1>4, <3>1
  <2>2. hook'[t] = IF Denies(hook[t].prog, primary) THEN [hook[t] EXCEPT !.at = "deny"] ELSE Idle
    BY <1>t, <1>9, <2>1 DEF PathLookup, HookInv
  <2>3. [hook[t] EXCEPT !.at = "deny"].at = "deny" BY <1>2
  <2>4. hook'[t].at = "deny" <=> Denies(hook[t].prog, primary) BY <1>i, <2>2, <2>3
  <2>5. QED BY <1>1, <1>3, <2>4, LookupExact
<1>10. ASSUME \/ tp_ptrace \/ tp_setuid \/ tp_init_module \/ tp_io_uring_submit_req
              \/ on_branch_mispredict \/ check_rwx_violation \/ bpf_prog_load \/ kguard_task_fix_setuid
              \/ \E type \in {"VM_READ", "VM_WRITE"} : emit_vm_rw_event(type)
              \/ \E type \in {"CONNECT", "SENDTO"}, f \in {"inet", "inet6", "unix"} : egress(type, f)
              \/ \E u \in Task : \/ lsm_ptrace_access_check(u) \/ handle_kmod_check(u)
                                 \/ kguard_capable(u) \/ ns_change(u)
              \/ ProcessRawRecord \/ \E c \in Cgroup : OnContainerDiscovered(c)
              \/ UNCHANGED vars
       PROVE  FALSE
  <2>1. UNCHANGED hook
    BY <1>10 DEF tp_ptrace, tp_setuid, tp_init_module, tp_io_uring_submit_req, on_branch_mispredict,
                 check_rwx_violation, bpf_prog_load, kguard_task_fix_setuid, emit_vm_rw_event, egress, Emit,
                 lsm_ptrace_access_check, handle_kmod_check, kguard_capable, ns_change,
                 ProcessRawRecord, OnContainerDiscovered, vars
  <2>2. QED BY <1>6, <2>1
<1>11. ASSUME \/ \E p \in Path, w \in BOOLEAN : tp_openat(p, w)
              \/ \E p \in Path : tp_memfd_create(p) \/ \E a \in Args : tp_schedexec(p, a)
              \/ \E u \in Task, p \in Path :
                    \/ PathTooLong(u, p)
                    \/ \E type \in {"EXEC", "REVERSE_SHELL"}, a \in Args : EndsEarly(u, type, p, a)
       PROVE  FALSE
  BY <1>5, <1>11 DEF tp_openat, tp_memfd_create, tp_schedexec, PathTooLong, EndsEarly
<1>12. QED BY <1>7, <1>8, <1>9, <1>10, <1>11 DEF Next, tp_openat2

(* A hook that was not preempted between get_safe_path and its lookup      *)
(* denies exactly what the lists say of the path it was called for.        *)
THEOREM VerdictsOwn == Spec => VerdictIsOwn
<1> DEFINE A == \A t \in Task :
          hook[t].at = "lookup" /\ hook'[t].at # "lookup" =>
              (hook[t].own => (hook'[t].at = "deny" <=> MustDeny(hook[t])))
<1>1. SensInv /\ [Next]_vars => [A]_vars BY VerdictStep
<1> HIDE DEF A
<1>2. [][A]_vars => VerdictIsOwn BY DEF A, VerdictIsOwn
<1>3. QED BY <1>1, <1>2, SensInitially, SensInductive, PTL DEF Spec

-----------------------------------------------------------------------------
(* A non-empty set of numbers has a least one.                             *)
LEMMA LeastOf ==
    ASSUME NEW T, T \subseteq Nat, T # {}
    PROVE  \E x \in T : \A y \in T : x <= y
<1>1. PICK x \in T : \A y \in T : ~(<<y, x>> \in OpToRel(<, Nat)) BY WFMin, NatLessThanWellFounded, Zenon
<1>2. \A y \in T : ~(y < x) BY <1>1 DEF OpToRel
<1>3. QED BY <1>2

(* The walk of path_in_map in closed form: after m iterations the buffer   *)
(* is cut behind its first Size - m characters; an iteration finds a key   *)
(* when it is the lookup before the first or cuts behind a slash.          *)
Cut(full, m) == [i \in Index |-> IF i < Size - m THEN full[i] ELSE Nul]
Hit(full, keys, m) == (m = 0 \/ full[Size - 1 - m] = "/") /\ Cut(full, m) \in keys
HitBy(full, keys, n) == \E m \in 0..n : Hit(full, keys, m)
First(full, keys, n) == CHOOSE m \in 0..n : Hit(full, keys, m) /\ \A k \in 0..n : Hit(full, keys, k) => m <= k
Walked(full, keys) ==
    [n \in Index |-> IF HitBy(full, keys, n)
                     THEN [found |-> TRUE, full |-> Cut(full, First(full, keys, n))]
                     ELSE [found |-> FALSE, full |-> Cut(full, n)]]

(* The first hit is one, and later iterations do not change it.            *)
LEMMA FirstIs ==
    ASSUME NEW full, NEW keys, NEW n \in Nat, HitBy(full, keys, n)
    PROVE  /\ First(full, keys, n) \in 0..n /\ Hit(full, keys, First(full, keys, n))
           /\ \A k \in 0..n : Hit(full, keys, k) => First(full, keys, n) <= k
<1> DEFINE T == {m \in 0..n : Hit(full, keys, m)}
<1>1. T \subseteq Nat /\ T # {} BY DEF HitBy
<1>2. \E x \in T : \A y \in T : x <= y BY <1>1, LeastOf
<1>3. \E m \in 0..n : Hit(full, keys, m) /\ \A k \in 0..n : Hit(full, keys, k) => m <= k BY <1>2
<1>4. QED BY <1>3 DEF First

LEMMA FirstStays ==
    ASSUME NEW full, NEW keys, NEW n \in Nat, HitBy(full, keys, n)
    PROVE  HitBy(full, keys, n + 1) /\ First(full, keys, n + 1) = First(full, keys, n)
<1>1. HitBy(full, keys, n + 1) BY DEF HitBy
<1> DEFINE f == First(full, keys, n) g == First(full, keys, n + 1)
<1>2. f \in 0..n /\ Hit(full, keys, f) /\ \A k \in 0..n : Hit(full, keys, k) => f <= k BY FirstIs
<1>3. g \in 0..(n + 1) /\ Hit(full, keys, g) /\ \A k \in 0..(n + 1) : Hit(full, keys, k) => g <= k
  BY <1>1, FirstIs
<1> HIDE DEF f, g
<1>4. g <= f BY <1>2, <1>3
<1>5. g \in 0..n BY <1>2, <1>3, <1>4
<1>6. f <= g BY <1>2, <1>3, <1>5
<1>7. f = g BY <1>2, <1>3, <1>4, <1>6
<1>8. QED BY <1>1, <1>7 DEF f, g

(* An iteration clears the byte behind the cut, and no other.              *)
LEMMA CutFurther ==
    ASSUME NEW full, NEW n \in Nat, n + 1 \in Index
    PROVE  /\ [Cut(full, n) EXCEPT ![Size - 1 - (n + 1) + 1] = Nul] = Cut(full, n + 1)
           /\ Cut(full, n)[Size - 1 - (n + 1)] = full[Size - 1 - (n + 1)]
<1>a. Size \in Nat \ {0} BY PathBufAssumption DEF PathBufAssumption
<1>1. \A i \in Index : [Cut(full, n) EXCEPT ![Size - 1 - (n + 1) + 1] = Nul][i] = Cut(full, n + 1)[i]
  BY <1>a DEF Index, Cut
<1>2. QED BY <1>a, <1>1 DEF Index, Cut

(* The closed form is what the iterations compute.                         *)
LEMMA WalkedSteps ==
    ASSUME NEW full \in Buffer, NEW keys
    PROVE  /\ Walked(full, keys)[0] = [found |-> full \in keys, full |-> full]
           /\ \A n \in Index \ {0} :
                 Walked(full, keys)[n] = StepBack(Walked(full, keys)[n - 1], Size - 1 - n, keys)
<1>a. Size \in Nat \ {0} /\ 0 \in Index BY PathBufAssumption DEF PathBufAssumption, Index
<1>b. Cut(full, 0) = full BY <1>a DEF Cut, Buffer, Index
<1>1. Walked(full, keys)[0] = [found |-> full \in keys, full |-> full]
  <2>1. Hit(full, keys, 0) <=> full \in keys BY <1>b DEF Hit
  <2>2. HitBy(full, keys, 0) <=> full \in keys BY <2>1 DEF HitBy
  <2>3. CASE full \in keys
    <3>1. First(full, keys, 0) = 0 BY <2>2, <2>3, FirstIs
    <3>2. Walked(full, keys)[0] = [found |-> TRUE, full |-> full] BY <1>a, <1>b, <2>2, <2>3, <3>1 DEF Walked
    <3>3. (full \in keys) = TRUE BY <2>3
    <3>4. QED BY <3>2, <3>3, Zenon
  <2>4. CASE full \notin keys
    <3>1. Walked(full, keys)[0] = [found |-> FALSE, full |-> full] BY <1>a, <1>b, <2>2, <2>4 DEF Walked
    <3>2. (full \in keys) = FALSE BY <2>4
    <3>3. QED BY <3>1, <3>2, Zenon
  <2>5. QED BY <2>3, <2>4
<1>2. ASSUME NEW n \in Nat, n + 1 \in Index
      PROVE  Walked(full, keys)[n + 1] = StepBack(Walked(full, keys)[n], Size - 1 - (n + 1), keys)
  <2> DEFINE st == Walked(full, keys)[n] len == Size - 1 - (n + 1)
  <2>0. n \in Index BY <1>2, <1>a DEF Index
  <2>1. CASE HitBy(full, keys, n)
    <3>1. st = [found |-> TRUE, full |-> Cut(full, First(full, keys, n))] BY <2>0, <2>1 DEF Walked
    <3>2. Walked(full, keys)[n + 1] = st BY <1>2, <2>1, <3>1, FirstStays DEF Walked
    <3>3. st.found BY <3>1
    <3> HIDE DEF st, len
    <3>4. StepBack(st, len, keys) = st BY <3>3 DEF StepBack
    <3>5. QED BY <3>2, <3>4 DEF st, len
  <2>2. CASE ~HitBy(full, keys, n)
    <3>1. st = [found |-> FALSE, full |-> Cut(full, n)] BY <2>0, <2>2 DEF Walked
    <3>2. HitBy(full, keys, n + 1) <=> Hit(full, keys, n + 1) BY <2>2 DEF HitBy
    <3>3. [Cut(full, n) EXCEPT ![len + 1] = Nul] = Cut(full, n + 1) /\ Cut(full, n)[len] = full[len]
      BY <1>2, CutFurther
    <3>4. HitBy(full, keys, n + 1) <=> full[len] = "/" /\ Cut(full, n + 1) \in keys BY <3>2 DEF Hit
    <3>5. HitBy(full, keys, n + 1) => First(full, keys, n + 1) = n + 1
      <4>1. HitBy(full, keys, n + 1) => First(full, keys, n + 1) \in 0..(n + 1) /\ Hit(full, keys, First(full, keys, n + 1))
        BY FirstIs
      <4>2. QED BY <2>2, <4>1 DEF HitBy
    <3>6. Walked(full, keys)[n + 1] = [found |-> HitBy(full, keys, n + 1), full |-> Cut(full, n + 1)]
      <4>1. CASE HitBy(full, keys, n + 1)
        <5>1. Walked(full, keys)[n + 1] = [found |-> TRUE, full |-> Cut(full, n + 1)]
          BY <1>2, <3>5, <4>1 DEF Walked
        <5>2. HitBy(full, keys, n + 1) = TRUE BY <4>1 DEF HitBy
        <5>3. QED BY <5>1, <5>2, Zenon
      <4>2. CASE ~HitBy(full, keys, n + 1)
        <5>1. Walked(full, keys)[n + 1] = [found |-> FALSE, full |-> Cut(full, n + 1)]
          BY <1>2, <4>2 DEF Walked
        <5>2. HitBy(full, keys, n + 1) = FALSE BY <4>2 DEF HitBy
        <5>3. QED BY <5>1, <5>2, Zenon
      <4>3. QED BY <4>1, <4>2
    <3>7. ~st.found /\ st.full = Cut(full, n) BY <3>1
    <3> HIDE DEF st, len
    <3>8. StepBack(st, len, keys) =
              [found |-> (full[len] = "/" /\ Cut(full, n + 1) \in keys), full |-> Cut(full, n + 1)]
      BY <3>3, <3>7, Zenon DEF StepBack
    <3>9. HitBy(full, keys, n + 1) = (full[len] = "/" /\ Cut(full, n + 1) \in keys)
      BY <3>4, Zenon DEF HitBy
    <3>10. QED BY <3>6, <3>8, <3>9, Zenon DEF st, len
  <2>3. QED BY <2>1, <2>2
<1>3. ASSUME NEW n \in Index \ {0}
      PROVE  Walked(full, keys)[n] = StepBack(Walked(full, keys)[n - 1], Size - 1 - n, keys)
  <2>1. n - 1 \in Nat /\ (n - 1) + 1 = n BY <1>a DEF Index
  <2>2. QED BY <1>2, <2>1
<1>4. QED BY <1>1, <1>3

(* path_in_map computes it, as its walk is the only function that does     *)
(* what its iterations do.                                                 *)
LEMMA WalkIs ==
    ASSUME NEW path, NEW keys, ReadStr(Zeroed, StringOf(path)) \in Buffer
    PROVE  path_in_map(path, keys) = HitBy(ReadStr(Zeroed, StringOf(path)), keys, Size - 1)
<1> DEFINE full == ReadStr(Zeroed, StringOf(path))
<1> DEFINE Is(f) == f = [n \in Index |-> IF n = 0 THEN [found |-> full \in keys, full |-> full]
                                         ELSE StepBack(f[n - 1], Size - 1 - n, keys)]
<1> DEFINE walk == CHOOSE f : Is(f)
<1>a. Size \in Nat \ {0} /\ 0 \in Index /\ Size - 1 \in Index BY PathBufAssumption DEF PathBufAssumption, Index
<1>1. path_in_map(path, keys) = walk[Size - 1].found BY DEF path_in_map
<1> HIDE DEF full
<1>2. Is(Walked(full, keys))
  <2> DEFINE W == Walked(full, keys)
  <2>1. W = [n \in Index |-> W[n]] BY DEF Walked
  <2>2. /\ W[0] = [found |-> full \in keys, full |-> full]
        /\ \A n \in Index \ {0} : W[n] = StepBack(W[n - 1], Size - 1 - n, keys)
    BY WalkedSteps DEF full
  <2> DEFINE start == [found |-> full \in keys, full |-> full]
  <2> HIDE DEF W, start
  <2>3. \A n \in Index : W[n] = IF n = 0 THEN start ELSE StepBack(W[n - 1], Size - 1 - n, keys)
    BY <2>2 DEF start
  <2>4. W = [n \in Index |-> IF n = 0 THEN start ELSE StepBack(W[n - 1], Size - 1 - n, keys)]
    BY <2>1, <2>3
  <2>5. QED BY <2>4 DEF W, start
<1>3. Is(walk) BY <1>2, Zenon
<1> DEFINE start == [found |-> full \in keys, full |-> full]
<1>4. \A f : Is(f) => \A n \in Index : f[n] = IF n = 0 THEN start ELSE StepBack(f[n - 1], Size - 1 - n, keys)
  <2> SUFFICES ASSUME NEW f, Is(f), NEW n \in Index
               PROVE  f[n] = IF n = 0 THEN start ELSE StepBack(f[n - 1], Size - 1 - n, keys)
    OBVIOUS
  <2> DEFINE body == [m \in Index |-> IF m = 0 THEN start ELSE StepBack(f[m - 1], Size - 1 - m, keys)]
  <2>1. f = body OBVIOUS
  <2> HIDE DEF start
  <2>2. body[n] = IF n = 0 THEN start ELSE StepBack(f[n - 1], Size - 1 - n, keys) OBVIOUS
  <2> HIDE DEF body
  <2>3. QED BY <2>1, <2>2
<1> HIDE DEF walk, Is, start
<1>5. \A n \in Index : walk[n] = Walked(full, keys)[n]
  <2> DEFINE T == {n \in Index : walk[n] # Walked(full, keys)[n]}
  <2> SUFFICES ASSUME T # {} PROVE FALSE OBVIOUS
  <2>1. T \subseteq Nat BY <1>a DEF Index
  <2>2. PICK n \in T : \A m \in T : n <= m BY <2>1, LeastOf
  <2>3. CASE n = 0 BY <1>2, <1>3, <1>4, <1>a, <2>2, <2>3
  <2>4. CASE n # 0
    <3>1. n - 1 \in Index /\ ~(n <= n - 1) BY <1>a, <2>4 DEF Index
    <3>2. walk[n - 1] = Walked(full, keys)[n - 1] BY <2>2, <3>1
    <3>3. QED BY <1>2, <1>3, <1>4, <2>2, <2>4, <3>2
  <2>5. QED BY <2>3, <2>4
<1>6. Walked(full, keys)[Size - 1].found = HitBy(full, keys, Size - 1)
  <2>1. CASE HitBy(full, keys, Size - 1)
    <3>1. Walked(full, keys)[Size - 1].found = TRUE BY <1>a, <2>1 DEF Walked
    <3>2. HitBy(full, keys, Size - 1) = TRUE BY <2>1 DEF HitBy
    <3>3. QED BY <3>1, <3>2
  <2>2. CASE ~HitBy(full, keys, Size - 1)
    <3>1. Walked(full, keys)[Size - 1].found = FALSE BY <1>a, <2>2 DEF Walked
    <3>2. HitBy(full, keys, Size - 1) = FALSE BY <2>2 DEF HitBy
    <3>3. QED BY <3>1, <3>2
  <2>3. QED BY <2>1, <2>2
<1>7. QED BY <1>1, <1>5, <1>6, <1>a DEF full

(* What path_in_map works on: what was read of the path, and zeroes.       *)
LEMMA ReadIsKey ==
    ASSUME NEW p \in Seq(Char), NEW buf \in Buffer
    PROVE  LET read == SubSeq(p, 1, StrLen(p) - 1)
           IN /\ read \in Seq(Char) /\ Fits(read)
              /\ ReadStr(Zeroed, StringOf(ReadStr(buf, p))) = pathToKey(read)
<1> DEFINE read == SubSeq(p, 1, StrLen(p) - 1)
<1>a. Size \in Nat \ {0} BY PathBufAssumption DEF PathBufAssumption
<1>1. StrLen(p) - 1 \in Nat /\ StrLen(p) - 1 <= Len(p) /\ StrLen(p) - 1 \in Index BY <1>a DEF StrLen, Index
<1>2. /\ read \in Seq(Char) /\ Len(read) = StrLen(p) - 1
      /\ \A i \in 1..(StrLen(p) - 1) : read[i] = p[i]
  BY <1>1
<1> HIDE DEF read
<1>3. StringOf(ReadStr(buf, p)) = read
  <2>1. ReadStr(buf, p)[Len(read)] = Nul BY <1>1, <1>2 DEF ReadStr
  <2>2. \A i \in Index : i < Len(read) => ReadStr(buf, p)[i] = read[i + 1]
    <3> SUFFICES ASSUME NEW i \in Index, i < Len(read) PROVE ReadStr(buf, p)[i] = read[i + 1] OBVIOUS
    <3>1. i + 1 \in 1..(StrLen(p) - 1) BY <1>1, <1>2, <1>a DEF Index
    <3>2. QED BY <1>2, <3>1 DEF ReadStr
  <2>3. QED BY <1>1, <1>2, <2>1, <2>2, StringIn
<1>4. StrLen(read) = Len(read) + 1 BY <1>1, <1>2, <1>a DEF StrLen, Index
<1>5. ReadStr(Zeroed, read) = pathToKey(read)
  <2>1. \A i \in Index : ReadStr(Zeroed, read)[i] = pathToKey(read)[i]
    BY <1>1, <1>2, <1>4, <1>a DEF ReadStr, pathToKey, Zeroed, Index
  <2>2. QED BY <2>1 DEF ReadStr, pathToKey
<1>6. Fits(read) BY <1>1, <1>2, <1>a DEF Fits, Index
<1>7. QED BY <1>2, <1>3, <1>5, <1>6 DEF read

(* The lookups of the walk are the path and, from the longest, the         *)
(* directories above it: what a list of paths means.                       *)
LEMMA HitIsListed ==
    ASSUME NEW q \in Seq(Char), Fits(q), NEW paths \in SUBSET Seq(Char)
    PROVE  HitBy(pathToKey(q), {pathToKey(r) : r \in paths}, Size - 1) <=> Listed(q, paths)
<1> DEFINE full == pathToKey(q) keys == {pathToKey(r) : r \in paths}
<1>a. Size \in Nat \ {0} /\ Nul \notin Char /\ "/" \in Char BY PathBufAssumption DEF PathBufAssumption
<1>b. Len(q) \in Nat /\ Len(q) <= Size - 1 BY <1>a DEF Fits
<1>c. \A i \in Index : full[i] = IF i < Len(q) THEN q[i + 1] ELSE Nul BY DEF pathToKey
<1>d. Cut(full, 0) = full BY <1>a DEF Cut, Index, pathToKey
<1>e. ASSUME NEW l \in 1..Len(q)
      PROVE  /\ SubSeq(q, 1, l) \in Seq(Char) /\ Fits(SubSeq(q, 1, l))
             /\ Len(SubSeq(q, 1, l)) = l /\ SubSeq(q, 1, l)[l] = q[l]
             /\ Cut(full, Size - l) = pathToKey(SubSeq(q, 1, l))
  <2> DEFINE s == SubSeq(q, 1, l)
  <2>1. s \in Seq(Char) /\ Len(s) = l /\ \A i \in 1..l : s[i] = q[i] BY <1>b
  <2> HIDE DEF s
  <2>2. Fits(s) BY <1>a, <1>b, <2>1 DEF Fits
  <2>3. \A i \in Index : Cut(full, Size - l)[i] = pathToKey(s)[i]
    BY <1>a, <1>b, <1>c, <2>1 DEF Cut, pathToKey, Index
  <2>4. Cut(full, Size - l) = pathToKey(s) BY <2>3 DEF Cut, pathToKey
  <2>5. QED BY <2>1, <2>2, <2>4 DEF s
<1>1. ASSUME NEW m \in 0..(Size - 1), Hit(full, keys, m) PROVE Listed(q, paths)
  <2>0. PICK r \in paths : Cut(full, m) = pathToKey(r) BY <1>1 DEF Hit
  <2>1. CASE m = 0
    <3>1. r = q BY <1>d, <2>0, <2>1, KeyInjective
    <3>2. QED BY <3>1 DEF Listed
  <2>2. CASE m # 0
    <3> DEFINE l == Size - m
    <3>1. Size - 1 - m \in Index /\ full[Size - 1 - m] = "/" BY <1>1, <1>a, <2>2 DEF Hit, Index
    <3>2. l \in 1..Len(q) /\ Size - 1 - m = l - 1 /\ m = Size - l BY <1>a, <1>b, <1>c, <2>2, <3>1
    <3> HIDE DEF l
    <3>3. q[l] = "/" BY <1>b, <1>c, <3>1, <3>2
    <3>4. r = SubSeq(q, 1, l) BY <1>e, <2>0, <3>2, KeyInjective
    <3>5. Len(r) = l /\ r[Len(r)] = "/" /\ r # << >> BY <1>e, <3>2, <3>3, <3>4
    <3>6. SubSeq(r, 1, Len(r)) = r /\ Len(r) <= Len(q) BY <1>b, <3>2, <3>5
    <3>7. IsPrefix(r, q) BY <3>4, <3>5, <3>6 DEF IsPrefix
    <3>8. QED BY <3>5, <3>7 DEF Listed
  <2>3. QED BY <2>1, <2>2
<1>2. ASSUME NEW r \in paths, r = q PROVE Hit(full, keys, 0)
  BY <1>d, <1>2 DEF Hit
<1>3. ASSUME NEW r \in paths, r # << >>, r[Len(r)] = "/", IsPrefix(r, q)
      PROVE  \E m \in 0..(Size - 1) : Hit(full, keys, m)
  <2> DEFINE l == Len(r)
  <2>1. l \in 1..Len(q) /\ r = SubSeq(q, 1, l)
    <3>1. r \in Seq(Char) OBVIOUS
    <3>2. l \in Nat /\ l # 0 /\ SubSeq(r, 1, l) = r BY <1>3, <3>1
    <3>3. QED BY <1>b, <1>3, <3>2 DEF IsPrefix
  <2>2. q[l] = "/" BY <1>e, <1>3, <2>1
  <2> HIDE DEF l
  <2> DEFINE m == Size - l
  <2>3. m \in 0..(Size - 1) /\ Size - 1 - m = l - 1 /\ l - 1 \in Index /\ l - 1 < Len(q) BY <1>a, <1>b, <2>1 DEF Index
  <2>4. full[l - 1] = "/" BY <1>b, <1>c, <2>1, <2>2, <2>3
  <2>5. Cut(full, m) \in keys BY <1>e, <2>1
  <2>6. QED BY <2>3, <2>4, <2>5 DEF Hit
<1>4. QED
  <2>1. HitBy(full, keys, Size - 1) => Listed(q, paths) BY <1>1 DEF HitBy
  <2>2. Listed(q, paths) => HitBy(full, keys, Size - 1)
    <3>1. SUFFICES ASSUME NEW r \in paths, r = q \/ (r # << >> /\ r[Len(r)] = "/" /\ IsPrefix(r, q))
                   PROVE  HitBy(full, keys, Size - 1)
      BY DEF Listed
    <3>2. 0 \in 0..(Size - 1) BY <1>a
    <3>3. CASE r = q BY <1>2, <3>2, <3>3 DEF HitBy
    <3>4. CASE r # << >> /\ r[Len(r)] = "/" /\ IsPrefix(r, q) BY <1>3, <3>4 DEF HitBy
    <3>5. QED BY <3>1, <3>3, <3>4
  <2>3. QED BY <2>1, <2>2

(* path_in_map against its meaning: on what bpf_probe_read_str leaves of   *)
(* any path in any buffer, it says whether the path or a directory above   *)
(* it is one of those whose keys the daemon has put into the map.          *)
THEOREM PathInMapExact ==
    ASSUME NEW p \in Seq(Char), NEW buf \in Buffer, NEW paths \in SUBSET Seq(Char)
    PROVE  path_in_map(ReadStr(buf, p), {pathToKey(r) : r \in paths})
           <=> Listed(SubSeq(p, 1, StrLen(p) - 1), paths)
<1> DEFINE read == SubSeq(p, 1, StrLen(p) - 1)
<1>1. /\ read \in Seq(Char) /\ Fits(read)
      /\ ReadStr(Zeroed, StringOf(ReadStr(buf, p))) = pathToKey(read)
  BY ReadIsKey
<1> HIDE DEF read
<1>2. pathToKey(read) \in Buffer BY <1>1, BufferTypes
<1>3. path_in_map(ReadStr(buf, p), {pathToKey(r) : r \in paths})
      = HitBy(pathToKey(read), {pathToKey(r) : r \in paths}, Size - 1)
  BY <1>1, <1>2, WalkIs
<1>4. QED BY <1>1, <1>3, HitIsListed DEF read

(* So the two lookups of handle_open_checks are those of their lists.      *)
LEMMA OpensExact ==
    ASSUME SensInv
    PROVE  OpenJudged
<1>1. primary \in Buffer /\ Path \subseteq Seq(Char) /\ Suspicious \in SUBSET Seq(Char)
      /\ SensitiveWrite \in SUBSET Seq(Char)
  BY SensorsAssumption DEF SensorsAssumption, SensInv, HookInv
<1>2. ASSUME NEW p \in Path
      PROVE  LET events == OpenEvents(read_path(primary, p).buf, TRUE)
                 read == SubSeq(p, 1, StrLen(p) - 1)
             IN /\ "OPEN_SENSITIVE" \in events <=> Listed(read, Suspicious)
                /\ "SENSITIVE_WRITE" \in events <=> Listed(read, SensitiveWrite)
  <2> DEFINE b == ReadStr(primary, p) read == SubSeq(p, 1, StrLen(p) - 1)
  <2>1. read_path(primary, p).buf = b BY DEF read_path
  <2>2. path_in_map(b, suspicious_paths) <=> Listed(read, Suspicious)
    BY <1>1, PathInMapExact DEF suspicious_paths
  <2>3. path_in_map(b, sensitive_write_paths) <=> Listed(read, SensitiveWrite)
    BY <1>1, PathInMapExact DEF sensitive_write_paths
  <2> HIDE DEF b, read
  <2>4. /\ "OPEN_SENSITIVE" \in OpenEvents(b, TRUE) <=> path_in_map(b, suspicious_paths)
        /\ "SENSITIVE_WRITE" \in OpenEvents(b, TRUE) <=> path_in_map(b, sensitive_write_paths)
    BY DEF OpenEvents
  <2>5. QED BY <2>1, <2>2, <2>3, <2>4 DEF read
<1>3. QED BY <1>2 DEF OpenJudged

(* An open is reported exactly when its path, or a directory above it, is  *)
(* listed, whatever earlier programs have left in the scratch buffer.      *)
THEOREM OpensJudged == Spec => []OpenJudged
<1>1. SensInv => OpenJudged BY OpensExact
<1>2. QED BY <1>1, SensInitially, SensInductive, PTL DEF Spec
=============================================================================
