-------------------------- MODULE DnsEgressProofs ---------------------------
(* Proofs about the way of a DNS answer into an alert, for any queries,    *)
(* keys, cgroups, packets, CPUs and size of the ring buffer: an answer is  *)
(* that of its query, and a destination that one reported is named.        *)
EXTENDS DnsEgress, TLAPS

(* A program that holds a record knows which query it is about, and holds  *)
(* exactly one record.                                                     *)
IsBusy(i, c) == rb[i].st = "busy" /\ rb[i].cpu = c
Held ==
    /\ \A c \in Cpu : rd[c].q = Nil => rd[c] = Idle
    /\ \A i \in DOMAIN rb : rb[i].st = "busy" => rd[rb[i].cpu].q = rb[i].q
    /\ \A i, j \in DOMAIN rb, c \in Cpu : IsBusy(i, c) /\ IsBusy(j, c) => i = j
    /\ \A c \in Cpu : rd[c] # Idle => \E i \in DOMAIN rb : IsBusy(i, c)
RingInv == TypeOK /\ Held

(* What a packet tells the process and the program.                        *)
LEMMA PacketTyped ==
    ASSUME NEW r \in Packets
    PROVE  Addresses(r) \subseteq Ip /\ FirstAddr(r) \in Ip \cup {Nil}
<1>1. r.records \in Seq(Ip \cup {Other}) BY DnsAssumption DEF Replies
<1>2. \A n \in DOMAIN r.records : r.records[n] \in Ip \cup {Other} /\ n \in Nat BY <1>1
<1>3. Addresses(r) \subseteq Ip BY <1>2 DEF Addresses
<1>4. CASE Inspected(r) = {} BY <1>3, <1>4 DEF FirstAddr
<1>5. ASSUME Inspected(r) # {} PROVE FirstAddr(r) \in Ip
  <2>1. \A n \in Inspected(r) : n \in {1, 2} /\ r.records[n] \in Ip
    BY <1>1, <1>2 DEF Inspected
  <2>2. \E n \in Inspected(r) : \A m \in Inspected(r) : n <= m BY <1>5, <2>1
  <2>3. QED BY <1>5, <2>1, <2>2 DEF FirstAddr
<1>6. QED BY <1>3, <1>4, <1>5

(* A record that is reserved is a dns_answer_event.                        *)
LEMMA BusyIsAnswer ==
    ASSUME TypeOK, NEW i \in DOMAIN rb, rb[i].st = "busy" \/ rb[i].type = "DNS_ANSWER"
    PROVE  rb[i] \in Answers
<1>1. rb[i] \in Answers \cup Egress BY DEF TypeOK
<1>2. QED BY <1>1 DEF Egress

(* The record that a program holds.                                        *)
LEMMA SlotIsHeld ==
    ASSUME RingInv, NEW c \in Cpu, rd[c] # Idle
    PROVE  /\ Slot(c) \in DOMAIN rb /\ IsBusy(Slot(c), c) /\ rb[Slot(c)] \in Answers
           /\ rb[Slot(c)].q = rd[c].q /\ rd[c].q \in Query
           /\ \A j \in DOMAIN rb : IsBusy(j, c) => j = Slot(c)
<1>1. \E i \in DOMAIN rb : rb[i].st = "busy" /\ rb[i].cpu = c BY DEF RingInv, Held, IsBusy
<1>2. Slot(c) \in DOMAIN rb /\ rb[Slot(c)].st = "busy" /\ rb[Slot(c)].cpu = c BY <1>1 DEF Slot
<1>3. rb[Slot(c)] \in Answers BY <1>2, BusyIsAnswer DEF RingInv
<1>4. rb[Slot(c)].q = rd[c].q BY <1>2 DEF RingInv, Held
<1>5. rd[c].q \in Query BY <1>3, <1>4 DEF Answers
<1>6. \A j \in DOMAIN rb : IsBusy(j, c) => j = Slot(c) BY <1>2 DEF RingInv, Held, IsBusy
<1>7. QED BY <1>2, <1>3, <1>4, <1>5, <1>6 DEF IsBusy

(* What a new record, the reader, and a program that writes the record it  *)
(* holds make of the ring buffer.                                          *)
LEMMA Appended ==
    ASSUME NEW S, NEW b \in Seq(S), NEW r \in S
    PROVE  /\ Append(b, r) \in Seq(S) /\ Len(Append(b, r)) = Len(b) + 1
           /\ Len(b) + 1 \in DOMAIN Append(b, r) /\ Append(b, r)[Len(b) + 1] = r
           /\ \A i \in DOMAIN b : i \in DOMAIN Append(b, r) /\ Append(b, r)[i] = b[i] /\ i < Len(b) + 1
           /\ \A i \in DOMAIN Append(b, r) : i \in DOMAIN b \/ i = Len(b) + 1
OBVIOUS

LEMMA Shifted ==
    ASSUME NEW S, NEW b \in Seq(S), b # << >>
    PROVE  /\ Tail(b) \in Seq(S) /\ Len(Tail(b)) = Len(b) - 1 /\ 1 \in DOMAIN b /\ Head(b) = b[1]
           /\ \A i \in DOMAIN Tail(b) : i \in Nat /\ i + 1 \in DOMAIN b /\ Tail(b)[i] = b[i + 1]
           /\ \A j \in DOMAIN b : j # 1 => j \in Nat /\ j - 1 \in DOMAIN Tail(b) /\ Tail(b)[j - 1] = b[j]
OBVIOUS

LEMMA Rewritten ==
    ASSUME NEW S, NEW b \in Seq(S), NEW s \in DOMAIN b, NEW r \in S, NEW c, c = [b EXCEPT ![s] = r]
    PROVE  /\ c \in Seq(S) /\ Len(c) = Len(b) /\ DOMAIN c = DOMAIN b
           /\ \A i \in DOMAIN b : c[i] = IF i = s THEN r ELSE b[i]
<1>1. b \in [1..Len(b) -> S] /\ DOMAIN b = 1..Len(b) /\ Len(b) \in Nat OBVIOUS
<1>2. c \in [1..Len(b) -> S] BY <1>1
<1>3. QED BY <1>1, <1>2

(* The record after Pair has copied the two fields, and after Submit.      *)
PairedRecord(c, v, w) ==
    [rb[Slot(c)] EXCEPT !.cgroup = v.cgroup, !.name = w.name,
                        !.torn = \E x, y \in rd[c].vals : x # y]
SubmittedRecord(c) ==
    [rb[Slot(c)] EXCEPT !.st = IF rb[Slot(c)].ip = Nil THEN "discard" ELSE "ready"]

LEMMA PairRewrites ==
    ASSUME RingInv, NEW c \in Cpu, Pair(c)
    PROVE  \E v, w \in rd[c].vals : rb' = [rb EXCEPT ![Slot(c)] = PairedRecord(c, v, w)]
<1>1. rd[c] # Idle BY DEF Pair, Idle
<1>2. Slot(c) \in DOMAIN rb BY <1>1, SlotIsHeld
<1>3. PICK v, w \in rd[c].vals :
          rb' = [rb EXCEPT ![Slot(c)].cgroup = v.cgroup, ![Slot(c)].name = w.name,
                           ![Slot(c)].torn = \E x, y \in rd[c].vals : x # y]
  BY DEF Pair
<1>4. QED BY <1>2, <1>3 DEF PairedRecord, RingInv, TypeOK

LEMMA PairedTyped ==
    ASSUME RingInv, NEW c \in Cpu, rd[c] # Idle, NEW v \in rd[c].vals, NEW w \in rd[c].vals
    PROVE  /\ PairedRecord(c, v, w) \in Answers
           /\ PairedRecord(c, v, w).st = "busy" /\ PairedRecord(c, v, w).cpu = c
           /\ PairedRecord(c, v, w).q = rd[c].q /\ PairedRecord(c, v, w).ip = rb[Slot(c)].ip
           /\ PairedRecord(c, v, w).cgroup = v.cgroup /\ PairedRecord(c, v, w).name = w.name
           /\ PairedRecord(c, v, w).type = "DNS_ANSWER"
           /\ PairedRecord(c, v, w).torn <=> \E x, y \in rd[c].vals : x # y
<1>1. rb[Slot(c)] \in Answers /\ rb[Slot(c)].st = "busy" /\ rb[Slot(c)].cpu = c /\ rb[Slot(c)].q = rd[c].q
  BY SlotIsHeld DEF IsBusy
<1>2. v \in Values /\ w \in Values BY DEF RingInv, TypeOK
<1> DEFINE t == \E x, y \in rd[c].vals : x # y
<1>3. t \in BOOLEAN OBVIOUS
<1> HIDE DEF t
<1>4. PairedRecord(c, v, w) = [rb[Slot(c)] EXCEPT !.cgroup = v.cgroup, !.name = w.name, !.torn = t]
  BY DEF PairedRecord, t
<1>5. /\ PairedRecord(c, v, w) \in Answers
      /\ PairedRecord(c, v, w).st = "busy" /\ PairedRecord(c, v, w).cpu = c
      /\ PairedRecord(c, v, w).q = rd[c].q /\ PairedRecord(c, v, w).ip = rb[Slot(c)].ip
      /\ PairedRecord(c, v, w).cgroup = v.cgroup /\ PairedRecord(c, v, w).name = w.name
      /\ PairedRecord(c, v, w).type = "DNS_ANSWER"
  BY <1>1, <1>2, <1>3, <1>4 DEF Answers, Values
<1>6. PairedRecord(c, v, w).torn = t BY <1>1, <1>4 DEF Answers
<1>7. QED BY <1>5, <1>6, Zenon DEF t

LEMMA SubmitRewrites ==
    ASSUME RingInv, NEW c \in Cpu, Submit(c)
    PROVE  /\ rb' = [rb EXCEPT ![Slot(c)] = SubmittedRecord(c)]
           /\ SubmittedRecord(c) \in Answers
           /\ SubmittedRecord(c).st = IF rb[Slot(c)].ip = Nil THEN "discard" ELSE "ready"
           /\ SubmittedRecord(c).q = rd[c].q /\ SubmittedRecord(c).ip = rb[Slot(c)].ip
           /\ SubmittedRecord(c).cgroup = rb[Slot(c)].cgroup /\ SubmittedRecord(c).name = rb[Slot(c)].name
           /\ SubmittedRecord(c).type = "DNS_ANSWER" /\ SubmittedRecord(c).torn = rb[Slot(c)].torn
<1>1. Slot(c) \in DOMAIN rb /\ rb[Slot(c)] \in Answers /\ rb[Slot(c)].q = rd[c].q
  BY SlotIsHeld DEF Submit
<1>2. rb' = [rb EXCEPT ![Slot(c)] = SubmittedRecord(c)]
  BY <1>1 DEF Submit, SubmittedRecord, RingInv, TypeOK
<1>3. QED BY <1>1, <1>2 DEF SubmittedRecord, Answers

(* The egress tracepoints, and what they do to the ring buffer.            *)
Calls ==
    \E q \in Query : \E ip \in Addresses(reply[q]) :
        \/ tp_connect(q, ip) \/ tp_sendto(q, ip) \/ tp_sendmsg(q, ip)
        \/ \E rest \in SUBSET Query : tp_sendmmsg(q, ip, rest)
Event(type, q, ip) ==
    [type |-> type, st |-> "ready", cgroup |-> Owner[q], ip |-> ip, after |-> ip \in noted]

LEMMA EventTyped ==
    ASSUME TypeOK, NEW type \in {"CONNECT", "SENDTO"}, NEW q \in Query, NEW ip \in Ip
    PROVE  /\ Event(type, q, ip) \in Egress /\ Event(type, q, ip).type = type
           /\ Event(type, q, ip).st = "ready" /\ Event(type, q, ip).ip = ip
           /\ Event(type, q, ip).after <=> ip \in noted
<1> DEFINE a == ip \in noted
<1>1. a \in BOOLEAN OBVIOUS
<1> HIDE DEF a
<1>2. Event(type, q, ip) = [type |-> type, st |-> "ready", cgroup |-> Owner[q], ip |-> ip, after |-> a]
  BY DEF Event, a
<1>3. Owner[q] \in Cgroup BY DnsAssumption
<1>4. /\ Event(type, q, ip) \in Egress /\ Event(type, q, ip).type = type
      /\ Event(type, q, ip).st = "ready" /\ Event(type, q, ip).ip = ip
  BY <1>1, <1>2, <1>3 DEF Egress
<1>5. Event(type, q, ip).after = a BY <1>2
<1>6. QED BY <1>4, <1>5, Zenon DEF a

LEMMA CallsReport ==
    ASSUME TypeOK, Calls
    PROVE  /\ UNCHANGED <<sent, reply, kernelVars, learnt, cacheVars, noted>> /\ calls' \in 0..MaxCalls
           /\ \/ rb' = rb
              \/ \E type \in {"CONNECT", "SENDTO"}, q \in Query, ip \in Ip :
                    Len(rb) < RingSize /\ rb' = Append(rb, Event(type, q, ip))
<1>0. PICK q \in Query : \E ip \in Addresses(reply[q]) :
        \/ tp_connect(q, ip) \/ tp_sendto(q, ip) \/ tp_sendmsg(q, ip)
        \/ \E rest \in SUBSET Query : tp_sendmmsg(q, ip, rest)
  BY DEF Calls
<1>1. PICK ip \in Addresses(reply[q]), type \in {"CONNECT", "SENDTO"}, qs \in SUBSET Query :
          Call(qs) /\ Report(type, q, ip)
  BY <1>0 DEF tp_connect, tp_sendto, tp_sendmsg, tp_sendmmsg
<1>2. UNCHANGED <<sent, reply, kernelVars, learnt, cacheVars, noted>> BY <1>1 DEF Call
<1>3. calls' \in 0..MaxCalls BY <1>1, DnsAssumption DEF Call, TypeOK
<1>4. ip \in Ip BY <1>1, PacketTyped DEF TypeOK
<1>5. rb' = rb \/ (Len(rb) < RingSize /\ rb' = Append(rb, Event(type, q, ip)))
  <2>1. rb' = IF Len(rb) < RingSize THEN Append(rb, Event(type, q, ip)) ELSE rb
    BY <1>1, Zenon DEF Report, HasRoom, Event
  <2>2. QED BY <2>1, DnsAssumption DEF TypeOK
<1>6. QED BY <1>2, <1>3, <1>4, <1>5

(* The answers that the programs of the CPUs handle.                       *)
LEMMA BusyTyped ==
    ASSUME TypeOK, NEW c \in Cpu, NEW q \in Query
    PROVE  /\ Busy(c, q) \in Answers /\ Busy(c, q).st = "busy" /\ Busy(c, q).cpu = c /\ Busy(c, q).q = q
           /\ Busy(c, q).name = q /\ Busy(c, q).cgroup = Owner[q] /\ Busy(c, q).ip = FirstAddr(reply[q])
           /\ Busy(c, q).type = "DNS_ANSWER"
<1>1. Owner[q] \in Cgroup /\ FirstAddr(reply[q]) \in Ip \cup {Nil}
  BY DnsAssumption, PacketTyped DEF TypeOK
<1>2. QED BY <1>1 DEF Busy, Answers

LEMMA UpdateKeeps ==
    ASSUME TypeOK, NEW key \in Key, NEW val \in Values, Update(key, val)
    PROVE  /\ table' \in [Key -> Values \cup {Nil}]
           /\ rd' \in [Cpu -> [q : Query \cup {Nil}, vals : SUBSET Values]]
           /\ \A k \in Key : table'[k] \in {table[k], Nil} \/ (k = key /\ table'[k] = val)
           /\ \A c \in Cpu : /\ rd'[c].q = rd[c].q /\ (rd'[c] = Idle <=> rd[c] = Idle)
                             /\ \/ rd'[c].vals = rd[c].vals
                                \/ rd[c].vals # {} /\ rd'[c].vals = rd[c].vals \cup {val}
<1>1. PICK evicted \in Key \cup {Nil}, held \in SUBSET {c \in Cpu : rd[c].vals # {}} :
        /\ table' = [k \in Key |-> IF k = key THEN val
                                   ELSE IF k = evicted THEN Nil ELSE table[k]]
        /\ rd' = [c \in Cpu |-> IF c \in held THEN [rd[c] EXCEPT !.vals = @ \cup {val}] ELSE rd[c]]
  BY DEF Update
<1>2. table' \in [Key -> Values \cup {Nil}] BY <1>1 DEF TypeOK
<1>3. ASSUME NEW c \in Cpu
      PROVE  /\ rd'[c] \in [q : Query \cup {Nil}, vals : SUBSET Values]
             /\ rd'[c].q = rd[c].q /\ (rd'[c] = Idle <=> rd[c] = Idle)
             /\ rd'[c].vals = rd[c].vals \/ (rd[c].vals # {} /\ rd'[c].vals = rd[c].vals \cup {val})
  <2>1. rd[c] \in [q : Query \cup {Nil}, vals : SUBSET Values] BY DEF TypeOK
  <2>2. CASE c \in held
    <3>1. rd'[c] = [rd[c] EXCEPT !.vals = rd[c].vals \cup {val}] /\ rd[c].vals # {} BY <1>1, <2>2
    <3>2. rd'[c] \in [q : Query \cup {Nil}, vals : SUBSET Values] /\ rd'[c].q = rd[c].q
          /\ rd'[c].vals = rd[c].vals \cup {val}
      BY <2>1, <3>1
    <3>3. rd[c] # Idle /\ rd'[c] # Idle BY <3>1, <3>2 DEF Idle
    <3>4. QED BY <3>1, <3>2, <3>3
  <2>3. CASE c \notin held
    <3>1. rd'[c] = rd[c] BY <1>1, <2>3, Zenon
    <3>2. QED BY <2>1, <3>1, Zenon
  <2>4. QED BY <2>2, <2>3
<1>4. rd' \in [Cpu -> [q : Query \cup {Nil}, vals : SUBSET Values]] BY <1>1, <1>3
<1>5. \A k \in Key : table'[k] \in {table[k], Nil} \/ (k = key /\ table'[k] = val)
  BY <1>1, <1>2
<1>6. QED BY <1>2, <1>3, <1>4, <1>5

(* A step is one of these.                                                 *)
Asks == \E q \in Query : tc_egress_dns(q)
Arrives == \E c \in Cpu, q \in Query : Unpaired(c, q)
LookedUp == \E c \in Cpu, q \in Query : Lookup(c, q)
Paired == \E c \in Cpu : Pair(c)
Submitted == \E c \in Cpu : Submit(c)

LEMMA StepCases ==
    ASSUME [Next]_vars
    PROVE  \/ Asks \/ Calls \/ Arrives \/ LookedUp \/ Paired \/ Submitted
           \/ Skip \/ decodeDnsAnswer \/ decodeNetworkEgress \/ Forget \/ UNCHANGED vars
BY DEF Next, Ingress, Userspace, Asks, Calls, Arrives, LookedUp, Paired, Submitted

LEMMA AskWrites ==
    ASSUME TypeOK, Asks
    PROVE  \E q \in Query, k \in Key, c \in Cgroup :
               /\ sent[q] \in {Nil, k} /\ sent' = [sent EXCEPT ![q] = k]
               /\ q \in Forwarded \/ c = Owner[q]
               /\ [cgroup |-> c, name |-> q] \in Values
               /\ Update(k, [cgroup |-> c, name |-> q])
               /\ calls' \in 0..MaxCalls
               /\ UNCHANGED <<reply, learnt, rb, cacheVars, noted>>
<1>1. PICK q \in Query : tc_egress_dns(q) BY DEF Asks
<1>2. PICK k \in IF sent[q] = Nil THEN Key ELSE {sent[q]},
           c \in IF q \in Forwarded THEN Cgroup ELSE {Owner[q]} :
          sent' = [sent EXCEPT ![q] = k] /\ Update(k, [cgroup |-> c, name |-> q])
  BY <1>1, Zenon DEF tc_egress_dns
<1>3. sent[q] \in Key \cup {Nil} /\ Owner[q] \in Cgroup BY DnsAssumption DEF TypeOK
<1>4. k \in Key /\ sent[q] \in {Nil, k} BY <1>2, <1>3
<1>5. c \in Cgroup /\ (q \in Forwarded \/ c = Owner[q]) BY <1>2, <1>3
<1>6. [cgroup |-> c, name |-> q] \in Values BY <1>5 DEF Values
<1>7. calls' \in 0..MaxCalls BY <1>1, DnsAssumption DEF tc_egress_dns, TypeOK
<1>8. UNCHANGED <<reply, learnt, rb, cacheVars, noted>> BY <1>1 DEF tc_egress_dns
<1>9. QED BY <1>2, <1>4, <1>5, <1>6, <1>7, <1>8

LEMMA DeleteKeeps ==
    ASSUME TypeOK, NEW key, Delete(key)
    PROVE  /\ table' \in [Key -> Values \cup {Nil}]
           /\ \A k \in Key : table'[k] \in {table[k], Nil}
BY DEF TypeOK, Delete

LEMMA LearnKeeps ==
    ASSUME TypeOK, NEW q \in Query, Learn(q)
    PROVE  learnt' \subseteq Query
BY DEF TypeOK, Learn

(* The reader takes a record that is not reserved.                         *)
LEMMA ReaderTakes ==
    ASSUME TypeOK, Skip \/ decodeDnsAnswer \/ decodeNetworkEgress
    PROVE  /\ rb # << >> /\ rb[1].st # "busy" /\ rb' = Tail(rb)
           /\ UNCHANGED <<sent, reply, kernelVars, learnt, calls, noted, forgotten>>
<1>1. rb # << >> => Head(rb) = rb[1] BY DEF TypeOK
<1>2. QED BY <1>1 DEF Skip, decodeDnsAnswer, decodeNetworkEgress, Readable, cacheVars

LEMMA CachesKeep ==
    ASSUME TypeOK, Skip \/ decodeDnsAnswer \/ decodeNetworkEgress
    PROVE  /\ ipScoped' \in [Cgroup \X Ip -> Query \cup {Nil}]
           /\ ipFallback' \in [Ip -> Query \cup {Nil}]
           /\ missed' \subseteq Ip
<1>1. rb # << >> /\ rb[1].st # "busy" BY ReaderTakes
<1>2. Head(rb) = rb[1] /\ 1 \in DOMAIN rb BY <1>1 DEF TypeOK
<1>3. CASE Skip BY <1>3 DEF Skip, cacheVars, TypeOK
<1>4. CASE decodeDnsAnswer
  <2>1. rb[1] \in Answers BY <1>2, <1>4, BusyIsAnswer DEF decodeDnsAnswer
  <2>2. rb[1].cgroup \in Cgroup /\ rb[1].name \in Query BY <2>1 DEF Answers
  <2>3. QED BY <1>2, <1>4, <2>2 DEF decodeDnsAnswer, RecordIPDomain, TypeOK
<1>5. CASE decodeNetworkEgress
  <2>1. rb[1] \in Answers \cup Egress BY <1>2 DEF TypeOK
  <2>2. rb[1].ip \in Ip BY <1>2, <1>5, <2>1 DEF decodeNetworkEgress, Answers, Egress
  <2>3. missed' = missed \/ missed' = missed \cup {rb[1].ip}
    BY <1>2, <1>5 DEF decodeNetworkEgress
  <2>4. QED BY <1>5, <2>2, <2>3 DEF decodeNetworkEgress, TypeOK
<1>6. QED BY <1>3, <1>4, <1>5

LEMMA TypeInductive ==
    ASSUME RingInv, [Next]_vars
    PROVE  TypeOK'
<1> USE DEF cacheVars, kernelVars
<1>0. TypeOK BY DEF RingInv
<1>1. CASE Asks
  <2>1. PICK q \in Query, k \in Key, c \in Cgroup :
               /\ sent' = [sent EXCEPT ![q] = k]
               /\ [cgroup |-> c, name |-> q] \in Values
               /\ Update(k, [cgroup |-> c, name |-> q])
               /\ calls' \in 0..MaxCalls
               /\ UNCHANGED <<reply, learnt, rb, cacheVars, noted>>
    BY <1>0, <1>1, AskWrites
  <2>2. /\ table' \in [Key -> Values \cup {Nil}]
        /\ rd' \in [Cpu -> [q : Query \cup {Nil}, vals : SUBSET Values]]
    BY <1>0, <2>1, UpdateKeeps
  <2>3. sent' \in [Query -> Key \cup {Nil}] BY <1>0, <2>1 DEF TypeOK
  <2>4. QED BY <1>0, <2>1, <2>2, <2>3 DEF TypeOK
<1>2. CASE Calls
  <2>1. /\ UNCHANGED <<sent, reply, kernelVars, learnt, cacheVars, noted>> /\ calls' \in 0..MaxCalls
        /\ \/ rb' = rb
           \/ \E type \in {"CONNECT", "SENDTO"}, q \in Query, ip \in Ip :
                 Len(rb) < RingSize /\ rb' = Append(rb, Event(type, q, ip))
    BY <1>0, <1>2, CallsReport
  <2>2. rb' \in Seq(Answers \cup Egress) /\ Len(rb') <= RingSize
    <3>1. CASE rb' = rb BY <1>0, <3>1 DEF TypeOK
    <3>2. ASSUME NEW type \in {"CONNECT", "SENDTO"}, NEW q \in Query, NEW ip \in Ip,
                 Len(rb) < RingSize, rb' = Append(rb, Event(type, q, ip))
          PROVE  rb' \in Seq(Answers \cup Egress) /\ Len(rb') <= RingSize
      <4>1. Event(type, q, ip) \in Answers \cup Egress BY <1>0, EventTyped
      <4>2. QED BY <1>0, <3>2, <4>1, Appended, DnsAssumption DEF TypeOK
    <3>3. QED BY <2>1, <3>1, <3>2
  <2>3. QED BY <1>0, <2>1, <2>2 DEF TypeOK
<1>3. CASE Arrives
  <2>1. PICK c \in Cpu, q \in Query : Unpaired(c, q) BY <1>3 DEF Arrives
  <2>2. table' = table \/ Delete(sent[q]) BY <2>1 DEF Unpaired
  <2>3. table' \in [Key -> Values \cup {Nil}]
    <3>1. CASE table' = table BY <1>0, <3>1 DEF TypeOK
    <3>2. CASE Delete(sent[q]) BY <1>0, <3>2, DeleteKeeps
    <3>3. QED BY <2>2, <3>1, <3>2
  <2>4. learnt' \subseteq Query BY <1>0, <2>1, LearnKeeps DEF Unpaired
  <2>5. UNCHANGED <<sent, reply, rd, rb, cacheVars, calls, noted>> BY <2>1 DEF Unpaired
  <2>6. QED BY <1>0, <2>3, <2>4, <2>5 DEF TypeOK
<1>4. CASE LookedUp
  <2>1. PICK c \in Cpu, q \in Query : Lookup(c, q) BY <1>4 DEF LookedUp
  <2>2. Entry(q) \in Values BY <1>0, <2>1 DEF Lookup, Entry, TypeOK
  <2>3. rd' \in [Cpu -> [q : Query \cup {Nil}, vals : SUBSET Values]]
    BY <1>0, <2>1, <2>2 DEF Lookup, TypeOK
  <2>4. rb' \in Seq(Answers \cup Egress) /\ Len(rb') <= RingSize
    BY <1>0, <2>1, BusyTyped, Appended, DnsAssumption DEF Lookup, HasRoom, TypeOK
  <2>5. noted' \subseteq Ip /\ UNCHANGED <<sent, reply, table, learnt, cacheVars, calls>>
    BY <1>0, <2>1, PacketTyped DEF Lookup, TypeOK
  <2>6. QED BY <1>0, <2>3, <2>4, <2>5 DEF TypeOK
<1>5. CASE Paired
  <2>1. PICK c \in Cpu : Pair(c) BY <1>5 DEF Paired
  <2>2. rd[c] # Idle BY <2>1 DEF Pair, Idle
  <2>3. PICK v, w \in rd[c].vals : rb' = [rb EXCEPT ![Slot(c)] = PairedRecord(c, v, w)]
    BY <2>1, PairRewrites
  <2>4. PairedRecord(c, v, w) \in Answers /\ Slot(c) \in DOMAIN rb BY <2>2, PairedTyped, SlotIsHeld
  <2>5. rb' \in Seq(Answers \cup Egress) /\ Len(rb') <= RingSize
    BY <1>0, <2>3, <2>4, Rewritten DEF TypeOK
  <2>6. table' \in [Key -> Values \cup {Nil}] BY <1>0, <2>1, DeleteKeeps DEF Pair
  <2>7. rd' \in [Cpu -> [q : Query \cup {Nil}, vals : SUBSET Values]]
    BY <1>0, <2>1 DEF Pair, TypeOK
  <2>8. UNCHANGED <<sent, reply, learnt, cacheVars, calls, noted>> BY <2>1 DEF Pair
  <2>9. QED BY <1>0, <2>5, <2>6, <2>7, <2>8 DEF TypeOK
<1>6. CASE Submitted
  <2>1. PICK c \in Cpu : Submit(c) BY <1>6 DEF Submitted
  <2>2. rd[c].q \in Query /\ Slot(c) \in DOMAIN rb BY <2>1, SlotIsHeld DEF Submit
  <2>3. rb' = [rb EXCEPT ![Slot(c)] = SubmittedRecord(c)] /\ SubmittedRecord(c) \in Answers
    BY <2>1, SubmitRewrites
  <2>4. rb' \in Seq(Answers \cup Egress) /\ Len(rb') <= RingSize
    BY <1>0, <2>2, <2>3, Rewritten DEF TypeOK
  <2>5. rd' \in [Cpu -> [q : Query \cup {Nil}, vals : SUBSET Values]]
    BY <1>0, <2>1 DEF Submit, TypeOK, Idle
  <2>6. learnt' \subseteq Query BY <1>0, <2>1, <2>2, LearnKeeps DEF Submit
  <2>7. UNCHANGED <<sent, reply, table, cacheVars, calls, noted>> BY <2>1 DEF Submit
  <2>8. QED BY <1>0, <2>4, <2>5, <2>6, <2>7 DEF TypeOK
<1>7. CASE Skip \/ decodeDnsAnswer \/ decodeNetworkEgress
  <2>1. /\ rb # << >> /\ rb' = Tail(rb)
        /\ UNCHANGED <<sent, reply, kernelVars, learnt, calls, noted, forgotten>>
    BY <1>0, <1>7, ReaderTakes
  <2>2. rb' \in Seq(Answers \cup Egress) /\ Len(rb') <= RingSize
    BY <1>0, <2>1, Shifted, DnsAssumption DEF TypeOK
  <2>3. QED BY <1>0, <1>7, <2>1, <2>2, CachesKeep DEF TypeOK
<1>8. CASE Forget BY <1>0, <1>8 DEF Forget, TypeOK
<1>9. CASE UNCHANGED vars BY <1>0, <1>9 DEF vars, TypeOK
<1>10. QED BY <1>1, <1>2, <1>3, <1>4, <1>5, <1>6, <1>7, <1>8, <1>9, StepCases

(* What the programs hold is not disturbed by a step that leaves the ring  *)
(* buffer, or the one that only appends a ready record or takes the first. *)
LEMMA HeldInductive ==
    ASSUME RingInv, [Next]_vars
    PROVE  Held'
<1> USE DEF cacheVars, kernelVars
<1>0. TypeOK /\ Held /\ TypeOK' BY TypeInductive DEF RingInv
<1>a. rb \in Seq(Answers \cup Egress) BY <1>0 DEF TypeOK
<1>1. CASE Asks
  <2>1. PICK q \in Query, k \in Key, c \in Cgroup :
               /\ [cgroup |-> c, name |-> q] \in Values
               /\ Update(k, [cgroup |-> c, name |-> q])
               /\ UNCHANGED <<reply, learnt, rb, cacheVars, noted>>
    BY <1>0, <1>1, AskWrites
  <2>2. \A d \in Cpu : rd'[d].q = rd[d].q /\ (rd'[d] = Idle <=> rd[d] = Idle)
    BY <1>0, <2>1, UpdateKeeps
  <2>3. \A i \in DOMAIN rb : rb[i].st = "busy" => rb[i].cpu \in Cpu
    BY <1>0, BusyIsAnswer DEF Answers
  <2>4. QED BY <1>0, <2>1, <2>2, <2>3 DEF Held, IsBusy
<1>2. CASE Calls
  <2>1. /\ rd' = rd
        /\ \/ rb' = rb
           \/ \E type \in {"CONNECT", "SENDTO"}, q \in Query, ip \in Ip :
                 rb' = Append(rb, Event(type, q, ip))
    BY <1>0, <1>2, CallsReport
  <2>2. CASE rb' = rb BY <1>0, <2>1, <2>2 DEF Held, IsBusy
  <2>3. ASSUME NEW type \in {"CONNECT", "SENDTO"}, NEW q \in Query, NEW ip \in Ip,
               rb' = Append(rb, Event(type, q, ip))
        PROVE  Held'
    <3>1. Event(type, q, ip) \in Answers \cup Egress /\ Event(type, q, ip).st = "ready" BY <1>0, EventTyped
    <3>2. /\ \A i \in DOMAIN rb : i \in DOMAIN rb' /\ rb'[i] = rb[i]
          /\ \A i \in DOMAIN rb' : rb'[i].st = "busy" => i \in DOMAIN rb
      BY <1>a, <2>3, <3>1, Appended
    <3>3. QED BY <1>0, <2>1, <3>2 DEF Held, IsBusy
  <2>4. QED BY <2>1, <2>2, <2>3
<1>3. CASE Arrives BY <1>0, <1>3 DEF Arrives, Unpaired, Held, IsBusy
<1>4. CASE LookedUp
  <2>1. PICK c \in Cpu, q \in Query : Lookup(c, q) BY <1>4 DEF LookedUp
  <2>2. rd[c] = Idle /\ rb' = Append(rb, Busy(c, q)) BY <2>1 DEF Lookup
  <2>3. rd'[c] = [q |-> q, vals |-> {Entry(q)}] /\ \A d \in Cpu : d # c => rd'[d] = rd[d]
    BY <1>0, <2>1 DEF Lookup, TypeOK
  <2>4. rd'[c].q = q /\ rd'[c] # Idle /\ q # Nil BY <2>3, DnsAssumption DEF Idle
  <2>5. Busy(c, q) \in Answers \cup Egress /\ Busy(c, q).st = "busy" /\ Busy(c, q).cpu = c /\ Busy(c, q).q = q
    BY <1>0, BusyTyped
  <2>6. \A i \in DOMAIN rb : rb[i].st = "busy" => rb[i].cpu \in Cpu /\ rb[i].cpu # c
    <3>1. ASSUME NEW i \in DOMAIN rb, rb[i].st = "busy" PROVE rb[i].cpu \in Cpu /\ rb[i].cpu # c
      <4>1. rb[i].cpu \in Cpu /\ rb[i].q \in Query BY <1>0, <3>1, BusyIsAnswer DEF Answers
      <4>2. rd[rb[i].cpu].q = rb[i].q BY <1>0, <3>1 DEF Held
      <4>3. rd[c].q = Nil BY <2>2 DEF Idle
      <4>4. QED BY <4>1, <4>2, <4>3, DnsAssumption
    <3>2. QED BY <3>1
  <2> DEFINE n == Len(rb) + 1
  <2>7. /\ n \in DOMAIN rb' /\ rb'[n] = Busy(c, q)
        /\ \A i \in DOMAIN rb : i \in DOMAIN rb' /\ rb'[i] = rb[i] /\ i # n
        /\ \A i \in DOMAIN rb' : i \in DOMAIN rb \/ i = n
    BY <1>a, <2>2, <2>5, Appended
  <2> HIDE DEF n
  <2>8. \A d \in Cpu : rd'[d].q = Nil => rd'[d] = Idle BY <1>0, <2>3, <2>4 DEF Held
  <2>9. \A i \in DOMAIN rb' : rb'[i].st = "busy" => rd'[rb'[i].cpu].q = rb'[i].q
    BY <1>0, <2>3, <2>4, <2>5, <2>6, <2>7 DEF Held
  <2>10. \A i, j \in DOMAIN rb', d \in Cpu :
             rb'[i].st = "busy" /\ rb'[i].cpu = d /\ rb'[j].st = "busy" /\ rb'[j].cpu = d => i = j
    BY <1>0, <2>5, <2>6, <2>7 DEF Held, IsBusy
  <2>11. \A d \in Cpu : rd'[d] # Idle => \E i \in DOMAIN rb' : rb'[i].st = "busy" /\ rb'[i].cpu = d
    BY <1>0, <2>3, <2>5, <2>7 DEF Held, IsBusy
  <2>12. QED BY <2>8, <2>9, <2>10, <2>11 DEF Held, IsBusy
<1>5. CASE Paired
  <2>1. PICK c \in Cpu : Pair(c) BY <1>5 DEF Paired
  <2>2. rd[c] # Idle BY <2>1 DEF Pair, Idle
  <2>3. PICK v, w \in rd[c].vals : rb' = [rb EXCEPT ![Slot(c)] = PairedRecord(c, v, w)]
    BY <2>1, PairRewrites
  <2>4. /\ PairedRecord(c, v, w) \in Answers \cup Egress /\ PairedRecord(c, v, w).st = "busy"
        /\ PairedRecord(c, v, w).cpu = c /\ PairedRecord(c, v, w).q = rd[c].q
    BY <2>2, PairedTyped
  <2>5. Slot(c) \in DOMAIN rb /\ rb[Slot(c)].st = "busy" /\ rb[Slot(c)].cpu = c /\ rb[Slot(c)].q = rd[c].q
    BY <2>2, SlotIsHeld DEF IsBusy
  <2>6. DOMAIN rb' = DOMAIN rb /\ \A i \in DOMAIN rb : rb'[i] = IF i = Slot(c) THEN PairedRecord(c, v, w) ELSE rb[i]
    BY <1>a, <2>3, <2>4, <2>5, Rewritten
  <2>7. \A i \in DOMAIN rb : rb'[i].st = "busy" <=> rb[i].st = "busy" BY <2>4, <2>5, <2>6
  <2>8. \A i \in DOMAIN rb : rb[i].st = "busy" => rb'[i].cpu = rb[i].cpu /\ rb'[i].q = rb[i].q /\ rb[i].cpu \in Cpu
    <3>1. ASSUME NEW i \in DOMAIN rb, rb[i].st = "busy" PROVE rb[i].cpu \in Cpu
      BY <1>0, <3>1, BusyIsAnswer DEF Answers
    <3>2. QED BY <2>4, <2>5, <2>6, <3>1
  <2>9. \A d \in Cpu : rd'[d].q = rd[d].q /\ (d # c => rd'[d] = rd[d]) BY <1>0, <2>1 DEF Pair, TypeOK
  <2>10. rd[c].q # Nil BY <1>0, <2>2 DEF Held
  <2>11. QED BY <1>0, <2>2, <2>6, <2>7, <2>8, <2>9, <2>10 DEF Held, IsBusy
<1>6. CASE Submitted
  <2>1. PICK c \in Cpu : Submit(c) BY <1>6 DEF Submitted
  <2>2. rd[c] # Idle BY <2>1 DEF Submit
  <2>3. /\ rb' = [rb EXCEPT ![Slot(c)] = SubmittedRecord(c)] /\ SubmittedRecord(c) \in Answers \cup Egress
        /\ SubmittedRecord(c).st # "busy"
    BY <2>1, SubmitRewrites
  <2>4. /\ Slot(c) \in DOMAIN rb /\ rb[Slot(c)].st = "busy" /\ rb[Slot(c)].cpu = c
        /\ \A j \in DOMAIN rb : IsBusy(j, c) => j = Slot(c)
    BY <2>2, SlotIsHeld DEF IsBusy
  <2>5. DOMAIN rb' = DOMAIN rb /\ \A i \in DOMAIN rb : rb'[i] = IF i = Slot(c) THEN SubmittedRecord(c) ELSE rb[i]
    BY <1>a, <2>3, <2>4, Rewritten
  <2>6. \A i \in DOMAIN rb : rb'[i].st = "busy" => rb'[i] = rb[i] /\ rb[i].cpu # c /\ rb[i].cpu \in Cpu
    <3>1. ASSUME NEW i \in DOMAIN rb, rb[i].st = "busy" PROVE rb[i].cpu \in Cpu
      BY <1>0, <3>1, BusyIsAnswer DEF Answers
    <3>2. QED BY <2>3, <2>4, <2>5, <3>1 DEF IsBusy
  <2>7. \A i \in DOMAIN rb : rb[i].cpu # c => rb'[i] = rb[i] BY <2>4, <2>5
  <2>8. rd'[c] = Idle /\ \A d \in Cpu : d # c => rd'[d] = rd[d] BY <1>0, <2>1 DEF Submit, TypeOK
  <2>9. QED BY <1>0, <2>5, <2>6, <2>7, <2>8 DEF Held, IsBusy
<1>7. CASE Skip \/ decodeDnsAnswer \/ decodeNetworkEgress
  <2>1. rb # << >> /\ rb[1].st # "busy" /\ rb' = Tail(rb) /\ rd' = rd
    BY <1>0, <1>7, ReaderTakes
  <2>2. /\ \A i \in DOMAIN rb' : i \in Nat /\ i + 1 \in DOMAIN rb /\ rb'[i] = rb[i + 1]
        /\ \A j \in DOMAIN rb : j # 1 => j \in Nat /\ j - 1 \in DOMAIN rb' /\ rb'[j - 1] = rb[j]
    BY <1>a, <2>1, Shifted
  <2>3. \A i \in DOMAIN rb' : rb'[i].st = "busy" => rd'[rb'[i].cpu].q = rb'[i].q
    BY <1>0, <2>1, <2>2 DEF Held
  <2>4. ASSUME NEW i \in DOMAIN rb', NEW j \in DOMAIN rb', NEW c \in Cpu,
               rb'[i].st = "busy", rb'[i].cpu = c, rb'[j].st = "busy", rb'[j].cpu = c
        PROVE  i = j
    <3>1. i + 1 = j + 1 BY <1>0, <2>2, <2>4 DEF Held, IsBusy
    <3>2. QED BY <2>2, <3>1
  <2>5. \A c \in Cpu : rd'[c] # Idle => \E i \in DOMAIN rb' : rb'[i].st = "busy" /\ rb'[i].cpu = c
    <3>1. ASSUME NEW c \in Cpu, rd'[c] # Idle PROVE \E i \in DOMAIN rb' : rb'[i].st = "busy" /\ rb'[i].cpu = c
      <4>1. PICK j \in DOMAIN rb : rb[j].st = "busy" /\ rb[j].cpu = c
        BY <1>0, <2>1, <3>1 DEF Held, IsBusy
      <4>2. j # 1 BY <2>1, <4>1
      <4>3. QED BY <2>2, <4>1, <4>2
    <3>2. QED BY <3>1
  <2>6. QED BY <1>0, <2>1, <2>3, <2>4, <2>5 DEF Held, IsBusy
<1>8. CASE Forget BY <1>0, <1>8 DEF Forget, Held, IsBusy
<1>9. CASE UNCHANGED vars BY <1>0, <1>9 DEF vars, Held, IsBusy
<1>10. QED BY <1>1, <1>2, <1>3, <1>4, <1>5, <1>6, <1>7, <1>8, <1>9, StepCases

LEMMA RingInitially == Init => RingInv
<1> SUFFICES ASSUME Init PROVE RingInv OBVIOUS
<1>1. TypeOK BY DnsAssumption DEF Init, TypeOK, Idle
<1>2. Held BY DEF Init, Held, IsBusy, Idle
<1>3. QED BY <1>1, <1>2 DEF RingInv

LEMMA RingInductive == RingInv /\ [Next]_vars => RingInv'
BY TypeInductive, HeldInductive DEF RingInv

LEMMA RingAlways == Spec => []RingInv
BY RingInitially, RingInductive, PTL DEF Spec

(* The state stays well-typed, and the ring buffer within its size.        *)
THEOREM TypeCorrect == Spec => []TypeOK
<1>1. RingInv => TypeOK BY DEF RingInv
<1>2. QED BY <1>1, RingAlways, PTL

-----------------------------------------------------------------------------
(* Where an answer's name and cgroup come from.  An entry of the map is    *)
(* under the key with which the query it names has left, and has its       *)
(* owner's cgroup; of the values that a program may read, one is the entry *)
(* that it looked up; a record that was not torn is as that entry.         *)
Asked(name, cgroup, key) == sent[name] = key /\ (name \in Forwarded \/ cgroup = Owner[name])
EntryOrigin == \A k \in Key : table[k] # Nil => Asked(table[k].name, table[k].cgroup, k)
ReadOrigin ==
    \A c \in Cpu : rd[c].vals # {} =>
        \E k \in Key : sent[rd[c].q] = k /\ \E v \in rd[c].vals : Asked(v.name, v.cgroup, k)
RecordOrigin ==
    \A i \in DOMAIN rb : rb[i].type = "DNS_ANSWER" =>
        \E k \in Key : sent[rb[i].q] = k /\ (rb[i].torn \/ Asked(rb[i].name, rb[i].cgroup, k))
OriginInv == EntryOrigin /\ ReadOrigin /\ RecordOrigin

(* The three follow when the map has only old entries and that of a query  *)
(* that is leaving, and no key of a query changes.                         *)
LEMMA OriginOfAsk ==
    ASSUME RingInv, OriginInv, Asks
    PROVE  OriginInv'
<1>0. TypeOK BY DEF RingInv
<1>1. PICK q \in Query, k \in Key, g \in Cgroup :
               /\ sent[q] \in {Nil, k} /\ sent' = [sent EXCEPT ![q] = k]
               /\ q \in Forwarded \/ g = Owner[q]
               /\ [cgroup |-> g, name |-> q] \in Values
               /\ Update(k, [cgroup |-> g, name |-> q])
               /\ rb' = rb
  BY <1>0, AskWrites
<1> DEFINE val == [cgroup |-> g, name |-> q]
<1>2. val.cgroup = g /\ val.name = q /\ val \in Values BY <1>1
<1>3. /\ \A j \in Key : table'[j] \in {table[j], Nil} \/ (j = k /\ table'[j] = val)
      /\ \A c \in Cpu : /\ rd'[c].q = rd[c].q
                        /\ \/ rd'[c].vals = rd[c].vals
                           \/ rd[c].vals # {} /\ rd'[c].vals = rd[c].vals \cup {val}
  BY <1>0, <1>1, UpdateKeeps
<1> HIDE DEF val
<1>4. sent'[q] = k /\ \A x, j : x \in Query /\ j \in Key /\ sent[x] = j => sent'[x] = j
  BY <1>0, <1>1, DnsAssumption DEF TypeOK
<1>5. \A x, h, j : x \in Query /\ j \in Key /\ Asked(x, h, j) => Asked(x, h, j)'
  BY <1>4 DEF Asked
<1>6. EntryOrigin'
  <2>1. ASSUME NEW j \in Key, table'[j] # Nil PROVE Asked(table[j].name, table[j].cgroup, j)'
    <3>1. CASE table'[j] = table[j]
      <4>1. table[j] \in Values BY <1>0, <2>1, <3>1 DEF TypeOK
      <4>2. Asked(table[j].name, table[j].cgroup, j) BY <2>1, <3>1 DEF OriginInv, EntryOrigin
      <4>3. QED BY <1>4, <3>1, <4>1, <4>2 DEF Asked, Values
    <3>2. CASE j = k /\ table'[j] = val BY <1>1, <1>2, <1>4, <3>2 DEF Asked
    <3>3. QED BY <1>3, <2>1, <3>1, <3>2
  <2>2. QED BY <2>1 DEF EntryOrigin
<1>7. ReadOrigin'
  <2>1. ASSUME NEW c \in Cpu, rd'[c].vals # {}
        PROVE  \E j \in Key : sent'[rd'[c].q] = j /\ \E v \in rd'[c].vals : Asked(v.name, v.cgroup, j)'
    <3>1. rd[c].vals # {} /\ rd[c].vals \subseteq rd'[c].vals BY <1>3, <2>1
    <3>2. PICK j \in Key : sent[rd[c].q] = j /\ \E v \in rd[c].vals : Asked(v.name, v.cgroup, j)
      BY <3>1 DEF OriginInv, ReadOrigin
    <3>3. PICK v \in rd[c].vals : Asked(v.name, v.cgroup, j) BY <3>2
    <3>4. v.name \in Query BY <1>0, <3>3 DEF TypeOK, Values
    <3>5. rd[c].q \in Query BY <3>1, SlotIsHeld DEF Idle
    <3>6. QED BY <1>3, <1>4, <1>5, <3>1, <3>2, <3>3, <3>4, <3>5
  <2>2. QED BY <2>1 DEF ReadOrigin
<1>8. RecordOrigin'
  <2>1. ASSUME NEW i \in DOMAIN rb, rb[i].type = "DNS_ANSWER"
        PROVE  \E j \in Key : sent'[rb[i].q] = j /\ (rb[i].torn \/ Asked(rb[i].name, rb[i].cgroup, j)')
    <3>1. PICK j \in Key : sent[rb[i].q] = j /\ (rb[i].torn \/ Asked(rb[i].name, rb[i].cgroup, j))
      BY <2>1 DEF OriginInv, RecordOrigin
    <3>2. rb[i].q \in Query /\ rb[i].name \in Query BY <1>0, <2>1, BusyIsAnswer DEF Answers
    <3>3. QED BY <1>1, <1>4, <1>5, <3>1, <3>2
  <2>2. QED BY <1>1, <2>1 DEF RecordOrigin, Asked
<1>9. QED BY <1>6, <1>7, <1>8 DEF OriginInv

(* The other steps change no key, and Asked with it.                       *)
LEMMA OriginInductive ==
    ASSUME RingInv, OriginInv, [Next]_vars
    PROVE  OriginInv'
<1> USE DEF cacheVars, kernelVars
<1>0. TypeOK BY DEF RingInv
<1>a. rb \in Seq(Answers \cup Egress) BY <1>0 DEF TypeOK
<1>1. CASE Asks BY <1>1, OriginOfAsk
<1>b. ASSUME table' \in [Key -> Values \cup {Nil}], \A k \in Key : table'[k] \in {table[k], Nil}, sent' = sent
      PROVE  EntryOrigin'
  BY <1>b DEF OriginInv, EntryOrigin, Asked
<1>c. ASSUME sent' = sent, rd' = rd PROVE ReadOrigin' BY <1>c DEF OriginInv, ReadOrigin, Asked
<1>d. ASSUME sent' = sent, rb' = rb PROVE RecordOrigin' BY <1>d DEF OriginInv, RecordOrigin, Asked
<1>e. ASSUME sent' = sent, table' = table PROVE EntryOrigin' BY <1>e DEF OriginInv, EntryOrigin, Asked
<1>2. CASE Calls
  <2>1. /\ UNCHANGED <<sent, table, rd>>
        /\ \/ rb' = rb
           \/ \E type \in {"CONNECT", "SENDTO"}, q \in Query, ip \in Ip :
                 rb' = Append(rb, Event(type, q, ip))
    BY <1>0, <1>2, CallsReport
  <2>2. ASSUME NEW type \in {"CONNECT", "SENDTO"}, NEW q \in Query, NEW ip \in Ip,
               rb' = Append(rb, Event(type, q, ip))
        PROVE  RecordOrigin'
    <3>1. Event(type, q, ip) \in Answers \cup Egress /\ Event(type, q, ip).type # "DNS_ANSWER" BY <1>0, EventTyped
    <3>2. \A i \in DOMAIN rb' : rb'[i].type = "DNS_ANSWER" => i \in DOMAIN rb /\ rb'[i] = rb[i]
      BY <1>a, <2>2, <3>1, Appended
    <3>3. QED BY <2>1, <3>2 DEF OriginInv, RecordOrigin, Asked
  <2>3. RecordOrigin' BY <1>d, <2>1, <2>2
  <2>4. QED BY <1>c, <1>e, <2>1, <2>3 DEF OriginInv
<1>3. CASE Arrives
  <2>1. PICK c \in Cpu, q \in Query : Unpaired(c, q) BY <1>3 DEF Arrives
  <2>2. UNCHANGED <<sent, rd, rb>> /\ (table' = table \/ Delete(sent[q])) BY <2>1 DEF Unpaired
  <2>3. EntryOrigin' BY <1>0, <1>b, <1>e, <2>2, DeleteKeeps
  <2>4. QED BY <1>c, <1>d, <2>2, <2>3 DEF OriginInv
<1>4. CASE LookedUp
  <2>1. PICK c \in Cpu, q \in Query : Lookup(c, q) BY <1>4 DEF LookedUp
  <2>2. rb' = Append(rb, Busy(c, q)) /\ UNCHANGED <<sent, table>> /\ sent[q] # Nil /\ table[sent[q]] # Nil
    BY <2>1 DEF Lookup, Entry
  <2>3. rd'[c] = [q |-> q, vals |-> {table[sent[q]]}] /\ \A d \in Cpu : d # c => rd'[d] = rd[d]
    BY <1>0, <2>1 DEF Lookup, TypeOK, Entry
  <2>4. sent[q] \in Key BY <1>0, <2>2 DEF TypeOK
  <2>5. ReadOrigin'
    <3>1. ASSUME NEW d \in Cpu, rd'[d].vals # {}
          PROVE  \E k \in Key : sent[rd'[d].q] = k /\ \E v \in rd'[d].vals : Asked(v.name, v.cgroup, k)
      <4>1. CASE d = c
        <5>1. Asked(table[sent[q]].name, table[sent[q]].cgroup, sent[q])
          BY <2>2, <2>4 DEF OriginInv, EntryOrigin
        <5>2. rd'[c].q = q /\ table[sent[q]] \in rd'[c].vals BY <2>3
        <5>3. QED BY <2>4, <4>1, <5>1, <5>2
      <4>2. CASE d # c BY <2>3, <3>1, <4>2 DEF OriginInv, ReadOrigin
      <4>3. QED BY <4>1, <4>2
    <3>2. QED BY <2>2, <3>1 DEF ReadOrigin, Asked
  <2>6. Busy(c, q) \in Answers \cup Egress /\ Busy(c, q).q = q /\ Busy(c, q).name = q /\ Busy(c, q).cgroup = Owner[q]
    BY <1>0, BusyTyped
  <2>7. /\ \A i \in DOMAIN rb' : i \in DOMAIN rb \/ rb'[i] = Busy(c, q)
        /\ \A i \in DOMAIN rb : rb'[i] = rb[i]
    BY <1>a, <2>2, <2>6, Appended
  <2>8. RecordOrigin'
    <3>1. ASSUME NEW i \in DOMAIN rb', rb'[i].type = "DNS_ANSWER"
          PROVE  \E k \in Key : sent'[rb'[i].q] = k /\ (rb'[i].torn \/ Asked(rb[i].name, rb[i].cgroup, k)')
      <4>1. CASE i \in DOMAIN rb BY <2>2, <2>7, <3>1, <4>1 DEF OriginInv, RecordOrigin, Asked
      <4>2. CASE rb'[i] = Busy(c, q) BY <2>2, <2>4, <2>6, <4>2 DEF Asked
      <4>3. QED BY <2>7, <4>1, <4>2
    <3>2. QED BY <3>1 DEF RecordOrigin
  <2>9. QED BY <1>e, <2>2, <2>5, <2>8 DEF OriginInv
<1>5. CASE Paired
  <2>1. PICK c \in Cpu : Pair(c) BY <1>5 DEF Paired
  <2>2. rd[c].vals # {} /\ rd[c] # Idle /\ sent' = sent /\ Delete(sent[rd[c].q]) BY <2>1 DEF Pair, Idle
  <2>3. EntryOrigin' BY <1>0, <1>b, <2>2, DeleteKeeps
  <2>4. rd'[c].vals = {} /\ \A d \in Cpu : d # c => rd'[d] = rd[d] BY <1>0, <2>1 DEF Pair, TypeOK
  <2>5. ReadOrigin' BY <2>2, <2>4 DEF OriginInv, ReadOrigin, Asked
  <2>6. PICK v, w \in rd[c].vals : rb' = [rb EXCEPT ![Slot(c)] = PairedRecord(c, v, w)]
    BY <2>1, PairRewrites
  <2> DEFINE r == PairedRecord(c, v, w)
  <2>7. /\ r \in Answers \cup Egress /\ r.q = rd[c].q /\ r.cgroup = v.cgroup /\ r.name = w.name
        /\ r.torn <=> \E x, y \in rd[c].vals : x # y
    BY <2>2, PairedTyped
  <2>8. Slot(c) \in DOMAIN rb BY <2>2, SlotIsHeld
  <2> HIDE DEF r
  <2>9. DOMAIN rb' = DOMAIN rb /\ \A i \in DOMAIN rb : rb'[i] = IF i = Slot(c) THEN r ELSE rb[i]
    BY <1>a, <2>6, <2>7, <2>8, Rewritten DEF r
  <2>10. \E k \in Key : sent[r.q] = k /\ (r.torn \/ Asked(r.name, r.cgroup, k))
    <3>1. PICK k \in Key : sent[rd[c].q] = k /\ \E x \in rd[c].vals : Asked(x.name, x.cgroup, k)
      BY <2>2 DEF OriginInv, ReadOrigin
    <3>2. PICK x \in rd[c].vals : Asked(x.name, x.cgroup, k) BY <3>1
    <3>3. CASE v = x /\ w = x BY <2>7, <3>1, <3>2, <3>3
    <3>4. CASE v # x \/ w # x
      <4>1. r.torn BY <2>6, <2>7, <3>2, <3>4
      <4>2. QED BY <2>7, <3>1, <4>1
    <3>5. QED BY <3>3, <3>4
  <2>11. RecordOrigin'
    <3>1. ASSUME NEW i \in DOMAIN rb', rb'[i].type = "DNS_ANSWER"
          PROVE  \E k \in Key : sent'[rb'[i].q] = k /\ (rb'[i].torn \/ Asked(rb[i].name, rb[i].cgroup, k)')
      <4>1. CASE i = Slot(c)
        <5>1. rb'[i] = r BY <2>8, <2>9, <4>1
        <5>2. QED BY <2>2, <2>10, <5>1 DEF Asked
      <4>2. CASE i # Slot(c) BY <2>2, <2>9, <3>1, <4>2 DEF OriginInv, RecordOrigin, Asked
      <4>3. QED BY <4>1, <4>2
    <3>2. QED BY <3>1 DEF RecordOrigin
  <2>12. QED BY <2>3, <2>5, <2>11 DEF OriginInv
<1>6. CASE Submitted
  <2>1. PICK c \in Cpu : Submit(c) BY <1>6 DEF Submitted
  <2>2. rd[c] # Idle /\ UNCHANGED <<sent, table>> BY <2>1 DEF Submit
  <2>3. rd'[c].vals = {} /\ \A d \in Cpu : d # c => rd'[d] = rd[d] BY <1>0, <2>1 DEF Submit, TypeOK, Idle
  <2>4. ReadOrigin' BY <2>2, <2>3 DEF OriginInv, ReadOrigin, Asked
  <2> DEFINE r == SubmittedRecord(c)
  <2>5. /\ rb' = [rb EXCEPT ![Slot(c)] = r] /\ r \in Answers \cup Egress /\ r.q = rd[c].q
        /\ r.cgroup = rb[Slot(c)].cgroup /\ r.name = rb[Slot(c)].name /\ r.torn = rb[Slot(c)].torn
    BY <2>1, SubmitRewrites
  <2>6. Slot(c) \in DOMAIN rb /\ rb[Slot(c)].q = rd[c].q /\ rb[Slot(c)].type = "DNS_ANSWER"
    BY <2>2, SlotIsHeld DEF Answers
  <2> HIDE DEF r
  <2>7. DOMAIN rb' = DOMAIN rb /\ \A i \in DOMAIN rb : rb'[i] = IF i = Slot(c) THEN r ELSE rb[i]
    BY <1>a, <2>5, <2>6, Rewritten
  <2>8. \A i \in DOMAIN rb' :
            /\ i \in DOMAIN rb /\ (rb'[i].type = "DNS_ANSWER" => rb[i].type = "DNS_ANSWER")
            /\ rb'[i].q = rb[i].q /\ rb'[i].torn = rb[i].torn
            /\ rb'[i].name = rb[i].name /\ rb'[i].cgroup = rb[i].cgroup
    BY <2>5, <2>6, <2>7
  <2>9. RecordOrigin' BY <2>2, <2>8 DEF OriginInv, RecordOrigin, Asked
  <2>10. QED BY <1>e, <2>2, <2>4, <2>9 DEF OriginInv
<1>7. CASE Skip \/ decodeDnsAnswer \/ decodeNetworkEgress
  <2>1. rb # << >> /\ rb' = Tail(rb) /\ UNCHANGED <<sent, table, rd>> BY <1>0, <1>7, ReaderTakes
  <2>2. \A i \in DOMAIN rb' : i + 1 \in DOMAIN rb /\ rb'[i] = rb[i + 1] BY <1>a, <2>1, Shifted
  <2>3. RecordOrigin' BY <2>1, <2>2 DEF OriginInv, RecordOrigin, Asked
  <2>4. QED BY <1>c, <1>e, <2>1, <2>3 DEF OriginInv
<1>8. CASE Forget BY <1>c, <1>d, <1>e, <1>8 DEF Forget, OriginInv
<1>9. CASE UNCHANGED vars BY <1>c, <1>d, <1>e, <1>9 DEF vars, OriginInv
<1>10. QED BY <1>1, <1>2, <1>3, <1>4, <1>5, <1>6, <1>7, <1>8, <1>9, StepCases

LEMMA OriginInitially == Init => OriginInv
BY DEF Init, OriginInv, EntryOrigin, ReadOrigin, RecordOrigin, Idle

LEMMA OriginSound ==
    ASSUME OriginInv
    PROVE  AnswerOfItsQuery
<1>1. ASSUME NEW i \in DOMAIN rb, rb[i].type = "DNS_ANSWER"
      PROVE  \/ rb[i].torn
             \/ /\ sent[rb[i].name] = sent[rb[i].q]
                /\ rb[i].name \in Forwarded \/ rb[i].cgroup = Owner[rb[i].name]
  BY <1>1 DEF OriginInv, RecordOrigin, Asked
<1>2. QED BY <1>1 DEF AnswerOfItsQuery

(* The name and the cgroup in a submitted answer are those of the query    *)
(* that the packet answers, unless the map's element was taken in between. *)
THEOREM AnswerTrue == Spec => []AnswerOfItsQuery
<1>1. OriginInv => AnswerOfItsQuery BY OriginSound
<1>2. RingInv /\ OriginInv /\ [Next]_vars => OriginInv' BY OriginInductive
<1>3. QED BY <1>1, <1>2, RingAlways, OriginInitially, PTL DEF Spec

-----------------------------------------------------------------------------
(* Why a destination can be named.  An answer with this address is on its  *)
(* way before place n of the ring buffer, or has been recorded, unless the *)
(* cache has let the address go since.  That is so for every answer that   *)
(* has got a place, and for the place of every call that came after one.   *)
Answering(r, ip) == r.type = "DNS_ANSWER" /\ r.st # "discard" /\ r.ip = ip
Known(ip, n) ==
    \/ ip \in forgotten \/ ipFallback[ip] # Nil
    \/ \E j \in DOMAIN rb : j < n /\ Answering(rb[j], ip)
NotedKnown == \A ip \in noted, n \in Nat : n = Len(rb) + 1 => Known(ip, n)
AfterKnown ==
    \A i \in DOMAIN rb : rb[i].type # "DNS_ANSWER" /\ rb[i].after =>
        \A ip \in Ip : ip = rb[i].ip => Known(ip, i)
KnownInv == NotedKnown /\ AfterKnown /\ ConnectNamed

(* What is known stays known when records only become ready.               *)
LEMMA KnownKept ==
    ASSUME TypeOK, KnownInv, UNCHANGED <<reply, noted, ipFallback, forgotten, missed>>,
           DOMAIN rb' = DOMAIN rb, rb' \in Seq(Answers \cup Egress),
           \A i \in DOMAIN rb : \/ rb'[i] = rb[i]
                                \/ /\ rb[i].type = "DNS_ANSWER" /\ rb'[i].type = "DNS_ANSWER"
                                   /\ rb'[i].ip = rb[i].ip
                                   /\ rb'[i].st # "discard" \/ rb[i].ip = Nil
    PROVE  KnownInv'
<1>1. Len(rb') = Len(rb) BY DEF TypeOK
<1>2. \A i \in DOMAIN rb, ip \in Ip : Answering(rb[i], ip) => Answering(rb[i], ip)'
  BY DnsAssumption DEF Answering
<1>3. \A ip \in Ip, n \in Nat : Known(ip, n) => Known(ip, n)' BY <1>2 DEF Known
<1>4. NotedKnown' BY <1>1, <1>3 DEF KnownInv, NotedKnown, TypeOK
<1>5. AfterKnown'
  <2>1. ASSUME NEW i \in DOMAIN rb, rb'[i].type # "DNS_ANSWER", rb'[i].after, NEW ip \in Ip, ip = rb'[i].ip
        PROVE  Known(ip, i)'
    <3>1. rb'[i] = rb[i] BY <2>1
    <3>2. Known(ip, i) BY <2>1, <3>1 DEF KnownInv, AfterKnown
    <3>3. i \in Nat BY DEF TypeOK
    <3>4. QED BY <1>3, <3>2, <3>3
  <2>2. QED BY <2>1 DEF AfterKnown
<1>6. ConnectNamed' BY DEF KnownInv, ConnectNamed
<1>7. QED BY <1>4, <1>5, <1>6 DEF KnownInv

(* A new record leaves what is known before it; it has to be an answer, or *)
(* a call after one that was noted.                                        *)
LEMMA KnownAppended ==
    ASSUME TypeOK, KnownInv, UNCHANGED <<reply, ipFallback, forgotten, missed>>,
           NEW r \in Answers \cup Egress, rb' = Append(rb, r),
           r.type # "DNS_ANSWER" /\ r.after => r.ip \in noted,
           \A ip \in noted' : ip \in noted \/ Answering(r, ip), noted' \subseteq Ip
    PROVE  KnownInv'
<1> DEFINE n == Len(rb) + 1
<1>0. rb \in Seq(Answers \cup Egress) BY DEF TypeOK
<1>1. /\ n \in Nat /\ Len(rb') = n /\ n \in DOMAIN rb' /\ rb'[n] = r
      /\ \A i \in DOMAIN rb : i \in DOMAIN rb' /\ rb'[i] = rb[i] /\ i < n
      /\ \A i \in DOMAIN rb' : i \in DOMAIN rb \/ i = n
  BY <1>0, Appended
<1>2. \A ip \in Ip, m, k \in Nat : m <= k /\ Known(ip, m) => Known(ip, k)'
  <2>1. ASSUME NEW ip \in Ip, NEW m \in Nat, NEW k \in Nat, m <= k, Known(ip, m) PROVE Known(ip, k)'
    <3>1. CASE \E j \in DOMAIN rb : j < m /\ Answering(rb[j], ip)
      <4>1. PICK j \in DOMAIN rb : j < m /\ Answering(rb[j], ip) BY <3>1
      <4>2. j \in DOMAIN rb' /\ rb'[j] = rb[j] BY <1>1
      <4>3. j < k BY <1>0, <2>1, <4>1
      <4>4. QED BY <4>1, <4>2, <4>3 DEF Known, Answering
    <3>2. CASE ip \in forgotten \/ ipFallback[ip] # Nil BY <3>2 DEF Known
    <3>3. QED BY <2>1, <3>1, <3>2 DEF Known
  <2>2. QED BY <2>1
<1>3. \A ip \in noted : Known(ip, n) BY <1>1 DEF KnownInv, NotedKnown
<1> HIDE DEF n
<1>4. NotedKnown'
  <2>1. ASSUME NEW ip \in noted', NEW m \in Nat, m = n + 1
        PROVE  Known(ip, m)'
    <3>1. CASE ip \in noted BY <1>1, <1>2, <1>3, <2>1, <3>1
    <3>2. CASE Answering(r, ip) BY <1>1, <2>1, <3>2 DEF Known, Answering
    <3>3. QED BY <3>1, <3>2
  <2>2. QED BY <1>1, <2>1 DEF NotedKnown
<1>5. AfterKnown'
  <2>1. ASSUME NEW i \in DOMAIN rb', rb'[i].type # "DNS_ANSWER", rb'[i].after, NEW ip \in Ip, ip = rb'[i].ip
        PROVE  Known(ip, i)'
    <3>1. CASE i \in DOMAIN rb
      <4>1. Known(ip, i) BY <1>1, <2>1, <3>1 DEF KnownInv, AfterKnown
      <4>2. i \in Nat BY <1>0, <3>1
      <4>3. QED BY <1>2, <4>1, <4>2
    <3>2. CASE i = n
      <4>1. ip \in noted BY <1>1, <2>1, <3>2
      <4>2. QED BY <1>1, <1>2, <1>3, <2>1, <3>2, <4>1
    <3>3. QED BY <1>1, <3>1, <3>2
  <2>2. QED BY <2>1 DEF AfterKnown
<1>6. ConnectNamed' BY DEF KnownInv, ConnectNamed
<1>7. QED BY <1>4, <1>5, <1>6 DEF KnownInv

(* The reader takes an answer only for the cache.                          *)
LEMMA KnownShifted ==
    ASSUME TypeOK, NotedKnown, AfterKnown, UNCHANGED <<reply, noted, forgotten>>,
           rb # << >>, rb' = Tail(rb),
           \A ip \in Ip : ipFallback[ip] # Nil \/ Answering(rb[1], ip) => ipFallback'[ip] # Nil
    PROVE  NotedKnown' /\ AfterKnown'
<1>0. rb \in Seq(Answers \cup Egress) BY DEF TypeOK
<1>1. /\ Len(rb') = Len(rb) - 1 /\ Len(rb) \in Nat
      /\ \A i \in DOMAIN rb' : i \in Nat /\ i + 1 \in DOMAIN rb /\ rb'[i] = rb[i + 1]
      /\ \A j \in DOMAIN rb : j \in Nat /\ (j # 1 => j - 1 \in DOMAIN rb' /\ rb'[j - 1] = rb[j])
  BY <1>0, Shifted
<1>2. ASSUME NEW ip \in Ip, NEW n \in Nat, Known(ip, n + 1) PROVE Known(ip, n)'
  <2>1. CASE \E j \in DOMAIN rb : j < n + 1 /\ Answering(rb[j], ip)
    <3>1. PICK j \in DOMAIN rb : j < n + 1 /\ Answering(rb[j], ip) BY <2>1
    <3>2. CASE j = 1 BY <3>1, <3>2 DEF Known
    <3>3. CASE j # 1
      <4>1. j - 1 \in DOMAIN rb' /\ rb'[j - 1] = rb[j] /\ j - 1 < n BY <1>1, <3>1, <3>3
      <4>2. QED BY <3>1, <4>1 DEF Known, Answering
    <3>4. QED BY <3>2, <3>3
  <2>2. CASE ip \in forgotten \/ ipFallback[ip] # Nil BY <2>2 DEF Known
  <2>3. QED BY <1>2, <2>1, <2>2 DEF Known
<1>3. NotedKnown'
  <2>1. ASSUME NEW ip \in noted, NEW n \in Nat, n = Len(rb) PROVE Known(ip, n)'
    <3>1. Known(ip, n + 1) /\ ip \in Ip BY <2>1 DEF NotedKnown, TypeOK
    <3>2. QED BY <1>2, <3>1
  <2>2. Len(rb') + 1 = Len(rb) BY <1>1
  <2>3. ASSUME NEW ip \in noted', NEW n \in Nat, n = Len(rb') + 1
        PROVE  Known(ip, n)'
    BY <2>1, <2>2, <2>3
  <2>4. QED BY <2>3 DEF NotedKnown
<1>4. AfterKnown' BY <1>1, <1>2 DEF AfterKnown
<1>5. QED BY <1>3, <1>4

LEMMA KnownInductive ==
    ASSUME RingInv, KnownInv, [Next]_vars
    PROVE  KnownInv'
<1> USE DEF cacheVars, kernelVars
<1>0. TypeOK /\ TypeOK' BY TypeInductive DEF RingInv
<1>a. rb \in Seq(Answers \cup Egress) /\ rb' \in Seq(Answers \cup Egress) BY <1>0 DEF TypeOK
<1>b. ASSUME UNCHANGED <<reply, rb, noted, ipFallback, forgotten, missed>> PROVE KnownInv'
  BY <1>0, <1>a, <1>b, KnownKept
<1>1. CASE Asks
  <2>1. UNCHANGED <<reply, rb, noted, ipFallback, forgotten, missed>> BY <1>0, <1>1, AskWrites
  <2>2. QED BY <1>b, <2>1
<1>2. CASE Calls
  <2>1. /\ UNCHANGED <<reply, noted, ipFallback, forgotten, missed>>
        /\ \/ rb' = rb
           \/ \E type \in {"CONNECT", "SENDTO"}, q \in Query, ip \in Ip :
                 rb' = Append(rb, Event(type, q, ip))
    BY <1>0, <1>2, CallsReport
  <2>2. ASSUME NEW type \in {"CONNECT", "SENDTO"}, NEW q \in Query, NEW ip \in Ip,
               rb' = Append(rb, Event(type, q, ip))
        PROVE  KnownInv'
    <3>1. /\ Event(type, q, ip) \in Answers \cup Egress /\ Event(type, q, ip).ip = ip
          /\ Event(type, q, ip).after <=> ip \in noted
      BY <1>0, EventTyped
    <3>2. noted' \subseteq Ip BY <1>0 DEF TypeOK
    <3>3. QED BY <1>0, <2>1, <2>2, <3>1, <3>2, KnownAppended
  <2>3. QED BY <1>b, <2>1, <2>2
<1>3. CASE Arrives
  <2>1. UNCHANGED <<reply, rb, noted, ipFallback, forgotten, missed>> BY <1>3 DEF Arrives, Unpaired
  <2>2. QED BY <1>b, <2>1
<1>4. CASE LookedUp
  <2>1. PICK c \in Cpu, q \in Query : Lookup(c, q) BY <1>4 DEF LookedUp
  <2>2. /\ rb' = Append(rb, Busy(c, q)) /\ UNCHANGED <<reply, ipFallback, forgotten, missed>>
        /\ noted' = noted \cup ({FirstAddr(reply[q])} \ {Nil})
    BY <2>1 DEF Lookup
  <2>3. /\ Busy(c, q) \in Answers \cup Egress /\ Busy(c, q).type = "DNS_ANSWER" /\ Busy(c, q).st = "busy"
        /\ Busy(c, q).q = q /\ Busy(c, q).ip = FirstAddr(reply[q])
    BY <1>0, BusyTyped
  <2>4. noted' \subseteq Ip /\ \A x \in noted' : x \in noted \/ Answering(Busy(c, q), x)
    BY <1>0, <2>2, <2>3 DEF Answering, TypeOK
  <2>5. QED BY <1>0, <2>2, <2>3, <2>4, KnownAppended
<1>5. CASE Paired
  <2>1. PICK c \in Cpu : Pair(c) BY <1>5 DEF Paired
  <2>2. rd[c] # Idle /\ UNCHANGED <<reply, noted, ipFallback, forgotten, missed>> BY <2>1 DEF Pair, Idle
  <2>3. PICK v, w \in rd[c].vals : rb' = [rb EXCEPT ![Slot(c)] = PairedRecord(c, v, w)]
    BY <2>1, PairRewrites
  <2> DEFINE r == PairedRecord(c, v, w)
  <2>4. /\ r \in Answers \cup Egress /\ r.q = rd[c].q /\ r.type = "DNS_ANSWER" /\ r.st = "busy"
        /\ r.ip = rb[Slot(c)].ip
    BY <2>2, PairedTyped
  <2> HIDE DEF r
  <2>5. Slot(c) \in DOMAIN rb /\ rb[Slot(c)].q = rd[c].q /\ rb[Slot(c)].type = "DNS_ANSWER"
    BY <2>2, SlotIsHeld DEF Answers
  <2>6. DOMAIN rb' = DOMAIN rb /\ \A i \in DOMAIN rb : rb'[i] = IF i = Slot(c) THEN r ELSE rb[i]
    BY <1>a, <2>3, <2>4, <2>5, Rewritten DEF r
  <2>7. \A i \in DOMAIN rb : \/ rb'[i] = rb[i]
                             \/ /\ rb[i].type = "DNS_ANSWER" /\ rb'[i].type = "DNS_ANSWER"
                                /\ rb'[i].ip = rb[i].ip
                                /\ rb'[i].st # "discard" \/ rb[i].ip = Nil
    BY <2>4, <2>5, <2>6
  <2>8. QED BY <1>0, <1>a, <2>2, <2>6, <2>7, KnownKept
<1>6. CASE Submitted
  <2>1. PICK c \in Cpu : Submit(c) BY <1>6 DEF Submitted
  <2>2. rd[c] # Idle /\ UNCHANGED <<reply, noted, ipFallback, forgotten, missed>> BY <2>1 DEF Submit
  <2> DEFINE r == SubmittedRecord(c)
  <2>3. /\ rb' = [rb EXCEPT ![Slot(c)] = r] /\ r \in Answers \cup Egress /\ r.q = rd[c].q
        /\ r.type = "DNS_ANSWER" /\ r.ip = rb[Slot(c)].ip
        /\ r.st = IF rb[Slot(c)].ip = Nil THEN "discard" ELSE "ready"
    BY <2>1, SubmitRewrites
  <2> HIDE DEF r
  <2>4. Slot(c) \in DOMAIN rb /\ rb[Slot(c)].q = rd[c].q /\ rb[Slot(c)].type = "DNS_ANSWER"
    BY <2>2, SlotIsHeld DEF Answers
  <2>5. DOMAIN rb' = DOMAIN rb /\ \A i \in DOMAIN rb : rb'[i] = IF i = Slot(c) THEN r ELSE rb[i]
    BY <1>a, <2>3, <2>4, Rewritten
  <2>6. \A i \in DOMAIN rb : \/ rb'[i] = rb[i]
                             \/ /\ rb[i].type = "DNS_ANSWER" /\ rb'[i].type = "DNS_ANSWER"
                                /\ rb'[i].ip = rb[i].ip
                                /\ rb'[i].st # "discard" \/ rb[i].ip = Nil
    BY <2>3, <2>4, <2>5
  <2>7. QED BY <1>0, <1>a, <2>2, <2>5, <2>6, KnownKept
<1>7. CASE Skip \/ decodeDnsAnswer \/ decodeNetworkEgress
  <2>1. rb # << >> /\ rb' = Tail(rb) /\ UNCHANGED <<reply, noted, forgotten>> BY <1>0, <1>7, ReaderTakes
  <2>2. 1 \in DOMAIN rb /\ Head(rb) = rb[1] BY <1>a, <2>1, Shifted
  <2>3. CASE Skip
    <3>1. UNCHANGED <<ipFallback, missed>> /\ rb[1].st = "discard" BY <2>2, <2>3 DEF Skip
    <3>2. \A ip \in Ip : ~Answering(rb[1], ip) BY <3>1 DEF Answering
    <3>3. QED BY <1>0, <2>1, <3>1, <3>2, KnownShifted DEF KnownInv, ConnectNamed
  <2>4. CASE decodeDnsAnswer
    <3>1. missed' = missed /\ ipFallback' = [ipFallback EXCEPT ![rb[1].ip] = rb[1].name] /\ rb[1].type = "DNS_ANSWER"
      BY <2>2, <2>4 DEF decodeDnsAnswer, RecordIPDomain
    <3>2. rb[1].name \in Query /\ rb[1].name # Nil
      BY <1>0, <2>2, <3>1, BusyIsAnswer, DnsAssumption DEF Answers
    <3>3. \A ip \in Ip : ipFallback[ip] # Nil \/ Answering(rb[1], ip) => ipFallback'[ip] # Nil
      BY <1>0, <3>1, <3>2 DEF Answering, TypeOK
    <3>4. QED BY <1>0, <2>1, <3>1, <3>3, KnownShifted DEF KnownInv, ConnectNamed
  <2>5. CASE decodeNetworkEgress
    <3>1. ipFallback' = ipFallback /\ rb[1].type # "DNS_ANSWER" BY <2>2, <2>5 DEF decodeNetworkEgress
    <3>2. \A ip \in Ip : ~Answering(rb[1], ip) BY <3>1 DEF Answering
    <3>3. NotedKnown' /\ AfterKnown' BY <1>0, <2>1, <3>1, <3>2, KnownShifted DEF KnownInv
    <3>4. rb[1].ip \in Ip
      <4>1. rb[1] \in Answers \cup Egress BY <1>a, <2>2
      <4>2. QED BY <3>1, <4>1 DEF Answers, Egress
    <3>5. ASSUME rb[1].after, GetDomainByIP(rb[1].cgroup, rb[1].ip) = Nil PROVE rb[1].ip \in forgotten
      <4>1. Known(rb[1].ip, 1) BY <2>2, <3>1, <3>4, <3>5 DEF KnownInv, AfterKnown
      <4>2. \A j \in DOMAIN rb : ~(j < 1) BY <1>a
      <4>3. ipFallback[rb[1].ip] = Nil BY <3>5 DEF GetDomainByIP
      <4>4. QED BY <4>1, <4>2, <4>3 DEF Known
    <3>6. missed' = IF rb[1].after /\ GetDomainByIP(rb[1].cgroup, rb[1].ip) = Nil THEN missed \cup {rb[1].ip} ELSE missed
      BY <2>2, <2>5 DEF decodeNetworkEgress
    <3>7. ConnectNamed' BY <2>1, <3>5, <3>6 DEF KnownInv, ConnectNamed
    <3>8. QED BY <3>3, <3>7 DEF KnownInv
  <2>6. QED BY <1>7, <2>3, <2>4, <2>5
<1>8. CASE Forget
  <2>1. UNCHANGED <<reply, noted, rb, missed>> /\ forgotten \subseteq forgotten' BY <1>8 DEF Forget
  <2>2. \A ip \in Ip : ipFallback[ip] # Nil => ip \in forgotten' \/ ipFallback'[ip] # Nil
    BY <1>0, <1>8 DEF Forget, TypeOK
  <2>3. ASSUME NEW ip \in Ip, NEW n \in Nat, Known(ip, n) PROVE Known(ip, n)'
    BY <2>1, <2>2, <2>3 DEF Known, Answering
  <2>4. \A i \in DOMAIN rb : i \in Nat BY <1>a
  <2>5. QED BY <1>0, <2>1, <2>3, <2>4 DEF TypeOK, KnownInv, NotedKnown, AfterKnown, ConnectNamed
<1>9. CASE UNCHANGED vars BY <1>b, <1>9 DEF vars
<1>10. QED BY <1>1, <1>2, <1>3, <1>4, <1>5, <1>6, <1>7, <1>8, <1>9, StepCases

LEMMA KnownInitially == Init => KnownInv
BY DEF Init, KnownInv, NotedKnown, AfterKnown, ConnectNamed

(* A destination which an answer before the call has reported has a name   *)
(* when the call's event is decoded, unless the cache has evicted the      *)
(* address or let it expire: for any packets, of which only the first      *)
(* address among two records is reported, and whatever other addresses     *)
(* the processes connect to.                                               *)
THEOREM DestinationsNamed == Spec => []ConnectNamed
<1>1. KnownInv => ConnectNamed BY DEF KnownInv
<1>2. RingInv /\ KnownInv /\ [Next]_vars => KnownInv' BY KnownInductive
<1>3. QED BY <1>1, <1>2, RingAlways, KnownInitially, PTL DEF Spec
=============================================================================
