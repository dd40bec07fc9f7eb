----------------------------- MODULE DnsEgress ------------------------------
(* From a DNS query to the domain in an alert: tc_egress_dns and           *)
(* tc_ingress_dns pair queries with answers through the LRU hash           *)
(* dns_pending_tx, the egress tracepoints report destinations, both        *)
(* through the ring buffer; the daemon keeps the answers in the two caches *)
(* of the Correlator and names destinations from them (bpf/sensors/net.h,  *)
(* bpf/maps.h, internal/processor/correlate.go and event.go).  Answers are *)
(* lost, duplicated and reordered, and two CPUs work on the map at once.   *)
EXTENDS Naturals, Sequences

CONSTANTS
    Query,      \* DNS lookups; a query stands for its name too
    Key,        \* struct dns_tx_key: resolver, client port, txid
    Cgroup,
    Owner,      \* the cgroup of the process that asks
    Forwarded,  \* queries routed through the host: they leave in a softirq,
                \* while some other task is current
    Ip,
    Other,      \* a resource record that holds no address
    Packets,    \* the answers that resolvers give
    Cpu,        \* CPUs that receive packets
    Nil,
    RingSize,   \* bound: records the ring buffer holds
    MaxCalls    \* bound: repeated queries, connect, sendto, sendmsg, sendmmsg

(* An answer: can its question be skipped, and its records in order.       *)
Replies == [skippable : BOOLEAN, records : Seq(Ip \cup {Other})]

ASSUME DnsAssumption ==
    /\ Owner \in [Query -> Cgroup]
    /\ Forwarded \subseteq Query
    /\ Packets \subseteq Replies
    /\ Nil \notin Query \cup Key \cup Ip
    /\ Other \notin Ip
    /\ RingSize \in Nat /\ MaxCalls \in Nat

VARIABLES
    sent,      \* the key with which each query has left, or Nil
    reply,     \* what the resolver answers to each
    table,     \* dns_pending_tx
    rd,        \* tc_ingress_dns on each CPU: the query that its packet answers
               \* and the values its pointer has led to
    learnt,    \* queries whose answer the asking process has received
    rb,        \* the ring buffer
    ipScoped, ipFallback,  \* the Correlator's caches
    calls,     \* bound: repeated queries and egress calls so far
    noted,     \* history: addresses with an answer in the ring buffer
    forgotten, \* history: addresses that ipFallback evicted or let expire
    missed     \* history: noted addresses the daemon had no name for

kernelVars == <<table, rd>>
cacheVars == <<ipScoped, ipFallback, forgotten, missed>>
vars == <<sent, reply, kernelVars, learnt, rb, cacheVars, calls, noted>>

(* What the process that asked can connect to: every address in the        *)
(* answer.                                                                 *)
Addresses(r) == {r.records[n] : n \in DOMAIN r.records} \ {Other}

(* What tc_ingress_dns reports: it looks at two records and stops at the   *)
(* first that holds an address.                                            *)
Inspected(r) == {n \in DOMAIN r.records : n <= 2 /\ r.records[n] # Other}
FirstAddr(r) ==
    IF Inspected(r) = {} THEN Nil
    ELSE r.records[CHOOSE n \in Inspected(r) : \A m \in Inspected(r) : n <= m]

Values == [cgroup : Cgroup, name : Query]
Idle == [q |-> Nil, vals |-> {}]

(* A dns_answer_event with the query that its packet answers; torn is      *)
(* history: the element was written again while it was being read.         *)
Answers == [type : {"DNS_ANSWER"}, st : {"busy", "ready", "discard"}, cpu : Cpu, q : Query,
            cgroup : Cgroup, name : Query, ip : Ip \cup {Nil}, torn : BOOLEAN]
(* A connect_event; after is history: an answer with this address had its  *)
(* place in the ring buffer before.                                        *)
Egress == [type : {"CONNECT", "SENDTO"}, st : {"ready"}, cgroup : Cgroup, ip : Ip, after : BOOLEAN]

Init ==
    /\ sent = [q \in Query |-> Nil]
    /\ learnt = {} /\ noted = {}
    /\ reply \in [Query -> Packets]
    /\ table = [k \in Key |-> Nil]
    /\ rd = [c \in Cpu |-> Idle]
    /\ rb = << >>
    /\ ipScoped = [x \in Cgroup \X Ip |-> Nil]
    /\ ipFallback = [i \in Ip |-> Nil]
    /\ calls = 0
    /\ forgotten = {} /\ missed = {}

-----------------------------------------------------------------------------
(* Mutant: one record more than the ring buffer holds.                     *)
HasRoomOffByOne == Len(rb) <= RingSize
(* bpf_ringbuf_reserve finds room.                                         *)
HasRoom == Len(rb) < RingSize

(* bpf_map_update_elem(BPF_ANY) of an LRU hash: a free element is bound to *)
(* the key in place of the one it had, or the LRU takes that of another    *)
(* key.  Elements are reused at once: a program that still has a pointer   *)
(* to the one that is taken sees the new value.                            *)
Update(key, val) ==
    \E evicted \in Key \cup {Nil}, held \in SUBSET {c \in Cpu : rd[c].vals # {}} :
        /\ table' = [k \in Key |-> IF k = key THEN val
                                   ELSE IF k = evicted THEN Nil ELSE table[k]]
        /\ rd' = [c \in Cpu |-> IF c \in held THEN [rd[c] EXCEPT !.vals = @ \cup {val}] ELSE rd[c]]

(* tc_egress_dns, with the cgroup of the task that is current; the stub    *)
(* resolver may repeat a query that is not answered.                       *)
tc_egress_dns(q) ==
    /\ \E k \in IF sent[q] = Nil THEN Key ELSE {sent[q]},
          c \in IF q \in Forwarded THEN Cgroup ELSE {Owner[q]} :
          /\ sent' = [sent EXCEPT ![q] = k]
          /\ Update(k, [cgroup |-> c, name |-> q])
    /\ IF sent[q] = Nil THEN UNCHANGED calls ELSE calls < MaxCalls /\ calls' = calls + 1
    /\ UNCHANGED <<reply, learnt, rb, cacheVars, noted>>

-----------------------------------------------------------------------------
(* The process gets the packet after the program has returned.             *)
Learn(q) == learnt' = learnt \cup {q}

(* Mutant: the key of an answer has the resolver only.                     *)
EntryByResolver(q) ==
    IF \A k \in Key : table[k] = Nil THEN Nil ELSE table[CHOOSE k \in Key : table[k] # Nil]

(* bpf_map_lookup_elem with the key of the answer.                         *)
Entry(q) == table[sent[q]]
Delete(key) == table' = [table EXCEPT ![key] = Nil]

Busy(c, q) == [type |-> "DNS_ANSWER", st |-> "busy", cpu |-> c, q |-> q,
               cgroup |-> Owner[q], name |-> q, ip |-> FirstAddr(reply[q]), torn |-> FALSE]

(* ancount is 0, or the walk over the question does not end in the packet. *)
NoRecords(r) == ~r.skippable \/ r.records = << >>

(* An answer arrives, once, again or never, at any time after its query.   *)
(* tc_ingress_dns up to its early returns: no entry; an answer without     *)
(* records, a question that cannot be skipped, no room in the ring buffer. *)
Unpaired(c, q) ==
    /\ rd[c] = Idle
    /\ sent[q] # Nil
    /\ \/ Entry(q) = Nil /\ UNCHANGED table
       \/ /\ Entry(q) # Nil
          /\ NoRecords(reply[q]) \/ ~HasRoom
          /\ Delete(sent[q])
    /\ Learn(q)
    /\ UNCHANGED <<sent, reply, rd, rb, cacheVars, calls, noted>>

(* The entry is found and a record reserved; the pointer is kept.          *)
Lookup(c, q) ==
    /\ rd[c] = Idle
    /\ sent[q] # Nil
    /\ Entry(q) # Nil
    /\ ~NoRecords(reply[q])
    /\ HasRoom
    /\ rd' = [rd EXCEPT ![c] = [q |-> q, vals |-> {Entry(q)}]]
    /\ rb' = Append(rb, Busy(c, q))
    /\ noted' = noted \cup ({FirstAddr(reply[q])} \ {Nil})
    /\ UNCHANGED <<sent, reply, table, learnt, cacheVars, calls>>

(* The record that a CPU has reserved.                                     *)
Slot(c) == CHOOSE i \in DOMAIN rb : rb[i].st = "busy" /\ rb[i].cpu = c

(* Each of the two fields is copied through the pointer, from before or    *)
(* after the element was taken, and the entry of the key, whichever it is  *)
(* by now, is deleted.                                                     *)
Pair(c) ==
    /\ rd[c].vals # {}
    /\ \E v, w \in rd[c].vals :
          rb' = [rb EXCEPT ![Slot(c)].cgroup = v.cgroup, ![Slot(c)].name = w.name,
                           ![Slot(c)].torn = \E x, y \in rd[c].vals : x # y]
    /\ Delete(sent[rd[c].q])
    /\ rd' = [rd EXCEPT ![c].vals = {}]
    /\ UNCHANGED <<sent, reply, learnt, cacheVars, calls, noted>>

(* bpf_ringbuf_submit, or discard when no address was found.               *)
Submit(c) ==
    /\ rd[c] # Idle /\ rd[c].vals = {}
    /\ rb' = [rb EXCEPT ![Slot(c)].st = IF rb[Slot(c)].ip = Nil THEN "discard" ELSE "ready"]
    /\ Learn(rd[c].q)
    /\ rd' = [rd EXCEPT ![c] = Idle]
    /\ UNCHANGED <<sent, reply, table, cacheVars, calls, noted>>

-----------------------------------------------------------------------------
(* An egress event for an address that the process learnt; none without    *)
(* room.  A call without an address, or with one that cannot be read, only *)
(* returns.                                                                *)
Report(type, q, ip) ==
    rb' = IF HasRoom
          THEN Append(rb, [type |-> type, st |-> "ready", cgroup |-> Owner[q], ip |-> ip,
                           after |-> ip \in noted])
          ELSE rb

Call(qs) ==
    /\ qs \subseteq learnt
    /\ calls < MaxCalls /\ calls' = calls + 1
    /\ UNCHANGED <<sent, reply, kernelVars, learnt, cacheVars, noted>>

tp_connect(q, ip) == Call({q}) /\ Report("CONNECT", q, ip)
tp_sendto(q, ip) == Call({q}) /\ Report("SENDTO", q, ip)
tp_sendmsg(q, ip) == Call({q}) /\ Report("SENDTO", q, ip)

(* A batch to several addresses is reported by its first message.          *)
tp_sendmmsg(q, ip, rest) == Call({q} \cup rest) /\ Report("SENDTO", q, ip)

-----------------------------------------------------------------------------
(* The daemon takes records in the order in which they were reserved and   *)
(* waits at one that is not yet submitted.                                 *)
Readable == rb # << >> /\ Head(rb).st # "busy"

(* Mutant: an answer is only remembered for its cgroup.                    *)
RecordScopedOnly(c, i, domain) ==
    /\ ipScoped' = [ipScoped EXCEPT ![<<c, i>>] = domain]
    /\ UNCHANGED ipFallback

RecordIPDomain(c, i, domain) ==
    /\ ipScoped' = [ipScoped EXCEPT ![<<c, i>>] = domain]
    /\ ipFallback' = [ipFallback EXCEPT ![i] = domain]

GetDomainByIP(c, i) == IF ipScoped[<<c, i>>] # Nil THEN ipScoped[<<c, i>>] ELSE ipFallback[i]

Skip ==
    /\ Readable /\ Head(rb).st = "discard"
    /\ rb' = Tail(rb)
    /\ UNCHANGED <<sent, reply, kernelVars, learnt, cacheVars, calls, noted>>

decodeDnsAnswer ==
    /\ Readable /\ Head(rb).st = "ready" /\ Head(rb).type = "DNS_ANSWER"
    /\ RecordIPDomain(Head(rb).cgroup, Head(rb).ip, Head(rb).name)
    /\ rb' = Tail(rb)
    /\ UNCHANGED <<sent, reply, kernelVars, learnt, forgotten, missed, calls, noted>>

decodeNetworkEgress ==
    /\ Readable /\ Head(rb).st = "ready" /\ Head(rb).type # "DNS_ANSWER"
    /\ LET e == Head(rb) IN
          missed' = IF e.after /\ GetDomainByIP(e.cgroup, e.ip) = Nil THEN missed \cup {e.ip} ELSE missed
    /\ rb' = Tail(rb)
    /\ UNCHANGED <<sent, reply, kernelVars, learnt, ipScoped, ipFallback, forgotten, calls, noted>>

(* An entry leaves a cache: the least recently used, or five minutes old.  *)
Forget ==
    /\ \/ \E x \in DOMAIN ipScoped :
             /\ ipScoped[x] # Nil
             /\ ipScoped' = [ipScoped EXCEPT ![x] = Nil]
             /\ UNCHANGED <<ipFallback, forgotten>>
       \/ \E i \in Ip :
             /\ ipFallback[i] # Nil
             /\ ipFallback' = [ipFallback EXCEPT ![i] = Nil]
             /\ forgotten' = forgotten \cup {i}
             /\ UNCHANGED ipScoped
    /\ UNCHANGED <<sent, reply, kernelVars, learnt, rb, missed, calls, noted>>

Ingress(c) == (\E q \in Query : Unpaired(c, q) \/ Lookup(c, q)) \/ Pair(c) \/ Submit(c)
Userspace == Skip \/ decodeDnsAnswer \/ decodeNetworkEgress

Next ==
    \/ \E q \in Query :
          \/ tc_egress_dns(q)
          \/ \E ip \in Addresses(reply[q]) :
                \/ tp_connect(q, ip) \/ tp_sendto(q, ip) \/ tp_sendmsg(q, ip)
                \/ \E rest \in SUBSET Query : tp_sendmmsg(q, ip, rest)
    \/ \E c \in Cpu : Ingress(c)
    \/ Userspace
    \/ Forget

Spec == Init /\ [][Next]_vars

-----------------------------------------------------------------------------
TypeOK ==
    /\ sent \in [Query -> Key \cup {Nil}]
    /\ reply \in [Query -> Packets]
    /\ table \in [Key -> Values \cup {Nil}]
    /\ rd \in [Cpu -> [q : Query \cup {Nil}, vals : SUBSET Values]]
    /\ learnt \subseteq Query /\ noted \subseteq Ip
    /\ rb \in Seq(Answers \cup Egress) /\ Len(rb) <= RingSize
    /\ ipScoped \in [Cgroup \X Ip -> Query \cup {Nil}]
    /\ ipFallback \in [Ip -> Query \cup {Nil}]
    /\ calls \in 0..MaxCalls
    /\ forgotten \subseteq Ip /\ missed \subseteq Ip

(* A submitted answer names the query that its packet answered, up to      *)
(* queries with the same resolver, port and id, whichever entry the map    *)
(* has by now; and it has the cgroup that asked, unless the host forwarded *)
(* the query.  Only an element that was taken while it was read breaks     *)
(* this.                                                                   *)
AnswerOfItsQuery ==
    \A i \in DOMAIN rb : rb[i].type = "DNS_ANSWER" /\ rb[i].st = "ready" =>
        \/ rb[i].torn
        \/ /\ sent[rb[i].name] = sent[rb[i].q]
           /\ rb[i].name \in Forwarded \/ rb[i].cgroup = Owner[rb[i].name]

(* A destination of which an answer has got a record in the ring buffer is *)
(* named in its alert, whoever asked and however the CPUs interleave, as   *)
(* long as the fallback cache keeps the address: the record is reserved    *)
(* before the process can see the packet, and read before the call's.      *)
(* Only the first address of an answer gets a record: a call to another    *)
(* one, or to one behind two records of other types, has no name.          *)
ConnectNamed == missed \subseteq forgotten
=============================================================================
