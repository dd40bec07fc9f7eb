---------------------------- MODULE MCDnsEgress -----------------------------
(* Two queries of two cgroups, one of them through the host, and answers   *)
(* of several records.                                                     *)
EXTENDS DnsEgress, TLC

CONSTANTS q1, q2, c1, c2, i1, i2

MCOwner == (q1 :> c1) @@ (q2 :> c2)
(* Two addresses; one behind an alias; one behind two; one in an answer    *)
(* whose question has too many labels.                                     *)
MCPackets ==
    {[skippable |-> TRUE, records |-> r] : r \in {<<i1, i2>>, <<Other, i2>>, <<Other, Other, i1>>}}
    \cup {[skippable |-> FALSE, records |-> <<i2>>]}
Symmetry == Permutations(Cpu) \cup Permutations(Key)
=============================================================================
