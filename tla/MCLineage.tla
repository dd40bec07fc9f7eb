----------------------------- MODULE MCLineage -----------------------------
(* An instance of Lineage with one program of each kind.                   *)
EXTENDS Lineage, TLC
CONSTANTS dropper, sudo, memfd, banned, deep

Modes(S, m) == [b \in Program |-> IF b \in S THEN m ELSE 0]
MCExact == Modes({banned}, 1)
MCPrefix == Modes({dropper}, 2)
Symmetry == Permutations(Task)
=============================================================================
