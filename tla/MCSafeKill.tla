----------------------------- MODULE MCSafeKill -----------------------------
(* Two trustworthy files and one that is not, besides the system's, three   *)
(* inode numbers for all of them, one pid besides PID 1 and the daemon.     *)
EXTENDS SafeKill, TLC
CONSTANTS good, good2, bad, sys, i1, i2, i3
Symmetry == Permutations({i1, i2, i3}) \cup Permutations({good, good2})
=============================================================================
