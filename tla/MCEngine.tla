------------------------------ MODULE MCEngine ------------------------------
(* An instance of Engine: a shadow rule that a reload turns into a KILL,    *)
(* and two rules with one name.                                             *)
EXTENDS Engine
CONSTANTS f1, f2, R, S, p1

Rule(n, a, m, F) == [name |-> n, action |-> a, mode |-> m, match |-> F]
Conf(rs, w, A, e) == [rules |-> rs, window |-> w, allowlist |-> A, enforce |-> e]

MCKey == (Name \cup Sensor) \X Pid
MCConfigs == {
    Conf(<<Rule(R, "KILL", "audit", {f1})>>, 1, {}, FALSE),
    Conf(<<Rule(S, "ALERT", "enforce", {f1, f2}), Rule(R, "BLOCK", "enforce", {f1})>>, 2, {f2}, TRUE)}
=============================================================================
