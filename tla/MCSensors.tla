----------------------------- MODULE MCSensors ------------------------------
(* Buffers of three words of two bytes: "/a" ends within a word, "/a/aa"   *)
(* just fits, "/a/aaa" does not.                                           *)
EXTENDS Sensors

CONSTANTS t1, t2, c1, c2

MCCgroupOf == [t \in {t1, t2} |-> IF t = t1 THEN c1 ELSE c2]
Short == <<"/", "a">>
Full == <<"/", "a", "/", "a", "a">>
Long == <<"/", "a", "/", "a", "a", "a">>
Dir == <<"/", "a", "/">>
MCPath == {Short, Full, Long}
MCBlockedWrite == {Short, Full}
MCBlockedPrefix == {Dir}
MCSensitiveWrite == {Full}
MCSuspicious == {Dir}
=============================================================================
