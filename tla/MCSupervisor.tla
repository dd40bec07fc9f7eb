---------------------------- MODULE MCSupervisor ----------------------------
(* A small instance of Supervisor: three programs and the two self-        *)
(* protection links.  Programs and links are numbered apart, so a link may *)
(* have a program's number.  protected_ids is full after two programs: the *)
(* third does not get in, the links do, under the numbers that are there.  *)
EXTENDS Supervisor

CONSTANTS prog1, prog2, prog3, killLink, cmdLink

MCOrder == <<prog1, prog2, prog3, killLink, cmdLink>>
MCLinks == {killLink, cmdLink}
MCNumber == [o \in MCLinks \cup {prog1, prog2, prog3} |->
                CASE o \in {prog1, killLink} -> 1
                  [] o \in {prog2, cmdLink} -> 2
                  [] o = prog3 -> 3]
=============================================================================
