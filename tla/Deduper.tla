------------------------------ MODULE Deduper ------------------------------
(* The alert deduplication of internal/processor/dedup.go: a map from keys  *)
(* to the time their last alert passed, a window that every reload sets     *)
(* again, and a purge when the map has grown.  The mutex makes each call    *)
(* one step.                                                                *)
EXTENDS Naturals, FiniteSets

CONSTANTS
    Key,         \* what alerts are told apart by
    Never,       \* no entry
    PurgeAbove,  \* size above which expired entries are removed (2048)
    MaxTime      \* bound: how far the clock runs

ASSUME DeduperAssumption ==
    Never \notin Nat /\ PurgeAbove \in Nat /\ MaxTime \in Nat

VARIABLES
    now,     \* the monotonic clock
    window,  \* Deduper.window
    last,    \* Deduper.last
    told,    \* history: when the last alert of a key passed
    floor    \* history: the smallest window there was since then

dedupVars == <<now, window, last, told, floor>>

Times == Nat \cup {Never}

DedupInit(w) ==
    /\ now = 0
    /\ window = w
    /\ last = [k \in Key |-> Never]
    /\ told = [k \in Key |-> Never]
    /\ floor = [k \in Key |-> w]

Tick ==
    /\ now < MaxTime
    /\ now' = now + 1
    /\ UNCHANGED <<window, last, told, floor>>

Lower(a, b) == IF a < b THEN a ELSE b

SetWindow(w) ==
    /\ window' = w
    /\ floor' = [k \in Key |-> Lower(floor[k], w)]
    /\ UNCHANGED <<now, last, told>>

Entries(m) == {k \in Key : m[k] # Never}

(* Mutant: the purge drops what the window still protects.                 *)
ExpiredAtOnce(t) == t # Never /\ now - t > 0
Expired(t) == t # Never /\ now - t > window

Purge(m) == [k \in Key |-> IF Expired(m[k]) THEN Never ELSE m[k]]

Suppressed(k) == window > 0 /\ last[k] # Never /\ now - last[k] < window

(* Deduper.last once the alert has passed; a window of 0 leaves no trace.  *)
Recorded(k) == [last EXCEPT ![k] = now]
AfterPass(k) ==
    IF window = 0 THEN last
    ELSE IF Cardinality(Entries(Recorded(k))) > PurgeAbove THEN Purge(Recorded(k))
    ELSE Recorded(k)

(* Allow(key), when it returns false and when it returns true.             *)
AllowFalse(k) ==
    /\ Suppressed(k)
    /\ UNCHANGED dedupVars

AllowTrue(k) ==
    /\ ~Suppressed(k)
    /\ last' = AfterPass(k)
    /\ told' = [told EXCEPT ![k] = now]
    /\ floor' = [floor EXCEPT ![k] = window]
    /\ UNCHANGED <<now, window>>

DedupTypeOK ==
    /\ now \in 0..MaxTime
    /\ window \in Nat
    /\ last \in [Key -> Times]
    /\ told \in [Key -> Times]
    /\ floor \in [Key -> Nat]

(* Two alerts with one key are as far apart as the smallest window that    *)
(* was in force between them, whatever reloads and purges happened.        *)
AlertSpacing ==
    [][\A k \in Key : told'[k] # told[k] /\ told[k] # Never
          => told'[k] - told[k] >= floor[k]]_dedupVars

=============================================================================
