--------------------------- MODULE AlertDelivery ---------------------------
(* What the alert dispatcher promises its callers and its sinks, without   *)
(* goroutines or locks: every alert offered to a sink while the dispatcher *)
(* is open is either taken for that sink or counted as dropped, and it may *)
(* be dropped only when the sink lags Depth alerts behind; what was taken  *)
(* is sent in order; a sink is closed only after everything taken for any  *)
(* sink has been sent, and is sent nothing afterwards.                     *)
EXTENDS Naturals, Sequences

CONSTANTS Sinks, Alerts, Depth

VARIABLES
    owed,     \* per sink: the alerts taken for it and not yet sent
    sent,     \* per sink: the alerts sent to it
    dropped,  \* per sink: the alerts dropped for it
    open,     \* does the dispatcher still take alerts?
    shut      \* the sinks that have been closed

vars == <<owed, sent, dropped, open, shut>>

Init ==
    /\ owed = [s \in Sinks |-> <<>>]
    /\ sent = [s \in Sinks |-> <<>>]
    /\ dropped = [s \in Sinks |-> {}]
    /\ open = TRUE
    /\ shut = {}

Take(s, a) ==
    /\ open
    /\ owed' = [owed EXCEPT ![s] = Append(@, a)]
    /\ UNCHANGED <<sent, dropped, open, shut>>

Drop(s, a) ==
    /\ open
    /\ Len(owed[s]) >= Depth
    /\ dropped' = [dropped EXCEPT ![s] = @ \cup {a}]
    /\ UNCHANGED <<owed, sent, open, shut>>

SendNext(s) ==
    /\ owed[s] # <<>>
    /\ s \notin shut
    /\ sent' = [sent EXCEPT ![s] = Append(@, Head(owed[s]))]
    /\ owed' = [owed EXCEPT ![s] = Tail(@)]
    /\ UNCHANGED <<dropped, open, shut>>

Close ==
    /\ open' = FALSE
    /\ UNCHANGED <<owed, sent, dropped, shut>>

ShutSink(s) ==
    /\ ~open
    /\ \A t \in Sinks : owed[t] = <<>>
    /\ shut' = shut \cup {s}
    /\ UNCHANGED <<owed, sent, dropped, open>>

Next ==
    \/ \E s \in Sinks, a \in Alerts : Take(s, a) \/ Drop(s, a)
    \/ \E s \in Sinks : SendNext(s) \/ ShutSink(s)
    \/ Close

Spec == Init /\ [][Next]_vars
=============================================================================
