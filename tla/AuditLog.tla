------------------------------ MODULE AuditLog ------------------------------
(* The audit logger of one worker process (internal/audit/audit.go) as a   *)
(* value and the operations on it: Log enqueues without blocking, a        *)
(* goroutine writes through a bufio.Writer, Close closes the channel and   *)
(* waits for the goroutine.  Records are only counted.                     *)
EXTENDS Naturals

CONSTANTS
    AuditCap,   \* capacity of the channel (10000 in the code)
    BufCap,     \* records the 64 KB bufio.Writer holds
    MaxLogs     \* bound: calls of Log

ASSUME AuditAssumption ==
    AuditCap \in Nat /\ BufCap \in Nat /\ MaxLogs \in Nat

(* queue is l.ch, buf the bufio.Writer, file what reached the file; open is *)
(* false after close(l.ch), and running until the goroutine closed l.done. *)
(* logged, dropped and lost are history: calls of Log, calls that took its *)
(* default branch, records that a failed write or a dead process took.     *)
Loggers == [logged : Nat, queue : 0..AuditCap, buf : 0..BufCap,
            file : Nat, dropped : Nat, lost : Nat,
            open : BOOLEAN, running : BOOLEAN, failed : BOOLEAN]

NewLogger == [logged |-> 0, queue |-> 0, buf |-> 0, file |-> 0, dropped |-> 0,
              lost |-> 0, open |-> TRUE, running |-> TRUE, failed |-> FALSE]

(* Mutant: the default branch of Log overwrites the oldest record.         *)
LogOverwrites(l) ==
    IF l.queue < AuditCap
    THEN [l EXCEPT !.logged = @ + 1, !.queue = @ + 1]
    ELSE [l EXCEPT !.logged = @ + 1]

Log(l) ==
    IF l.queue < AuditCap
    THEN [l EXCEPT !.logged = @ + 1, !.queue = @ + 1]
    ELSE [l EXCEPT !.logged = @ + 1, !.dropped = @ + 1]

(* The goroutine can take a record: Write copies it to the buffer, after   *)
(* flushing the buffer when there is no room.                              *)
CanWrite(l) == l.running /\ l.queue > 0

Write(l) ==
    IF l.buf < BufCap
    THEN [l EXCEPT !.queue = @ - 1, !.buf = @ + 1]
    ELSE IF BufCap = 0
    THEN [l EXCEPT !.queue = @ - 1, !.file = @ + 1]
    ELSE [l EXCEPT !.queue = @ - 1, !.file = @ + l.buf, !.buf = 1]

(* The flush inside Write fails: the goroutine returns, and the deferred   *)
(* Flush returns the same error.                                           *)
CanFail(l) == CanWrite(l) /\ l.buf = BufCap

WriteFails(l) ==
    [l EXCEPT !.queue = @ - 1, !.buf = 0, !.lost = @ + l.buf + 1,
              !.running = FALSE, !.failed = TRUE]

(* The channel is closed and empty: the range ends, the deferred Flush     *)
(* writes the rest, l.done is closed.                                      *)
CanFinish(l) == l.running /\ ~l.open /\ l.queue = 0

Finish(l) == [l EXCEPT !.buf = 0, !.file = @ + l.buf, !.running = FALSE]

FinishFails(l) ==
    [l EXCEPT !.buf = 0, !.lost = @ + l.buf, !.running = FALSE, !.failed = TRUE]

(* Mutant: the channel is not closed.                                      *)
CloseWaitsOnly(l) == l

(* Close, up to its wait for l.done.                                       *)
Close(l) == [l EXCEPT !.open = FALSE]

(* The process dies with what is in memory.                                *)
Die(l) ==
    [l EXCEPT !.queue = 0, !.buf = 0, !.lost = @ + l.queue + l.buf,
              !.open = FALSE, !.running = FALSE]

Accounted(l) == l.logged = l.queue + l.buf + l.file + l.dropped + l.lost
=============================================================================
