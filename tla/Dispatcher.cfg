SPECIFICATION FairSpec
CONSTANTS
    Sinks = {"store", "webhook"}
    Callers = {"reader"}
    Closers = {"main", "test"}
    QueueDepth = 2
    MaxAlerts = 4
    Stuck = {"webhook"}
INVARIANTS
    NoSendOnClosedQueue
    AccountedOnce
PROPERTIES
    KeepsPromise
    CloseTerminates
    HealthySinksDrain
CHECK_DEADLOCK FALSE
