SPECIFICATION Spec
CONSTANTS
    prog1 = prog1
    prog2 = prog2
    prog3 = prog3
    killLink = killLink
    cmdLink = cmdLink
    MaxWorkers = 2
    Order <- MCOrder
    Number <- MCNumber
    Links <- MCLinks
    KillLink = killLink
    CmdLink = cmdLink
    MaxProtected = 2
    Descriptors = {2, 3}
    AuditCap = 1
    BufCap = 1
    MaxLogs = 0
    MaxSignals = 1
    MaxRestarts = 1
CHECK_DEADLOCK FALSE
PROPERTIES StopTerminates
