SPECIFICATION Spec
CONSTANTS
    t1 = t1
    t2 = t2
    c1 = c1
    c2 = c2
    Size = 6
    Word = 2
    Char = {"/", "a"}
    Nul = "0"
    Task = {t1, t2}
    Cgroup = {c1, c2}
    CgroupOf <- MCCgroupOf
    HostTasks = {t2}
    Debuggers = {t2}
    Switches = {"exec", "kmod", "ptrace"}
    Path <- MCPath
    BlockedWrite <- MCBlockedWrite
    BlockedPrefix <- MCBlockedPrefix
    SensitiveWrite <- MCSensitiveWrite
    Suspicious <- MCSuspicious
    Nil = Nil
    RingSize = 1
    MaxTracked = 1
INVARIANTS OpenJudged NoForeignData TrackedUnlessLost
PROPERTIES VerdictIsOwn NsChangeTracked
