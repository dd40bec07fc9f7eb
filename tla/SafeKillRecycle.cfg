SPECIFICATION Spec
CONSTANTS
    good = good
    good2 = good2
    bad = bad
    sys = sys
    i1 = i1
    i2 = i2
    i3 = i3
    Paths = {"sshd"}
    Files = {sys, good, good2, bad}
    Inos = {i1, i2, i3}
    Pids = {1, 2, 7}
    System = sys
    Trustworthy = {sys, good, good2}
    None = None
    Self = 2
    PidLists = {{}, {7}}
    MaxInc = 2
    MaxKills = 2
INVARIANT NoRecycledKill
