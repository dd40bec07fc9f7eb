SPECIFICATION Spec
CONSTANTS
    f1 = f1
    f2 = f2
    R = R
    S = S
    p1 = p1
    Never = Never
    None = None
    Pid = {p1}
    File = {f1, f2}
    Name = {R, S}
    Sensor = {openat}
    Key <- MCKey
    Configs <- MCConfigs
    Appliers = {poll}
    PurgeAbove = 1
    WriteWindow = 1
    LSMEnabled = TRUE
    MaxTime = 3
INVARIANTS SuppressedOnlyIfTold KilledByRule
PROPERTY AlertSpacing
