SPECIFICATION Spec
CONSTANTS
    q1 = q1
    q2 = q2
    c1 = c1
    c2 = c2
    Query = {q1, q2}
    Key = {k1, k2}
    Cgroup = {c1, c2}
    Owner <- MCOwner
    Forwarded = {q2}
    i1 = i1
    i2 = i2
    Ip = {i1, i2}
    Other = Other
    Packets <- MCPackets
    Cpu = {p1, p2}
    Nil = Nil
    RingSize = 2
    MaxCalls = 1
CHECK_DEADLOCK FALSE
INVARIANTS TypeOK AnswerOfItsQuery ConnectNamed
SYMMETRY Symmetry
