SPECIFICATION Spec
CONSTANTS
    Task = {t1, t2}
    Boot = {t1, t2}
    dropper = dropper
    sudo = sudo
    memfd = memfd
    banned = banned
    deep = deep
    Program = {dropper, sudo, memfd, banned, deep}
    Suspicious = {dropper}
    Setuid = {sudo}
    Fileless = {memfd}
    LongPath = {deep}
    Exact <- MCExact
    Prefix <- MCPrefix
    None = None
    RingSize = 1
SYMMETRY Symmetry
INVARIANTS LineageExact
PROPERTIES RedirectedNeverExecs RootNeedsSetuid
