SPECIFICATION Spec
CONSTANTS
    p1 = p1
    p2 = p2
    s1 = s1
    q1 = q1
    m1 = m1
    r1 = r1
    r2 = r2
    Proc = {p1, p2}
    Godebug <- Settings
    EarlyGodebug = TRUE
    HaveSysmon = TRUE
    Race = FALSE
    IntLimit = 4
    WordSize = 32
    MaxProcs = 2
    Selects = {s1}
    Shuffles = {q1}
    Maps = {m1}
    Random = {r1, r2}
    MaxDraws = 2
SYMMETRY Twin
INVARIANTS
    TypeOK
    Replay
    OrderFree
    SeedsApart
    TimerChansSync
    RequestedIsEnabled
    Quiet
