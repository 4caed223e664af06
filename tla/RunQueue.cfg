SPECIFICATION FairSpec
CONSTANTS
    g1 = g1
    g2 = g2
    g3 = g3
    g4 = g4
    g5 = g5
    g6 = g6
    G <- Six
    NoG = NoG
    RunqSize = 4
    GlobalEvery = 2
    Word = 8
    Modes = {"detsched", "race", "plain"}
    HaveSysmon = TRUE
INVARIANTS
    TypeOK
    Accounted
    RingIsQueue
PROPERTIES
    ImplementsGoSched
    NoStarvation
