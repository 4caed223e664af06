SPECIFICATION FairSpec
CONSTANTS
    Node = {n1, n2, n3}
    Loop = {n1, n2, n3}
    Owner <- OwnLoop
    DialFaults = {"drop", "delay"}
    MaxDials = 3
INVARIANTS TypeOK AddressesKnown NoSpinningServer
PROPERTIES NoLateConnection EverythingEnds
CHECK_DEADLOCK FALSE
