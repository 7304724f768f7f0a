SPECIFICATION LiveSpec
CONSTANTS
    Nodes = {n1, n2}
    Proposers = {n1}
    Capacity = 1
    Rounds = 2
    MaxCrashes = 1
INVARIANTS
    TypeOK
PROPERTIES
    AllHandled
    LocksReleased
CHECK_DEADLOCK FALSE
