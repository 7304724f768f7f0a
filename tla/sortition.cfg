SPECIFICATION LiveSpec
CONSTANTS
    Nodes = {n1, n2, n3}
    Batches = {b1}
    Proposers = {n1, n2}
    MaxHeight = 1
    MaxRound = 2
INVARIANTS
    TypeOK
    RoundNeedsQuorum
    RoundsConverge
PROPERTIES
    RoundsGoUp
    EventuallyProposed
CHECK_DEADLOCK FALSE
