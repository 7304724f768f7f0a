SPECIFICATION Spec
CONSTANTS
    Nodes = {n1, n2, n3}
    Batches = {b1}
    Proposers = {n1, n2, n3}
    MaxHeight = 1
    MaxRound = 2
INVARIANT EveryRoundNeedsQuorum
CHECK_DEADLOCK FALSE
