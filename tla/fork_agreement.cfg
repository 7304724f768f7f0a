SPECIFICATION FastVotesSpec
CONSTANTS
    Nodes = {n1,n2}
    Proposers = {n1,n2}
    Batches = {b1}
    MaxHeight = 2
    MaxCrashes = 0
INVARIANTS
    Agreement
CHECK_DEADLOCK FALSE
