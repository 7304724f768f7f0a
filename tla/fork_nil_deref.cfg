SPECIFICATION FastVotesSpec
CONSTANTS
    Nodes = {n1,n2}
    Proposers = {n1,n2}
    Batches = {b1}
    MaxHeight = 3
    MaxCrashes = 0
INVARIANTS
    AncestorsAreCandidates
CHECK_DEADLOCK FALSE
