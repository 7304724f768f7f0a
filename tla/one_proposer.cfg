SPECIFICATION FastVotesLiveSpec
CONSTANTS
    Nodes = {n1,n2}
    Proposers = {n1}
    Batches = {b1,b2}
    MaxHeight = 3
    MaxCrashes = 0
INVARIANTS
    Agreement
    AncestorsCommitted
    AncestorsAreCandidates
    OneProposalPerHeight
PROPERTIES
    ChainsGrow
    ImplementsConsensus
    EventuallyCertified
CHECK_DEADLOCK FALSE
