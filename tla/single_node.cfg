SPECIFICATION Spec
CONSTANTS
    Nodes = {n1}
    Proposers = {n1}
    Batches = {b1}
    MaxHeight = 3
    MaxCrashes = 1
INVARIANTS
    TypeOK
    ChainHasNoHoles
    NoLostQC
    NoLostCandidate
    HandlersReturn
    ChainCertified
CHECK_DEADLOCK FALSE
