SPECIFICATION RaceSpec
CONSTANTS
    Nodes = {n1,n2}
    Proposers = {n1,n2}
    Batches = {b1}
    MaxHeight = 1
    MaxCrashes = 1
INVARIANTS
    QCUnique
    NoLostQuorum
    ProposerNeverStalls
SYMMETRY Symmetry
PROPERTIES
    ImplementsConsensus
CHECK_DEADLOCK FALSE
