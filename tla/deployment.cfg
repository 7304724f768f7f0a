SPECIFICATION LiveSpec
CONSTANTS
    Nodes = {n1, n2, n3}
    Batches = {b1}
    Expectation = 1
    Overriding = {n3}
    MaxRuns = 2
INVARIANTS
    TypeOK
    QuorumsMakeQCs
    TemplateSaysWhoProposes
    RunningMeansAllListened
PROPERTIES
    EventuallyRunning
CHECK_DEADLOCK FALSE
