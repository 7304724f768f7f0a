SPECIFICATION Spec
CONSTANTS
    Nodes = {n1}
    Proposers = {n1}
    Batches = {b1}
    MaxHeight = 3
    MaxCrashes = 0
INVARIANT ExtensionConducted
CHECK_DEADLOCK FALSE
