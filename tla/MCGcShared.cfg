CONSTANTS
    NBlocks = 3
    NRoots = 2
    Quanta = 2
    MaxDepth = 2
    MaxRef = 3
    Shared = TRUE
SPECIFICATION Spec
INVARIANTS ReachableKept
