CONSTANTS
    Vms = {v1, v2, v3}
    Kprocs = {}
    Progs = {a, b}
    Main = v1
    Init0 = {a, b}
    Nobody = Nobody
    FileCycles = TRUE
    MaxYield = 1
SPECIFICATION Spec
INVARIANTS TypeOK YieldCounts OneMachine WaitersQueued ThreadInOnePlace FreedOnce
CHECK_DEADLOCK FALSE
