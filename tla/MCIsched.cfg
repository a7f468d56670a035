CONSTANTS
    Vms = {v1, v2}
    Kprocs = {k}
    Progs = {a, b}
    Main = v1
    Init0 = {a}
    Nobody = Nobody
    FileCycles = TRUE
    MaxYield = 1
SPECIFICATION FairSpec
INVARIANTS ThreadInOnePlace OneMachine WaitersQueued FreedOnce
PROPERTIES AcquireServed
CHECK_DEADLOCK FALSE
