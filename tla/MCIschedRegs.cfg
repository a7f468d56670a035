CONSTANTS
    Vms = {v1, v2}
    Kprocs = {}
    Progs = {a, b}
    Main = v1
    Init0 = {a, b}
    Nobody = Nobody
    FileCycles = TRUE
    MaxYield = 1
SPECIFICATION Spec
INVARIANTS RegistersOwn
CHECK_DEADLOCK FALSE
