CONSTANTS
    Vms = {v1, v2}
    Kprocs = {k}
    Progs = {a, b, c}
    Main = v1
    Init0 = {a, b}
    Nobody = Nobody
    FileCycles = FALSE
    MaxYield = 1
SPECIFICATION Spec
PROPERTIES KillgrpKillsAll
CHECK_DEADLOCK FALSE
