CONSTANTS
    Procs = {p1, p2, p3}
    NoProc = NoProc
    Readers = Readers
    KFirst = FALSE
SPECIFICATION RWSpec
INVARIANTS ReadersExcludeWriter
