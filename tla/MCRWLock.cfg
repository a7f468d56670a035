CONSTANTS
    Procs = {p1, p2, p3, p4}
    NoProc = NoProc
    Readers = Readers
    KFirst = TRUE
SPECIFICATION RWFairSpec
INVARIANTS ReadersExcludeWriter KFollowsReaders
PROPERTIES WriterNotOvertaken AskersGetIn
