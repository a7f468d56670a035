CONSTANTS
    Procs = {p1, p2, p3, p4}
    NoProc = NoProc
SPECIFICATION QLockFairSpec
INVARIANTS MutualExclusion NoLostWaiter
PROPERTIES ImplementsFifoMutex ParkedEventuallyHolds
