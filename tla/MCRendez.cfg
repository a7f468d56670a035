CONSTANTS
    S = S
    Wakers = {w1, w2, w3}
    Killers = {k}
    Nobody = Nobody
SPECIFICATION FairSpec
INVARIANTS NoLostWakeup OneMeeter SignalInHostCall NoStaleInterrupt
PROPERTIES ReadySleeperWakes
CHECK_DEADLOCK FALSE
