CONSTANTS
    S = S
    Wakers = {w1}
    Killers = {k}
    Nobody = Nobody
SPECIFICATION FairSpec
PROPERTIES SwiprocReturns
CHECK_DEADLOCK FALSE
