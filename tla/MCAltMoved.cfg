CONSTANTS
    p1 = p1
    p2 = p2
    p3 = p3
    c1 = c1
    c2 = c2
    Progs = {p1, p2, p3}
    Chans = {c1, c2}
    NoProg = NoProg
    Alts <- MCOwnAlts
    Shared = {p1}
    Reassigned = TRUE
SPECIFICATION Spec
CHECK_DEADLOCK FALSE
INVARIANTS NoStaleLink
