CONSTANTS
    Readers = {r}
    Writers = {w}
    Device = Device
    Control = Control
    Nobody = Nobody
    Limit = 2
    MaxBlock = 3
    MaxLen = 3
    FlushRead = FALSE
SPECIFICATION Spec
INVARIANTS SleeperCalled
