CONSTANTS
    Readers = {r}
    Writers = {w}
    Device = Device
    Control = Control
    Nobody = Nobody
    Limit = 2
    MaxBlock = 2
    MaxLen = 3
    FlushRead = TRUE
SPECIFICATION Spec
INVARIANTS StarvedReaderCalled
