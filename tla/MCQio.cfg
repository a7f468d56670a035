CONSTANTS
    Readers = {r}
    Writers = {w}
    Device = Device
    Control = Control
    Nobody = Nobody
    Limit = 2
    MaxBlock = 2
    MaxLen = 2
    FlushRead = FALSE
SPECIFICATION FairSpec
INVARIANTS StarvedReaderCalled FlowedWriterCalled QueueBounded
PROPERTIES ImplementsStream ReaderServed WriterServed
