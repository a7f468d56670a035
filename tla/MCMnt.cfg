CONSTANTS
    MaxCalls = 3
    MaxFaults = 2
    Tagfls = 10
SPECIFICATION FairSpec
INVARIANTS ReplyIsOwn FreeOrPending SomebodyReads
PROPERTIES CallsReturn
CHECK_DEADLOCK FALSE
