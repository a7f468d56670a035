CONSTANTS
    MaxReqs = 3
    MaxFlushes = 1
SPECIFICATION FairSpec
INVARIANTS AnsweredOnce ExportCounted FidCounted
PROPERTIES RequestsAnswered
CHECK_DEADLOCK FALSE
