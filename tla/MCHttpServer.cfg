SPECIFICATION Spec
CHECK_DEADLOCK FALSE
CONSTANTS
    Clients = {1, 2, 3}
    MaxHeader = 2
    MaxFields = 1
    MaxBody = 2
    MaxConnections = 2
    IdleTimeout = 1
    RequestTimeout = 2
    Chunk = 2
    AnswerSize = 2
    Waits = {0, 1}
    Requests <- MCRequests
INVARIANT AnsweredOnce
PROPERTY EveryConnectionEnds
