CONSTANTS
    MaxLaunches = 1
    Procs <- MCProcs
    Requests <- MCRequestsEnd
    MaxRequests = 3
    MaxConns = 1
    MaxBps = 0
    SlowGdb = FALSE
SPECIFICATION FairSpec
PROPERTY EveryRequestAnswered
CHECK_DEADLOCK FALSE
