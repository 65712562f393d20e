CONSTANTS
    MaxLaunches = 1
    Procs <- MCProcs
    Requests <- MCRequestsSession
    MaxRequests = 3
    MaxConns = 1
    MaxBps = 0
    SlowGdb = FALSE
SPECIFICATION FairSpec
PROPERTY HandlerCompletes
CHECK_DEADLOCK FALSE
