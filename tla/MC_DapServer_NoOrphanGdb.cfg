CONSTANTS
    MaxLaunches = 2
    Procs <- MCProcs
    Requests <- MCRequestsSession
    MaxRequests = 3
    MaxConns = 1
    MaxBps = 0
    SlowGdb = FALSE
SPECIFICATION Spec
INVARIANT NoOrphanGdb
CHECK_DEADLOCK FALSE
