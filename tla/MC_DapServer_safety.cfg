CONSTANTS
    MaxLaunches = 1
    Procs <- MCProcs
    Requests <- MCRequestsSafety
    MaxRequests = 3
    MaxConns = 2
    MaxBps = 1
    SlowGdb = TRUE
SPECIFICATION FairSpec
INVARIANT TypeOK
INVARIANT SeqUnique
CHECK_DEADLOCK FALSE
PROPERTY WatchersReapedOnExit
