CONSTANTS
    MaxLaunches = 1
    Procs <- MCProcs
    Requests <- MCRequestsMixed
    MaxRequests = 3
    MaxConns = 1
    MaxBps = 0
    SlowGdb = FALSE
SPECIFICATION FairSpec
PROPERTY WatcherEndsWithGdb
CHECK_DEADLOCK FALSE
