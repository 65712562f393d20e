CONSTANTS
    MaxLaunches = 1
    Procs <- MCProcs
    Requests <- MCRequestsMixed
    MaxRequests = 3
    MaxConns = 1
    MaxBps = 1
    SlowGdb = FALSE
SPECIFICATION Spec
INVARIANT ResponseBeforeStopEvent
CHECK_DEADLOCK FALSE
