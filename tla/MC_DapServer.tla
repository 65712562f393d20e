---------------------------- MODULE MC_DapServer ----------------------------
(* Model-checking instance of DapServer: the constants of the runs. *)
EXTENDS DapServer, TLC

\* one gdb process name per request that may be a launch
MCProcs == 1..MaxRequests

\* requests of a debugging session: launch, inspect, step, end
MCRequestsSession ==
    {"launch", "setBreakpoints", "stackTrace", "continue", "next",
     "evaluate", "disconnect", "terminate"}

\* the session for the exhaustive safety run: next stands for continue (step
\* mode allows every stop that run mode does, and the end of a step), and
\* stackTrace for evaluate (one inspect command, its reply, the response)
MCRequestsSafety ==
    {"launch", "setBreakpoints", "stackTrace", "next", "disconnect",
     "terminate"}

\* requests that only answer, to race with the watcher's events
MCRequestsMixed ==
    {"initialize", "launch", "continue", "threads", "unknown", "terminate",
     "variables", "disconnect"}

\* requests that end a session, sent again after the session has ended
MCRequestsEnd == {"launch", "terminate", "disconnect"}

=============================================================================
