CONSTANTS
    Bodies <- MCBodiesUtf8
    MaxMsgs = 2
    MaxChunk = 3
SPECIFICATION Spec
INVARIANT NoJsonFailure
CHECK_DEADLOCK FALSE
