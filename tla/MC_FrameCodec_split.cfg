CONSTANTS
    Bodies <- MCBodiesUtf8
    MaxMsgs = 2
    MaxChunk = 3
SPECIFICATION Spec
INVARIANT NoDecodeFailure
CHECK_DEADLOCK FALSE
