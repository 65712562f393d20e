CONSTANTS
    Bodies <- MCBodiesAscii
    MaxMsgs = 3
    MaxChunk = 6
SPECIFICATION FairSpec
PROPERTIES Refines AllDelivered
CHECK_DEADLOCK FALSE
