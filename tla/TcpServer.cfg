SPECIFICATION FairSpec
CONSTANTS
    Connections = {1, 2, 3}
    MaxFaults = 3
    MaxOpenFails = 3
INVARIANTS OneAccept
PROPERTIES BackoffRespected StopIsFinal Recovers BacklogServed
CHECK_DEADLOCK FALSE
