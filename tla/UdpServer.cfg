SPECIFICATION FairSpec
CONSTANTS
    Datagrams = {1, 2, 3}
    Short = {3}
    MaxFaults = 2
    MaxOpenFails = 2
INVARIANTS OneReceive
PROPERTIES BackoffRespected StopIsFinal Recovers Drains
CHECK_DEADLOCK FALSE
