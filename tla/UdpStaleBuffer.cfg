SPECIFICATION Spec
CONSTANTS
    Datagrams = {1, 2, 3}
    Short = {3}
    MaxFaults = 2
    MaxOpenFails = 2
INVARIANT ServedIsReceived
CHECK_DEADLOCK FALSE
