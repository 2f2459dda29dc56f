SPECIFICATION Spec
CONSTANTS
    Labels = {a, b}
    Qtypes = {A, AAAA}
    Txn = {1, 2}
    Bodies = {"x", "y"}
    Responses <- MCResponses
    MaxEntries = 2
    UINT32_MAX = 3
    TicksPerSec = 2
    MaxTime = 5
INVARIANTS CapacityBound EntriesSound ClampNeverLengthens
PROPERTIES LiveEvictedLast ImplementsTtlCache
CHECK_DEADLOCK FALSE
