SPECIFICATION Spec
CONSTANTS
    Labels = {"a", "b", "long"}
    Qtypes = {"A", "AAAA"}
    Txn = {1, 2}
    MaxEntries = 2
    UINT32_MAX = 4
    TicksPerSec = 2
    MaxTime = 5
    Queries <- MCQueries
    LongNames = {"long"}
    Forms = {"IN", "CH"}
    Strays <- MCStrays
    RecordLists <- MCRecordLists
    Local <- MCLocal
    DohOnly = FALSE
    Transport = "udp"
INVARIANTS ReplyMatchesQuery CacheHoldsAnswers TtlHonest OptAccounted
CHECK_DEADLOCK FALSE
