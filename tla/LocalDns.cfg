SPECIFICATION Spec
CONSTANTS
    ZoneNames <- MCZoneNames
    Records <- MCRecords
    Language <- MCLanguage
    KeyOrder <- MCKeyOrder
    Queries <- MCQueries
    DNS_MAX_CNAME_DEPTH = 3
    MaxZones = 2
    MaxRecords = 3
INVARIANTS MatchesDocumentation ChainConnected
CHECK_DEADLOCK FALSE
