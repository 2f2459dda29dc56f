SPECIFICATION FairSpec
CONSTANTS
    Entries = {1, 2, 3}
    Timeouts <- MCTimeouts
    MinTimeout = 1
    MaxTimeout = 5
    Sec = 2
    MaxBody = 2
    Chunks = {1, 2}
    HttpCodes = {200, 400, 503, 502}
INVARIANTS OverrunBounded FailoverComplete FirstVerdictWins OutputFromWinner
PROPERTIES Terminates
