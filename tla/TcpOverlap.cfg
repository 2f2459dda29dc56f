SPECIFICATION SessionSpec
CONSTANTS
    Frames = {1, 2, 3}
    Small = {3}
    MaxReply = 3
    Width = 4
    SendBuffer = 2
INVARIANT StreamFramed
CHECK_DEADLOCK FALSE
