SPECIFICATION FairSessionSpec
CONSTANTS
    Frames = {1, 2, 3}
    Small = {3}
    MaxReply = 3
    Width = 3
    SendBuffer = 3
INVARIANTS FramedWhenWhole
PROPERTIES Consumed Released
CHECK_DEADLOCK FALSE
