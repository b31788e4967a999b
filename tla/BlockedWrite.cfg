SPECIFICATION FairSpec
CONSTANTS
    Interval = 1
    ResponseWait = 1
    MaxAttempts = 1
    OutageRoom = 1
    SendRoom = 1
    MaxExtras = 0
    MaxLosses = 1
PROPERTY
    WriteNeverBlocks
