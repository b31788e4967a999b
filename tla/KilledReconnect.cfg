SPECIFICATION SessionSpec
CONSTANTS
    Interval = 1
    ResponseWait = 1
    MaxAttempts = 1
    OutageRoom = 1
    SendRoom = 2
    MaxExtras = 0
    MaxLosses = 1
INVARIANT
    ForcesLiveConnection
