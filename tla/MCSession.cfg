SPECIFICATION FairSpec
CONSTANTS
    Interval = 2
    ResponseWait = 1
    MaxAttempts = 2
    OutageRoom = 1
    SendRoom = 1
    MaxExtras = 1
    MaxLosses = 1
INVARIANTS
    SessionTypeOK
    WaitingIsOwed
PROPERTIES
    SilenceNoticed
    StrandedComesBack
    QuitHonoured
    OverMeansExit
