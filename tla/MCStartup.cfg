SPECIFICATION FairSpec
CONSTANTS
    Half = 4
    Digits = 4
    Long = 128
    Word = 16
    IdLength = 2
    KeyLength = 2
    CommandLines <- MCCommandLines
    Outputs <- MCOutputs
    MaxAttempts = 3
    ResponseWait = 3
    MaxLosses = 3
    MaxCopies = 2
INVARIANTS
    StartupTypeOK
    DialsWhatWasAsked
    FailsOnlyForCause
    SessionStartsClean
PROPERTIES
    StartsOrReports
