SPECIFICATION FairSpec
CONSTANTS
    Half = 2
    Digits = 8
    Long = 128
    Word = 16
    Texts <- MCTexts
    Windows <- MCWindows
    DefaultSize <- MCDefaultSize
    BufferSize = 2
    PollTime = 1
    MaxRecords = 3
    MaxResized = 1
INVARIANTS
    ConsoleTypeOK
    BytesIntact
    ModesRestored
PROPERTIES
    NeverFrozen
