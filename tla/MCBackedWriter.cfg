SPECIFICATION MCSpec
CONSTANTS
    Small = Small
    Big = Big
    Packets <- MCPackets
    Length <- MCLength
    MAC_BYTES = 1
    MAX_BACKUP_BYTES = 9
    DISCONNECT_BUFFER_BYTES = 8
    Streams = {s1, s2}
    NoStream = NoStream
    MaxSequence = 6
INVARIANTS
    TypeOK
    BackupIsRecentHistory
    RecoverIsExact
    BackupSizeIsExact
    OutageBufferBounded
PROPERTIES
    OutageKeepsRecoverable
    EvictionIsMinimal
