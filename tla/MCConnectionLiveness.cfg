SPECIFICATION FairSpec
CONSTANTS
    Streams = {s1, s2, s3}
    NoStream = NoStream
    PacketLength = 2
    MAC_BYTES = 1
    MAX_BACKUP_BYTES = 20
    DISCONNECT_BUFFER_BYTES = 1
    I32_LIMIT = 100
    Window = 1
    MaxUp = 1
    MaxDown = 1
    MaxFaults = 1
    MaxForced = 1
PROPERTIES
    Reconnects
    WriteReturns
    ShutdownCompletes
    ServerIsHeard
