SPECIFICATION Spec
CONSTANTS
    Streams = {s1, s2, s3}
    NoStream = NoStream
    PacketLength = 2
    MAC_BYTES = 1
    MAX_BACKUP_BYTES = 20
    DISCONNECT_BUFFER_BYTES = 4
    I32_LIMIT = 100
    Window = 2
    MaxUp = 2
    MaxDown = 0
    MaxFaults = 1
    MaxForced = 1
SYMMETRY Symmetry
INVARIANT
    AtMostOnce
