SPECIFICATION Spec
CONSTANTS
    Streams = {s1, s2, s3}
    NoStream = NoStream
    PacketLength = 2
    MAC_BYTES = 1
    MAX_BACKUP_BYTES = 8
    DISCONNECT_BUFFER_BYTES = 8
    I32_LIMIT = 100
    Window = 1
    MaxUp = 4
    MaxDown = 0
    MaxFaults = 1
    MaxForced = 1
SYMMETRY Symmetry
INVARIANT
    RecoverSucceeds
