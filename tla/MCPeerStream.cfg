SPECIFICATION MCSpec
CONSTANTS
    Packets = {p, q}
    Streams = {s1, s2}
    NoStream = NoStream
    MaxSent = 4
INVARIANTS
    PeerTypeOK
    NonceMatchesDelivery
    SequenceCountsCatchup
    WireContinuesPartial
PROPERTIES
    ImplementsEternalPipe
