SPECIFICATION Spec
CONSTANTS
    first = first
    second = second
    Sessions <- TwoSessions
    NoSession = NoSession
    NoPacket = NoPacket
    Width = 3
    MaxSeq = 5
INVARIANTS
    ChannelInv
    WindowExact
    FreshIsAccepted
PROPERTY
    ImplementsAtMostOnce
\* Every session ends and the sequence numbers are bounded: the system stops.
CHECK_DEADLOCK FALSE
