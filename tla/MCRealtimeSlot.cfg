SPECIFICATION Spec
CONSTANTS
    first = first
    second = second
    Sessions <- TwoSessions
    NoSession = NoSession
    NoPacket = NoPacket
    Width = 2
    MaxSeq = 1
INVARIANT
    LiveSessionCanInject
CHECK_DEADLOCK FALSE
