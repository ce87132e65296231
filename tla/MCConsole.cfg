SPECIFICATION Spec
CONSTANTS
    p1 = p1
    p2 = p2
    NoPeer = NoPeer
    Peers <- OnePeer
    MaxSessions = 2
    QueueCap = 2
    InboxCap = 1
    EventCap = 2
    MaxClicks = 3
INVARIANTS
    RevocationRouted
    ConnectedIsTrue
    SharingIsKnown
PROPERTY
    UnpairEndsSession
CHECK_DEADLOCK FALSE
