SPECIFICATION Spec
CONSTANTS
    MaxStreams = 2
    MaxQueue = 2
INVARIANTS
    MirrorInv
    SharingIsStoppable
    PictureHasReceiver
PROPERTY
    QuietAfterStop
