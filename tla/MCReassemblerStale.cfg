SPECIFICATION Spec
CONSTANTS
    Wrap = 12
    Lag = 2
    MaxFrames = 14
    Chunks <- OneToThree
PROPERTY
    ShowsForward
CHECK_DEADLOCK FALSE
