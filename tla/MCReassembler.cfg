SPECIFICATION Spec
CONSTANTS
    Wrap = 12
    Lag = 2
    MaxFrames = 14
    Chunks <- OneToThree
INVARIANTS
    FramesAreWhole
    AssemblyIsPure
PROPERTY
    NewerFramesOnly
\* The frames run out.
CHECK_DEADLOCK FALSE
