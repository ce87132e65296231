SPECIFICATION ClipboardSpec
CONSTANTS
    A = A
    B = B
    t1 = t1
    t2 = t2
    t3 = t3
    Texts <- ThreeTexts
    NoText = NoText
    Unseen = Unseen
    MaxCopies = 2
    MaxFailures = 1
INVARIANTS
    EchoIsBounded
    AgreeAtRest
PROPERTY
    ComesToRest
\* Both threads stop with the session.
CHECK_DEADLOCK FALSE
