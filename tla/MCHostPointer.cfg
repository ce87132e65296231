SPECIFICATION Spec
CONSTANTS
    lctrl = lctrl
    lalt = lalt
    home = home
    left = left
    Size = 2
    RawHysteresis = 2
    Keys <- Empty
    Mods <- Empty
    CtrlKeys <- Empty
    AltKeys <- Empty
    HomeKeys <- Empty
    Buttons <- Empty
    Edges = {"Left", "Right", "Top"}
    Motions <- CornerMotions
    QueueCap = 1
PROPERTIES
    ReturnNeedsPush
    StopObeyed
