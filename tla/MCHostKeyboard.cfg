SPECIFICATION Spec
CONSTANTS
    lctrl = lctrl
    lalt = lalt
    home = home
    left = left
    Size = 1
    RawHysteresis = 1
    Keys <- ChordKeys
    Mods = {lctrl, lalt}
    CtrlKeys = {lctrl}
    AltKeys = {lalt}
    HomeKeys = {home}
    Buttons <- Empty
    Edges = {"Right"}
    Motions <- Push
    QueueCap = 2
INVARIANTS
    LoopInv
    ModifiersTracked
    RemoteMirrorsKeyboard
PROPERTIES
    SnapHomeObeyed
    ImplementsHandover
