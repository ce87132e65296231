SPECIFICATION Spec
CONSTANTS
    Keys <- SomeKeys
    Mods <- SomeMods
    Images <- SomeImages
    Copies = 2
    MaxLosses = 1
    MaxSwaps = 1
    WireCap = 4
INVARIANT
    HeldIsPressed
