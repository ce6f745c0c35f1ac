SPECIFICATION Spec
CONSTANTS
    Inputs = {plain, scaled}
    Converting = {scaled}
    plain = plain
    scaled = scaled
    CacheSize = 3
    MaxCount = 2
    MaxClock = 5
INVARIANTS
    NoTornFrame
    SlotsTileTime
    IndInv
PROPERTIES
    EveryIntervalOnce
    ImplementsFrameStream
    EveryIntervalPlayed
CHECK_DEADLOCK FALSE
