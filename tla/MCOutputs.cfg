SPECIFICATION OutputsSpec
CONSTANTS
    RetryMax = 2
    MaxStarts = 3
    Races <- NoneOrMore
    MaxSessions = 3
    Faults = {"offer", "remote"}
    RtcRaces = {}
    u1 = u1
    u2 = u2
    Users = {u1, u2}
    MaxHeld = 2
    RefRaces = {}
INVARIANTS
    OutputsTypeOK
    AtRest
    CallbacksFindObjects
    RtcAtRest
    NothingFreedInUse
PROPERTIES
    StopIsFinal
    QuietCallsReturn
    RtcCallsReturn
    LastReleaseFrees
CHECK_DEADLOCK FALSE
