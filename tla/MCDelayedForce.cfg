SPECIFICATION DelayedSpec
CONSTANTS
    Encoders = {"video"}
    Retries = 1
    MaxEntries = 4
    MaxLosses = 2
    MaxRuns = 1
    DelayRaces = {"connect"}
PROPERTIES
    ForceStopIsFinal
CHECK_DEADLOCK FALSE
