SPECIFICATION TransportSpec
CONSTANTS
    Group <- GroupOfFrames
    DropThreshold = 3
    PframeDropThreshold = 5
    MaxPackets = 11
    Drain = 3
    MaxConnections = 1
    Encoders = {"video", "audio"}
    Retries = 1
    MaxEntries = 3
    MaxLosses = 1
    MaxRuns = 1
    DelayRaces = {}
INVARIANTS
    TransportTypeOK
    SentIsDecodable
    PacketsHaveWakeups
    BacklogBounded
    RefsCountStarts
PROPERTIES
    StopEndsSending
    DelayedStopStops
CHECK_DEADLOCK FALSE
