SPECIFICATION PairingSpec
CONSTANTS
    VideoEncoders = {"v1", "v2"}
    AudioEncoders = {"a1", "a2"}
    Sharings <- OtherTrack
    FramePeriod = 1
    BlockPeriod = 2
    MaxSkew = 1
    MaxTime = 9
    MaxOutputStarts = 2
    Mishaps = {"failed"}
INVARIANTS
    CapturedIsEncoded
CHECK_DEADLOCK FALSE
