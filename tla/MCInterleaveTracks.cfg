SPECIFICATION InterleaveSpec
CONSTANTS
    NumTracks = 2
    Beginnings <- Apart
    VideoStart = 1
    VideoDuration = 2
    AudioDuration = 3
    MaxVideo = 4
    MaxAudio = 3
    MaxCaptures = 1
INVARIANTS
    VideoNotTooEarly
CHECK_DEADLOCK FALSE
