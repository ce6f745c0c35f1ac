SPECIFICATION InterleaveSpec
CONSTANTS
    NumTracks = 1
    Beginnings <- Reordered
    VideoStart = 1
    VideoDuration = 2
    AudioDuration = 3
    MaxVideo = 5
    MaxAudio = 5
    MaxCaptures = 1
PROPERTIES
    Monotonic
CHECK_DEADLOCK FALSE
