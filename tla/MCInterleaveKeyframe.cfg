SPECIFICATION InterleaveSpec
CONSTANTS
    NumTracks = 1
    Beginnings <- AudioLate
    VideoStart = 1
    VideoDuration = 2
    AudioDuration = 3
    MaxVideo = 5
    MaxAudio = 4
    MaxCaptures = 1
INVARIANTS
    VideoStartsWithKeyframe
CHECK_DEADLOCK FALSE
