SPECIFICATION MediaSpec
CONSTANTS
    NumTracks = 2
    Beginnings <- ApartOrReordered
    VideoStart = 1
    VideoDuration = 2
    AudioDuration = 3
    MaxVideo = 7
    MaxAudio = 4
    MaxCaptures = 2
    NumTextures = 2
    MaxCount = 2
    MaxClock = 10
    MaxFailures = 2
    NumFrames = 4
    MAX_ASYNC_FRAMES = 2
    MAX_UNUSED_FRAME_DURATION = 2
    MaxDelayed = 1
    AsyncRaces = {}
    AudioSources = {"desktop", "microphone"}
    FrameTime = 3
    AUDIO_OUTPUT_FRAMES = 2
    MAX_BUFFERING_TICKS = 2
    MaxBufFrames = 3
    Remainders = {0, 1}
    MaxLate = 3
    MaxTicks = 3
    MaxJumps = 2
    VideoEncoders = {"v1", "v2"}
    AudioEncoders = {"a1", "a2"}
    Sharings <- AloneOrNot
    FramePeriod = 1
    BlockPeriod = 2
    MaxSkew = 1
    MaxTime = 9
    MaxOutputStarts = 2
    Mishaps = {"none", "failed", "error"}
    SignalThreads = {"t1", "t2"}
    SignalCallbacks = {"c1", "c2", "c3"}
    GlobalCallbacks = {"g1", "g2"}
    MaxCalls = 6
    MaxNested = 2
    SignalRaces = {}
    VideoTime = 2
    AudioTime = 3
    KeyframeSize = 2
    Settings <- TwoLimits
    MaxGop = 2
    MaxMedia = 9
    MaxLatency = 1
    MaxSaves = 1
    MaxBuffers = 3
    MaxBroken = 1
INVARIANTS
    MediaTypeOK
    StreamsStart
    TimestampsKeepPace
    FramesTile
    
    
    PacketsCarryTheirTime
    QuietCapturedIsEncoded
    DeliveredOnce
    ReplayAccounted
    ReplayPlayable
    ReplayFresh
PROPERTIES
    MonotonicInOrder
    
CHECK_DEADLOCK FALSE
