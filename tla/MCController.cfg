CONSTANTS
    recording = recording
    rtmp = rtmp
    Tasks <- MCTasks
    RtmpTasks <- MCRtmpTasks
    MaxSessions = 2
SPECIFICATION ProgressSpec
INVARIANTS
    TypeOK
    OneEndEach
    ShutdownLosesNoJob
    RegisteredUnlessEarly
    ProgressIsCurrent
PROPERTIES
    LeavesMapOnlyByClose
    SessionsAsPromised
