CONSTANTS
    recording = recording
    rtmp = rtmp
    Tasks <- MCOneTask
    RtmpTasks = {}
    MaxSessions = 2
SPECIFICATION FairSpec
PROPERTIES
    AckedStopEnds
    ClosedIsCleanedUp
    ShutdownEnds
