CONSTANTS
    recording = recording
    rtmp = rtmp
    Tasks <- MCTasks
    RtmpTasks <- MCRtmpTasks
    MaxSessions = 2
SPECIFICATION Spec
INVARIANT RunningIsRegistered
