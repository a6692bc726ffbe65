CONSTANTS
    single = single
    remote = remote
    inPlace = inPlace
    merge = merge
    bad = bad
    w1 = w1
    w2 = w2
    Jobs <- MCMixed
    Kind <- MCKindMixed
    Workers <- MCTwo
    PostMp4Convert <- MCConvert
    MaxDeliver = 2
    MaxCrashes = 1
    MaxRetries = 1
    Outages = FALSE
SPECIFICATION Spec
INVARIANT TypeOK
INVARIANT RecordingNeverLost
INVARIANT OneWorkerPerJob
 
PROPERTY ReportedHasFile
