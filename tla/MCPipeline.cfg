CONSTANTS
    recording = recording
    bad = bad
    w1 = w1
    w2 = w2
    Jobs <- MCJobs
    Kind <- MCKind
    Workers <- MCWorkers
    PostMp4Convert <- MCConvert
    MaxDeliver = 2
    MaxCrashes = 1
    MaxRetries = 1
    Outages = TRUE
    TempDir = TRUE
SPECIFICATION PipelineSpec
INVARIANTS
    PipelineTypeOK
    ContentKept
PROPERTIES
    PublishedIsThere
    LifeSpec
