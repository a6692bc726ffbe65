CONSTANTS
    single = single
    remote = remote
    inPlace = inPlace
    merge = merge
    bad = bad
    w1 = w1
    w2 = w2
    Jobs <- MCAlone
    Kind <- MCKindAlone
    Workers <- MCOne
    PostMp4Convert <- MCConvertOne
    MaxDeliver = 3
    MaxCrashes = 1
    MaxRetries = 0
    Outages = FALSE
SPECIFICATION Spec
INVARIANT AckedIsReported
