SPECIFICATION BridgeSpec
CONSTANTS
    t1 = t1
    t2 = t2
    Topics <- OneTopic
    MaxSeq = 2
    Samples = {1,2}
    PerTopic = 2
    MaxTotal = 2
    ReplayBatch = 1
    QueueMax = 2
    MayStop = TRUE
    MayCrash = FALSE
    Ambiguous = FALSE
    MaxErrors = 0
INVARIANT NothingLost
