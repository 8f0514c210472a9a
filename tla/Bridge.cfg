SPECIFICATION BridgeFairSpec
CONSTANTS
    t1 = t1
    t2 = t2
    Topics <- OneTopic
    MaxSeq = 2
    Samples = {1,2}
    PerTopic = 1
    MaxTotal = 1
    ReplayBatch = 1
    QueueMax = 2
    MayStop = TRUE
    MayCrash = TRUE
    Ambiguous = TRUE
    MaxErrors = 1
INVARIANT BridgeTypeOK
 
INVARIANT WakeupPending
INVARIANT RetryPending
INVARIANT Kept
PROPERTY EventuallyForwarded
