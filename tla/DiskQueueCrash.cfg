SPECIFICATION DiskQueueSpec
CONSTANTS
    MaxBytes = 4
    SegmentBytes = 2
    Sizes = {1, 2, 3}
    MaxRecord = 3
    MaxPush = 4
    Crashes = TRUE
    Faults = {}
    MaxFaults = 2
INVARIANT DiskQueueTypeOK
INVARIANT CountersExact
INVARIANT RestartInvisible
INVARIANT NoLiveStale
INVARIANT DiskBound
INVARIANT PeekedIsHead
PROPERTY ImplementsQueue
