SPECIFICATION DiskQueueSpec
CONSTANTS
    MaxBytes = 4
    SegmentBytes = 2
    Sizes = {1, 2}
    MaxRecord = 2
    MaxPush = 3
    Crashes = TRUE
    Faults = {"append"}
    MaxFaults = 1
INVARIANT NoSilentLoss
