SPECIFICATION DiskQueueSpec
CONSTANTS
    MaxBytes = 4
    SegmentBytes = 2
    Sizes = {1, 2}
    MaxRecord = 2
    MaxPush = 3
    Crashes = TRUE
    Faults = {"append", "roll", "head", "remove", "truncate", "open", "corrupt"}
    MaxFaults = 2
INVARIANT StaleExplained
INVARIANT DeliveredInOrder
INVARIANT LossExplained
