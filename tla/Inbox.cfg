SPECIFICATION InboxFairSpec
CONSTANTS
    t1 = t1
    t2 = t2
    t3 = t3
    Topics <- ThreeTopics
    Samples = {1}
    PerTopic = 2
    MaxTotal = 4
INVARIANT InboxTypeOK
INVARIANT PerTopicBound
INVARIANT RingSound
INVARIANT Accounting
INVARIANT NoLostWakeup
PROPERTY RoundRobin
PROPERTY DropsCounted
