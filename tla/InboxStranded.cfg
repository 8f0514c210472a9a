SPECIFICATION InboxFairSpec
CONSTANTS
    t1 = t1
    t2 = t2
    t3 = t3
    Topics <- TwoTopics
    Samples = {1}
    PerTopic = 2
    MaxTotal = 2
PROPERTY NoStarvation
