SPECIFICATION BrokersSpec
CONSTANTS
    Malformed = {"", "x+"}
    Segments = {"a", "x", "x+", "+", "#"}
    Subscribers = {s1, s2}
    Streams = {s1}
    SSEBuffer = 1
    Publishers = {p1, p2}
    Impatient = {p2}
    Topics <- TwoTopics
    Filters <- SomeFilters
    Messages <- SomeMessages
    subscriberBuffer = 1
    MaxLog = 2
    MaxUps = 2
    MaxReceived = 1
    s1 = s1
    s2 = s2
    p1 = p1
    p2 = p2
CHECK_DEADLOCK FALSE
INVARIANT Seamless
INVARIANT StreamHonest
INVARIANT StaysSubscribed
PROPERTY NobodyStuck
