SPECIFICATION EdgeNodeSpec
CONSTANTS
    StaleAfter = 1
    FlatlineAfter = 0
    FlatlineMinSamples = 1
    Values = {1, 9}
    Allowed = {1}
    NaN = NaN
    order <- OneSource
    names <- OneName
    FloatNames = {"speed"}
    MayFail = TRUE
    MaxTime = 2
INVARIANT EdgeNodeTypeOK
INVARIANT TransitionsOnce
INVARIANT ShownIsCurrent
PROPERTY LifecycleOrder
