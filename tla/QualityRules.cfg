SPECIFICATION QualityRulesSpec
CONSTANTS
    StaleAfter = 2
    FlatlineAfter = 2
    FlatlineMinSamples = 3
    Values = {1, 2, 9}
    Allowed = {1, 2}
    NaN = NaN
    MaxCalls = 5
    MaxTime = 4
INVARIANT QualityDeserved
INVARIANT LastIsLatest
