\* Three indices, three calls, two sessions; two parameters, values of all kinds.
CONSTANTS
    MaxIndex = 2
    Parameters = {p1, p2}
    Numbers = {False, n1}
    Texts = {t1}
    Null = Null
    False = False
    NoData = NoData
    MaxCalls = 3
    MaxSessions = 2
SPECIFICATION Spec
CHECK_DEADLOCK FALSE
INVARIANTS
    BoundAsSet
    NothingLeaks
    GaplessIsSafe
