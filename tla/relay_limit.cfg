SPECIFICATION FairSpec
CONSTANTS
    c1 = c1
    c2 = c2
    c3 = c3
    k1 = k1
    None = None
    Failed = Failed
    Key = {k1}
    Call = {c1, c2, c3}
    KeyOf <- OneKey
    Time = {0, 1, 2}
    WindowMs = 2
    Limit = 1
    Skew = 1
    MaxAttempts = 2
    Unheard = {c1}
INVARIANTS TypeOK AtMostLimit
PROPERTIES WindowsMoveForward CountsAtomically CallsAnswered
CHECK_DEADLOCK FALSE
