SPECIFICATION FairVerifySpec
CONSTANTS
    a1 = a1
    a2 = a2
    b1 = b1
    w1 = w1
    w2 = w2
    a = a
    b = b
    SignIns = {a1, a2, b1, w1, w2}
    WithRightCode = {a1, a2, b1}
    Phones = {a, b}
    PhoneOf <- MCPhoneOf
    MaxAttempts = 2
INVARIANTS RefsGapless RefusedForPhoneOnly CodeEnds
PROPERTY SignInsEnd
CHECK_DEADLOCK FALSE
