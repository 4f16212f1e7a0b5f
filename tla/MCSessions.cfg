SPECIFICATION Spec
CONSTANTS
    Requests = {r1, r2, r3, r4, r5}
    Browsers = {b1}
    Ttl = 2
    None = None
SYMMETRY Symmetry
INVARIANTS OneLiveToken ReuseHasCause LogoutEnds ReuseEndsLogin
CHECK_DEADLOCK FALSE
