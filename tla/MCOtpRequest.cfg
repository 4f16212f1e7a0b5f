SPECIFICATION Spec
CONSTANTS
    r1 = r1
    r2 = r2
    other = other
    mine = mine
    yours = yours
    Requests = {r1, r2, other}
    Phones = {mine, yours}
    Ips = {office}
    PhoneOf <- MCPhoneOf
    IpOf <- MCIpOf
    Blocked = {yours}
    CoolDown = 1
    Window = 3
    MaxPerPhone = 1
    MaxPerIp = 2
INVARIANTS Spaced NoMoreThanTwice AnsweredWasSent
PROPERTY RefusalEarned
SYMMETRY MCSymmetry
CHECK_DEADLOCK FALSE
