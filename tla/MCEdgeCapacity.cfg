SPECIFICATION BothSpec
CONSTANTS
    a = a
    b = b
    c = c
    mon = mon
    Rows = {mon}
    Res = {a, b, c}
    RowOf <- MCRowOf
    Qty <- MCQty
    MaxOrderQty = 2
    DailyCapacity <- MCDailyCapacity
    Workers = {w, v}
    Cancellers = {x}
    Orders = {o}
    SweepLimit = 1
INVARIANTS Conservation NeverOversold
PROPERTIES LockedDaySellsNothing ImplementsLedger
