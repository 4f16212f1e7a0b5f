SPECIFICATION FairSpec
CONSTANTS
    a = a
    b = b
    c = c
    d = d
    mon = mon
    tue = tue
    Rows = {mon}
    Res = {a, b}
    RowOf <- MCRowOf
    Qty <- MCQty
    MaxOrderQty = 2
    DailyCapacity <- MCDailyCapacity
    Workers = {w}
    Cancellers = {x}
    Orders = {o, u}
    SweepLimit = 1
PROPERTY ExpiredHoldsSettle
