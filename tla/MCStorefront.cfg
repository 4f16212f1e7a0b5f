SPECIFICATION StorefrontSpec
CONSTANTS
    s = s
    l = l
    Days <- MCDays
    BusyDays = {20, 22}
    PartsPerDay = 2
    MaxNow = 41
    HorizonDays = 4
    MaxLookbackDays = 14
    DailyCapacity = 2
    Qty = 2
    FirstNow <- MCFirstNow
    Orderable <- MCOrderable
    FirstLeft <- MCFirstLeft
    Products = {1, 2, 3, 4}
    Variants = {s, l}
    PriceOf <- MCPrice
    Limit = 1
    MaxCatalogEdits = 2
    FileProducts <- MCFileProducts
    FileCategories <- MCFileCategories
    NoRule <- MCNoRule
    Typed <- MCTyped
    Categories = {1, 2, 3, 4}
    Articles = {1}
    NoParent = 0
    Requests = {r1, r2, r3}
    Existing = {home, work}
INVARIANTS ProductionDayIsRight OfferIsFirstHoldable ScrollShowsOnce CardAgreesWithPage
           MenuIsWhole MockAgrees OneDefault DefaultKept
CHECK_DEADLOCK FALSE
