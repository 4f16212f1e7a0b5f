SPECIFICATION Spec
CONSTANTS
    load = load
    first = first
    second = second
    other = other
    home = home
    away = away
    murukku = murukku
    laddu = laddu
    Requests = {first, other}
    Mounts = {}
    Pages = {home, away}
    PageOf <- MCPageOf
    Customer = customer
    Nobody = Nobody
    Earlier = Earlier
    None = None
    Variants = {murukku, laddu}
    MinQty <- MCMinQty
    MaxQty = 3
    AddQtys = {1, 2}
    Price <- MCPrice
    TaxRate <- MCTaxRate
INVARIANTS QtyInRange BasketKept TotalsAddUp LinesRoundTrip
CHECK_DEADLOCK FALSE
