SPECIFICATION Spec
CONSTANTS
    load = load
    first = first
    second = second
    other = other
    home = home
    away = away
    murukku = murukku
    laddu = laddu
    Requests = {load, first, other}
    Mounts = {load}
    Pages = {home, away}
    PageOf <- MCPageOf
    Customer = customer
    Nobody = Nobody
    Earlier = Earlier
    None = None
    Variants = {murukku}
    MinQty <- MCMinQty
    MaxQty = 3
    AddQtys = {1, 2}
    Price <- MCPrice
    TaxRate <- MCTaxRate
PROPERTY AddedIsInBasket
CHECK_DEADLOCK FALSE
