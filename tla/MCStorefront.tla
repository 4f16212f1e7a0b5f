---------------------------- MODULE MCStorefront ----------------------------
(* The date engine around the Sunday of its third week (day 20), four       *)
(* products in the shop, four categories in the menu.                       *)
EXTENDS Storefront

CONSTANTS s, l

Seeded == INSTANCE SeedCatalogue
MCFileProducts == Seeded!PRODUCTS
MCFileCategories == Seeded!CATEGORIES
MCTyped == Seeded!Searches
MCNoRule == Seeded!Shelf

MCPrice == [p \in Products |-> [v \in Variants |-> IF v = s THEN 85 ELSE 195]]

MonToSat == 1..6
Rule(lead, part, offset, delivery, production) ==
    [leadTimeDays |-> lead, cutoffPart |-> part, cutoffOffsetDays |-> offset,
     deliveryWeekdays |-> delivery, productionWeekdays |-> production,
     minOrderQty |-> 1, maxOrderQty |-> 4]

MadeBy(p) ==
    LET variants == MCFileProducts[p].variants
    IN  {variants[v].production : v \in 1..Len(variants)} \ {MCNoRule}

(* Leads from none to several days, kitchens that close on Sunday, that     *)
(* work one or two days a week, or never; offset 0 closes the same day.     *)
(* The seed's rules are among them or added, their hours as evenings.       *)
MCRules ==
    {Rule(lead, part, offset, delivery, production) :
        lead \in 0..3, part \in {0, 1}, offset \in 0..1,
        delivery \in {1..7, {3, 6}},
        production \in {MonToSat, {3, 7}, {6}, {}}}
    \cup {Rule(r.leadTimeDays, 1, r.cutoffOffsetDays,
               r.deliveryWeekdays, r.productionWeekdays) :
            r \in UNION {MadeBy(p) : p \in 1..Len(MCFileProducts)}}

(* One of each rule, one that is sold by the dozen, one from the shelf, and *)
(* one whose rule an administrator has yet to write.                        *)
AnyRule == Rule(1, 1, 1, 1..7, MonToSat)
Fresh(r) == [stockMode |-> "FRESH_PREORDER", isRuled |-> TRUE, rule |-> r]
MCOrderable ==
    {Fresh(r) : r \in MCRules}
    \cup {Fresh([AnyRule EXCEPT !.minOrderQty = 12, !.maxOrderQty = 24]),
          [Fresh(AnyRule) EXCEPT !.stockMode = "STOCKED", !.isRuled = FALSE],
          [Fresh(AnyRule) EXCEPT !.isRuled = FALSE]}

MCDays == 0..24
(* Days 20 and 21 have one unit left; the others none, or all. *)
MCFirstLeft ==
    {[p \in MCDays |-> IF p \in {20, 21} THEN 1 ELSE u] : u \in {0, 2}}
MCFirstNow == {38}
=============================================================================
