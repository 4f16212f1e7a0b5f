---------------------------- MODULE SeedCatalogue ----------------------------
(***************************************************************************)
(* The catalogue the seed installs for India: its categories, its products *)
(* in the order of the file, what they cost (in paise) and when the        *)
(* kitchen makes them.  A text is what can be looked for in it: the words  *)
(* of a search that it contains, in lower case.                            *)
(***************************************************************************)
EXTENDS Integers, Sequences, FiniteSets

WEEKDAYS_ALL == 1..7
KITCHEN_DAYS == 1..6

CATEGORIES ==
    {"podis", "pickles", "thokkus", "savouries", "sweets", "vadam", "vathal",
     "appalams", "instant-mixes", "snacks", "nuts-spices", "bakery",
     "native-specials", "ghee-oils", "gift-packs"}

Made(lead, hour, offset, delivery, production, most) ==
    [leadTimeDays |-> lead, cutoffTime |-> hour, cutoffOffsetDays |-> offset,
     deliveryWeekdays |-> delivery, productionWeekdays |-> production,
     minOrderQty |-> 1, maxOrderQty |-> most]
Fresh(most) == Made(1, 20, 1, WEEKDAYS_ALL, KITCHEN_DAYS, most)
Fried(most) == Made(1, 20, 1, 2..7, KITCHEN_DAYS, most)
Poured(most) == Made(1, 19, 1, 2..7, KITCHEN_DAYS, most)
Cooked(most) == Made(2, 18, 1, 3..7, 1..5, most)
Festive(most) == Made(2, 17, 2, 5..7, 3..5, most)
Shelf == Made(0, 0, 0, {}, {}, 0)

Product(slug, name, shortDescription, categorySlugs, stockMode, flags, variants) ==
    [slug |-> slug, name |-> name, shortDescription |-> shortDescription,
     categorySlugs |-> categorySlugs, stockMode |-> stockMode,
     isFeatured |-> "featured" \in flags, isBestseller |-> "bestseller" \in flags,
     variants |-> variants]
Variant(sku, inr, production) == [sku |-> sku, priceInr |-> inr, production |-> production]

PRODUCTS == <<
    Product("idli-podi", {"idli podi", "podi"}, {"sesame"}, {"podis"},
            "FRESH_PREORDER", {"featured", "bestseller"},
            <<Variant({"podi"}, 8500, Fresh(20)), Variant({"podi"}, 19500, Fresh(15)),
              Variant({"podi"}, 37000, Fresh(10))>>),
    Product("murukku", {"murukku"}, {"fried"}, {"savouries"},
            "LIMITED_DAILY", {"featured", "bestseller"},
            <<Variant({"murukku", "mb-sav"}, 16000, Fried(8)),
              Variant({"murukku", "mb-sav"}, 30000, Fried(6))>>),
    Product("mango-thokku", {"mango thokku"}, {}, {"thokkus", "pickles"},
            "FRESH_PREORDER", {"bestseller"},
            <<Variant({}, 18000, Cooked(10)), Variant({}, 28500, Cooked(8))>>),
    Product("appalam-medium", {"appalam"}, {}, {"appalams"}, "STOCKED", {},
            <<Variant({}, 6000, Shelf), Variant({}, 11500, Shelf)>>),
    Product("milagai-vathal", {}, {}, {"vathal"}, "STOCKED", {}, <<Variant({}, 9500, Shelf)>>),
    Product("javvarisi-vadam", {}, {}, {"vadam"}, "STOCKED", {}, <<Variant({}, 11000, Shelf)>>),
    Product("adhirasam", {}, {}, {"sweets", "native-specials"}, "PREORDER_ONLY", {},
            <<Variant({}, 27000, Festive(5))>>),
    Product("chekku-gingelly-oil", {}, {}, {"ghee-oils"}, "STOCKED", {},
            <<Variant({}, 31000, Shelf), Variant({}, 58000, Shelf)>>),
    Product("rava-dosa-mix", {}, {}, {"instant-mixes"}, "STOCKED", {},
            <<Variant({}, 9000, Shelf)>>),
    Product("mysore-pak", {"mysore pak"}, {}, {"sweets"}, "FRESH_PREORDER", {"featured"},
            <<Variant({}, 21000, Poured(6)), Variant({}, 40000, Poured(4))>>),
    Product("kara-boondi", {}, {}, {"savouries", "snacks"}, "LIMITED_DAILY", {},
            <<Variant({"mb-sav"}, 12000, Fried(10))>>),
    Product("festival-hamper", {}, {"podi", "murukku", "sweets"}, {"gift-packs"},
            "PREORDER_ONLY", {"featured"}, <<Variant({}, 115000, Festive(4))>>)>>

(* What is searched for besides the suggestions of the page: in names and   *)
(* article numbers, in descriptions only, in numbers only, and nowhere.     *)
Searches == {"podi", "sesame", "fried", "sweets", "mb-sav", "papad"}
=============================================================================
