------------------------------- MODULE MockApi -------------------------------
(***************************************************************************)
(* The mock API developers run the storefront against, beside the real     *)
(* API on a database that has just been seeded: both answer for India from *)
(* one catalogue file, the mock from the file itself, the API from the     *)
(* rows the seed made of it (Catalog, CategoryTree).                       *)
(***************************************************************************)
EXTENDS Integers, Sequences, FiniteSetsExt

CONSTANTS
    FileProducts, FileCategories,   \* PRODUCTS and CATEGORIES of the file,
                                    \* as it is (SeedCatalogue) or may become
    NoRule,     \* the rule of a variant that is kept in stock
    Typed       \* what developers search for, beside what the page suggests

VARIABLE asked      \* the query of the page a developer looks at

Ids == 1..Len(FileProducts)

Pack(p) == 1..Len(FileProducts[p].variants)

(* A product has variants, each with a price, and none with a rule for when *)
(* it is made if the product is kept in stock.                              *)
ASSUME FileAssumption ==
    /\ Len(FileProducts) \in Nat
    /\ \A p \in Ids :
          /\ Len(FileProducts[p].variants) \in Nat \ {0}
          /\ \A v \in Pack(p) : LET variant == FileProducts[p].variants[v] IN
                /\ variant.priceInr \in Nat \ {0}
                /\ FileProducts[p].stockMode = "STOCKED" => variant.production = NoRule

Anything == "any"
Flags == {"isFeatured", "isBestseller"}
Query(category, stockMode, flag, q, limit) ==
    [category |-> category, stockMode |-> stockMode, flag |-> flag, q |-> q, limit |-> limit]

(* What the storefront asks: the rails of its home page, the shop with or   *)
(* without a category and a stock mode, the site map, and what is typed on  *)
(* the search page, if anything is; to both sides upper case is lower case. *)
HomeQueries ==
    {Query(Anything, Anything, f, Anything, 8) : f \in Flags}
    \cup {Query(Anything, "FRESH_PREORDER", Anything, Anything, 8)}
ShopQueries ==
    {Query(c, m, Anything, Anything, 24) :
        c \in FileCategories \cup {Anything},
        m \in {FileProducts[p].stockMode : p \in Ids} \cup {Anything}}
SitemapQuery == Query(Anything, Anything, Anything, Anything, 100)
SUGGESTIONS == {"idli podi", "murukku", "mango thokku", "appalam", "mysore pak"}
SearchQueries == {Query(Anything, Anything, Anything, q, 24) : q \in SUGGESTIONS \cup Typed}

Queries == HomeQueries \cup ShopQueries \cup SearchQueries \cup {SitemapQuery}

NoQuery == Query("none", "none", "none", "none", 0)
AskInit == asked = NoQuery
Ask == asked' \in Queries

-----------------------------------------------------------------------------
(* The mock's answers. *)
priceOf(p) == Min({FileProducts[p].variants[v].priceInr : v \in Pack(p)})

summary(p) == [fromPrice |-> priceOf(p), variantCount |-> Len(FileProducts[p].variants)]

(* The product page: of each variant what it costs, and when and how many   *)
(* of it may be ordered ahead.                                              *)
PreOrder(made) ==
    [leadTimeDays |-> made.leadTimeDays, cutoffTime |-> made.cutoffTime,
     deliveryWeekdays |-> made.deliveryWeekdays,
     minOrderQty |-> made.minOrderQty, maxOrderQty |-> made.maxOrderQty]
NotAhead == PreOrder(NoRule)

productPage(p) ==
    [v \in Pack(p) |->
        LET variant == FileProducts[p].variants[v]
        IN  [price |-> variant.priceInr,
             preOrder |-> IF variant.production # NoRule THEN PreOrder(variant.production)
                          ELSE NotAhead]]

(* Slip: what is typed is looked for in names only. *)
MentionsByName(p, q) == q \in FileProducts[p].name

(* name, shortDescription or the sku of a variant contains what is typed. *)
Mentions(p, q) ==
    LET product == FileProducts[p] IN
    \/ q \in product.name \cup product.shortDescription
    \/ \E v \in Pack(p) : q \in product.variants[v].sku

(* Slip: a product is looked for under its first category only. *)
MatchesPrimary(p, q) ==
    LET product == FileProducts[p] IN
    /\ q.category \in {Anything, CHOOSE c \in product.categorySlugs : TRUE}
    /\ q.stockMode \in {Anything, product.stockMode}
    /\ q.flag = Anything \/ product[q.flag]
    /\ q.q = Anything \/ Mentions(p, q.q)

Matches(p, q) ==
    LET product == FileProducts[p] IN
    /\ q.category \in {Anything} \cup product.categorySlugs
    /\ q.stockMode \in {Anything, product.stockMode}
    /\ q.flag = Anything \/ product[q.flag]
    /\ q.q = Anything \/ Mentions(p, q.q)

(* items.slice(0, limit): in the order of the file. *)
items(q) ==
    {p \in Ids : /\ Matches(p, q)
                 /\ Cardinality({o \in 1..(p - 1) : Matches(o, q)}) < q.limit}
hasMore(q) == Cardinality({p \in Ids : Matches(p, q)}) > q.limit

productCount(c) == Cardinality({p \in Ids : c \in FileProducts[p].categorySlugs})

-----------------------------------------------------------------------------
(* The rows the seed makes for India: every product listed, a price for     *)
(* each of its variants, and a rule for those that have one in the file.    *)
Packs == UNION {Pack(p) : p \in Ids}
SeededPrice == [p \in Ids |-> [v \in Packs |->
    IF v \in Pack(p) THEN FileProducts[p].variants[v].priceInr ELSE 0]]
SeededRule == [p \in Ids |-> [v \in Packs |->
    IF v \in Pack(p) THEN FileProducts[p].variants[v].production ELSE NoRule]]
SeededOffer == [p \in Ids |-> [v \in Packs |->
    IF SeededPrice[p][v] = 0 THEN "unsold" ELSE "sold"]]

(* The product page of the API: the variants that are sold, and no rule for *)
(* a product that is kept in stock.                                         *)
ApiPage(p) ==
    [v \in {w \in Packs : SeededOffer[p][w] = "sold"} |->
        [price |-> SeededPrice[p][v],
         preOrder |-> IF FileProducts[p].stockMode = "STOCKED" \/ SeededRule[p][v] = NoRule
                      THEN NotAhead ELSE PreOrder(SeededRule[p][v])]]

(* The where clause of ProductService.list on those rows. *)
Found(q) ==
    {p \in Ids :
        /\ q.category # Anything => q.category \in FileProducts[p].categorySlugs
        /\ q.stockMode # Anything => FileProducts[p].stockMode = q.stockMode
        /\ q.flag # Anything => FileProducts[p][q.flag]
        /\ q.q # Anything => \/ q.q \in FileProducts[p].name
                             \/ q.q \in FileProducts[p].shortDescription
                             \/ \E v \in Pack(p) : q.q \in FileProducts[p].variants[v].sku}

(* Every page has room for all it looks for.  On a fuller one the two would *)
(* cut off different products: the mock goes by the file, the API takes     *)
(* bestsellers first.                                                       *)
ASSUME PagesHaveRoom == \A q \in Queries : Cardinality(Found(q)) <= q.limit

Api == INSTANCE Catalog WITH
    Products <- Ids, Variants <- Packs, PriceOf <- SeededPrice,
    Limit <- 100, MaxCatalogEdits <- 0,
    listed <- Found(asked), best <- {p \in Ids : FileProducts[p].isBestseller},
    offer <- SeededOffer, cursor <- 0, seen <- [p \in Ids |-> 0], over <- FALSE,
    catalogEdits <- 0, touched <- {}, slid <- FALSE, skipped <- FALSE

Menu == INSTANCE CategoryTree WITH
    Categories <- FileCategories, Articles <- Ids,
    NoParent <- Anything, parentOf <- [c \in FileCategories |-> Anything],
    active <- FileCategories,
    filed <- [c \in FileCategories |-> {p \in Ids : c \in FileProducts[p].categorySlugs}]

-----------------------------------------------------------------------------
(* A page of the shop made against the mock shows what it would show        *)
(* against the API: the same products (their order aside), each with the    *)
(* same price and number of pack sizes, whether there are more, on its page *)
(* the same price and terms of each pack size, and the same menu.  Prices   *)
(* are amounts: how many decimals each side writes is left out.  The mock   *)
(* "cannot drift from the real data"; here it is its code that could.       *)
MockAgrees ==
  asked # NoQuery =>
    /\ items(asked) = Api!Take(Api!Rows, asked.limit)
    /\ hasMore(asked) <=> Cardinality(Api!Rows) > asked.limit
    /\ \A p \in items(asked) :
          /\ summary(p) = Api!toSummary(p)
          /\ Api!detail(p).code = "OK" /\ Api!detail(p).fromPrice = priceOf(p)
          /\ productPage(p) = ApiPage(p)
    /\ \A c \in FileCategories : productCount(c) = Menu!rollUp(c)
=============================================================================
