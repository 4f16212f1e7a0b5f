------------------------------- MODULE Catalog -------------------------------
(***************************************************************************)
(* Reading the catalogue of a market: ProductService.list page by page,    *)
(* and the listing's summary of a product beside its detail page.  The     *)
(* catalogue changes between the pages: products are withdrawn and listed  *)
(* again, and move when they become bestsellers or cease to be.            *)
(*                                                                         *)
(* Products are their ids, in the order of the ids.  The filters of a      *)
(* listing are part of whether a product is listed.  The cursor is         *)
(* Prisma's: rows from the position the cursor's product has now, whether  *)
(* it still matches or not, less the first one (skip: 1).                  *)
(***************************************************************************)
EXTENDS Integers, FiniteSets

CONSTANTS
    Products,
    Variants,           \* the variants of each product
    PriceOf,            \* PriceOf[p][v]
    Limit,              \* products on a page
    MaxCatalogEdits     \* bound: changes while the customer reads

ASSUME CatalogAssumption ==
    /\ Products \subseteq Nat \ {0} /\ IsFiniteSet(Products)
    /\ Limit \in Nat \ {0}

VARIABLES
    listed,     \* products the listing's where clause finds
    best,       \* those of them that are bestsellers
    offer,      \* offer[p][v]: "sold", "unsold" (not in this market) or "off"
    cursor,     \* the next page starts here; NoProduct: at the top
    seen,       \* seen[p]: how often the customer was shown p
    over,       \* the last page said there are no more
    catalogEdits,
    touched,    \* history: products listed, withdrawn or moved meanwhile
    slid,       \* history: one of them was moved while it was the cursor
    skipped     \* history: a page began behind a withdrawn product

catalog == <<listed, best, offer, catalogEdits, touched, slid>>
scroll == <<cursor, seen, over, skipped>>
catalogVars == <<catalog, scroll>>

NoProduct == 0

CatalogInit ==
    /\ listed \in SUBSET Products /\ best \in SUBSET Products
    /\ offer \in [Products -> [Variants -> {"sold"}]]
    /\ cursor = NoProduct /\ over = FALSE
    /\ seen = [p \in Products |-> 0]
    /\ catalogEdits = 0 /\ touched = {} /\ slid = FALSE /\ skipped = FALSE

-----------------------------------------------------------------------------
(* orderFor, by default: bestsellers first, then by id. *)
Before(p, q) ==
    \/ p \in best /\ q \notin best
    \/ (p \in best <=> q \in best) /\ p < q

(* The first n of a set of rows. *)
Take(S, n) == {p \in S : Cardinality({q \in S : Before(q, p)}) < n}

(* Slip: the cursor's own product is not skipped. *)
RowsUnskipped ==
    Take({p \in listed : cursor = NoProduct \/ ~Before(p, cursor)}, Limit + 1)

(* The rows from the cursor's position on, without the first (skip: 1): it  *)
(* is the cursor's product, unless that was withdrawn.                      *)
RowsAhead ==
    LET from == {p \in listed : cursor = NoProduct \/ ~Before(p, cursor)}
    IN  from \ (IF cursor = NoProduct THEN {} ELSE Take(from, 1))

(* findMany: one row more than the limit, to see whether there are more. *)
Rows == Take(RowsAhead, Limit + 1)

LastOf(S) == CHOOSE p \in S : \A q \in S \ {p} : Before(q, p)

(* The customer reads the next page. *)
list ==
    LET hasMore == Cardinality(Rows) > Limit
        page == Take(Rows, Limit)
    IN
    /\ ~over
    /\ seen' = [p \in Products |-> IF p \in page THEN seen[p] + 1 ELSE seen[p]]
    /\ cursor' = IF hasMore THEN LastOf(page) ELSE NoProduct
    /\ over' = ~hasMore
    /\ skipped' = (skipped \/ cursor \notin listed \cup {NoProduct})
    /\ UNCHANGED catalog

-----------------------------------------------------------------------------
(* The prices of the variants a market sells, and their least. *)
LeastPrice(p, S) ==
    PriceOf[p][CHOOSE v \in S : \A w \in S : PriceOf[p][v] <= PriceOf[p][w]]

(* Slip: the summary counts variants that have been switched off. *)
toSummaryOfAll(p) ==
    LET sold == {v \in Variants : offer[p][v] # "unsold"}
    IN  [fromPrice |-> IF sold = {} THEN 0 ELSE LeastPrice(p, sold),
         variantCount |-> Cardinality(sold)]

(* The listing reads active variants, each with its row of the market. *)
toSummary(p) ==
    LET sold == {v \in Variants : offer[p][v] = "sold"}
    IN  [fromPrice |-> IF sold = {} THEN 0 ELSE LeastPrice(p, sold),
         variantCount |-> Cardinality(sold)]

(* The product page leaves out variants the market does not sell, and has   *)
(* nothing to show when it sells none.                                      *)
detail(p) ==
    LET variants == {v \in Variants : offer[p][v] # "off"}
        sold == variants \ {v \in variants : offer[p][v] = "unsold"}
    IN  IF p \notin listed THEN [code |-> "NOT_FOUND"]
        ELSE IF sold = {} THEN [code |-> "PRODUCT_UNAVAILABLE"]
        ELSE [code |-> "OK", fromPrice |-> LeastPrice(p, sold),
              variantCount |-> Cardinality(sold)]

-----------------------------------------------------------------------------
(* The catalogue changes: a product is listed or withdrawn, moves, or has a *)
(* variant switched off or taken out of the market.                         *)
Change ==
    /\ catalogEdits < MaxCatalogEdits
    /\ catalogEdits' = catalogEdits + 1
    /\ UNCHANGED scroll

ListOrWithdraw(p) ==
    /\ Change
    /\ listed' = IF p \in listed THEN listed \ {p} ELSE listed \cup {p}
    /\ touched' = touched \cup {p}
    /\ UNCHANGED <<best, offer, slid>>

Promote(p) ==
    /\ Change
    /\ best' = IF p \in best THEN best \ {p} ELSE best \cup {p}
    /\ touched' = touched \cup {p}
    /\ slid' = (slid \/ cursor = p)
    /\ UNCHANGED <<listed, offer>>

SetOffer(p, v) ==
    /\ Change
    /\ \E o \in {"sold", "unsold", "off"} : offer' = [offer EXCEPT ![p][v] = o]
    /\ UNCHANGED <<listed, best, touched, slid>>

CatalogNext ==
    \/ list
    \/ \E p \in Products :
          \/ ListOrWithdraw(p) \/ Promote(p)
          \/ \E v \in Variants : SetOffer(p, v)

CatalogSpec == CatalogInit /\ [][CatalogNext]_catalogVars

-----------------------------------------------------------------------------
(* Properties. *)

(* However products are listed, withdrawn and moved between two pages, one  *)
(* that nobody touched is never shown twice, also when the product a page   *)
(* ended on was withdrawn; and a customer who reads on to the end has seen  *)
(* every such product that is listed, unless a page began behind a          *)
(* withdrawn one: skip: 1 then skips another.  Nothing is said of a scroll  *)
(* once a page's last product was moved.                                    *)
ScrollShowsOnce ==
    ~slid => \A p \in Products \ touched :
        /\ seen[p] <= 1
        /\ over /\ ~skipped => seen[p] = IF p \in listed THEN 1 ELSE 0

(* The price and the number of variants on a product's card are those of    *)
(* its page, which two queries and two computations find.                   *)
CardAgreesWithPage ==
    \A p \in Products :
        LET page == detail(p)
            card == toSummary(p)
        IN  page.code = "OK" => /\ page.fromPrice = card.fromPrice
                                /\ page.variantCount = card.variantCount

-----------------------------------------------------------------------------
(* The type invariant. *)
CatalogTypeOK ==
    /\ listed \subseteq Products /\ best \subseteq Products /\ touched \subseteq Products
    /\ offer \in [Products -> [Variants -> {"sold", "unsold", "off"}]]
    /\ cursor \in Products \cup {NoProduct}
    /\ seen \in [Products -> Nat]
    /\ over \in BOOLEAN /\ slid \in BOOLEAN /\ skipped \in BOOLEAN
=============================================================================
