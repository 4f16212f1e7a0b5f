------------------------------ MODULE Storefront ------------------------------
(***************************************************************************)
(* What a page of the storefront asks of the API: the shop, read page by   *)
(* page (Catalog), and the menu (CategoryTree).  Beside them, the routes   *)
(* of the API that have no page yet: the dates of a product (Availability) *)
(* and the address book (Addresses); and a developer's page, on the mock   *)
(* API (MockApi).  None reads a table another one writes, so one is run in *)
(* a behaviour, while the state of the others is held still.               *)
(***************************************************************************)
EXTENDS Availability, Catalog, CategoryTree, MockApi, Addresses

VARIABLE page

storefrontVars == <<page, datesVars, catalogVars, menuVars, asked, bookVars>>

(* States in which nothing is to be seen on a page. *)
StillDates ==
    /\ now = (CHOOSE n \in FirstNow : TRUE)
    /\ variant = (CHOOSE v \in Orderable : TRUE)
    /\ left = (CHOOSE u \in FirstLeft : TRUE)
    /\ DatesInit
StillShop == listed = {} /\ best = {} /\ CatalogInit
StillMenu == /\ parentOf = [c \in Categories |-> NoParent] /\ active = {}
             /\ filed = [c \in Categories |-> {}]
             /\ MenuInit
StillBook == isDefault = {} /\ BookInit

StorefrontInit ==
    /\ AskInit
    /\ \/ page = "dates" /\ DatesInit /\ StillShop /\ StillMenu /\ StillBook
       \/ page = "shop" /\ CatalogInit /\ StillDates /\ StillMenu /\ StillBook
       \/ page = "menu" /\ MenuInit /\ StillDates /\ StillShop /\ StillBook
       \/ page = "book" /\ BookInit /\ StillDates /\ StillShop /\ StillMenu
       \/ page = "mock" /\ StillDates /\ StillShop /\ StillMenu /\ StillBook

StorefrontNext ==
    \/ /\ page = "dates" /\ DatesNext
       /\ UNCHANGED <<page, catalogVars, menuVars, asked, bookVars>>
    \/ /\ page = "shop" /\ CatalogNext
       /\ UNCHANGED <<page, datesVars, menuVars, asked, bookVars>>
    \/ /\ page = "book" /\ BookNext
       /\ UNCHANGED <<page, datesVars, catalogVars, menuVars, asked>>
    \/ /\ page = "mock" /\ Ask
       /\ UNCHANGED <<page, datesVars, catalogVars, menuVars, bookVars>>

StorefrontSpec == StorefrontInit /\ [][StorefrontNext]_storefrontVars
=============================================================================
