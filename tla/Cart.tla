--------------------------------- MODULE Cart ---------------------------------
(***************************************************************************)
(* The cart of one person: the pages open in a browser send requests, each *)
(* of which resolves a cart (the customer's, the guest's by cookie, or a   *)
(* new one) and then reads or changes it.  No step of a request is in a    *)
(* transaction with another, and requests overlap: a page loads its cart   *)
(* while the customer already adds to it, and pages do not know of each    *)
(* other.  Prices, and the split of tax, are those of Pricing.             *)
(*                                                                         *)
(* A cart, or a line, made by request r is called r.  Nothing in the code  *)
(* ends a cart: status is ACTIVE and expiresAt is only written.            *)
(***************************************************************************)
EXTENDS Pricing, FiniteSetsExt

CONSTANTS
    Requests,   \* requests to /v1/cart
    Mounts,     \* those of them a page sends when it loads
    Pages,
    PageOf,     \* the page a request comes from
    Customer,   \* the person, as a customer
    Nobody,
    Earlier,    \* the customer's cart from another device, and its line
    None,
    Variants,
    MinQty, MaxQty,     \* production rule: minOrderQty, maxOrderQty
    AddQtys,    \* quantities a page may ask to add, from 1
    Price,      \* of a unit, in minor units
    TaxRate     \* in percent

ASSUME CartAssumption ==
    /\ IsFiniteSet(Requests)
    /\ Earlier \notin Requests /\ None \notin Requests \cup {Earlier}
    /\ Customer # Nobody /\ None \notin {Customer, Nobody}
    /\ PageOf \in [Requests -> Pages] /\ Mounts \subseteq Requests
    /\ MinQty \in [Variants -> Nat] /\ MaxQty \in Nat /\ AddQtys \subseteq Nat
    /\ Price \in [Variants -> Nat] /\ TaxRate \in [Variants -> Nat]

VARIABLES
    owner,      \* owner[c]: customerId of cart c; None: no such cart
    guestToken, \* the carts that have one
    newer,      \* newer[c]: the carts whose updatedAt is later than c's
    line,       \* cart_items, by id; qty 0: no such row
    offer,      \* of a variant: "sold"; "off": itself inactive or deleted;
                \* "unsold": no active row of the market lists it
    cookie,     \* mb_cart, by the cart it opens; None: no cookie
    signedIn,   \* who the browser's access token is for
    req,        \* the requests
    shown,      \* CartProvider's state: the lines a page shows
    added,      \* AddToCart's state: the pages that say "Added to your basket."
    basket,     \* what one request after the other comes to
    setAside,   \* a basket with something in it was left for another cart
    disturbed   \* requests have overlapped, one was lost, or a page asked to
                \* change a line that is not in the person's cart any more

tables == <<owner, guestToken, newer, line, offer>>
browser == <<cookie, signedIn, shown, added, basket, setAside, disturbed>>
vars == <<tables, browser, req>>

Carts == Requests \cup {Earlier}
NoLine == [cart |-> None, variant |-> None, qty |-> 0]
NoOp == [kind |-> "none", variant |-> None, item |-> None, qty |-> 0]
Resting(pc) == [pc |-> pc, op |-> NoOp, who |-> Nobody, token |-> None,
                cart |-> None, next |-> 0, view |-> {}]
Idle == Resting("idle")
Over == Resting("over")

LinesOf(c) == {i \in Carts : line[i].qty > 0 /\ line[i].cart = c}
Contents(c) == {[id |-> i, variant |-> line[i].variant, qty |-> line[i].qty] : i \in LinesOf(c)}
Priced(view) == {l \in view : offer[l.variant] # "unsold"}
View(c) == Priced(Contents(c))
InView(view, v) == {l \in view : l.variant = v}
Quantities(view) == [v \in Variants |-> IF InView(view, v) = {} THEN 0
                                        ELSE (CHOOSE l \in InView(view, v) : TRUE).qty]

InRange(v, q) == MinQty[v] <= q /\ q <= MaxQty

UnderWay(r) == req[r].pc \notin {"idle", "over"}
Go(r, pc) == req' = [req EXCEPT ![r].pc = pc]
UseCart(r, c, pc) == req' = [req EXCEPT ![r].cart = c, ![r].pc = pc]
Touched(c) ==
    [d \in Carts |-> IF d = c \/ owner[d] = None THEN {} ELSE newer[d] \cup {c}]
OwnCarts(who) == {c \in Carts : owner[c] = who}
Latest(S) == CHOOSE c \in S : newer[c] \cap S = {}

(* The cart a request sent now would resolve, and did it come from who. *)
HandOf(who) ==
    IF who # Nobody /\ OwnCarts(who) # {} THEN Latest(OwnCarts(who)) ELSE cookie

CartInHand == HandOf(signedIn)

(* The browser may hold a token already, and pages the customer's cart; a   *)
(* page that has loaded as a guest shows nothing.                           *)
Init ==
    /\ \E had \in BOOLEAN :
          owner = [c \in Carts |-> IF had /\ c = Earlier THEN Customer ELSE None]
    /\ \E l \in {NoLine} \cup {[cart |-> Earlier, variant |-> v, qty |-> MinQty[v]] : v \in Variants} :
          /\ l # NoLine => owner[Earlier] = Customer /\ InRange(l.variant, l.qty)
          /\ line = [i \in Carts |-> IF i = Earlier THEN l ELSE NoLine]
    /\ newer = [c \in Carts |-> {}]
    /\ offer = [v \in Variants |-> "sold"]
    /\ guestToken = {}
    /\ cookie = None /\ signedIn \in {Nobody, Customer}
    /\ req = [r \in Requests |-> Idle]
    /\ \E loaded \in IF signedIn = Customer THEN SUBSET Pages ELSE {{}} :
          shown = [p \in Pages |-> IF p \in loaded THEN Contents(Earlier) ELSE {}]
    /\ basket = Quantities(IF signedIn = Customer THEN Contents(Earlier) ELSE {})
    /\ added = {}
    /\ setAside = FALSE
    /\ disturbed = FALSE

-----------------------------------------------------------------------------
(* What a page can ask for: a GET when it loads, then additions, and        *)
(* changes of lines it shows; its buttons wait for the change before.       *)
AddOps == [kind : {"add"}, variant : Variants, item : {None}, qty : AddQtys]
LineOps(p) ==
    {[kind |-> k, variant |-> l.variant, item |-> l.id, qty |-> q] :
        k \in {"update"}, l \in shown[p], q \in 0..MaxQty}
    \cup {[kind |-> "remove", variant |-> l.variant, item |-> l.id, qty |-> 0] :
        l \in shown[p]}

MayAsk(r) ==
    IF r \in Mounts THEN {[NoOp EXCEPT !.kind = "get"]}
    ELSE IF \E m \in Requests :
               /\ m # r /\ PageOf[m] = PageOf[r]
               /\ IF m \in Mounts THEN req[m].pc = "idle" ELSE UnderWay(m)
    THEN {}
    ELSE AddOps \cup LineOps(PageOf[r])

Asked(op) ==
    [pc |-> IF signedIn # Nobody THEN "customer"
            ELSE IF cookie # None THEN "guest"
            ELSE "create",
     op |-> op, who |-> signedIn, token |-> cookie, cart |-> None, next |-> 0, view |-> {}]

Send(r) ==
    /\ req[r].pc = "idle"
    /\ \E op \in MayAsk(r) :
          req' = [req EXCEPT ![r] = Asked(op)]
    /\ disturbed' = \/ disturbed
                     \/ \E q \in Requests : UnderWay(q)
                     \/ req'[r].op.item \notin LinesOf(CartInHand) \cup {None}
    /\ UNCHANGED <<tables, cookie, signedIn, shown, added, basket, setAside>>

(* From here on the requests come from who, so another cart may be in hand. *)
(* Who had put nothing in theirs finds what that one holds; what they had   *)
(* put in is otherwise expected there too, and if it is not, was set aside. *)
Filled == \E v \in Variants : basket[v] > 0

Identify(who) ==
    /\ signedIn' = who
    /\ disturbed' = (disturbed \/ \E q \in Requests : UnderWay(q))
    /\ setAside' = (setAside \/ (Filled /\ HandOf(who) # CartInHand))
    /\ basket' = IF Filled THEN basket ELSE Quantities(Contents(HandOf(who)))
    /\ UNCHANGED <<tables, req, cookie, shown, added>>

(* A browser has an access token: the cart its customer left on another     *)
(* device, if any, comes before the guest's.                                *)
SignIn == signedIn = Nobody /\ Identify(Customer)

(* The token expires.  The routes of a cart are public, and take whom they  *)
(* cannot verify for a guest.                                               *)
ExpireToken == signedIn = Customer /\ Identify(Nobody)

(* The catalogue changes. *)
Switch(v) ==
    /\ \E to \in {"sold", "off", "unsold"} : offer' = [offer EXCEPT ![v] = to]
    /\ UNCHANGED <<owner, guestToken, newer, line, browser, req>>

-----------------------------------------------------------------------------
(* CartService.resolve. *)

FindCustomerCart(r) ==
    /\ req[r].pc = "customer"
    /\ IF OwnCarts(req[r].who) # {}
       THEN UseCart(r, Latest(OwnCarts(req[r].who)), "act")
       ELSE Go(r, IF req[r].token # None THEN "guest" ELSE "create")
    /\ UNCHANGED <<tables, browser>>

FindGuestCart(r) ==
    LET c == req[r].token IN
    /\ req[r].pc = "guest"
    /\ UseCart(r, c, IF req[r].who # Nobody /\ owner[c] = Nobody THEN "adopt" ELSE "act")
    /\ UNCHANGED <<tables, browser>>

Adopt(r) ==
    LET c == req[r].cart IN
    /\ req[r].pc = "adopt"
    /\ owner' = [owner EXCEPT ![c] = req[r].who]
    /\ newer' = Touched(c)
    /\ Go(r, "act")
    /\ UNCHANGED <<guestToken, line, offer, browser>>

Create(r) ==
    /\ req[r].pc = "create"
    /\ owner' = [owner EXCEPT ![r] = req[r].who]
    /\ guestToken' = IF req[r].who = Nobody THEN guestToken \cup {r} ELSE guestToken
    /\ newer' = Touched(r)
    /\ UseCart(r, r, "act")
    /\ UNCHANGED <<line, offer, browser>>

-----------------------------------------------------------------------------
(* The operations.  Each change reads, checks, writes and touches the cart. *)

LineFor(c, v) == {i \in LinesOf(c) : line[i].variant = v}
QtyIn(c, v) == IF LineFor(c, v) = {} THEN 0 ELSE line[CHOOSE i \in LineFor(c, v) : TRUE].qty

FindVariant(r) ==
    /\ req[r].pc = "act" /\ req[r].op.kind = "add"
    /\ Go(r, IF offer[req[r].op.variant] = "sold" THEN "count" ELSE "refused")
    /\ UNCHANGED <<tables, browser>>

ReadForAdd(r) ==
    LET op == req[r].op
        nextQty == QtyIn(req[r].cart, op.variant) + op.qty
    IN
    /\ req[r].pc = "count"
    /\ IF InRange(op.variant, nextQty)
       THEN req' = [req EXCEPT ![r].pc = "write", ![r].next = nextQty]
       ELSE Go(r, "refused")
    /\ UNCHANGED <<tables, browser>>

(* Slip: the upsert adds to what is there by then. *)
WriteAddIncrement(r) ==
    LET c == req[r].cart  v == req[r].op.variant
        i == IF LineFor(c, v) = {} THEN r ELSE CHOOSE j \in LineFor(c, v) : TRUE
    IN
    /\ req[r].pc = "write" /\ req[r].op.kind = "add"
    /\ line' = [line EXCEPT ![i] = [cart |-> c, variant |-> v,
                                    qty |-> IF i = r THEN req[r].next ELSE @.qty + req[r].op.qty]]
    /\ Go(r, "touch")
    /\ UNCHANGED <<owner, guestToken, newer, offer, browser>>

(* The upsert: on the unique index over cart and variant. *)
WriteAdd(r) ==
    LET c == req[r].cart  v == req[r].op.variant
        i == IF LineFor(c, v) = {} THEN r ELSE CHOOSE j \in LineFor(c, v) : TRUE
    IN
    /\ req[r].pc = "write" /\ req[r].op.kind = "add"
    /\ line' = [line EXCEPT ![i] = [cart |-> c, variant |-> v, qty |-> req[r].next]]
    /\ Go(r, "touch")
    /\ UNCHANGED <<owner, guestToken, newer, offer, browser>>

(* A line of another cart, or one that is gone, is refused with NOT_FOUND.  *)
ReadForUpdate(r) ==
    LET op == req[r].op IN
    /\ req[r].pc = "act" /\ op.kind = "update"
    /\ IF op.item \in LinesOf(req[r].cart) /\ (op.qty = 0 \/ InRange(op.variant, op.qty))
       THEN req' = [req EXCEPT ![r].pc = "write", ![r].next = op.qty]
       ELSE Go(r, "refused")
    /\ UNCHANGED <<tables, browser>>

(* delete or update by id; without the row either throws. *)
WriteUpdate(r) ==
    LET i == req[r].op.item IN
    /\ req[r].pc = "write" /\ req[r].op.kind = "update"
    /\ IF line[i].qty > 0
       THEN /\ line' = [line EXCEPT ![i] = IF req[r].next = 0 THEN NoLine
                                           ELSE [@ EXCEPT !.qty = req[r].next]]
            /\ Go(r, "touch")
       ELSE Go(r, "refused") /\ UNCHANGED line
    /\ UNCHANGED <<owner, guestToken, newer, offer, browser>>

(* deleteMany, which minds neither. *)
RemoveLine(r) ==
    LET i == req[r].op.item IN
    /\ req[r].pc = "act" /\ req[r].op.kind = "remove"
    /\ line' = IF i \in LinesOf(req[r].cart) THEN [line EXCEPT ![i] = NoLine] ELSE line
    /\ Go(r, "touch")
    /\ UNCHANGED <<owner, guestToken, newer, offer, browser>>

Touch(r) ==
    /\ req[r].pc = "touch"
    /\ newer' = Touched(req[r].cart)
    /\ Go(r, "view")
    /\ UNCHANGED <<owner, guestToken, line, offer, browser>>

(* The lines are read, then their prices; a line without one is left out.   *)
ReadView(r) ==
    /\ req[r].pc = "view" \/ (req[r].pc = "act" /\ req[r].op.kind = "get")
    /\ req' = [req EXCEPT ![r].pc = "price", ![r].view = Contents(req[r].cart)]
    /\ UNCHANGED <<tables, browser>>

PriceView(r) ==
    /\ req[r].pc = "price"
    /\ req' = [req EXCEPT ![r].pc = "answered", ![r].view = Priced(req[r].view)]
    /\ UNCHANGED <<tables, browser>>

(* What an answer says of its lines.  Each comes priced, with its net, its  *)
(* tax and their sum as strings; these are added up for the cart.           *)
LinePrice(l) == Price[l.variant] * l.qty
LineSplits(l, inclusive) == splitTax(LinePrice(l), TaxRate[l.variant], inclusive)
Splits(view, inclusive) ==
    {split \in [view -> UNION {LineSplits(l, inclusive) : l \in view}] :
        \A l \in view : split[l] \in LineSplits(l, inclusive)}

SumUp(amount) ==
    fromMinorUnits(MapThenSumSet(LAMBDA l : toMinorUnits(fromMinorUnits(amount[l])),
                                 DOMAIN amount))

Totals(split) ==
    [subtotal |-> SumUp([l \in DOMAIN split |-> split[l].net]),
     tax |-> SumUp([l \in DOMAIN split |-> split[l].tax]),
     total |-> SumUp([l \in DOMAIN split |-> split[l].gross])]

-----------------------------------------------------------------------------
(* Slip: an answer leaves the cookie of an existing browser alone. *)
CookieOfUnset(r) == cookie

(* identify: the cookie goes out with every answer, also of a refusal. *)
CookieOf(r) == IF req[r].cart \in guestToken THEN req[r].cart ELSE cookie

BasketAfter(op) ==
    CASE op.kind = "add" -> [basket EXCEPT ![op.variant] = @ + op.qty]
      [] op.kind \in {"update", "remove"} -> [basket EXCEPT ![op.variant] = op.qty]
      [] OTHER -> basket

(* submit: add reports an error through the provider and returns.           *)
SayAdded(r) ==
    added' = IF req[r].op.kind = "add" THEN added \cup {PageOf[r]} ELSE added

Arrive(r) ==
    LET ok == req[r].pc = "answered" IN
    /\ req[r].pc \in {"answered", "refused"}
    /\ cookie' = CookieOf(r)
    /\ shown' = IF ok THEN [shown EXCEPT ![PageOf[r]] = req[r].view] ELSE shown
    /\ basket' = IF ok THEN BasketAfter(req[r].op) ELSE basket
    /\ SayAdded(r)
    /\ req' = [req EXCEPT ![r] = Over]
    /\ UNCHANGED <<tables, signedIn, setAside, disturbed>>

(* A lost connection or a crash of the API; what was written stays. *)
Fail(r) ==
    /\ UnderWay(r)
    /\ req' = [req EXCEPT ![r] = Over]
    /\ SayAdded(r)
    /\ disturbed' = TRUE
    /\ UNCHANGED <<tables, cookie, signedIn, shown, basket, setAside>>

RequestStep(r) ==
    \/ Send(r) \/ Arrive(r) \/ Fail(r)
    \/ FindCustomerCart(r) \/ FindGuestCart(r) \/ Adopt(r) \/ Create(r)
    \/ FindVariant(r) \/ ReadForAdd(r) \/ WriteAdd(r)
    \/ ReadForUpdate(r) \/ WriteUpdate(r) \/ RemoveLine(r)
    \/ Touch(r) \/ ReadView(r) \/ PriceView(r)

Next ==
    \/ SignIn \/ ExpireToken
    \/ \E v \in Variants : Switch(v)
    \/ \E r \in Requests : RequestStep(r)

Spec == Init /\ [][Next]_vars

-----------------------------------------------------------------------------
(* Properties. *)

Stages == {"idle", "customer", "guest", "adopt", "create", "act", "count", "write",
           "touch", "view", "price", "answered", "refused", "over"}

Ops == [kind : {"none", "get", "add", "update", "remove"}, variant : Variants \cup {None},
        item : Carts \cup {None}, qty : Nat]
Lines == [cart : Carts \cup {None}, variant : Variants \cup {None}, qty : Nat]
Views == SUBSET [id : Carts, variant : Variants, qty : Nat]
RequestStates ==
    [pc : Stages, op : Ops, who : {Customer, Nobody}, token : Carts \cup {None},
     cart : Carts \cup {None}, next : Nat, view : Views]

TypeOK ==
    /\ owner \in [Carts -> {Customer, Nobody, None}]
    /\ guestToken \subseteq Carts
    /\ newer \in [Carts -> SUBSET Carts]
    /\ line \in [Carts -> Lines]
    /\ offer \in [Variants -> {"sold", "off", "unsold"}]
    /\ cookie \in Carts \cup {None}
    /\ signedIn \in {Customer, Nobody}
    /\ req \in [Requests -> RequestStates]
    /\ shown \in [Pages -> Views]
    /\ added \subseteq Pages
    /\ basket \in [Variants -> Nat]
    /\ setAside \in BOOLEAN
    /\ disturbed \in BOOLEAN

(* However requests overlap, no line is ever below the least or above the   *)
(* most the kitchen takes of the item in one order: each writes a quantity  *)
(* it has checked itself.                                                   *)
QtyInRange ==
    \A i \in Carts : line[i].qty > 0 => InRange(line[i].variant, line[i].qty)

(* Requests that come one after the other keep what a person did: the cart  *)
(* the next one resolves shows what they put there, of all that is still    *)
(* sold, across cookies, adoption at sign-in and expiries of the token.     *)
(* Excepted are baskets that were set aside: left behind because signing in *)
(* found an earlier cart, or because the guest whom an expiry makes of a    *)
(* customer has another cart or none.                                       *)
BasketKept ==
    (~disturbed /\ ~setAside /\ \A r \in Requests : ~UnderWay(r)) =>
        \A v \in Variants :
            Quantities(View(CartInHand))[v] = IF offer[v] = "unsold" THEN 0 ELSE basket[v]

(* A page that comes to say "Added to your basket." has had its item        *)
(* written to a cart.                                                       *)
Wrote(r) == req[r].op.kind = "add" /\ req[r].pc \in {"touch", "view", "price", "answered"}

AddedIsInBasket ==
    [][\A p \in added' \ added : \E r \in Requests : PageOf[r] = p /\ Wrote(r)]_vars

(* The totals of every answer, over all the lines it shows, whichever way   *)
(* their halves are rounded: subtotal and tax add up to the total; and where *)
(* prices include tax the total, where they do not the subtotal, is the sum *)
(* of the prices shown times the quantities.                                *)
TotalsAddUp ==
    \A r \in Requests, inclusive \in BOOLEAN :
        req[r].pc = "answered" =>
            \A split \in Splits(req[r].view, inclusive) :
                LET subtotal == toMinorUnits(Totals(split).subtotal)
                    tax == toMinorUnits(Totals(split).tax)
                    total == toMinorUnits(Totals(split).total)
                IN  /\ subtotal + tax = total
                    /\ (IF inclusive THEN total ELSE subtotal)
                           = MapThenSumSet(LinePrice, req[r].view)

(* The tax a line would be charged in a market that adds it is the tax a    *)
(* market that includes it would show in the sum.                           *)
LinesRoundTrip ==
    \A c \in Carts : \A l \in Contents(c) :
        TaxRoundTrips(LinePrice(l), TaxRate[l.variant])
===============================================================================
