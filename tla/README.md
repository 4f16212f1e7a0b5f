# A verification project for Mylapore Bites

Mylapore Bites sells food that is cooked to order: a kitchen makes so many
units of an item a day, and the platform must sell them once, remember who has
paid, tell customers what happened, and let go of what nobody pays for. This
directory holds TLA+ specifications of the parts of the API where that depends
on the order of events, the TLC configurations that check them on small
instances, and proofs checked by TLAPS for every size of instance.

Everything is translated from the code; where a comment or a document says
something else, the code is modelled and the difference is listed under
[What the checks found](#what-the-checks-found).

## The system

A NestJS API (`apps/api`) on PostgreSQL and Redis, a worker process
(`worker.ts`) with a timer, a Next.js storefront and admin site, and a
Cloudflare Workers port (`apps/edge-api`) to which modules move one by one,
on the same database. No code uses a transaction level above READ COMMITTED;
several customers, several browser tabs, several API processes and the worker
run at once and meet in database rows and Redis keys. Checkout and payment have
tables and no code yet; where a caller is missing, the models let it call at
any time with any arguments the types allow.

| Part | State it keeps | Operations | What makes it hard | Modules |
| --- | --- | --- | --- | --- |
| Capacity engine (`modules/capacity`) | `production_capacity`, `capacity_reservations` | hold, confirmForOrder, release, releaseExpiredHolds | last units reached for at once; stale ids of a sweep; payment against expiry; two-statement release; crash between statements | `CapacityLedger`, `Capacity`, `Capacity_proofs` |
| Edge port (`edge-api`) | the same two tables | ensure, reserve, release (confirm and the expiry query have no route) | transactions drawn differently from the original beside it | `EdgeCapacity`, `Capacity_proofs` |
| Date engine (`business-date.ts`, `capacity.service.ts`) | production rules; reads the capacity rows | productionDateFor, cutoffInstant, isCutoffPassed, the checks of hold, nextAvailableDate | walking back over closed days with a limit; a scan and a hold that must agree, in different code | `Availability`, `Shop_proofs` |
| Notification outbox (`modules/notifications`) | `notifications` | enqueue, processDue, markFailed, three providers | handover and record are two steps; providers that fail, or take a message and fail to say so; crashes | `Mailbox`, `Outbox`, `Outbox_proofs` |
| Idempotency interceptor (`common/idempotency`) | `idempotency_keys` | claim, answer, store the response | look-up, claim, handler and store are four steps; the store is not awaited | `OncePerKey`, `Idempotency`, `Idempotency_proofs` |
| Sign-in (`auth.service.ts`, `reference.service.ts`) | `customers`, `counters` | verifyAndSignIn, next | two devices of a new customer; a counter row as the lock of all sign-ups | `SignIn`, `VerifyCode`, `SignIn_proofs` |
| One-time codes (`otp.service.ts`, `redis.service.ts`) | three Redis keys per request, `otp_challenges` | request, verify | check-and-set against expiry; fixed windows; a fallback channel; answers to one code compared side by side | `OtpRequest`, `VerifyCode`, `OtpRequest_proofs`, `SignIn_proofs` |
| Cart and its pages (`modules/cart`, storefront `CartProvider`) | `carts`, `cart_items`, a cookie, the state of each page | resolve, add, update, remove, view, the pages' requests | no transaction anywhere; pages that do not know of each other; guest and customer carts | `Cart`, `Cart_proofs` |
| Pricing (`money.ts`, `pricing.service.ts`) | none | splitTax, priceLines | rounding, in both kinds of market | `Pricing`, `Cart_proofs` |
| Address book (`modules/customers`) | `addresses` | create, update, delete | one default flag, many transactions, rows an UPDATE cannot see | `Addresses`, `Shop_proofs` |
| Sessions (`token.service.ts`, `auth.controller.ts`) | `auth_sessions`, a cookie | issue, rotate, revoke | a rotation is three statements and an answer, any of which may be the last; requests of several tabs that cross | `Sessions`, `Sessions_proofs` |
| Read-through caches (`market.service`, `permissions.guard`, `taxRateFor`, `category.service`) | Redis keys with a TTL | load, store, expire | an answer read from several tables, one after another; a late store brings back what the tables have left; nothing invalidates | `Caches`, `StaleReads`, `Shop_proofs` |
| Seed (`seed.ts`, `seed/catalogue.ts`) | every reference table | one pass, statement by statement, run again at will | stopped anywhere, no transaction, beside edits and readers | `Seed`, `SeedCatalogue`, `Shop_proofs` |
| Catalog (`product.service.ts`) | `products`, `market_products`, `market_product_variants` (read) | list, detail | a cursor into rows that move; two queries that must agree | `Catalog`, `Shop_proofs` |
| Category tree (`category.service.ts`) | none (a Redis copy) | tree | recursion over data an administrator may bend | `CategoryTree`, `Shop_proofs` |
| Storefront pages (`apps/storefront`) | Next's cache | reads of the parts above | – | `Storefront`, `Shop_proofs`, and `Cart` |
| Mock API (`tools/mock-api`) | a map of baskets | the storefront's reads | code of its own over the seed's file | `MockApi`, `Shop_proofs` |
| Content, HTTP plumbing, admin site, container files | none that changes | reads, layout | – | not modelled |

How they interact: a hold of the capacity engine calls the date engine first
and the ledger rows after; the worker's tick runs the sweep of the capacity
engine and then the outbox; sign-in follows a verified code, and the token it
gets is what makes the cart adopt a guest's lines; the cart prices its lines
with `Pricing` at a rate out of a cache; the caches are filled from tables the
seed and administrators write; the storefront reads the catalogue, the tree and
its search, or, on a developer's machine, the mock. The dates of a product and
the address book are routes of the API that no page of this commit calls. Each
module leaves a neighbour to an unconstrained environment (a payment may come at
any time, a token may arrive or expire at any time), so that what is shown of
one part does not depend on a promise of another. No route of this commit lets
an administrator change a table either; the schema, the seed's comments and the
permission bundles say that they will, so edits are part of that environment.

## How the modules correspond to the code

The convention in all of them: a committed row is a value of a variable; what
an open transaction has written is not, it follows from the transaction's
program counter, and its Commit action applies it. A row written by an open
transaction is locked, which is read off the program counters. One action is
one SQL statement, one Redis command, one call to a provider or one commit,
because a process may stop, and another may run, between any two of them and
nowhere else. READ COMMITTED is modelled as PostgreSQL does it: an UPDATE that
finds a locked row waits and evaluates its WHERE clause again. Aborts, crashes
and lost connections are one action each, always enabled while there is
something to lose. `PROJECT.json` maps every definition to its lines.

Definitions introduced with the word *Slip* are plausible mistakes in the code
(a guard dropped, an order swapped). Nothing uses them; each is there to be put
in the place of the definition below it, and the property it is meant for must
then fail.

* **`CapacityLedger`** is the abstract specification: reservations and nothing
  else. What is sold is computed from them, so the book cannot disagree.
* **`Capacity`** has the counter column, the guarded UPDATE (`CanReserve`), the
  insert of a missing row, the explanation of a refusal by a second statement,
  the two statements of a release, the sweep's plain SELECT whose ids are acted
  on later, and a confirmation that locks its rows one after the other. A hold
  locks only the capacity row, a release its reservation and then the row, a
  confirmation only reservations: the one lock cycle possible is between two
  confirmations, and PostgreSQL breaks it (`AbortConfirm`).
* **`EdgeCapacity`** EXTENDS `Capacity` with the port's own actions, so that
  both run on one database. The two ports write the same statements, so the
  port's actions are the original's where they are, and its own where the
  transaction is drawn differently: ensure and reserve are separate requests,
  and a refusal rolls back.
* **`Availability`** has the date functions as recursive functions over days
  and instants (`WalkBack` is the loop of `productionDateFor`, a function of how far
  it has gone back and how many days it still has to find), and the scan beside the
  checks of `hold`: an item that is gone or not sold, one kept in stock, one
  without a rule, a number out of range, and then the day (`HoldAnswer`). Other
  customers fill, free and lock days meanwhile. The scan is asked of items that go
  by date, in a number within their rule (`GoesByDate`).
* **`Outbox`** keeps the order of rows, the attempts a tick has read, and what a
  provider did as against what it said. Not every provider sends: the e-mail stub
  without a key and the "console" SMS provider write to the log and report
  success. Such a channel is `Unwired`: its handover is taken by nobody, and the
  row says SENT all the same. A channel without a provider is given up at once
  (`NO_PROVIDER`). **`Mailbox`** is what the outbox promises of a message, without
  workers, batches, queries or the order of rows: it may be handed over while it
  is pending, and again only in doubt; every attempt on record counts once; "sent"
  is said of a message that was taken or is of an unwired channel (`LogOnly`), and
  a failure of none that is known to have been taken. `Outbox` implements it with
  the variables it shares with it (`Box`).
* **`Idempotency`** has the interceptor around a handler that is one
  transaction. No endpoint carries the decorator yet. **`OncePerKey`** is what a
  customer may rely on, without rows and claims: the orders made and the answers
  given. An order is made under a key that has none, and whoever is refused has
  ordered nothing; the rest of the interceptor's steps change neither (`Once`).
* **`SignIn`** starts where a code was found right. **`VerifyCode`** EXTENDS it
  with `OtpService.verify` in front: a request looks its challenge up, compares,
  and then uses it up or counts a wrong answer, in statements of their own. A
  request is a sign-in of `SignIn` once its verification stands at "right".
* **`Sessions`** names a token by the request that issued it, as a request issues
  one at most, and keeps a row and a cookie by the ticks they have left. The
  browser is external (no page of the storefront calls `/auth/refresh` yet): it
  may send its cookie as often as it likes, with earlier answers outstanding.
* **`OtpRequest`** keeps a Redis key by the ticks it has left, so there is no
  clock that has to stop. It is the production configuration: any other answers
  as if SMS had worked.
* **`Cart`** covers the pages too: what a page may ask for is what its buttons
  offer for the lines it shows, and the buttons wait for the change before.
  `newer` is the order of `updatedAt` by which the customer's cart is chosen, and
  `Earlier` a cart the customer has from another device. A browser starts as a
  guest's, or with a token and pages that show that cart. A token comes and expires
  at any moment (`SignIn`, `ExpireToken`); the routes of a cart are public, so
  whoever's token has expired is a guest. `offer` is whether a variant is sold,
  switched off, or no longer in the market's list: an addition asks for the first
  (`FindVariant`), and the pricing of an answer leaves the third out, after the
  lines were read (`ReadView`, `PriceView`). The histories are `basket`, what the
  requests come to one after the other; `disturbed`, that requests have
  overlapped, one was lost or changed a line of another cart; and `setAside`, that
  a basket with something in it is not the one the next request would resolve:
  signing in found an earlier cart, or a token expired whose cart the cookie does
  not open. `BasketKept` is about what is neither.
* **`Pricing`** gives a set of splits, as `Math.round` works on a binary
  fraction and an exact half may go either way, and the strings amounts go out
  as (a whole part and two decimals), from which `Cart` reads them back to sum up
  the totals of an answer (`SumUp`), as `view` does.
* **`Addresses`** has the UPDATE of all the customer's rows with the rows it
  could see when it began (`seen`).
* **`Seed`** is `main` of `seed.ts` as the sequence of its statements, each
  committed on its own; a table is one of its rows, and a row a set of marks: the
  seed's row is there, an administrator has changed columns the upsert updates, or
  columns it leaves. An upsert takes back the changes of the columns it updates
  and no others (`Upsert`); which tables have columns of either kind is read off
  their `update:` clauses (`Updated`, `WithoutOthers`). A role's grants are
  stripped by one statement and made by the next, and a permission granted in
  between stays. The administrator's account is made only by a pass whose
  environment names one. **`SeedCatalogue`** is the catalogue file with what the
  rest needs of it.
* **`Caches`** EXTENDS `Seed` with the four read-through caches. They share
  nothing, so a behaviour watches one of them (`key`). What an answer is made of
  are two parts (one for a rate), read by statements of their own, as a Prisma
  include is, and stored in a step after that: a domain and its market, an
  administrator's roles and their grants, the categories and what is counted under
  them (product links, listings, withdrawn products). A rate is looked up among
  those valid today; one an administrator has ended reads as 0, as in the code,
  and a product without a tax class is priced at 0 and not looked up. Rates that
  begin later are not modelled. **`StaleReads`** is what a reader may rely on, in
  two variables: the source, part by part, and the values each part of an answer
  may have; `Caches` implements it with the mapping in its definition `Reads`.
* **`Catalog`** has Prisma's cursor: the page starts at the row where the cursor's
  product stands now, whether it still matches or not, less one (`skip: 1`,
  `RowsAhead`). Behind a withdrawn product that one is another product; the
  history `skipped` says that it happened, and `slid` that a page's last product
  was moved.
* **`CategoryTree`** has the forest as the code builds it, from nodes that know
  their children; the counts are rolled up over what hangs in it (`Hanging`), as
  `rollUp` is called on the roots: on a circle of parents the recursion would have
  no value. The reference goes upwards, from the rows: the way up of a category
  is what every set has that has the category and the parents of its members. A
  category that names itself is a child of its own and hangs nowhere; one without
  a parent is a root (`NoParent`). The counts are of filings, as in the code: a
  product filed under a category and under one below it counts twice.
* **`MockApi`** instantiates `Catalog` and `CategoryTree` with the rows the seed
  makes of a catalogue file, and asks both what the pages ask: the rails, the shop
  with its filters, the site map, and the search page with what it suggests and
  what is typed. What a product's texts are is which searches find it. A product
  page is compared pack size by pack size, with its price and the terms of its
  rule, the least and the greatest number among them. Prices are amounts: the API
  writes them without trailing zeros and the mock with two decimals. The API
  refuses a search of more than 80 characters, and reads `%` and `_` as wildcards;
  neither is modelled. The file is a constant (`FileProducts`, `FileCategories`),
  as it will change; the run has the one of `SeedCatalogue`. Two
  assumptions say what of it the answers depend on: variants have prices
  (`FileAssumption`), and a page has room for all it looks for
  (`PagesHaveRoom`). Beyond that room the two differ by design: the mock cuts off
  in the order of the file, the API after the bestsellers.
* **`Storefront`** EXTENDS the parts the pages read and, beside them, the two
  routes that have no page yet, the dates and the address book. None reads a table
  another one writes, so a behaviour is about one of them; the other parts stand
  still in one state.

## What the runs check

| Run | Instance | What it shows |
| --- | --- | --- |
| `capacity` | 3 requests (2, 1, 1 units) for a day of 2 units, through both ports; 2 workers, 1 canceller, 1 payment | the counter equals the claims, no day is oversold, a locked day sells nothing, every step is a step of the ledger |
| `capacity_liveness` | 2 requests, 1 worker, 1 canceller, 2 payments | an expired hold is released or confirmed in the end |
| `capacity_sweep` | as above, 1 payment | *violated:* the sweep releases only holds |
| `outbox` | 3 messages, one per channel, e-mail unwired; batch of 2; 3 attempts; 1 worker | no needless repeat, true outcomes, every step is one of the mailbox, every message settles |
| `idempotency` | 5 requests, 2 keys, 2 bodies | one key makes one order, a replay tells of it, "still processing" has a cause, every step is one of `OncePerKey` |
| `signin` | 3 right and 2 wrong answers to the codes of 2 new phones, 2 attempts each | a code ends with its first use and its attempts; references are 1 to the counter, a refusal is for the phone, each gets its turn |
| `sessions` | 5 requests of one browser; tokens that last 2 ticks | a login has one working token, a browser that refreshes in turn stays signed in, a logout and a reuse end the login |
| `cart` | 2 requests from 2 pages that may overlap or be lost; 2 items at 63 with 12 % and 30 with 5 %; a cart from another device, empty or not, or none, shown already or not; sign-in, expiry and withdrawals at any time | limits of a line, the basket is kept, the totals of an answer add up, tax is the same both ways |
| `cart_added` | 3 requests from 2 pages, one of them a page load; 1 item | *violated:* "Added to your basket." means it was added |
| `otp` | 3 requests at a time, 2 numbers, 1 address, window of 3 ticks | spacing, the allowance, earned refusals, a code was sent by the channel on record |
| `storefront` | dates: 64 rules and the seed's, two books, around a Sunday; shop: 4 products, pages of 1, 2 changes; menu: 4 categories, every parent relation; book: 3 changes of 2 addresses; mock: the queries of the pages, the search page among them | the production day is right and the date offered is the first a hold is granted on; a scroll shows no product twice, and each once unless it began behind a withdrawn one; card and page agree; the menu is whole; one default at most, and it is not lost; mock and API answer alike |
| `caches` | 2 passes of the seed, stopped anywhere; 1 change (grants, rates, markets, listings); 2 requests through one of 4 caches | a completed pass leaves the seed's rows and what others changed beside it, no line without its tax unless its rate was ended, stale reads within `StaleReads`, a cache follows its tables |

**Why the bounds are enough.** The capacity hazards need a last unit contested
by two requests, a third that must not fit, one release that waits for another,
and a stale id in a second worker's list; all are in the instance, and the
proofs remove the bound for everything but liveness. The outbox needs one
message more than a batch, so that one waits, and attempts enough to be retried
after a retry. The idempotency and sign-in instances have two competitors for
one key or number, a third that differs, and one outside; both are proved. Five
requests of a browser are a sign-in, two that cross or one that is lost, and two
more that meet what those left behind; a second browser would have logins of its
own, and one browser signs in again within the five. For codes, an allowance of
one makes the window's boundary, the refusal and its end all happen within a
window of three ticks; a cool-down of one tick is the shortest that can run out
between two requests. Of the cart's two requests one is of a page that knows
nothing of the other, so they add to one line, to two, or change a line the
other has removed, in turn or overlapping; limits of 2 to 3 make both bounds
reachable by one addition too many or too few; two of one item and three of the
other have an exact half of a paisa in their tax, the first where prices include
it, the second where they do not. More requests, pages and lines are left to the
proofs. Three changes of the address book are what a second default takes (one
that creates, one that cannot see it, one that moves the flag). For a code, two
wrong answers beside each other at an allowance of two, and two right ones
beside them, make every order of look-up and write; the second phone is what a
gap in the references shows on. A pass has to be stopped and run again, so two
passes, with a change anywhere before, between, within and after them; two
requests let a store come after another's. A page of one product makes every
product a cursor once, and two changes take a product out and back, withdraw a
cursor and its neighbour, or move two. Four categories hold a tree of depth
four, two roots and a circle with a tail. In `Availability` a week of closed
Sundays lies within every look-back, and the kitchens that work one day a week
or never run into its limit.

**Deadlock** is checked in the capacity runs. The others switch the check off:
requests are a finite set there, and a system whose requests are all over stops
(in `otp`, where they never are, time goes on for ever).

**Fairness.** `capacity_liveness` assumes that workers tick (the interval in
`worker.ts`), that an open transaction goes on, that PostgreSQL serves the
waiters of a row lock and breaks lock cycles, and that some worker's ticks stop
failing in the end; it does not assume that a payment or a cancellation ever
comes, or that holds succeed. `outbox` assumes the same of the worker and
nothing of the providers. `caches` assumes that Redis expires keys and that a
request that has missed goes on or fails; passes and edits need not happen.
`signin` assumes that a request that was begun goes
on or is lost. Nothing assumes that a customer acts.

## What is proved

Every safety property, action property and refinement of a passing run is a
theorem, for every value of the constants that satisfies the named assumptions.
These are types of the constants, finitely many of what is counted, and limits
that are positive; three say more.
`AvailabilityAssumption` asks that the days of the model reach from the longest
look-back to the horizon of every instant, so that no scan leaves them,
`CartAssumption` that the ids of carts, owners and requests are distinct, and
`PagesHaveRoom` that no page finds more products than it shows, which TLC
evaluates for the file of the repository (a rail has room for 8, a page of the
shop for 24).
`OneWorker` is a hypothesis of the theorems about the outbox, as
`docker/docker-compose.prod.yml` runs one worker; with two, the first of them is
false.

**`Capacity_proofs`** – `Conservation`, `NeverOversold`, `LockedDaySellsNothing` and
the refinement of `CapacityLedger`, for the engine alone and with the second
port beside it. None of them is inductive. A commit applies what the
statement before it found, so the invariant `IInv` adds that the finding still
holds (`PendingSound`: a granted hold still fits, a marked reservation is still
claimed) and why it does (`LocksExclusive`: nobody else has written the row in
between). Conservation then says that a commit moves the counter by what it
moves the claims; that the guard on the counter is a guard on the claims is
what makes the refinement go through. The port's own steps are steps of the
original or change nothing of it (`EdgeOwnSteps`).

**`Outbox_proofs`** – `NoNeedlessRepeat`, `OutcomeIsTrue`, and that an outcome is
final (`OutcomesStand`, which no run checks, as `Mailbox` allows nothing else). The
batch of a tick is what the rows still say (`BatchIsFresh`), and that a provider
has taken a message is on record, about to be, or in doubt (`TakenIsKnown`). Which
channels are wired is a constant: of the others a row that says SENT says nothing
of a delivery, and neither does `OutcomeIsTrue`.
That the head of a batch is well defined rests on the order of `createdAt`. From
the same invariant, the outbox implements `Mailbox` (`Refinement`): a row whose
attempts are those the tick read goes from n to n + 1 (`RecordIsOne`), and what
is not known to be taken is free to be handed over (`SendIsHandOver`). This is
also the part of `EveryMessageSettles` that is safety: no step takes an attempt
back or leaves a message pending after its last, so attempts that go on being
recorded run out.

**`Idempotency_proofs`** – `OneOrderPerKey`, `BusyHasCause` and, of replays,
`ReplayIsOriginal` (which `OncePerKey` says of every replay, so no run repeats
it), from `ClaimIsExclusive`: whoever got past the claim owns the row,
with its own body, for good. With `AnsweredAtTheEnd` (a request that is still at
work has no answer) it gives the implementation of `OncePerKey` (`Refinement`):
the commit of the handler is the abstract order, under a key that had none, and
every answer is of its four kinds; a refusal after the handler's commit would
be a step of neither.

**`SignIn_proofs`** – `RefsGapless` and `RefusedForPhoneOnly`, from
`LockHolderHasNext`: one transaction at a time has taken a number, and that
number is the counter's next. Then `VerifyCode` implements `SignIn`
(`VerifyThenSignIn`): a step of a verification is a step of a sign-in or leaves
it alone, so the references are gapless behind the codes too. `CodeEnds` needs
that attempts on record are wrong answers given, that a used code is not live,
and that a request which looked it up afterwards is turned away.

**`Sessions_proofs`** – `OneLiveToken`, `ReuseHasCause`, `LogoutEnds`,
`ReuseEndsLogin`. That a login has one working token is kept by an invariant of
the request that rotates: in a login that was not raced there is one at a time,
the token it read is the only one that may work, and none does once it is
marked (`RotationIsAlone`). How a login ends needs where that token is:
while a request of a login is open the browser has no newer token of it
(`OneAtATime`), so what works is in the cookie, in the request or in the answer
to it (`OnlyTheLastWorks`, `TheLastWorks`), and a logout or a reuse that finds it
leaves none (`EndedIsOver`).

**`OtpRequest_proofs`** – `Spaced`, `NoMoreThanTwice`, `RefusalEarned`,
`AnsweredWasSent`. Twice the allowance is the bound because of those admitted in
any window the last were counted by the key that is there, and those before
them by the key before it (`CountedByTwo`).

**`Cart_proofs`** – `QtyInRange`, `BasketKept`, `TotalsAddUp`, `LinesRoundTrip`.
`Sound` holds however requests overlap: a line is of one item ever, also where
a page only remembers it, and what a request is about to write it has checked
(`Checked`; without it `QtyInRange` is not inductive). While nothing has
overlapped, one request at a time resolves the one cart there is
(`OneAtATime`) and takes its lines from what the basket was to what it is
(`BasketFollows`), through cookies, the adoption of a guest's cart by a customer
who has none, expiries and withdrawals; a basket that was set aside is excepted,
by definition of `setAside` and not by a claim about it. The amounts rest on facts
about `Rounded`: taking the tax out of a price and putting it on again gives the
price, whichever way halves go. `TotalsAddUp` is about the sums of an answer: the
lines of a view are finitely many (`ViewsStayFinite`), the string of a sum reads
back as the sum (`SumUpIsSum`), each line's net and tax come to what it costs
(`LineAddsUp`, `NetIsLess`), and so do their sums, line by line over the finite
set.

**`Shop_proofs`** – what is behind the pages of the shop:

* `RerunLeaves`: a mark of an administrator is on a row exactly if it stands or the
  pass has yet to come to the statement that takes it away (`ChangesStand`), and
  only where the table has columns of its kind (`MarksFit`). `NeverUntaxed`: rates
  come before prices in the seed and neither is ever taken away (`PriceHasRate`),
  so a load that has begun finds one, unless it was ended. Each cache implements
  `StaleReads` (`CachesAreStaleReads`), part by part.
* `OneDefault`, `DefaultKept`: unless the flag was raced, a transaction that clears
  flags has seen every default there is (`DefaultsAreSeen`); one that counted
  other addresses will not be the only one (`OthersWereCounted`).
* `ScrollShowsOnce`: of what was not touched a scroll has shown nothing twice and
  nothing behind its cursor, and everything listed up to it but what it skipped
  (`ShownUpToCursor`). The rows a page is taken from are those behind the cursor,
  less one if the cursor's product was withdrawn (`AheadIsBehind`); a page is the
  first of them in the order without a gap (`TakeHasNoGap`, `PageIsNext`).
  `CardAgreesWithPage` follows from the types.
* `ProductionDayIsRight`: the walk is the function its loop describes
  (`WalkIsThere`); along it the days still to find are the lead less the working
  days passed (`WalkCounts`); it ends where enough are passed (`WalkEnds`).
  `OfferIsFirstHoldable`: the scan's test of a day and the answer of `hold` for it
  agree (`HoldAsScan`), and the scan passes over a day only if it fails it
  (`ScanPasses`).
* `MenuIsWhole`: the forest of the code is the one the ways up define
  (`ForestIsRight`) and the number of a node is that of the filings at it or
  below (`CountIsRight`). A category with a root above is not on its own way
  up (`RootedIsNoCircle`), so its children's ways up are longer by one and the
  recursion downwards ends (`LeafOf`); two categories on one way up are one
  above the other (`WayUpIsALine`), so what is below the children of a node is
  disjoint.
* `MockAgrees` (`MockHolds`), for any catalogue file and anything typed: where a
  page has room the mock's slice and the API's ordered page are all that is
  found (`MockShowsAll`, `ApiShowsAll`, by `FewBefore`); the minimum of a set of
  prices is the price at a least variant (`SamePrice`); on rows without parents
  every category hangs by itself and its recursion adds nothing (`MenuIsFlat`,
  `SumOfNone`).
* `PagesHold`: each part moves in `Storefront` as it does alone
  (`PartsOfStorefront`), so all of this holds of the specification the run checks.

What a recursive definition computes is proved without induction principles: that
it has a value is shown by giving one, and that it has no other by taking a
smallest place at which the two would differ (`LeastOf`, from the
well-foundedness of the numbers). A type invariant stands in the module of its
component, what is added to make it inductive at the head of the proofs (`IInv`,
`CartInv`, `LoginInv`, ...). They are in no run; TLC has checked them on the runs'
instances, and they are theorems.

Only model-checked is liveness (`ExpiredHoldsSettle`, `EveryMessageSettles`,
`SignInsEnd`, `CacheFollows`): fairness and ENABLED are out of the prover's reach.

## What the checks found

Runs that end in a violation:

* **`capacity_sweep`** – the sweep calls the same `release` as a cancellation,
  which takes HELD or CONFIRMED; a reservation paid for between the sweep's
  SELECT and its release is released.
* **`cart_added`** – `AddToCart` says "Added to your basket." whatever came of
  the request, as the provider swallows the error. The shortest trace loses the
  connection; a quantity below the item's minimum, which the stepper starts
  at, does the same.

Differences and limits met while modelling that have no run of their own:

* Of two first sign-ins of one phone, the second fails with INTERNAL on the
  unique index, with its code used up (`InsertRefused`).
* When a handler throws, its process stops or the unawaited store fails, the
  idempotency row keeps a null response; `lockedAt` and `expiresAt` are never
  read, so every retry under the key is told that the request is still being
  processed, for good. `BusyHasCause` counts such a failure as a cause.
* An answer to a refresh that gets lost signs the browser out: it comes back with
  a token that was rotated. So do two tabs that refresh at the same time, as the
  comment at `token.service.ts:64` takes every such token for a captured one.
  `ReuseHasCause` says that nothing else does. A logout that crosses a refresh
  of the same browser revokes the token the refresh came with, not the one it
  gets (`LogoutEnds` excepts it).
* Two requests that look up an unclaimed idempotency key: the loser's insert
  violates the index and is answered INTERNAL, not "still processing".
* `redis.service.ts:40` calls the counter a sliding window; it restarts at fixed
  times, and twice the allowance fits into one hour's length
  (`NoMoreThanTwice` is the bound that holds).
* `holdOrExplain` throws CAPACITY_EXHAUSTED for a locked day too; the explanation
  is a second statement and may read a row that has changed since; the count
  `confirmForOrder` returns is read by nobody.
* Nothing marks a row of the outbox as taken: a second worker (the deployment
  runs one) would send what both read twice.
* `nextAvailableDate` looks 21 days ahead, the UK market takes orders 28 days
  ahead. `BlackoutDate` is read by nothing.
* The e-mail provider is a stub: without a key it writes to the log and reports
  success (`email.provider.ts:24-27`), and so does the "console" SMS provider. The
  row says SENT and nobody has the message; `OutcomeIsTrue` and `Mailbox` except
  the channels that are not wired.
* A customer who has a cart from another device, an empty one too, is shown that
  one at sign-in and the guest's is left under its cookie, though
  `cart.service.ts:55` says "Signing in adopts the guest cart rather than
  discarding it" and `cart.controller.ts:15-19` that it is adopted at the login:
  `resolve` gets to the adoption only when the customer has no cart. A customer
  whose token has expired is a guest on these public routes
  (`customer-auth.guard.ts:63`) and finds the cart of the cookie, or none, until
  they sign in again. `BasketKept` excepts both (`setAside`); without that word it
  fails within one sign-in. A first addition that overlaps the page's own first
  GET may end in a cart whose cookie is overwritten. Two overlapping additions to
  one line come to one.
* Two overlapping creations can leave two default addresses, and an address
  deleted while it is being made the default takes the flag with it.
* `money.ts:3` speaks of no float rounding; `splitTax` divides as floats, and an
  exact half goes where the binary fraction puts it. The sums are unaffected.
* Right answers to a code that were looked up side by side are all taken: the
  update of `consumedAt` asks nothing of the row. Wrong answers on their way
  beside each other may be one or two more than the attempts allowed.
  `CodeEnds` is what holds.
* The seed writes over what administrators changed in the columns its upserts
  update (of zones, slots, prices, rules, categories, settings and roles; it
  lists withdrawn products again, `seed.ts:281`), although `seed.ts:42` says
  that changing them "is an Admin edit, not a deploy" and `permissions.ts:47`
  that role bundles are "Editable in Admin afterwards". Between `seed.ts:176`
  and `177` a role has no permissions at all, and a cache may keep that for its
  time to live. Columns that no upsert names, such as whether a category is
  active or where it hangs, stay as they are. Two seeds at once may both find no
  rate or image and make two.
* `invalidate` of the three caches that have one is called nowhere: an edit shows
  when the key runs out. Next's `revalidate` is one more cache on top.
* `sort=price_asc` and `price_desc` sort by name (`product.service.ts:172`). A
  listing shows "0.00" for a product that `detail` refuses as not sold. When a
  cursor's product is withdrawn the next page still skips one row, which
  is another product then, so one is not shown, and a cursor's product that is
  moved may make rows repeat, although `product.service.ts:15-17` chose cursors
  against that. `ScrollShowsOnce` excepts the two (`skipped`, `slid`). No page of
  the storefront goes on to a second page.
* A category page lists the products filed directly under it, while the count
  beside its name includes its children's, and counts a product filed under both
  twice, so it may be above the number of products the market sells, which
  `category.service.ts:15-16` says it reflects. It takes categories with
  parents, which the schema has and the seed does not make. Children of a
  category that is switched off move up to the top; a circle of parents vanishes
  from the menu.
* `featured=false` in a listing's query means true (`z.coerce.boolean`); the mock
  takes it for false.
* With the seeded catalogue the home page's second rail would hold murukku alone
  and is dropped (`MIN_RAIL`), but murukku counts as shown (`page.tsx:48`), so
  that the third rail holds the hamper alone and is dropped too.
* The product page says that an item is cooked the day before delivery when its
  lead is 1 (`product/[slug]/page.tsx:138`); with the seed's rules Monday's is
  cooked on Saturday.
* The mock lists in the order of the file and has no bound on a changed quantity;
  its tax is 5 % on everything where the seed has snacks at 12 %, though
  `server.ts:137` says it mirrors the pricing service.
* The edge port's `findExpiredHolds` is "Swept by a Cron Trigger"; no trigger and
  no route calls it or `confirm`.

## Plan

Order of work, the most important behaviour first:

1. *Done:* `CapacityLedger`, `Capacity`, `EdgeCapacity` with proofs;
   `Availability`; `Outbox`; `Idempotency` and `SignIn` with proofs; `Pricing`
   with proofs; `Cart`; `OtpRequest`; `Addresses`.
2. *Done:* `Sessions` with proofs; `VerifyCode` in front of `SignIn`; `Seed` and
   `Caches`, which implement `StaleReads`; `Catalog`, `CategoryTree`, `MockApi`
   and their composition `Storefront`, which took in the dates and the address
   book.
3. *Done:* proofs of the remaining safety properties: `Outbox`, `Cart`,
   `OtpRequest`, `Sessions`, `VerifyCode` (as an implementation of `SignIn`),
   `Caches` (of `StaleReads`), `Addresses`, `Catalog`, `Availability`,
   `CategoryTree`, `MockApi`, and both ports of the capacity engine; the
   abstract specifications `OncePerKey` and `Mailbox`, with proofs that the
   interceptor and the outbox implement them.
   Left: abstract specifications of the cart (one basket) and of a login (one
   token); `BasketKept`, `OneLiveToken` and what follows them say the same of
   the states.
4. Left to model: the mock's basket, delivery zones and the phone numbers of
   `phone.ts` (parsing, one-row reads).

Not modelled, and why: content and market answers (one query shaped into a
view), HTTP plumbing (wiring, logging, probes), the sites' layout, the admin
site (one page without calls), the container files, delivery zones and the
profile (one-row reads and updates), the SQL fixture (a copy of two tables for
a script).
