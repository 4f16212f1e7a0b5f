----------------------------- MODULE Cart_proofs -----------------------------
(***************************************************************************)
(* The cart, proved for any number of requests, pages and items: what a    *)
(* line may hold, what it costs, and that requests which come one after    *)
(* the other keep the basket.  The facts about prices come first.          *)
(***************************************************************************)
EXTENDS Cart, FiniteSetTheorems, NaturalsInduction, WellFoundedInduction, TLAPS

-----------------------------------------------------------------------------
(* The inductive invariant. *)

(* The stages a request resolves its cart in, has it in, has written in.    *)
Resolving == {"customer", "guest", "adopt", "create"}
Before == {"act", "count", "write", "refused"}
After == {"touch", "view", "price", "answered"}
Changes == {"update", "remove"}

OpsAreWhole ==
    \A r \in Requests :
        /\ req[r].op.kind = "add" => req[r].op.variant \in Variants
        /\ req[r].op.kind \in Changes => req[r].op.variant \in Variants /\ req[r].op.item \in Carts
        /\ req[r].pc = "count" => req[r].op.kind = "add"
        /\ req[r].pc = "write" => req[r].op.kind \in {"add", "update"}
        /\ req[r].op.kind = "remove" => req[r].op.qty = 0
        /\ UnderWay(r) => req[r].op.kind # "none"
        /\ req[r].op.kind # "none" => UnderWay(r)

(* Cookies and requests name carts that exist, each created by one request; *)
(* of any of them one is the latest.                                        *)
Existing == {c \in Carts : owner[c] # None}

OneIsLatest == \A S \in SUBSET Existing : S # {} => \E c \in S : newer[c] \cap S = {}

CartsExist ==
    /\ \A c \in guestToken : owner[c] # None
    /\ cookie \in guestToken \cup {None}
    /\ OneIsLatest
    /\ \A r \in Requests :
          /\ req[r].token \in guestToken \cup {None}
          /\ req[r].pc = "guest" => req[r].token # None
          /\ req[r].pc = "adopt" => req[r].cart = req[r].token /\ req[r].token # None
          /\ req[r].pc \in {"customer", "adopt"} => req[r].who = Customer
          /\ req[r].pc \in Before \cup After => req[r].cart \in Carts /\ owner[req[r].cart] # None
          /\ owner[r] # None => req[r].pc \in Before \cup After \cup {"over"}

(* A line belongs to a cart, and is of one item ever, also where it is only *)
(* remembered: once deleted it does not come back.                          *)
Written(i) == i \in Requests => req[i].pc \in After \cup {"over"}
Is(i, v) == Written(i) /\ (line[i].qty > 0 => line[i].variant = v)

LinesAreReal ==
    /\ \A i \in Carts : line[i].qty > 0 =>
          /\ line[i].cart \in Carts /\ owner[line[i].cart] # None
          /\ line[i].variant \in Variants
          /\ Written(i)
    /\ \A i, j \in Carts :
          /\ line[i].qty > 0 /\ line[j].qty > 0
          /\ line[i].cart = line[j].cart /\ line[i].variant = line[j].variant
          => i = j
    /\ \A p \in Pages : \A l \in shown[p] : Is(l.id, l.variant)
    /\ \A r \in Requests :
          /\ \A l \in req[r].view : Is(l.id, l.variant)
          /\ req[r].op.kind \in Changes => Is(req[r].op.item, req[r].op.variant)

(* What a request is about to write, it has checked. *)
Checked ==
    \A r \in Requests :
        req[r].pc = "write" =>
            \/ InRange(req[r].op.variant, req[r].next)
            \/ req[r].op.kind = "update" /\ req[r].next = 0

(* Undisturbed, a request resolves the cart in hand, which is the only one  *)
(* the customer owns, or the cookie's.                                      *)
OneAtATime ==
    ~disturbed =>
        /\ \A q, r \in Requests : UnderWay(q) /\ UnderWay(r) => q = r
        /\ \A c, d \in OwnCarts(Customer) : c = d
        /\ \A r \in Requests :
              /\ UnderWay(r) => req[r].who = signedIn /\ req[r].token = cookie
              /\ req[r].pc \in {"guest", "adopt", "create"} /\ req[r].who = Customer =>
                    OwnCarts(Customer) = {}
              /\ req[r].pc = "create" => req[r].token = None
              /\ req[r].pc \in Before \cup After =>
                    IF req[r].who = Customer THEN req[r].cart \in OwnCarts(Customer)
                    ELSE req[r].cart \in guestToken

(* ... and takes it from what was in the basket to what is.                 *)
InHand(r) == IF req[r].pc \in Resolving THEN CartInHand ELSE req[r].cart

BasketFollows ==
    ~disturbed /\ ~setAside =>
        /\ (\A r \in Requests : ~UnderWay(r)) => Quantities(Contents(CartInHand)) = basket
        /\ \A r \in Requests :
              /\ req[r].pc \in Resolving \cup Before => Quantities(Contents(InHand(r))) = basket
              /\ req[r].pc \in After => Quantities(Contents(req[r].cart)) = BasketAfter(req[r].op)
              /\ req[r].op.kind \in Changes /\ req[r].pc \in Resolving \cup {"act", "write"} =>
                    req[r].op.item \in LinesOf(InHand(r))
              /\ req[r].pc = "write" =>
                    req[r].next = BasketAfter(req[r].op)[req[r].op.variant]

(* What holds however requests overlap; and what holds when they do not.    *)
Sound == TypeOK /\ OpsAreWhole /\ CartsExist /\ LinesAreReal /\ Checked /\ QtyInRange

CartInv == Sound /\ OneAtATime /\ BasketFollows

-----------------------------------------------------------------------------
(* Rounding stays within half a unit, whichever way a half goes. *)
LEMMA RoundedIsNear ==
    ASSUME NEW n \in Nat, NEW d \in Nat \ {0}, NEW k \in Rounded(n, d)
    PROVE  /\ k \in Nat
           /\ 2 * n - d <= 2 * k * d
           /\ 2 * k * d <= 2 * n + d
<1>1. n \div d \in Nat
  OBVIOUS
<1>2. QED
  BY <1>1 DEF Rounded

(* The net of a price that includes tax is at most the price. *)
LEMMA NetIsLess ==
    ASSUME NEW minor \in Nat, NEW rate \in Nat, rate # 0,
           NEW net \in Rounded(100 * minor, 100 + rate)
    PROVE  net \in Nat /\ net <= minor
<1> DEFINE d == 100 + rate
<1>1. d \in Nat \ {0} /\ 100 * minor \in Nat /\ 100 * minor + 100 <= minor * d + d
  <2>1. minor * d = 100 * minor + minor * rate /\ minor * rate \in Nat
    OBVIOUS
  <2> QED
    BY <2>1
<1> HIDE DEF d
<1>2. net \in Nat /\ 2 * net * d <= 2 * (100 * minor) + d
  BY <1>1, RoundedIsNear DEF d
<1>3. ASSUME minor + 1 <= net
      PROVE  FALSE
  <2>1. PICK more \in Nat : net = minor + 1 + more
    <3>1. net - (minor + 1) \in Nat
      BY <1>2, <1>3
    <3> QED
      BY <1>2, <3>1
  <2>2. net * d = minor * d + d + more * d /\ more * d \in Nat
    BY <1>1, <2>1
  <2>3. minor * d \in Nat /\ 2 * net * d = 2 * (net * d)
    BY <1>1, <1>2
  <2>4. d > 100
    BY DEF d
  <2>5. 2 * (minor * d + d + more * d) <= 200 * minor + d
    BY <1>2, <2>2, <2>3
  <2> QED
    BY <1>1, <2>2, <2>3, <2>4, <2>5
<1> QED
  BY <1>2, <1>3

(* A tax-inclusive price is never changed by taking the tax out of it: the  *)
(* customer pays what the page shows.                                       *)
THEOREM InclusivePriceIsPaid ==
    ASSUME NEW minor \in Nat, NEW rate \in Nat,
           NEW s \in splitTax(minor, rate, TRUE)
    PROVE  s.gross = minor /\ s.net + s.tax = minor
<1>1. CASE rate = 0
  BY <1>1 DEF splitTax, Split
<1>2. CASE rate # 0
  <2>1. PICK net \in Rounded(100 * minor, 100 + rate) : s = Split(net, minor - net)
    BY <1>2 DEF splitTax
  <2>2. net \in Nat
    BY RoundedIsNear
  <2>3. QED
    BY <2>1, <2>2 DEF Split
<1>3. QED
  BY <1>1, <1>2

(* What is added at a rate is what is extracted at that rate. *)
THEOREM AddedIsExtracted ==
    ASSUME NEW minor \in Nat, NEW rate \in Nat
    PROVE  TaxRoundTrips(minor, rate)
<1>1. CASE rate = 0
  BY <1>1 DEF TaxRoundTrips, splitTax, Split
<1>2. CASE rate # 0
  <2>1. SUFFICES ASSUME NEW sum \in splitTax(minor, rate, FALSE),
                        NEW extracted \in splitTax(sum.gross, rate, TRUE)
                 PROVE  extracted = sum
    BY DEF TaxRoundTrips
  <2>2. PICK tax \in Rounded(rate * minor, 100) : sum = Split(minor, tax)
    BY <1>2 DEF splitTax
  <2>3. rate * minor \in Nat
    OBVIOUS
  <2>4. tax \in Nat /\ 2 * (rate * minor) - 100 <= 200 * tax
                    /\ 200 * tax <= 2 * (rate * minor) + 100
    BY <2>3, RoundedIsNear
  <2>5. sum.gross = minor + tax
    BY <2>2 DEF Split
  <2>6. PICK net \in Rounded(100 * (minor + tax), 100 + rate) :
               extracted = Split(net, (minor + tax) - net)
    <3>1. extracted \in splitTax(minor + tax, rate, TRUE)
      BY <2>5
    <3>2. minor + tax \in Nat
      BY <2>4
    <3> DEFINE gross == minor + tax
    <3> HIDE DEF gross
    <3>3. gross \in Nat /\ extracted \in splitTax(gross, rate, TRUE)
      BY <3>1, <3>2 DEF gross
    <3>4. \E net \in Rounded(100 * gross, 100 + rate) : extracted = Split(net, gross - net)
      BY <1>2, <3>3 DEF splitTax
    <3>5. QED
      BY <3>4 DEF gross
  <2>7. /\ net \in Nat
        /\ 2 * (100 * (minor + tax)) - (100 + rate) <= 2 * net * (100 + rate)
        /\ 2 * net * (100 + rate) <= 2 * (100 * (minor + tax)) + (100 + rate)
    BY <2>4, RoundedIsNear
  <2>8. net = minor
    <3> DEFINE D == 100 + rate
    <3>1. D \in Nat /\ D > 100
      BY <1>2
    <3>2. 2 * minor * D = 200 * minor + 2 * (rate * minor)
      OBVIOUS
    <3>3. 2 * net * D <= 2 * minor * D + D + 100
      BY <2>4, <2>7, <3>2
    <3>4. 2 * minor * D <= 2 * net * D + D + 100
      BY <2>4, <2>7, <3>2
    <3>5. CASE net > minor
      <4>1. 2 * net * D >= 2 * (minor + 1) * D
        BY <2>7, <3>1, <3>5
      <4>2. 2 * (minor + 1) * D = 2 * minor * D + 2 * D
        BY <3>1
      <4>3. QED
        BY <3>1, <3>3, <4>1, <4>2, <2>7
    <3>6. CASE net < minor
      <4>1. 2 * minor * D >= 2 * (net + 1) * D
        BY <2>7, <3>1, <3>6
      <4>2. 2 * (net + 1) * D = 2 * net * D + 2 * D
        BY <2>7, <3>1
      <4>3. QED
        BY <3>1, <3>4, <4>1, <4>2, <2>7
    <3>7. QED
      BY <3>5, <3>6, <2>7
  <2>9. QED
    BY <2>2, <2>4, <2>6, <2>8 DEF Split
<1>3. QED
  BY <1>1, <1>2

-----------------------------------------------------------------------------
(* Sums over the lines of a view. *)

(* What the fold of the library computes, with the function it folds over. *)
Summed(f, iter, S) ==
    [s \in SUBSET S |-> IF s = {} THEN 0
                        ELSE f[CHOOSE x \in s : TRUE] + iter[s \ {CHOOSE x \in s : TRUE}]]

IsSum(n, f, S) == \E iter : iter = Summed(f, iter, S) /\ n = iter[S]

Counts(f, S) == \A x \in S : f[x] \in Nat

(* Of some numbers, one is the least. *)
LEMMA LeastOf ==
  ASSUME NEW T, T \subseteq Nat, T # {}
  PROVE  \E n \in T : \A m \in T : n <= m
<1>1. PICK n \in T : \A m \in T : ~(<<m, n>> \in OpToRel(<, Nat))
  BY NatLessThanWellFounded, WFMin
<1>2. ASSUME NEW m \in T PROVE ~(m < n)
  <2>1. m < n => <<m, n>> \in OpToRel(<, Nat)
    BY Zenon DEF OpToRel
  <2> QED
    BY <1>1, <2>1, Zenon
<1> QED
  BY <1>2

(* There is a sum of counts: what they count, put together.                 *)
LEMMA SumExists ==
    ASSUME NEW S, IsFiniteSet(S), NEW f, Counts(f, S)
    PROVE  \E iter : iter = Summed(f, iter, S)
<1> DEFINE Chips(s) == UNION {{x} \X (1..f[x]) : x \in s}
           c == [s \in SUBSET S |-> Cardinality(Chips(s))]
           first(s) == CHOOSE x \in s : TRUE
<1>1. \A x \in S : IsFiniteSet({x} \X (1..f[x])) /\ Cardinality({x} \X (1..f[x])) = f[x]
  <2> SUFFICES ASSUME NEW x \in S
               PROVE  IsFiniteSet({x} \X (1..f[x])) /\ Cardinality({x} \X (1..f[x])) = f[x]
    OBVIOUS
  <2>1. f[x] \in Nat
    BY DEF Counts
  <2> DEFINE n == f[x]
             g == [k \in 1..n |-> <<x, k>>]
  <2>2. g \in Bijection(1..n, {x} \X (1..n))
    <3>1. g \in [1..n -> {x} \X (1..n)]
      OBVIOUS
    <3>2. \A j, k \in 1..n : g[j] = g[k] => j = k
      OBVIOUS
    <3>3. \A p \in {x} \X (1..n) : \E k \in 1..n : g[k] = p
      OBVIOUS
    <3> QED
      BY <3>1, <3>2, <3>3 DEF Bijection, Injection, Surjection, IsInjective
  <2> HIDE DEF n
  <2>3. IsFiniteSet(1..n) /\ Cardinality(1..n) = n
    BY <2>1, FS_Interval DEF n
  <2>4. ExistsBijection(1..n, {x} \X (1..n))
    BY <2>2 DEF ExistsBijection
  <2> QED
    BY <2>3, <2>4, FS_Bijection DEF n
<1>2. ASSUME NEW s \in SUBSET S
      PROVE  IsFiniteSet(Chips(s))
  <2> DEFINE G == [x \in s |-> {x} \X (1..f[x])]
  <2>1. IsFiniteSet(s)
    BY FS_Subset
  <2>2. G \in Surjection(s, {{x} \X (1..f[x]) : x \in s})
    BY DEF Surjection
  <2>3. IsFiniteSet({{x} \X (1..f[x]) : x \in s})
    BY <2>1, <2>2, FS_Surjection
  <2> QED
    BY <1>1, <2>3, FS_UNION
<1>3. c[{}] = 0
  <2>1. Chips({}) = {} /\ {} \in SUBSET S
    OBVIOUS
  <2> QED
    BY <2>1, FS_EmptySet
<1>4. ASSUME NEW s \in SUBSET S, s # {}
      PROVE  c[s] = f[first(s)] + c[s \ {first(s)}]
  <2> DEFINE d == first(s)
             t == s \ {d}
             A == {d} \X (1..f[d])
             B == Chips(t)
  <2>1. d \in s
    BY <1>4
  <2> HIDE DEF d
  <2>2. d \in S /\ t \in SUBSET S /\ Chips(s) = A \cup B /\ A \cap B = {}
    BY <2>1
  <2>3. IsFiniteSet(A) /\ Cardinality(A) = f[d] /\ IsFiniteSet(B) /\ f[d] \in Nat
    BY <1>1, <1>2, <2>2 DEF Counts
  <2>4. c[s] = Cardinality(A \cup B) /\ c[t] = Cardinality(B)
    BY <2>2
  <2> HIDE DEF A, B, c, t
  <2>5. Cardinality(A \cup B) = Cardinality(A) + Cardinality(B) - Cardinality(A \cap B)
    BY <2>3, FS_Union
  <2>6. Cardinality(A \cap B) = 0 /\ Cardinality(B) \in Nat
    BY <2>2, <2>3, FS_EmptySet, FS_CardinalityType
  <2> QED
    BY <2>3, <2>4, <2>5, <2>6 DEF d, t
<1>5. c = Summed(f, c, S)
  <2>1. ASSUME NEW s \in SUBSET S
        PROVE  c[s] = IF s = {} THEN 0 ELSE f[first(s)] + c[s \ {first(s)}]
    BY <1>3, <1>4
  <2>2. c = [s \in SUBSET S |-> c[s]]
    OBVIOUS
  <2> HIDE DEF c
  <2> QED
    BY <2>1, <2>2 DEF Summed
<1> QED
  BY <1>5

(* Sums of two counts of the same things are the sum of their sums,         *)
(* whichever way each is added up.                                          *)
LEMMA SumsAdd ==
    ASSUME NEW S, IsFiniteSet(S), NEW f, NEW g, NEW h, Counts(f, S), Counts(g, S),
           \A x \in S : h[x] = f[x] + g[x],
           NEW a, NEW b, NEW c, IsSum(a, f, S), IsSum(b, g, S), IsSum(c, h, S)
    PROVE  a \in Nat /\ b \in Nat /\ c = a + b
<1> DEFINE first(s) == CHOOSE x \in s : TRUE
<1>1. PICK i, j, k : /\ i = Summed(f, i, S) /\ a = i[S]
                     /\ j = Summed(g, j, S) /\ b = j[S]
                     /\ k = Summed(h, k, S) /\ c = k[S]
  BY DEF IsSum
<1>2. ASSUME NEW s \in SUBSET S, s # {}
      PROVE  /\ first(s) \in s /\ s \ {first(s)} \in SUBSET S
             /\ i[s] = f[first(s)] + i[s \ {first(s)}]
             /\ j[s] = g[first(s)] + j[s \ {first(s)}]
             /\ k[s] = h[first(s)] + k[s \ {first(s)}]
  <2>1. first(s) \in s
    BY <1>2
  <2>2. i[s] = f[first(s)] + i[s \ {first(s)}]
    BY <1>1, <1>2 DEF Summed
  <2>3. j[s] = g[first(s)] + j[s \ {first(s)}]
    BY <1>1, <1>2 DEF Summed
  <2>4. k[s] = h[first(s)] + k[s \ {first(s)}]
    BY <1>1, <1>2 DEF Summed
  <2> HIDE DEF first
  <2> QED
    BY <2>1, <2>2, <2>3, <2>4
<1>3. i[{}] = 0 /\ j[{}] = 0 /\ k[{}] = 0
  <2>1. {} \in SUBSET S
    OBVIOUS
  <2> QED
    BY <1>1, <2>1 DEF Summed
<1> HIDE DEF first
<1> DEFINE Right(s) == i[s] \in Nat /\ j[s] \in Nat /\ k[s] = i[s] + j[s]
<1>4. \A s \in SUBSET S : Right(s)
  <2> DEFINE Bad == {s \in SUBSET S : ~Right(s)}
             Sizes == {Cardinality(s) : s \in Bad}
  <2> SUFFICES ASSUME Bad # {} PROVE FALSE
    OBVIOUS
  <2>1. \A s \in SUBSET S : IsFiniteSet(s) /\ Cardinality(s) \in Nat
    BY FS_Subset, FS_CardinalityType
  <2>2. Sizes # {} /\ Sizes \subseteq Nat
    BY <2>1
  <2>3. PICK n \in Sizes : \A m \in Sizes : n <= m
    <3> HIDE DEF Sizes
    <3> QED
      BY <2>2, LeastOf
  <2>4. PICK s \in Bad : n = Cardinality(s)
    BY <2>3
  <2>5. s # {}
    <3>1. Right({})
      BY <1>3
    <3> HIDE DEF Right
    <3> QED
      BY <2>4, <3>1
  <2> DEFINE t == s \ {first(s)}
  <2>6. first(s) \in s /\ t \in SUBSET S /\ s \in SUBSET S
    BY <1>2, <2>4, <2>5
  <2>7. Cardinality(t) = Cardinality(s) - 1
    BY <2>1, <2>6, FS_RemoveElement
  <2>8. t \notin Bad
    <3>1. t \in Bad => n <= Cardinality(t)
      BY <2>3
    <3> QED
      BY <2>1, <2>4, <2>6, <2>7, <3>1
  <2>9. Right(t)
    BY <2>6, <2>8
  <2>10. /\ i[s] = f[first(s)] + i[t] /\ j[s] = g[first(s)] + j[t]
         /\ k[s] = h[first(s)] + k[t]
    BY <1>2, <2>5, <2>6
  <2>11. /\ f[first(s)] \in Nat /\ g[first(s)] \in Nat
         /\ h[first(s)] = f[first(s)] + g[first(s)]
    BY <2>6 DEF Counts
  <2> HIDE DEF t
  <2>12. Right(s)
    BY <2>9, <2>10, <2>11
  <2> QED
    BY <2>4, <2>12
<1>5. Right(S)
  <2> HIDE DEF Right
  <2> QED
    BY <1>4
<1> QED
  BY <1>1, <1>5

(* So there is but one sum.                                                 *)
LEMMA OneSum ==
    ASSUME NEW S, IsFiniteSet(S), NEW f, Counts(f, S),
           NEW a, NEW b, IsSum(a, f, S), IsSum(b, f, S)
    PROVE  a = b /\ a \in Nat
<1> DEFINE none == [x \in S |-> 0]
<1>1. Counts(none, S) /\ \A x \in S : f[x] = f[x] + none[x]
  BY DEF Counts
<1> HIDE DEF none
<1>2. PICK z : IsSum(z, none, S)
  BY <1>1, SumExists DEF IsSum
<1>3. ASSUME NEW p, NEW q, IsSum(p, f, S), IsSum(q, f, S)
      PROVE  p \in Nat /\ q = p + z
  BY <1>1, <1>2, <1>3, SumsAdd
<1> QED
  BY <1>3

(* An amount that went out as a string is read as what it was, and sums of  *)
(* such amounts likewise.                                                   *)
LEMMA MoneyIsRead ==
    ASSUME NEW n \in Nat
    PROVE  toMinorUnits(fromMinorUnits(n)) = n
BY DEF toMinorUnits, fromMinorUnits

(* What SumUp makes of amounts reads as their sum: each has two decimals.   *)
LEMMA SumUpIsSum ==
    ASSUME NEW S, IsFiniteSet(S), NEW amount \in [S -> Nat]
    PROVE  IsSum(toMinorUnits(SumUp(amount)), amount, S)
<1> DEFINE Step(iter) ==
               [s \in SUBSET S |->
                   IF s = {} THEN 0
                   ELSE toMinorUnits(fromMinorUnits(amount[CHOOSE x \in s : TRUE]))
                            + iter[s \ {CHOOSE x \in s : TRUE}]]
           it == CHOOSE iter : iter = Step(iter)
<1>1. ASSUME NEW iter PROVE Step(iter) = Summed(amount, iter, S)
  <2>1. \A s \in SUBSET S : s # {} => (CHOOSE x \in s : TRUE) \in S
    OBVIOUS
  <2>2. \A s \in SUBSET S : s # {} =>
           toMinorUnits(fromMinorUnits(amount[CHOOSE x \in s : TRUE]))
              = amount[CHOOSE x \in s : TRUE]
    BY <2>1, MoneyIsRead
  <2> QED
    BY <2>2 DEF Summed
<1>2. Counts(amount, S)
  BY DEF Counts
<1>3. it = Summed(amount, it, S)
  <2>1. \E iter : iter = Step(iter)
    BY <1>1, <1>2, SumExists
  <2>2. it = Step(it)
    BY <2>1
  <2> HIDE DEF it
  <2> QED
    BY <1>1, <2>2
<1>4. IsSum(it[S], amount, S)
  BY <1>3 DEF IsSum
<1>5. it[S] \in Nat
  BY <1>2, <1>4, OneSum
<1>6. SumUp(amount) = fromMinorUnits(it[S])
  BY DEF SumUp, MapThenSumSet, MapThenFoldSet
<1> QED
  BY <1>4, <1>5, <1>6, MoneyIsRead

(* The prices of the lines of a view, added up.                             *)
LEMMA PricesAreSummed ==
    ASSUME NEW S, IsFiniteSet(S), \A l \in S : LinePrice(l) \in Nat
    PROVE  IsSum(MapThenSumSet(LinePrice, S), [l \in S |-> LinePrice(l)], S)
<1> DEFINE Step(iter) ==
               [s \in SUBSET S |->
                   IF s = {} THEN 0
                   ELSE LinePrice(CHOOSE x \in s : TRUE) + iter[s \ {CHOOSE x \in s : TRUE}]]
           it == CHOOSE iter : iter = Step(iter)
           prices == [l \in S |-> LinePrice(l)]
<1>1. ASSUME NEW iter PROVE Step(iter) = Summed(prices, iter, S)
  <2>1. \A s \in SUBSET S : s # {} => (CHOOSE x \in s : TRUE) \in S
    OBVIOUS
  <2>2. \A s \in SUBSET S : s # {} =>
           LinePrice(CHOOSE x \in s : TRUE) = prices[CHOOSE x \in s : TRUE]
    BY <2>1
  <2> HIDE DEF prices
  <2> QED
    BY <2>2 DEF Summed
<1>2. Counts(prices, S)
  BY DEF Counts
<1>3. it = Summed(prices, it, S)
  <2>1. \E iter : iter = Step(iter)
    <3> HIDE DEF prices
    <3> QED
      BY <1>1, <1>2, SumExists
  <2>2. it = Step(it)
    BY <2>1
  <2> HIDE DEF it, prices
  <2> QED
    BY <1>1, <2>2
<1>4. MapThenSumSet(LinePrice, S) = it[S]
  BY DEF MapThenSumSet, MapThenFoldSet
<1> QED
  BY <1>3, <1>4 DEF IsSum

-----------------------------------------------------------------------------
(* Carts and lines. *)

(* Of carts that exist one is the latest, and Latest finds it. *)
LEMMA LatestIsOne ==
    ASSUME CartsExist, NEW S \in SUBSET Existing, S # {}
    PROVE  Latest(S) \in S /\ newer[Latest(S)] \cap S = {}
BY DEF CartsExist, OneIsLatest, Latest

(* A person's carts exist. *)
LEMMA OwnExist ==
    ASSUME TypeOK, NEW who \in {Customer, Nobody}
    PROVE  OwnCarts(who) \in SUBSET Existing
BY CartAssumption DEF OwnCarts, Existing

(* What a cart shows is made of rows. *)
LEMMA ViewType ==
    ASSUME TypeOK, LinesAreReal, NEW c
    PROVE  Contents(c) \in Views
BY DEF TypeOK, LinesAreReal, Contents, Views, LinesOf, Lines

(* The quantity read of an item is a number, 0 without a line. *)
LEMMA QtyInType ==
    ASSUME TypeOK, NEW c, NEW v
    PROVE  QtyIn(c, v) \in Nat
<1>1. CASE LineFor(c, v) = {}
  BY <1>1 DEF QtyIn
<1>2. CASE LineFor(c, v) # {}
  <2>1. (CHOOSE i \in LineFor(c, v) : TRUE) \in Carts
    BY <1>2 DEF LineFor, LinesOf
  <2>2. QED
    BY <1>2, <2>1 DEF QtyIn, TypeOK, Lines
<1>3. QED
  BY <1>1, <1>2

(* What a view holds is a number of each item. *)
LEMMA QuantitiesType ==
    ASSUME NEW view \in Views
    PROVE  Quantities(view) \in [Variants -> Nat]
<1> SUFFICES ASSUME NEW v \in Variants, InView(view, v) # {}
             PROVE  (CHOOSE l \in InView(view, v) : TRUE).qty \in Nat
  BY DEF Quantities
<1>1. (CHOOSE l \in InView(view, v) : TRUE) \in InView(view, v)
  OBVIOUS
<1>2. QED
  BY <1>1 DEF InView, Views

(* How a request moves on. *)

Moved(r, pc, cart, next, view) ==
    [pc |-> pc, op |-> req[r].op, who |-> req[r].who, token |-> req[r].token,
     cart |-> cart, next |-> next, view |-> view]

(* A request that is given a new state leaves the others alone. *)
LEMMA OneMoves ==
    ASSUME TypeOK, NEW r \in Requests, NEW x \in RequestStates, req' = [req EXCEPT ![r] = x]
    PROVE  /\ req' \in [Requests -> RequestStates] /\ req'[r] = x
           /\ \A q \in Requests \ {r} : req'[q] = req[q]
BY DEF TypeOK

(* The new state is one of the states of a request. *)
LEMMA MovedType ==
    ASSUME TypeOK, NEW r \in Requests, NEW pc \in Stages, NEW c \in Carts \cup {None},
           NEW n \in Nat, NEW view \in Views
    PROVE  Moved(r, pc, c, n, view) \in RequestStates
BY DEF TypeOK, Moved, RequestStates

(* The new state of request r, of which what it was asked is as it was. *)
Others(r) ==
    /\ req' \in [Requests -> RequestStates]
    /\ \A q \in Requests \ {r} : req'[q] = req[q]

Becomes(r, pc, c, n, view) ==
    /\ Others(r)
    /\ req'[r].op = req[r].op /\ req'[r].who = req[r].who /\ req'[r].token = req[r].token
    /\ req'[r].pc = pc /\ req'[r].cart = c /\ req'[r].next = n /\ req'[r].view = view

(* A request that moves on keeps what it was asked. *)
LEMMA Moves ==
    ASSUME TypeOK, NEW r \in Requests, NEW pc \in Stages, NEW c \in Carts \cup {None},
           NEW n \in Nat, NEW view \in Views,
           req' = [req EXCEPT ![r] = Moved(r, pc, c, n, view)]
    PROVE  Becomes(r, pc, c, n, view)
<1>1. /\ req' \in [Requests -> RequestStates] /\ req'[r] = Moved(r, pc, c, n, view)
      /\ \A q \in Requests \ {r} : req'[q] = req[q]
  BY MovedType, OneMoves
<1> QED
  BY <1>1 DEF Becomes, Others, Moved

(* The ways the actions write a request's new state, one by one: its stage, *)
LEMMA Goes ==
    ASSUME TypeOK, NEW r \in Requests, NEW pc \in Stages, Go(r, pc)
    PROVE  Becomes(r, pc, req[r].cart, req[r].next, req[r].view)
<1>1. /\ req[r].cart \in Carts \cup {None} /\ req[r].next \in Nat /\ req[r].view \in Views
      /\ req \in [Requests -> RequestStates] /\ req[r] \in RequestStates
  BY DEF TypeOK, RequestStates
<1>2. req' = [req EXCEPT ![r] = [req[r] EXCEPT !.pc = pc]]
  BY <1>1 DEF Go
<1>3. [req[r] EXCEPT !.pc = pc] = Moved(r, pc, req[r].cart, req[r].next, req[r].view)
  BY <1>1 DEF Moved, RequestStates
<1>4. req' = [req EXCEPT ![r] = Moved(r, pc, req[r].cart, req[r].next, req[r].view)]
  BY <1>2, <1>3
<1> QED
  BY <1>1, <1>4, Moves

(* the cart it resolved, *)
LEMMA UsesCart ==
    ASSUME TypeOK, NEW r \in Requests, NEW pc \in Stages, NEW c \in Carts \cup {None},
           UseCart(r, c, pc)
    PROVE  Becomes(r, pc, c, req[r].next, req[r].view)
<1>1. /\ req[r].cart \in Carts \cup {None} /\ req[r].next \in Nat /\ req[r].view \in Views
      /\ req \in [Requests -> RequestStates] /\ req[r] \in RequestStates
  BY DEF TypeOK, RequestStates
<1>2. req' = [req EXCEPT ![r] = [req[r] EXCEPT !.cart = c, !.pc = pc]]
  BY <1>1 DEF UseCart
<1>3. [req[r] EXCEPT !.cart = c, !.pc = pc] = Moved(r, pc, c, req[r].next, req[r].view)
  <2> DEFINE x == [req[r] EXCEPT !.cart = c]
  <2>1. x = Moved(r, req[r].pc, c, req[r].next, req[r].view)
    BY <1>1 DEF Moved, RequestStates
  <2>2. [req[r] EXCEPT !.cart = c, !.pc = pc] = [x EXCEPT !.pc = pc]
    BY <1>1 DEF RequestStates
  <2> HIDE DEF x
  <2>3. [x EXCEPT !.pc = pc] = Moved(r, pc, c, req[r].next, req[r].view)
    BY <2>1 DEF Moved
  <2> QED
    BY <2>2, <2>3
<1>4. req' = [req EXCEPT ![r] = Moved(r, pc, c, req[r].next, req[r].view)]
  BY <1>2, <1>3
<1> QED
  BY <1>1, <1>4, Moves

(* the quantity it is about to write, *)
LEMMA Plans ==
    ASSUME TypeOK, NEW r \in Requests, NEW pc \in Stages, NEW n \in Nat,
           req' = [req EXCEPT ![r].pc = pc, ![r].next = n]
    PROVE  Becomes(r, pc, req[r].cart, n, req[r].view)
<1>1. /\ req[r].cart \in Carts \cup {None} /\ req[r].next \in Nat /\ req[r].view \in Views
      /\ req \in [Requests -> RequestStates] /\ req[r] \in RequestStates
  BY DEF TypeOK, RequestStates
<1>2. req' = [req EXCEPT ![r] = [req[r] EXCEPT !.pc = pc, !.next = n]]
  BY <1>1
<1>3. [req[r] EXCEPT !.pc = pc, !.next = n] = Moved(r, pc, req[r].cart, n, req[r].view)
  <2> DEFINE x == [req[r] EXCEPT !.pc = pc]
  <2>1. x = Moved(r, pc, req[r].cart, req[r].next, req[r].view)
    BY <1>1 DEF Moved, RequestStates
  <2>2. [req[r] EXCEPT !.pc = pc, !.next = n] = [x EXCEPT !.next = n]
    BY <1>1 DEF RequestStates
  <2> HIDE DEF x
  <2>3. [x EXCEPT !.next = n] = Moved(r, pc, req[r].cart, n, req[r].view)
    BY <2>1 DEF Moved
  <2> QED
    BY <2>2, <2>3
<1>4. req' = [req EXCEPT ![r] = Moved(r, pc, req[r].cart, n, req[r].view)]
  BY <1>2, <1>3
<1> QED
  BY <1>1, <1>4, Moves

(* what it read for its answer, *)
LEMMA Sees ==
    ASSUME TypeOK, NEW r \in Requests, NEW pc \in Stages, NEW seen \in Views,
           req' = [req EXCEPT ![r].pc = pc, ![r].view = seen]
    PROVE  Becomes(r, pc, req[r].cart, req[r].next, seen)
<1>1. /\ req[r].cart \in Carts \cup {None} /\ req[r].next \in Nat /\ req[r].view \in Views
      /\ req \in [Requests -> RequestStates] /\ req[r] \in RequestStates
  BY DEF TypeOK, RequestStates
<1>2. req' = [req EXCEPT ![r] = [req[r] EXCEPT !.pc = pc, !.view = seen]]
  BY <1>1
<1>3. [req[r] EXCEPT !.pc = pc, !.view = seen] = Moved(r, pc, req[r].cart, req[r].next, seen)
  <2> DEFINE x == [req[r] EXCEPT !.pc = pc]
  <2>1. x = Moved(r, pc, req[r].cart, req[r].next, req[r].view)
    BY <1>1 DEF Moved, RequestStates
  <2>2. [req[r] EXCEPT !.pc = pc, !.view = seen] = [x EXCEPT !.view = seen]
    BY <1>1 DEF RequestStates
  <2> HIDE DEF x
  <2>3. [x EXCEPT !.view = seen] = Moved(r, pc, req[r].cart, req[r].next, seen)
    BY <2>1 DEF Moved
  <2> QED
    BY <2>2, <2>3
<1>4. req' = [req EXCEPT ![r] = Moved(r, pc, req[r].cart, req[r].next, seen)]
  BY <1>2, <1>3
<1> QED
  BY <1>1, <1>4, Moves

(* and that it is over. *)
LEMMA Ends ==
    ASSUME TypeOK, NEW r \in Requests, req' = [req EXCEPT ![r] = Over]
    PROVE  Others(r) /\ req'[r] = Over
<1>1. Over \in RequestStates
  BY CartAssumption DEF Over, Resting, NoOp, RequestStates, Stages, Ops, Views
<1> QED
  BY <1>1, OneMoves DEF Others

-----------------------------------------------------------------------------
(* What each step does to its request. *)

(* Then the actions, with the cases each distinguishes. *)
LEMMA FindCustomerCartMoves ==
    ASSUME Sound, NEW r \in Requests, FindCustomerCart(r)
    PROVE  \/ /\ OwnCarts(req[r].who) # {}
              /\ Latest(OwnCarts(req[r].who)) \in OwnCarts(req[r].who)
              /\ Becomes(r, "act", Latest(OwnCarts(req[r].who)), req[r].next, req[r].view)
           \/ /\ OwnCarts(req[r].who) = {}
              /\ Becomes(r, IF req[r].token # None THEN "guest" ELSE "create",
                         req[r].cart, req[r].next, req[r].view)
<1> DEFINE S == OwnCarts(req[r].who)
<1>1. TypeOK /\ CartsExist
  BY DEF Sound
<1>2. req[r].who \in {Customer, Nobody} /\ S \in SUBSET Existing
  BY <1>1, OwnExist, CartAssumption DEF TypeOK, RequestStates
<1>3. CASE S # {}
  <2>1. Latest(S) \in S
    BY <1>1, <1>2, <1>3, LatestIsOne
  <2>2. Latest(S) \in Carts \cup {None}
    BY <2>1 DEF OwnCarts
  <2>3. UseCart(r, Latest(S), "act")
    BY <1>3 DEF FindCustomerCart
  <2> QED
    BY <1>1, <1>3, <2>1, <2>2, <2>3, UsesCart DEF Stages
<1>4. CASE S = {}
  <2> DEFINE pc == IF req[r].token # None THEN "guest" ELSE "create"
  <2>1. Go(r, pc) /\ pc \in Stages
    BY <1>4 DEF FindCustomerCart, Stages
  <2> HIDE DEF pc
  <2>2. Becomes(r, pc, req[r].cart, req[r].next, req[r].view)
    BY <1>1, <2>1, Goes
  <2> QED
    BY <1>4, <2>2 DEF pc
<1> QED
  BY <1>3, <1>4

(* findFirst by the cookie: a cart without an owner is adopted by who is    *)
(* signed in.                                                               *)
LEMMA FindGuestCartMoves ==
    ASSUME Sound, NEW r \in Requests, FindGuestCart(r)
    PROVE  Becomes(r,
                   IF req[r].who # Nobody /\ owner[req[r].token] = Nobody THEN "adopt" ELSE "act",
                   req[r].token, req[r].next, req[r].view)
<1> DEFINE pc == IF req[r].who # Nobody /\ owner[req[r].token] = Nobody THEN "adopt" ELSE "act"
<1>1. TypeOK
  BY DEF Sound
<1>2. UseCart(r, req[r].token, pc) /\ pc \in Stages
  BY DEF FindGuestCart, Stages
<1>3. req[r].token \in Carts \cup {None}
  BY <1>1 DEF TypeOK, RequestStates
<1> HIDE DEF pc
<1>4. Becomes(r, pc, req[r].token, req[r].next, req[r].view)
  BY <1>1, <1>2, <1>3, UsesCart
<1> QED
  BY <1>4 DEF pc

(* The update that gives the cart of the cookie its owner.                  *)
LEMMA AdoptMoves ==
    ASSUME Sound, NEW r \in Requests, Adopt(r)
    PROVE  Becomes(r, "act", req[r].cart, req[r].next, req[r].view)
BY Goes DEF Adopt, Sound, Stages

(* The insert of a cart for who has none.                                   *)
LEMMA CreateMoves ==
    ASSUME Sound, NEW r \in Requests, Create(r)
    PROVE  Becomes(r, "act", r, req[r].next, req[r].view)
BY UsesCart DEF Create, Sound, Stages, Carts

(* An addition looks for its item, and is refused one that is not sold.     *)
LEMMA FindVariantMoves ==
    ASSUME Sound, NEW r \in Requests, FindVariant(r)
    PROVE  Becomes(r, IF offer[req[r].op.variant] = "sold" THEN "count" ELSE "refused",
                   req[r].cart, req[r].next, req[r].view)
<1> DEFINE pc == IF offer[req[r].op.variant] = "sold" THEN "count" ELSE "refused"
<1>1. TypeOK /\ Go(r, pc) /\ pc \in Stages
  BY DEF Sound, FindVariant, Stages
<1> HIDE DEF pc
<1>2. Becomes(r, pc, req[r].cart, req[r].next, req[r].view)
  BY <1>1, Goes
<1> QED
  BY <1>2 DEF pc

(* An addition reads the line, and is refused or about to write a quantity  *)
(* in range.                                                                *)
LEMMA ReadForAddMoves ==
    ASSUME Sound, NEW r \in Requests, ReadForAdd(r)
    PROVE  LET n == QtyIn(req[r].cart, req[r].op.variant) + req[r].op.qty IN
           \/ InRange(req[r].op.variant, n) /\ Becomes(r, "write", req[r].cart, n, req[r].view)
           \/ Becomes(r, "refused", req[r].cart, req[r].next, req[r].view)
<1> DEFINE n == QtyIn(req[r].cart, req[r].op.variant) + req[r].op.qty
<1>1. TypeOK /\ "write" \in Stages /\ "refused" \in Stages
  BY DEF Sound, Stages
<1>2. n \in Nat
  BY <1>1, QtyInType DEF TypeOK, RequestStates, Ops
<1>3. \/ InRange(req[r].op.variant, n) /\ req' = [req EXCEPT ![r].pc = "write", ![r].next = n]
      \/ Go(r, "refused")
  BY DEF ReadForAdd
<1> HIDE DEF n
<1>4. \/ InRange(req[r].op.variant, n) /\ Becomes(r, "write", req[r].cart, n, req[r].view)
      \/ Becomes(r, "refused", req[r].cart, req[r].next, req[r].view)
  BY <1>1, <1>2, <1>3, Plans, Goes
<1> QED
  BY <1>4 DEF n

(* The upsert of the line.                                                  *)
LEMMA WriteAddMoves ==
    ASSUME Sound, NEW r \in Requests, WriteAdd(r)
    PROVE  Becomes(r, "touch", req[r].cart, req[r].next, req[r].view)
BY Goes DEF WriteAdd, Sound, Stages

(* A change reads the line it names, if it is of this cart.                 *)
LEMMA ReadForUpdateMoves ==
    ASSUME Sound, NEW r \in Requests, ReadForUpdate(r)
    PROVE  \/ /\ req[r].op.item \in LinesOf(req[r].cart)
              /\ req[r].op.qty = 0 \/ InRange(req[r].op.variant, req[r].op.qty)
              /\ Becomes(r, "write", req[r].cart, req[r].op.qty, req[r].view)
           \/ Becomes(r, "refused", req[r].cart, req[r].next, req[r].view)
<1>1. TypeOK /\ "write" \in Stages /\ "refused" \in Stages
  BY DEF Sound, Stages
<1>2. req[r].op.qty \in Nat
  BY <1>1 DEF TypeOK, RequestStates, Ops
<1>3. \/ /\ req[r].op.item \in LinesOf(req[r].cart)
         /\ req[r].op.qty = 0 \/ InRange(req[r].op.variant, req[r].op.qty)
         /\ req' = [req EXCEPT ![r].pc = "write", ![r].next = req[r].op.qty]
      \/ Go(r, "refused")
  BY DEF ReadForUpdate
<1> QED
  BY <1>1, <1>2, <1>3, Plans, Goes

(* The update of the line, or its deletion at zero.                         *)
LEMMA WriteUpdateMoves ==
    ASSUME Sound, NEW r \in Requests, WriteUpdate(r)
    PROVE  Becomes(r, IF line[req[r].op.item].qty > 0 THEN "touch" ELSE "refused",
                   req[r].cart, req[r].next, req[r].view)
<1>1. TypeOK /\ "touch" \in Stages /\ "refused" \in Stages
  BY DEF Sound, Stages
<1>2. CASE line[req[r].op.item].qty > 0
  BY <1>1, <1>2, Goes DEF WriteUpdate
<1>3. CASE ~(line[req[r].op.item].qty > 0)
  BY <1>1, <1>3, Goes DEF WriteUpdate
<1> QED
  BY <1>2, <1>3

(* The deletion of a line.                                                  *)
LEMMA RemoveLineMoves ==
    ASSUME Sound, NEW r \in Requests, RemoveLine(r)
    PROVE  Becomes(r, "touch", req[r].cart, req[r].next, req[r].view)
BY Goes DEF RemoveLine, Sound, Stages

(* The update of expiresAt.                                                 *)
LEMMA TouchMoves ==
    ASSUME Sound, NEW r \in Requests, Touch(r)
    PROVE  Becomes(r, "view", req[r].cart, req[r].next, req[r].view)
BY Goes DEF Touch, Sound, Stages

(* The view that the request answers with.                                  *)
LEMMA ReadViewMoves ==
    ASSUME Sound, NEW r \in Requests, ReadView(r)
    PROVE  Becomes(r, "price", req[r].cart, req[r].next, Contents(req[r].cart))
<1>1. TypeOK /\ LinesAreReal /\ "price" \in Stages
  BY DEF Sound, Stages
<1>2. Contents(req[r].cart) \in Views
  BY <1>1, ViewType
<1> QED
  BY <1>1, <1>2, Sees DEF ReadView

(* The prices of its lines; those without one are left out.                 *)
LEMMA PriceViewMoves ==
    ASSUME Sound, NEW r \in Requests, PriceView(r)
    PROVE  Becomes(r, "answered", req[r].cart, req[r].next, Priced(req[r].view))
<1>1. TypeOK /\ "answered" \in Stages
  BY DEF Sound, Stages
<1>2. Priced(req[r].view) \in Views
  BY <1>1 DEF TypeOK, RequestStates, Views, Priced
<1> QED
  BY <1>1, <1>2, Sees DEF PriceView

(* What a page asks for is one of the operations. *)
LEMMA AskedIsWhole ==
    ASSUME TypeOK, NEW r \in Requests, NEW op \in MayAsk(r)
    PROVE  /\ op \in Ops /\ op.kind # "none"
           /\ op.kind \in {"get", "add"} => op.item = None
           /\ op.kind = "add" => op.variant \in Variants
           /\ op.kind = "remove" => op.qty = 0
           /\ op.kind \in Changes => op.variant \in Variants /\ op.item \in Carts
           /\ op.kind \in Changes =>
                 \E l \in shown[PageOf[r]] : l.id = op.item /\ l.variant = op.variant
<1>1. CASE op = [NoOp EXCEPT !.kind = "get"]
  BY <1>1 DEF NoOp, Ops, Changes
<1>2. CASE op \in AddOps
  BY <1>2, CartAssumption DEF AddOps, Ops, Changes
<1>3. ASSUME NEW l \in shown[PageOf[r]], NEW k \in {"update", "remove"}, NEW q \in 0..MaxQty,
             k = "remove" => q = 0,
             op = [kind |-> k, variant |-> l.variant, item |-> l.id, qty |-> q]
      PROVE  op \in Ops /\ op.kind \in Changes /\ op.variant = l.variant /\ op.item = l.id
             /\ op.variant \in Variants /\ op.item \in Carts /\ (op.kind = "remove" => op.qty = 0)
  <2>1. l.id \in Carts /\ l.variant \in Variants
    BY CartAssumption DEF TypeOK, Views
  <2>2. q \in Nat
    BY CartAssumption
  <2> QED
    BY <1>3, <2>1, <2>2 DEF Ops, Changes
<1>4. CASE op \in LineOps(PageOf[r])
  <2>1. 0 \in 0..MaxQty
    BY CartAssumption
  <2>2. \E l \in shown[PageOf[r]], k \in {"update", "remove"}, q \in 0..MaxQty :
           /\ k = "remove" => q = 0
           /\ op = [kind |-> k, variant |-> l.variant, item |-> l.id, qty |-> q]
    BY <1>4, <2>1 DEF LineOps
  <2> QED
    BY <1>3, <2>2 DEF Changes
<1> QED
  BY <1>1, <1>2, <1>4 DEF MayAsk

(* A page asks for what its buttons offer.                                  *)
LEMMA SendMoves ==
    ASSUME Sound, NEW r \in Requests, Send(r)
    PROVE  /\ Others(r)
           /\ \E op \in MayAsk(r) : op \in Ops /\ req'[r] = Asked(op)
<1>1. TypeOK
  BY DEF Sound
<1>2. PICK op \in MayAsk(r) : req' = [req EXCEPT ![r] = Asked(op)]
  BY DEF Send
<1>4. op \in Ops
  BY <1>1, AskedIsWhole
<1>5. Asked(op) \in RequestStates
  <2>1. signedIn \in {Customer, Nobody} /\ cookie \in Carts \cup {None}
    BY <1>1 DEF TypeOK
  <2> QED
    BY <1>4, <2>1 DEF Asked, RequestStates, Stages, Views
<1> QED
  BY <1>1, <1>2, <1>4, <1>5, OneMoves DEF Others

(* Every step keeps the types. *)
LEMMA TypeStep ==
    ASSUME Sound, [Next]_vars
    PROVE  TypeOK'
<1>0. TypeOK /\ OpsAreWhole /\ CartsExist /\ LinesAreReal /\ Sound
  BY DEF Sound
<1> USE DEF tables, browser, TypeOK
<1>1. ASSUME NEW who \in {Customer, Nobody}, Identify(who)
      PROVE  TypeOK'
  <2> DEFINE now == Quantities(Contents(HandOf(who)))
  <2>1. now \in [Variants -> Nat]
    BY <1>0, ViewType, QuantitiesType
  <2> HIDE DEF now
  <2>2. basket' \in [Variants -> Nat]
    <3>1. basket' = basket \/ basket' = now
      BY <1>1 DEF Identify, now
    <3> QED
      BY <1>0, <2>1, <3>1
  <2> QED
    BY <1>0, <1>1, <2>2 DEF Identify
<1>4. ASSUME NEW v \in Variants, Switch(v)
      PROVE  TypeOK'
  BY <1>0, <1>4 DEF Switch
<1>2. ASSUME NEW r \in Requests, RequestStep(r)
      PROVE  TypeOK'
  <2>1. CASE FindCustomerCart(r)
    <3>1. req' \in [Requests -> RequestStates]
      BY <1>0, <2>1, CartAssumption, FindCustomerCartMoves DEF Becomes, Others
    <3>2. UNCHANGED <<tables, browser>>
      BY <2>1 DEF FindCustomerCart
    <3> QED
      BY <1>0, <3>1, <3>2
  <2>2. CASE FindGuestCart(r)
    <3>1. req' \in [Requests -> RequestStates]
      BY <1>0, <2>2, CartAssumption, FindGuestCartMoves DEF Becomes, Others
    <3>2. UNCHANGED <<tables, browser>>
      BY <2>2 DEF FindGuestCart
    <3> QED
      BY <1>0, <3>1, <3>2
  <2>3. CASE Adopt(r)
    <3>1. req' \in [Requests -> RequestStates]
      BY <1>0, <2>3, CartAssumption, AdoptMoves DEF Becomes, Others
    <3>2. owner' \in [Carts -> {Customer, Nobody, None}] /\ newer' \in [Carts -> SUBSET Carts]
      BY <1>0, <2>3, CartAssumption DEF Adopt, Touched, RequestStates, Carts, CartsExist
    <3> QED
      BY <1>0, <2>3, <3>1, <3>2 DEF Adopt
  <2>4. CASE Create(r)
    <3>1. req' \in [Requests -> RequestStates]
      BY <1>0, <2>4, CartAssumption, CreateMoves DEF Becomes, Others
    <3>2. /\ owner' \in [Carts -> {Customer, Nobody, None}]
          /\ newer' \in [Carts -> SUBSET Carts] /\ guestToken' \subseteq Carts
      BY <1>0, <2>4, CartAssumption DEF Create, Touched, RequestStates, Carts
    <3> QED
      BY <1>0, <2>4, <3>1, <3>2 DEF Create
  <2>5. CASE ReadForAdd(r)
    <3>1. req' \in [Requests -> RequestStates]
      BY <1>0, <2>5, CartAssumption, ReadForAddMoves DEF Becomes, Others
    <3>2. UNCHANGED <<tables, browser>>
      BY <2>5 DEF ReadForAdd
    <3> QED
      BY <1>0, <3>1, <3>2
  <2>6. CASE WriteAdd(r)
    <3>1. req' \in [Requests -> RequestStates]
      BY <1>0, <2>6, CartAssumption, WriteAddMoves DEF Becomes, Others
    <3>2. line' \in [Carts -> Lines]
      BY <1>0, <2>6, CartAssumption DEF WriteAdd, Lines, RequestStates, Ops, Carts,
         LineFor, LinesOf, OpsAreWhole
    <3> QED
      BY <1>0, <2>6, <3>1, <3>2 DEF WriteAdd
  <2>7. CASE ReadForUpdate(r)
    <3>1. req' \in [Requests -> RequestStates]
      BY <1>0, <2>7, CartAssumption, ReadForUpdateMoves DEF Becomes, Others
    <3>2. UNCHANGED <<tables, browser>>
      BY <2>7 DEF ReadForUpdate
    <3> QED
      BY <1>0, <3>1, <3>2
  <2>8. CASE WriteUpdate(r)
    <3>1. req' \in [Requests -> RequestStates]
      BY <1>0, <2>8, CartAssumption, WriteUpdateMoves DEF Becomes, Others
    <3>2. line' \in [Carts -> Lines]
      <4> DEFINE i == req[r].op.item
                 x == IF req[r].next = 0 THEN NoLine ELSE [line[i] EXCEPT !.qty = req[r].next]
      <4>1. i \in Carts /\ req[r].next \in Nat
        BY <1>0, <2>8 DEF WriteUpdate, OpsAreWhole, Changes, RequestStates
      <4>2. x \in Lines
        BY <1>0, <4>1 DEF Lines, NoLine
      <4>3. line' = [line EXCEPT ![i] = x] \/ line' = line
        BY <1>0, <2>8, <4>1 DEF WriteUpdate
      <4> QED
        BY <1>0, <4>1, <4>2, <4>3
    <3> QED
      BY <1>0, <2>8, <3>1, <3>2 DEF WriteUpdate
  <2>9. CASE RemoveLine(r)
    <3>1. req' \in [Requests -> RequestStates]
      BY <1>0, <2>9, CartAssumption, RemoveLineMoves DEF Becomes, Others
    <3>2. line' \in [Carts -> Lines]
      BY <1>0, <2>9, CartAssumption DEF RemoveLine, Lines, NoLine, RequestStates,
         LinesOf, OpsAreWhole
    <3> QED
      BY <1>0, <2>9, <3>1, <3>2 DEF RemoveLine
  <2>10. CASE Touch(r)
    <3>1. req' \in [Requests -> RequestStates]
      BY <1>0, <2>10, CartAssumption, TouchMoves DEF Becomes, Others
    <3>2. newer' \in [Carts -> SUBSET Carts]
      BY <1>0, <2>10, CartAssumption DEF Touch, Touched, RequestStates, CartsExist,
         Before, After
    <3> QED
      BY <1>0, <2>10, <3>1, <3>2 DEF Touch
  <2>11. CASE ReadView(r)
    <3>1. req' \in [Requests -> RequestStates]
      BY <1>0, <2>11, CartAssumption, ReadViewMoves DEF Becomes, Others
    <3>2. UNCHANGED <<tables, browser>>
      BY <2>11 DEF ReadView
    <3> QED
      BY <1>0, <3>1, <3>2
  <2>12. CASE Arrive(r)
    <3>1. req' \in [Requests -> RequestStates]
      BY <1>0, <2>12, CartAssumption, Ends DEF Becomes, Others, Arrive
    <3>2. cookie' \in Carts \cup {None}
      BY <1>0, <2>12 DEF Arrive, CookieOf
    <3>3. req[r].view \in Views /\ req[r].op \in Ops
      BY <1>0 DEF RequestStates
    <3>4. shown' \in [Pages -> Views]
      BY <1>0, <2>12, <3>3 DEF Arrive
    <3>5. BasketAfter(req[r].op) \in [Variants -> Nat]
      <4>1. req[r].op.qty \in Nat
        BY <3>3 DEF Ops
      <4>2. CASE req[r].op.kind = "add"
        <5>1. BasketAfter(req[r].op) = [basket EXCEPT ![req[r].op.variant] = @ + req[r].op.qty]
          BY <4>2 DEF BasketAfter
        <5> QED
          BY <1>0, <4>1, <4>2, <5>1 DEF OpsAreWhole
      <4>3. CASE req[r].op.kind \in Changes
        <5>1. BasketAfter(req[r].op) = [basket EXCEPT ![req[r].op.variant] = req[r].op.qty]
          BY <4>3 DEF BasketAfter, Changes
        <5> QED
          BY <1>0, <4>1, <4>3, <5>1 DEF OpsAreWhole
      <4>4. CASE req[r].op.kind \notin {"add"} \cup Changes
        BY <1>0, <4>4 DEF BasketAfter, Changes
      <4> QED
        BY <4>2, <4>3, <4>4
    <3>6. basket' \in [Variants -> Nat]
      BY <1>0, <2>12, <3>5 DEF Arrive
    <3>7. added' \subseteq Pages
      BY <1>0, <2>12, CartAssumption DEF Arrive, SayAdded
    <3> QED
      BY <1>0, <2>12, <3>1, <3>2, <3>4, <3>6, <3>7 DEF Arrive
  <2>13. CASE Fail(r)
    <3>1. req' \in [Requests -> RequestStates]
      BY <1>0, <2>13, CartAssumption, Ends DEF Becomes, Others, Fail
    <3>2. added' \subseteq Pages /\ disturbed' \in BOOLEAN
      BY <1>0, <2>13, CartAssumption DEF Fail, SayAdded
    <3> QED
      BY <1>0, <2>13, <3>1, <3>2 DEF Fail
  <2>14. CASE Send(r)
    <3>1. req' \in [Requests -> RequestStates]
      BY <1>0, <2>14, CartAssumption, SendMoves DEF Becomes, Others
    <3>2. disturbed' \in BOOLEAN
      BY <1>0, <2>14, CartAssumption DEF Send
    <3> QED
      BY <1>0, <2>14, <3>1, <3>2 DEF Send
  <2>15. CASE FindVariant(r)
    <3>1. req' \in [Requests -> RequestStates]
      BY <1>0, <2>15, FindVariantMoves DEF Becomes, Others
    <3>2. UNCHANGED <<tables, browser>>
      BY <2>15 DEF FindVariant
    <3> QED
      BY <1>0, <3>1, <3>2
  <2>16. CASE PriceView(r)
    <3>1. req' \in [Requests -> RequestStates]
      BY <1>0, <2>16, PriceViewMoves DEF Becomes, Others
    <3>2. UNCHANGED <<tables, browser>>
      BY <2>16 DEF PriceView
    <3> QED
      BY <1>0, <3>1, <3>2
  <2> QED
    BY <1>2, <2>1, <2>2, <2>3, <2>4, <2>5, <2>6, <2>7,
       <2>8, <2>9, <2>10, <2>11, <2>12, <2>13, <2>14, <2>15, <2>16 DEF RequestStep
<1>3. CASE UNCHANGED vars
  BY <1>0, <1>3 DEF vars
<1> QED
  BY <1>1, <1>2, <1>3, <1>4 DEF Next, SignIn, ExpireToken

(* A request on its way keeps what it was asked. *)
LEMMA StaysWhole ==
    ASSUME TypeOK, OpsAreWhole, NEW r \in Requests, UnderWay(r),
           NEW pc, NEW c, NEW n, NEW view, Becomes(r, pc, c, n, view),
           pc \notin {"idle", "over"},
           pc = "count" => req[r].op.kind = "add",
           pc = "write" => req[r].op.kind \in {"add", "update"}
    PROVE  OpsAreWhole'
BY DEF OpsAreWhole, UnderWay, Becomes, Others, Changes

(* Every step keeps operations whole: an addition has its item, a change    *)
(* its line, and a request that writes came to add or update.               *)
LEMMA OpsStep ==
    ASSUME Sound, [Next]_vars
    PROVE  OpsAreWhole'
<1>0. TypeOK /\ OpsAreWhole /\ CartsExist /\ LinesAreReal /\ Sound
  BY DEF Sound
<1> USE DEF tables, browser
<1>1. CASE SignIn \/ ExpireToken
  BY <1>0, <1>1 DEF SignIn, ExpireToken, Identify, OpsAreWhole, UnderWay, Changes
<1>5. ASSUME NEW v \in Variants, Switch(v)
      PROVE  OpsAreWhole'
  BY <1>0, <1>5 DEF Switch, OpsAreWhole, UnderWay, Changes
<1>2. ASSUME NEW r \in Requests, RequestStep(r)
      PROVE  OpsAreWhole'
  <2>1. CASE FindCustomerCart(r)
    <3>1. UnderWay(r) /\ "act" \notin {"idle", "over"}
      BY <2>1 DEF FindCustomerCart, UnderWay
    <3>2. PICK pc, cart, next, view :
             /\ pc \in {"guest", "create", "act", "price"}
             /\ Becomes(r, pc, cart, next, view)
      BY <1>0, <2>1, CartAssumption, FindCustomerCartMoves
    <3> QED
      BY <1>0, <3>1, <3>2, StaysWhole
  <2>2. CASE FindGuestCart(r)
    <3>1. UnderWay(r)
      BY <2>2 DEF FindGuestCart, UnderWay
    <3> QED
      BY <1>0, <2>2, <3>1, CartAssumption, FindGuestCartMoves,
         StaysWhole DEF FindGuestCart
  <2>3. CASE Adopt(r)
    <3>1. UnderWay(r) /\ "act" \notin {"idle", "over"}
      BY <2>3 DEF Adopt, UnderWay
    <3>2. PICK pc, cart, next, view :
             /\ pc \in {"guest", "create", "act", "price"}
             /\ Becomes(r, pc, cart, next, view)
      BY <1>0, <2>3, CartAssumption, AdoptMoves
    <3> QED
      BY <1>0, <3>1, <3>2, StaysWhole
  <2>4. CASE Create(r)
    <3>1. UnderWay(r) /\ "act" \notin {"idle", "over"}
      BY <2>4 DEF Create, UnderWay
    <3>2. PICK pc, cart, next, view :
             /\ pc \in {"guest", "create", "act", "price"}
             /\ Becomes(r, pc, cart, next, view)
      BY <1>0, <2>4, CartAssumption, CreateMoves
    <3> QED
      BY <1>0, <3>1, <3>2, StaysWhole
  <2>5. CASE ReadForAdd(r)
    <3>1. UnderWay(r)
      BY <2>5 DEF ReadForAdd, UnderWay
    <3> QED
      <4>1. req[r].op.kind = "add"
        BY <1>0, <2>5 DEF ReadForAdd, OpsAreWhole
      <4>2. PICK pc, n : pc \in {"write", "refused"} /\ Becomes(r, pc, req[r].cart, n, req[r].view)
        BY <1>0, <2>5, ReadForAddMoves
      <4> QED
        BY <1>0, <3>1, <4>1, <4>2, StaysWhole
  <2>6. CASE WriteAdd(r)
    <3>1. UnderWay(r)
      BY <2>6 DEF WriteAdd, UnderWay
    <3> QED
      BY <1>0, <2>6, <3>1, CartAssumption, WriteAddMoves, StaysWhole DEF WriteAdd
  <2>7. CASE ReadForUpdate(r)
    <3>1. UnderWay(r)
      BY <2>7 DEF ReadForUpdate, UnderWay
    <3> QED
      BY <1>0, <2>7, <3>1, CartAssumption, ReadForUpdateMoves,
         StaysWhole DEF ReadForUpdate
  <2>8. CASE WriteUpdate(r)
    <3>1. UnderWay(r)
      BY <2>8 DEF WriteUpdate, UnderWay
    <3> QED
      BY <1>0, <2>8, <3>1, CartAssumption, WriteUpdateMoves, StaysWhole DEF WriteUpdate
  <2>9. CASE RemoveLine(r)
    <3>1. UnderWay(r)
      BY <2>9 DEF RemoveLine, UnderWay
    <3> QED
      BY <1>0, <2>9, <3>1, CartAssumption, RemoveLineMoves, StaysWhole DEF RemoveLine
  <2>10. CASE Touch(r)
    <3>1. UnderWay(r)
      BY <2>10 DEF Touch, UnderWay
    <3> QED
      BY <1>0, <2>10, <3>1, CartAssumption, TouchMoves, StaysWhole DEF Touch
  <2>11. CASE ReadView(r)
    <3>1. UnderWay(r) /\ "act" \notin {"idle", "over"}
      BY <2>11 DEF ReadView, UnderWay
    <3>2. PICK pc, cart, next, view :
             /\ pc \in {"guest", "create", "act", "price"}
             /\ Becomes(r, pc, cart, next, view)
      BY <1>0, <2>11, CartAssumption, ReadViewMoves
    <3> QED
      BY <1>0, <3>1, <3>2, StaysWhole
  <2>12. CASE Arrive(r)
    BY <1>0, <2>12, CartAssumption, Ends DEF Arrive, Over, Resting, NoOp, OpsAreWhole,
       UnderWay, Others, Changes
  <2>13. CASE Fail(r)
    BY <1>0, <2>13, CartAssumption, Ends DEF Fail, Over, Resting, NoOp, OpsAreWhole,
       UnderWay, Others, Changes
  <2>14. CASE Send(r)
    <3>1. PICK op \in MayAsk(r) : req'[r] = Asked(op)
      BY <1>0, <2>14, CartAssumption, SendMoves
    <3>2. Others(r)
      BY <1>0, <2>14, CartAssumption, SendMoves
    <3>3. /\ op.kind # "none"
          /\ op.kind = "add" => op.variant \in Variants
          /\ op.kind = "remove" => op.qty = 0
          /\ op.kind \in Changes => op.variant \in Variants /\ op.item \in Carts
      BY <1>0, CartAssumption, AskedIsWhole
    <3>4. req'[r].op = op /\ req'[r].pc \in {"customer", "guest", "create"}
      BY <3>1 DEF Asked
    <3> QED
      BY <1>0, <3>2, <3>3, <3>4 DEF OpsAreWhole, UnderWay, Others
  <2>15. CASE FindVariant(r)
    <3>1. UnderWay(r)
      BY <2>15 DEF FindVariant, UnderWay
    <3> QED
      BY <1>0, <2>15, <3>1, FindVariantMoves, StaysWhole DEF FindVariant
  <2>16. CASE PriceView(r)
    <3>1. UnderWay(r)
      BY <2>16 DEF PriceView, UnderWay
    <3>2. PICK view : Becomes(r, "answered", req[r].cart, req[r].next, view)
      BY <1>0, <2>16, PriceViewMoves
    <3> QED
      BY <1>0, <3>1, <3>2, StaysWhole
  <2> QED
    BY <1>2, <2>1, <2>2, <2>3, <2>4, <2>5, <2>6, <2>7,
       <2>8, <2>9, <2>10, <2>11, <2>12, <2>13, <2>14, <2>15, <2>16 DEF RequestStep
<1>3. CASE UNCHANGED vars
  BY <1>0, <1>3 DEF vars, OpsAreWhole, UnderWay, Changes
<1> QED
  BY <1>1, <1>2, <1>3, <1>5 DEF Next

(* A cart that is touched is the latest of any it is among. *)
LEMMA TouchedIsLatest ==
    ASSUME TypeOK, CartsExist, NEW c \in Carts, newer' = Touched(c),
           Existing' \subseteq Existing \cup {c}
    PROVE  OneIsLatest'
<1> SUFFICES ASSUME NEW S \in SUBSET Existing', S # {}
             PROVE  \E d \in S : newer'[d] \cap S = {}
  BY DEF OneIsLatest
<1>1. CASE c \in S
  BY <1>1 DEF Touched
<1>2. CASE c \notin S
  <2>1. PICK d \in S : newer[d] \cap S = {}
    BY <1>2 DEF CartsExist, OneIsLatest
  <2>2. d \in Carts /\ newer'[d] \cap S = {}
    BY <1>2, <2>1 DEF Touched, Existing
  <2> QED
    BY <2>2
<1> QED
  BY <1>1, <1>2

(* A request that has its cart keeps it. *)
LEMMA CartsStay ==
    ASSUME TypeOK, CartsExist, NEW r \in Requests, req[r].pc \in Before \cup After,
           NEW pc \in Before \cup After, NEW n, NEW view, Becomes(r, pc, req[r].cart, n, view),
           UNCHANGED <<owner, guestToken, cookie>>, OneIsLatest'
    PROVE  CartsExist'
BY DEF CartsExist, Becomes, Others, Before, After

(* Every step keeps it that cookies and requests name carts that exist. *)
LEMMA CartsStep ==
    ASSUME Sound, [Next]_vars, TypeOK'
    PROVE  CartsExist'
<1>0. TypeOK /\ OpsAreWhole /\ CartsExist /\ LinesAreReal /\ Sound
  BY DEF Sound
<1> USE DEF tables, browser, CartsExist, Becomes, Others, TypeOK, Before, After,
            RequestStates, Stages, Carts, OwnCarts
<1>1. CASE SignIn \/ ExpireToken
  BY <1>0, <1>1 DEF SignIn, ExpireToken, Identify, OneIsLatest, Existing
<1>5. ASSUME NEW v \in Variants, Switch(v)
      PROVE  CartsExist'
  BY <1>0, <1>5 DEF Switch, OneIsLatest, Existing
<1>2. ASSUME NEW r \in Requests, RequestStep(r)
      PROVE  CartsExist'
  <2>1. CASE FindCustomerCart(r)
    <3>3. PICK pc, c :
             /\ pc \in {"act", "guest", "create"} /\ Becomes(r, pc, c, req[r].next, req[r].view)
             /\ pc = "act" => c \in Carts /\ owner[c] # None
             /\ pc = "guest" => req[r].token # None
      <4>1. req[r].who \in {Customer, Nobody} /\ None \notin {Customer, Nobody}
        BY <1>0, CartAssumption
      <4>2. \A c \in OwnCarts(req[r].who) : c \in Carts /\ owner[c] # None
        BY <4>1
      <4>3. CASE OwnCarts(req[r].who) # {}
        <5> DEFINE mine == Latest(OwnCarts(req[r].who))
        <5>1. mine \in OwnCarts(req[r].who) /\ Becomes(r, "act", mine, req[r].next, req[r].view)
          BY <1>0, <4>3, <2>1, CartAssumption, FindCustomerCartMoves
        <5>2. mine \in Carts /\ owner[mine] # None
          BY <4>2, <5>1
        <5> HIDE DEF mine
        <5> QED
          BY <5>1, <5>2
      <4>4. CASE OwnCarts(req[r].who) = {}
        BY <1>0, <4>4, <2>1, CartAssumption, FindCustomerCartMoves
      <4> QED
        BY <4>3, <4>4
    <3>1. OneIsLatest'
      BY <1>0, <2>1 DEF FindCustomerCart, CartsExist, OneIsLatest, Existing
    <3>2. UNCHANGED <<owner, guestToken, cookie>> /\ req[r].pc = "customer"
      BY <2>1 DEF FindCustomerCart
    <3> QED
      BY <1>0, <3>1, <3>2, <3>3
  <2>2. CASE FindGuestCart(r)
    <3>1. OneIsLatest'
      BY <1>0, <2>2 DEF FindGuestCart, CartsExist, OneIsLatest, Existing
    <3> QED
      BY <1>0, <2>2, <3>1, CartAssumption, FindGuestCartMoves DEF FindGuestCart
  <2>3. CASE Adopt(r)
    <3>1. OneIsLatest'
      <4>1. PICK c \in Carts : newer' = Touched(c) /\ Existing' \subseteq Existing \cup {c}
        BY <1>0, <2>3 DEF Adopt, TypeOK, CartsExist, Before, After, Carts, Existing,
           RequestStates
      <4> QED
        BY <1>0, <4>1, TouchedIsLatest
    <3>2. Becomes(r, "act", req[r].cart, req[r].next, req[r].view)
      BY <1>0, <2>3, CartAssumption, AdoptMoves
    <3>3. /\ owner' = [owner EXCEPT ![req[r].cart] = req[r].who] /\ cookie' = cookie
          /\ guestToken' \in {guestToken, guestToken \cup {req[r].cart}}
          /\ req[r].pc = "adopt" /\ req[r].who \in {Customer, Nobody}
          /\ req[r].cart \in Carts
      BY <1>0, <2>3 DEF Adopt
    <3>4. owner[req[r].cart] # None /\ req[r].who = Customer /\ guestToken' = guestToken
      BY <1>0, <2>3, <3>3 DEF Adopt
    <3>5. \A c \in Carts : owner'[c] # None <=> owner[c] # None
      BY <1>0, <3>3, <3>4, CartAssumption
    <3>6. cookie' \in guestToken' \cup {None} /\ \A c \in guestToken' : owner'[c] # None
      BY <1>0, <3>3, <3>4, <3>5
    <3>7. /\ req'[r].token = req[r].token /\ req'[r].who = req[r].who
          /\ req'[r].cart = req[r].cart /\ req'[r].pc = "act"
          /\ \A q \in Requests : q # r => req'[q] = req[q]
      BY <3>2
    <3> QED
      BY <1>0, <3>1, <3>3, <3>4, <3>5, <3>6, <3>7
  <2>4. CASE Create(r)
    <3>1. OneIsLatest'
      <4>1. PICK c \in Carts : newer' = Touched(c) /\ Existing' \subseteq Existing \cup {c}
        BY <1>0, <2>4 DEF Create, TypeOK, CartsExist, Before, After, Carts, Existing,
           RequestStates
      <4> QED
        BY <1>0, <4>1, TouchedIsLatest
    <3>2. Becomes(r, "act", r, req[r].next, req[r].view)
      BY <1>0, <2>4, CartAssumption, CreateMoves
    <3>3. /\ owner' = [owner EXCEPT ![r] = req[r].who] /\ cookie' = cookie
          /\ guestToken' \in {guestToken, guestToken \cup {r}}
          /\ req[r].pc = "create" /\ req[r].who \in {Customer, Nobody}
          /\ r \in Carts
      BY <1>0, <2>4 DEF Create
    <3> QED
      BY <1>0, <3>1, <3>2, <3>3, CartAssumption
  <2>5. CASE ReadForAdd(r)
    <3>1. UNCHANGED <<owner, guestToken, cookie>> /\ OneIsLatest' /\ req[r].pc \in Before \cup After
      BY <1>0, <2>5 DEF ReadForAdd, OneIsLatest, Existing
    <3>2. PICK pc, m, view : pc \in Before \cup After /\ Becomes(r, pc, req[r].cart, m, view)
      BY <1>0, <2>5, CartAssumption, ReadForAddMoves
    <3> QED
      BY <1>0, <3>1, <3>2, CartsStay
  <2>6. CASE WriteAdd(r)
    <3>1. UNCHANGED <<owner, guestToken, cookie>> /\ OneIsLatest' /\ req[r].pc \in Before \cup After
      BY <1>0, <2>6 DEF WriteAdd, OneIsLatest, Existing
    <3>2. PICK pc, m, view : pc \in Before \cup After /\ Becomes(r, pc, req[r].cart, m, view)
      BY <1>0, <2>6, CartAssumption, WriteAddMoves
    <3> QED
      BY <1>0, <3>1, <3>2, CartsStay
  <2>7. CASE ReadForUpdate(r)
    <3>1. UNCHANGED <<owner, guestToken, cookie>> /\ OneIsLatest' /\ req[r].pc \in Before \cup After
      BY <1>0, <2>7 DEF ReadForUpdate, OneIsLatest, Existing
    <3>2. PICK pc, m, view : pc \in Before \cup After /\ Becomes(r, pc, req[r].cart, m, view)
      BY <1>0, <2>7, CartAssumption, ReadForUpdateMoves
    <3> QED
      BY <1>0, <3>1, <3>2, CartsStay
  <2>8. CASE WriteUpdate(r)
    <3>1. UNCHANGED <<owner, guestToken, cookie>> /\ OneIsLatest' /\ req[r].pc \in Before \cup After
      BY <1>0, <2>8 DEF WriteUpdate, OneIsLatest, Existing
    <3>2. PICK pc, m, view : pc \in Before \cup After /\ Becomes(r, pc, req[r].cart, m, view)
      BY <1>0, <2>8, CartAssumption, WriteUpdateMoves
    <3> QED
      BY <1>0, <3>1, <3>2, CartsStay
  <2>9. CASE RemoveLine(r)
    <3>1. UNCHANGED <<owner, guestToken, cookie>> /\ OneIsLatest' /\ req[r].pc \in Before \cup After
      BY <1>0, <2>9 DEF RemoveLine, OneIsLatest, Existing
    <3>2. PICK pc, m, view : pc \in Before \cup After /\ Becomes(r, pc, req[r].cart, m, view)
      BY <1>0, <2>9, CartAssumption, RemoveLineMoves
    <3> QED
      BY <1>0, <3>1, <3>2, CartsStay
  <2>10. CASE Touch(r)
    <3>1. OneIsLatest'
      <4>1. PICK c \in Carts : newer' = Touched(c) /\ Existing' \subseteq Existing \cup {c}
        BY <1>0, <2>10 DEF Touch, TypeOK, CartsExist, Before, After, Carts, Existing,
           RequestStates
      <4> QED
        BY <1>0, <4>1, TouchedIsLatest
    <3>2. UNCHANGED <<owner, guestToken, cookie>> /\ req[r].pc \in Before \cup After
      BY <2>10 DEF Touch
    <3>3. PICK pc, m, view : pc \in Before \cup After /\ Becomes(r, pc, req[r].cart, m, view)
      BY <1>0, <2>10, TouchMoves
    <3> QED
      BY <1>0, <3>1, <3>2, <3>3, CartsStay
  <2>11. CASE ReadView(r)
    <3>1. UNCHANGED <<owner, guestToken, cookie>> /\ OneIsLatest' /\ req[r].pc \in Before \cup After
      BY <1>0, <2>11 DEF ReadView, OneIsLatest, Existing
    <3>2. PICK pc, m, view : pc \in Before \cup After /\ Becomes(r, pc, req[r].cart, m, view)
      BY <1>0, <2>11, CartAssumption, ReadViewMoves
    <3> QED
      BY <1>0, <3>1, <3>2, CartsStay
  <2>12. CASE Arrive(r)
    <3>1. OneIsLatest'
      BY <1>0, <2>12 DEF Arrive, CartsExist, OneIsLatest, Existing
    <3> QED
      BY <1>0, <2>12, <3>1, CartAssumption, Ends DEF Arrive, CookieOf, Over, Resting
  <2>13. CASE Fail(r)
    <3>1. OneIsLatest'
      BY <1>0, <2>13 DEF Fail, CartsExist, OneIsLatest, Existing
    <3> QED
      BY <1>0, <2>13, <3>1, CartAssumption, Ends DEF Fail, Over, Resting
  <2>14. CASE Send(r)
    <3>1. OneIsLatest'
      BY <1>0, <2>14 DEF Send, CartsExist, OneIsLatest, Existing
    <3> QED
      BY <1>0, <2>14, <3>1, CartAssumption, SendMoves DEF Send, Asked
  <2>15. CASE FindVariant(r)
    <3>1. UNCHANGED <<owner, guestToken, cookie>> /\ OneIsLatest' /\ req[r].pc \in Before \cup After
      BY <1>0, <2>15 DEF FindVariant, OneIsLatest, Existing
    <3>2. PICK pc, m, view : pc \in Before \cup After /\ Becomes(r, pc, req[r].cart, m, view)
      BY <1>0, <2>15, FindVariantMoves
    <3> QED
      BY <1>0, <3>1, <3>2, CartsStay
  <2>16. CASE PriceView(r)
    <3>1. UNCHANGED <<owner, guestToken, cookie>> /\ OneIsLatest' /\ req[r].pc \in Before \cup After
      BY <1>0, <2>16 DEF PriceView, OneIsLatest, Existing
    <3>2. PICK pc, m, view : pc \in Before \cup After /\ Becomes(r, pc, req[r].cart, m, view)
      BY <1>0, <2>16, PriceViewMoves
    <3> QED
      BY <1>0, <3>1, <3>2, CartsStay
  <2> QED
    BY <1>2, <2>1, <2>2, <2>3, <2>4, <2>5, <2>6, <2>7,
       <2>8, <2>9, <2>10, <2>11, <2>12, <2>13, <2>14, <2>15, <2>16 DEF RequestStep
<1>3. CASE UNCHANGED vars
  BY <1>0, <1>3 DEF vars, OneIsLatest, Existing
<1> QED
  BY <1>1, <1>2, <1>3, <1>5 DEF Next

(* Every step keeps it that what is about to be written was checked. *)
LEMMA CheckedStep ==
    ASSUME Sound, [Next]_vars
    PROVE  Checked'
<1>0. TypeOK /\ OpsAreWhole /\ CartsExist /\ LinesAreReal /\ Checked /\ QtyInRange /\ Sound
  BY DEF Sound
<1> USE DEF tables, browser, Checked, Becomes, Others, InRange
<1>1. CASE SignIn \/ ExpireToken
  BY <1>0, <1>1 DEF SignIn, ExpireToken, Identify
<1>5. ASSUME NEW v \in Variants, Switch(v)
      PROVE  Checked'
  BY <1>0, <1>5 DEF Switch
<1>2. ASSUME NEW r \in Requests, RequestStep(r)
      PROVE  Checked'
  <2>1. CASE FindCustomerCart(r)
    <3>1. Others(r) /\ req'[r].pc # "write"
      BY <1>0, <2>1, CartAssumption, FindCustomerCartMoves DEF Becomes, Others
    <3> QED
      BY <1>0, <3>1
  <2>2. CASE FindGuestCart(r)
    <3>1. Others(r) /\ req'[r].pc # "write"
      BY <1>0, <2>2, CartAssumption, FindGuestCartMoves DEF Becomes, Others
    <3> QED
      BY <1>0, <3>1
  <2>3. CASE Adopt(r)
    <3>1. Others(r) /\ req'[r].pc # "write"
      BY <1>0, <2>3, CartAssumption, AdoptMoves DEF Becomes, Others
    <3> QED
      BY <1>0, <3>1
  <2>4. CASE Create(r)
    <3>1. Others(r) /\ req'[r].pc # "write"
      BY <1>0, <2>4, CartAssumption, CreateMoves DEF Becomes, Others
    <3> QED
      BY <1>0, <3>1
  <2>5. CASE ReadForAdd(r)
    BY <1>0, <2>5, CartAssumption, ReadForAddMoves
  <2>6. CASE WriteAdd(r)
    <3>1. Others(r) /\ req'[r].pc # "write"
      BY <1>0, <2>6, CartAssumption, WriteAddMoves DEF Becomes, Others
    <3> QED
      BY <1>0, <3>1
  <2>7. CASE ReadForUpdate(r)
    <3>1. \/ req'[r].pc = "refused"
          \/ /\ req'[r].op = req[r].op /\ req'[r].next = req[r].op.qty /\ req[r].op.kind = "update"
             /\ req[r].op.qty = 0 \/ InRange(req[r].op.variant, req[r].op.qty)
      BY <1>0, <2>7, CartAssumption, ReadForUpdateMoves DEF ReadForUpdate
    <3>2. Others(r)
      BY <1>0, <2>7, CartAssumption, ReadForUpdateMoves
    <3> QED
      BY <1>0, <3>1, <3>2
  <2>8. CASE WriteUpdate(r)
    <3>1. Others(r) /\ req'[r].pc # "write"
      BY <1>0, <2>8, CartAssumption, WriteUpdateMoves DEF Becomes, Others
    <3> QED
      BY <1>0, <3>1
  <2>9. CASE RemoveLine(r)
    <3>1. Others(r) /\ req'[r].pc # "write"
      BY <1>0, <2>9, CartAssumption, RemoveLineMoves DEF Becomes, Others
    <3> QED
      BY <1>0, <3>1
  <2>10. CASE Touch(r)
    <3>1. Others(r) /\ req'[r].pc # "write"
      BY <1>0, <2>10, CartAssumption, TouchMoves DEF Becomes, Others
    <3> QED
      BY <1>0, <3>1
  <2>11. CASE ReadView(r)
    <3>1. Others(r) /\ req'[r].pc # "write"
      BY <1>0, <2>11, CartAssumption, ReadViewMoves DEF Becomes, Others
    <3> QED
      BY <1>0, <3>1
  <2>12. CASE Arrive(r)
    <3>1. Others(r) /\ req'[r].pc # "write"
      BY <1>0, <2>12, CartAssumption, Ends DEF Others, Arrive, Over, Resting
    <3> QED
      BY <1>0, <3>1
  <2>13. CASE Fail(r)
    <3>1. Others(r) /\ req'[r].pc # "write"
      BY <1>0, <2>13, CartAssumption, Ends DEF Others, Fail, Over, Resting
    <3> QED
      BY <1>0, <3>1
  <2>14. CASE Send(r)
    <3>1. PICK op \in MayAsk(r) : req'[r] = Asked(op)
      BY <1>0, <2>14, CartAssumption, SendMoves
    <3>2. Others(r)
      BY <1>0, <2>14, CartAssumption, SendMoves
    <3>3. req'[r].pc # "write"
      BY <3>1 DEF Asked
    <3> QED
      BY <1>0, <3>2, <3>3
  <2>15. CASE FindVariant(r)
    <3>1. Others(r) /\ req'[r].pc # "write"
      BY <1>0, <2>15, FindVariantMoves DEF Becomes, Others
    <3> QED
      BY <1>0, <3>1
  <2>16. CASE PriceView(r)
    <3>1. Others(r) /\ req'[r].pc # "write"
      BY <1>0, <2>16, PriceViewMoves DEF Becomes, Others
    <3> QED
      BY <1>0, <3>1
  <2> QED
    BY <1>2, <2>1, <2>2, <2>3, <2>4, <2>5, <2>6, <2>7,
       <2>8, <2>9, <2>10, <2>11, <2>12, <2>13, <2>14, <2>15, <2>16 DEF RequestStep
<1>3. CASE UNCHANGED vars
  BY <1>0, <1>3 DEF vars
<1> QED
  BY <1>1, <1>2, <1>3, <1>5 DEF Next

(* Every step keeps the limits, as what is written was checked. *)
LEMMA RangeStep ==
    ASSUME Sound, [Next]_vars
    PROVE  QtyInRange'
<1>0. TypeOK /\ OpsAreWhole /\ CartsExist /\ LinesAreReal /\ Checked /\ QtyInRange /\ Sound
  BY DEF Sound
<1> USE DEF tables, browser
<1>1. CASE SignIn \/ ExpireToken
  BY <1>0, <1>1 DEF SignIn, ExpireToken, Identify, QtyInRange, InRange
<1>5. ASSUME NEW v \in Variants, Switch(v)
      PROVE  QtyInRange'
  BY <1>0, <1>5 DEF Switch, QtyInRange, InRange
<1>2. ASSUME NEW r \in Requests, RequestStep(r)
      PROVE  QtyInRange'
  <2>1. CASE FindCustomerCart(r)
    BY <1>0, <2>1 DEF FindCustomerCart, QtyInRange, InRange
  <2>2. CASE FindGuestCart(r)
    BY <1>0, <2>2 DEF FindGuestCart, QtyInRange, InRange
  <2>3. CASE Adopt(r)
    BY <1>0, <2>3 DEF Adopt, QtyInRange, InRange
  <2>4. CASE Create(r)
    BY <1>0, <2>4 DEF Create, QtyInRange, InRange
  <2>5. CASE ReadForAdd(r)
    BY <1>0, <2>5 DEF ReadForAdd, QtyInRange, InRange
  <2>6. CASE WriteAdd(r)
    <3> DEFINE c == req[r].cart
               v == req[r].op.variant
               i == IF LineFor(c, v) = {} THEN r ELSE CHOOSE j \in LineFor(c, v) : TRUE
    <3>1. InRange(v, req[r].next)
      BY <1>0, <2>6 DEF WriteAdd, Checked
    <3>2. line' = [line EXCEPT ![i] = [cart |-> c, variant |-> v, qty |-> req[r].next]]
      BY <2>6 DEF WriteAdd
    <3> HIDE DEF c, v, i
    <3> QED
      BY <1>0, <3>1, <3>2 DEF QtyInRange, TypeOK
  <2>7. CASE ReadForUpdate(r)
    BY <1>0, <2>7 DEF ReadForUpdate, QtyInRange, InRange
  <2>8. CASE WriteUpdate(r)
    <3> DEFINE i == req[r].op.item
    <3>1. i \in Carts /\ line[i] \in Lines /\ req[r].next \in Nat
      BY <1>0, <2>8 DEF WriteUpdate, OpsAreWhole, Changes, TypeOK, RequestStates
    <3>2. line[i].qty > 0 => line[i].variant = req[r].op.variant
      BY <1>0, <2>8 DEF WriteUpdate, LinesAreReal, Is, Changes
    <3>3. req[r].next # 0 => InRange(req[r].op.variant, req[r].next)
      BY <1>0, <2>8 DEF WriteUpdate, Checked
    <3>4. \/ line' = line
          \/ /\ line[i].qty > 0
             /\ line' = [line EXCEPT ![i] = IF req[r].next = 0 THEN NoLine
                                            ELSE [line[i] EXCEPT !.qty = req[r].next]]
      BY <1>0, <2>8, <3>1 DEF WriteUpdate, TypeOK
    <3> HIDE DEF i
    <3>5. \A j \in Carts : j # i => line'[j] = line[j]
      BY <1>0, <3>4 DEF TypeOK
    <3>6. line'[i].qty > 0 => InRange(line'[i].variant, line'[i].qty)
      <4>1. CASE line' = line
        BY <1>0, <3>1, <4>1 DEF QtyInRange
      <4>2. CASE line' # line /\ req[r].next = 0
        BY <1>0, <3>1, <3>4, <4>2 DEF TypeOK, NoLine
      <4>3. CASE line' # line /\ req[r].next # 0
        <5>1. line'[i] = [line[i] EXCEPT !.qty = req[r].next]
          BY <1>0, <3>1, <3>4, <4>3 DEF TypeOK
        <5> QED
          BY <3>1, <3>2, <3>3, <3>4, <4>3, <5>1 DEF Lines
      <4> QED
        BY <4>1, <4>2, <4>3
    <3> QED
      BY <1>0, <3>1, <3>5, <3>6 DEF QtyInRange
  <2>9. CASE RemoveLine(r)
    <3>1. line' \in {line, [line EXCEPT ![req[r].op.item] = NoLine]}
      BY <2>9 DEF RemoveLine
    <3> QED
      BY <1>0, <3>1 DEF QtyInRange, TypeOK, NoLine
  <2>10. CASE Touch(r)
    BY <1>0, <2>10 DEF Touch, QtyInRange, InRange
  <2>11. CASE ReadView(r)
    BY <1>0, <2>11 DEF ReadView, QtyInRange, InRange
  <2>12. CASE Arrive(r)
    BY <1>0, <2>12 DEF Arrive, QtyInRange, InRange
  <2>13. CASE Fail(r)
    BY <1>0, <2>13 DEF Fail, QtyInRange, InRange
  <2>14. CASE Send(r)
    BY <1>0, <2>14 DEF Send, QtyInRange, InRange
  <2>15. CASE FindVariant(r)
    BY <1>0, <2>15 DEF FindVariant, QtyInRange, InRange
  <2>16. CASE PriceView(r)
    BY <1>0, <2>16 DEF PriceView, QtyInRange, InRange
  <2> QED
    BY <1>2, <2>1, <2>2, <2>3, <2>4, <2>5, <2>6, <2>7,
       <2>8, <2>9, <2>10, <2>11, <2>12, <2>13, <2>14, <2>15, <2>16 DEF RequestStep
<1>3. CASE UNCHANGED vars
  BY <1>0, <1>3 DEF vars, QtyInRange, InRange
<1> QED
  BY <1>1, <1>2, <1>3, <1>5 DEF Next

(* What has been written stays written. *)
LEMMA WrittenStays ==
    ASSUME Sound, [Next]_vars
    PROVE  \A i \in Carts : Written(i) => Written(i)'
<1>0. TypeOK /\ OpsAreWhole /\ CartsExist /\ LinesAreReal /\ Sound
  BY DEF Sound
<1> USE DEF tables, browser, Written, After, Carts
<1>1. CASE SignIn \/ ExpireToken
  BY <1>0, <1>1 DEF SignIn, ExpireToken, Identify
<1>5. ASSUME NEW v \in Variants, Switch(v)
      PROVE  \A i \in Carts : Written(i) => Written(i)'
  BY <1>0, <1>5 DEF Switch
<1>2. ASSUME NEW r \in Requests, RequestStep(r)
      PROVE  \A i \in Carts : Written(i) => Written(i)'
  <2>1. CASE FindCustomerCart(r)
    <3>1. PICK pc, c, m, view :
             /\ pc \in Stages /\ Becomes(r, pc, c, m, view)
             /\ req[r].pc \notin After \cup {"over"}
      BY <1>0, <2>1, CartAssumption, FindCustomerCartMoves DEF FindCustomerCart, Stages
    <3> QED
      BY <1>0, <3>1 DEF Becomes, Others
  <2>2. CASE FindGuestCart(r)
    <3>1. PICK pc, c, m, view :
             /\ pc \in Stages /\ Becomes(r, pc, c, m, view)
             /\ req[r].pc \notin After \cup {"over"}
      BY <1>0, <2>2, CartAssumption, FindGuestCartMoves DEF FindGuestCart, Stages
    <3> QED
      BY <1>0, <3>1 DEF Becomes, Others
  <2>3. CASE Adopt(r)
    <3>1. PICK pc, c, m, view :
             /\ pc \in Stages /\ Becomes(r, pc, c, m, view)
             /\ req[r].pc \notin After \cup {"over"}
      BY <1>0, <2>3, CartAssumption, AdoptMoves DEF Adopt, Stages
    <3> QED
      BY <1>0, <3>1 DEF Becomes, Others
  <2>4. CASE Create(r)
    <3>1. PICK pc, c, m, view :
             /\ pc \in Stages /\ Becomes(r, pc, c, m, view)
             /\ req[r].pc \notin After \cup {"over"}
      BY <1>0, <2>4, CartAssumption, CreateMoves DEF Create, Stages
    <3> QED
      BY <1>0, <3>1 DEF Becomes, Others
  <2>5. CASE ReadForAdd(r)
    <3>1. PICK pc, c, m, view :
             /\ pc \in Stages /\ Becomes(r, pc, c, m, view)
             /\ req[r].pc \notin After \cup {"over"}
      BY <1>0, <2>5, CartAssumption, ReadForAddMoves DEF ReadForAdd, Stages
    <3> QED
      BY <1>0, <3>1 DEF Becomes, Others
  <2>6. CASE WriteAdd(r)
    <3>1. PICK pc, c, m, view :
             /\ pc \in Stages /\ Becomes(r, pc, c, m, view)
             /\ req[r].pc \notin After \cup {"over"}
      BY <1>0, <2>6, CartAssumption, WriteAddMoves DEF WriteAdd, Stages
    <3> QED
      BY <1>0, <3>1 DEF Becomes, Others
  <2>7. CASE ReadForUpdate(r)
    <3>1. PICK pc, c, m, view :
             /\ pc \in Stages /\ Becomes(r, pc, c, m, view)
             /\ req[r].pc \notin After \cup {"over"}
      BY <1>0, <2>7, CartAssumption, ReadForUpdateMoves DEF ReadForUpdate, Stages
    <3> QED
      BY <1>0, <3>1 DEF Becomes, Others
  <2>8. CASE WriteUpdate(r)
    <3>1. PICK pc, c, m, view :
             /\ pc \in Stages /\ Becomes(r, pc, c, m, view)
             /\ req[r].pc \notin After \cup {"over"}
      BY <1>0, <2>8, CartAssumption, WriteUpdateMoves DEF WriteUpdate, Stages
    <3> QED
      BY <1>0, <3>1 DEF Becomes, Others
  <2>9. CASE RemoveLine(r)
    <3>1. PICK pc, c, m, view :
             /\ pc \in Stages /\ Becomes(r, pc, c, m, view)
             /\ req[r].pc \notin After \cup {"over"}
      BY <1>0, <2>9, CartAssumption, RemoveLineMoves DEF RemoveLine, Stages
    <3> QED
      BY <1>0, <3>1 DEF Becomes, Others
  <2>10. CASE Touch(r)
    BY <1>0, <2>10, CartAssumption, TouchMoves DEF Touch, Becomes, Others
  <2>11. CASE ReadView(r)
    BY <1>0, <2>11, CartAssumption, ReadViewMoves DEF ReadView, Becomes, Others
  <2>12. CASE Arrive(r)
    BY <1>0, <2>12, CartAssumption, Ends DEF Arrive, Over, Resting, Others
  <2>13. CASE Fail(r)
    BY <1>0, <2>13, CartAssumption, Ends DEF Fail, Over, Resting, Others
  <2>14. CASE Send(r)
    BY <1>0, <2>14, CartAssumption, SendMoves DEF Send, Others
  <2>15. CASE FindVariant(r)
    <3>1. PICK pc, c, m, view :
             /\ pc \in Stages /\ Becomes(r, pc, c, m, view)
             /\ req[r].pc \notin After \cup {"over"}
      BY <1>0, <2>15, FindVariantMoves DEF FindVariant, Stages
    <3> QED
      BY <1>0, <3>1 DEF Becomes, Others
  <2>16. CASE PriceView(r)
    BY <1>0, <2>16, PriceViewMoves DEF PriceView, Becomes, Others
  <2> QED
    BY <1>2, <2>1, <2>2, <2>3, <2>4, <2>5, <2>6, <2>7,
       <2>8, <2>9, <2>10, <2>11, <2>12, <2>13, <2>14, <2>15, <2>16 DEF RequestStep
<1>3. CASE UNCHANGED vars
  BY <1>0, <1>3 DEF vars
<1> QED
  BY <1>1, <1>2, <1>3, <1>5 DEF Next

(* Lines are as real as they were if none is new and none is moved, and what *)
(* is remembered of lines was known or seen.                                 *)
LEMMA RealStays ==
    ASSUME TypeOK, TypeOK', LinesAreReal,
           \A c \in Carts : owner[c] # None => owner'[c] # None,
           \A i \in Carts : Written(i) => Written(i)',
           \A i \in Carts : line'[i].qty > 0 =>
               /\ line[i].qty > 0
               /\ line'[i].cart = line[i].cart /\ line'[i].variant = line[i].variant,
           \A p \in Pages : \A l \in shown'[p] : Is(l.id, l.variant),
           \A r \in Requests : \A l \in req'[r].view : Is(l.id, l.variant),
           \A r \in Requests : req'[r].op.kind \in Changes =>
               req'[r].op.item \in Carts /\ Is(req'[r].op.item, req'[r].op.variant)
    PROVE  LinesAreReal'
<1>1. \A i \in Carts : \A v : Is(i, v) => Is(i, v)'
  BY DEF Is
<1>2. \A p \in Pages : \A l \in shown'[p] : Is(l.id, l.variant)'
  <2>1. \A p \in Pages : \A l \in shown'[p] : l.id \in Carts
    BY DEF TypeOK, Views
  <2> QED
    BY <1>1, <2>1
<1>3. \A r \in Requests : \A l \in req'[r].view : Is(l.id, l.variant)'
  <2>1. \A r \in Requests : \A l \in req'[r].view : l.id \in Carts
    BY DEF TypeOK, Views, RequestStates
  <2> QED
    BY <1>1, <2>1
<1>4. \A r \in Requests : (req[r].op.kind \in Changes => Is(req[r].op.item, req[r].op.variant))'
  <2> SUFFICES ASSUME NEW r \in Requests, req'[r].op.kind \in Changes
               PROVE  Is(req[r].op.item, req[r].op.variant)'
    OBVIOUS
  <2>1. PICK i, v : i \in Carts /\ req'[r].op.item = i /\ req'[r].op.variant = v /\ Is(i, v)
    OBVIOUS
  <2> QED
    BY <2>1 DEF Is, Written
<1>5. \A i \in Carts : line'[i].qty > 0 =>
          /\ line'[i].cart \in Carts /\ owner'[line'[i].cart] # None
          /\ line'[i].variant \in Variants
          /\ Written(i)'
  BY DEF LinesAreReal
<1>6. \A i, j \in Carts :
          /\ line'[i].qty > 0 /\ line'[j].qty > 0
          /\ line'[i].cart = line'[j].cart /\ line'[i].variant = line'[j].variant
          => i = j
  BY DEF LinesAreReal
<1> QED
  BY <1>2, <1>3, <1>4, <1>5, <1>6 DEF LinesAreReal

(* Every step keeps lines real: WriteAdd makes one only where its cart has  *)
(* none of the item, and under an id nobody remembers.                      *)
LEMMA LinesStep ==
    ASSUME Sound, [Next]_vars, TypeOK', CartsExist'
    PROVE  LinesAreReal'
<1>0. TypeOK /\ OpsAreWhole /\ CartsExist /\ LinesAreReal /\ Sound
  BY DEF Sound
<1>4. \A i \in Carts : Written(i) => Written(i)'
  BY WrittenStays
<1> USE DEF tables, browser
<1>1. CASE SignIn \/ ExpireToken
  BY <1>0, <1>4, RealStays, <1>1 DEF SignIn, ExpireToken, Identify, LinesAreReal, OpsAreWhole
<1>5. ASSUME NEW v \in Variants, Switch(v)
      PROVE  LinesAreReal'
  BY <1>0, <1>4, RealStays, <1>5 DEF Switch, LinesAreReal, OpsAreWhole
<1>2. ASSUME NEW r \in Requests, RequestStep(r)
      PROVE  LinesAreReal'
  <2>1. CASE FindCustomerCart(r)
    <3>1. \A c \in Carts : owner[c] # None => owner'[c] # None
      BY <2>1 DEF FindCustomerCart
    <3>2. \A i \in Carts : line'[i].qty > 0 =>
               /\ line[i].qty > 0
               /\ line'[i].cart = line[i].cart /\ line'[i].variant = line[i].variant
      BY <2>1 DEF FindCustomerCart
    <3>3. \A p \in Pages : \A l \in shown'[p] : Is(l.id, l.variant)
      BY <1>0, <2>1 DEF FindCustomerCart, LinesAreReal
    <3>4. \A q \in Requests : \A l \in req'[q].view : Is(l.id, l.variant)
      BY <1>0, <2>1, CartAssumption, FindCustomerCartMoves DEF Becomes, Others,
         LinesAreReal
    <3>5. \A q \in Requests : req'[q].op.kind \in Changes =>
               req'[q].op.item \in Carts /\ Is(req'[q].op.item, req'[q].op.variant)
      BY <1>0, <2>1, CartAssumption, FindCustomerCartMoves DEF Becomes, Others,
         LinesAreReal, OpsAreWhole
    <3> QED
      BY <1>0, <1>4, <3>1, <3>2, <3>3, <3>4, <3>5, RealStays
  <2>2. CASE FindGuestCart(r)
    <3>1. \A c \in Carts : owner[c] # None => owner'[c] # None
      BY <2>2 DEF FindGuestCart
    <3>2. \A i \in Carts : line'[i].qty > 0 =>
               /\ line[i].qty > 0
               /\ line'[i].cart = line[i].cart /\ line'[i].variant = line[i].variant
      BY <2>2 DEF FindGuestCart
    <3>3. \A p \in Pages : \A l \in shown'[p] : Is(l.id, l.variant)
      BY <1>0, <2>2 DEF FindGuestCart, LinesAreReal
    <3>4. \A q \in Requests : \A l \in req'[q].view : Is(l.id, l.variant)
      BY <1>0, <2>2, CartAssumption, FindGuestCartMoves DEF Becomes, Others,
         LinesAreReal
    <3>5. \A q \in Requests : req'[q].op.kind \in Changes =>
               req'[q].op.item \in Carts /\ Is(req'[q].op.item, req'[q].op.variant)
      BY <1>0, <2>2, CartAssumption, FindGuestCartMoves DEF Becomes, Others,
         LinesAreReal, OpsAreWhole
    <3> QED
      BY <1>0, <1>4, <3>1, <3>2, <3>3, <3>4, <3>5, RealStays
  <2>3. CASE Adopt(r)
    <3>1. \A c \in Carts : owner[c] # None => owner'[c] # None
      BY <1>0, <2>3, CartAssumption DEF Adopt, TypeOK, RequestStates, CartsExist
    <3>2. \A i \in Carts : line'[i].qty > 0 =>
               /\ line[i].qty > 0
               /\ line'[i].cart = line[i].cart /\ line'[i].variant = line[i].variant
      BY <2>3 DEF Adopt
    <3>3. \A p \in Pages : \A l \in shown'[p] : Is(l.id, l.variant)
      BY <1>0, <2>3 DEF Adopt, LinesAreReal
    <3>4. \A q \in Requests : \A l \in req'[q].view : Is(l.id, l.variant)
      BY <1>0, <2>3, CartAssumption, AdoptMoves DEF Becomes, Others, LinesAreReal
    <3>5. \A q \in Requests : req'[q].op.kind \in Changes =>
               req'[q].op.item \in Carts /\ Is(req'[q].op.item, req'[q].op.variant)
      BY <1>0, <2>3, CartAssumption, AdoptMoves DEF Becomes, Others, LinesAreReal,
         OpsAreWhole
    <3> QED
      BY <1>0, <1>4, <3>1, <3>2, <3>3, <3>4, <3>5, RealStays
  <2>4. CASE Create(r)
    <3>1. \A c \in Carts : owner[c] # None => owner'[c] # None
      BY <1>0, <2>4, CartAssumption DEF Create, TypeOK, RequestStates, CartsExist
    <3>2. \A i \in Carts : line'[i].qty > 0 =>
               /\ line[i].qty > 0
               /\ line'[i].cart = line[i].cart /\ line'[i].variant = line[i].variant
      BY <2>4 DEF Create
    <3>3. \A p \in Pages : \A l \in shown'[p] : Is(l.id, l.variant)
      BY <1>0, <2>4 DEF Create, LinesAreReal
    <3>4. \A q \in Requests : \A l \in req'[q].view : Is(l.id, l.variant)
      BY <1>0, <2>4, CartAssumption, CreateMoves DEF Becomes, Others, LinesAreReal
    <3>5. \A q \in Requests : req'[q].op.kind \in Changes =>
               req'[q].op.item \in Carts /\ Is(req'[q].op.item, req'[q].op.variant)
      BY <1>0, <2>4, CartAssumption, CreateMoves DEF Becomes, Others, LinesAreReal,
         OpsAreWhole
    <3> QED
      BY <1>0, <1>4, <3>1, <3>2, <3>3, <3>4, <3>5, RealStays
  <2>5. CASE ReadForAdd(r)
    <3>1. \A c \in Carts : owner[c] # None => owner'[c] # None
      BY <2>5 DEF ReadForAdd
    <3>2. \A i \in Carts : line'[i].qty > 0 =>
               /\ line[i].qty > 0
               /\ line'[i].cart = line[i].cart /\ line'[i].variant = line[i].variant
      BY <2>5 DEF ReadForAdd
    <3>3. \A p \in Pages : \A l \in shown'[p] : Is(l.id, l.variant)
      BY <1>0, <2>5 DEF ReadForAdd, LinesAreReal
    <3>4. \A q \in Requests : \A l \in req'[q].view : Is(l.id, l.variant)
      BY <1>0, <2>5, CartAssumption, ReadForAddMoves DEF Becomes, Others, LinesAreReal
    <3>5. \A q \in Requests : req'[q].op.kind \in Changes =>
               req'[q].op.item \in Carts /\ Is(req'[q].op.item, req'[q].op.variant)
      BY <1>0, <2>5, CartAssumption, ReadForAddMoves DEF Becomes, Others,
         LinesAreReal, OpsAreWhole
    <3> QED
      BY <1>0, <1>4, <3>1, <3>2, <3>3, <3>4, <3>5, RealStays
  <2>6. CASE WriteAdd(r)
    <3>1. \A c \in Carts : owner[c] # None => owner'[c] # None
      BY <2>6 DEF WriteAdd
    <3>3. \A p \in Pages : \A l \in shown'[p] : Is(l.id, l.variant)
      BY <1>0, <2>6 DEF WriteAdd, LinesAreReal
    <3>4. \A q \in Requests : \A l \in req'[q].view : Is(l.id, l.variant)
      BY <1>0, <2>6, CartAssumption, WriteAddMoves DEF Becomes, Others, LinesAreReal
    <3>5. \A q \in Requests : req'[q].op.kind \in Changes =>
               req'[q].op.item \in Carts /\ Is(req'[q].op.item, req'[q].op.variant)
      BY <1>0, <2>6, CartAssumption, WriteAddMoves DEF Becomes, Others, LinesAreReal,
         OpsAreWhole
    <3> DEFINE c == req[r].cart
               v == req[r].op.variant
               i == IF LineFor(c, v) = {} THEN r ELSE CHOOSE j \in LineFor(c, v) : TRUE
               new == [cart |-> c, variant |-> v, qty |-> req[r].next]
    <3>6. line' = [line EXCEPT ![i] = new] /\ r \in Carts
      BY <2>6 DEF WriteAdd, Carts
    <3>7. c \in Carts /\ owner[c] # None /\ v \in Variants
      BY <1>0, <2>6 DEF WriteAdd, CartsExist, OpsAreWhole, Before
    <3>8. CASE LineFor(c, v) # {}
      <4>1. i \in Carts /\ line[i].qty > 0 /\ line[i].cart = c /\ line[i].variant = v
        BY <3>8 DEF LineFor, LinesOf
      <4> HIDE DEF i, c, v
      <4>2. \A j \in Carts : line'[j].qty > 0 =>
               /\ line[j].qty > 0
               /\ line'[j].cart = line[j].cart /\ line'[j].variant = line[j].variant
        BY <1>0, <3>6, <4>1 DEF TypeOK
      <4> QED
        BY <1>0, <1>4, <3>1, <3>3, <3>4, <3>5, <4>2, RealStays
    <3>9. CASE LineFor(c, v) = {}
      <4>1. line' = [line EXCEPT ![r] = new]
        BY <3>6, <3>9
      <4>2. ~Written(r) /\ ~(line[r].qty > 0)
        BY <1>0, <2>6 DEF WriteAdd, Written, After, LinesAreReal, Carts
      <4>3. Written(r)' /\ UNCHANGED owner
        BY <1>0, <2>6, WriteAddMoves DEF WriteAdd, Written, After, Becomes
      <4>4. \A j \in Carts : j # r => line'[j] = line[j]
        BY <1>0, <4>1 DEF TypeOK
      <4>5. line'[r].cart = c /\ line'[r].variant = v
        BY <1>0, <3>6, <4>1 DEF TypeOK
      <4>6. \A j \in Carts : ~(line[j].qty > 0 /\ line[j].cart = c /\ line[j].variant = v)
        BY <3>9 DEF LineFor, LinesOf
      <4> HIDE DEF i, c, v, new
      <4>7. \A j \in Carts : \A w : Is(j, w) => Is(j, w)'
        BY <1>4, <4>2, <4>4 DEF Is
      <4>8. \A j \in Carts : line'[j].qty > 0 =>
               /\ line'[j].cart \in Carts /\ owner'[line'[j].cart] # None
               /\ line'[j].variant \in Variants
               /\ Written(j)'
        BY <1>0, <1>4, <3>7, <4>3, <4>4, <4>5 DEF LinesAreReal
      <4>9. \A j, k \in Carts :
               /\ line'[j].qty > 0 /\ line'[k].qty > 0
               /\ line'[j].cart = line'[k].cart /\ line'[j].variant = line'[k].variant
               => j = k
        BY <1>0, <4>4, <4>5, <4>6 DEF LinesAreReal
      <4>10. \A p \in Pages : \A l \in shown'[p] : Is(l.id, l.variant)'
        <5>1. \A p \in Pages : \A l \in shown'[p] : l.id \in Carts
          BY DEF TypeOK, Views
        <5> QED
          BY <3>3, <4>7, <5>1
      <4>11. \A q \in Requests : \A l \in req'[q].view : Is(l.id, l.variant)'
        <5>1. \A q \in Requests : \A l \in req'[q].view : l.id \in Carts
          BY DEF TypeOK, Views, RequestStates
        <5> QED
          BY <3>4, <4>7, <5>1
      <4>12. \A q \in Requests :
                (req[q].op.kind \in Changes => Is(req[q].op.item, req[q].op.variant))'
        <5> SUFFICES ASSUME NEW q \in Requests, req'[q].op.kind \in Changes
                     PROVE  Is(req[q].op.item, req[q].op.variant)'
          OBVIOUS
        <5>1. PICK j, w : j \in Carts /\ req'[q].op.item = j /\ req'[q].op.variant = w /\ Is(j, w)
          BY <3>5
        <5> QED
          BY <1>4, <4>2, <4>4, <5>1 DEF Is, Written
      <4> QED
        BY <4>8, <4>9, <4>10, <4>11, <4>12 DEF LinesAreReal
    <3> QED
      BY <3>8, <3>9
  <2>7. CASE ReadForUpdate(r)
    <3>1. \A c \in Carts : owner[c] # None => owner'[c] # None
      BY <2>7 DEF ReadForUpdate
    <3>2. \A i \in Carts : line'[i].qty > 0 =>
               /\ line[i].qty > 0
               /\ line'[i].cart = line[i].cart /\ line'[i].variant = line[i].variant
      BY <2>7 DEF ReadForUpdate
    <3>3. \A p \in Pages : \A l \in shown'[p] : Is(l.id, l.variant)
      BY <1>0, <2>7 DEF ReadForUpdate, LinesAreReal
    <3>4. \A q \in Requests : \A l \in req'[q].view : Is(l.id, l.variant)
      BY <1>0, <2>7, CartAssumption, ReadForUpdateMoves DEF Becomes, Others,
         LinesAreReal
    <3>5. \A q \in Requests : req'[q].op.kind \in Changes =>
               req'[q].op.item \in Carts /\ Is(req'[q].op.item, req'[q].op.variant)
      BY <1>0, <2>7, CartAssumption, ReadForUpdateMoves DEF Becomes, Others,
         LinesAreReal, OpsAreWhole
    <3> QED
      BY <1>0, <1>4, <3>1, <3>2, <3>3, <3>4, <3>5, RealStays
  <2>8. CASE WriteUpdate(r)
    <3>1. \A c \in Carts : owner[c] # None => owner'[c] # None
      BY <2>8 DEF WriteUpdate
    <3>2. \A i \in Carts : line'[i].qty > 0 =>
               /\ line[i].qty > 0
               /\ line'[i].cart = line[i].cart /\ line'[i].variant = line[i].variant
      <4> DEFINE i == req[r].op.item
      <4>1. i \in Carts /\ line[i] \in Lines
        BY <1>0, <2>8 DEF WriteUpdate, OpsAreWhole, Changes, TypeOK
      <4>2. \/ line' = line
            \/ line[i].qty > 0 /\ line' = [line EXCEPT ![i] = NoLine]
            \/ line[i].qty > 0 /\ line' = [line EXCEPT ![i] = [line[i] EXCEPT !.qty = req[r].next]]
        BY <1>0, <2>8, <4>1 DEF WriteUpdate, TypeOK
      <4> HIDE DEF i
      <4> QED
        BY <1>0, <4>1, <4>2 DEF TypeOK, NoLine, Lines
    <3>3. \A p \in Pages : \A l \in shown'[p] : Is(l.id, l.variant)
      BY <1>0, <2>8 DEF WriteUpdate, LinesAreReal
    <3>4. \A q \in Requests : \A l \in req'[q].view : Is(l.id, l.variant)
      BY <1>0, <2>8, CartAssumption, WriteUpdateMoves DEF Becomes, Others, LinesAreReal
    <3>5. \A q \in Requests : req'[q].op.kind \in Changes =>
               req'[q].op.item \in Carts /\ Is(req'[q].op.item, req'[q].op.variant)
      BY <1>0, <2>8, CartAssumption, WriteUpdateMoves DEF Becomes, Others,
         LinesAreReal, OpsAreWhole
    <3> QED
      BY <1>0, <1>4, <3>1, <3>2, <3>3, <3>4, <3>5, RealStays
  <2>9. CASE RemoveLine(r)
    <3>1. \A c \in Carts : owner[c] # None => owner'[c] # None
      BY <2>9 DEF RemoveLine
    <3>2. \A i \in Carts : line'[i].qty > 0 =>
               /\ line[i].qty > 0
               /\ line'[i].cart = line[i].cart /\ line'[i].variant = line[i].variant
      BY <1>0, <2>9 DEF RemoveLine, TypeOK, NoLine
    <3>3. \A p \in Pages : \A l \in shown'[p] : Is(l.id, l.variant)
      BY <1>0, <2>9 DEF RemoveLine, LinesAreReal
    <3>4. \A q \in Requests : \A l \in req'[q].view : Is(l.id, l.variant)
      BY <1>0, <2>9, CartAssumption, RemoveLineMoves DEF Becomes, Others, LinesAreReal
    <3>5. \A q \in Requests : req'[q].op.kind \in Changes =>
               req'[q].op.item \in Carts /\ Is(req'[q].op.item, req'[q].op.variant)
      BY <1>0, <2>9, CartAssumption, RemoveLineMoves DEF Becomes, Others,
         LinesAreReal, OpsAreWhole
    <3> QED
      BY <1>0, <1>4, <3>1, <3>2, <3>3, <3>4, <3>5, RealStays
  <2>10. CASE Touch(r)
    <3>1. \A c \in Carts : owner[c] # None => owner'[c] # None
      BY <2>10 DEF Touch
    <3>2. \A i \in Carts : line'[i].qty > 0 =>
               /\ line[i].qty > 0
               /\ line'[i].cart = line[i].cart /\ line'[i].variant = line[i].variant
      BY <2>10 DEF Touch
    <3>3. \A p \in Pages : \A l \in shown'[p] : Is(l.id, l.variant)
      BY <1>0, <2>10 DEF Touch, LinesAreReal
    <3>4. \A q \in Requests : \A l \in req'[q].view : Is(l.id, l.variant)
      BY <1>0, <2>10, CartAssumption, TouchMoves DEF Becomes, Others, LinesAreReal
    <3>5. \A q \in Requests : req'[q].op.kind \in Changes =>
               req'[q].op.item \in Carts /\ Is(req'[q].op.item, req'[q].op.variant)
      BY <1>0, <2>10, CartAssumption, TouchMoves DEF Becomes, Others, LinesAreReal,
         OpsAreWhole
    <3> QED
      BY <1>0, <1>4, <3>1, <3>2, <3>3, <3>4, <3>5, RealStays
  <2>11. CASE ReadView(r)
    <3>1. \A c \in Carts : owner[c] # None => owner'[c] # None
      BY <2>11 DEF ReadView
    <3>2. \A i \in Carts : line'[i].qty > 0 =>
               /\ line[i].qty > 0
               /\ line'[i].cart = line[i].cart /\ line'[i].variant = line[i].variant
      BY <2>11 DEF ReadView
    <3>3. \A p \in Pages : \A l \in shown'[p] : Is(l.id, l.variant)
      BY <1>0, <2>11 DEF ReadView, LinesAreReal
    <3>4. \A q \in Requests : \A l \in req'[q].view : Is(l.id, l.variant)
      BY <1>0, <2>11, CartAssumption, ReadViewMoves DEF Becomes, Others, LinesAreReal,
         Contents, LinesOf, Is
    <3>5. \A q \in Requests : req'[q].op.kind \in Changes =>
               req'[q].op.item \in Carts /\ Is(req'[q].op.item, req'[q].op.variant)
      BY <1>0, <2>11, CartAssumption, ReadViewMoves DEF Becomes, Others, LinesAreReal,
         OpsAreWhole
    <3> QED
      BY <1>0, <1>4, <3>1, <3>2, <3>3, <3>4, <3>5, RealStays
  <2>12. CASE Arrive(r)
    <3>1. \A c \in Carts : owner[c] # None => owner'[c] # None
      BY <2>12 DEF Arrive
    <3>2. \A i \in Carts : line'[i].qty > 0 =>
               /\ line[i].qty > 0
               /\ line'[i].cart = line[i].cart /\ line'[i].variant = line[i].variant
      BY <2>12 DEF Arrive
    <3>3. \A p \in Pages : \A l \in shown'[p] : Is(l.id, l.variant)
      BY <1>0, <2>12, CartAssumption DEF Arrive, LinesAreReal, TypeOK
    <3>4. \A q \in Requests : \A l \in req'[q].view : Is(l.id, l.variant)
      BY <1>0, <2>12, CartAssumption, Ends DEF Arrive, Others, LinesAreReal, Over,
         Resting
    <3>5. \A q \in Requests : req'[q].op.kind \in Changes =>
               req'[q].op.item \in Carts /\ Is(req'[q].op.item, req'[q].op.variant)
      BY <1>0, <2>12, CartAssumption, Ends DEF Arrive, Others, LinesAreReal,
         OpsAreWhole, Over, Resting, NoOp, Changes
    <3> QED
      BY <1>0, <1>4, <3>1, <3>2, <3>3, <3>4, <3>5, RealStays
  <2>13. CASE Fail(r)
    <3>1. \A c \in Carts : owner[c] # None => owner'[c] # None
      BY <2>13 DEF Fail
    <3>2. \A i \in Carts : line'[i].qty > 0 =>
               /\ line[i].qty > 0
               /\ line'[i].cart = line[i].cart /\ line'[i].variant = line[i].variant
      BY <2>13 DEF Fail
    <3>3. \A p \in Pages : \A l \in shown'[p] : Is(l.id, l.variant)
      BY <1>0, <2>13 DEF Fail, LinesAreReal
    <3>4. \A q \in Requests : \A l \in req'[q].view : Is(l.id, l.variant)
      BY <1>0, <2>13, CartAssumption, Ends DEF Fail, Others, LinesAreReal, Over, Resting
    <3>5. \A q \in Requests : req'[q].op.kind \in Changes =>
               req'[q].op.item \in Carts /\ Is(req'[q].op.item, req'[q].op.variant)
      BY <1>0, <2>13, CartAssumption, Ends DEF Fail, Others, LinesAreReal,
         OpsAreWhole, Over, Resting, NoOp, Changes
    <3> QED
      BY <1>0, <1>4, <3>1, <3>2, <3>3, <3>4, <3>5, RealStays
  <2>14. CASE Send(r)
    <3>1. \A c \in Carts : owner[c] # None => owner'[c] # None
      BY <2>14 DEF Send
    <3>2. \A i \in Carts : line'[i].qty > 0 =>
               /\ line[i].qty > 0
               /\ line'[i].cart = line[i].cart /\ line'[i].variant = line[i].variant
      BY <2>14 DEF Send
    <3>3. \A p \in Pages : \A l \in shown'[p] : Is(l.id, l.variant)
      BY <1>0, <2>14 DEF Send, LinesAreReal
    <3>6. PICK op \in MayAsk(r) : req'[r] = Asked(op)
      BY <1>0, <2>14, CartAssumption, SendMoves
    <3>7. \A q \in Requests \ {r} : req'[q] = req[q]
      BY <1>0, <2>14, CartAssumption, SendMoves DEF Others
    <3>8. req'[r].view = {} /\ req'[r].op = op
      BY <3>6 DEF Asked
    <3>4. \A q \in Requests : \A l \in req'[q].view : Is(l.id, l.variant)
      BY <1>0, <3>7, <3>8 DEF LinesAreReal
    <3>5. \A q \in Requests : req'[q].op.kind \in Changes =>
               req'[q].op.item \in Carts /\ Is(req'[q].op.item, req'[q].op.variant)
      <4>1. op.kind \in Changes => op.item \in Carts /\ Is(op.item, op.variant)
        BY <1>0, CartAssumption, AskedIsWhole DEF LinesAreReal
      <4> QED
        BY <1>0, <3>7, <3>8, <4>1 DEF LinesAreReal, OpsAreWhole
    <3> QED
      BY <1>0, <1>4, <3>1, <3>2, <3>3, <3>4, <3>5, RealStays
  <2>15. CASE FindVariant(r)
    <3>1. \A c \in Carts : owner[c] # None => owner'[c] # None
      BY <2>15 DEF FindVariant
    <3>2. \A i \in Carts : line'[i].qty > 0 =>
               /\ line[i].qty > 0
               /\ line'[i].cart = line[i].cart /\ line'[i].variant = line[i].variant
      BY <2>15 DEF FindVariant
    <3>3. \A p \in Pages : \A l \in shown'[p] : Is(l.id, l.variant)
      BY <1>0, <2>15 DEF FindVariant, LinesAreReal
    <3>4. \A q \in Requests : \A l \in req'[q].view : Is(l.id, l.variant)
      BY <1>0, <2>15, FindVariantMoves DEF Becomes, Others, LinesAreReal
    <3>5. \A q \in Requests : req'[q].op.kind \in Changes =>
               req'[q].op.item \in Carts /\ Is(req'[q].op.item, req'[q].op.variant)
      BY <1>0, <2>15, FindVariantMoves DEF Becomes, Others, LinesAreReal, OpsAreWhole
    <3> QED
      BY <1>0, <1>4, <3>1, <3>2, <3>3, <3>4, <3>5, RealStays
  <2>16. CASE PriceView(r)
    <3>1. \A c \in Carts : owner[c] # None => owner'[c] # None
      BY <2>16 DEF PriceView
    <3>2. \A i \in Carts : line'[i].qty > 0 =>
               /\ line[i].qty > 0
               /\ line'[i].cart = line[i].cart /\ line'[i].variant = line[i].variant
      BY <2>16 DEF PriceView
    <3>3. \A p \in Pages : \A l \in shown'[p] : Is(l.id, l.variant)
      BY <1>0, <2>16 DEF PriceView, LinesAreReal
    <3>4. \A q \in Requests : \A l \in req'[q].view : Is(l.id, l.variant)
      BY <1>0, <2>16, PriceViewMoves DEF Becomes, Others, LinesAreReal, Priced
    <3>5. \A q \in Requests : req'[q].op.kind \in Changes =>
               req'[q].op.item \in Carts /\ Is(req'[q].op.item, req'[q].op.variant)
      BY <1>0, <2>16, PriceViewMoves DEF Becomes, Others, LinesAreReal, OpsAreWhole
    <3> QED
      BY <1>0, <1>4, <3>1, <3>2, <3>3, <3>4, <3>5, RealStays
  <2> QED
    BY <1>2, <2>1, <2>2, <2>3, <2>4, <2>5, <2>6, <2>7,
       <2>8, <2>9, <2>10, <2>11, <2>12, <2>13, <2>14, <2>15, <2>16 DEF RequestStep
<1>3. CASE UNCHANGED vars
  BY <1>0, <1>4, RealStays, <1>3 DEF vars, LinesAreReal, OpsAreWhole
<1> QED
  BY <1>1, <1>2, <1>3, <1>5 DEF Next

(* The invariant holds initially, with or without a cart left elsewhere. *)
LEMMA Start ==
    ASSUME Init
    PROVE  CartInv
<1>1. \A r \in Requests : req[r] = Idle
  BY DEF Init
<1>2. Idle \in RequestStates
  BY CartAssumption DEF Idle, Resting, NoOp, RequestStates, Stages, Ops, Views
<1>3. PICK l \in {NoLine} \cup {[cart |-> Earlier, variant |-> v, qty |-> MinQty[v]] :
                                    v \in Variants} :
         /\ l # NoLine => owner[Earlier] = Customer /\ InRange(l.variant, l.qty)
         /\ line = [i \in Carts |-> IF i = Earlier THEN l ELSE NoLine]
  BY DEF Init
<1>4. NoLine \in Lines /\ l \in Lines
  BY <1>3, CartAssumption DEF NoLine, Lines, Carts
<1>5. line \in [Carts -> Lines]
  BY <1>3, <1>4
<1>7. \A i \in Carts : line[i].qty > 0 =>
         /\ i = Earlier /\ line[i].cart = Earlier /\ owner[Earlier] = Customer
         /\ line[i].variant \in Variants /\ InRange(line[i].variant, line[i].qty)
  BY <1>3 DEF NoLine, Carts
<1> DEFINE found == IF signedIn = Customer THEN Contents(Earlier) ELSE {}
<1>14. found \in Views
  <2>1. \A i \in Carts : line[i].qty \in Nat
    BY <1>5 DEF Lines
  <2>2. Contents(Earlier) \in Views
    BY <1>7, <2>1 DEF Contents, LinesOf, Views
  <2>3. {} \in Views
    BY DEF Views
  <2> QED
    BY <2>2, <2>3
<1>15. /\ basket = Quantities(found)
       /\ shown \in [Pages -> {found, {}}]
  <2>1. basket = Quantities(found)
    BY DEF Init
  <2>2. PICK loaded \in IF signedIn = Customer THEN SUBSET Pages ELSE {{}} :
           shown = [p \in Pages |-> IF p \in loaded THEN Contents(Earlier) ELSE {}]
    BY DEF Init
  <2>3. CASE signedIn = Customer
    BY <2>1, <2>2, <2>3
  <2>4. CASE signedIn # Customer
    <3>1. loaded = {}
      BY <2>2, <2>4
    <3> QED
      BY <2>1, <2>2, <3>1
  <2> QED
    BY <2>3, <2>4
<1> HIDE DEF found
<1>6. TypeOK
  <2>1. req \in [Requests -> RequestStates]
    BY <1>2 DEF Init
  <2>2. owner \in [Carts -> {Customer, Nobody, None}]
    BY DEF Init
  <2>3. newer \in [Carts -> SUBSET Carts] /\ guestToken \subseteq Carts
    BY DEF Init
  <2>4. shown \in [Pages -> Views]
    BY <1>14, <1>15 DEF Views
  <2>5. basket \in [Variants -> Nat]
    BY <1>14, <1>15, QuantitiesType
  <2> QED
    BY <1>5, <2>1, <2>2, <2>3, <2>4, <2>5 DEF Init, TypeOK
<1>8. OpsAreWhole /\ Checked
  BY <1>1 DEF OpsAreWhole, Checked, Idle, Resting, NoOp, Changes, UnderWay
<1>9. CartsExist
  <2>1. OneIsLatest
    BY DEF Init, OneIsLatest, Existing
  <2>2. \A r \in Requests : owner[r] = None
    BY CartAssumption DEF Init, Carts
  <2>3. cookie = None /\ guestToken = {}
    BY DEF Init
  <2> QED
    BY <1>1, <2>1, <2>2, <2>3 DEF CartsExist, Idle, Resting, Before, After
<1>10. LinesAreReal
  <2>1. Earlier \in Carts /\ Earlier \notin Requests /\ Customer # None
    BY CartAssumption DEF Carts
  <2>2. \A r \in Requests : req[r].view = {} /\ req[r].op.kind = "none"
    BY <1>1 DEF Idle, Resting, NoOp
  <2>3. \A p \in Pages : \A m \in shown[p] : Is(m.id, m.variant)
    <3>1. \A m \in Contents(Earlier) : m.id = Earlier /\ line[m.id].variant = m.variant
      BY <1>7 DEF Contents, LinesOf
    <3>2. \A m \in found : m \in Contents(Earlier)
      BY DEF found
    <3> QED
      BY <1>15, <2>1, <3>1, <3>2 DEF Is, Written
  <2>4. \A i \in Carts : line[i].qty > 0 => Written(i) /\ owner[line[i].cart] # None
    BY <1>7, <2>1 DEF Written
  <2>5. \A r \in Requests :
           /\ \A m \in req[r].view : Is(m.id, m.variant)
           /\ req[r].op.kind \in Changes => Is(req[r].op.item, req[r].op.variant)
    BY <2>2 DEF Changes
  <2> QED
    BY <1>7, <2>1, <2>3, <2>4, <2>5 DEF LinesAreReal
<1>12. OneAtATime
  <2>1. OwnCarts(Customer) \subseteq {Earlier}
    BY CartAssumption DEF Init, OwnCarts
  <2> QED
    BY <1>1, <2>1 DEF OneAtATime, UnderWay, Idle, Resting, Before, After
<1>13. BasketFollows
  <2>1. OwnCarts(Customer) \subseteq {Earlier} /\ cookie = None
    BY CartAssumption DEF Init, OwnCarts
  <2>2. LinesOf(None) = {} /\ (owner[Earlier] # Customer => LinesOf(Earlier) = {})
    BY <1>7, CartAssumption DEF LinesOf
  <2>3. Contents(CartInHand) = found
    <3>1. CASE signedIn = Customer /\ owner[Earlier] = Customer
      <4>1. OwnCarts(signedIn) = {Earlier} /\ signedIn # Nobody
        BY <2>1, <3>1, CartAssumption DEF OwnCarts, Carts
      <4>2. newer[Earlier] = {}
        BY DEF Init, Carts
      <4>3. Latest({Earlier}) = Earlier
        BY <4>2 DEF Latest
      <4> QED
        BY <3>1, <4>1, <4>3 DEF CartInHand, HandOf, found
    <3>2. CASE ~(signedIn = Customer /\ owner[Earlier] = Customer)
      <4>1. CartInHand = None
        <5>1. signedIn = Nobody \/ OwnCarts(signedIn) = {}
          BY <2>1, <3>2 DEF Init, OwnCarts
        <5> QED
          BY <2>1, <5>1 DEF CartInHand, HandOf
      <4>2. Contents(CartInHand) = {}
        BY <2>2, <4>1 DEF Contents
      <4>3. found = {}
        BY <2>2, <3>2 DEF found, Contents
      <4> QED
        BY <4>2, <4>3
    <3> QED
      BY <3>1, <3>2
  <2>4. Quantities(Contents(CartInHand)) = basket
    BY <1>15, <2>3
  <2> QED
    BY <1>1, <2>4 DEF BasketFollows, Resolving, Before, After, Changes, Idle, Resting,
       NoOp
<1>11. QtyInRange
  BY <1>7 DEF QtyInRange
<1> QED
  BY <1>6, <1>8, <1>9, <1>10, <1>11, <1>12, <1>13 DEF CartInv, Sound

-----------------------------------------------------------------------------
(* Requests that come one after the other. *)

Alone(r) ==
    /\ UnderWay(r) => req[r].who = signedIn /\ req[r].token = cookie
    /\ req[r].pc \in {"guest", "adopt", "create"} /\ req[r].who = Customer =>
          OwnCarts(Customer) = {}
    /\ req[r].pc = "create" => req[r].token = None
    /\ req[r].pc \in Before \cup After =>
          IF req[r].who = Customer THEN req[r].cart \in OwnCarts(Customer)
          ELSE req[r].cart \in guestToken

(* Only the request that takes a step counts. *)
LEMMA AloneIsEnough ==
    ASSUME NEW r \in Requests, \A q \in Requests : q # r => ~UnderWay(q),
           Others(r), \A c, d \in OwnCarts(Customer)' : c = d, Alone(r)'
    PROVE  OneAtATime'
<1>1. \A q \in Requests : q # r => req'[q].pc \in {"idle", "over"}
  BY DEF Others, UnderWay
<1> QED
  BY <1>1 DEF OneAtATime, UnderWay, Alone, Before, After

(* Every step of requests that come one after the other leaves the customer *)
(* with one cart, and the request that is under way with that one.          *)
LEMMA OneStep ==
    ASSUME Sound, OneAtATime, [Next]_vars
    PROVE  OneAtATime'
<1>0. TypeOK /\ OpsAreWhole /\ CartsExist /\ LinesAreReal /\ Sound
  BY DEF Sound
<1> USE DEF tables, browser
<1>1. CASE SignIn \/ ExpireToken
  BY <1>0, <1>1 DEF SignIn, ExpireToken, Identify, OneAtATime, UnderWay, OwnCarts, Before, After
<1>5. ASSUME NEW v \in Variants, Switch(v)
      PROVE  OneAtATime'
  BY <1>0, <1>5 DEF Switch, OneAtATime, UnderWay, OwnCarts, Before, After
<1>2. ASSUME NEW r \in Requests, RequestStep(r)
      PROVE  OneAtATime'
  <2>1. CASE FindCustomerCart(r)
    <3> SUFFICES ASSUME ~disturbed
                 PROVE  OneAtATime'
      BY <2>1 DEF FindCustomerCart, OneAtATime
    <3>1. Alone(r) /\ UnderWay(r) /\ \A q \in Requests : q # r => ~UnderWay(q)
      BY <2>1 DEF FindCustomerCart, OneAtATime, Alone, UnderWay
    <3>2. Others(r)
      BY <1>0, <2>1, CartAssumption, FindCustomerCartMoves DEF Becomes
    <3>3. \A c, d \in OwnCarts(Customer)' : c = d
      BY <1>0, <3>1, <2>1, CartAssumption DEF FindCustomerCart, OneAtATime, Alone,
         OwnCarts
    <3>4. Alone(r)'
      <4>1. UNCHANGED <<tables, browser>> /\ req[r].pc = "customer" /\ req[r].who = Customer
        BY <1>0, <2>1 DEF FindCustomerCart, CartsExist
      <4>2. CASE OwnCarts(Customer) # {}
        <5>1. PICK c \in OwnCarts(Customer) : Becomes(r, "act", c, req[r].next, req[r].view)
          BY <1>0, <2>1, <4>1, <4>2, FindCustomerCartMoves
        <5> QED
          BY <3>1, <4>1, <5>1 DEF Alone, UnderWay, Before, After, Becomes, OwnCarts
      <4>3. CASE OwnCarts(Customer) = {}
        <5>1. PICK pc : /\ pc = IF req[r].token # None THEN "guest" ELSE "create"
                        /\ Becomes(r, pc, req[r].cart, req[r].next, req[r].view)
          BY <1>0, <2>1, <4>1, <4>3, FindCustomerCartMoves
        <5> QED
          BY <3>1, <4>1, <4>3, <5>1 DEF Alone, UnderWay, Before, After, Becomes,
             OwnCarts
      <4> QED
        BY <4>2, <4>3
    <3> QED
      BY <3>1, <3>2, <3>3, <3>4, AloneIsEnough
  <2>2. CASE FindGuestCart(r)
    <3> SUFFICES ASSUME ~disturbed
                 PROVE  OneAtATime'
      BY <2>2 DEF FindGuestCart, OneAtATime
    <3>1. Alone(r) /\ UnderWay(r) /\ \A q \in Requests : q # r => ~UnderWay(q)
      BY <2>2 DEF FindGuestCart, OneAtATime, Alone, UnderWay
    <3>2. Others(r)
      BY <1>0, <2>2, CartAssumption, FindGuestCartMoves DEF Becomes
    <3>3. \A c, d \in OwnCarts(Customer)' : c = d
      BY <1>0, <3>1, <2>2, CartAssumption DEF FindGuestCart, OneAtATime, Alone, OwnCarts
    <3>4. Alone(r)'
      BY <1>0, <3>1, <2>2, CartAssumption, FindGuestCartMoves DEF FindGuestCart,
         Alone, UnderWay, Before, After, Becomes, OwnCarts, CartsExist, TypeOK,
         RequestStates
    <3> QED
      BY <3>1, <3>2, <3>3, <3>4, AloneIsEnough
  <2>3. CASE Adopt(r)
    <3> SUFFICES ASSUME ~disturbed
                 PROVE  OneAtATime'
      BY <2>3 DEF Adopt, OneAtATime
    <3>1. Alone(r) /\ UnderWay(r) /\ \A q \in Requests : q # r => ~UnderWay(q)
      BY <2>3 DEF Adopt, OneAtATime, Alone, UnderWay
    <3>2. Others(r)
      BY <1>0, <2>3, CartAssumption, AdoptMoves DEF Becomes
    <3>3. \A c, d \in OwnCarts(Customer)' : c = d
      BY <1>0, <3>1, <2>3, CartAssumption DEF Adopt, OneAtATime, Alone, OwnCarts,
         TypeOK, RequestStates, CartsExist
    <3>4. Alone(r)'
      <4>1. Becomes(r, "act", req[r].cart, req[r].next, req[r].view)
        BY <1>0, <2>3, AdoptMoves
      <4>2. /\ owner' = [owner EXCEPT ![req[r].cart] = req[r].who] /\ req[r].cart \in Carts
            /\ UNCHANGED <<cookie, signedIn>> /\ req[r].who = Customer
        BY <1>0, <2>3 DEF Adopt, CartsExist, TypeOK, RequestStates
      <4>3. req[r].cart \in OwnCarts(Customer)'
        BY <1>0, <4>2 DEF OwnCarts, TypeOK
      <4> QED
        BY <3>1, <4>1, <4>2, <4>3 DEF Alone, UnderWay, Before, Becomes
    <3> QED
      BY <3>1, <3>2, <3>3, <3>4, AloneIsEnough
  <2>4. CASE Create(r)
    <3> SUFFICES ASSUME ~disturbed
                 PROVE  OneAtATime'
      BY <2>4 DEF Create, OneAtATime
    <3>1. Alone(r) /\ UnderWay(r) /\ \A q \in Requests : q # r => ~UnderWay(q)
      BY <2>4 DEF Create, OneAtATime, Alone, UnderWay
    <3>2. Others(r)
      BY <1>0, <2>4, CartAssumption, CreateMoves DEF Becomes
    <3>3. \A c, d \in OwnCarts(Customer)' : c = d
      BY <1>0, <3>1, <2>4, CartAssumption DEF Create, OneAtATime, Alone, OwnCarts,
         TypeOK, RequestStates, CartsExist, Carts
    <3>4. Alone(r)'
      <4>1. Becomes(r, "act", r, req[r].next, req[r].view)
        BY <1>0, <2>4, CreateMoves
      <4>2. /\ owner' = [owner EXCEPT ![r] = req[r].who] /\ r \in Carts
            /\ guestToken' = IF req[r].who = Nobody THEN guestToken \cup {r} ELSE guestToken
            /\ UNCHANGED <<cookie, signedIn>> /\ req[r].who \in {Customer, Nobody}
        BY <1>0, <2>4 DEF Create, Carts, TypeOK, RequestStates
      <4>3. req[r].who = Customer => r \in OwnCarts(Customer)'
        BY <1>0, <4>2 DEF OwnCarts, TypeOK
      <4>4. req[r].who # Customer => r \in guestToken'
        BY <4>2
      <4> QED
        BY <3>1, <4>1, <4>2, <4>3, <4>4 DEF Alone, UnderWay, Before, Becomes
    <3> QED
      BY <3>1, <3>2, <3>3, <3>4, AloneIsEnough
  <2>5. CASE ReadForAdd(r)
    <3> SUFFICES ASSUME ~disturbed
                 PROVE  OneAtATime'
      BY <2>5 DEF ReadForAdd, OneAtATime
    <3>1. Alone(r) /\ UnderWay(r) /\ \A q \in Requests : q # r => ~UnderWay(q)
      BY <2>5 DEF ReadForAdd, OneAtATime, Alone, UnderWay
    <3>2. Others(r)
      BY <1>0, <2>5, CartAssumption, ReadForAddMoves DEF Becomes
    <3>3. \A c, d \in OwnCarts(Customer)' : c = d
      BY <1>0, <3>1, <2>5, CartAssumption DEF ReadForAdd, OneAtATime, Alone, OwnCarts
    <3>4. Alone(r)'
      BY <1>0, <3>1, <2>5, CartAssumption, ReadForAddMoves DEF ReadForAdd, Alone,
         UnderWay, Before, After, Becomes, OwnCarts
    <3> QED
      BY <3>1, <3>2, <3>3, <3>4, AloneIsEnough
  <2>6. CASE WriteAdd(r)
    <3> SUFFICES ASSUME ~disturbed
                 PROVE  OneAtATime'
      BY <2>6 DEF WriteAdd, OneAtATime
    <3>1. Alone(r) /\ UnderWay(r) /\ \A q \in Requests : q # r => ~UnderWay(q)
      BY <2>6 DEF WriteAdd, OneAtATime, Alone, UnderWay
    <3>2. Others(r)
      BY <1>0, <2>6, CartAssumption, WriteAddMoves DEF Becomes
    <3>3. \A c, d \in OwnCarts(Customer)' : c = d
      BY <1>0, <3>1, <2>6, CartAssumption DEF WriteAdd, OneAtATime, Alone, OwnCarts
    <3>4. Alone(r)'
      BY <1>0, <3>1, <2>6, CartAssumption, WriteAddMoves DEF WriteAdd, Alone,
         UnderWay, Before, After, Becomes, OwnCarts
    <3> QED
      BY <3>1, <3>2, <3>3, <3>4, AloneIsEnough
  <2>7. CASE ReadForUpdate(r)
    <3> SUFFICES ASSUME ~disturbed
                 PROVE  OneAtATime'
      BY <2>7 DEF ReadForUpdate, OneAtATime
    <3>1. Alone(r) /\ UnderWay(r) /\ \A q \in Requests : q # r => ~UnderWay(q)
      BY <2>7 DEF ReadForUpdate, OneAtATime, Alone, UnderWay
    <3>2. Others(r)
      BY <1>0, <2>7, CartAssumption, ReadForUpdateMoves DEF Becomes
    <3>3. \A c, d \in OwnCarts(Customer)' : c = d
      BY <1>0, <3>1, <2>7, CartAssumption DEF ReadForUpdate, OneAtATime, Alone, OwnCarts
    <3>4. Alone(r)'
      BY <1>0, <3>1, <2>7, CartAssumption, ReadForUpdateMoves DEF ReadForUpdate,
         Alone, UnderWay, Before, After, Becomes, OwnCarts
    <3> QED
      BY <3>1, <3>2, <3>3, <3>4, AloneIsEnough
  <2>8. CASE WriteUpdate(r)
    <3> SUFFICES ASSUME ~disturbed
                 PROVE  OneAtATime'
      BY <2>8 DEF WriteUpdate, OneAtATime
    <3>1. Alone(r) /\ UnderWay(r) /\ \A q \in Requests : q # r => ~UnderWay(q)
      BY <2>8 DEF WriteUpdate, OneAtATime, Alone, UnderWay
    <3>2. Others(r)
      BY <1>0, <2>8, CartAssumption, WriteUpdateMoves DEF Becomes
    <3>3. \A c, d \in OwnCarts(Customer)' : c = d
      BY <1>0, <3>1, <2>8, CartAssumption DEF WriteUpdate, OneAtATime, Alone, OwnCarts
    <3>4. Alone(r)'
      BY <1>0, <3>1, <2>8, CartAssumption, WriteUpdateMoves DEF WriteUpdate, Alone,
         UnderWay, Before, After, Becomes, OwnCarts
    <3> QED
      BY <3>1, <3>2, <3>3, <3>4, AloneIsEnough
  <2>9. CASE RemoveLine(r)
    <3> SUFFICES ASSUME ~disturbed
                 PROVE  OneAtATime'
      BY <2>9 DEF RemoveLine, OneAtATime
    <3>1. Alone(r) /\ UnderWay(r) /\ \A q \in Requests : q # r => ~UnderWay(q)
      BY <2>9 DEF RemoveLine, OneAtATime, Alone, UnderWay
    <3>2. Others(r)
      BY <1>0, <2>9, CartAssumption, RemoveLineMoves DEF Becomes
    <3>3. \A c, d \in OwnCarts(Customer)' : c = d
      BY <1>0, <3>1, <2>9, CartAssumption DEF RemoveLine, OneAtATime, Alone, OwnCarts
    <3>4. Alone(r)'
      BY <1>0, <3>1, <2>9, CartAssumption, RemoveLineMoves DEF RemoveLine, Alone,
         UnderWay, Before, After, Becomes, OwnCarts
    <3> QED
      BY <3>1, <3>2, <3>3, <3>4, AloneIsEnough
  <2>10. CASE Touch(r)
    <3> SUFFICES ASSUME ~disturbed
                 PROVE  OneAtATime'
      BY <2>10 DEF Touch, OneAtATime
    <3>1. Alone(r) /\ UnderWay(r) /\ \A q \in Requests : q # r => ~UnderWay(q)
      BY <2>10 DEF Touch, OneAtATime, Alone, UnderWay
    <3>2. Others(r)
      BY <1>0, <2>10, CartAssumption, TouchMoves DEF Becomes
    <3>3. \A c, d \in OwnCarts(Customer)' : c = d
      BY <1>0, <3>1, <2>10, CartAssumption DEF Touch, OneAtATime, Alone, OwnCarts
    <3>4. Alone(r)'
      BY <1>0, <3>1, <2>10, CartAssumption, TouchMoves DEF Touch, Alone, UnderWay,
         Before, After, Becomes, OwnCarts
    <3> QED
      BY <3>1, <3>2, <3>3, <3>4, AloneIsEnough
  <2>11. CASE ReadView(r)
    <3> SUFFICES ASSUME ~disturbed
                 PROVE  OneAtATime'
      BY <2>11 DEF ReadView, OneAtATime
    <3>1. Alone(r) /\ UnderWay(r) /\ \A q \in Requests : q # r => ~UnderWay(q)
      BY <2>11 DEF ReadView, OneAtATime, Alone, UnderWay
    <3>2. Others(r)
      BY <1>0, <2>11, CartAssumption, ReadViewMoves DEF Becomes
    <3>3. \A c, d \in OwnCarts(Customer)' : c = d
      BY <1>0, <3>1, <2>11, CartAssumption DEF ReadView, OneAtATime, Alone, OwnCarts
    <3>4. Alone(r)'
      <4>1. PICK m, view : Becomes(r, "price", req[r].cart, m, view)
        BY <1>0, <2>11, ReadViewMoves
      <4>2. UNCHANGED <<tables, browser>> /\ req[r].pc \in Before \cup After
        BY <2>11 DEF ReadView, Before, After
      <4> QED
        BY <3>1, <4>1, <4>2 DEF Alone, UnderWay, After, Becomes, OwnCarts
    <3> QED
      BY <3>1, <3>2, <3>3, <3>4, AloneIsEnough
  <2>12. CASE Arrive(r)
    <3> SUFFICES ASSUME ~disturbed
                 PROVE  OneAtATime'
      BY <2>12 DEF Arrive, OneAtATime
    <3>1. \A q \in Requests : q # r => ~UnderWay(q)
      BY <2>12 DEF Arrive, OneAtATime, UnderWay
    <3>2. Others(r) /\ req'[r].pc = "over"
      <4>1. req' = [req EXCEPT ![r] = Over]
        BY <2>12 DEF Arrive
      <4>2. Others(r) /\ req'[r] = Over
        BY <1>0, <4>1, CartAssumption, Ends
      <4> QED
        BY <4>2 DEF Over, Resting
    <3>3. \A c, d \in OwnCarts(Customer)' : c = d
      BY <2>12 DEF Arrive, OneAtATime, OwnCarts
    <3>4. Alone(r)'
      BY <3>2 DEF Alone, UnderWay, Before, After
    <3> QED
      BY <3>1, <3>2, <3>3, <3>4, AloneIsEnough
  <2>13. CASE Fail(r)
    BY <2>13 DEF Fail, OneAtATime
  <2>14. CASE Send(r)
    <3> SUFFICES ASSUME ~disturbed'
                 PROVE  OneAtATime'
      BY DEF OneAtATime
    <3>1. ~disturbed /\ \A q \in Requests : ~UnderWay(q)
      BY <2>14 DEF Send
    <3>2. PICK op \in MayAsk(r) : req'[r] = Asked(op)
      BY <1>0, <2>14, CartAssumption, SendMoves
    <3>3. Others(r)
      BY <1>0, <2>14, CartAssumption, SendMoves
    <3>4. \A c, d \in OwnCarts(Customer)' : c = d
      BY <3>1, <2>14 DEF Send, OneAtATime, OwnCarts
    <3>5. Alone(r)'
      BY <1>0, <3>2, <2>14, CartAssumption DEF Send, Asked, Alone, UnderWay, Before,
         After, TypeOK
    <3> QED
      BY <3>1, <3>3, <3>4, <3>5, AloneIsEnough
  <2>15. CASE FindVariant(r)
    <3> SUFFICES ASSUME ~disturbed
                 PROVE  OneAtATime'
      BY <2>15 DEF FindVariant, OneAtATime
    <3>1. Alone(r) /\ UnderWay(r) /\ \A q \in Requests : q # r => ~UnderWay(q)
      BY <2>15 DEF FindVariant, OneAtATime, Alone, UnderWay
    <3>2. Others(r)
      BY <1>0, <2>15, FindVariantMoves DEF Becomes
    <3>3. \A c, d \in OwnCarts(Customer)' : c = d
      BY <1>0, <3>1, <2>15 DEF FindVariant, OneAtATime, Alone, OwnCarts
    <3>4. Alone(r)'
      BY <1>0, <3>1, <2>15, FindVariantMoves DEF FindVariant, Alone, UnderWay, Before, After,
         Becomes, OwnCarts
    <3> QED
      BY <3>1, <3>2, <3>3, <3>4, AloneIsEnough
  <2>16. CASE PriceView(r)
    <3> SUFFICES ASSUME ~disturbed
                 PROVE  OneAtATime'
      BY <2>16 DEF PriceView, OneAtATime
    <3>1. Alone(r) /\ UnderWay(r) /\ \A q \in Requests : q # r => ~UnderWay(q)
      BY <2>16 DEF PriceView, OneAtATime, Alone, UnderWay
    <3>2. Others(r)
      BY <1>0, <2>16, PriceViewMoves DEF Becomes
    <3>3. \A c, d \in OwnCarts(Customer)' : c = d
      BY <1>0, <3>1, <2>16 DEF PriceView, OneAtATime, Alone, OwnCarts
    <3>4. Alone(r)'
      <4>1. PICK view : Becomes(r, "answered", req[r].cart, req[r].next, view)
        BY <1>0, <2>16, PriceViewMoves
      <4> QED
        BY <1>0, <3>1, <2>16, <4>1 DEF PriceView, Alone, UnderWay, Before, After,
           Becomes, OwnCarts
    <3> QED
      BY <3>1, <3>2, <3>3, <3>4, AloneIsEnough
  <2> QED
    BY <1>2, <2>1, <2>2, <2>3, <2>4, <2>5, <2>6, <2>7,
       <2>8, <2>9, <2>10, <2>11, <2>12, <2>13, <2>14, <2>15, <2>16 DEF RequestStep
<1>3. CASE UNCHANGED vars
  BY <1>0, <1>3 DEF vars, OneAtATime, UnderWay, OwnCarts
<1> QED
  BY <1>1, <1>2, <1>3, <1>5 DEF Next

-----------------------------------------------------------------------------
(* What a cart holds, by the table of lines. *)

Rows(ln, c) == {i \in Carts : ln[i].qty > 0 /\ ln[i].cart = c}
Holds(ln, c) ==
    Quantities({[id |-> i, variant |-> ln[i].variant, qty |-> ln[i].qty] : i \in Rows(ln, c)})
OnePerVariant(ln) ==
    \A i, j \in Carts :
        /\ ln[i].qty > 0 /\ ln[j].qty > 0
        /\ ln[i].cart = ln[j].cart /\ ln[i].variant = ln[j].variant
        => i = j

(* A line of an item is what the cart holds of it; without one it holds none. *)
LEMMA LineGives ==
    ASSUME NEW ln, OnePerVariant(ln), NEW c, NEW v \in Variants,
           NEW i \in Rows(ln, c), ln[i].variant = v
    PROVE  Holds(ln, c)[v] = ln[i].qty
<1> DEFINE view == {[id |-> j, variant |-> ln[j].variant, qty |-> ln[j].qty] : j \in Rows(ln, c)}
<1>1. [id |-> i, variant |-> ln[i].variant, qty |-> ln[i].qty] \in InView(view, v)
  BY DEF InView
<1>2. \A l \in InView(view, v) : l.qty = ln[i].qty
  <2> SUFFICES ASSUME NEW l \in InView(view, v)
               PROVE  l.qty = ln[i].qty
    OBVIOUS
  <2>1. PICK j \in Rows(ln, c) : l = [id |-> j, variant |-> ln[j].variant, qty |-> ln[j].qty]
    BY DEF InView
  <2>2. ln[j].variant = v
    BY <2>1 DEF InView
  <2>3. j = i
    BY <2>2 DEF Rows, OnePerVariant
  <2> QED
    BY <2>1, <2>3
<1> HIDE DEF view
<1>3. (CHOOSE l \in InView(view, v) : TRUE) \in InView(view, v)
  BY <1>1
<1>4. Quantities(view)[v] = (CHOOSE l \in InView(view, v) : TRUE).qty
  BY <1>1 DEF Quantities
<1> QED
  BY <1>2, <1>3, <1>4 DEF Holds, view

(* An item without a line in a cart counts as none.                         *)
LEMMA NoneGives ==
    ASSUME NEW ln, NEW c, NEW v \in Variants, \A i \in Rows(ln, c) : ln[i].variant # v
    PROVE  Holds(ln, c)[v] = 0
<1> DEFINE view == {[id |-> j, variant |-> ln[j].variant, qty |-> ln[j].qty] : j \in Rows(ln, c)}
<1>1. InView(view, v) = {}
  BY DEF InView
<1> HIDE DEF view
<1>2. Quantities(view)[v] = 0
  BY <1>1 DEF Quantities
<1> QED
  BY <1>2 DEF Holds, view

(* The quantity a request reads is the one the cart holds. *)
LEMMA QtyInIsHeld ==
    ASSUME LinesAreReal, NEW c, NEW v \in Variants
    PROVE  QtyIn(c, v) = Holds(line, c)[v]
<1>1. OnePerVariant(line)
  BY DEF LinesAreReal, OnePerVariant
<1>2. CASE LineFor(c, v) = {}
  <2>1. \A i \in Rows(line, c) : line[i].variant # v
    BY <1>2 DEF LineFor, LinesOf, Rows
  <2> QED
    BY <1>2, <2>1, NoneGives DEF QtyIn
<1>3. CASE LineFor(c, v) # {}
  <2> DEFINE i == CHOOSE i \in LineFor(c, v) : TRUE
  <2>1. i \in Rows(line, c) /\ line[i].variant = v
    BY <1>3 DEF LineFor, LinesOf, Rows
  <2>2. QtyIn(c, v) = line[i].qty
    BY <1>3 DEF QtyIn
  <2> HIDE DEF i
  <2> QED
    BY <1>1, <2>1, <2>2, LineGives
<1> QED
  BY <1>2, <1>3

(* Writing the one line of an item in a cart changes what it holds of it. *)
LEMMA OneLineWritten ==
    ASSUME NEW ln, NEW lo, OnePerVariant(ln), OnePerVariant(lo),
           NEW c, NEW v \in Variants, NEW q \in Nat, NEW i \in Carts,
           \A j \in Carts : j # i => lo[j] = ln[j],
           ln[i].qty > 0 => ln[i].cart = c /\ ln[i].variant = v,
           lo[i].qty = q,
           q > 0 => lo[i].cart = c /\ lo[i].variant = v,
           \A j \in Carts : j # i /\ j \in Rows(ln, c) => ln[j].variant # v
    PROVE  Holds(lo, c) = [Holds(ln, c) EXCEPT ![v] = q]
<1>1. \A w \in Variants : w # v => Holds(lo, c)[w] = Holds(ln, c)[w]
  <2> SUFFICES ASSUME NEW w \in Variants, w # v
               PROVE  Holds(lo, c)[w] = Holds(ln, c)[w]
    OBVIOUS
  <2>1. CASE \E j \in Rows(ln, c) : ln[j].variant = w
    <3>1. PICK j \in Rows(ln, c) : ln[j].variant = w
      BY <2>1
    <3>2. j # i /\ j \in Carts /\ lo[j] = ln[j]
      BY <3>1 DEF Rows
    <3>3. j \in Rows(lo, c) /\ lo[j].variant = w
      BY <3>1, <3>2 DEF Rows
    <3> QED
      BY <3>1, <3>2, <3>3, LineGives
  <2>2. CASE \A j \in Rows(ln, c) : ln[j].variant # w
    <3>1. \A j \in Rows(lo, c) : lo[j].variant # w
      BY <2>2 DEF Rows
    <3> QED
      BY <2>2, <3>1, NoneGives
  <2> QED
    BY <2>1, <2>2
<1>2. Holds(lo, c)[v] = q
  <2>1. CASE q > 0
    <3>1. i \in Rows(lo, c)
      BY <2>1 DEF Rows
    <3> QED
      BY <2>1, <3>1, LineGives
  <2>2. CASE q = 0
    <3>1. \A j \in Rows(lo, c) : lo[j].variant # v
      BY <2>2 DEF Rows
    <3> QED
      BY <2>2, <3>1, NoneGives
  <2> QED
    BY <2>1, <2>2
<1>3. /\ DOMAIN Holds(lo, c) = Variants /\ DOMAIN Holds(ln, c) = Variants
      /\ Holds(lo, c) = [w \in Variants |-> Holds(lo, c)[w]]
      /\ Holds(ln, c) = [w \in Variants |-> Holds(ln, c)[w]]
  BY DEF Holds, Quantities
<1> DEFINE A == Holds(lo, c)
           B == Holds(ln, c)
<1> HIDE DEF A, B
<1>4. A = [B EXCEPT ![v] = q]
  BY <1>1, <1>2, <1>3 DEF A, B
<1> QED
  BY <1>4 DEF A, B

(* The same for views, now and after a step. *)
LEMMA ViewIsHeld ==
    ASSUME NEW c
    PROVE  Quantities(Contents(c)) = Holds(line, c) /\ Quantities(Contents(c))' = Holds(line', c)
BY DEF Contents, LinesOf, Holds, Rows

Follows(r) ==
    /\ req[r].pc \in Resolving \cup Before => Quantities(Contents(InHand(r))) = basket
    /\ req[r].pc \in After => Quantities(Contents(req[r].cart)) = BasketAfter(req[r].op)
    /\ req[r].op.kind \in Changes /\ req[r].pc \in Resolving \cup {"act", "write"} =>
          req[r].op.item \in LinesOf(InHand(r))
    /\ req[r].pc = "write" => req[r].next = BasketAfter(req[r].op)[req[r].op.variant]

(* Only the request that takes a step counts here, too. *)
LEMMA FollowsIsEnough ==
    ASSUME NEW r \in Requests, \A q \in Requests : q # r => ~UnderWay(q),
           Others(r), UnderWay(r)', Follows(r)'
    PROVE  BasketFollows'
<1>1. \A q \in Requests : q # r => req'[q].pc \in {"idle", "over"}
  BY DEF Others, UnderWay
<1> QED
  BY <1>1 DEF BasketFollows, UnderWay, Follows, Resolving, Before, After

(* Alone, a request has in hand what the next one would resolve. *)
LEMMA HandIsCookie ==
    ASSUME Sound, NEW r \in Requests, Alone(r),
           req[r].pc \in {"guest", "adopt", "create"}
    PROVE  CartInHand = cookie /\ req[r].token = cookie
BY DEF Sound, TypeOK, RequestStates, Alone, UnderWay, CartInHand, HandOf

(* A request on its way to its write changes nothing in the cart in hand, *)
LEMMA StillFollows ==
    ASSUME NEW r \in Requests, NEW c, InHand(r)' = c,
           UNCHANGED <<line, basket>>, req'[r].op = req[r].op,
           req'[r].pc \in Resolving \cup Before,
           Quantities(Contents(c)) = basket,
           req[r].op.kind \in Changes /\ req'[r].pc # "refused" => req[r].op.item \in LinesOf(c),
           req'[r].pc = "write" => req'[r].next = BasketAfter(req[r].op)[req[r].op.variant]
    PROVE  Follows(r)'
<1>1. Quantities(Contents(c))' = basket' /\ LinesOf(c)' = LinesOf(c)
  BY DEF Contents, LinesOf
<1>2. Quantities(Contents(InHand(r)))' = basket' /\ LinesOf(InHand(r))' = LinesOf(c)
  BY <1>1 DEF Contents, LinesOf
<1>3. BasketAfter(req[r].op)' = BasketAfter(req[r].op)
  BY DEF BasketAfter
<1> QED
  BY <1>2, <1>3 DEF Follows, Resolving, Before, After

(* and after its write the cart holds what it was asked to bring about. *)
LEMMA NowFollows ==
    ASSUME NEW r \in Requests, req'[r].pc \in After, req'[r].op = req[r].op, UNCHANGED basket,
           Holds(line', req'[r].cart) = BasketAfter(req[r].op)
    PROVE  Follows(r)'
<1>1. Quantities(Contents(req[r].cart))' = Holds(line', req'[r].cart)
  BY DEF Contents, LinesOf, Holds, Rows
<1>2. BasketAfter(req[r].op)' = BasketAfter(req[r].op)
  BY DEF BasketAfter
<1> QED
  BY <1>1, <1>2 DEF Follows, Resolving, Before, After

(* Every step keeps the basket, action by action. *)
LEMMA BasketStep ==
    ASSUME Sound, Sound', OneAtATime, OneAtATime', BasketFollows, [Next]_vars
    PROVE  BasketFollows'
<1>0. TypeOK /\ OpsAreWhole /\ CartsExist /\ LinesAreReal /\ Sound
  BY DEF Sound
<1> USE DEF tables, browser
<1>1. ASSUME NEW who \in {Customer, Nobody}, Identify(who)
      PROVE  BasketFollows'
  <2> SUFFICES ASSUME ~disturbed', ~setAside'
               PROVE  BasketFollows'
    BY DEF BasketFollows
  <2>1. /\ ~disturbed /\ ~setAside /\ \A q \in Requests : ~UnderWay(q)
        /\ Filled => HandOf(who) = CartInHand
    BY <1>1 DEF Identify
  <2>2. \A q \in Requests : req'[q].pc \in {"idle", "over"}
    BY <1>1, <2>1 DEF Identify, UnderWay
  <2>3. Quantities(Contents(CartInHand)) = basket
    BY <2>1 DEF BasketFollows
  <2>4. signedIn' = who /\ UNCHANGED <<tables, cookie>>
    BY <1>1 DEF Identify
  <2>5. PICK c : c = HandOf(who)
    OBVIOUS
  <2>6. CartInHand' = c
    BY <2>4, <2>5 DEF CartInHand, HandOf, OwnCarts, Latest
  <2>7. basket' = Quantities(Contents(c))
    BY <1>1, <2>1, <2>3, <2>5 DEF Identify
  <2>8. Quantities(Contents(CartInHand))' = basket'
    BY <2>4, <2>6, <2>7 DEF Contents, LinesOf
  <2> QED
    BY <2>2, <2>8 DEF BasketFollows, Resolving, Before, After
<1>4. ASSUME NEW v \in Variants, Switch(v)
      PROVE  BasketFollows'
  <2>1. UNCHANGED <<owner, guestToken, newer, line, browser, req>>
    BY <1>4 DEF Switch
  <2>2. UNCHANGED CartInHand /\ \A c : Contents(c)' = Contents(c) /\ LinesOf(c)' = LinesOf(c)
    BY <2>1 DEF CartInHand, HandOf, OwnCarts, Latest, Contents, LinesOf
  <2>3. \A r \in Requests : /\ InHand(r)' = InHand(r)
                            /\ BasketAfter(req[r].op)' = BasketAfter(req[r].op)
    BY <2>1, <2>2 DEF InHand, BasketAfter
  <2> QED
    BY <2>1, <2>2, <2>3 DEF BasketFollows, UnderWay
<1>2. ASSUME NEW r \in Requests, RequestStep(r)
      PROVE  BasketFollows'
  <2>1. CASE FindCustomerCart(r)
    <3> SUFFICES ASSUME ~disturbed, ~setAside
                 PROVE  BasketFollows'
      BY <2>1 DEF FindCustomerCart, BasketFollows
    <3>1. Alone(r) /\ Follows(r) /\ UnderWay(r) /\ \A q \in Requests : q # r => ~UnderWay(q)
      BY <2>1 DEF FindCustomerCart, OneAtATime, BasketFollows, Alone, Follows, UnderWay
    <3>2. Others(r) /\ UnderWay(r)'
      BY <1>0, <2>1, CartAssumption, FindCustomerCartMoves DEF Becomes, UnderWay
    <3>3. Follows(r)'
      <4>1. UNCHANGED <<tables, browser>> /\ req[r].pc = "customer"
            /\ req[r].who = Customer /\ signedIn = Customer
        BY <1>0, <2>1, <3>1 DEF FindCustomerCart, CartsExist, Alone
      <4>2. /\ Quantities(Contents(CartInHand)) = basket
            /\ req[r].op.kind \in Changes => req[r].op.item \in LinesOf(CartInHand)
        BY <3>1, <4>1 DEF Follows, InHand, Resolving
      <4>3. PICK c : c = CartInHand /\ CartInHand' = c
        BY <4>1 DEF CartInHand, HandOf, OwnCarts, Latest
      <4>4. /\ InHand(r)' = c /\ req'[r].op = req[r].op
            /\ req'[r].pc \in {"act", "guest", "create"}
        <5>1. CASE OwnCarts(Customer) # {}
          <6>1. c = Latest(OwnCarts(Customer))
            BY <4>1, <4>3, <5>1, CartAssumption DEF CartInHand, HandOf
          <6>2. Becomes(r, "act", c, req[r].next, req[r].view)
            BY <1>0, <2>1, <4>1, <5>1, <6>1, FindCustomerCartMoves
          <6> QED
            BY <6>2 DEF Becomes, InHand, Resolving
        <5>2. CASE OwnCarts(Customer) = {}
          <6>1. PICK pc : /\ pc = IF req[r].token # None THEN "guest" ELSE "create"
                          /\ Becomes(r, pc, req[r].cart, req[r].next, req[r].view)
            BY <1>0, <2>1, <4>1, <5>2, FindCustomerCartMoves
          <6> QED
            BY <4>3, <6>1 DEF Becomes, InHand, Resolving
        <5> QED
          BY <5>1, <5>2
      <4> QED
        BY <4>1, <4>2, <4>3, <4>4, StillFollows DEF Resolving, Before
    <3> QED
      BY <3>1, <3>2, <3>3, FollowsIsEnough
  <2>2. CASE FindGuestCart(r)
    <3> SUFFICES ASSUME ~disturbed, ~setAside
                 PROVE  BasketFollows'
      BY <2>2 DEF FindGuestCart, BasketFollows
    <3>1. Alone(r) /\ Follows(r) /\ UnderWay(r) /\ \A q \in Requests : q # r => ~UnderWay(q)
      BY <2>2 DEF FindGuestCart, OneAtATime, BasketFollows, Alone, Follows, UnderWay
    <3>2. Others(r) /\ UnderWay(r)'
      BY <1>0, <2>2, CartAssumption, FindGuestCartMoves DEF Becomes, UnderWay
    <3>3. Follows(r)'
      <4>1. UNCHANGED <<tables, browser>> /\ req[r].pc = "guest"
        BY <2>2 DEF FindGuestCart
      <4>2. CartInHand = cookie /\ req[r].token = cookie
        BY <1>0, <3>1, <4>1, CartAssumption, HandIsCookie
      <4>3. /\ Quantities(Contents(cookie)) = basket
            /\ req[r].op.kind \in Changes => req[r].op.item \in LinesOf(cookie)
        BY <3>1, <4>1, <4>2 DEF Follows, InHand, Resolving
      <4>4. CartInHand' = cookie
        BY <4>1, <4>2 DEF CartInHand, HandOf, OwnCarts, Latest
      <4>5. PICK pc : /\ pc \in {"adopt", "act"}
                      /\ Becomes(r, pc, cookie, req[r].next, req[r].view)
        BY <1>0, <2>2, <4>2, CartAssumption, FindGuestCartMoves
      <4>6. /\ InHand(r)' = cookie /\ req'[r].op = req[r].op
            /\ req'[r].pc \in {"adopt", "act"}
        BY <4>4, <4>5 DEF Becomes, InHand, Resolving
      <4> QED
        BY <4>1, <4>3, <4>6, StillFollows DEF Resolving, Before
    <3> QED
      BY <3>1, <3>2, <3>3, FollowsIsEnough
  <2>3. CASE Adopt(r)
    <3> SUFFICES ASSUME ~disturbed, ~setAside
                 PROVE  BasketFollows'
      BY <2>3 DEF Adopt, BasketFollows
    <3>1. Alone(r) /\ Follows(r) /\ UnderWay(r) /\ \A q \in Requests : q # r => ~UnderWay(q)
      BY <2>3 DEF Adopt, OneAtATime, BasketFollows, Alone, Follows, UnderWay
    <3>2. Others(r) /\ UnderWay(r)'
      BY <1>0, <2>3, CartAssumption, AdoptMoves DEF Becomes, UnderWay
    <3>3. Follows(r)'
      <4>1. UNCHANGED <<line, basket>> /\ req[r].pc = "adopt"
        BY <2>3 DEF Adopt
      <4>2. req[r].cart = CartInHand
        BY <1>0, <3>1, <4>1, CartAssumption, HandIsCookie DEF CartsExist
      <4>3. /\ Quantities(Contents(req[r].cart)) = basket
            /\ req[r].op.kind \in Changes => req[r].op.item \in LinesOf(req[r].cart)
        BY <3>1, <4>1, <4>2 DEF Follows, InHand, Resolving
      <4>4. Becomes(r, "act", req[r].cart, req[r].next, req[r].view)
        BY <1>0, <2>3, AdoptMoves
      <4>5. InHand(r)' = req[r].cart /\ req'[r].op = req[r].op /\ req'[r].pc = "act"
        BY <4>4 DEF Becomes, InHand, Resolving
      <4> QED
        BY <4>1, <4>3, <4>5, StillFollows DEF Before
    <3> QED
      BY <3>1, <3>2, <3>3, FollowsIsEnough
  <2>4. CASE Create(r)
    <3> SUFFICES ASSUME ~disturbed, ~setAside
                 PROVE  BasketFollows'
      BY <2>4 DEF Create, BasketFollows
    <3>1. Alone(r) /\ Follows(r) /\ UnderWay(r) /\ \A q \in Requests : q # r => ~UnderWay(q)
      BY <2>4 DEF Create, OneAtATime, BasketFollows, Alone, Follows, UnderWay
    <3>2. Others(r) /\ UnderWay(r)'
      BY <1>0, <2>4, CartAssumption, CreateMoves DEF Becomes, UnderWay
    <3>3. Follows(r)'
      <4>1. UNCHANGED <<line, basket>> /\ req[r].pc = "create"
        BY <2>4 DEF Create
      <4>2. CartInHand = None
        BY <1>0, <3>1, <4>1, CartAssumption, HandIsCookie DEF Alone
      <4>3. LinesOf(None) = {} /\ LinesOf(r) = {}
        <5>1. owner[r] = None
          BY <1>0, <4>1 DEF CartsExist, Before, After
        <5> QED
          BY <1>0, <5>1, CartAssumption DEF LinesAreReal, LinesOf, Carts
      <4>4. Contents(r) = Contents(None)
        BY <4>3 DEF Contents
      <4>5. Quantities(Contents(r)) = basket /\ req[r].op.kind \notin Changes
        BY <3>1, <4>1, <4>2, <4>3, <4>4 DEF Follows, InHand, Resolving
      <4>6. Becomes(r, "act", r, req[r].next, req[r].view)
        BY <1>0, <2>4, CreateMoves
      <4>7. InHand(r)' = r /\ req'[r].op = req[r].op /\ req'[r].pc = "act"
        BY <4>6 DEF Becomes, InHand, Resolving
      <4> QED
        BY <4>1, <4>5, <4>7, StillFollows DEF Before
    <3> QED
      BY <3>1, <3>2, <3>3, FollowsIsEnough
  <2>5. CASE ReadForAdd(r)
    <3> SUFFICES ASSUME ~disturbed, ~setAside
                 PROVE  BasketFollows'
      BY <2>5 DEF ReadForAdd, BasketFollows
    <3>1. Alone(r) /\ Follows(r) /\ UnderWay(r) /\ \A q \in Requests : q # r => ~UnderWay(q)
      BY <2>5 DEF ReadForAdd, OneAtATime, BasketFollows, Alone, Follows, UnderWay
    <3>2. Others(r) /\ UnderWay(r)'
      BY <1>0, <2>5, CartAssumption, ReadForAddMoves DEF Becomes, UnderWay
    <3>3. Follows(r)'
      <4> DEFINE c == req[r].cart
                 v == req[r].op.variant
      <4>1. UNCHANGED <<tables, browser>> /\ req[r].pc = "count"
        BY <2>5 DEF ReadForAdd
      <4>2. /\ Quantities(Contents(c)) = basket
            /\ req[r].op.kind \in Changes => req[r].op.item \in LinesOf(c)
        BY <1>0, <3>1, <4>1 DEF Follows, InHand, Resolving, Before, OpsAreWhole, Changes
      <4>3. PICK pc, m : /\ Becomes(r, pc, c, m, req[r].view) /\ pc \in {"write", "refused"}
                         /\ pc = "write" => m = QtyIn(c, v) + req[r].op.qty
        BY <1>0, <2>5, CartAssumption, ReadForAddMoves
      <4>4. QtyIn(c, v) + req[r].op.qty = BasketAfter(req[r].op)[v]
        <5>1. req[r].op.kind = "add" /\ v \in Variants
          BY <1>0, <4>1 DEF OpsAreWhole
        <5>2. QtyIn(c, v) = basket[v]
          BY <1>0, <4>2, <5>1, QtyInIsHeld, ViewIsHeld
        <5>3. BasketAfter(req[r].op) = [basket EXCEPT ![v] = @ + req[r].op.qty]
          BY <5>1 DEF BasketAfter
        <5> QED
          BY <1>0, <5>1, <5>2, <5>3 DEF TypeOK
      <4>5. /\ InHand(r)' = c /\ req'[r].op = req[r].op /\ req'[r].pc = pc /\ req'[r].next = m
        BY <4>3 DEF Becomes, InHand, Resolving
      <4> QED
        BY <4>1, <4>2, <4>3, <4>4, <4>5, StillFollows DEF Before
    <3> QED
      BY <3>1, <3>2, <3>3, FollowsIsEnough
  <2>6. CASE WriteAdd(r)
    <3> SUFFICES ASSUME ~disturbed, ~setAside
                 PROVE  BasketFollows'
      BY <2>6 DEF WriteAdd, BasketFollows
    <3>1. Alone(r) /\ Follows(r) /\ UnderWay(r) /\ \A q \in Requests : q # r => ~UnderWay(q)
      BY <2>6 DEF WriteAdd, OneAtATime, BasketFollows, Alone, Follows, UnderWay
    <3>2. Others(r) /\ UnderWay(r)'
      BY <1>0, <2>6, CartAssumption, WriteAddMoves DEF Becomes, UnderWay
    <3>3. Follows(r)'
      <4>1. OnePerVariant(line) /\ OnePerVariant(line')
        BY <1>0 DEF Sound, LinesAreReal, OnePerVariant
      <4> DEFINE c == req[r].cart
                 v == req[r].op.variant
                 q == req[r].next
                 i == IF LineFor(c, v) = {} THEN r ELSE CHOOSE j \in LineFor(c, v) : TRUE
                 new == [cart |-> c, variant |-> v, qty |-> q]
      <4>2. /\ line' = [line EXCEPT ![i] = new] /\ UNCHANGED basket
            /\ req[r].pc = "write" /\ req[r].op.kind = "add"
        BY <2>6 DEF WriteAdd
      <4>3. v \in Variants /\ q \in Nat
        BY <1>0, <4>2 DEF OpsAreWhole, TypeOK, RequestStates
      <4>4. i \in Carts /\ (line[i].qty > 0 => line[i].cart = c /\ line[i].variant = v)
        <5>1. CASE LineFor(c, v) = {}
          BY <1>0, <4>2, <5>1 DEF LinesAreReal, Written, After, Carts
        <5>2. CASE LineFor(c, v) # {}
          BY <5>2 DEF LineFor, LinesOf
        <5> QED
          BY <5>1, <5>2
      <4>5. \A j \in Carts : j # i /\ j \in Rows(line, c) => line[j].variant # v
        <5>1. CASE LineFor(c, v) = {}
          BY <5>1 DEF LineFor, LinesOf, Rows
        <5>2. CASE LineFor(c, v) # {}
          <6>1. i \in LineFor(c, v)
            BY <5>2
          <6> HIDE DEF i
          <6> QED
            BY <4>1, <6>1 DEF LineFor, LinesOf, Rows, OnePerVariant
        <5> QED
          BY <5>1, <5>2
      <4>6. Quantities(Contents(c)) = basket /\ q = BasketAfter(req[r].op)[v]
        BY <3>1, <4>2 DEF Follows, Before, InHand, Resolving
      <4>7. BasketAfter(req[r].op) = [basket EXCEPT ![v] = q]
        <5>1. BasketAfter(req[r].op) = [basket EXCEPT ![v] = @ + req[r].op.qty]
          BY <4>2 DEF BasketAfter
        <5> HIDE DEF v, q
        <5> QED
          BY <1>0, <4>3, <4>6, <5>1 DEF TypeOK
      <4>8. Holds(line, c) = basket
        BY <4>6, ViewIsHeld
      <4>9. Becomes(r, "touch", c, req[r].next, req[r].view)
        BY <1>0, <2>6, WriteAddMoves
      <4> HIDE DEF i, v, q, c
      <4>10. line'[i] = new /\ \A j \in Carts : j # i => line'[j] = line[j]
        BY <1>0, <4>2, <4>4 DEF TypeOK
      <4>11. Holds(line', c) = [Holds(line, c) EXCEPT ![v] = q]
        BY <4>1, <4>3, <4>4, <4>5, <4>10, OneLineWritten
      <4>12. Holds(line', c) = BasketAfter(req[r].op)
        BY <4>7, <4>8, <4>11
      <4> QED
        BY <4>2, <4>9, <4>12, NowFollows DEF Becomes, After
    <3> QED
      BY <3>1, <3>2, <3>3, FollowsIsEnough
  <2>7. CASE ReadForUpdate(r)
    <3> SUFFICES ASSUME ~disturbed, ~setAside
                 PROVE  BasketFollows'
      BY <2>7 DEF ReadForUpdate, BasketFollows
    <3>1. Alone(r) /\ Follows(r) /\ UnderWay(r) /\ \A q \in Requests : q # r => ~UnderWay(q)
      BY <2>7 DEF ReadForUpdate, OneAtATime, BasketFollows, Alone, Follows, UnderWay
    <3>2. Others(r) /\ UnderWay(r)'
      BY <1>0, <2>7, CartAssumption, ReadForUpdateMoves DEF Becomes, UnderWay
    <3>3. Follows(r)'
      <4> DEFINE c == req[r].cart
                 v == req[r].op.variant
      <4>1. UNCHANGED <<tables, browser>> /\ req[r].pc = "act"
        BY <2>7 DEF ReadForUpdate
      <4>2. /\ Quantities(Contents(c)) = basket
            /\ req[r].op.kind \in Changes => req[r].op.item \in LinesOf(c)
        BY <3>1, <4>1 DEF Follows, InHand, Resolving, Before
      <4>3. PICK pc, m : /\ Becomes(r, pc, c, m, req[r].view) /\ pc \in {"write", "refused"}
                         /\ pc = "write" => m = req[r].op.qty
        BY <1>0, <2>7, CartAssumption, ReadForUpdateMoves
      <4>4. req[r].op.qty = BasketAfter(req[r].op)[v]
        <5>1. req[r].op.kind = "update" /\ v \in Variants
          BY <1>0, <2>7 DEF ReadForUpdate, OpsAreWhole, Changes
        <5>2. BasketAfter(req[r].op) = [basket EXCEPT ![v] = req[r].op.qty]
          BY <5>1 DEF BasketAfter
        <5> QED
          BY <1>0, <5>1, <5>2 DEF TypeOK
      <4>5. /\ InHand(r)' = c /\ req'[r].op = req[r].op /\ req'[r].pc = pc /\ req'[r].next = m
        BY <4>3 DEF Becomes, InHand, Resolving
      <4> QED
        BY <4>1, <4>2, <4>3, <4>4, <4>5, StillFollows DEF Before
    <3> QED
      BY <3>1, <3>2, <3>3, FollowsIsEnough
  <2>8. CASE WriteUpdate(r)
    <3> SUFFICES ASSUME ~disturbed, ~setAside
                 PROVE  BasketFollows'
      BY <2>8 DEF WriteUpdate, BasketFollows
    <3>1. Alone(r) /\ Follows(r) /\ UnderWay(r) /\ \A q \in Requests : q # r => ~UnderWay(q)
      BY <2>8 DEF WriteUpdate, OneAtATime, BasketFollows, Alone, Follows, UnderWay
    <3>2. Others(r) /\ UnderWay(r)'
      BY <1>0, <2>8, CartAssumption, WriteUpdateMoves DEF Becomes, UnderWay
    <3>3. Follows(r)'
      <4>1. OnePerVariant(line) /\ OnePerVariant(line')
        BY <1>0 DEF Sound, LinesAreReal, OnePerVariant
      <4> DEFINE c == req[r].cart
                 v == req[r].op.variant
                 i == req[r].op.item
                 q == req[r].next
      <4>2. req[r].pc = "write" /\ req[r].op.kind = "update" /\ UNCHANGED basket
        BY <2>8 DEF WriteUpdate
      <4>3. v \in Variants /\ q \in Nat /\ i \in Carts /\ line[i] \in Lines
        BY <1>0, <4>2 DEF OpsAreWhole, Changes, TypeOK, RequestStates
      <4>4. i \in LinesOf(c) /\ line[i].qty > 0 /\ line[i].cart = c /\ line[i].variant = v
        <5>1. i \in LinesOf(c)
          BY <3>1, <4>2 DEF Follows, Changes, InHand, Resolving
        <5> QED
          BY <1>0, <4>2, <5>1 DEF LinesOf, LinesAreReal, Is, Changes
      <4>5. \A j \in Carts : j # i /\ j \in Rows(line, c) => line[j].variant # v
        BY <4>1, <4>3, <4>4 DEF Rows, OnePerVariant
      <4>6. Quantities(Contents(c)) = basket /\ q = BasketAfter(req[r].op)[v]
        BY <3>1, <4>2 DEF Follows, Before, InHand, Resolving
      <4>7. BasketAfter(req[r].op) = [basket EXCEPT ![v] = q]
        <5>1. BasketAfter(req[r].op) = [basket EXCEPT ![v] = req[r].op.qty]
          BY <4>2 DEF BasketAfter
        <5> HIDE DEF v, q
        <5> QED
          BY <1>0, <4>3, <4>6, <5>1 DEF TypeOK
      <4>8. Holds(line, c) = basket
        BY <4>6, ViewIsHeld
      <4>9. Becomes(r, "touch", c, req[r].next, req[r].view)
        BY <1>0, <2>8, <4>4, WriteUpdateMoves
      <4>10. line' = [line EXCEPT ![i] = IF q = 0 THEN NoLine ELSE [line[i] EXCEPT !.qty = q]]
        BY <1>0, <2>8, <4>4 DEF WriteUpdate, TypeOK
      <4> HIDE DEF i, v, c, q
      <4>11. \A j \in Carts : j # i => line'[j] = line[j]
        BY <1>0, <4>3, <4>10 DEF TypeOK
      <4>12. line'[i].qty = q /\ (q > 0 => line'[i].cart = c /\ line'[i].variant = v)
        <5>1. line'[i] = IF q = 0 THEN NoLine ELSE [line[i] EXCEPT !.qty = q]
          BY <1>0, <4>3, <4>10 DEF TypeOK
        <5> QED
          BY <4>3, <4>4, <5>1 DEF NoLine, Lines
      <4>13. Holds(line', c) = [Holds(line, c) EXCEPT ![v] = q]
        BY <4>1, <4>3, <4>4, <4>5, <4>11, <4>12, OneLineWritten
      <4>14. Holds(line', c) = BasketAfter(req[r].op)
        BY <4>7, <4>8, <4>13
      <4> QED
        BY <4>2, <4>9, <4>14, NowFollows DEF Becomes, After
    <3> QED
      BY <3>1, <3>2, <3>3, FollowsIsEnough
  <2>9. CASE RemoveLine(r)
    <3> SUFFICES ASSUME ~disturbed, ~setAside
                 PROVE  BasketFollows'
      BY <2>9 DEF RemoveLine, BasketFollows
    <3>1. Alone(r) /\ Follows(r) /\ UnderWay(r) /\ \A q \in Requests : q # r => ~UnderWay(q)
      BY <2>9 DEF RemoveLine, OneAtATime, BasketFollows, Alone, Follows, UnderWay
    <3>2. Others(r) /\ UnderWay(r)'
      BY <1>0, <2>9, CartAssumption, RemoveLineMoves DEF Becomes, UnderWay
    <3>3. Follows(r)'
      <4>1. OnePerVariant(line) /\ OnePerVariant(line')
        BY <1>0 DEF Sound, LinesAreReal, OnePerVariant
      <4> DEFINE c == req[r].cart
                 v == req[r].op.variant
                 i == req[r].op.item
                 q == 0
      <4>2. req[r].pc = "act" /\ req[r].op.kind = "remove" /\ UNCHANGED basket
        BY <2>9 DEF RemoveLine
      <4>3. v \in Variants /\ q \in Nat /\ i \in Carts /\ line[i] \in Lines
        BY <1>0, <4>2 DEF OpsAreWhole, Changes, TypeOK, RequestStates
      <4>4. i \in LinesOf(c) /\ line[i].qty > 0 /\ line[i].cart = c /\ line[i].variant = v
        <5>1. i \in LinesOf(c)
          BY <3>1, <4>2 DEF Follows, Changes, InHand, Resolving
        <5> QED
          BY <1>0, <4>2, <5>1 DEF LinesOf, LinesAreReal, Is, Changes
      <4>5. \A j \in Carts : j # i /\ j \in Rows(line, c) => line[j].variant # v
        BY <4>1, <4>3, <4>4 DEF Rows, OnePerVariant
      <4>6. Quantities(Contents(c)) = basket /\ q = BasketAfter(req[r].op)[v]
        <5>1. Quantities(Contents(c)) = basket
          BY <3>1, <4>2 DEF Follows, Before, InHand, Resolving
        <5>2. BasketAfter(req[r].op) = [basket EXCEPT ![v] = req[r].op.qty]
          BY <4>2 DEF BasketAfter
        <5>3. req[r].op.qty = 0
          BY <1>0, <4>2 DEF OpsAreWhole
        <5> HIDE DEF v
        <5> QED
          BY <1>0, <4>3, <5>1, <5>2, <5>3 DEF TypeOK
      <4>7. BasketAfter(req[r].op) = [basket EXCEPT ![v] = q]
        <5>1. BasketAfter(req[r].op) = [basket EXCEPT ![v] = req[r].op.qty]
          BY <4>2 DEF BasketAfter
        <5> HIDE DEF v, q
        <5> QED
          BY <1>0, <4>3, <4>6, <5>1 DEF TypeOK
      <4>8. Holds(line, c) = basket
        BY <4>6, ViewIsHeld
      <4>9. Becomes(r, "touch", c, req[r].next, req[r].view)
        BY <1>0, <2>9, <4>4, RemoveLineMoves
      <4>10. line' = [line EXCEPT ![i] = NoLine]
        BY <1>0, <2>9, <4>4 DEF RemoveLine, TypeOK
      <4> HIDE DEF i, v, c
      <4>11. \A j \in Carts : j # i => line'[j] = line[j]
        BY <1>0, <4>3, <4>10 DEF TypeOK
      <4>12. line'[i].qty = q /\ (q > 0 => line'[i].cart = c /\ line'[i].variant = v)
        <5>1. line'[i] = NoLine
          BY <1>0, <4>3, <4>10 DEF TypeOK
        <5> QED
          BY <4>3, <4>4, <5>1 DEF NoLine, Lines
      <4>13. Holds(line', c) = [Holds(line, c) EXCEPT ![v] = q]
        BY <4>1, <4>3, <4>4, <4>5, <4>11, <4>12, OneLineWritten
      <4>14. Holds(line', c) = BasketAfter(req[r].op)
        BY <4>7, <4>8, <4>13
      <4> QED
        BY <4>2, <4>9, <4>14, NowFollows DEF Becomes, After
    <3> QED
      BY <3>1, <3>2, <3>3, FollowsIsEnough
  <2>10. CASE Touch(r)
    <3> SUFFICES ASSUME ~disturbed, ~setAside
                 PROVE  BasketFollows'
      BY <2>10 DEF Touch, BasketFollows
    <3>1. Alone(r) /\ Follows(r) /\ UnderWay(r) /\ \A q \in Requests : q # r => ~UnderWay(q)
      BY <2>10 DEF Touch, OneAtATime, BasketFollows, Alone, Follows, UnderWay
    <3>2. Others(r) /\ UnderWay(r)'
      BY <1>0, <2>10, CartAssumption, TouchMoves DEF Becomes, UnderWay
    <3>3. Follows(r)'
      <4>1. UNCHANGED <<line, basket>> /\ req[r].pc = "touch"
        BY <2>10 DEF Touch
      <4>2. Becomes(r, "view", req[r].cart, req[r].next, req[r].view)
        BY <1>0, <2>10, TouchMoves
      <4>3. Holds(line, req[r].cart) = BasketAfter(req[r].op)
        BY <3>1, <4>1, ViewIsHeld DEF Follows, After
      <4> QED
        BY <4>1, <4>2, <4>3, NowFollows DEF Becomes, After
    <3> QED
      BY <3>1, <3>2, <3>3, FollowsIsEnough
  <2>11. CASE ReadView(r)
    <3> SUFFICES ASSUME ~disturbed, ~setAside
                 PROVE  BasketFollows'
      BY <2>11 DEF ReadView, BasketFollows
    <3>1. Alone(r) /\ Follows(r) /\ UnderWay(r) /\ \A q \in Requests : q # r => ~UnderWay(q)
      BY <2>11 DEF ReadView, OneAtATime, BasketFollows, Alone, Follows, UnderWay
    <3>2. Others(r) /\ UnderWay(r)'
      BY <1>0, <2>11, CartAssumption, ReadViewMoves DEF Becomes, UnderWay
    <3>3. Follows(r)'
      <4>1. /\ UNCHANGED <<line, basket>>
            /\ req[r].pc = "view" \/ (req[r].pc = "act" /\ req[r].op.kind = "get")
        BY <2>11 DEF ReadView
      <4>2. PICK view : Becomes(r, "price", req[r].cart, req[r].next, view)
        BY <1>0, <2>11, ReadViewMoves
      <4>3. Holds(line, req[r].cart) = BasketAfter(req[r].op)
        <5>1. CASE req[r].pc = "view"
          BY <3>1, <5>1, ViewIsHeld DEF Follows, After
        <5>2. CASE req[r].pc = "act" /\ req[r].op.kind = "get"
          <6>1. BasketAfter(req[r].op) = basket
            BY <5>2 DEF BasketAfter
          <6> QED
            BY <3>1, <5>2, <6>1, ViewIsHeld DEF Follows, Before, Resolving, InHand
        <5> QED
          BY <4>1, <5>1, <5>2
      <4> QED
        BY <4>1, <4>2, <4>3, NowFollows DEF Becomes, After
    <3> QED
      BY <3>1, <3>2, <3>3, FollowsIsEnough
  <2>12. CASE Arrive(r)
    <3> SUFFICES ASSUME ~disturbed, ~setAside
                 PROVE  BasketFollows'
      BY <2>12 DEF Arrive, BasketFollows
    <3>1. Alone(r) /\ Follows(r) /\ \A q \in Requests : q # r => ~UnderWay(q)
      BY <2>12 DEF Arrive, OneAtATime, BasketFollows, Alone, Follows, UnderWay
    <3>2. Others(r) /\ req'[r] = Over
      <4>1. req' = [req EXCEPT ![r] = Over]
        BY <2>12 DEF Arrive
      <4> QED
        BY <1>0, <4>1, CartAssumption, Ends
    <3>3. \A q \in Requests : req'[q].pc \in {"idle", "over"}
      BY <3>1, <3>2 DEF Others, UnderWay, Over, Resting
    <3>4. CartInHand' = req[r].cart
      <4>1. req[r].pc \in Before \cup After /\ signedIn' = signedIn /\ cookie' = CookieOf(r)
            /\ req[r].who = signedIn /\ signedIn \in {Customer, Nobody}
        BY <1>0, <2>12, <3>1 DEF Arrive, Before, After, Alone, UnderWay, TypeOK
      <4>2. UNCHANGED <<owner, newer>>
        BY <2>12 DEF Arrive
      <4>3. CASE signedIn = Customer
        <5>1. OwnCarts(Customer) = {req[r].cart}
          BY <3>1, <4>1, <4>3 DEF Alone, OneAtATime
        <5>2. Latest(OwnCarts(Customer)) = req[r].cart
          <6>1. OwnCarts(Customer) \in SUBSET Existing
            BY <1>0, CartAssumption, OwnExist
          <6> QED
            BY <1>0, <5>1, <6>1, LatestIsOne
        <5>3. UNCHANGED <<OwnCarts(Customer), Latest(OwnCarts(Customer))>>
          BY <4>2 DEF OwnCarts, Latest
        <5> QED
          BY <4>1, <4>3, <5>1, <5>2, <5>3, CartAssumption DEF CartInHand, HandOf
      <4>4. CASE signedIn = Nobody
        <5>1. req[r].cart \in guestToken
          BY <3>1, <4>1, <4>4, CartAssumption DEF Alone
        <5> QED
          BY <4>1, <4>4, <5>1 DEF CartInHand, HandOf, CookieOf
      <4> QED
        BY <4>1, <4>3, <4>4
    <3>5. Quantities(Contents(req[r].cart)) = basket'
      BY <3>1, <2>12 DEF Arrive, Follows, Before, After, InHand, Resolving
    <3>6. Quantities(Contents(CartInHand))' = basket'
      <4>1. line' = line
        BY <2>12 DEF Arrive
      <4> QED
        BY <3>4, <3>5, <4>1 DEF Contents, LinesOf
    <3> QED
      BY <3>3, <3>6 DEF BasketFollows, Resolving, Before, After
  <2>13. CASE Fail(r)
    BY <2>13 DEF Fail, BasketFollows
  <2>14. CASE Send(r)
    <3> SUFFICES ASSUME ~disturbed', ~setAside'
                 PROVE  BasketFollows'
      BY DEF BasketFollows
    <3>1. ~disturbed /\ ~setAside /\ \A q \in Requests : ~UnderWay(q)
      BY <2>14 DEF Send
    <3>2. PICK op \in MayAsk(r) : req'[r] = Asked(op)
      BY <1>0, <2>14, CartAssumption, SendMoves
    <3>3. Others(r)
      BY <1>0, <2>14, CartAssumption, SendMoves
    <3>4. UNCHANGED <<CartInHand, Contents(CartInHand), LinesOf(CartInHand), basket>>
      <4>1. UNCHANGED <<owner, newer, line, cookie, signedIn, basket>>
        BY <2>14 DEF Send
      <4>2. CartInHand' = CartInHand
        BY <4>1 DEF CartInHand, HandOf, OwnCarts, Latest
      <4> QED
        BY <4>1, <4>2 DEF Contents, LinesOf
    <3>5. op.kind \in Changes => op.item \in LinesOf(CartInHand)
      BY <1>0, <3>2, <2>14, CartAssumption, AskedIsWhole DEF Send, Asked, Carts
    <3>6. Quantities(Contents(CartInHand)) = basket
      BY <3>1 DEF BasketFollows
    <3>7. req'[r].op = op /\ req'[r].pc \in {"customer", "guest", "create"}
      BY <3>2 DEF Asked
    <3>8. InHand(r)' = CartInHand
      BY <3>4, <3>7 DEF InHand, Resolving
    <3>9. Follows(r)' /\ UnderWay(r)'
      BY <3>4, <3>5, <3>6, <3>7, <3>8 DEF Follows, UnderWay, Resolving, Before, After
    <3> QED
      BY <3>1, <3>3, <3>9, FollowsIsEnough
  <2>15. CASE FindVariant(r)
    <3> SUFFICES ASSUME ~disturbed, ~setAside
                 PROVE  BasketFollows'
      BY <2>15 DEF FindVariant, BasketFollows
    <3>1. Alone(r) /\ Follows(r) /\ UnderWay(r) /\ \A q \in Requests : q # r => ~UnderWay(q)
      BY <2>15 DEF FindVariant, OneAtATime, BasketFollows, Alone, Follows, UnderWay
    <3>2. Others(r) /\ UnderWay(r)'
      BY <1>0, <2>15, FindVariantMoves DEF Becomes, UnderWay
    <3>3. Follows(r)'
      <4> DEFINE c == req[r].cart
      <4>1. UNCHANGED <<tables, browser>> /\ req[r].pc = "act"
        BY <2>15 DEF FindVariant
      <4>2. /\ Quantities(Contents(c)) = basket
            /\ req[r].op.kind \in Changes => req[r].op.item \in LinesOf(c)
        BY <3>1, <4>1 DEF Follows, InHand, Resolving, Before
      <4>3. PICK pc : Becomes(r, pc, c, req[r].next, req[r].view) /\ pc \in {"count", "refused"}
        BY <1>0, <2>15, FindVariantMoves
      <4>4. InHand(r)' = c /\ req'[r].op = req[r].op /\ req'[r].pc = pc
        BY <4>3 DEF Becomes, InHand, Resolving
      <4> QED
        BY <4>1, <4>2, <4>3, <4>4, StillFollows DEF Before
    <3> QED
      BY <3>1, <3>2, <3>3, FollowsIsEnough
  <2>16. CASE PriceView(r)
    <3> SUFFICES ASSUME ~disturbed, ~setAside
                 PROVE  BasketFollows'
      BY <2>16 DEF PriceView, BasketFollows
    <3>1. Alone(r) /\ Follows(r) /\ UnderWay(r) /\ \A q \in Requests : q # r => ~UnderWay(q)
      BY <2>16 DEF PriceView, OneAtATime, BasketFollows, Alone, Follows, UnderWay
    <3>2. Others(r) /\ UnderWay(r)'
      BY <1>0, <2>16, PriceViewMoves DEF Becomes, UnderWay
    <3>3. Follows(r)'
      <4>1. UNCHANGED <<line, basket>> /\ req[r].pc = "price"
        BY <2>16 DEF PriceView
      <4>2. PICK view : Becomes(r, "answered", req[r].cart, req[r].next, view)
        BY <1>0, <2>16, PriceViewMoves
      <4>3. Holds(line, req[r].cart) = BasketAfter(req[r].op)
        BY <3>1, <4>1, ViewIsHeld DEF Follows, After
      <4> QED
        BY <4>1, <4>2, <4>3, NowFollows DEF Becomes, After
    <3> QED
      BY <3>1, <3>2, <3>3, FollowsIsEnough
  <2> QED
    BY <1>2, <2>1, <2>2, <2>3, <2>4, <2>5, <2>6, <2>7,
       <2>8, <2>9, <2>10, <2>11, <2>12, <2>13, <2>14, <2>15, <2>16 DEF RequestStep
<1>3. CASE UNCHANGED vars
  <2>1. UNCHANGED <<tables, browser, req>>
    BY <1>3 DEF vars
  <2>2. UNCHANGED CartInHand /\ \A c : Contents(c)' = Contents(c) /\ LinesOf(c)' = LinesOf(c)
    BY <2>1 DEF CartInHand, HandOf, OwnCarts, Latest, Contents, LinesOf
  <2>3. \A r \in Requests : /\ InHand(r)' = InHand(r)
                            /\ BasketAfter(req[r].op)' = BasketAfter(req[r].op)
    BY <2>1, <2>2 DEF InHand, BasketAfter
  <2> QED
    BY <2>1, <2>2, <2>3 DEF BasketFollows, UnderWay
<1> QED
  BY <1>1, <1>2, <1>3, <1>4 DEF Next, SignIn, ExpireToken

-----------------------------------------------------------------------------
(* The theorems. *)

(* Together: the invariant is inductive. *)
LEMMA CartSteps == CartInv /\ [Next]_vars => CartInv'
<1> SUFFICES ASSUME CartInv, [Next]_vars
             PROVE  CartInv'
  OBVIOUS
<1>1. Sound /\ OneAtATime /\ BasketFollows
  BY DEF CartInv
<1>2. TypeOK'
  BY <1>1, TypeStep
<1>3. OpsAreWhole'
  BY <1>1, OpsStep
<1>4. CartsExist'
  BY <1>1, <1>2, CartsStep
<1>5. LinesAreReal'
  BY <1>1, <1>2, <1>4, LinesStep
<1>6. Checked'
  BY <1>1, CheckedStep
<1>7. QtyInRange'
  BY <1>1, RangeStep
<1>8. Sound'
  BY <1>2, <1>3, <1>4, <1>5, <1>6, <1>7 DEF Sound
<1>9. OneAtATime'
  BY <1>1, OneStep
<1>10. BasketFollows'
  BY <1>1, <1>8, <1>9, BasketStep
<1> QED
  BY <1>8, <1>9, <1>10 DEF CartInv

(* The inductive invariant of the cart: what holds however requests         *)
(* overlap, and what holds while none has.                                  *)
THEOREM CartHolds == Spec => []CartInv
<1>1. Init => CartInv
  BY Start
<1> QED
  BY <1>1, CartSteps, PTL DEF Spec

(* The kitchen's limits on an item: however requests overlap and whichever  *)
(* are lost, no line of any cart is outside them.                           *)
THEOREM LimitsHold == Spec => []QtyInRange
<1>1. CartInv => QtyInRange
  BY DEF CartInv, Sound
<1> QED
  BY <1>1, CartHolds, PTL

(* What a view shows of an item is what its cart holds, unless it is unsold. *)
LEMMA ViewShows ==
    ASSUME NEW c, NEW v \in Variants
    PROVE  Quantities(View(c))[v] =
               IF offer[v] = "unsold" THEN 0 ELSE Quantities(Contents(c))[v]
<1>1. CASE offer[v] = "unsold"
  <2>1. InView(View(c), v) = {}
    BY <1>1 DEF View, Priced, InView
  <2> QED
    BY <1>1, <2>1 DEF Quantities
<1>2. CASE offer[v] # "unsold"
  <2>1. InView(View(c), v) = InView(Contents(c), v)
    BY <1>2 DEF View, Priced, InView
  <2> QED
    BY <1>2, <2>1 DEF Quantities
<1> QED
  BY <1>1, <1>2

(* Requests that come one after the other, over any number of pages, across *)
(* cookies, sign-ins and expiries of the token and whatever the catalogue   *)
(* withdraws, find in the cart what the person put there, unless a basket   *)
(* was left for another cart.                                               *)
THEOREM BasketIsKept == Spec => []BasketKept
<1>1. CartInv => BasketKept
  <2> SUFFICES ASSUME CartInv, ~disturbed, ~setAside, \A r \in Requests : ~UnderWay(r),
                      NEW v \in Variants
               PROVE  Quantities(View(CartInHand))[v] =
                          IF offer[v] = "unsold" THEN 0 ELSE basket[v]
    BY DEF BasketKept
  <2>1. Quantities(Contents(CartInHand)) = basket
    BY DEF CartInv, BasketFollows
  <2> QED
    BY <2>1, ViewShows
<1> QED
  BY <1>1, CartHolds, PTL

-----------------------------------------------------------------------------
(* Totals. *)

(* The price and the rate of a line are numbers. *)
LEMMA PricesAreNat ==
    ASSUME NEW view \in Views, NEW l \in view
    PROVE  LinePrice(l) \in Nat /\ TaxRate[l.variant] \in Nat
<1>1. l.variant \in Variants /\ l.qty \in Nat
  BY DEF Views
<1>2. Price[l.variant] \in Nat /\ TaxRate[l.variant] \in Nat
  BY <1>1, CartAssumption
<1>3. \A m, n \in Nat : m * n \in Nat
  OBVIOUS
<1> QED
  BY <1>1, <1>2, <1>3 DEF LinePrice

(* The split of a line: what it adds to the totals of its cart.             *)
LEMMA LineAddsUp ==
    ASSUME NEW view \in Views, NEW l \in view, NEW inclusive \in BOOLEAN,
           NEW s \in LineSplits(l, inclusive)
    PROVE  /\ s.net \in Nat /\ s.tax \in Nat /\ s.gross = s.net + s.tax
           /\ (IF inclusive THEN s.gross ELSE s.net) = LinePrice(l)
<1> DEFINE rate == TaxRate[l.variant]
           minor == LinePrice(l)
<1>1. minor \in Nat /\ rate \in Nat
  BY PricesAreNat
<1>2. s \in splitTax(minor, rate, inclusive)
  BY DEF LineSplits
<1> HIDE DEF minor, rate
<1>3. CASE rate = 0
  BY <1>1, <1>2, <1>3 DEF splitTax, Split, minor
<1>4. CASE rate # 0 /\ inclusive = TRUE
  <2>1. PICK net \in Rounded(100 * minor, 100 + rate) : s = Split(net, minor - net)
    BY <1>2, <1>4 DEF splitTax
  <2>2. net \in Nat /\ net <= minor
    BY <1>1, <1>4, NetIsLess
  <2>3. s.net = net /\ s.tax = minor - net /\ s.gross = net + (minor - net)
    BY <2>1 DEF Split
  <2>4. s.gross = minor /\ s.tax \in Nat
    BY <1>1, <2>2, <2>3
  <2> QED
    BY <1>4, <2>2, <2>3, <2>4 DEF minor
<1>5. CASE rate # 0 /\ inclusive = FALSE
  <2>1. PICK tax \in Rounded(rate * minor, 100) : s = Split(minor, tax)
    BY <1>2, <1>5 DEF splitTax
  <2>2. rate * minor \in Nat
    BY <1>1
  <2>3. tax \in Nat
    BY <2>2, RoundedIsNear
  <2> QED
    BY <1>1, <1>5, <2>1, <2>3 DEF Split, minor
<1> QED
  BY <1>3, <1>4, <1>5

(* The lines of a request's view are finitely many.                         *)
ViewsAreFinite == \A r \in Requests : IsFiniteSet(req[r].view)

(* The rows of a cart are finitely many. *)
LEMMA ContentsAreFinite ==
    ASSUME NEW c
    PROVE  IsFiniteSet(Contents(c))
<1>1. IsFiniteSet(Carts)
  BY CartAssumption, FS_AddElement DEF Carts
<1>2. IsFiniteSet(LinesOf(c))
  BY <1>1, FS_Subset DEF LinesOf
<1> DEFINE row == [i \in LinesOf(c) |-> [id |-> i, variant |-> line[i].variant,
                                        qty |-> line[i].qty]]
<1>3. row \in Surjection(LinesOf(c), Contents(c))
  BY DEF Surjection, Contents
<1> QED
  BY <1>2, <1>3, FS_Surjection

(* Every step keeps the views finite: ReadView reads rows, the rest hands on.*)
LEMMA FiniteStep ==
    ASSUME Sound, ViewsAreFinite, [Next]_vars
    PROVE  ViewsAreFinite'
<1>0. TypeOK
  BY DEF Sound
<1>1. CASE UNCHANGED req
  BY <1>1 DEF ViewsAreFinite
<1>2. ASSUME NEW r \in Requests, NEW view, IsFiniteSet(view), Others(r), req'[r].view = view
      PROVE  ViewsAreFinite'
  BY <1>2 DEF ViewsAreFinite, Others
<1>3. ASSUME NEW r \in Requests, RequestStep(r)
      PROVE  ViewsAreFinite'
  <2>0. IsFiniteSet(req[r].view) /\ IsFiniteSet({})
    BY FS_EmptySet DEF ViewsAreFinite
  <2>1. CASE FindCustomerCart(r) \/ FindGuestCart(r) \/ Adopt(r) \/ Create(r)
    BY <1>2, <2>0, <2>1, FindCustomerCartMoves, FindGuestCartMoves, AdoptMoves, CreateMoves
       DEF Becomes
  <2>2. CASE FindVariant(r) \/ ReadForAdd(r) \/ WriteAdd(r) \/ ReadForUpdate(r)
    BY <1>2, <2>0, <2>2, FindVariantMoves, ReadForAddMoves, WriteAddMoves, ReadForUpdateMoves
       DEF Becomes
  <2>3. CASE WriteUpdate(r) \/ RemoveLine(r) \/ Touch(r)
    BY <1>2, <2>0, <2>3, WriteUpdateMoves, RemoveLineMoves, TouchMoves DEF Becomes
  <2>4. CASE ReadView(r)
    BY <1>2, <2>4, ReadViewMoves, ContentsAreFinite DEF Becomes
  <2>5. CASE PriceView(r)
    <3>1. IsFiniteSet(Priced(req[r].view))
      BY <2>0, FS_Subset DEF Priced
    <3> QED
      BY <1>2, <2>5, <3>1, PriceViewMoves DEF Becomes
  <2>6. CASE Arrive(r) \/ Fail(r)
    <3>1. Others(r) /\ req'[r] = Over
      BY <1>0, <2>6, Ends DEF Arrive, Fail
    <3>2. req'[r].view = {}
      BY <3>1 DEF Over, Resting
    <3> QED
      BY <1>2, <2>0, <3>1, <3>2
  <2>7. CASE Send(r)
    <3>1. PICK op : Others(r) /\ req'[r] = Asked(op)
      BY <2>7, SendMoves
    <3>2. req'[r].view = {}
      BY <3>1 DEF Asked
    <3> QED
      BY <1>2, <2>0, <3>1, <3>2
  <2> QED
    BY <1>3, <2>1, <2>2, <2>3, <2>4, <2>5, <2>6, <2>7 DEF RequestStep
<1> QED
  BY <1>1, <1>3 DEF Next, SignIn, ExpireToken, Identify, Switch, vars

(* So a view can be summed up. *)
LEMMA ViewsStayFinite == Spec => []ViewsAreFinite
<1>1. Init => ViewsAreFinite
  <2>1. Init => \A r \in Requests : req[r].view = {}
    BY DEF Init, Idle, Resting
  <2> QED
    BY <2>1, FS_EmptySet DEF ViewsAreFinite
<1>2. CartInv /\ ViewsAreFinite /\ [Next]_vars => ViewsAreFinite'
  BY FiniteStep DEF CartInv
<1> QED
  BY <1>1, <1>2, CartHolds, PTL DEF Spec

(* The totals of an answer, over all the lines it shows: subtotal and tax   *)
(* come to the total, and the prices shown, times the quantities, to the    *)
(* total where they include tax and to the subtotal where they do not.      *)
LEMMA AnswerAddsUp ==
    ASSUME NEW view \in Views, IsFiniteSet(view), NEW inclusive \in BOOLEAN,
           NEW split \in Splits(view, inclusive)
    PROVE  LET subtotal == toMinorUnits(Totals(split).subtotal)
               tax == toMinorUnits(Totals(split).tax)
               total == toMinorUnits(Totals(split).total)
           IN  /\ subtotal + tax = total
               /\ (IF inclusive THEN total ELSE subtotal) = MapThenSumSet(LinePrice, view)
<1> DEFINE net == [l \in view |-> split[l].net]
           tax == [l \in view |-> split[l].tax]
           gross == [l \in view |-> split[l].gross]
           prices == [l \in view |-> LinePrice(l)]
           subtotal == toMinorUnits(Totals(split).subtotal)
           taxes == toMinorUnits(Totals(split).tax)
           total == toMinorUnits(Totals(split).total)
<1>1. DOMAIN split = view /\ \A l \in view : split[l] \in LineSplits(l, inclusive)
  BY DEF Splits
<1>2. \A l \in view : /\ split[l].net \in Nat /\ split[l].tax \in Nat
                       /\ split[l].gross = split[l].net + split[l].tax
                       /\ (IF inclusive THEN split[l].gross ELSE split[l].net) = LinePrice(l)
  BY <1>1, LineAddsUp
<1>3. net \in [view -> Nat] /\ tax \in [view -> Nat] /\ gross \in [view -> Nat]
  BY <1>2
<1>4. /\ subtotal = toMinorUnits(SumUp(net)) /\ taxes = toMinorUnits(SumUp(tax))
      /\ total = toMinorUnits(SumUp(gross))
  BY <1>1 DEF Totals
<1>5. \A l \in view : gross[l] = net[l] + tax[l]
  BY <1>2
<1>6. Counts(net, view) /\ Counts(tax, view) /\ Counts(gross, view)
  BY <1>3 DEF Counts
<1>7. IF inclusive THEN prices = gross ELSE prices = net
  BY <1>2
<1>8. \A l \in view : LinePrice(l) \in Nat
  BY PricesAreNat
<1> HIDE DEF net, tax, gross, subtotal, taxes, total, prices
<1>9. IsSum(subtotal, net, view) /\ IsSum(taxes, tax, view) /\ IsSum(total, gross, view)
  BY <1>3, <1>4, SumUpIsSum
<1>10. total = subtotal + taxes
  BY <1>5, <1>6, <1>9, SumsAdd
<1>11. subtotal \in Nat /\ taxes \in Nat
  BY <1>5, <1>6, <1>9, SumsAdd
<1>12. IsSum(MapThenSumSet(LinePrice, view), prices, view)
  BY <1>8, PricesAreSummed DEF prices
<1>13. (IF inclusive THEN total ELSE subtotal) = MapThenSumSet(LinePrice, view)
  BY <1>6, <1>7, <1>9, <1>12, OneSum
<1> QED
  BY <1>10, <1>11, <1>13 DEF subtotal, taxes, total

(* The totals of every answer are those of the lines it shows, for any      *)
(* number of lines, prices and rates, however halves are rounded.           *)
THEOREM TotalsHold == Spec => []TotalsAddUp
<1>1. CartInv /\ ViewsAreFinite => TotalsAddUp
  <2> SUFFICES ASSUME CartInv, ViewsAreFinite,
                      NEW r \in Requests, NEW inclusive \in BOOLEAN,
                      NEW split \in Splits(req[r].view, inclusive)
               PROVE  LET subtotal == toMinorUnits(Totals(split).subtotal)
                          tax == toMinorUnits(Totals(split).tax)
                          total == toMinorUnits(Totals(split).total)
                      IN  /\ subtotal + tax = total
                          /\ (IF inclusive THEN total ELSE subtotal)
                                 = MapThenSumSet(LinePrice, req[r].view)
    BY DEF TotalsAddUp
  <2>1. req[r].view \in Views
    BY DEF CartInv, Sound, TypeOK, RequestStates
  <2>2. IsFiniteSet(req[r].view)
    BY DEF ViewsAreFinite
  <2> QED
    BY <2>1, <2>2, AnswerAddsUp
<1> QED
  BY <1>1, CartHolds, ViewsStayFinite, PTL

(* A market that adds tax and one that includes it charge the same tax on   *)
(* the same line.                                                           *)
THEOREM TaxIsTheSameBothWays == Spec => []LinesRoundTrip
<1>1. CartInv => LinesRoundTrip
  <2>1. CartInv => \A c \in Carts : Contents(c) \in Views
    BY ViewType DEF CartInv, Sound
  <2> QED
    BY <2>1, PricesAreNat, AddedIsExtracted DEF LinesRoundTrip
<1> QED
  BY <1>1, CartHolds, PTL
=============================================================================
