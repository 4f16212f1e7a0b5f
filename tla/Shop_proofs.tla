----------------------------- MODULE Shop_proofs -----------------------------
(***************************************************************************)
(* The parts behind the pages of the shop, which share no state: the        *)
(* caches over the tables of the seed, with what they promise a reader; the *)
(* address book; the scroll through the catalogue; the dates of a product;  *)
(* the menu; and, from those, what holds of a storefront that has them all. *)
(***************************************************************************)
EXTENDS Storefront, Caches, FiniteSetTheorems, NaturalsInduction, WellFoundedInduction,
        TLAPS

(* Of some numbers, one is the least: what the proofs below have for        *)
(* induction over numbers and over the sizes of sets.                       *)
LEMMA LeastOf ==
  ASSUME NEW T, T \subseteq Nat, T # {}
  PROVE  \E n \in T : \A m \in T : n <= m
<1>1. PICK n \in T : \A m \in T : ~(<<m, n>> \in OpToRel(<, Nat))
  BY NatLessThanWellFounded, WFMin
<1>2. ASSUME NEW m \in T PROVE ~(m < n)
  <2>1. m < n => <<m, n>> \in OpToRel(<, Nat)
    BY Zenon DEF OpToRel
  <2>2. QED BY <1>1, <2>1, Zenon
<1>3. QED BY <1>2

-----------------------------------------------------------------------------
(* The seed and the caches. *)

(* The order of the seed's statements, as far as anything depends on it:    *)
(* each stands once, a role loses its permissions before it gets them, and  *)
(* rates come before prices.                                                *)
LEMMA InOrder ==
  /\ Len(Statements) = 25
  /\ \A i, j \in 1..25 : Statements[i] = Statements[j] => i = j
  /\ \A i \in 1..25 : Statements[i] \in Tables \cup {"strip"}
  /\ \A t \in Tables \cup {"strip"} : \E i \in 1..25 : Statements[i] = t
  /\ Statements[5] = "rate" /\ Statements[8] = "strip" /\ Statements[9] = "grants"
  /\ Statements[20] = "price"
  /\ {"market", "domain", "rate", "role", "grants", "membership", "category", "product",
      "link", "listing", "price"} \subseteq Tables
  /\ "strip" \notin Tables
<1>1. /\ Len(Statements) = 25
     /\ Statements[1] = "warehouse" /\ Statements[2] = "taxClass" /\ Statements[3] = "market"
     /\ Statements[4] = "domain" /\ Statements[5] = "rate" /\ Statements[6] = "permission"
     /\ Statements[7] = "role" /\ Statements[8] = "strip" /\ Statements[9] = "grants"
     /\ Statements[10] = "adminUser" /\ Statements[11] = "membership"
     /\ Statements[12] = "segment" /\ Statements[13] = "category"
     /\ Statements[14] = "product" /\ Statements[15] = "link" /\ Statements[16] = "image"
     /\ Statements[17] = "listing" /\ Statements[18] = "variant" /\ Statements[19] = "rule"
     /\ Statements[20] = "price" /\ Statements[21] = "zone" /\ Statements[22] = "postcode"
     /\ Statements[23] = "slot" /\ Statements[24] = "template" /\ Statements[25] = "setting"
  BY DEF Statements, MarketStatements, AccessStatements, CatalogueStatements,
         DeliveryStatements
<1>2. ASSUME NEW i \in 1..25, NEW j \in 1..25, Statements[i] = Statements[j] PROVE i = j
  BY <1>1, <1>2
<1>3. /\ \A i \in 1..25 : Statements[i] \in Tables \cup {"strip"}
      /\ \A t \in Tables \cup {"strip"} : \E i \in 1..25 : Statements[i] = t
      /\ "strip" \notin Tables
  <2>1. Tables = {Statements[i] : i \in 1..25} \ {"strip"}
    BY <1>1 DEF Tables
  <2>2. QED BY <1>1, <2>1
<1>4. {"market", "domain", "rate", "role", "grants", "membership", "category", "product",
       "link", "listing", "price"} \subseteq Tables
  BY <1>1 DEF Tables
<1>5. QED BY <1>1, <1>2, <1>3, <1>4

(* Where a statement stands. *)
LEMMA PositionIs ==
  /\ \A i \in 1..25 : Position(Statements[i]) = i
  /\ \A t \in Tables \cup {"strip"} : Position(t) \in 1..25 /\ Statements[Position(t)] = t
<1>1. \A i \in 1..25 : Position(Statements[i]) = i
  BY InOrder DEF Position
<1>2. QED BY <1>1, InOrder

-----------------------------------------------------------------------------
(* The seed. *)

(* A pass is past a statement. *)
Past(s) == Position(s) < at

(* The inductive invariant.  The marks a row may have: *)
MarksFit ==
    \A t \in Tables :
        /\ "updated" \in row[t] => t \in Updated
        /\ "left" \in row[t] => t \notin WithoutOthers
        /\ "extra" \in row[t] => t = "grants"
        /\ <<t, "taken">> \in standing => t \in {"grants", "membership"} /\ Past(t)

(* What an administrator has changed stands exactly if the row has it and   *)
(* the pass is past the statement that takes it away,                       *)
ChangesStand ==
    \A t \in Tables :
        /\ <<t, "left">> \in standing <=> "left" \in row[t]
        /\ <<t, "updated">> \in standing <=> "updated" \in row[t] /\ Past(t)
        /\ <<t, "extra">> \in standing <=> "extra" \in row[t] /\ Past("strip")

(* ... and what the pass is past is there, unless it was taken away since.  *)
PastIsThere ==
    \A t \in Tables :
        Past(t) /\ (t \notin AccountTables \/ named)
            => ("seed" \in row[t] <=> <<t, "taken">> \notin standing)

PriceHasRate == row["price"] # {} => "seed" \in row["rate"]

SeedInv == SeedTypeOK /\ MarksFit /\ ChangesStand /\ PastIsThere /\ PriceHasRate

(* An empty database satisfies the invariant of the seed.                   *)
LEMMA SeedInitInv == SeedInit => SeedInv
BY InOrder, PositionIs
   DEF SeedInit, SeedInv, SeedTypeOK, MarksFit, ChangesStand, PastIsThere, PriceHasRate, Past

(* A pass begins past nothing: only what it leaves alone stands.            *)
LEMMA StartInv ==
  ASSUME SeedInv, Start
  PROVE  SeedInv'
<1>1. /\ row' = row /\ at' = 1 /\ pass' = "running"
      /\ standing' = {change \in standing : change[2] = "left"}
  BY DEF Start
<1>2. \A t \in Tables \cup {"strip"} : ~Past(t)'
  BY <1>1, PositionIs DEF Past
<1>3. \A t \in Tables :
         /\ <<t, "left">> \in standing' <=> <<t, "left">> \in standing
         /\ \A what \in {"updated", "extra", "taken"} : <<t, what>> \notin standing'
  BY <1>1
<1>4. SeedTypeOK'
  BY <1>1, InOrder DEF SeedInv, SeedTypeOK
<1>5. MarksFit' /\ ChangesStand' /\ PastIsThere' /\ PriceHasRate'
  BY <1>1, <1>2, <1>3
     DEF SeedInv, MarksFit, ChangesStand, PastIsThere, PriceHasRate
<1>6. QED BY <1>4, <1>5 DEF SeedInv

(* A statement adds its row to what is there, and takes from it only what   *)
(* does not stand.                                                          *)
LEMMA ExecuteInv ==
  ASSUME SeedInv, Execute
  PROVE  SeedInv'
<1>0. PICK s \in Tables \cup {"strip"} : s = Statements[at]
  BY InOrder DEF Execute, SeedInv, SeedTypeOK
<1>1. /\ at \in 1..25 /\ at' = at + 1 /\ Len(Statements) = 25
      /\ pass = "running" /\ pass' \in {"running", "completed"}
      /\ pass' = "completed" <=> at = 25
      /\ standing' = standing /\ named' = named
      /\ s = Statements[at] /\ Position(s) = at
  BY <1>0, InOrder, PositionIs DEF Execute, SeedInv, SeedTypeOK
<1>2. /\ ~Past(s) /\ Past(s)'
      /\ \A t \in Tables \cup {"strip"} : t # s => Past(t)' = Past(t)
  <2>1. \A t \in Tables \cup {"strip"} : t # s => Position(t) # at /\ Position(t) \in 1..25
    BY <1>1, PositionIs
  <2>2. QED BY <1>1, <2>1 DEF Past
<1>3. SeedTypeOK'
  <2>1. row' \in [Tables -> SUBSET Marks]
    BY <1>1 DEF Execute, SeedInv, SeedTypeOK, Upsert, Marks
  <2>2. QED BY <1>1, <2>1 DEF SeedInv, SeedTypeOK
<1>4. CASE s = "strip"
  <2>1. row' = [row EXCEPT !["grants"] = {}] /\ at = 8
    <3>1. at = 8
      BY <1>1, <1>4, InOrder, PositionIs
    <3>2. QED BY <1>1, <1>4, <3>1 DEF Execute
  <2>2. ~Past("grants") /\ ~Past("grants")'
    BY <1>1, <2>1, InOrder, PositionIs DEF Past
  <2>3. /\ row'["grants"] = {} /\ \A t \in Tables : t # "grants" => row'[t] = row[t]
        /\ "strip" \notin Tables
    BY <2>1, InOrder DEF SeedInv, SeedTypeOK
  <2>4. \A t \in Tables : Past(t)' = Past(t)
    BY <1>2, <1>4, <2>3
  <2>5. MarksFit'
    BY <1>1, <2>3, <2>4 DEF SeedInv, MarksFit
  <2>6. ChangesStand'
    <3>1. /\ <<"grants", "left">> \notin standing /\ <<"grants", "updated">> \notin standing
          /\ <<"grants", "extra">> \notin standing
      BY <1>2, <1>4, <2>2, InOrder
         DEF SeedInv, MarksFit, ChangesStand, WithoutOthers
    <3>2. \A t \in Tables : t # "grants" =>
             "extra" \notin row[t] /\ <<t, "extra">> \notin standing
      BY DEF SeedInv, MarksFit, ChangesStand
    <3>3. ASSUME NEW t \in Tables, t # "grants"
          PROVE  /\ <<t, "left">> \in standing <=> "left" \in row[t]
                 /\ <<t, "updated">> \in standing <=> "updated" \in row[t] /\ Past(t)
      BY DEF SeedInv, ChangesStand
    <3>4. QED BY <1>1, <2>3, <2>4, <3>1, <3>2, <3>3 DEF ChangesStand
  <2>7. PastIsThere'
    BY <1>1, <2>2, <2>3, <2>4 DEF SeedInv, PastIsThere
  <2>8. PriceHasRate'
    BY <2>3, InOrder DEF SeedInv, PriceHasRate
  <2>9. QED BY <1>3, <2>5, <2>6, <2>7, <2>8 DEF SeedInv
<1>5. CASE s \in AccountTables /\ ~named
  <2>1. row' = row /\ s \in Tables /\ s # "strip"
    BY <1>1, <1>5, InOrder DEF Execute, AccountTables
  <2>2. "updated" \notin row[s] /\ s # "strip"
    BY <1>5, <2>1 DEF SeedInv, MarksFit, AccountTables, Updated
  <2>3. MarksFit'
    BY <1>1, <1>2, <2>1 DEF SeedInv, MarksFit
  <2>4. ChangesStand'
    BY <1>1, <1>2, <2>1, <2>2, InOrder DEF SeedInv, ChangesStand
  <2>5. PastIsThere' /\ PriceHasRate'
    BY <1>1, <1>2, <1>5, <2>1 DEF SeedInv, PastIsThere, PriceHasRate
  <2>6. QED BY <1>3, <2>3, <2>4, <2>5 DEF SeedInv
<1>6. CASE s # "strip" /\ ~(s \in AccountTables /\ ~named)
  <2>1. /\ s \in Tables /\ row'[s] = (row[s] \ {"updated"}) \cup {"seed"}
        /\ \A t \in Tables : t # s => row'[t] = row[t]
    BY <1>1, <1>6 DEF Execute, SeedInv, SeedTypeOK, Upsert
  <2>2. /\ "seed" \in row'[s] /\ "updated" \notin row'[s]
        /\ "left" \in row'[s] <=> "left" \in row[s]
        /\ "extra" \in row'[s] <=> "extra" \in row[s]
    BY <2>1
  <2>3. <<s, "taken">> \notin standing /\ <<s, "updated">> \notin standing
    BY <1>2, <2>1 DEF SeedInv, MarksFit, ChangesStand
  <2>4. Past("strip")' = Past("strip")
    BY <1>2, <1>6
  <2>5. MarksFit'
    BY <1>1, <1>2, <2>1, <2>2, <2>3 DEF SeedInv, MarksFit
  <2>6. ChangesStand'
    BY <1>1, <1>2, <2>1, <2>2, <2>3, <2>4 DEF SeedInv, ChangesStand
  <2>7. PastIsThere'
    BY <1>1, <1>2, <2>1, <2>2, <2>3 DEF SeedInv, PastIsThere
  <2>8. PriceHasRate'
    <3>1. CASE s = "price"
      <4>1. at = 20
        BY <1>1, <3>1, InOrder, PositionIs
      <4>2. "rate" \in Tables /\ Past("rate") /\ "rate" \notin AccountTables /\ "rate" # s
        BY <3>1, <4>1, InOrder, PositionIs DEF Past, AccountTables
      <4>3. <<"rate", "taken">> \notin standing
        BY <4>2 DEF SeedInv, MarksFit
      <4>4. "seed" \in row["rate"]
        BY <4>2, <4>3 DEF SeedInv, PastIsThere
      <4>5. QED BY <2>1, <4>2, <4>4 DEF PriceHasRate
    <3>2. CASE s # "price"
      BY <2>1, <2>2, <3>2, InOrder DEF SeedInv, PriceHasRate
    <3>3. QED BY <3>1, <3>2
  <2>9. QED BY <1>3, <2>5, <2>6, <2>7, <2>8 DEF SeedInv
<1>7. QED BY <1>4, <1>5, <1>6

(* A change adds a mark to a row, or takes the seed's from it.              *)
LEMMA EditInv ==
  ASSUME SeedInv, NEW t \in Editable, Edit(t)
  PROVE  SeedInv'
<1>1. /\ t \in Tables /\ row \in [Tables -> SUBSET Marks] /\ "role" \in Tables
      /\ t \in Tables \cup {"strip"} /\ "strip" \in Tables \cup {"strip"}
  BY SeedAssumption, InOrder DEF SeedInv, SeedTypeOK
<1>2. ASSUME NEW c \in {"updated", "left"}, ChangeColumn(t, c) PROVE SeedInv'
  <2>1. /\ c \in Columns(t) /\ row' = [row EXCEPT ![t] = @ \cup {c}] /\ row[t] # {}
        /\ standing' = IF c = "left" \/ at > Position(t) THEN standing \cup {<<t, c>>}
                       ELSE standing
        /\ UNCHANGED <<at, pass, named>>
    BY <1>2 DEF ChangeColumn, Edited
  <2>2. /\ row'[t] = row[t] \cup {c} /\ \A u \in Tables : u # t => row'[u] = row[u]
        /\ c = "updated" => t \in Updated
        /\ c = "left" => t \notin WithoutOthers
    BY <1>1, <2>1 DEF Columns
  <2>3. \A u \in Tables \cup {"strip"} : Past(u)' = Past(u)
    BY <2>1 DEF Past
  <2>4. Past(t) <=> at > Position(t)
    BY <1>1, PositionIs DEF Past, SeedInv, SeedTypeOK
  <2>5. SeedTypeOK'
    BY <1>1, <1>2, <2>1 DEF SeedInv, SeedTypeOK, Marks
  <2>6. MarksFit'
    <3>1. ASSUME NEW u \in Tables
          PROVE  /\ "updated" \in row'[u] => u \in Updated
                 /\ "left" \in row'[u] => u \notin WithoutOthers
                 /\ "extra" \in row'[u] => u = "grants"
      <4>1. CASE u = t
        BY <1>1, <1>2, <2>2, <4>1 DEF SeedInv, MarksFit
      <4>2. CASE u # t
        BY <2>2, <4>2 DEF SeedInv, MarksFit
      <4>3. QED BY <4>1, <4>2
    <3>2. \A u \in Tables : <<u, "taken">> \in standing' => <<u, "taken">> \in standing
      BY <1>2, <2>1
    <3>3. QED BY <2>3, <3>1, <3>2 DEF SeedInv, MarksFit
  <2>7. ChangesStand'
    <3>1. ASSUME NEW u \in Tables, u # t
          PROVE  \A what \in {"left", "updated", "extra"} :
                    <<u, what>> \in standing' <=> <<u, what>> \in standing
      BY <2>1, <3>1
    <3>2. /\ \A what \in {"left", "updated", "extra"} \ {c} :
                <<t, what>> \in standing' <=> <<t, what>> \in standing
          /\ c = "left" => <<t, c>> \in standing'
          /\ c = "updated" => (<<t, c>> \in standing' <=> <<t, c>> \in standing \/ Past(t))
      BY <1>2, <2>1, <2>4
    <3>3. ASSUME NEW u \in Tables, u # t
          PROVE  /\ <<u, "left">> \in standing' <=> "left" \in row'[u]
                 /\ <<u, "updated">> \in standing' <=> "updated" \in row'[u] /\ Past(u)'
                 /\ <<u, "extra">> \in standing' <=> "extra" \in row'[u] /\ Past("strip")'
      BY <2>2, <2>3, <3>1, <3>3 DEF SeedInv, ChangesStand
    <3>4. /\ <<t, "left">> \in standing' <=> "left" \in row'[t]
          /\ <<t, "updated">> \in standing' <=> "updated" \in row'[t] /\ Past(t)'
          /\ <<t, "extra">> \in standing' <=> "extra" \in row'[t] /\ Past("strip")'
      BY <1>1, <1>2, <2>2, <2>3, <3>2 DEF SeedInv, ChangesStand
    <3>5. QED BY <3>3, <3>4 DEF ChangesStand
  <2>8. PastIsThere' /\ PriceHasRate'
    BY <1>1, <1>2, <2>1, <2>2, <2>3, InOrder DEF SeedInv, PastIsThere, PriceHasRate
  <2>9. QED BY <2>5, <2>6, <2>7, <2>8 DEF SeedInv
<1>3. CASE t = "grants" /\ Grant
  <2>1. /\ row' = [row EXCEPT ![t] = @ \cup {"extra"}]
        /\ standing' = IF at > Position("strip") THEN standing \cup {<<t, "extra">>}
                       ELSE standing
        /\ UNCHANGED <<at, pass, named>>
    BY <1>3 DEF Grant, Edited
  <2>2. /\ row'[t] = row[t] \cup {"extra"} /\ \A u \in Tables : u # t => row'[u] = row[u]
    BY <1>1, <2>1
  <2>3. \A u \in Tables \cup {"strip"} : Past(u)' = Past(u)
    BY <2>1 DEF Past
  <2>4. Past("strip") <=> at > Position("strip")
    BY <1>1, PositionIs DEF Past, SeedInv, SeedTypeOK
  <2>5. SeedTypeOK'
    BY <1>1, <2>1 DEF SeedInv, SeedTypeOK, Marks
  <2>6. MarksFit'
    <3>1. \A u \in Tables : <<u, "taken">> \in standing' => <<u, "taken">> \in standing
      BY <2>1
    <3>2. ASSUME NEW u \in Tables
          PROVE  /\ "updated" \in row'[u] => "updated" \in row[u]
                 /\ "left" \in row'[u] => "left" \in row[u]
                 /\ "extra" \in row'[u] => u = "grants" \/ "extra" \in row[u]
      BY <1>3, <2>2
    <3>3. QED BY <2>3, <3>1, <3>2 DEF SeedInv, MarksFit
  <2>7. ChangesStand'
    <3>1. \A u \in Tables :
             /\ <<u, "left">> \in standing' <=> <<u, "left">> \in standing
             /\ <<u, "updated">> \in standing' <=> <<u, "updated">> \in standing
             /\ u # t => (<<u, "extra">> \in standing' <=> <<u, "extra">> \in standing)
      BY <2>1
    <3>2. <<t, "extra">> \in standing' <=> <<t, "extra">> \in standing \/ Past("strip")
      BY <2>1, <2>4
    <3>3. ASSUME NEW u \in Tables, u # t
          PROVE  /\ <<u, "left">> \in standing' <=> "left" \in row'[u]
                 /\ <<u, "updated">> \in standing' <=> "updated" \in row'[u] /\ Past(u)'
                 /\ <<u, "extra">> \in standing' <=> "extra" \in row'[u] /\ Past("strip")'
      BY <1>1, <2>2, <2>3, <3>1, <3>3 DEF SeedInv, ChangesStand
    <3>4. /\ "left" \in row'[t] <=> "left" \in row[t]
          /\ "updated" \in row'[t] <=> "updated" \in row[t]
          /\ "extra" \in row'[t]
      BY <2>2
    <3>5. /\ <<t, "left">> \in standing' <=> "left" \in row'[t]
          /\ <<t, "updated">> \in standing' <=> "updated" \in row'[t] /\ Past(t)'
          /\ <<t, "extra">> \in standing' <=> "extra" \in row'[t] /\ Past("strip")'
      BY <1>1, <2>3, <3>1, <3>2, <3>4 DEF SeedInv, ChangesStand
    <3>6. QED BY <3>3, <3>5 DEF ChangesStand
  <2>8. PastIsThere' /\ PriceHasRate'
    BY <1>1, <1>3, <2>1, <2>2, <2>3, InOrder DEF SeedInv, PastIsThere, PriceHasRate
  <2>9. QED BY <2>5, <2>6, <2>7, <2>8 DEF SeedInv
<1>4. CASE t \in {"grants", "membership"} /\ Revoke(t)
  <2>1. /\ row' = [row EXCEPT ![t] = @ \ {"seed"}]
        /\ standing' = IF at > Position(t) THEN standing \cup {<<t, "taken">>} ELSE standing
        /\ UNCHANGED <<at, pass, named>>
    BY <1>4 DEF Revoke, Edited
  <2>2. /\ row'[t] = row[t] \ {"seed"} /\ \A u \in Tables : u # t => row'[u] = row[u]
    BY <1>1, <2>1
  <2>3. \A u \in Tables \cup {"strip"} : Past(u)' = Past(u)
    BY <2>1 DEF Past
  <2>4. Past(t) <=> at > Position(t)
    BY <1>1, PositionIs DEF Past, SeedInv, SeedTypeOK
  <2>5. SeedTypeOK'
    BY <1>1, <2>1 DEF SeedInv, SeedTypeOK, Marks
  <2>6. MarksFit'
    BY <1>4, <2>1, <2>2, <2>3, <2>4 DEF SeedInv, MarksFit
  <2>7. ChangesStand'
    BY <1>1, <2>1, <2>2, <2>3 DEF SeedInv, ChangesStand
  <2>8. PastIsThere' /\ PriceHasRate'
    BY <1>1, <1>4, <2>1, <2>2, <2>3, <2>4, InOrder DEF SeedInv, PastIsThere, PriceHasRate
  <2>9. QED BY <2>5, <2>6, <2>7, <2>8 DEF SeedInv
<1>5. QED BY <1>2, <1>3, <1>4, Zenon DEF Edit

(* Every step of a pass and every change keeps it.                          *)
LEMMA SeedStep == SeedInv /\ [SeedNext]_seedVars => SeedInv'
<1> SUFFICES ASSUME SeedInv, [SeedNext]_seedVars PROVE SeedInv'
  OBVIOUS
<1>1. CASE Stop
  BY <1>1 DEF Stop, SeedInv, SeedTypeOK, MarksFit, ChangesStand, PastIsThere, PriceHasRate, Past
<1>2. CASE UNCHANGED seedVars
  BY <1>2 DEF seedVars, SeedInv, SeedTypeOK, MarksFit, ChangesStand, PastIsThere,
              PriceHasRate, Past
<1>3. QED BY <1>1, <1>2, StartInv, ExecuteInv, EditInv DEF SeedNext

(* Of a pass that is completed it says what every row is.                   *)
LEMMA RerunFollows == SeedInv => RerunLeaves
<1> SUFFICES ASSUME SeedInv, pass = "completed", NEW t \in Tables,
                    t \notin AccountTables \/ named
             PROVE  row[t] = {what \in {"updated", "left", "extra"} : <<t, what>> \in standing}
                                \cup (IF <<t, "taken">> \in standing THEN {} ELSE {"seed"})
  BY DEF RerunLeaves
<1>1. Past(t) /\ Past("strip")
  BY InOrder, PositionIs DEF Past, SeedInv, SeedTypeOK
<1>2. /\ "seed" \in row[t] <=> <<t, "taken">> \notin standing
      /\ \A what \in {"updated", "left", "extra"} :
            what \in row[t] <=> <<t, what>> \in standing
  BY <1>1 DEF SeedInv, PastIsThere, ChangesStand
<1>3. row[t] \subseteq Marks
  BY DEF SeedInv, SeedTypeOK
<1>4. QED BY <1>2, <1>3 DEF Marks

(* The inductive invariant of the seed.                                     *)
LEMMA SeedInvariance == SeedSpec => []SeedInv
BY SeedInitInv, SeedStep, PTL DEF SeedSpec

(* A completed pass of the seed leaves every table as a pass without a stop *)
(* would have, though passes were stopped anywhere and administrators       *)
(* changed the tables meanwhile, however often.                             *)
THEOREM RerunHolds == SeedSpec => []RerunLeaves
BY RerunFollows, SeedInvariance, PTL

-----------------------------------------------------------------------------
(* The caches. *)

(* The inductive invariant: a rate is asked for only when there is one.     *)
RateWhileRead ==
    \A p \in Readers : key = "tax" /\ Reading(p) => "seed" \in row["rate"]

IInv == SeedInv /\ CachesTypeOK /\ RateWhileRead /\ NeverUntaxed

(* What a cache is filled from: one or two values an answer may have,       *)
LEMMA SourceIsParts ==
  SeedInv /\ key \in Keys =>
      /\ Source \in Seq(Values) /\ Len(Source) \in {1, 2} /\ DOMAIN Source = 1..Len(Source)
      /\ Len(Source) = IF key = "tax" THEN 1 ELSE 2
<1> SUFFICES ASSUME SeedInv, key \in Keys
             PROVE  /\ Source \in Seq(Values) /\ Len(Source) \in {1, 2}
                    /\ DOMAIN Source = 1..Len(Source)
                    /\ Len(Source) = IF key = "tax" THEN 1 ELSE 2
  OBVIOUS
<1>1. \A t \in Tables : row[t] \in Values
  BY DEF SeedInv, SeedTypeOK, Values
<1>2. Rate \in Values /\ Counted \in Values
  BY <1>1, InOrder DEF Rate, Counted, Values, Marks
<1>3. /\ \A a \in Values : <<a>> \in Seq(Values) /\ Len(<<a>>) = 1 /\ DOMAIN <<a>> = 1..1
      /\ \A a, b \in Values : /\ <<a, b>> \in Seq(Values) /\ Len(<<a, b>>) = 2
                              /\ DOMAIN <<a, b>> = 1..2
  OBVIOUS
<1>4. CASE key = "tax"
  <2>1. Source = <<Rate>>
    BY <1>4 DEF Source
  <2>2. QED BY <1>2, <1>3, <1>4, <2>1
<1>5. CASE key # "tax"
  <2>1. PICK a \in Values, b \in Values : Source = <<a, b>>
    <3>1. CASE key = "market"
      BY <1>1, <3>1, InOrder DEF Source
    <3>2. CASE key = "permissions"
      BY <1>1, <3>2, InOrder DEF Source
    <3>3. CASE key = "tree"
      BY <1>1, <1>2, <3>3, InOrder DEF Source
    <3>4. QED BY <1>5, <3>1, <3>2, <3>3 DEF Keys
  <2>2. QED BY <1>3, <1>5, <2>1
<1>6. QED BY <1>4, <1>5

(* ... also after a step.                                                   *)
LEMMA SourceStaysParts ==
  (SeedInv /\ key \in Keys)' =>
      (/\ Source \in Seq(Values) /\ Len(Source) \in {1, 2} /\ DOMAIN Source = 1..Len(Source)
       /\ Len(Source) = IF key = "tax" THEN 1 ELSE 2)'
BY SourceIsParts, PTL

(* With empty caches the invariant holds.                                   *)
LEMMA CachesInitInv == Init => IInv
<1> SUFFICES ASSUME Init PROVE IInv
  OBVIOUS
<1>1. SeedInv /\ key \in Keys
  BY SeedInitInv DEF Init
<1>2. <<>> \in Seq(Values) /\ Len(<<>>) = 0 /\ Len(Source) \in {1, 2}
  BY <1>1, SourceIsParts
<1>3. CachesTypeOK
  <2>1. /\ load \in [Readers -> [pc : {"idle", "reading", "aliasing", "read"}, got : Seq(Values)]]
        /\ \A p \in Readers : load[p].got = <<>> /\ load[p].pc = "idle"
    BY <1>2 DEF Init, NoLoad
  <2>2. Parts(<<>>) /\ cached = <<>>
    BY <1>2 DEF Init, Absent, Parts
  <2>3. \A p \in Readers : Parts(load[p].got) /\ ~Reading(p)
    BY <2>1, <2>2 DEF Reading
  <2>4. QED BY <1>1, <2>1, <2>2, <2>3 DEF CachesTypeOK
<1>4. RateWhileRead /\ NeverUntaxed
  BY DEF Init, RateWhileRead, NeverUntaxed, Reading, NoLoad, Absent, Answers
<1>5. QED BY <1>1, <1>3, <1>4 DEF IInv

(* A rate, once there, stays, and one that was ended stays so. *)
LEMMA RateStays ==
  ASSUME SeedInv, SeedNext
  PROVE  /\ "seed" \in row["rate"] => "seed" \in row'["rate"]
         /\ "left" \in row["rate"] => "left" \in row'["rate"]
<1>1. row \in [Tables -> SUBSET Marks] /\ "rate" \in Tables /\ "rate" # "grants"
  BY InOrder DEF SeedInv, SeedTypeOK
<1>2. CASE Start \/ Stop
  BY <1>2 DEF Start, Stop
<1>3. CASE Execute
  BY <1>1, <1>3 DEF Execute, Upsert
<1>4. ASSUME NEW t \in Editable, Edit(t)
      PROVE  /\ "seed" \in row["rate"] => "seed" \in row'["rate"]
             /\ "left" \in row["rate"] => "left" \in row'["rate"]
  BY <1>1, <1>4 DEF Edit, ChangeColumn, Grant, Revoke
<1>5. QED BY <1>2, <1>3, <1>4 DEF SeedNext

(* A part that is read is a value of its source. *)
LEMMA ReadKeepsType ==
  ASSUME IInv, NEW p \in Readers, Read(p)
  PROVE  /\ load' \in [Readers -> [pc : {"idle", "reading", "aliasing", "read"}, got : Seq(Values)]]
         /\ \A q \in Readers : q # p => load'[q] = load[q]
         /\ load'[p].pc \in {"aliasing", "read", load[p].pc}
         /\ \/ load'[p].pc = "aliasing" /\ load'[p].got = <<>>
            \/ /\ Len(load'[p].got) = Len(load[p].got) + 1
               /\ Len(load'[p].got) <= Len(Source)
               /\ load'[p].got[Len(load[p].got) + 1] = Source[Len(load[p].got) + 1]
               /\ \A i \in 1..Len(load[p].got) : load'[p].got[i] = load[p].got[i]
               /\ load'[p].pc = "read" \/ Len(load'[p].got) < Len(Source)
<1> DEFINE got == load[p].got
           n == Len(got)
           part == Source[n + 1]
           next == Append(got, part)
<1>0. Source \in Seq(Values) /\ Len(Source) \in {1, 2}
  BY SourceIsParts DEF IInv, CachesTypeOK
<1>1. /\ got \in Seq(Values) /\ n \in Nat /\ n < Len(Source) /\ Source \in Seq(Values)
      /\ Len(Source) \in {1, 2} /\ load[p].pc \in {"reading", "aliasing"}
  <2>1. Reading(p) /\ load[p].got \in Seq(Values) /\ Len(load[p].got) < Len(Source)
    BY DEF IInv, CachesTypeOK, Read, Parts
  <2>2. QED BY <1>0, <2>1 DEF Reading
<1>2. part \in Values
  BY <1>1
<1> HIDE DEF part
<1>3. /\ next \in Seq(Values) /\ Len(next) = n + 1 /\ next[n + 1] = part
      /\ \A i \in 1..n : next[i] = got[i]
  BY <1>1, <1>2
<1> HIDE DEF next
<1>4. \/ load' = [load EXCEPT ![p] = [pc |-> "aliasing", got |-> <<>>]]
      \/ /\ part = {} \/ Len(next) = Len(Source)
         /\ load' = [load EXCEPT ![p] = [pc |-> "read", got |-> next]]
      \/ /\ Len(next) # Len(Source)
         /\ load' = [load EXCEPT ![p] = [pc |-> load[p].pc, got |-> next]]
  BY DEF Read, next, part
<1>5. load \in [Readers -> [pc : {"idle", "reading", "aliasing", "read"}, got : Seq(Values)]]
      /\ <<>> \in Seq(Values)
  BY DEF IInv, CachesTypeOK
<1>6. CASE load' = [load EXCEPT ![p] = [pc |-> "aliasing", got |-> <<>>]]
  BY <1>5, <1>6
<1>7. CASE load' = [load EXCEPT ![p] = [pc |-> "read", got |-> next]]
  BY <1>1, <1>3, <1>5, <1>7 DEF part
<1>8. CASE /\ Len(next) # Len(Source)
           /\ load' = [load EXCEPT ![p] = [pc |-> load[p].pc, got |-> next]]
  BY <1>1, <1>3, <1>5, <1>8 DEF part
<1>9. QED BY <1>4, <1>6, <1>7, <1>8

(* Every step of the seed, of an administrator and of a request keeps it.   *)
LEMMA CachesStep == IInv /\ [Next]_vars => IInv'
<1> SUFFICES ASSUME IInv, [Next]_vars PROVE IInv'
  OBVIOUS
<1>1. SeedInv'
  BY SeedStep DEF IInv, Next, CacheNext, vars, Miss, Read, Store, Fail, Expire
<1>2. key' = key /\ key \in Keys
  BY DEF IInv, CachesTypeOK, Next, CacheNext, vars, cacheVars, Miss, Read, Store, Fail, Expire
<1>3. Len(Source)' = Len(Source) /\ Len(Source) \in {1, 2}
  BY <1>1, <1>2, SourceIsParts, SourceStaysParts DEF IInv
<1>4. CASE SeedNext /\ UNCHANGED cacheVars
  <2>1. CachesTypeOK'
    BY <1>2, <1>3, <1>4 DEF IInv, CachesTypeOK, Parts, Reading, cacheVars
  <2>2. RateWhileRead' /\ NeverUntaxed'
    BY <1>4, RateStays DEF IInv, RateWhileRead, NeverUntaxed, Answers, Reading, cacheVars
  <2>3. QED BY <1>1, <2>1, <2>2 DEF IInv
<1>5. ASSUME NEW p \in Readers, Miss(p) PROVE IInv'
  <2>1. /\ load[p] = [pc |-> "idle", got |-> <<>>]
        /\ load' = [load EXCEPT ![p] = [pc |-> "reading", got |-> <<>>]]
        /\ UNCHANGED <<seedVars, key, cached>>
        /\ key = "tax" => row["price"] # {}
    <3>1. /\ load \in [Readers -> [pc : {"idle", "reading", "aliasing", "read"}, got : Seq(Values)]]
          /\ load[p] = NoLoad /\ load' = [load EXCEPT ![p].pc = "reading"]
          /\ UNCHANGED <<seedVars, key, cached>>
          /\ key = "tax" => row["price"] # {}
      BY <1>5 DEF Miss, IInv, CachesTypeOK
    <3>2. [load[p] EXCEPT !.pc = "reading"] = [pc |-> "reading", got |-> <<>>]
      BY <3>1 DEF NoLoad
    <3>3. QED BY <3>1, <3>2 DEF NoLoad
  <2>2. CachesTypeOK'
    BY <1>2, <1>3, <2>1 DEF IInv, CachesTypeOK, Parts, Reading
  <2>3. RateWhileRead' /\ NeverUntaxed'
    BY <2>1 DEF IInv, SeedInv, PriceHasRate, RateWhileRead, NeverUntaxed, Answers, Reading,
                CachesTypeOK, seedVars
  <2>4. QED BY <1>1, <2>2, <2>3 DEF IInv
<1>6. ASSUME NEW p \in Readers, Read(p) PROVE IInv'
  <2>1. UNCHANGED <<seedVars, key, cached>> /\ Reading(p)
    BY <1>6 DEF Read
  <2>2. Source' = Source
    BY <2>1 DEF Source, Rate, Counted, seedVars
  <2>3. CachesTypeOK'
    <3>1. \A q \in Readers : q # p => load'[q] = load[q]
      BY <1>6, ReadKeepsType
    <3>2. /\ Parts(load[p].got) /\ Len(load[p].got) \in Nat
          /\ load'[p].got \in Seq(Values) /\ Len(load'[p].got) <= Len(Source)
          /\ load'[p].pc # "idle"
          /\ load'[p].pc \in {"reading", "aliasing"} => Len(load'[p].got) < Len(Source)
      <4>1. load'[p].pc \in {"aliasing", "read", load[p].pc} /\ load[p].pc \in {"reading", "aliasing"}
        BY <1>6, <2>1, ReadKeepsType DEF Reading
      <4>2. load'[p].got \in Seq(Values)
        BY <1>6, ReadKeepsType
      <4>3. CASE load'[p].got = <<>>
        BY <1>3, <4>1, <4>2, <4>3 DEF IInv, CachesTypeOK, Parts
      <4>4. CASE load'[p].got # <<>>
        BY <1>6, <4>1, <4>2, <4>4, ReadKeepsType DEF IInv, CachesTypeOK, Parts
      <4>5. QED BY <4>3, <4>4
    <3>3. load' \in [Readers -> [pc : {"idle", "reading", "aliasing", "read"}, got : Seq(Values)]]
      BY <1>6, ReadKeepsType
    <3>4. \A q \in Readers :
             /\ Parts(load[q].got) /\ (load[q].pc = "idle" => load[q].got = <<>>)
             /\ Reading(q) => Len(load[q].got) < Len(Source)
      BY DEF IInv, CachesTypeOK
    <3>5. Parts(cached)' /\ key' \in Keys
      BY <1>2, <2>1, <2>2 DEF IInv, CachesTypeOK, Parts
    <3>6. ASSUME NEW q \in Readers
          PROVE  /\ Parts(load[q].got)' /\ (load'[q].pc = "idle" => load'[q].got = <<>>)
                 /\ Reading(q)' => Len(load'[q].got) < Len(Source)'
      <4>1. CASE q = p
        BY <2>2, <3>2, <4>1 DEF Parts, Reading
      <4>2. CASE q # p
        BY <2>2, <3>1, <3>4, <4>2 DEF Parts, Reading
      <4>3. QED BY <4>1, <4>2
    <3>7. QED BY <3>3, <3>5, <3>6 DEF CachesTypeOK
  <2>4. RateWhileRead'
    <3>1. \A q \in Readers : Reading(q)' => Reading(q)
      BY <1>6, <2>1, ReadKeepsType DEF Reading
    <3>2. QED BY <2>1, <3>1 DEF IInv, RateWhileRead, seedVars
  <2>5. NeverUntaxed'
    <3>1. ASSUME key = "tax", load'[p].got = <<{}>> PROVE "left" \in row["rate"]
      <4>1. Source = <<Rate>> /\ Len(Source) = 1
        BY <3>1 DEF Source
      <4>2. load[p].got \in Seq(Values) /\ Len(load[p].got) < Len(Source)
        BY <2>1 DEF IInv, CachesTypeOK, Parts
      <4>3. Len(load[p].got) = 0
        BY <4>1, <4>2
      <4>4. load'[p].got[1] = {} /\ load'[p].got # <<>>
        BY <3>1
      <4>5. load'[p].got[1] = Source[1]
        BY <1>6, <4>3, <4>4, ReadKeepsType
      <4>6. Rate = {}
        BY <4>1, <4>4, <4>5
      <4>7. row["rate"] # {}
        BY <2>1, <3>1 DEF IInv, RateWhileRead
      <4>8. QED BY <4>6, <4>7 DEF Rate
    <3>2. Answers' \subseteq Answers \cup {load'[p].got}
      BY <1>6, <2>1, ReadKeepsType DEF Answers
    <3>3. QED BY <2>1, <3>1, <3>2 DEF IInv, NeverUntaxed, seedVars
  <2>6. QED BY <1>1, <2>3, <2>4, <2>5 DEF IInv
<1>7. ASSUME NEW p \in Readers, Store(p) \/ Fail(p) PROVE IInv'
  <2>1. /\ load' = [load EXCEPT ![p] = [pc |-> "idle", got |-> <<>>]]
        /\ UNCHANGED <<seedVars, key>> /\ cached' \in {cached, load[p].got}
    BY <1>7 DEF Store, Fail, NoLoad
  <2>2. CachesTypeOK'
    BY <1>2, <1>3, <2>1 DEF IInv, CachesTypeOK, Parts, Reading
  <2>3. RateWhileRead' /\ NeverUntaxed'
    <3>1. /\ \A q \in Readers : load'[q] = load[q] \/ load'[q] = [pc |-> "idle", got |-> <<>>]
          /\ row' = row
      BY <2>1 DEF IInv, CachesTypeOK, seedVars
    <3>2. \A q \in Readers : Reading(q)' => Reading(q)
      BY <3>1 DEF Reading
    <3>3. Answers' \subseteq Answers \cup {<<>>} /\ <<>> # <<{}>>
      BY <2>1, <3>1 DEF Answers
    <3>4. QED BY <2>1, <3>1, <3>2, <3>3 DEF IInv, RateWhileRead, NeverUntaxed
  <2>4. QED BY <1>1, <2>2, <2>3 DEF IInv
<1>8. CASE Expire
  <2>1. UNCHANGED <<seedVars, key, load>> /\ cached' = <<>>
    BY <1>8 DEF Expire, Absent
  <2>2. CachesTypeOK'
    BY <1>2, <1>3, <2>1 DEF IInv, CachesTypeOK, Parts, Reading
  <2>3. RateWhileRead' /\ NeverUntaxed'
    BY <2>1 DEF IInv, RateWhileRead, NeverUntaxed, Answers, Reading, seedVars
  <2>4. QED BY <1>1, <2>2, <2>3 DEF IInv
<1>9. CASE UNCHANGED vars
  <2>1. CachesTypeOK'
    BY <1>2, <1>3, <1>9 DEF IInv, CachesTypeOK, Parts, Reading, vars, cacheVars
  <2>2. RateWhileRead' /\ NeverUntaxed'
    BY <1>9 DEF IInv, RateWhileRead, NeverUntaxed, Answers, Reading, vars, cacheVars, seedVars
  <2>3. QED BY <1>1, <2>1, <2>2 DEF IInv
<1>10. QED BY <1>4, <1>5, <1>6, <1>7, <1>8, <1>9 DEF Next, CacheNext

(* The inductive invariant of the caches.                                   *)
LEMMA CachesInvariance == Spec => []IInv
BY CachesInitInv, CachesStep, PTL DEF Spec

(* No request is answered with a tax of nothing for a product that has a    *)
(* price and a tax class whose rate was not ended, whatever passes stop     *)
(* where and whatever loads are under way.                                  *)
THEOREM TaxIsRead == Spec => []NeverUntaxed
<1>1. IInv => NeverUntaxed
  BY DEF IInv
<1>2. QED BY <1>1, CachesInvariance, PTL

-----------------------------------------------------------------------------
(* Each cache implements StaleReads. *)

(* A step whose answers are made of parts that were about, and of what the  *)
(* sources hold after it.                                                   *)
LEMMA MoveOrStay ==
  ASSUME DOMAIN Source' = DOMAIN Source,
         \A i \in DOMAIN Source : Source'[i] \in Values,
         \A a \in Answers' : \A i \in DOMAIN a \cap DOMAIN Source :
            \/ a[i] = Source'[i] \/ a[i] = Source[i]
            \/ \E b \in Answers : i \in DOMAIN b /\ a[i] = b[i]
  PROVE  Reads!Next
<1>1. About' = [i \in DOMAIN Source |->
                   {Source'[i]} \cup {a[i] : a \in {b \in Answers' : i \in DOMAIN b}}]
  BY DEF About
<1>2. ASSUME NEW i \in DOMAIN Source
      PROVE  Source'[i] \in About'[i] /\ About'[i] \subseteq About[i] \cup {Source'[i]}
  BY <1>1 DEF About
<1>3. DOMAIN About' = DOMAIN About
  BY <1>1 DEF About
<1>4. QED BY <1>2, <1>3 DEF Reads!Next

(* Every step is one StaleReads allows.                                     *)
LEMMA ReadsStep == IInv /\ [Next]_vars => [Reads!Next]_<<Source, About>>
<1> SUFFICES ASSUME IInv, [Next]_vars PROVE [Reads!Next]_<<Source, About>>
  OBVIOUS
<1>1. /\ DOMAIN Source' = DOMAIN Source
      /\ \A i \in DOMAIN Source : Source'[i] \in Values
  <2>1. key' = key /\ key \in Keys
    BY DEF IInv, CachesTypeOK, Next, CacheNext, vars, cacheVars, Miss, Read, Store, Fail, Expire
  <2>2. SeedInv /\ SeedInv'
    BY CachesStep DEF IInv
  <2>3. DOMAIN Source = 1..Len(Source) /\ Len(Source) = IF key = "tax" THEN 1 ELSE 2
    BY <2>1, <2>2, SourceIsParts
  <2>4. /\ DOMAIN Source' = 1..Len(Source)' /\ Len(Source)' = IF key' = "tax" THEN 1 ELSE 2
        /\ Source' \in Seq(Values)
    BY <2>1, <2>2, SourceStaysParts
  <2>5. QED BY <2>1, <2>3, <2>4
<1>2. CASE SeedNext /\ UNCHANGED cacheVars
  <2>1. Answers' = Answers
    BY <1>2 DEF Answers, cacheVars
  <2>2. QED BY <1>1, <2>1, MoveOrStay
<1>3. ASSUME NEW p \in Readers, Miss(p) \/ Store(p) \/ Fail(p)
      PROVE  Reads!Next
  <2>1. Answers' \subseteq Answers \cup {<<>>}
    <3>1. load \in [Readers -> [pc : {"idle", "reading", "aliasing", "read"}, got : Seq(Values)]]
      BY DEF IInv, CachesTypeOK
    <3>2. \A q \in Readers : load'[q].got = load[q].got \/ load'[q].got = <<>>
      <4>1. CASE Miss(p)
        BY <3>1, <4>1 DEF Miss
      <4>2. CASE Store(p) \/ Fail(p)
        <5>1. load' = [load EXCEPT ![p] = NoLoad] /\ NoLoad.got = <<>>
          BY <4>2 DEF Store, Fail, NoLoad
        <5>2. QED BY <3>1, <5>1
      <4>3. QED BY <1>3, <4>1, <4>2
    <3>3. cached' = cached \/ cached' = load[p].got
      BY <1>3 DEF Miss, Store, Fail
    <3>4. QED BY <1>3, <3>2, <3>3 DEF Answers
  <2>2. DOMAIN <<>> = {}
    OBVIOUS
  <2>3. QED BY <1>1, <2>1, <2>2, MoveOrStay
<1>4. ASSUME NEW p \in Readers, Read(p)
      PROVE  Reads!Next
  <2>1. cached' = cached
    BY <1>4 DEF Read
  <2>2. ASSUME NEW a \in Answers', NEW i \in DOMAIN a \cap DOMAIN Source
        PROVE  \/ a[i] = Source'[i] \/ a[i] = Source[i]
               \/ \E b \in Answers : i \in DOMAIN b /\ a[i] = b[i]
    <3>1. CASE a \in Answers
      BY <3>1
    <3>2. CASE a = load'[p].got
      <4>1. /\ load[p].got \in Answers /\ load[p].got \in Seq(Values)
            /\ load'[p].got \in Seq(Values)
        BY <1>4, ReadKeepsType DEF Answers, IInv, CachesTypeOK
      <4>2. /\ DOMAIN a = 1..Len(a) /\ DOMAIN load[p].got = 1..Len(load[p].got)
            /\ Len(a) \in Nat /\ Len(load[p].got) \in Nat
        BY <3>2, <4>1
      <4>3. a # <<>>
        BY <2>2, <3>2
      <4>4. /\ Len(a) = Len(load[p].got) + 1
            /\ a[Len(load[p].got) + 1] = Source[Len(load[p].got) + 1]
            /\ \A j \in 1..Len(load[p].got) : a[j] = load[p].got[j]
        BY <1>4, <3>2, <4>3, ReadKeepsType
      <4>5. i \in 1..Len(load[p].got) \/ i = Len(load[p].got) + 1
        BY <2>2, <4>2, <4>4
      <4>6. QED BY <4>1, <4>2, <4>4, <4>5
    <3>3. a \in Answers \/ a = load'[p].got
      BY <1>4, <2>1, ReadKeepsType DEF Answers
    <3>4. QED BY <3>1, <3>2, <3>3
  <2>3. QED BY <1>1, <2>2, MoveOrStay
<1>5. CASE Expire
  <2>1. Answers' \subseteq Answers \cup {<<>>}
    BY <1>5 DEF Expire, Absent, Answers
  <2>2. DOMAIN <<>> = {}
    OBVIOUS
  <2>3. QED BY <1>1, <2>1, <2>2, MoveOrStay
<1>6. CASE UNCHANGED vars
  BY <1>6 DEF vars, seedVars, cacheVars, Source, Rate, Counted, About, Answers
<1>7. QED BY <1>2, <1>3, <1>4, <1>5, <1>6 DEF Next, CacheNext

(* Each part of what a cache may answer is what its table held at some time *)
(* since the key was last filled or a load under way had read it: for any   *)
(* number of readers, passes and changes.                                   *)
THEOREM CachesAreStaleReads == Spec => StaleReads
<1>1. Init => Reads!Init
  <2> SUFFICES ASSUME Init PROVE Reads!Init
    OBVIOUS
  <2>1. \A i \in DOMAIN Source : Source[i] \in Values
    BY CachesInitInv, SourceIsParts DEF IInv, CachesTypeOK
  <2>2. Answers \subseteq {<<>>} /\ DOMAIN <<>> = {}
    BY DEF Init, Answers, NoLoad, Absent
  <2>3. About = [i \in DOMAIN Source |-> {Source[i]}]
    BY <2>2 DEF About
  <2>4. QED BY <2>1, <2>3 DEF Reads!Init
<1>2. IInv /\ [Next]_vars => [Reads!Next]_<<Source, About>>
  BY ReadsStep
<1>3. QED BY <1>1, <1>2, CachesInvariance, PTL DEF Spec, StaleReads, Reads!Spec
-----------------------------------------------------------------------------
(* The address book. *)

(* What a transaction is about to write fits how far it got. *)
BookSteps ==
    \A r \in Requests :
        /\ req[r].pc = "written" => req[r].op.kind \in {"create", "update"}
        /\ req[r].op.kind = "update" => req[r].op.id \in rows
        /\ req[r].pc \in {"begun", "clearing", "deleting"} => ~req[r].first
        /\ req[r].first => req[r].pc = "written" /\ req[r].op.kind = "create"
        /\ req[r].op.flag /\ req[r].pc \in {"cleared", "written"} => req[r].seen \subseteq req[r].locked
        /\ req[r].op.kind = "create" => req[r].op.id = r
        /\ req[r].seen \subseteq rows
        /\ req[r].first => req[r].seen \subseteq deleted

(* Until the flag was raced: a transaction that clears flags has seen every *)
(* default there is, and one that found no address has no default beside    *)
(* its own.                                                                *)
DefaultsAreSeen ==
    ~raced =>
        /\ \A a, b \in isDefault \cap Live : a = b
        /\ \A r \in Requests : req[r].op.flag /\ req[r].pc \in {"clearing", "cleared", "written"} =>
              isDefault \subseteq req[r].seen
        /\ \A r \in Requests : req[r].pc = "written" /\ req[r].first => isDefault \cap Live = {}

(* The last address cannot go unnoticed: who counted others before its own  *)
(* will not be the only one.                                                *)
OthersWereCounted ==
    \A r \in Requests :
        req[r].pc = "written" /\ req[r].op.kind = "create" /\ ~req[r].first /\ ~disowned => Live # {}

BookInv == BookTypeOK /\ BookSteps /\ DefaultsAreSeen /\ DefaultKept /\ OthersWereCounted

(* Before the first change the invariant of the book holds.                 *)
LEMMA BookInitInv == BookInit => BookInv
<1> SUFFICES ASSUME BookInit PROVE BookInv
  OBVIOUS
<1>1. Idle \in Transactions /\ Idle.pc = "idle" /\ ~Idle.op.flag /\ ~Idle.first
      /\ Idle.seen = {} /\ Idle.op.kind = "none"
  BY DEF Idle, NoOp, Transactions, Ops
<1>2. isDefault \subseteq rows /\ rows = Existing /\ deleted = {}
      /\ \A a, b \in isDefault : a = b
  BY DEF BookInit
<1>3. BookTypeOK
  BY <1>1, <1>2 DEF BookInit, BookTypeOK, Addresses
<1>4. BookSteps /\ DefaultsAreSeen /\ OthersWereCounted
  BY <1>1, <1>2 DEF BookInit, BookSteps, DefaultsAreSeen, OthersWereCounted
<1>5. DefaultKept
  BY <1>2 DEF BookInit, DefaultKept, Live
<1>6. QED BY <1>3, <1>4, <1>5 DEF BookInv

(* The start of a transaction keeps it.                                     *)
LEMMA BeginBook ==
  ASSUME BookInv, NEW r \in Requests, Begin(r)
  PROVE  BookInv'
<1>1. BookTypeOK'
  BY DEF Begin, BookInv, BookTypeOK, table, history, Live, Addresses, Ops, Transactions
<1>2. BookSteps'
  BY DEF Begin, BookInv, BookTypeOK, BookSteps, table, history, Idle, NoOp, Live, Go,
         Transactions, Ops, Addresses
<1>3. DefaultsAreSeen'
  BY DEF Begin, BookInv, BookTypeOK, BookSteps, DefaultsAreSeen, table, history, Idle, NoOp,
         Live, Go, Transactions
<1>4. DefaultKept'
  BY DEF Begin, BookInv, DefaultKept, table, history, Live
<1>5. OthersWereCounted'
  BY DEF Begin, BookInv, BookTypeOK, BookSteps, OthersWereCounted, table, history, Idle, NoOp,
         Live, Go, Transactions
<1>6. QED BY <1>1, <1>2, <1>3, <1>4, <1>5 DEF BookInv

(* It sees every row there is, the default among them. *)
LEMMA BeginClearBook ==
  ASSUME BookInv, NEW r \in Requests, BeginClear(r)
  PROVE  BookInv'
<1>1. BookTypeOK'
  <2>1. /\ req' = [req EXCEPT ![r] = [req[r] EXCEPT !.pc = "clearing", !.seen = rows]]
        /\ req \in [Requests -> Transactions]
    BY DEF BeginClear, Go, BookInv, BookTypeOK
  <2>2. req[r] \in Transactions
    BY <2>1
  <2>3. [req[r] EXCEPT !.pc = "clearing", !.seen = rows] \in Transactions
    BY <2>2 DEF BookInv, BookTypeOK, Transactions
  <2>4. req' \in [Requests -> Transactions]
    BY <2>1, <2>3
  <2>5. QED BY <2>4 DEF BeginClear, BookInv, BookTypeOK, table, history
<1>2. BookSteps'
  BY DEF BeginClear, BookInv, BookTypeOK, BookSteps, table, history, Idle, NoOp, Live, Go,
         Transactions, Ops, Addresses
<1>3. DefaultsAreSeen'
  BY DEF BeginClear, BookInv, BookTypeOK, BookSteps, DefaultsAreSeen, table, history, Idle, NoOp,
         Live, Go, Transactions
<1>4. DefaultKept'
  BY DEF BeginClear, BookInv, DefaultKept, table, history, Live
<1>5. OthersWereCounted'
  BY DEF BeginClear, BookInv, BookTypeOK, BookSteps, OthersWereCounted, table, history, Idle, NoOp,
         Live, Go, Transactions
<1>6. QED BY <1>1, <1>2, <1>3, <1>4, <1>5 DEF BookInv

(* The UPDATE that takes the flags away keeps it.                           *)
LEMMA ClearBook ==
  ASSUME BookInv, NEW r \in Requests, Clear(r)
  PROVE  BookInv'
<1>1. BookTypeOK'
  <2>1. /\ req' = [req EXCEPT ![r] = [req[r] EXCEPT !.pc = "cleared", !.locked = req[r].seen]]
        /\ req \in [Requests -> Transactions]
    BY DEF Clear, Go, BookInv, BookTypeOK
  <2>2. req[r] \in Transactions
    BY <2>1
  <2>3. [req[r] EXCEPT !.pc = "cleared", !.locked = req[r].seen] \in Transactions
    BY <2>2 DEF BookInv, BookTypeOK, Transactions
  <2>4. req' \in [Requests -> Transactions]
    BY <2>1, <2>3
  <2>5. QED BY <2>4 DEF Clear, BookInv, BookTypeOK, table, history
<1>2. BookSteps'
  BY DEF Clear, BookInv, BookTypeOK, BookSteps, table, history, Idle, NoOp, Live, Go,
         Transactions, Ops, Addresses
<1>3. DefaultsAreSeen'
  BY DEF Clear, BookInv, BookTypeOK, BookSteps, DefaultsAreSeen, table, history, Idle, NoOp,
         Live, Go, Transactions
<1>4. DefaultKept'
  BY DEF Clear, BookInv, DefaultKept, table, history, Live
<1>5. OthersWereCounted'
  BY DEF Clear, BookInv, BookTypeOK, BookSteps, OthersWereCounted, table, history, Idle, NoOp,
         Live, Go, Transactions
<1>6. QED BY <1>1, <1>2, <1>3, <1>4, <1>5 DEF BookInv

(* Who finds no address finds no default either, and all its UPDATE saw is  *)
(* deleted. *)
LEMMA CountBook ==
  ASSUME BookInv, NEW r \in Requests, Count(r)
  PROVE  BookInv'
<1>1. BookTypeOK'
  <2>1. /\ req' = [req EXCEPT ![r] = [req[r] EXCEPT !.pc = "written", !.first = (Live = {})]]
        /\ req \in [Requests -> Transactions]
    BY DEF Count, Go, BookInv, BookTypeOK
  <2>2. req[r] \in Transactions
    BY <2>1
  <2>3. [req[r] EXCEPT !.pc = "written", !.first = (Live = {})] \in Transactions
    BY <2>2 DEF BookInv, BookTypeOK, Transactions
  <2>4. req' \in [Requests -> Transactions]
    BY <2>1, <2>3
  <2>5. QED BY <2>4 DEF Count, BookInv, BookTypeOK, table, history
<1>2. BookSteps'
  BY DEF Count, BookInv, BookTypeOK, BookSteps, table, history, Idle, NoOp, Live, Go,
         Transactions, Ops, Addresses
<1>3. DefaultsAreSeen'
  BY DEF Count, BookInv, BookTypeOK, BookSteps, DefaultsAreSeen, table, history, Idle, NoOp,
         Live, Go, Transactions
<1>4. DefaultKept'
  BY DEF Count, BookInv, DefaultKept, table, history, Live
<1>5. OthersWereCounted'
  BY DEF Count, BookInv, BookTypeOK, BookSteps, OthersWereCounted, table, history, Idle, NoOp,
         Live, Go, Transactions
<1>6. QED BY <1>1, <1>2, <1>3, <1>4, <1>5 DEF BookInv

(* The write of the address keeps it.                                       *)
LEMMA WriteBook ==
  ASSUME BookInv, NEW r \in Requests, Write(r)
  PROVE  BookInv'
<1>1. BookTypeOK'
  <2>1. /\ req' = [req EXCEPT ![r] =
                       [req[r] EXCEPT !.pc = "written", !.locked = @ \cup {req[r].op.id}]]
        /\ req \in [Requests -> Transactions]
    BY DEF Write, Go, BookInv, BookTypeOK
  <2>2. req[r] \in Transactions
    BY <2>1
  <2>3. [req[r] EXCEPT !.pc = "written", !.locked = @ \cup {req[r].op.id}] \in Transactions
    <3>1. req[r].op.id \in Addresses
      BY DEF Write, BookInv, BookTypeOK, BookSteps
    <3>2. QED BY <2>2, <3>1 DEF Transactions
  <2>4. req' \in [Requests -> Transactions]
    BY <2>1, <2>3
  <2>5. QED BY <2>4 DEF Write, BookInv, BookTypeOK, table, history
<1>2. BookSteps'
  BY DEF Write, BookInv, BookTypeOK, BookSteps, table, history, Idle, NoOp, Live, Go,
         Transactions, Ops, Addresses
<1>3. DefaultsAreSeen'
  BY DEF Write, BookInv, BookTypeOK, BookSteps, DefaultsAreSeen, table, history, Idle, NoOp,
         Live, Go, Transactions
<1>4. DefaultKept'
  BY DEF Write, BookInv, DefaultKept, table, history, Live
<1>5. OthersWereCounted'
  BY DEF Write, BookInv, BookTypeOK, BookSteps, OthersWereCounted, table, history, Idle, NoOp,
         Live, Go, Transactions
<1>6. QED BY <1>1, <1>2, <1>3, <1>4, <1>5 DEF BookInv

(* A flag-setter has locked every default there is, so its own is the only  *)
(* one left; a first address finds none.  Whoever cannot see the new        *)
(* default and is about to set one races it.                                *)
LEMMA CommitBook ==
  ASSUME BookInv, NEW r \in Requests, Commit(r)
  PROVE  BookInv'
<1> USE DEF Commit, BookTypeOK, BookSteps, DefaultsAreSeen, DefaultKept, OthersWereCounted
<1>1. BookTypeOK'
  <2>1. /\ req' = [req EXCEPT ![r] = [Idle EXCEPT !.pc = "over"]]
        /\ req \in [Requests -> Transactions]
    BY DEF Commit, Go, BookInv, BookTypeOK
  <2>2. req[r] \in Transactions
    BY <2>1
  <2>3. [Idle EXCEPT !.pc = "over"] \in Transactions
    BY DEF Transactions, Idle, NoOp, Ops
  <2>4. req' \in [Requests -> Transactions]
    BY <2>1, <2>3
  <2>5. req[r].op.id \in Addresses
    BY DEF BookInv, Addresses
  <2>6. rows' \subseteq Addresses /\ isDefault' \subseteq rows'
    BY <2>5 DEF BookInv, FlagsAfter
  <2>7. raced' \in BOOLEAN /\ disowned' \in BOOLEAN
    <3>1. raced \in BOOLEAN /\ disowned \in BOOLEAN
      BY DEF BookInv
    <3>2. \A P, Q : (P \/ Q) \in BOOLEAN
      OBVIOUS
    <3>3. (req[r].op.id \in deleted) \in BOOLEAN
      OBVIOUS
    <3>4. QED BY <3>1, <3>2, <3>3, Zenon
  <2>8. QED BY <2>4, <2>6, <2>7
<1>2. BookSteps'
  BY DEF Commit, BookInv, BookTypeOK, BookSteps, table, history, Idle, NoOp, Live, Go,
         Transactions, Ops, Addresses
<1>3. DefaultsAreSeen'
  <2> SUFFICES ASSUME ~raced'
               PROVE  /\ \A a, b \in isDefault' \cap Live' : a = b
                      /\ \A q \in Requests : req'[q].op.flag
                            /\ req'[q].pc \in {"clearing", "cleared", "written"} =>
                            isDefault' \subseteq req'[q].seen
                      /\ \A q \in Requests : req'[q].pc = "written" /\ req'[q].first =>
                            isDefault' \cap Live' = {}
    OBVIOUS
  <2> DEFINE id == req[r].op.id
             on == req[r].op.flag \/ req[r].first
  <2>1. ~raced /\ (on => \A q \in Requests \ {r} : ~(MaySetDefault(q) /\ CannotSee(q, id)))
    OBVIOUS
  <2>2. req'[r].pc = "over" /\ \A q \in Requests : q # r => req'[q] = req[q]
    BY DEF BookInv, Idle
  <2>3. Live' \subseteq Live \cup {id} /\ deleted' = deleted /\ isDefault \subseteq rows
    BY DEF BookInv, Live
  <2>4. CASE on
    <3>1. \A a, b \in isDefault' \cap Live' : a = b
      <4>1. CASE req[r].op.flag
        BY <2>1, <4>1 DEF BookInv, FlagsAfter
      <4>2. CASE ~req[r].op.flag /\ req[r].first
        BY <2>1, <2>3, <4>2 DEF BookInv, FlagsAfter, Live
      <4>3. QED BY <2>4, <4>1, <4>2
    <3>2. isDefault' \subseteq isDefault \cup {id}
      BY DEF FlagsAfter
    <3>3. ASSUME NEW q \in Requests, q # r, req[q].op.flag,
                 req[q].pc \in {"clearing", "cleared", "written"}
          PROVE  isDefault' \subseteq req[q].seen
      BY <2>1, <2>4, <3>2, <3>3 DEF BookInv, MaySetDefault, CannotSee, Open
    <3>4. ASSUME NEW q \in Requests, q # r, req[q].pc = "written", req[q].first
          PROVE  isDefault' \cap Live' = {}
      <4>1. req[q].op.flag /\ id \in req[q].seen
        BY <2>1, <2>4, <3>4 DEF BookInv, MaySetDefault, CannotSee, Open
      <4>2. id \in deleted
        BY <3>4, <4>1 DEF BookInv
      <4>3. QED BY <2>1, <2>3, <3>2, <3>4, <4>2 DEF BookInv, Live
    <3>5. QED BY <2>2, <3>1, <3>3, <3>4
  <2>5. CASE ~on
    <3>1. isDefault' \subseteq isDefault /\ id \notin isDefault'
      BY <2>5 DEF FlagsAfter
    <3>2. isDefault' \cap Live' \subseteq isDefault \cap Live
      BY <2>3, <3>1
    <3>3. QED BY <2>1, <2>2, <3>1, <3>2 DEF BookInv
  <2>6. QED BY <2>4, <2>5
<1>4. DefaultKept'
  <2>1. CASE req[r].op.flag \/ req[r].first
    BY <2>1 DEF FlagsAfter, Live
  <2>2. CASE ~(req[r].op.flag \/ req[r].first)
    <3>1. SUFFICES ASSUME Live' # {}, ~disowned' PROVE isDefault' \cap Live' # {}
      OBVIOUS
    <3>2. ~disowned /\ req[r].op.id \notin isDefault /\ isDefault' = isDefault
      BY <2>2, <3>1 DEF FlagsAfter
    <3>3. req[r].op.kind = "create" => Live # {}
      BY <2>2, <3>2 DEF BookInv
    <3>4. req[r].op.kind = "update" => req[r].op.id \in rows
      BY DEF BookInv
    <3>5. (Live # {} /\ Live \subseteq Live') \/ Live' = Live
      BY <3>3, <3>4 DEF BookInv, Live
    <3>6. CASE Live' = Live
      BY <3>1, <3>2, <3>6 DEF BookInv
    <3>7. CASE Live # {} /\ Live \subseteq Live'
      BY <3>2, <3>7 DEF BookInv
    <3>8. QED BY <3>5, <3>6, <3>7
  <2>3. QED BY <2>1, <2>2
<1>5. OthersWereCounted'
  BY DEF Commit, BookInv, BookTypeOK, BookSteps, OthersWereCounted, table, history, Idle, NoOp,
         Live, Go, Transactions
<1>6. QED BY <1>1, <1>2, <1>3, <1>4, <1>5 DEF BookInv

(* Deleting what is not the default leaves the default, if there is one.    *)
LEMMA DeleteBook ==
  ASSUME BookInv, NEW r \in Requests, Delete(r)
  PROVE  BookInv'
<1> USE DEF Delete, BookTypeOK, BookSteps, DefaultsAreSeen, DefaultKept, OthersWereCounted
<1>1. BookTypeOK'
  <2>1. /\ req' = [req EXCEPT ![r] = [Idle EXCEPT !.pc = "over"]]
        /\ req \in [Requests -> Transactions]
    BY DEF Delete, Go, BookInv, BookTypeOK
  <2>2. req[r] \in Transactions
    BY <2>1
  <2>3. [Idle EXCEPT !.pc = "over"] \in Transactions
    BY DEF Transactions, Idle, NoOp, Ops
  <2>4. req' \in [Requests -> Transactions]
    BY <2>1, <2>3
  <2>5. QED BY <2>4 DEF Delete, BookInv, BookTypeOK, table, history
<1>2. BookSteps'
  BY DEF Delete, BookInv, BookTypeOK, BookSteps, table, history, Idle, NoOp, Live, Go,
         Transactions, Ops, Addresses
<1>3. DefaultsAreSeen'
  BY DEF Delete, BookInv, BookTypeOK, BookSteps, DefaultsAreSeen, table, history, Idle, NoOp,
         Live, Go, Transactions
<1>4. Live # {} /\ ~disowned' => isDefault' \cap Live' # {}
  BY DEF BookInv, Live
<1>5. DefaultKept'
  BY <1>4 DEF Live
<1>6. OthersWereCounted'
  <2>1. ASSUME NEW q \in Requests, req'[q].pc = "written"
        PROVE  q # r /\ req'[q] = req[q]
    BY <2>1 DEF BookInv
  <2>2. QED BY <1>4, <2>1 DEF BookInv
<1>7. QED BY <1>1, <1>2, <1>3, <1>5, <1>6 DEF BookInv

(* An abort keeps it.                                                       *)
LEMMA AbortBook ==
  ASSUME BookInv, NEW r \in Requests, Abort(r)
  PROVE  BookInv'
<1>1. BookTypeOK'
  <2>1. /\ req' = [req EXCEPT ![r] = [Idle EXCEPT !.pc = "over"]]
        /\ req \in [Requests -> Transactions]
    BY DEF Abort, Go, BookInv, BookTypeOK
  <2>2. req[r] \in Transactions
    BY <2>1
  <2>3. [Idle EXCEPT !.pc = "over"] \in Transactions
    BY DEF Transactions, Idle, NoOp, Ops
  <2>4. req' \in [Requests -> Transactions]
    BY <2>1, <2>3
  <2>5. QED BY <2>4 DEF Abort, BookInv, BookTypeOK, table, history
<1>2. BookSteps'
  BY DEF Abort, BookInv, BookTypeOK, BookSteps, table, history, Idle, NoOp, Live, Go,
         Transactions, Ops, Addresses
<1>3. DefaultsAreSeen'
  BY DEF Abort, BookInv, BookTypeOK, BookSteps, DefaultsAreSeen, table, history, Idle, NoOp,
         Live, Go, Transactions
<1>4. DefaultKept'
  BY DEF Abort, BookInv, DefaultKept, table, history, Live
<1>5. OthersWereCounted'
  BY DEF Abort, BookInv, BookTypeOK, BookSteps, OthersWereCounted, table, history, Idle, NoOp,
         Live, Go, Transactions
<1>6. QED BY <1>1, <1>2, <1>3, <1>4, <1>5 DEF BookInv

(* Every step keeps it.                                                     *)
LEMMA BookStep == BookInv /\ [BookNext]_bookVars => BookInv'
<1> SUFFICES ASSUME BookInv, [BookNext]_bookVars PROVE BookInv'
  OBVIOUS
<1>1. CASE UNCHANGED bookVars
  BY <1>1 DEF bookVars, table, history, BookInv, BookTypeOK, BookSteps, DefaultsAreSeen,
              DefaultKept, OthersWereCounted, Live
<1>2. CASE BookNext
  BY <1>2, BeginBook, BeginClearBook, ClearBook, CountBook, WriteBook, CommitBook,
     DeleteBook, AbortBook DEF BookNext, Step
<1>3. QED BY <1>1, <1>2

(* The inductive invariant of the address book.                             *)
LEMMA BookInvariance == BookSpec => []BookInv
BY BookInitInv, BookStep, PTL DEF BookSpec

(* Two defaults have one cause: an address became the default that another  *)
(* transaction, about to set a default, could not see.  Requests that       *)
(* create, change and delete addresses overlap in every way, any number of  *)
(* them.                                                                    *)
THEOREM OneDefaultHolds == BookSpec => []OneDefault
<1>1. BookInv => OneDefault
  <2> SUFFICES ASSUME BookInv, ~raced PROVE Cardinality(isDefault \cap Live) <= 1
    BY DEF OneDefault
  <2> DEFINE D == isDefault \cap Live
  <2>1. \A a, b \in D : a = b
    BY DEF BookInv, DefaultsAreSeen
  <2>2. CASE D = {}
    BY <2>2, FS_EmptySet
  <2>3. CASE D # {}
    <3>1. PICK a : D = {a}
      BY <2>1, <2>3
    <3>2. QED BY <3>1, FS_Singleton
  <2>4. QED BY <2>2, <2>3
<1>2. QED BY <1>1, BookInvariance, PTL

(* A customer with addresses keeps a default one unless they gave it up.    *)
THEOREM DefaultIsKept == BookSpec => []DefaultKept
<1>1. BookInv => DefaultKept
  BY DEF BookInv
<1>2. QED BY <1>1, BookInvariance, PTL

-----------------------------------------------------------------------------
(* The shop's order of products. *)

(* orderFor orders the products strictly and totally, whatever sells best.  *)
LEMMA OrderIsTotal ==
  /\ \A p \in Products : ~Before(p, p)
  /\ \A p, q \in Products : p # q => Before(p, q) \/ Before(q, p)
  /\ \A p, q \in Products : Before(p, q) => ~Before(q, p)
  /\ \A p, q, r \in Products : Before(p, q) /\ Before(q, r) => Before(p, r)
<1>1. Products \subseteq Nat
  BY CatalogAssumption
<1>2. QED BY <1>1 DEF Before

(* Some of them have a first, by the order of ids among bestsellers or all. *)
LEMMA SomeAreFirst ==
  ASSUME NEW S, S \subseteq Products, S # {}
  PROVE  \E p \in S : \A q \in S \ {p} : Before(p, q)
<1>1. Products \subseteq Nat
  BY CatalogAssumption
<1> DEFINE T == IF S \cap best # {} THEN S \cap best ELSE S
<1>2. T \subseteq Nat /\ T # {}
  BY <1>1
<1>3. PICK p \in T : \A q \in T : p <= q
  BY <1>2, LeastOf
<1>4. ASSUME NEW q \in S \ {p} PROVE Before(p, q)
  BY <1>1, <1>3 DEF Before
<1>5. QED BY <1>3, <1>4

(* And a last, as products are finite in number. *)
LEMMA SomeAreLast ==
  ASSUME NEW S, S \subseteq Products, S # {}
  PROVE  \E p \in S : \A q \in S \ {p} : Before(q, p)
<1> DEFINE HasLast(U) == \E p \in U : \A q \in U \ {p} : Before(q, p)
          Without == {n \in Nat : \E U \in SUBSET Products :
                          U # {} /\ Cardinality(U) = n /\ ~HasLast(U)}
<1>1. \A U \in SUBSET Products : IsFiniteSet(U) /\ Cardinality(U) \in Nat
  BY CatalogAssumption, FS_Subset, FS_CardinalityType
<1>2. ASSUME Without # {} PROVE FALSE
  <2>1. PICK n \in Without : \A m \in Without : n <= m
    BY <1>2, LeastOf
  <2>2. PICK U \in SUBSET Products : U # {} /\ Cardinality(U) = n /\ ~HasLast(U)
    BY <2>1
  <2>3. PICK x : x \in U
    BY <2>2
  <2>4. Cardinality(U \ {x}) = n - 1 /\ n \in Nat
    BY <1>1, <2>1, <2>2, <2>3, FS_RemoveElement
  <2>5. U \ {x} # {}
    BY <2>2, <2>3
  <2>6. HasLast(U \ {x})
    <3>1. n - 1 \in Nat
      BY <1>1, <2>4, <2>2
    <3>2. ~(n - 1 \in Without)
      BY <2>1, <2>4
    <3>3. QED BY <2>2, <2>4, <2>5, <3>1, <3>2
  <2>7. PICK m \in U \ {x} : \A q \in (U \ {x}) \ {m} : Before(q, m)
    BY <2>6
  <2>8. m \in Products /\ x \in Products /\ U \subseteq Products
    BY <2>3, <2>7
  <2>9. CASE Before(x, m)
    BY <2>2, <2>7, <2>9
  <2>10. CASE Before(m, x)
    <3>1. \A q \in U \ {x} : Before(q, x)
      BY <2>7, <2>8, <2>10, OrderIsTotal, Zenon
    <3>2. QED BY <2>2, <2>3, <3>1
  <2>11. QED BY <2>7, <2>8, <2>9, <2>10, OrderIsTotal
<1>3. Cardinality(S) \in Nat
  BY <1>1
<1>4. HasLast(S)
  BY <1>2, <1>3
<1>5. QED BY <1>4

(* What ORDER BY and LIMIT give: the first rows and no gap, all of them if  *)
(* they are not more, and as many as were asked for if they are.            *)
Preceding(S, p) == {q \in S : Before(q, p)}

(* Products can be counted, and fewer of them are fewer.                    *)
LEMMA Counting ==
  ASSUME NEW S, S \subseteq Products, NEW U, U \subseteq S
  PROVE  /\ IsFiniteSet(U) /\ Cardinality(U) \in Nat /\ Cardinality(S) \in Nat
         /\ Cardinality(U) <= Cardinality(S)
         /\ U # S => Cardinality(U) < Cardinality(S)
<1>1. IsFiniteSet(S)
  BY CatalogAssumption, FS_Subset
<1>2. /\ IsFiniteSet(U) /\ Cardinality(U) <= Cardinality(S)
      /\ Cardinality(S) = Cardinality(U) => S = U
  BY <1>1, FS_Subset
<1>3. Cardinality(U) \in Nat /\ Cardinality(S) \in Nat
  BY <1>1, <1>2, FS_CardinalityType
<1>4. QED BY <1>2, <1>3

(* The first n rows have no gap,                                            *)
LEMMA TakeHasNoGap ==
  ASSUME NEW S, S \subseteq Products, NEW n \in Nat,
         NEW p \in Take(S, n), NEW q \in S, Before(q, p)
  PROVE  q \in Take(S, n)
<1>1. p \in S /\ Cardinality(Preceding(S, p)) < n
  BY DEF Take, Preceding
<1>2. Preceding(S, q) \subseteq Preceding(S, p) /\ Preceding(S, p) \subseteq Products
  BY <1>1, OrderIsTotal DEF Preceding
<1>3. /\ Cardinality(Preceding(S, q)) <= Cardinality(Preceding(S, p))
      /\ Cardinality(Preceding(S, q)) \in Nat /\ Cardinality(Preceding(S, p)) \in Nat
  BY <1>2, Counting
<1>4. Cardinality(Preceding(S, q)) < n
  BY <1>1, <1>3
<1>5. QED BY <1>4 DEF Take, Preceding

(* ... are all of them if there are not more,                               *)
LEMMA TakeOfFew ==
  ASSUME NEW S, S \subseteq Products, NEW n \in Nat, Cardinality(S) <= n
  PROVE  Take(S, n) = S
<1>1. ASSUME NEW p \in S PROVE Cardinality({q \in S : Before(q, p)}) < n
  <2>1. Preceding(S, p) \subseteq S /\ Preceding(S, p) # S
    BY OrderIsTotal DEF Preceding
  <2>2. /\ Cardinality(Preceding(S, p)) < Cardinality(S)
        /\ Cardinality(Preceding(S, p)) \in Nat /\ Cardinality(S) \in Nat
    BY <2>1, Counting
  <2>3. QED BY <2>2 DEF Preceding
<1>2. QED BY <1>1 DEF Take

(* ... are n if there are,                                                  *)
LEMMA TakeIsFull ==
  ASSUME NEW S, S \subseteq Products, NEW n \in Nat, Cardinality(Take(S, n)) < n
  PROVE  Take(S, n) = S
<1>1. Take(S, n) \subseteq S
  BY DEF Take
<1>2. ASSUME S \ Take(S, n) # {} PROVE FALSE
  <2>1. PICK p \in S \ Take(S, n) : \A q \in (S \ Take(S, n)) \ {p} : Before(p, q)
    BY <1>2, SomeAreFirst
  <2>2. Preceding(S, p) \subseteq Take(S, n)
    BY <2>1, OrderIsTotal DEF Preceding
  <2>3. Take(S, n) \subseteq Products
    BY <1>1
  <2>6. /\ Cardinality(Preceding(S, p)) <= Cardinality(Take(S, n))
        /\ Cardinality(Preceding(S, p)) \in Nat /\ Cardinality(Take(S, n)) \in Nat
    BY <2>2, <2>3, Counting
  <2>4. Cardinality(Preceding(S, p)) < n
    BY <2>6
  <2>5. QED BY <2>1, <2>4 DEF Take, Preceding
<1>3. QED BY <1>1, <1>2

(* ... and begin with the first.                                            *)
LEMMA TakeBegins ==
  ASSUME NEW S, S \subseteq Products, NEW n \in Nat \ {0}, NEW p \in S,
         \A q \in S \ {p} : Before(p, q)
  PROVE  p \in Take(S, n) /\ Take(S, 1) = {p}
<1>1. {q \in S : Before(q, p)} = {}
  BY OrderIsTotal
<1>2. Cardinality({q \in S : Before(q, p)}) = 0
  BY <1>1, FS_EmptySet
<1>3. p \in Take(S, n) /\ p \in Take(S, 1)
  BY <1>2 DEF Take
<1>4. ASSUME NEW r \in S \ {p} PROVE ~(Cardinality({q \in S : Before(q, r)}) < 1)
  <2>1. p \in {q \in S : Before(q, r)} /\ {q \in S : Before(q, r)} \subseteq Products
    BY <1>4
  <2>2. IsFiniteSet({q \in S : Before(q, r)}) /\ Cardinality({q \in S : Before(q, r)}) \in Nat
    BY <2>1, Counting
  <2>3. Cardinality({q \in S : Before(q, r)}) # 0
    BY <2>1, <2>2, FS_EmptySet
  <2>4. QED BY <2>2, <2>3
<1>5. QED BY <1>3, <1>4 DEF Take

-----------------------------------------------------------------------------
(* A page of the shop. *)

Behind == {p \in listed : cursor = NoProduct \/ Before(cursor, p)}

(* The rows ahead are behind the cursor; skipping one row skips the         *)
(* cursor's product, if it is still listed.                                 *)
LEMMA AheadIsBehind ==
  ASSUME CatalogTypeOK
  PROVE  /\ RowsAhead \subseteq Behind
         /\ cursor \in listed \cup {NoProduct} => RowsAhead = Behind
<1> DEFINE from == {p \in listed : cursor = NoProduct \/ ~Before(p, cursor)}
<1>1. NoProduct \notin Products /\ listed \subseteq Products /\ from \subseteq Products
  BY CatalogAssumption DEF CatalogTypeOK, NoProduct
<1>2. CASE cursor = NoProduct
  BY <1>2 DEF RowsAhead, Behind
<1>3. CASE cursor \in listed
  <2>1. cursor \in from /\ \A q \in from \ {cursor} : Before(cursor, q)
    BY <1>1, <1>3, OrderIsTotal
  <2>2. Take(from, 1) = {cursor}
    BY <1>1, <2>1, TakeBegins
  <2>3. from \ {cursor} = Behind
    BY <1>1, <1>3, OrderIsTotal DEF Behind
  <2>4. cursor # NoProduct
    BY <1>1, <1>3
  <2>5. QED BY <2>2, <2>3, <2>4 DEF RowsAhead
<1>4. CASE cursor \in Products \ listed
  <2>1. cursor # NoProduct /\ RowsAhead \subseteq from
    BY <1>1, <1>4 DEF RowsAhead
  <2>2. from \subseteq Behind
    BY <1>1, <1>4, <2>1, OrderIsTotal DEF Behind
  <2>3. QED BY <1>1, <1>4, <2>1, <2>2
<1>5. QED BY <1>2, <1>3, <1>4 DEF CatalogTypeOK

(* A page with more to come ends on a product.                              *)
LEMMA PageHasLast ==
  ASSUME CatalogTypeOK, Cardinality(Rows) > Limit
  PROVE  LET batch == Take(Rows, Limit) IN
         /\ batch \subseteq Rows /\ batch \subseteq Products
         /\ LastOf(batch) \in batch /\ \A q \in batch \ {LastOf(batch)} : Before(q, LastOf(batch))
<1> DEFINE batch == Take(Rows, Limit)
<1>1. Limit \in Nat \ {0}
  BY CatalogAssumption
<1>2. batch \subseteq Rows /\ Rows \subseteq Products
  BY DEF CatalogTypeOK, Rows, RowsAhead, Take
<1>3. Rows # {}
  BY <1>1, FS_EmptySet
<1>4. PICK p \in Rows : \A q \in Rows \ {p} : Before(p, q)
  BY <1>2, <1>3, SomeAreFirst
<1>5. p \in batch
  BY <1>1, <1>2, <1>4, TakeBegins
<1>6. \E r \in batch : \A q \in batch \ {r} : Before(q, r)
  BY <1>2, <1>5, SomeAreLast
<1>7. QED BY <1>2, <1>6 DEF LastOf

(* It has all the rows ahead up to that; the last page has the rest.        *)
LEMMA PageIsNext ==
  ASSUME CatalogTypeOK
  PROVE  LET batch == Take(Rows, Limit) IN
         /\ ~(Cardinality(Rows) > Limit) => batch = RowsAhead
         /\ Cardinality(Rows) > Limit =>
               /\ LastOf(batch) \in RowsAhead
               /\ batch = {p \in RowsAhead : ~Before(LastOf(batch), p)}
<1> DEFINE batch == Take(Rows, Limit)
<1>1. Limit \in Nat \ {0} /\ Limit + 1 \in Nat \ {0}
  BY CatalogAssumption
<1>2. RowsAhead \subseteq Products
  BY DEF CatalogTypeOK, RowsAhead
<1>3. Rows = Take(RowsAhead, Limit + 1)
  BY DEF Rows
<1>4. Rows \subseteq RowsAhead
  BY <1>3 DEF Take
<1>5. Rows \subseteq Products
  BY <1>2, <1>4
<1>6. Cardinality(Rows) \in Nat
  BY <1>5, Counting
<1>7. ASSUME ~(Cardinality(Rows) > Limit) PROVE batch = RowsAhead
  <2>1. Cardinality(Rows) <= Limit /\ Cardinality(Rows) < Limit + 1
    BY <1>1, <1>6, <1>7
  <2>2. Rows = RowsAhead
    BY <1>1, <1>2, <1>3, <2>1, TakeIsFull
  <2>3. batch = Rows
    BY <1>1, <1>5, <2>1, TakeOfFew
  <2>4. QED BY <2>2, <2>3
<1>8. ASSUME Cardinality(Rows) > Limit
      PROVE  /\ LastOf(batch) \in RowsAhead
             /\ batch = {p \in RowsAhead : ~Before(LastOf(batch), p)}
  <2>1. /\ batch \subseteq Rows /\ batch \subseteq Products
        /\ LastOf(batch) \in batch /\ \A q \in batch \ {LastOf(batch)} : Before(q, LastOf(batch))
    BY <1>8, PageHasLast
  <2>2. ASSUME NEW p \in batch, NEW q \in RowsAhead, Before(q, p) PROVE q \in batch
    <3>1. p \in Rows
      BY <2>1
    <3>2. q \in Rows
      BY <1>1, <1>2, <1>3, <2>2, <3>1, TakeHasNoGap
    <3>3. QED BY <1>1, <1>5, <2>2, <3>2, TakeHasNoGap
  <2> DEFINE last == LastOf(batch)
  <2> HIDE DEF last, batch
  <2>3. last \in batch /\ \A q \in batch \ {last} : Before(q, last)
    BY <2>1 DEF last
  <2>4. \A p \in batch : p \in RowsAhead /\ ~Before(last, p)
    BY <1>2, <1>4, <2>1, <2>3, OrderIsTotal
  <2>5. \A p \in RowsAhead : ~Before(last, p) => p \in batch
    BY <1>2, <2>1, <2>2, <2>3, OrderIsTotal
  <2>6. last \in RowsAhead /\ batch = {p \in RowsAhead : ~Before(last, p)}
    BY <2>3, <2>4, <2>5
  <2>7. QED BY <2>6 DEF last
<1>9. QED BY <1>7, <1>8

(* The inductive invariant: nothing was shown twice, or that is behind the  *)
(* cursor, and everything listed up to it was, but for a skipped row.       *)
Passed(p) == over \/ (cursor # NoProduct /\ ~Before(cursor, p))

ShownUpToCursor ==
    ~slid => \A p \in Products \ touched :
                /\ seen[p] \in {0, 1}
                /\ seen[p] = 1 => p \in listed /\ Passed(p)
                /\ ~skipped /\ p \in listed /\ Passed(p) => seen[p] = 1

CatalogInv == CatalogTypeOK /\ ShownUpToCursor

(* Before the first page nothing has been shown.                            *)
LEMMA CatalogInitHolds == CatalogInit => CatalogInv
<1> SUFFICES ASSUME CatalogInit PROVE CatalogInv
  OBVIOUS
<1>1. NoProduct \notin Products
  BY CatalogAssumption DEF NoProduct
<1>2. offer \in [Products -> [Variants -> {"sold", "unsold", "off"}]]
  BY DEF CatalogInit
<1>3. CatalogTypeOK
  BY <1>2 DEF CatalogInit, CatalogTypeOK
<1>4. ShownUpToCursor
  BY DEF CatalogInit, ShownUpToCursor, Passed
<1>5. QED BY <1>3, <1>4 DEF CatalogInv

(* A page shows what lies between the old cursor and the new.               *)
LEMMA PageKeepsInv == CatalogInv /\ list => CatalogInv'
<1> SUFFICES ASSUME CatalogInv, list PROVE CatalogInv'
  OBVIOUS
<1> USE DEF CatalogInv
<1> DEFINE more == Cardinality(Rows) > Limit
          batch == Take(Rows, Limit)
<1>1. /\ ~over
      /\ seen' = [p \in Products |-> IF p \in batch THEN seen[p] + 1 ELSE seen[p]]
      /\ cursor' = IF more THEN LastOf(batch) ELSE NoProduct
      /\ over' = ~more
      /\ skipped' = (skipped \/ cursor \notin listed \cup {NoProduct})
      /\ UNCHANGED catalog
  BY DEF list
<1>2. /\ listed' = listed /\ best' = best /\ offer' = offer
      /\ touched' = touched /\ slid' = slid
  BY <1>1 DEF catalog
<1>3. \A p, q : Before(p, q)' <=> Before(p, q)
  BY <1>2 DEF Before
<1>4. NoProduct \notin Products /\ listed \subseteq Products
  BY CatalogAssumption DEF NoProduct, CatalogTypeOK
<1>5. seen' \in [Products -> Nat]
  BY <1>1 DEF CatalogTypeOK
<1>6. more => LastOf(batch) \in Products
  BY PageHasLast
<1>7. CatalogTypeOK'
  <2>1. cursor' \in Products \cup {NoProduct}
    BY <1>1, <1>6
  <2>2. over' \in BOOLEAN /\ skipped' \in BOOLEAN
    BY <1>1 DEF CatalogTypeOK
  <2>3. QED BY <1>2, <1>5, <2>1, <2>2 DEF CatalogTypeOK
<1>8. ASSUME ~slid PROVE ShownUpToCursor'
  <2>1. Behind \subseteq listed
    BY DEF Behind
  <2>2. /\ RowsAhead \subseteq Behind
        /\ ~skipped' => ~skipped /\ RowsAhead = Behind
    BY <1>1, AheadIsBehind
  <2>3. ASSUME NEW p \in Products \ touched
        PROVE  /\ seen[p] \in {0, 1}
               /\ seen[p] = 1 => p \in listed \ Behind
               /\ ~skipped /\ p \in listed \ Behind => seen[p] = 1
    BY <1>1, <1>8 DEF ShownUpToCursor, Passed, Behind
  <2>4. CASE more
    <3>1. LastOf(batch) \in RowsAhead /\ batch = {p \in RowsAhead : ~Before(LastOf(batch), p)}
      BY <2>4, PageIsNext
    <3>2. cursor' = LastOf(batch) /\ ~over'
      BY <1>1, <2>4
    <3> HIDE DEF batch, more
    <3>3. cursor' \in listed /\ cursor' \in Behind /\ cursor' # NoProduct
      BY <1>4, <2>1, <2>2, <3>1, <3>2
    <3>4. ASSUME NEW p \in Products \ touched
          PROVE  /\ seen'[p] \in {0, 1}
                 /\ seen'[p] = 1 => p \in listed /\ ~Before(cursor', p)
                 /\ ~skipped' /\ p \in listed /\ ~Before(cursor', p) => seen'[p] = 1
      <4>1. ASSUME p \in listed \ Behind PROVE ~Before(cursor', p)
        <5>1. cursor # NoProduct /\ ~Before(cursor, p)
          BY <4>1 DEF Behind
        <5>2. Before(cursor, cursor')
          BY <3>3, <5>1 DEF Behind
        <5>3. cursor \in Products /\ cursor' \in Products
          BY <1>4, <3>3, <5>1 DEF CatalogTypeOK
        <5>4. QED BY <5>1, <5>2, <5>3, OrderIsTotal
      <4>2. p \in batch <=> p \in RowsAhead /\ ~Before(cursor', p)
        BY <3>1, <3>2
      <4>3. seen'[p] = IF p \in batch THEN seen[p] + 1 ELSE seen[p]
        BY <1>1
      <4>4. CASE p \in batch
        BY <2>1, <2>2, <2>3, <4>2, <4>3, <4>4
      <4>5. CASE p \notin batch
        BY <2>1, <2>2, <2>3, <4>1, <4>2, <4>3, <4>5
      <4>6. QED BY <4>4, <4>5
    <3>5. QED BY <1>2, <1>3, <3>2, <3>3, <3>4 DEF ShownUpToCursor, Passed
  <2>5. CASE ~more
    <3>1. batch = RowsAhead
      BY <2>5, PageIsNext
    <3>2. cursor' = NoProduct /\ over'
      BY <1>1, <2>5
    <3> HIDE DEF batch, more
    <3>3. ASSUME NEW p \in Products \ touched
          PROVE  /\ seen'[p] \in {0, 1}
                 /\ seen'[p] = 1 => p \in listed
                 /\ ~skipped' /\ p \in listed => seen'[p] = 1
      <4>1. seen'[p] = IF p \in RowsAhead THEN seen[p] + 1 ELSE seen[p]
        BY <1>1, <3>1
      <4>2. CASE p \in RowsAhead
        BY <2>1, <2>2, <2>3, <4>1, <4>2
      <4>3. CASE p \notin RowsAhead
        BY <2>1, <2>2, <2>3, <4>1, <4>3
      <4>4. QED BY <4>2, <4>3
    <3>4. QED BY <1>2, <3>2, <3>3 DEF ShownUpToCursor, Passed
  <2>6. QED BY <2>4, <2>5
<1>9. CASE slid
  BY <1>2, <1>7, <1>9 DEF ShownUpToCursor
<1>10. QED BY <1>7, <1>8, <1>9

(* A product listed, withdrawn or promoted meanwhile is set aside, and with *)
(* one that is moved the scroll if it was its cursor.                       *)
LEMMA TouchKeepsInv ==
  ASSUME CatalogInv, NEW p \in Products, ListOrWithdraw(p) \/ Promote(p)
  PROVE  CatalogInv'
<1> USE DEF CatalogInv
<1>1. /\ cursor' = cursor /\ seen' = seen /\ over' = over /\ offer' = offer
      /\ skipped' = skipped /\ touched' = touched \cup {p}
      /\ listed' \subseteq Products /\ best' \subseteq Products
  BY DEF ListOrWithdraw, Promote, Change, scroll, CatalogTypeOK
<1>2. \/ best' = best /\ slid' = slid
      \/ slid' = (slid \/ cursor = p)
  BY DEF ListOrWithdraw, Promote
<1>3. ASSUME NEW q \in Products \ {p}
      PROVE  /\ q \in listed' <=> q \in listed
             /\ q \in best' <=> q \in best
  BY DEF ListOrWithdraw, Promote
<1>4. CatalogTypeOK'
  <2>1. slid' \in BOOLEAN
    BY <1>2 DEF CatalogTypeOK
  <2>2. QED BY <1>1, <2>1 DEF CatalogTypeOK
<1>5. ASSUME ~slid' PROVE ShownUpToCursor'
  <2>1. ~slid /\ (best' = best \/ cursor # p)
    BY <1>2, <1>5 DEF CatalogTypeOK
  <2>2. ASSUME NEW q \in Products \ touched'
        PROVE  /\ seen'[q] \in {0, 1}
               /\ seen'[q] = 1 => q \in listed' /\ Passed(q)'
               /\ ~skipped' /\ q \in listed' /\ Passed(q)' => seen'[q] = 1
    <3>1. q \in Products \ touched /\ q \in Products \ {p}
      BY <1>1, <2>2
    <3>2. cursor # NoProduct => (Before(cursor, q)' <=> Before(cursor, q))
      <4>1. q \in best' <=> q \in best
        BY <1>3, <3>1
      <4>2. cursor # NoProduct => (cursor \in best' <=> cursor \in best)
        BY <1>3, <2>1 DEF CatalogTypeOK
      <4>3. QED BY <1>1, <4>1, <4>2 DEF Before
    <3>3. Passed(q)' <=> Passed(q)
      BY <1>1, <3>2 DEF Passed
    <3>4. q \in listed' <=> q \in listed
      BY <1>3, <3>1
    <3>5. QED BY <1>1, <2>1, <3>1, <3>3, <3>4 DEF ShownUpToCursor
  <2>3. QED BY <2>2 DEF ShownUpToCursor
<1>6. QED BY <1>4, <1>5 DEF ShownUpToCursor

(* What is sold of a product does not move it.                              *)
LEMMA OfferKeepsInv ==
  ASSUME CatalogInv, NEW p \in Products, NEW v \in Variants, SetOffer(p, v)
  PROVE  CatalogInv'
<1> USE DEF CatalogInv
<1>1. /\ cursor' = cursor /\ seen' = seen /\ over' = over
      /\ touched' = touched /\ slid' = slid /\ listed' = listed /\ best' = best
      /\ skipped' = skipped
  BY DEF SetOffer, Change, scroll
<1>2. PICK o \in {"sold", "unsold", "off"} : offer' = [offer EXCEPT ![p][v] = o]
  BY DEF SetOffer
<1>3. offer' \in [Products -> [Variants -> {"sold", "unsold", "off"}]]
  BY <1>2 DEF CatalogTypeOK
<1>4. QED BY <1>1, <1>3 DEF CatalogTypeOK, ShownUpToCursor, Passed, Before

(* Up to its cursor a scroll has shown what is listed, however the          *)
(* catalogue changes between the pages of ProductService.list: the          *)
(* inductive invariant.                                                     *)
THEOREM ScrollHolds == CatalogSpec => []CatalogInv
<1>1. CatalogInv /\ [CatalogNext]_catalogVars => CatalogInv'
  <2> SUFFICES ASSUME CatalogInv, [CatalogNext]_catalogVars PROVE CatalogInv'
    OBVIOUS
  <2>1. CASE UNCHANGED catalogVars
    BY <2>1 DEF catalogVars, catalog, scroll, CatalogInv, CatalogTypeOK, ShownUpToCursor,
                Passed, Before
  <2>2. CASE list
    BY <2>2, PageKeepsInv
  <2>3. ASSUME NEW p \in Products, ListOrWithdraw(p) \/ Promote(p) PROVE CatalogInv'
    BY <2>3, TouchKeepsInv
  <2>4. ASSUME NEW p \in Products, NEW v \in Variants, SetOffer(p, v) PROVE CatalogInv'
    BY <2>4, OfferKeepsInv
  <2>5. QED BY <2>1, <2>2, <2>3, <2>4 DEF CatalogNext
<1>2. QED BY <1>1, CatalogInitHolds, PTL DEF CatalogSpec

(* For any size of page, catalogue and number of changes: no untouched      *)
(* product is shown twice by the pages of ProductService.list, nor, if no   *)
(* page began behind a withdrawn product, any missed at the end; unless a   *)
(* page's last product was moved.                                           *)
THEOREM ScrollIsComplete == CatalogSpec => []ScrollShowsOnce
<1>1. CatalogInv => ScrollShowsOnce
  <2> SUFFICES ASSUME CatalogInv, ~slid, NEW p \in Products \ touched
               PROVE  /\ seen[p] <= 1
                      /\ over /\ ~skipped => seen[p] = IF p \in listed THEN 1 ELSE 0
    BY DEF ScrollShowsOnce
  <2>1. /\ seen[p] \in {0, 1}
        /\ seen[p] = 1 => p \in listed /\ Passed(p)
        /\ ~skipped /\ p \in listed /\ Passed(p) => seen[p] = 1
    BY DEF CatalogInv, ShownUpToCursor
  <2>2. QED BY <2>1 DEF Passed
<1>2. QED BY <1>1, ScrollHolds, PTL

(* The listing and the product page agree on price and number of variants,  *)
(* for any prices and however variants are sold and switched off.           *)
THEOREM CardAgrees == CatalogSpec => []CardAgreesWithPage
<1>1. CatalogInv => CardAgreesWithPage
  <2> SUFFICES ASSUME CatalogInv, NEW p \in Products, detail(p).code = "OK"
               PROVE  /\ detail(p).fromPrice = toSummary(p).fromPrice
                      /\ detail(p).variantCount = toSummary(p).variantCount
    BY DEF CardAgreesWithPage
  <2> DEFINE sold == {v \in Variants : offer[p][v] = "sold"}
             variants == {v \in Variants : offer[p][v] # "off"}
             kept == variants \ {v \in variants : offer[p][v] = "unsold"}
  <2>1. kept = sold
    BY DEF CatalogInv, CatalogTypeOK
  <2>2. detail(p) = IF p \notin listed THEN [code |-> "NOT_FOUND"]
                    ELSE IF kept = {} THEN [code |-> "PRODUCT_UNAVAILABLE"]
                    ELSE [code |-> "OK", fromPrice |-> LeastPrice(p, kept),
                          variantCount |-> Cardinality(kept)]
    BY DEF detail
  <2>3. toSummary(p) = [fromPrice |-> IF sold = {} THEN 0 ELSE LeastPrice(p, sold),
                        variantCount |-> Cardinality(sold)]
    BY DEF toSummary
  <2> HIDE DEF sold, kept
  <2>4. p \in listed /\ kept # {}
    BY <2>2
  <2>5. QED BY <2>1, <2>2, <2>3, <2>4
<1>2. QED BY <1>1, ScrollHolds, PTL

-----------------------------------------------------------------------------
(* The walk of productionDateFor. *)

(* One turn of its loop, in a function that says where each turn leads.      *)
Walked(w, d, turn) ==
    IF turn[2] = 0 \/ turn[1] = MaxLookbackDays THEN <<d - turn[1], turn[2]>>
    ELSE w[<<turn[1] + 1, IF KitchenWorks(d - turn[1] - 1) THEN turn[2] - 1 ELSE turn[2]>>]

Places(lead) == (0..MaxLookbackDays) \X (0..lead)

(* The loop ends, so there is such a function. *)
LEMMA WalkIsThere ==
  ASSUME NEW d \in Int, NEW lead \in Nat
  PROVE  \E w : w = [turn \in Places(lead) |-> Walked(w, d, turn)]
<1> DEFINE M == MaxLookbackDays
           Holds(w, k) == \A turn \in Places(lead) : turn[1] >= k => w[turn] = Walked(w, d, turn)
           From(k) == \E w : Holds(w, k)
           Missing == {n \in 0..M : ~From(M - n)}
<1>1. M \in Nat
  BY AvailabilityAssumption
<1>2. ASSUME Missing # {} PROVE FALSE
  <2> HIDE DEF From
  <2>0. Missing \subseteq Nat
    OBVIOUS
  <2>1. PICK n \in Missing : \A m \in Missing : n <= m
    <3> HIDE DEF Missing
    <3>1. QED BY <1>2, <2>0, LeastOf
  <2>2. n \in 0..M /\ ~From(M - n)
    BY <2>1
  <2>3. CASE n = 0
    <3> DEFINE w == [turn \in Places(lead) |-> <<d - turn[1], turn[2]>>]
    <3>1. ASSUME NEW turn \in Places(lead), turn[1] >= M PROVE w[turn] = Walked(w, d, turn)
      <4>1. turn[1] = M
        BY <1>1, <3>1 DEF Places
      <4>2. QED BY <4>1 DEF Walked
    <3>2. From(M)
      BY <3>1 DEF From
    <3>3. QED BY <1>1, <2>2, <2>3, <3>2
  <2>4. CASE n > 0
    <3> DEFINE k == M - n
    <3>1. k \in 0..(M - 1) /\ k + 1 \in 1..M
      BY <1>1, <2>2, <2>4
    <3>2. From(k + 1)
      <4>1. n - 1 \in 0..M /\ M - (n - 1) = k + 1
        BY <1>1, <2>2, <2>4
      <4>2. n - 1 \notin Missing
        <5> HIDE DEF Missing
        <5>1. QED BY <2>1, <2>2, <2>4
      <4>3. QED BY <4>1, <4>2
    <3>3. PICK w : Holds(w, k + 1)
      BY <3>2 DEF From
    <3> HIDE DEF k
    <3> DEFINE u == [turn \in Places(lead) |-> IF turn[1] = k THEN Walked(w, d, turn) ELSE w[turn]]
    <3>4. ASSUME NEW turn \in Places(lead)
          PROVE  u[turn] = IF turn[1] = k THEN Walked(w, d, turn) ELSE w[turn]
      OBVIOUS
    <3> HIDE DEF u
    <3>5. ASSUME NEW turn \in Places(lead), turn[1] >= k PROVE u[turn] = Walked(u, d, turn)
      <4> DEFINE next == <<turn[1] + 1,
                           IF KitchenWorks(d - turn[1] - 1) THEN turn[2] - 1 ELSE turn[2]>>
      <4>1. Walked(u, d, turn) = Walked(w, d, turn)
        <5>1. CASE turn[2] = 0 \/ turn[1] = M
          BY <5>1 DEF Walked
        <5>2. CASE ~(turn[2] = 0 \/ turn[1] = M)
          <6>1. next \in Places(lead) /\ next[1] # k
            BY <1>1, <3>1, <3>5, <5>2 DEF Places
          <6>2. u[next] = w[next]
            BY <3>4, <6>1
          <6>3. QED BY <5>2, <6>2 DEF Walked
        <5>3. QED BY <5>1, <5>2
      <4>2. CASE turn[1] = k
        BY <3>4, <4>1, <4>2
      <4>3. CASE turn[1] # k
        <5>1. turn[1] >= k + 1
          BY <3>1, <3>5, <4>3 DEF Places
        <5>2. w[turn] = Walked(w, d, turn)
          BY <3>3, <5>1
        <5>3. QED BY <3>4, <4>1, <4>3, <5>2
      <4>4. QED BY <4>2, <4>3
    <3>6. From(k)
      BY <3>5 DEF From
    <3>7. QED BY <2>2, <3>6 DEF k
  <2>5. QED BY <2>2, <2>3, <2>4
<1>3. From(0)
  <2>1. M - M = 0 /\ M \in 0..M
    BY <1>1
  <2>2. From(M - M)
    BY <1>2, <2>1
  <2>3. QED BY <2>1, <2>2
<1>4. PICK v : Holds(v, 0)
  BY <1>3
<1> DEFINE w == [turn \in Places(lead) |-> v[turn]]
<1>5. ASSUME NEW turn \in Places(lead) PROVE w[turn] = Walked(w, d, turn)
  <2> DEFINE next == <<turn[1] + 1, IF KitchenWorks(d - turn[1] - 1) THEN turn[2] - 1 ELSE turn[2]>>
  <2>1. turn[1] >= 0 /\ w[turn] = v[turn]
    BY DEF Places
  <2>2. v[turn] = Walked(v, d, turn)
    BY <1>4, <2>1
  <2>3. CASE turn[2] = 0 \/ turn[1] = M
    BY <2>1, <2>2, <2>3 DEF Walked
  <2>4. CASE ~(turn[2] = 0 \/ turn[1] = M)
    <3>1. next \in Places(lead)
      BY <1>1, <2>4 DEF Places
    <3>2. w[next] = v[next]
      BY <3>1
    <3>3. QED BY <2>1, <2>2, <2>4, <3>2 DEF Walked
  <2>5. QED BY <2>3, <2>4
<1>6. w = [turn \in Places(lead) |-> Walked(w, d, turn)]
  BY <1>5
<1>7. QED BY <1>6

(* The walk of the model is such a function.                                *)
LEMMA WalkUnfolds ==
  ASSUME NEW d \in Int, NEW lead \in Nat
  PROVE  \E w : /\ WalkBack(d, lead) = w[<<0, lead>>]
                /\ \A turn \in Places(lead) : w[turn] = Walked(w, d, turn)
<1> DEFINE w == CHOOSE v : v = [turn \in Places(lead) |-> Walked(v, d, turn)]
<1>1. w = [turn \in Places(lead) |-> Walked(w, d, turn)]
  BY WalkIsThere
<1>2. WalkBack(d, lead) = w[<<0, lead>>]
  BY DEF WalkBack, Walked, Places
<1> HIDE DEF w
<1>3. \A turn \in Places(lead) : w[turn] = Walked(w, d, turn)
  BY <1>1
<1>4. QED BY <1>2, <1>3

(* The working days among the last g days before d. *)
Worked(d, g) == {e \in (d - g)..(d - 1) : KitchenWorks(e)}

(* One day more is a working day more, or is not.                           *)
LEMMA WorkedCounts ==
  ASSUME NEW d \in Int, NEW g \in Nat
  PROVE  /\ Cardinality(Worked(d, g)) \in Nat
         /\ Cardinality(Worked(d, 0)) = 0
         /\ Cardinality(Worked(d, g + 1)) =
               IF KitchenWorks(d - g - 1) THEN Cardinality(Worked(d, g)) + 1
               ELSE Cardinality(Worked(d, g))
         /\ \A h \in 0..g : Cardinality(Worked(d, h)) <= Cardinality(Worked(d, g))
<1>1. \A h \in Nat : IsFiniteSet(Worked(d, h))
  <2>1. ASSUME NEW h \in Nat PROVE IsFiniteSet(Worked(d, h))
    <3>1. IsFiniteSet((d - h)..(d - 1)) /\ Worked(d, h) \in SUBSET ((d - h)..(d - 1))
      BY FS_Interval DEF Worked
    <3>2. QED BY <3>1, FS_Subset
  <2>2. QED BY <2>1
<1>2. Cardinality(Worked(d, g)) \in Nat
  BY <1>1, FS_CardinalityType
<1>3. Cardinality(Worked(d, 0)) = 0
  <2>1. Worked(d, 0) = {}
    BY DEF Worked
  <2>2. QED BY <2>1, FS_EmptySet
<1>4. Cardinality(Worked(d, g + 1)) = IF KitchenWorks(d - g - 1)
                                      THEN Cardinality(Worked(d, g)) + 1
                                      ELSE Cardinality(Worked(d, g))
  <2> DEFINE e == d - g - 1
  <2>1. (d - (g + 1))..(d - 1) = ((d - g)..(d - 1)) \cup {e} /\ e \notin (d - g)..(d - 1)
    OBVIOUS
  <2> HIDE DEF e
  <2>2. CASE KitchenWorks(e)
    <3>1. Worked(d, g + 1) = Worked(d, g) \cup {e} /\ e \notin Worked(d, g)
      BY <2>1, <2>2 DEF Worked
    <3>2. Cardinality(Worked(d, g) \cup {e}) = Cardinality(Worked(d, g)) + 1
      BY <1>1, <3>1, FS_AddElement
    <3>3. QED BY <2>2, <3>1, <3>2 DEF e
  <2>3. CASE ~KitchenWorks(e)
    <3>1. Worked(d, g + 1) = Worked(d, g)
      BY <2>1, <2>3 DEF Worked
    <3>2. QED BY <2>3, <3>1 DEF e
  <2>4. QED BY <2>2, <2>3
<1>5. ASSUME NEW h \in 0..g PROVE Cardinality(Worked(d, h)) <= Cardinality(Worked(d, g))
  <2>1. Worked(d, h) \in SUBSET Worked(d, g)
    BY DEF Worked
  <2>2. QED BY <1>1, <2>1, FS_Subset
<1>6. QED BY <1>2, <1>3, <1>4, <1>5

(* Until it has found its working days, the walk has counted those behind.  *)
LEMMA WalkCounts ==
  ASSUME NEW d \in Int, NEW lead \in Nat, NEW w,
         \A turn \in Places(lead) : w[turn] = Walked(w, d, turn),
         NEW g \in 0..MaxLookbackDays,
         \A h \in 0..(g - 1) : Cardinality(Worked(d, h)) < lead
  PROVE  /\ Cardinality(Worked(d, g)) \in 0..lead
         /\ w[<<0, lead>>] = w[<<g, lead - Cardinality(Worked(d, g))>>]
<1> DEFINE M == MaxLookbackDays
           Work(h) == Cardinality(Worked(d, h))
           Right(h) == Work(h) \in 0..lead /\ w[<<0, lead>>] = w[<<h, lead - Work(h)>>]
           Wrong == {h \in 0..g : ~Right(h)}
<1>1. M \in Nat
  BY AvailabilityAssumption
<1>2. \A h \in Nat : /\ Work(h) \in Nat /\ Work(0) = 0
                     /\ Work(h + 1) = IF KitchenWorks(d - h - 1) THEN Work(h) + 1 ELSE Work(h)
  BY WorkedCounts
<1> HIDE DEF Work
<1>3. ASSUME Wrong # {} PROVE FALSE
  <2>1. Wrong \subseteq Nat
    BY <1>1
  <2>2. PICK n \in Wrong : \A m \in Wrong : n <= m
    <3> HIDE DEF Wrong
    <3>1. QED BY <1>3, <2>1, LeastOf
  <2>3. n \in 0..g /\ ~Right(n)
    BY <2>2
  <2>4. n # 0
    <3>1. Right(0)
      <4>1. Work(0) = 0 /\ lead - 0 = lead /\ 0 \in 0..lead
        BY <1>2
      <4>2. QED BY <4>1
    <3>2. QED BY <2>3, <3>1
  <2> DEFINE p == n - 1
  <2>5. p \in 0..(g - 1) /\ p \in Nat /\ n = p + 1 /\ p \in 0..(M - 1)
    BY <1>1, <2>3, <2>4
  <2>6. Right(p)
    <3>1. p \notin Wrong
      <4> HIDE DEF Wrong
      <4>1. QED BY <2>1, <2>2, <2>5
    <3>2. QED BY <2>5, <3>1
  <2> HIDE DEF p, Wrong
  <2> DEFINE turn == <<p, lead - Work(p)>>
  <2>7. Work(p) \in 0..(lead - 1)
    BY <2>5, <2>6 DEF Work
  <2>8. /\ turn \in Places(lead) /\ turn[1] = p /\ turn[2] = lead - Work(p)
        /\ turn[2] # 0 /\ turn[1] # M
    BY <1>1, <2>5, <2>7 DEF Places
  <2>9. w[turn] = w[<<p + 1, IF KitchenWorks(d - p - 1) THEN lead - Work(p) - 1
                             ELSE lead - Work(p)>>]
    <3>1. w[turn] = Walked(w, d, turn)
      BY <2>8
    <3>2. QED BY <2>8, <3>1 DEF Walked
  <2>10. (IF KitchenWorks(d - p - 1) THEN lead - Work(p) - 1 ELSE lead - Work(p)) = lead - Work(n)
    BY <1>2, <2>5, <2>7
  <2>11. Work(n) \in 0..lead
    BY <1>2, <2>5, <2>7
  <2>12. w[<<0, lead>>] = w[<<n, lead - Work(n)>>]
    BY <2>5, <2>6, <2>9, <2>10
  <2>13. QED BY <2>3, <2>11, <2>12
<1>4. g \in 0..g
  OBVIOUS
<1>5. Right(g)
  BY <1>3, <1>4
<1>6. QED BY <1>5 DEF Work

(* Where the walk ends: at the first day by which it has counted enough, or *)
(* at the end of the lookback with days still to find.                      *)
LEMMA WalkEnds ==
  ASSUME NEW d \in Int, NEW lead \in Nat \ {0}
  PROVE  \/ \E g \in 1..MaxLookbackDays :
               /\ Cardinality(Worked(d, g)) = lead /\ Cardinality(Worked(d, g - 1)) < lead
               /\ WalkBack(d, lead) = <<d - g, 0>>
         \/ /\ \A g \in 0..MaxLookbackDays : Cardinality(Worked(d, g)) < lead
            /\ WalkBack(d, lead)[2] # 0
<1> DEFINE M == MaxLookbackDays
           Work(h) == Cardinality(Worked(d, h))
           Enough == {g \in 0..M : Work(g) >= lead}
<1>1. M \in Nat
  BY AvailabilityAssumption
<1>2. \A h \in Nat : Work(h) \in Nat /\ Work(0) = 0
  BY WorkedCounts
<1>3. PICK w : /\ WalkBack(d, lead) = w[<<0, lead>>]
               /\ \A turn \in Places(lead) : w[turn] = Walked(w, d, turn)
  BY WalkUnfolds
<1> HIDE DEF Work
<1>4. CASE Enough = {}
  <2>1. \A g \in 0..M : Work(g) < lead
    BY <1>2, <1>4
  <2>2. M \in 0..M /\ \A h \in 0..(M - 1) : Work(h) < lead
    BY <1>1, <2>1
  <2>3. Work(M) \in 0..lead /\ w[<<0, lead>>] = w[<<M, lead - Work(M)>>]
    BY <1>3, <2>2, WalkCounts DEF Work
  <2> DEFINE turn == <<M, lead - Work(M)>>
  <2>4. turn \in Places(lead) /\ turn[1] = M /\ turn[2] = lead - Work(M) /\ turn[2] # 0
    BY <1>1, <2>1, <2>2, <2>3 DEF Places
  <2>5. w[turn] = Walked(w, d, turn)
    BY <1>3, <2>4
  <2>6. w[turn][2] # 0
    BY <2>4, <2>5 DEF Walked
  <2>7. QED BY <1>3, <2>1, <2>3, <2>6 DEF Work
<1>5. CASE Enough # {}
  <2>1. Enough \subseteq Nat
    BY <1>1
  <2>2. PICK g \in Enough : \A h \in Enough : g <= h
    <3> HIDE DEF Enough
    <3>1. QED BY <1>5, <2>1, LeastOf
  <2>3. g \in 0..M /\ Work(g) >= lead
    BY <2>2
  <2>4. \A h \in 0..(g - 1) : Work(h) < lead
    BY <1>1, <1>2, <2>2
  <2>5. Work(g) \in 0..lead /\ w[<<0, lead>>] = w[<<g, lead - Work(g)>>]
    BY <1>3, <2>3, <2>4, WalkCounts DEF Work
  <2>6. Work(g) = lead /\ g \in 1..M
    BY <1>1, <1>2, <2>3, <2>5
  <2> DEFINE turn == <<g, 0>>
  <2>7. turn \in Places(lead) /\ turn[1] = g /\ turn[2] = 0
    BY <2>3 DEF Places
  <2>8. w[turn] = Walked(w, d, turn)
    BY <1>3, <2>7
  <2>9. w[turn] = <<d - g, 0>>
    BY <2>7, <2>8 DEF Walked
  <2>10. lead - Work(g) = 0
    BY <2>6
  <2>11. WalkBack(d, lead) = <<d - g, 0>>
    BY <1>3, <2>5, <2>9, <2>10
  <2>12. Work(g - 1) < lead
    BY <1>1, <2>4, <2>6
  <2>13. QED BY <2>6, <2>11, <2>12 DEF Work
<1>6. QED BY <1>4, <1>5

-----------------------------------------------------------------------------
(* The dates. *)

(* Every variable of the dates keeps its type, and the clock its bounds.    *)
LEMMA DatesAreTyped == DatesSpec => []DatesTypeOK
<1>1. DatesInit => DatesTypeOK
  BY AvailabilityAssumption DEF DatesInit, DatesTypeOK
<1>2. DatesTypeOK /\ [DatesNext]_datesVars => DatesTypeOK'
  <2> SUFFICES ASSUME DatesTypeOK, [DatesNext]_datesVars PROVE DatesTypeOK'
    OBVIOUS
  <2>1. BusyDays \subseteq Days /\ DailyCapacity \in Nat
    BY AvailabilityAssumption
  <2>2. CASE UNCHANGED datesVars
    BY <2>2 DEF datesVars, DatesTypeOK
  <2>3. CASE Tick
    <3>1. now' \in Instants
      <4>1. PICK n \in FirstNow : now \in n..MaxNow
        BY DEF DatesTypeOK, Instants
      <4>2. n \in Int /\ MaxNow \in Int
        BY AvailabilityAssumption
      <4>3. now + 1 \in n..MaxNow
        BY <2>3, <4>1, <4>2 DEF Tick
      <4>4. QED BY <2>3, <4>3 DEF Tick, Instants
    <3>2. QED BY <2>3, <3>1 DEF Tick, DatesTypeOK
  <2>4. ASSUME NEW p \in BusyDays, Fill(p) PROVE DatesTypeOK'
    BY <2>1, <2>4 DEF Fill, DatesTypeOK
  <2>5. ASSUME NEW p \in BusyDays, Free(p) PROVE DatesTypeOK'
    BY <2>1, <2>5 DEF Free, DatesTypeOK
  <2>6. ASSUME NEW p \in BusyDays, Lock(p) PROVE DatesTypeOK'
    BY <2>1, <2>6 DEF Lock, DatesTypeOK
  <2>7. CASE Switch
    BY <2>7 DEF Switch, DatesTypeOK
  <2>8. QED BY <2>2, <2>3, <2>4, <2>5, <2>6, <2>7 DEF DatesNext
<1>3. QED BY <1>1, <1>2, PTL DEF DatesSpec

(* The rule is one of those considered. *)
LEMMA RuleIsOne == ASSUME DatesTypeOK PROVE rule \in Rules
BY DEF DatesTypeOK, rule, Rules

(* The days of delivery, and all they may be cooked on, matter. *)
LEMMA DaysOfDelivery ==
  ASSUME DatesTypeOK
  PROVE  /\ Today \in Int /\ HorizonDays \in Nat /\ MaxLookbackDays \in Nat
         /\ DeliveryDays = (Today + 1)..(Today + HorizonDays)
         /\ Days \subseteq Nat
         /\ (Today + 1 - MaxLookbackDays)..(Today + HorizonDays) \subseteq Days
<1>1. now \in Instants /\ PartsPerDay \in Nat \ {0}
  BY AvailabilityAssumption DEF DatesTypeOK
<1>2. now \in Int
  <2>1. PICK n \in FirstNow : now \in n..MaxNow
    BY <1>1 DEF Instants
  <2>2. QED BY <2>1
<1>3. now \div PartsPerDay \in Int
  BY <1>1, <1>2
<1>4. QED BY <1>1, <1>3, AvailabilityAssumption DEF Today, DeliveryDays

(* The walk ends on the one day with the lead in working days after it, if  *)
(* there is one.                                                            *)
LEMMA ProductionDay ==
  ASSUME DatesTypeOK, NEW d \in DeliveryDays
  PROVE  LET lead == rule.leadTimeDays
             found == LeadWorkingDaysBefore(d, lead)
         IN  lead > 0 => IF found = {} THEN productionDateFor(d) = NoDate
                         ELSE found = {productionDateFor(d)}
<1> DEFINE lead == rule.leadTimeDays
           found == LeadWorkingDaysBefore(d, lead)
           M == MaxLookbackDays
           Work(h) == Cardinality(Worked(d, h))
<1>1. d \in Int /\ M \in Nat /\ lead \in Int
  BY DaysOfDelivery, RuleIsOne, AvailabilityAssumption DEF DatesTypeOK
<1> SUFFICES ASSUME lead > 0
             PROVE  IF found = {} THEN productionDateFor(d) = NoDate
                    ELSE found = {productionDateFor(d)}
  OBVIOUS
<1>2. lead \in Nat \ {0}
  BY <1>1
<1> DEFINE w == WalkBack(d, lead)
<1>3. productionDateFor(d) = IF w[2] = 0 THEN w[1] ELSE NoDate
  BY <1>1, <1>2 DEF productionDateFor
<1>4. \/ \E g \in 1..M : Work(g) = lead /\ Work(g - 1) < lead /\ w = <<d - g, 0>>
      \/ (\A g \in 0..M : Work(g) < lead) /\ w[2] # 0
  BY <1>1, <1>2, WalkEnds
<1>5. \A h \in Nat : /\ Work(h) \in Nat
                     /\ Work(h + 1) = IF KitchenWorks(d - h - 1) THEN Work(h) + 1 ELSE Work(h)
                     /\ \A i \in 0..h : Work(i) <= Work(h)
  BY <1>1, WorkedCounts
<1> HIDE DEF w, lead
<1>6. \A p : p \in found <=> \E g \in 1..M : p = d - g /\ KitchenWorks(d - g) /\ Work(g) = lead
  <2>1. ASSUME NEW p \in (d - M)..(d - 1)
        PROVE  \E g \in 1..M : p = d - g
    <3>1. d - p \in 1..M /\ p = d - (d - p)
      BY <1>1
    <3>2. QED BY <3>1
  <2>2. ASSUME NEW g \in 1..M
        PROVE  /\ d - g \in (d - M)..(d - 1)
               /\ {e \in (d - g)..(d - 1) : KitchenWorks(e)} = Worked(d, g)
    BY <1>1 DEF Worked
  <2>3. QED BY <2>1, <2>2 DEF LeadWorkingDaysBefore
<1> HIDE DEF found, Work
<1>7. CASE \E g \in 1..M : Work(g) = lead /\ Work(g - 1) < lead /\ w = <<d - g, 0>>
  <2>1. PICK g \in 1..M : Work(g) = lead /\ Work(g - 1) < lead /\ w = <<d - g, 0>>
    BY <1>7
  <2>2. g - 1 \in Nat /\ g = (g - 1) + 1 /\ d - (g - 1) - 1 = d - g
    BY <1>1
  <2>3. KitchenWorks(d - g)
    BY <1>5, <2>1, <2>2
  <2>4. productionDateFor(d) = d - g
    BY <1>3, <2>1
  <2>5. ASSUME NEW h \in 1..M, KitchenWorks(d - h), Work(h) = lead PROVE h = g
    <3>1. h - 1 \in Nat /\ h = (h - 1) + 1 /\ d - (h - 1) - 1 = d - h /\ h \in Nat
      BY <1>1
    <3>2. Work(h) = Work(h - 1) + 1 /\ Work(h - 1) \in Nat
      BY <1>5, <2>5, <3>1
    <3>3. CASE h < g
      <4>1. h \in 0..(g - 1)
        BY <1>1, <3>3
      <4>2. Work(h) <= Work(g - 1)
        BY <1>5, <2>2, <4>1
      <4>3. QED BY <1>2, <1>5, <2>1, <2>2, <2>5, <4>2
    <3>4. CASE g < h
      <4>1. g \in 0..(h - 1)
        BY <1>1, <3>4
      <4>2. Work(g) <= Work(h - 1)
        BY <1>5, <3>1, <4>1
      <4>3. QED BY <1>2, <2>1, <2>5, <3>2, <4>2
    <3>5. QED BY <1>1, <3>3, <3>4
  <2>6. found = {d - g}
    BY <1>6, <2>1, <2>3, <2>5
  <2>7. QED BY <2>4, <2>6
<1>8. CASE (\A g \in 0..M : Work(g) < lead) /\ w[2] # 0
  <2>1. \A g \in 1..M : Work(g) # lead
    BY <1>1, <1>2, <1>5, <1>8
  <2>2. found = {}
    BY <1>6, <2>1
  <2>3. QED BY <1>3, <1>8, <2>2
<1>9. QED BY <1>4, <1>7, <1>8

(* A date that has a production day has one that matters. *)
LEMMA ProductionDayMatters ==
  ASSUME DatesTypeOK, NEW d \in DeliveryDays, productionDateFor(d) # NoDate
  PROVE  productionDateFor(d) \in Days
<1>1. /\ d \in Int /\ MaxLookbackDays \in Nat
      /\ (d - MaxLookbackDays)..d \subseteq Days
  BY DaysOfDelivery
<1>2. CASE rule.leadTimeDays <= 0
  BY <1>1, <1>2 DEF productionDateFor
<1>3. CASE ~(rule.leadTimeDays <= 0)
  <2>1. rule.leadTimeDays > 0
    BY <1>3, RuleIsOne, AvailabilityAssumption DEF DatesTypeOK
  <2>2. productionDateFor(d) \in LeadWorkingDaysBefore(d, rule.leadTimeDays)
    BY <2>1, ProductionDay
  <2>3. productionDateFor(d) \in (d - MaxLookbackDays)..(d - 1)
    BY <2>2 DEF LeadWorkingDaysBefore
  <2>4. QED BY <1>1, <2>3
<1>4. QED BY <1>2, <1>3

(* hold and the scan ask the same of a date. *)
LEMMA HoldAsScan ==
  ASSUME DatesTypeOK, GoesByDate, NEW d \in DeliveryDays
  PROVE  HoldAnswer(d) = "OK" <=> Suits(d)
<1> DEFINE p == productionDateFor(d)
<1>0. HoldAnswer(d) = DateAnswer(d)
  BY DEF HoldAnswer, GoesByDate
<1>1. CASE p = NoDate
  BY <1>0, <1>1 DEF DateAnswer, Suits
<1>2. CASE p # NoDate
  <2>1. p \in Days
    BY <1>2, ProductionDayMatters
  <2> HIDE DEF p
  <2>2. left[p] \in Int /\ rowStatus[p] \in {"NONE", "OPEN", "LOCKED"} /\ Qty \in Int
    BY <2>1, AvailabilityAssumption DEF DatesTypeOK
  <2>3. HoldAnswer(d) = IF isoWeekdayOf(d) \notin rule.deliveryWeekdays \/ p = NoDate
                        THEN "DATE_NOT_AVAILABLE"
                        ELSE IF isCutoffPassed(p) THEN "CUTOFF_PASSED"
                        ELSE IF rowStatus[p] \in {"LOCKED", "CLOSED"} THEN "CAPACITY_LOCKED"
                        ELSE IF Qty > left[p] THEN "CAPACITY_EXHAUSTED"
                        ELSE "OK"
    BY <1>0 DEF DateAnswer, p
  <2>4. Suits(d) <=> /\ isoWeekdayOf(d) \in rule.deliveryWeekdays
                     /\ p # NoDate
                     /\ ~isCutoffPassed(p)
                     /\ rowStatus[p] \in {"NONE", "OPEN"}
                     /\ left[p] >= Qty
    BY DEF Suits, p
  <2>5. Qty > left[p] <=> ~(left[p] >= Qty)
    BY <2>2
  <2>6. rowStatus[p] \in {"LOCKED", "CLOSED"} <=> ~(rowStatus[p] \in {"NONE", "OPEN"})
    BY <2>2
  <2>7. QED BY <2>3, <2>4, <2>5, <2>6
<1>3. QED BY <1>1, <1>2

-----------------------------------------------------------------------------
(* The scan of nextAvailableDate. *)

(* One turn of its loop. *)
Scanned(s, i) ==
    IF i > HorizonDays THEN NoDate
    ELSE IF Suits(Today + i) THEN Today + i ELSE s[i + 1]

(* The scan is a function that says where each of its turns leads.          *)
LEMMA ScanUnfolds ==
  \E s : nextAvailableDate = s[1] /\ \A i \in 1..(HorizonDays + 1) : s[i] = Scanned(s, i)
<1> DEFINE Ahead(i) == {j \in i..HorizonDays : Suits(Today + j)}
           Least(T) == CHOOSE n \in T : \A m \in T : n <= m
           u == [i \in 1..(HorizonDays + 1) |->
                    IF Ahead(i) = {} THEN NoDate ELSE Today + Least(Ahead(i))]
           s == CHOOSE v : v = [i \in 1..(HorizonDays + 1) |-> Scanned(v, i)]
<1>1. HorizonDays \in Nat
  BY AvailabilityAssumption
<1>2. ASSUME NEW i \in 1..(HorizonDays + 1) PROVE u[i] = Scanned(u, i)
  <2>1. CASE i > HorizonDays
    <3>1. Ahead(i) = {}
      BY <1>1, <2>1
    <3>2. QED BY <2>1, <3>1 DEF Scanned
  <2>2. CASE ~(i > HorizonDays) /\ Suits(Today + i)
    <3>1. i \in Ahead(i) /\ \A j \in Ahead(i) : i <= j
      BY <1>1, <2>2
    <3>2. Ahead(i) \subseteq Int
      BY <1>1
    <3> HIDE DEF Ahead
    <3>3. \A n \in Ahead(i) : (\A m \in Ahead(i) : n <= m) => n = i
      BY <3>1, <3>2
    <3>4. Least(Ahead(i)) = i
      BY <3>1, <3>3
    <3> HIDE DEF Least
    <3>5. u[i] = Today + i
      BY <3>1, <3>4
    <3> HIDE DEF u
    <3>6. QED BY <2>2, <3>5 DEF Scanned
  <2>3. CASE ~(i > HorizonDays) /\ ~Suits(Today + i)
    <3>1. i + 1 \in 1..(HorizonDays + 1)
      BY <1>1, <2>3
    <3>2. Ahead(i) = Ahead(i + 1)
      <4>1. \A j \in i..HorizonDays : j = i \/ j \in (i + 1)..HorizonDays
        BY <1>1
      <4>2. \A j \in (i + 1)..HorizonDays : j \in i..HorizonDays
        BY <1>1
      <4>3. QED BY <2>3, <4>1, <4>2
    <3> HIDE DEF Ahead, Least
    <3>3. u[i] = u[i + 1]
      BY <3>1, <3>2
    <3> HIDE DEF u
    <3>4. QED BY <2>3, <3>3 DEF Scanned
  <2>4. QED BY <2>1, <2>2, <2>3
<1>3. u = [i \in 1..(HorizonDays + 1) |-> Scanned(u, i)]
  <2> DEFINE v == [i \in 1..(HorizonDays + 1) |-> Scanned(u, i)]
  <2>1. \A i \in 1..(HorizonDays + 1) : u[i] = v[i]
    BY <1>2
  <2>2. u = v
    <3> HIDE DEF Ahead, Least, Scanned
    <3>1. QED BY <2>1
  <2>3. QED BY <2>2
<1> HIDE DEF u
<1>4. s = [i \in 1..(HorizonDays + 1) |-> Scanned(s, i)]
  BY <1>3
<1>5. nextAvailableDate = s[1]
  BY DEF nextAvailableDate, Scanned
<1> HIDE DEF s
<1>6. \A i \in 1..(HorizonDays + 1) : s[i] = Scanned(s, i)
  BY <1>4
<1>7. QED BY <1>5, <1>6

(* The scan goes on past every date that does not suit. *)
LEMMA ScanPasses ==
  ASSUME NEW s, \A i \in 1..(HorizonDays + 1) : s[i] = Scanned(s, i),
         NEW i \in 1..(HorizonDays + 1),
         \A j \in 1..(i - 1) : ~Suits(Today + j)
  PROVE  s[1] = s[i]
<1> DEFINE Wrong == {n \in 1..i : s[1] # s[n]}
<1>1. HorizonDays \in Nat /\ Wrong \subseteq Nat
  BY AvailabilityAssumption
<1>2. ASSUME Wrong # {} PROVE FALSE
  <2>1. PICK n \in Wrong : \A m \in Wrong : n <= m
    <3> HIDE DEF Wrong
    <3>1. QED BY <1>1, <1>2, LeastOf
  <2>2. n \in 1..i /\ s[1] # s[n] /\ n # 1
    BY <2>1
  <2> DEFINE p == n - 1
  <2>3. p \in 1..(i - 1) /\ p \in 1..i /\ p + 1 = n /\ ~(p >= n)
    BY <2>2
  <2>4. s[1] = s[p]
    BY <2>1, <2>3
  <2>5. p \in 1..(HorizonDays + 1) /\ ~(p > HorizonDays)
    BY <1>1, <2>3
  <2>6. s[p] = s[p + 1]
    <3> HIDE DEF p
    <3>1. s[p] = Scanned(s, p)
      BY <2>5
    <3>2. ~Suits(Today + p)
      BY <2>3
    <3>3. QED BY <2>5, <3>1, <3>2 DEF Scanned
  <2>7. QED BY <2>2, <2>3, <2>4, <2>6
<1>3. i \in 1..i
  OBVIOUS
<1>4. QED BY <1>2, <1>3

(* For every rule, book and clock, the kitchen is asked to cook with exactly *)
(* its lead time in working days: productionDateFor.                        *)
THEOREM ProductionDayHolds == DatesSpec => []ProductionDayIsRight
<1>1. DatesTypeOK => ProductionDayIsRight
  BY ProductionDay DEF ProductionDayIsRight
<1>2. QED BY <1>1, DatesAreTyped, PTL

(* What nextAvailableDate offers a refused customer is the first date a     *)
(* hold would be granted for, or nothing if there is none in the horizon.   *)
THEOREM OfferHolds == DatesSpec => []OfferIsFirstHoldable
<1> DEFINE holdable == {d \in DeliveryDays : HoldAnswer(d) = "OK"}
<1>1. DatesTypeOK => OfferIsFirstHoldable
  <2> SUFFICES ASSUME DatesTypeOK, GoesByDate
               PROVE  IF holdable = {} THEN nextAvailableDate = NoDate
                      ELSE /\ nextAvailableDate \in holdable
                           /\ \A d \in holdable : nextAvailableDate <= d
    BY DEF OfferIsFirstHoldable
  <2>1. /\ Today \in Int /\ HorizonDays \in Nat
        /\ DeliveryDays = (Today + 1)..(Today + HorizonDays)
    BY DaysOfDelivery
  <2>2. \A d \in DeliveryDays : d \in holdable <=> Suits(d)
    BY HoldAsScan
  <2>3. holdable \subseteq DeliveryDays
    OBVIOUS
  <2>4. \A i \in 1..HorizonDays : Today + i \in holdable <=> Suits(Today + i)
    BY <2>1, <2>2
  <2>5. PICK s : nextAvailableDate = s[1] /\ \A i \in 1..(HorizonDays + 1) : s[i] = Scanned(s, i)
    BY ScanUnfolds
  <2> HIDE DEF holdable
  <2> DEFINE Fit == {i \in 1..HorizonDays : Suits(Today + i)}
  <2>6. CASE Fit = {}
    <3>1. holdable = {}
      <4>1. ASSUME NEW d \in holdable PROVE FALSE
        <5>1. d - Today \in 1..HorizonDays /\ Today + (d - Today) = d
          BY <2>1, <2>3
        <5>2. Suits(d)
          BY <2>2, <2>3
        <5>3. QED BY <2>6, <5>1, <5>2
      <4>2. QED BY <4>1
    <3>2. HorizonDays + 1 \in 1..(HorizonDays + 1) /\ HorizonDays + 1 > HorizonDays
      BY <2>1
    <3>3. \A j \in 1..((HorizonDays + 1) - 1) : ~Suits(Today + j)
      <4>1. (HorizonDays + 1) - 1 = HorizonDays
        BY <2>1
      <4>2. \A j \in 1..HorizonDays : ~Suits(Today + j)
        BY <2>6
      <4>3. QED BY <4>1, <4>2
    <3>4. s[1] = s[HorizonDays + 1]
      BY <2>5, <3>2, <3>3, ScanPasses
    <3>5. s[HorizonDays + 1] = NoDate
      BY <2>5, <3>2 DEF Scanned
    <3>6. QED BY <2>5, <3>1, <3>4, <3>5
  <2>7. CASE Fit # {}
    <3>1. Fit \subseteq Nat
      OBVIOUS
    <3>2. PICK i \in Fit : \A j \in Fit : i <= j
      <4> HIDE DEF Fit
      <4>1. QED BY <2>7, <3>1, LeastOf
    <3>3. i \in 1..HorizonDays /\ Suits(Today + i) /\ i \in 1..(HorizonDays + 1)
      BY <2>1, <3>2
    <3>4. ASSUME NEW j \in 1..(i - 1), Suits(Today + j) PROVE FALSE
      <4>1. j \in 1..HorizonDays /\ ~(i <= j)
        BY <2>1, <3>3
      <4>2. j \in Fit
        BY <3>4, <4>1
      <4>3. QED BY <3>2, <4>1, <4>2
    <3>5. s[1] = s[i]
      BY <2>5, <3>3, <3>4, ScanPasses
    <3>6. s[i] = Today + i
      <4>1. ~(i > HorizonDays)
        BY <2>1, <3>3
      <4>2. QED BY <2>5, <3>3, <4>1 DEF Scanned
    <3>7. nextAvailableDate = Today + i /\ Today + i \in holdable
      BY <2>4, <2>5, <3>3, <3>5, <3>6
    <3>8. ASSUME NEW d \in holdable PROVE Today + i <= d
      <4>1. d - Today \in 1..HorizonDays /\ Today + (d - Today) = d
        BY <2>1, <2>3
      <4>2. d - Today \in Fit
        BY <2>2, <2>3, <4>1
      <4>3. i <= d - Today
        BY <3>2, <4>2
      <4>4. QED BY <2>1, <3>3, <4>1, <4>3
    <3>9. QED BY <3>7, <3>8
  <2>8. QED BY <2>6, <2>7
<1>2. QED BY <1>1, DatesAreTyped, PTL

-----------------------------------------------------------------------------
(* The ways up of the categories. *)

(* What holds of a category, and of the parent of each it holds of, holds   *)
(* all the way up.                                                          *)
LEMMA UpInduction ==
  ASSUME NEW c \in active, NEW S \in SUBSET active, c \in S, HasParents(S)
  PROVE  AllUp(c) \subseteq S
BY DEF AllUp

(* A category is on its own way up, and so is the parent of each that is.   *)
LEMMA ParentIsUp ==
  ASSUME NEW c \in active
  PROVE  /\ AllUp(c) \subseteq active /\ c \in AllUp(c) /\ HasParents(AllUp(c))
         /\ HasParent(c) => parentOf[c] \in active
<1>1. AllUp(c) \subseteq active /\ c \in AllUp(c)
  BY DEF AllUp
<1>2. ASSUME NEW d \in AllUp(c), HasParent(d) PROVE parentOf[d] \in AllUp(c)
  <2>1. parentOf[d] \in active
    BY <1>2 DEF HasParent
  <2>2. ASSUME NEW S \in SUBSET active, c \in S, HasParents(S) PROVE parentOf[d] \in S
    <3>1. d \in S
      BY <2>2 DEF AllUp
    <3>2. QED BY <1>2, <2>2, <3>1 DEF HasParents
  <2>3. QED BY <2>1, <2>2 DEF AllUp
<1>3. QED BY <1>1, <1>2 DEF HasParents, HasParent

(* The way up goes on from where it has come to.                            *)
LEMMA UpIsTransitive ==
  ASSUME NEW c \in active, NEW d \in AllUp(c)
  PROVE  d \in active /\ AllUp(d) \subseteq AllUp(c)
<1>1. d \in active /\ AllUp(c) \in SUBSET active /\ HasParents(AllUp(c))
  BY ParentIsUp
<1>2. QED BY <1>1, UpInduction

(* The way up of a category is the category and its parent's way up. *)
LEMMA UpFromParent ==
  ASSUME NEW c \in active
  PROVE  AllUp(c) = IF HasParent(c) THEN {c} \cup AllUp(parentOf[c]) ELSE {c}
<1>1. CASE HasParent(c)
  <2> DEFINE p == parentOf[c]
             S == {c} \cup AllUp(p)
  <2>1. p \in active /\ p \in AllUp(c) /\ c \in AllUp(c)
    BY <1>1, ParentIsUp DEF HasParents
  <2>2. AllUp(p) \subseteq AllUp(c)
    BY <2>1, UpIsTransitive
  <2>3. S \in SUBSET active /\ c \in S /\ HasParents(S)
    <3>1. AllUp(p) \subseteq active /\ p \in AllUp(p) /\ HasParents(AllUp(p))
      BY <2>1, ParentIsUp
    <3>2. QED BY <3>1 DEF HasParents
  <2>4. AllUp(c) \subseteq S
    BY <2>3, UpInduction
  <2>5. QED BY <1>1, <2>1, <2>2, <2>4
<1>2. CASE ~HasParent(c)
  <2>1. {c} \in SUBSET active /\ HasParents({c})
    BY <1>2 DEF HasParents
  <2>2. AllUp(c) \subseteq {c}
    BY <2>1, UpInduction
  <2>3. QED BY <1>2, <2>2, ParentIsUp
<1>3. QED BY <1>1, <1>2

(* Who has a root above does not come back to itself. *)
LEMMA RootedIsNoCircle ==
  ASSUME NEW c \in active, NEW r \in Roots, r \in AllUp(c), HasParent(c)
  PROVE  c \notin AllUp(parentOf[c])
<1> DEFINE p == parentOf[c]
           Circle == {x \in AllUp(c) : c \in AllUp(x)}
<1> SUFFICES ASSUME c \in AllUp(p) PROVE FALSE
  OBVIOUS
<1>1. p \in active /\ p \in AllUp(c) /\ c \in AllUp(c) /\ AllUp(c) \subseteq active
  BY ParentIsUp DEF HasParents
<1>2. ASSUME NEW x \in Circle, HasParent(x) PROVE parentOf[x] \in Circle
  <2>1. x \in active /\ parentOf[x] \in AllUp(c)
    BY <1>1, <1>2, ParentIsUp DEF HasParents
  <2>2. AllUp(x) = {x} \cup AllUp(parentOf[x])
    BY <1>2, <2>1, UpFromParent
  <2>3. CASE x = c
    BY <1>1, <2>3
  <2>4. CASE x # c
    BY <2>1, <2>2, <2>4
  <2>5. QED BY <2>3, <2>4
<1>3. Circle \in SUBSET active /\ c \in Circle /\ HasParents(Circle)
  BY <1>1, <1>2 DEF HasParents
<1>4. r \in Circle
  BY <1>3, UpInduction
<1>5. r \in active /\ ~HasParent(r)
  BY DEF Roots
<1>6. AllUp(r) = {r}
  BY <1>5, UpFromParent
<1>7. QED BY <1>4, <1>5, <1>6

(* Of two categories on one way up, one is on the way up of the other. *)
LEMMA WayUpIsALine ==
  ASSUME NEW x \in active, NEW c \in AllUp(x), NEW d \in AllUp(x)
  PROVE  c \in AllUp(d) \/ d \in AllUp(c)
<1> DEFINE S == {y \in AllUp(x) : c \in AllUp(y) \/ y \in AllUp(c)}
<1>1. AllUp(x) \subseteq active /\ x \in AllUp(x) /\ HasParents(AllUp(x))
  BY ParentIsUp
<1>2. ASSUME NEW y \in S, HasParent(y) PROVE parentOf[y] \in S
  <2>1. y \in active /\ c \in active /\ parentOf[y] \in AllUp(x)
    BY <1>1, <1>2 DEF HasParents
  <2>2. AllUp(y) = {y} \cup AllUp(parentOf[y])
    BY <1>2, <2>1, UpFromParent
  <2>3. c \in AllUp(c) /\ HasParents(AllUp(c))
    BY <2>1, ParentIsUp
  <2>4. c \in AllUp(parentOf[y]) \/ y \in AllUp(c)
    BY <2>2, <2>3
  <2>5. QED BY <1>2, <2>1, <2>3, <2>4 DEF HasParents
<1>3. S \in SUBSET active /\ x \in S /\ HasParents(S)
  BY <1>1, <1>2 DEF HasParents
<1>4. d \in S
  BY <1>3, UpInduction
<1>5. QED BY <1>4

-----------------------------------------------------------------------------
(* The forest. *)

Below(c) == {d \in active : c \in AllUp(d)}

Rooted == {c \in active : \E r \in Roots : r \in AllUp(c)}

(* What is below a category is that category and what is below its          *)
(* children.                                                                *)
LEMMA ChildIsBelow ==
  ASSUME NEW c \in active
  PROVE  /\ Children(c) \subseteq active
         /\ \A d \in Children(c) : HasParent(d) /\ parentOf[d] = c /\ AllUp(d) = {d} \cup AllUp(c)
         /\ Below(c) = {c} \cup UNION {Below(d) : d \in Children(c)}
<1>1. Children(c) \subseteq active /\ \A d \in Children(c) : HasParent(d) /\ parentOf[d] = c
  BY DEF Children
<1>2. \A d \in Children(c) : AllUp(d) = {d} \cup AllUp(c)
  BY <1>1, UpFromParent
<1>3. ASSUME NEW x \in Below(c), x # c PROVE \E d \in Children(c) : x \in Below(d)
  <2> SUFFICES ASSUME \A d \in Children(c) : d \notin AllUp(x) PROVE FALSE
    BY <1>3 DEF Below
  <2>1. x \in active /\ c \in AllUp(x)
    BY <1>3 DEF Below
  <2>2. AllUp(x) \subseteq active /\ x \in AllUp(x) /\ HasParents(AllUp(x))
    BY <2>1, ParentIsUp
  <2> DEFINE S == AllUp(x) \ {c}
  <2>3. ASSUME NEW y \in S, HasParent(y) PROVE parentOf[y] \in S
    <3>1. parentOf[y] \in AllUp(x) /\ y \in active
      BY <2>2, <2>3 DEF HasParents
    <3>2. parentOf[y] # c
      BY <2>3, <3>1 DEF Children
    <3>3. QED BY <3>1, <3>2
  <2>4. S \in SUBSET active /\ x \in S /\ HasParents(S)
    BY <1>3, <2>2, <2>3 DEF HasParents
  <2>5. c \in S
    BY <2>1, <2>4, UpInduction
  <2>6. QED BY <2>5
<1>4. ASSUME NEW d \in Children(c), NEW x \in Below(d) PROVE x \in Below(c)
  <2>1. x \in active /\ d \in AllUp(x)
    BY DEF Below
  <2>2. AllUp(d) \subseteq AllUp(x)
    BY <2>1, UpIsTransitive
  <2>3. c \in AllUp(d)
    BY <1>2, ParentIsUp
  <2>4. QED BY <2>1, <2>2, <2>3 DEF Below
<1>5. c \in Below(c)
  BY ParentIsUp DEF Below
<1>6. Below(c) = {c} \cup UNION {Below(d) : d \in Children(c)}
  BY <1>3, <1>4, <1>5
<1>7. QED BY <1>1, <1>2, <1>6

(* Of some categories with a root above, one has no child among them. *)
LEMMA LeafOf ==
  ASSUME active \subseteq Categories, NEW T \in SUBSET Rooted, T # {}
  PROVE  \E x \in T : Children(x) \cap T = {}
<1> DEFINE N == Cardinality(active)
           Room(x) == N - Cardinality(AllUp(x))
           Rooms == {Room(x) : x \in T}
<1>1. IsFiniteSet(active) /\ N \in Nat
  BY MenuAssumption, FS_Subset, FS_CardinalityType
<1>2. ASSUME NEW x \in T
      PROVE  /\ x \in active /\ IsFiniteSet(AllUp(x))
             /\ Cardinality(AllUp(x)) \in Nat /\ Room(x) \in Nat
  <2>1. x \in active
    BY DEF Rooted
  <2>2. AllUp(x) \in SUBSET active
    BY <2>1, ParentIsUp
  <2>3. IsFiniteSet(AllUp(x)) /\ Cardinality(AllUp(x)) <= N
    BY <1>1, <2>2, FS_Subset
  <2>4. QED BY <1>1, <2>1, <2>3, FS_CardinalityType
<1>3. PICK n \in Rooms : \A m \in Rooms : n <= m
  <2>1. Rooms \subseteq Nat /\ Rooms # {}
    BY <1>2
  <2> HIDE DEF Rooms
  <2>2. QED BY <2>1, LeastOf
<1>4. PICK x \in T : n = Room(x)
  BY DEF Rooms
<1>5. ASSUME NEW d \in Children(x), d \in T PROVE FALSE
  <2>1. HasParent(d) /\ parentOf[d] = x /\ AllUp(d) = {d} \cup AllUp(x) /\ d \in active
    BY <1>2, ChildIsBelow
  <2>2. PICK r \in Roots : r \in AllUp(d)
    BY <1>5 DEF Rooted
  <2>3. d \notin AllUp(x)
    BY <2>1, <2>2, RootedIsNoCircle
  <2>4. Cardinality(AllUp(x) \cup {d}) = Cardinality(AllUp(x)) + 1
    BY <1>2, <2>3, FS_AddElement
  <2>5. Cardinality(AllUp(d)) = Cardinality(AllUp(x)) + 1
    <3>1. AllUp(d) = AllUp(x) \cup {d}
      BY <2>1
    <3>2. QED BY <2>4, <3>1
  <2>6. n <= Room(d)
    BY <1>3, <1>5
  <2>7. QED BY <1>1, <1>2, <1>4, <2>5, <2>6
<1>6. QED BY <1>5

Hung(g) == [n \in active |-> {n} \cup UNION {g[d] : d \in Children(n)}]

(* The nodes under a root are those that have it above. *)
LEMMA ForestIsRight ==
  ASSUME active \subseteq Categories
  PROVE  Forest = {link \in Roots \X active : link[1] \in AllUp(link[2])}
<1> DEFINE h == [n \in active |-> Below(n)]
           g == CHOOSE u : u = Hung(u)
<1>1. Forest = {<<root, n>> : root \in Roots, n \in active} \cap
                  UNION {{root} \X g[root] : root \in Roots}
  BY DEF Forest, Hung
<1>2. h = Hung(h)
  <2>1. ASSUME NEW n \in active PROVE Below(n) = {n} \cup UNION {h[d] : d \in Children(n)}
    <3>1. /\ Children(n) \subseteq active
          /\ Below(n) = {n} \cup UNION {Below(d) : d \in Children(n)}
      BY ChildIsBelow
    <3>2. QED BY <3>1
  <2>2. QED BY <2>1 DEF Hung
<1>3. g = Hung(g)
  <2> HIDE DEF h
  <2>1. \E u : u = Hung(u)
    BY <1>2
  <2>2. QED BY <2>1
<1> HIDE DEF g, h
<1>4. \A n \in active : g[n] = {n} \cup UNION {g[d] : d \in Children(n)}
  BY <1>3 DEF Hung
<1>5. ASSUME NEW r \in Roots, NEW c \in active, r \in AllUp(c) PROVE c \in g[r]
  <2> DEFINE S == {x \in active : c \in g[x]}
  <2>1. ASSUME NEW x \in S, HasParent(x) PROVE parentOf[x] \in S
    <3>1. parentOf[x] \in active /\ x \in Children(parentOf[x])
      BY <2>1 DEF HasParent, Children
    <3>2. QED BY <1>4, <3>1
  <2>2. S \in SUBSET active /\ c \in S /\ HasParents(S)
    BY <1>4, <2>1 DEF HasParents
  <2>3. AllUp(c) \subseteq S
    BY <2>2, UpInduction
  <2>4. QED BY <1>5, <2>3
<1>6. ASSUME NEW r \in Roots, NEW c \in active, c \in g[r], r \notin AllUp(c) PROVE FALSE
  <2> DEFINE T == {x \in active : r \in AllUp(x) /\ c \in g[x]}
  <2>1. T \in SUBSET Rooted
    BY DEF Rooted
  <2>2. r \in T
    BY <1>6, ParentIsUp DEF Roots
  <2>3. PICK x \in T : Children(x) \cap T = {}
    <3> HIDE DEF T
    <3>1. QED BY <2>1, <2>2, LeafOf
  <2>4. x # c
    BY <1>6
  <2>5. PICK d \in Children(x) : c \in g[d]
    BY <1>4, <2>4
  <2>6. d \in active /\ r \in AllUp(d)
    BY ChildIsBelow
  <2>7. d \in T
    BY <2>5, <2>6
  <2>8. QED BY <2>3, <2>7
<1>7. Roots \subseteq active
  BY DEF Roots
<1>8. QED BY <1>1, <1>5, <1>6, <1>7

(* What hangs in the forest has a root above.                               *)
LEMMA HangingIsRooted ==
  ASSUME active \subseteq Categories
  PROVE  Hanging = Rooted
<1>1. Forest = {link \in Roots \X active : link[1] \in AllUp(link[2])}
  BY ForestIsRight
<1>2. ASSUME NEW c \in Rooted PROVE \E link \in Forest : link[2] = c
  <2>1. PICK r \in Roots : r \in AllUp(c)
    BY DEF Rooted
  <2>2. c \in active
    BY DEF Rooted
  <2>3. <<r, c>> \in Forest /\ <<r, c>>[2] = c
    BY <1>1, <2>1, <2>2
  <2>4. QED BY <2>3
<1>3. ASSUME NEW link \in Forest PROVE link[2] \in Rooted
  BY <1>1 DEF Rooted
<1>4. QED BY <1>2, <1>3 DEF Hanging

-----------------------------------------------------------------------------
(* The counts. *)

(* What the fold of the library computes, with the function it folds over. *)
Summed(f, iter, S) ==
    [s \in SUBSET S |-> IF s = {} THEN 0
                        ELSE f[CHOOSE x \in s : TRUE] + iter[s \ {CHOOSE x \in s : TRUE}]]

SumOf(f, S) == (CHOOSE iter : iter = Summed(f, iter, S))[S]

(* The sum of the sizes of disjoint sets is the size of their union. *)
LEMMA SumIsCount ==
  ASSUME NEW S, IsFiniteSet(S), NEW f, NEW F,
         \A d \in S : IsFiniteSet(F[d]) /\ f[d] = Cardinality(F[d]),
         \A d, e \in S : d # e => F[d] \cap F[e] = {},
         NEW U, U = UNION {F[d] : d \in S}
  PROVE  IsFiniteSet(U) /\ SumOf(f, S) = Cardinality(U)
<1> DEFINE All(s) == UNION {F[d] : d \in s}
           c == [s \in SUBSET S |-> Cardinality(All(s))]
           iter == CHOOSE i : i = Summed(f, i, S)
           first(s) == CHOOSE x \in s : TRUE
<1>0. \A s \in SUBSET S : c[s] = Cardinality(All(s))
  OBVIOUS
<1> HIDE DEF c
<1>1. ASSUME NEW s \in SUBSET S, s # {}
      PROVE  /\ first(s) \in s /\ s \ {first(s)} \in SUBSET S
             /\ All(s) = F[first(s)] \cup All(s \ {first(s)})
             /\ F[first(s)] \cap All(s \ {first(s)}) = {}
  <2>1. first(s) \in s
    BY <1>1
  <2> HIDE DEF first
  <2>2. QED BY <2>1
<1>2. ASSUME NEW s \in SUBSET S PROVE IsFiniteSet(s) /\ IsFiniteSet(All(s))
  <2> DEFINE G == [d \in s |-> F[d]]
  <2>1. IsFiniteSet(s)
    BY FS_Subset
  <2>2. G \in Surjection(s, {F[d] : d \in s})
    BY DEF Surjection
  <2>3. IsFiniteSet({F[d] : d \in s})
    BY <2>1, <2>2, FS_Surjection
  <2>4. QED BY <2>1, <2>3, FS_UNION
<1>3. All({}) = {}
  OBVIOUS
<1>4. ASSUME NEW s \in SUBSET S, s # {}
      PROVE  c[s] = f[first(s)] + c[s \ {first(s)}]
  <2> DEFINE d == first(s)
             t == s \ {d}
  <2>1. d \in s /\ t \in SUBSET S /\ All(s) = F[d] \cup All(t) /\ F[d] \cap All(t) = {}
    BY <1>1, <1>4
  <2> HIDE DEF d, t
  <2>2. IsFiniteSet(F[d]) /\ IsFiniteSet(All(t)) /\ f[d] = Cardinality(F[d])
    BY <1>2, <2>1
  <2> HIDE DEF All
  <2>3. /\ Cardinality(F[d] \cup All(t)) =
              Cardinality(F[d]) + Cardinality(All(t)) - Cardinality(F[d] \cap All(t))
        /\ Cardinality(F[d]) \in Nat /\ Cardinality(All(t)) \in Nat
    BY <2>2, FS_Union, FS_CardinalityType
  <2>4. Cardinality(F[d] \cap All(t)) = 0
    <3>1. Cardinality({}) = 0
      BY FS_EmptySet
    <3>2. F[d] \cap All(t) = {}
      BY <2>1
    <3> DEFINE both == F[d] \cap All(t)
    <3> HIDE DEF both
    <3>3. both = {}
      BY <3>2 DEF both
    <3>4. Cardinality(both) = 0
      BY <3>1, <3>3
    <3>5. QED BY <3>4 DEF both
  <2>5. c[s] = Cardinality(F[d]) + Cardinality(All(t)) /\ c[t] = Cardinality(All(t))
    <3>1. c[s] = Cardinality(All(s)) /\ c[t] = Cardinality(All(t))
      BY <1>0, <2>1
    <3>2. Cardinality(All(s)) = Cardinality(F[d] \cup All(t))
      BY <2>1
    <3>3. Cardinality(F[d] \cup All(t)) = Cardinality(F[d]) + Cardinality(All(t))
      BY <2>3, <2>4
    <3>4. QED BY <3>1, <3>2, <3>3
  <2>6. QED BY <2>2, <2>5 DEF d, t
<1>5. c[{}] = 0
  <2>1. {} \in SUBSET S
    OBVIOUS
  <2>2. c[{}] = Cardinality(All({}))
    BY <1>0, <2>1
  <2>3. QED BY <1>3, <2>2, FS_EmptySet
<1>6. c = Summed(f, c, S)
  <2>1. ASSUME NEW s \in SUBSET S
        PROVE  c[s] = IF s = {} THEN 0 ELSE f[first(s)] + c[s \ {first(s)}]
    BY <1>4, <1>5
  <2>2. c = [s \in SUBSET S |-> c[s]]
    BY DEF c
  <2>3. QED BY <2>1, <2>2 DEF Summed
<1>7. iter = Summed(f, iter, S)
  <2>1. \E i : i = Summed(f, i, S)
    BY <1>6
  <2>2. QED BY <2>1
<1> HIDE DEF iter
<1>8. ASSUME NEW s \in SUBSET S
      PROVE  iter[s] = IF s = {} THEN 0 ELSE f[first(s)] + iter[s \ {first(s)}]
  BY <1>7 DEF Summed
<1> HIDE DEF first
<1>9. \A s \in SUBSET S : iter[s] = c[s]
  <2> DEFINE Bad == {s \in SUBSET S : iter[s] # c[s]}
             Sizes == {Cardinality(s) : s \in Bad}
  <2> SUFFICES ASSUME Bad # {} PROVE FALSE
    OBVIOUS
  <2>1. Sizes # {} /\ Sizes \subseteq Nat
    BY <1>2, FS_CardinalityType
  <2>2. PICK n \in Sizes : \A m \in Sizes : n <= m
    <3> HIDE DEF Sizes
    <3>1. QED BY <2>1, LeastOf
  <2>3. PICK s \in Bad : n = Cardinality(s)
    BY <2>2
  <2>4. s \in SUBSET S /\ iter[s] # c[s]
    BY <2>3
  <2>5. s # {}
    BY <1>5, <1>8, <2>4
  <2> DEFINE t == s \ {first(s)}
  <2>6. first(s) \in s /\ t \in SUBSET S /\ IsFiniteSet(s)
    BY <1>1, <1>2, <2>4, <2>5
  <2>7. Cardinality(t) = Cardinality(s) - 1 /\ Cardinality(s) \in Nat
    BY <2>6, FS_RemoveElement, FS_CardinalityType
  <2>8. t \notin Bad
    <3>1. t \in Bad => n <= Cardinality(t)
      BY <2>2
    <3>2. QED BY <2>3, <2>7, <3>1
  <2>9. iter[t] = c[t]
    BY <2>6, <2>8
  <2>10. iter[s] = f[first(s)] + iter[t] /\ c[s] = f[first(s)] + c[t]
    BY <1>4, <1>8, <2>4, <2>5
  <2>11. QED BY <2>4, <2>9, <2>10
<1>10. SumOf(f, S) = iter[S]
  BY DEF SumOf, iter
<1>11. QED BY <1>0, <1>2, <1>9, <1>10

(* The articles of a category and of those below it, each with the category *)
(* it is filed under.                                                       *)
Items(c) == UNION {{d} \X filed[d] : d \in Below(c)}

(* They are those of the category and, apart, those of each of its children. *)
LEMMA ItemsOfChildren ==
  ASSUME NEW c \in Rooted
  PROVE  /\ Items(c) = ({c} \X filed[c]) \cup UNION {Items(d) : d \in Children(c)}
         /\ ({c} \X filed[c]) \cap UNION {Items(d) : d \in Children(c)} = {}
         /\ \A d, e \in Children(c) : d # e => Items(d) \cap Items(e) = {}
         /\ Children(c) \subseteq Rooted
<1>1. c \in active /\ Children(c) \subseteq active
  BY DEF Rooted, Children
<1>2. PICK r \in Roots : r \in AllUp(c)
  BY DEF Rooted
<1>3. \A d \in Children(c) : HasParent(d) /\ parentOf[d] = c /\ AllUp(d) = {d} \cup AllUp(c)
  BY <1>1, ChildIsBelow
<1>4. \A d \in Children(c) : d \notin AllUp(c) /\ r \in AllUp(d)
  <2>1. ASSUME NEW d \in Children(c) PROVE d \notin AllUp(c) /\ r \in AllUp(d)
    <3>1. d \in active /\ r \in AllUp(d) /\ HasParent(d) /\ parentOf[d] = c
      BY <1>1, <1>2, <1>3
    <3>2. QED BY <3>1, RootedIsNoCircle
  <2>2. QED BY <2>1
<1>5. Below(c) = {c} \cup UNION {Below(d) : d \in Children(c)}
  BY <1>1, ChildIsBelow
<1>6. Items(c) = ({c} \X filed[c]) \cup UNION {Items(d) : d \in Children(c)}
  BY <1>5 DEF Items
<1>7. ASSUME NEW d \in Children(c) PROVE c \notin Below(d)
  BY <1>4 DEF Below
<1>8. ASSUME NEW d \in Children(c), NEW e \in Children(c), d # e
      PROVE  Below(d) \cap Below(e) = {}
  <2> SUFFICES ASSUME NEW x \in active, d \in AllUp(x), e \in AllUp(x) PROVE FALSE
    BY DEF Below
  <2>1. d \in AllUp(e) \/ e \in AllUp(d)
    BY WayUpIsALine
  <2>2. QED BY <1>3, <1>4, <1>8, <2>1
<1>9. \A x, y : y \in Items(x) => y[1] \in Below(x)
  BY DEF Items
<1>10. ({c} \X filed[c]) \cap UNION {Items(d) : d \in Children(c)} = {}
  <2> SUFFICES ASSUME NEW y \in {c} \X filed[c], NEW d \in Children(c), y \in Items(d)
               PROVE  FALSE
    OBVIOUS
  <2>1. y[1] = c
    OBVIOUS
  <2>2. QED BY <1>7, <1>9, <2>1
<1>11. \A d, e \in Children(c) : d # e => Items(d) \cap Items(e) = {}
  BY <1>8, <1>9
<1>12. Children(c) \subseteq Rooted
  BY <1>1, <1>4 DEF Rooted
<1>13. QED BY <1>6, <1>10, <1>11, <1>12

Rolled(count) ==
    [n \in Hanging |-> Cardinality(filed[n]) + SumOf(count, Children(n))]

(* A node's number is that of the articles filed under it or below. *)
LEMMA CountIsRight ==
  ASSUME active \subseteq Categories, filed \in [Categories -> SUBSET Articles],
         NEW c \in Hanging
  PROVE  rollUp(c) = Cardinality(Items(c))
<1> DEFINE size == [n \in Hanging |-> Cardinality(Items(n))]
           own(n) == {n} \X filed[n]
           count == CHOOSE k : k = Rolled(k)
<1>1. Hanging = Rooted /\ Rooted \subseteq active
  BY HangingIsRooted DEF Rooted
<1>2. rollUp(c) = count[c]
  BY DEF rollUp, MapThenSumSet, MapThenFoldSet, Rolled, SumOf, Summed
<1>3. ASSUME NEW n \in Hanging
      PROVE  IsFiniteSet(Items(n)) /\ IsFiniteSet(Children(n)) /\ Children(n) \subseteq Hanging
  <2>1. IsFiniteSet(active) /\ Children(n) \subseteq active /\ Below(n) \subseteq active
    BY MenuAssumption, FS_Subset DEF Children, Below
  <2>2. IsFiniteSet(active \X Articles)
    BY <2>1, MenuAssumption, FS_Product
  <2>3. Items(n) \in SUBSET (active \X Articles)
    BY <2>1 DEF Items
  <2>4. QED BY <1>1, <2>1, <2>2, <2>3, FS_Subset, ItemsOfChildren
<1>4. ASSUME NEW n \in Hanging
      PROVE  IsFiniteSet(own(n)) /\ Cardinality(own(n)) = Cardinality(filed[n])
  <2>1. n \in Categories /\ filed[n] \in SUBSET Articles
    BY <1>1
  <2>2. IsFiniteSet(filed[n]) /\ Cardinality(filed[n]) \in Nat
    BY <2>1, MenuAssumption, FS_Subset, FS_CardinalityType
  <2>3. IsFiniteSet({n}) /\ Cardinality({n}) = 1
    BY FS_Singleton
  <2>4. IsFiniteSet(own(n)) /\ Cardinality(own(n)) = 1 * Cardinality(filed[n])
    BY <2>2, <2>3, FS_Product
  <2>5. QED BY <2>2, <2>4
<1>5. ASSUME NEW n \in Hanging, NEW k, \A d \in Children(n) : k[d] = Cardinality(Items(d))
      PROVE  Cardinality(Items(n)) = Cardinality(filed[n]) + SumOf(k, Children(n))
  <2> DEFINE F == [d \in Children(n) |-> Items(d)]
             U == UNION {Items(d) : d \in Children(n)}
  <2>1. /\ IsFiniteSet(Children(n))
        /\ \A d \in Children(n) : IsFiniteSet(Items(d))
        /\ \A d, e \in Children(n) : d # e => Items(d) \cap Items(e) = {}
        /\ Items(n) = own(n) \cup U /\ own(n) \cap U = {}
    BY <1>1, <1>3, ItemsOfChildren
  <2>2. UNION {F[d] : d \in Children(n)} = U
    OBVIOUS
  <2>3. /\ \A d \in Children(n) : IsFiniteSet(F[d]) /\ k[d] = Cardinality(F[d])
        /\ \A d, e \in Children(n) : d # e => F[d] \cap F[e] = {}
    BY <1>5, <2>1
  <2> HIDE DEF F
  <2>4. IsFiniteSet(U) /\ SumOf(k, Children(n)) = Cardinality(U)
    <3> HIDE DEF F, U
    <3>1. ASSUME NEW D, D = Children(n), NEW G, G = F, NEW u, u = U
          PROVE  IsFiniteSet(u) /\ SumOf(k, D) = Cardinality(u)
      <4>1. /\ IsFiniteSet(D) /\ u = UNION {G[d] : d \in D}
            /\ \A d \in D : IsFiniteSet(G[d]) /\ k[d] = Cardinality(G[d])
            /\ \A d, e \in D : d # e => G[d] \cap G[e] = {}
        BY <2>1, <2>2, <2>3, <3>1
      <4>2. QED BY <4>1, SumIsCount
    <3>2. QED BY <3>1
  <2> HIDE DEF U
  <2> DEFINE o == own(n)
  <2>5. Cardinality(own(n) \cup U) = Cardinality(own(n)) + Cardinality(U)
    <3>1. IsFiniteSet(o) /\ o \cap U = {}
      BY <1>4, <2>1
    <3> HIDE DEF o
    <3>2. o \cap U = {} => Cardinality(o \cap U) = 0
      <4>1. Cardinality({}) = 0
        BY FS_EmptySet
      <4>2. QED BY <4>1
    <3>3. /\ Cardinality(o \cup U) = Cardinality(o) + Cardinality(U) - Cardinality(o \cap U)
          /\ Cardinality(o) \in Nat /\ Cardinality(U) \in Nat
      BY <2>4, <3>1, FS_Union, FS_CardinalityType
    <3>4. Cardinality(o \cap U) = 0
      BY <3>1, <3>2
    <3>5. Cardinality(o \cup U) = Cardinality(o) + Cardinality(U)
      BY <3>3, <3>4
    <3>6. QED BY <3>5 DEF o
  <2>6. QED BY <1>4, <2>1, <2>4, <2>5
<1>6. size = Rolled(size)
  <2>1. \A n \in Hanging : size[n] = Cardinality(Items(n))
    OBVIOUS
  <2>2. size = [n \in Hanging |-> size[n]]
    OBVIOUS
  <2> HIDE DEF size
  <2>3. ASSUME NEW n \in Hanging
        PROVE  size[n] = Cardinality(filed[n]) + SumOf(size, Children(n))
    <3>1. \A d \in Children(n) : size[d] = Cardinality(Items(d))
      BY <1>3, <2>1
    <3>2. QED BY <1>5, <2>1, <3>1
  <2>4. QED BY <2>2, <2>3 DEF Rolled
<1>7. count = Rolled(count)
  <2> HIDE DEF size
  <2>1. \E k : k = Rolled(k)
    BY <1>6
  <2>2. QED BY <2>1
<1> HIDE DEF count
<1>8. \A n \in Hanging : count[n] = Cardinality(filed[n]) + SumOf(count, Children(n))
  BY <1>7 DEF Rolled
<1>9. \A n \in Hanging : count[n] = Cardinality(Items(n))
  <2> DEFINE Wrong == {n \in Hanging : count[n] # Cardinality(Items(n))}
  <2> SUFFICES ASSUME Wrong # {} PROVE FALSE
    OBVIOUS
  <2>1. Wrong \in SUBSET Rooted
    BY <1>1
  <2>2. PICK n \in Wrong : Children(n) \cap Wrong = {}
    <3> HIDE DEF Wrong
    <3>1. QED BY <2>1, LeafOf
  <2>3. n \in Hanging /\ count[n] # Cardinality(Items(n))
    OBVIOUS
  <2>4. \A d \in Children(n) : count[d] = Cardinality(Items(d))
    BY <1>3, <2>2, <2>3
  <2>5. Cardinality(Items(n)) = Cardinality(filed[n]) + SumOf(count, Children(n))
    BY <1>5, <2>3, <2>4
  <2>6. QED BY <1>8, <2>3, <2>5
<1>10. QED BY <1>2, <1>9

(* The menu shows every active category once, under the topmost active one  *)
(* above it, with the number of articles at it or below: for any parents,   *)
(* also those in a circle.                                                  *)
LEMMA MenuFollows == MenuInit => MenuIsWhole
<1> SUFFICES ASSUME MenuInit PROVE MenuIsWhole
  OBVIOUS
<1>1. active \subseteq Categories /\ filed \in [Categories -> SUBSET Articles]
  BY DEF MenuInit
<1>2. ASSUME NEW link \in Forest
      PROVE  rollUp(link[2]) =
                 Cardinality(UNION {{d} \X filed[d] : d \in {d \in active : link[2] \in AllUp(d)}})
  <2>1. link[2] \in Hanging
    BY DEF Hanging
  <2>2. rollUp(link[2]) = Cardinality(Items(link[2]))
    BY <1>1, <2>1, CountIsRight
  <2>3. QED BY <2>2 DEF Items, Below
<1>3. QED BY <1>1, <1>2, ForestIsRight DEF MenuIsWhole

-----------------------------------------------------------------------------
(* The mock API beside the API. *)

(* The modules count alike. *)
LEMMA SameCount ==
  \A S : Api!Cardinality(S) = Cardinality(S) /\ Menu!Cardinality(S) = Cardinality(S)
BY DEF Api!Cardinality, Menu!Cardinality, Cardinality

(* Of a few, fewer come before any of them. *)
LEMMA FewBefore ==
  ASSUME NEW S, IsFiniteSet(S), NEW n \in Nat, Cardinality(S) <= n,
         NEW p \in S, NEW T \in SUBSET S, p \notin T
  PROVE  Cardinality(T) < n
<1>1. /\ IsFiniteSet(S \ {p}) /\ Cardinality(S \ {p}) = Cardinality(S) - 1
      /\ Cardinality(S) \in Nat
  BY FS_RemoveElement, FS_CardinalityType
<1>2. T \in SUBSET (S \ {p})
  OBVIOUS
<1>3. Cardinality(T) <= Cardinality(S \ {p}) /\ Cardinality(T) \in Nat
  BY <1>1, <1>2, FS_Subset, FS_CardinalityType
<1>4. QED BY <1>1, <1>3

(* Both look for the same products, and find no more than a page holds.     *)
LEMMA BothFind ==
  ASSUME NEW q \in Queries
  PROVE  /\ Found(q) = {p \in Ids : Matches(p, q)}
         /\ Found(q) \subseteq Ids /\ IsFiniteSet(Found(q))
         /\ q.limit \in Nat /\ q.limit <= 100 /\ Cardinality(Found(q)) <= q.limit
         /\ Ids \subseteq Nat \ {0} /\ IsFiniteSet(Ids)
<1>1. Ids \subseteq Nat \ {0} /\ IsFiniteSet(Ids)
  <2> DEFINE n == Len(FileProducts)
  <2>1. n \in Nat
    BY FileAssumption
  <2> HIDE DEF n
  <2>2. 1..n \subseteq Nat \ {0} /\ IsFiniteSet(1..n)
    BY <2>1, FS_Interval
  <2>3. QED BY <2>2 DEF Ids, n
<1>2. q.limit \in Nat /\ q.limit <= 100
  BY DEF Queries, HomeQueries, ShopQueries, SearchQueries, SitemapQuery, Query
<1>3. ASSUME NEW p \in Ids PROVE p \in Found(q) <=> Matches(p, q)
  BY DEF Found, Matches, Mentions
<1>4. Found(q) \in SUBSET Ids
  BY DEF Found
<1>5. IsFiniteSet(Found(q))
  BY <1>1, <1>4, FS_Subset
<1>6. QED BY <1>1, <1>2, <1>3, <1>4, <1>5, PagesHaveRoom

(* The mock cuts nothing off. *)
LEMMA MockShowsAll ==
  ASSUME NEW q \in Queries
  PROVE  items(q) = Found(q) /\ ~hasMore(q)
<1> DEFINE F == Found(q)
<1>1. /\ F = {p \in Ids : Matches(p, q)} /\ IsFiniteSet(F) /\ F \subseteq Ids
      /\ q.limit \in Nat /\ Cardinality(F) <= q.limit /\ Ids \subseteq Nat
  BY BothFind
<1>2. ASSUME NEW p \in F PROVE Cardinality({o \in 1..(p - 1) : Matches(o, q)}) < q.limit
  <2> DEFINE T == {o \in 1..(p - 1) : Matches(o, q)}
  <2>1. p \in Ids
    BY <1>1
  <2>2. T \in SUBSET F /\ p \notin T
    BY <1>1, <2>1, FileAssumption DEF Ids
  <2> HIDE DEF T, F
  <2>3. Cardinality(T) < q.limit
    BY <1>1, <2>2, FewBefore
  <2>4. QED BY <2>3 DEF T
<1>3. items(q) = F
  BY <1>1, <1>2 DEF items
<1>4. ~hasMore(q)
  <2>1. Cardinality(F) \in Nat
    BY <1>1, FS_CardinalityType
  <2>2. QED BY <1>1, <2>1 DEF hasMore
<1>5. QED BY <1>3, <1>4

(* The API takes all of a few rows. *)
LEMMA ApiTakes ==
  ASSUME NEW S, IsFiniteSet(S), S \subseteq Nat, NEW n \in Nat, Cardinality(S) <= n
  PROVE  Api!Take(S, n) = S
<1>1. ASSUME NEW p \in S PROVE Cardinality({q \in S : Api!Before(q, p)}) < n
  <2> DEFINE T == {q \in S : Api!Before(q, p)}
  <2>1. T \in SUBSET S /\ p \notin T
    BY DEF Api!Before
  <2> HIDE DEF T
  <2>2. Cardinality(T) < n
    BY <2>1, FewBefore
  <2>3. QED BY <2>2 DEF T
<1>2. QED BY <1>1, SameCount DEF Api!Take

LEMMA ApiShowsAll ==
  ASSUME asked \in Queries
  PROVE  /\ Api!Rows = Found(asked)
         /\ Api!Take(Api!Rows, asked.limit) = Found(asked)
         /\ ~(Cardinality(Api!Rows) > asked.limit)
<1> DEFINE F == Found(asked)
<1>1. /\ F \subseteq Ids /\ IsFiniteSet(F) /\ asked.limit \in Nat /\ asked.limit <= 100
      /\ Cardinality(F) <= asked.limit /\ Ids \subseteq Nat
  BY BothFind
<1>2. Cardinality(F) \in Nat
  BY <1>1, FS_CardinalityType
<1>3. Api!Rows = Api!Take(F, 101)
  <2>1. {p \in F : TRUE} \ {} = F
    OBVIOUS
  <2>2. QED BY <2>1 DEF Api!Rows, Api!RowsAhead, Api!NoProduct
<1> HIDE DEF F
<1>4. Api!Take(F, 101) = F /\ Api!Take(F, asked.limit) = F
  <2>1. F \subseteq Nat /\ Cardinality(F) <= 101 /\ 101 \in Nat
    BY <1>1, <1>2
  <2>2. QED BY <1>1, <2>1, ApiTakes
<1>5. QED BY <1>1, <1>2, <1>3, <1>4 DEF F

(* What the seed makes of a product: a price for each of its variants.      *)
LEMMA SeedSells ==
  ASSUME NEW p \in Ids
  PROVE  LET packs == Pack(p) IN
         /\ packs \subseteq Packs /\ packs # {} /\ IsFiniteSet(packs)
         /\ Cardinality(packs) = Len(FileProducts[p].variants)
         /\ \A v \in packs : /\ SeededPrice[p][v] = FileProducts[p].variants[v].priceInr
                             /\ SeededPrice[p][v] \in Nat \ {0}
                             /\ SeededRule[p][v] = FileProducts[p].variants[v].production
         /\ \A v \in Packs : SeededOffer[p][v] = IF v \in packs THEN "sold" ELSE "unsold"
<1> DEFINE n == Len(FileProducts[p].variants)
           packs == 1..n
<1>1. n \in Nat \ {0} /\ \A v \in packs : FileProducts[p].variants[v].priceInr \in Nat \ {0}
  BY FileAssumption DEF Ids, Pack
<1>2. packs \subseteq Packs
  BY DEF Packs, Pack
<1>3. packs # {} /\ IsFiniteSet(packs) /\ Cardinality(packs) = n
  <2> HIDE DEF n
  <2>1. 1 \in packs
    BY <1>1
  <2>2. IsFiniteSet(1..n) /\ Cardinality(1..n) = n
    BY <1>1, FS_Interval
  <2>3. QED BY <2>1, <2>2
<1>4. ASSUME NEW v \in Packs
      PROVE  SeededPrice[p][v] = IF v \in packs THEN FileProducts[p].variants[v].priceInr ELSE 0
  BY <1>4 DEF SeededPrice, Pack
<1>5. ASSUME NEW v \in Packs
      PROVE  SeededOffer[p][v] = IF SeededPrice[p][v] = 0 THEN "unsold" ELSE "sold"
  BY <1>5 DEF SeededOffer
<1> HIDE DEF packs
<1>6. ASSUME NEW v \in packs
      PROVE  /\ SeededPrice[p][v] = FileProducts[p].variants[v].priceInr
             /\ SeededPrice[p][v] \in Nat \ {0}
  BY <1>1, <1>2, <1>4
<1>7. ASSUME NEW v \in Packs
      PROVE  SeededOffer[p][v] = IF v \in packs THEN "sold" ELSE "unsold"
  BY <1>4, <1>5, <1>6
<1>8. ASSUME NEW v \in packs PROVE SeededRule[p][v] = FileProducts[p].variants[v].production
  BY <1>2, <1>8 DEF SeededRule, Pack, packs
<1>9. QED BY <1>2, <1>3, <1>6, <1>7, <1>8 DEF packs, Pack

(* A product's price is the least of its variants' in both. *)
LEMMA SamePrice ==
  ASSUME NEW p \in Ids
  PROVE  priceOf(p) = Api!LeastPrice(p, Pack(p))
<1> DEFINE packs == Pack(p)
           Prices == {FileProducts[p].variants[v].priceInr : v \in packs}
           w0 == CHOOSE v \in packs : \A w \in packs : SeededPrice[p][v] <= SeededPrice[p][w]
<1>1. /\ packs # {}
      /\ \A v \in packs : /\ SeededPrice[p][v] = FileProducts[p].variants[v].priceInr
                          /\ SeededPrice[p][v] \in Nat
  BY SeedSells
<1> HIDE DEF packs
<1>2. Prices # {} /\ Prices \subseteq Nat
  BY <1>1
<1>3. PICK n \in Prices : \A m \in Prices : n <= m
  <2> HIDE DEF Prices
  <2>1. QED BY <1>2, LeastOf
<1>4. \E v \in packs : \A w \in packs : SeededPrice[p][v] <= SeededPrice[p][w]
  BY <1>1, <1>3
<1>5. w0 \in packs /\ \A w \in packs : SeededPrice[p][w0] <= SeededPrice[p][w]
  BY <1>4
<1>6. Api!LeastPrice(p, packs) = SeededPrice[p][w0]
  BY DEF Api!LeastPrice
<1> HIDE DEF w0
<1>7. SeededPrice[p][w0] \in Prices /\ SeededPrice[p][w0] \in Nat
  BY <1>1, <1>5
<1>8. \A m \in Prices : SeededPrice[p][w0] <= m
  BY <1>1, <1>5
<1> HIDE DEF Prices
<1>9. Min(Prices) \in Prices /\ \A m \in Prices : Min(Prices) <= m
  BY <1>3 DEF Min
<1>10. Min(Prices) = SeededPrice[p][w0]
  <2>1. Min(Prices) \in Nat
    BY <1>2, <1>9
  <2>2. QED BY <1>7, <1>8, <1>9, <2>1
<1>11. priceOf(p) = Min(Prices)
  BY DEF priceOf, Prices, packs
<1>12. QED BY <1>6, <1>10, <1>11 DEF packs

(* The card of a product and its page. *)
LEMMA SameProduct ==
  ASSUME NEW p \in Ids, p \in Found(asked)
  PROVE  /\ summary(p) = Api!toSummary(p)
         /\ Api!detail(p).code = "OK" /\ Api!detail(p).fromPrice = priceOf(p)
         /\ productPage(p) = ApiPage(p)
<1> DEFINE packs == Pack(p)
<1>1. /\ packs \subseteq Packs /\ packs # {} 
      /\ Cardinality(packs) = Len(FileProducts[p].variants)
      /\ \A v \in packs : SeededPrice[p][v] = FileProducts[p].variants[v].priceInr
      /\ \A v \in Packs : SeededOffer[p][v] = IF v \in packs THEN "sold" ELSE "unsold"
  BY SeedSells
<1>2. priceOf(p) = Api!LeastPrice(p, packs)
  BY SamePrice
<1> HIDE DEF packs
<1>3. {v \in Packs : SeededOffer[p][v] = "sold"} = packs
  BY <1>1
<1>4. {v \in Packs : SeededOffer[p][v] # "off"} = Packs
      /\ Packs \ {v \in Packs : SeededOffer[p][v] = "unsold"} = packs
  BY <1>1
<1>5. summary(p) = Api!toSummary(p)
  BY <1>1, <1>2, <1>3, SameCount DEF summary, Api!toSummary
<1>6. Api!detail(p) = [code |-> "OK", fromPrice |-> priceOf(p),
                       variantCount |-> Cardinality(packs)]
  BY <1>1, <1>2, <1>4, SameCount DEF Api!detail
<1>7. productPage(p) = ApiPage(p)
  <2>1. productPage(p) = [v \in packs |->
            LET sku == FileProducts[p].variants[v]
            IN  [price |-> sku.priceInr,
                 preOrder |-> IF sku.production # NoRule THEN PreOrder(sku.production)
                              ELSE NotAhead]]
    BY DEF productPage, packs
  <2>2. ApiPage(p) = [v \in packs |->
            [price |-> SeededPrice[p][v],
             preOrder |-> IF FileProducts[p].stockMode = "STOCKED" \/ SeededRule[p][v] = NoRule
                          THEN NotAhead ELSE PreOrder(SeededRule[p][v])]]
    BY <1>3 DEF ApiPage
  <2>3. ASSUME NEW v \in packs
        PROVE  (FileProducts[p].stockMode = "STOCKED" \/ SeededRule[p][v] = NoRule)
                 <=> FileProducts[p].variants[v].production = NoRule
    <3>1. SeededRule[p][v] = FileProducts[p].variants[v].production
      BY SeedSells DEF packs
    <3>2. FileProducts[p].stockMode = "STOCKED" => FileProducts[p].variants[v].production = NoRule
      BY FileAssumption DEF packs
    <3>3. QED BY <3>1, <3>2
  <2>4. ASSUME NEW v \in packs
        PROVE  /\ SeededPrice[p][v] = FileProducts[p].variants[v].priceInr
               /\ SeededRule[p][v] = FileProducts[p].variants[v].production
    BY SeedSells DEF packs
  <2>5. QED BY <2>1, <2>2, <2>3, <2>4
<1>8. QED BY <1>5, <1>6, <1>7

(* What hangs under each category of the seed, where none has a parent. *)
Alone(under) == [n \in FileCategories |-> {n} \cup UNION {under[d] : d \in Menu!Children(n)}]

(* The seed's menu is flat: every category hangs in it by itself. *)
LEMMA MenuIsFlat ==
  /\ \A n \in FileCategories : Menu!Children(n) = {}
  /\ Menu!Hanging = FileCategories
<1>1. \A n \in FileCategories : ~Menu!HasParent(n)
  BY DEF Menu!HasParent
<1>2. \A n \in FileCategories : Menu!Children(n) = {}
  BY <1>1 DEF Menu!Children
<1>3. Menu!Roots = FileCategories
  BY <1>1 DEF Menu!Roots
<1> DEFINE under == CHOOSE u : u = Alone(u)
           own == [n \in FileCategories |-> {n}]
<1>4. Menu!Forest = {<<root, n>> : root \in Menu!Roots, n \in FileCategories} \cap
                        UNION {{root} \X under[root] : root \in Menu!Roots}
  BY DEF Menu!Forest, Alone
<1>5. under = Alone(under)
  <2>1. own = Alone(own)
    BY <1>2 DEF Alone
  <2> HIDE DEF own
  <2>2. \E u : u = Alone(u)
    BY <2>1
  <2>3. QED BY <2>2
<1> HIDE DEF under
<1>6. \A n \in FileCategories : under[n] = {n}
  BY <1>2, <1>5 DEF Alone
<1>7. ASSUME NEW n \in FileCategories PROVE \E link \in Menu!Forest : link[2] = n
  <2>1. <<n, n>> \in Menu!Forest /\ <<n, n>>[2] = n
    BY <1>3, <1>4, <1>6
  <2>2. QED BY <2>1
<1>8. ASSUME NEW link \in Menu!Forest PROVE link[2] \in FileCategories
  BY <1>4
<1>9. Menu!Hanging = FileCategories
  BY <1>7, <1>8 DEF Menu!Hanging
<1>10. QED BY <1>2, <1>9

(* The products of a category, and the numbers the tree gives its nodes. *)
Filed(c) == {p \in Ids : c \in FileProducts[p].categorySlugs}

RolledFlat(count) ==
    [n \in Menu!Hanging |-> Cardinality(Filed(n)) + SumOf(count, Menu!Children(n))]

(* Nothing adds up to nothing. *)
LEMMA SumOfNone == \A f : SumOf(f, {}) = 0
<1>1. ASSUME NEW f, NEW S, S = {}, NEW U, U = UNION {f[d] : d \in S} PROVE SumOf(f, S) = 0
  <2>1. IsFiniteSet(S) /\ U = {}
    BY <1>1, FS_EmptySet
  <2>2. SumOf(f, S) = Cardinality(U)
    BY <1>1, <2>1, SumIsCount
  <2>3. QED BY <2>1, <2>2, FS_EmptySet
<1>2. QED BY <1>1

(* The mock counts the products of a category as the tree does. *)
LEMMA SameMenu ==
  ASSUME NEW c \in FileCategories
  PROVE  productCount(c) = Menu!rollUp(c)
<1> DEFINE own == [n \in Menu!Hanging |-> Cardinality(Filed(n))]
           count == CHOOSE k : k = RolledFlat(k)
<1>1. Menu!rollUp(c) = count[c]
  BY MenuIsFlat, SameCount DEF Menu!rollUp, Menu!MapThenSumSet, Menu!MapThenFoldSet,
                              RolledFlat, SumOf, Summed, Filed
<1>2. \A n \in Menu!Hanging : Cardinality(Filed(n)) \in Nat
  <2>1. IsFiniteSet(Ids)
    <3> DEFINE last == Len(FileProducts)
    <3>1. last \in Nat
      BY FileAssumption
    <3> HIDE DEF last
    <3>2. IsFiniteSet(1..last)
      BY <3>1, FS_Interval
    <3>3. QED BY <3>2 DEF Ids, last
  <2>2. ASSUME NEW n PROVE Cardinality(Filed(n)) \in Nat
    <3>1. Filed(n) \in SUBSET Ids
      BY DEF Filed
    <3>2. QED BY <2>1, <3>1, FS_Subset, FS_CardinalityType
  <2>3. QED BY <2>2
<1>3. own = RolledFlat(own)
  BY <1>2, MenuIsFlat, SumOfNone DEF RolledFlat
<1>4. count = RolledFlat(count)
  <2> HIDE DEF own
  <2>1. \E k : k = RolledFlat(k)
    BY <1>3
  <2>2. QED BY <2>1
<1> HIDE DEF count
<1>5. count[c] = Cardinality(Filed(c)) + SumOf(count, Menu!Children(c))
  BY <1>4, MenuIsFlat DEF RolledFlat
<1>6. QED BY <1>1, <1>2, <1>5, MenuIsFlat, SumOfNone DEF productCount, Filed

(* Whatever a page asks, mock and API answer the same. *)
LEMMA MockAnswersAsApi == asked \in Queries \cup {NoQuery} => MockAgrees
<1> SUFFICES ASSUME asked \in Queries, asked # NoQuery PROVE MockAgrees
  BY DEF MockAgrees
<1>1. items(asked) = Found(asked) /\ ~hasMore(asked)
  BY MockShowsAll
<1>2. /\ Api!Take(Api!Rows, asked.limit) = Found(asked)
      /\ ~(Cardinality(Api!Rows) > asked.limit)
  BY ApiShowsAll
<1>3. Found(asked) \subseteq Ids
  BY BothFind
<1>4. QED BY <1>1, <1>2, <1>3, SameProduct, SameMenu DEF MockAgrees

-----------------------------------------------------------------------------
(* The storefront. *)

(* Each part moves in the storefront as it does alone. *)
LEMMA PartsOfStorefront ==
  StorefrontSpec => /\ DatesSpec /\ CatalogSpec /\ BookSpec
                    /\ []MenuInit /\ [](asked \in Queries \cup {NoQuery})
<1>1. StorefrontInit => DatesInit /\ CatalogInit /\ BookInit /\ MenuInit
  BY DEF StorefrontInit, StillDates, StillShop, StillMenu, StillBook
<1>2. [StorefrontNext]_storefrontVars =>
          /\ [DatesNext]_datesVars /\ [CatalogNext]_catalogVars /\ [BookNext]_bookVars
          /\ UNCHANGED menuVars
  <2> SUFFICES ASSUME [StorefrontNext]_storefrontVars
               PROVE  /\ [DatesNext]_datesVars /\ [CatalogNext]_catalogVars
                      /\ [BookNext]_bookVars /\ UNCHANGED menuVars
    OBVIOUS
  <2> QED BY Zenon DEF StorefrontNext, storefrontVars
<1>3. MenuInit /\ UNCHANGED menuVars => MenuInit'
  BY DEF MenuInit, menuVars
<1> DEFINE Asked == asked \in Queries \cup {NoQuery}
<1>4. StorefrontInit => Asked
  BY DEF StorefrontInit, AskInit
<1>5. Asked /\ [StorefrontNext]_storefrontVars => Asked'
  BY DEF StorefrontNext, storefrontVars, Ask
<1> HIDE DEF Asked
<1>6. Asked => asked \in Queries \cup {NoQuery}
  BY DEF Asked
<1>7. QED BY <1>1, <1>2, <1>3, <1>4, <1>5, <1>6, PTL
      DEF StorefrontSpec, DatesSpec, CatalogSpec, BookSpec

(* CategoryService.tree, whatever the rows of the categories say.           *)
THEOREM MenuHolds == StorefrontSpec => []MenuIsWhole
BY PartsOfStorefront, MenuFollows, PTL

(* A page made against the mock API shows what it would show against the    *)
(* API, for any catalogue file whose pages have room.                       *)
THEOREM MockHolds == StorefrontSpec => []MockAgrees
BY PartsOfStorefront, MockAnswersAsApi, PTL

(* What the pages of the storefront may rely on of the modules behind them: *)
(* the dates, the scroll and the cards, the menu and the address book; and  *)
(* the page of a developer, that the mock answers as the API.               *)
THEOREM PagesHold ==
  StorefrontSpec => []( /\ ProductionDayIsRight /\ OfferIsFirstHoldable
                        /\ ScrollShowsOnce /\ CardAgreesWithPage
                        /\ MenuIsWhole /\ MockAgrees
                        /\ OneDefault /\ DefaultKept )
BY PartsOfStorefront, ProductionDayHolds, OfferHolds, ScrollIsComplete, CardAgrees, MenuHolds,
   MockHolds, OneDefaultHolds, DefaultIsKept, PTL
=============================================================================
