------------------------------- MODULE Caches -------------------------------
(***************************************************************************)
(* The read-through caches of the API in Redis, over the tables the seed   *)
(* and administrators write: the market of a host name (market.service),   *)
(* an administrator's permissions (permissions.guard), a tax rate          *)
(* (pricing.service) and the category tree (category.service).             *)
(*                                                                         *)
(* The caches share nothing, so one is watched in a behaviour.  A request  *)
(* that finds nothing under the key reads the tables one after another and *)
(* stores what it read, in steps others come between.  Nothing removes a key *)
(* but the end of its time to live: no code calls invalidate, and writers  *)
(* of the tables do not know of the caches.                                *)
(***************************************************************************)
EXTENDS Seed

CONSTANT Readers

VARIABLES
    key,        \* the cache watched
    cached,     \* what Redis has under it: the parts of an answer, or Absent
    load        \* load[p]: how far request p is ("idle", "reading", "aliasing",
                \* "read"), and the parts of its answer it has got

cacheVars == <<key, cached, load>>
vars == <<seedVars, cacheVars>>

Keys == {"market", "permissions", "tax", "tree"}
Values == SUBSET Marks
Absent == <<>>
NoLoad == [pc |-> "idle", got |-> <<>>]

(* taxRateFor: a rate an administrator has changed is one he has ended, and *)
(* none that is valid today is a rate of 0.                                 *)
Rate == IF "left" \in row["rate"] THEN {} ELSE row["rate"]

(* What the tree counts: a product under the category, neither withdrawn    *)
(* nor taken off the market's list.                                         *)
Counted ==
    IF /\ row["link"] # {} /\ row["listing"] # {}
       /\ "left" \notin row["product"] /\ "updated" \notin row["listing"]
    THEN {"seed"} ELSE {}

(* What an answer is made of: each part is read by a statement of its own,  *)
(* as an include is, and the second only for the rows of the first.         *)
Source ==
    CASE key = "market" -> <<row["domain"], row["market"]>>
      [] key = "permissions" -> <<row["membership"], row["grants"]>>
      [] key = "tax" -> <<Rate>>
      [] key = "tree" -> <<row["category"], Counted>>

Answer == IF Source[1] = {} THEN <<Source[1]>> ELSE Source

Init ==
    /\ SeedInit
    /\ key \in Keys
    /\ cached = Absent
    /\ load = [p \in Readers |-> NoLoad]

(* getJson finds nothing.  The rate of tax is asked for a line that has a   *)
(* price, of a product from which no administrator has taken its tax class  *)
(* (without one it is priced at 0 and nothing is looked up).                *)
Miss(p) ==
    /\ load[p] = NoLoad /\ cached = Absent
    /\ key = "tax" => row["price"] # {} /\ "updated" \notin row["product"]
    /\ load' = [load EXCEPT ![p].pc = "reading"]
    /\ UNCHANGED <<seedVars, key, cached>>

Reading(p) == load[p].pc \in {"reading", "aliasing"}

(* Slip: a request that finds no row answers with the seed's value. *)
ReadOrDefault(p) ==
    LET got == Append(load[p].got, Source[Len(load[p].got) + 1] \cup {"seed"}) IN
    /\ Reading(p)
    /\ load' = [load EXCEPT ![p] =
          [pc |-> IF Len(got) = Len(Source) THEN "read" ELSE load[p].pc, got |-> got]]
    /\ UNCHANGED <<seedVars, key, cached>>

(* The next part is read.  A www. host that is not registered is looked for *)
(* again without its prefix.                                                *)
Read(p) ==
    LET part == Source[Len(load[p].got) + 1]
        got == Append(load[p].got, part)
        isAlias == key = "market" /\ got = <<{}>> /\ load[p].pc = "reading"
        isLast == part = {} \/ Len(got) = Len(Source)
    IN
    /\ Reading(p)
    /\ load' = [load EXCEPT ![p] =
          IF isAlias THEN [pc |-> "aliasing", got |-> <<>>]
          ELSE [pc |-> IF isLast THEN "read" ELSE load[p].pc, got |-> got]]
    /\ UNCHANGED <<seedVars, key, cached>>

(* A market that is not there or, as an administrator may have it, closed   *)
(* is not stored.                                                           *)
Storable(got) == key = "market" => Len(got) = 2 /\ got[2] # {} /\ "left" \notin got[2]

(* setJson with a time to live, and the answer. *)
Store(p) ==
    /\ load[p].pc = "read"
    /\ cached' = IF Storable(load[p].got) THEN load[p].got ELSE cached
    /\ load' = [load EXCEPT ![p] = NoLoad]
    /\ UNCHANGED <<seedVars, key>>

(* The database or Redis fails the request, or its process ends. *)
Fail(p) ==
    /\ load[p] # NoLoad
    /\ load' = [load EXCEPT ![p] = NoLoad]
    /\ UNCHANGED <<seedVars, key, cached>>

(* Slip: without a time to live (setJson is given 0). *)
ExpireNever == FALSE /\ UNCHANGED vars

Expire ==
    /\ cached # Absent
    /\ cached' = Absent
    /\ UNCHANGED <<seedVars, key, load>>

CacheNext == (\E p \in Readers : Miss(p) \/ Read(p) \/ Store(p) \/ Fail(p)) \/ Expire

Next == (SeedNext /\ UNCHANGED cacheVars) \/ CacheNext

Spec == Init /\ [][Next]_vars

(* Requests under way go on, and times to live run out.  Passes and edits   *)
(* need not happen.                                                         *)
FairSpec ==
    /\ Spec /\ WF_vars(Expire)
    /\ \A p \in Readers : WF_vars(Read(p) \/ Store(p))

-----------------------------------------------------------------------------
(* Properties. *)

(* What is cached or on its way to be, and the values each part of an       *)
(* answer may have.                                                         *)
Answers == {cached} \cup {load[p].got : p \in Readers}
About ==
    [i \in DOMAIN Source |->
        {Source[i]} \cup {a[i] : a \in {b \in Answers : i \in DOMAIN b}}]

(* Each cache implements StaleReads: a late store may bring back a value    *)
(* the tables have left, but none that no request was still holding.        *)
Reads == INSTANCE StaleReads WITH
    Values <- Values,
    current <- Source, about <- About
StaleReads == Reads!Spec

(* No line is priced without its tax unless its rate was ended: the seed    *)
(* gives products a price only after their tax has a rate, in every order   *)
(* of passes, stops and reads.                                              *)
NeverUntaxed ==
    key = "tax" => \A a \in Answers : a = <<{}>> => "left" \in row["rate"]

(* After the last change of a table every answer becomes that of the table, *)
(* and stays so, whatever loads were under way.                             *)
CacheFollows == <>[](cached \in {Absent, Answer})

-----------------------------------------------------------------------------
(* The type invariant. *)
Parts(got) == got \in Seq(Values) /\ Len(got) <= Len(Source)

CachesTypeOK ==
    /\ key \in Keys
    /\ Parts(cached)
    /\ load \in [Readers -> [pc : {"idle", "reading", "aliasing", "read"}, got : Seq(Values)]]
    /\ \A p \in Readers :
          /\ Parts(load[p].got)
          /\ load[p].pc = "idle" => load[p].got = <<>>
          /\ Reading(p) => Len(load[p].got) < Len(Source)
=============================================================================
