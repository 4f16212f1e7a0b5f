-------------------------------- MODULE Seed --------------------------------
(***************************************************************************)
(* pnpm db:seed: one pass over the reference data, statement by statement  *)
(* outside any transaction, run again after a crash or with a new release. *)
(* Administrators change the same tables meanwhile and between passes.     *)
(*                                                                         *)
(* A table is represented by one of its rows, and a row by its marks:      *)
(* "seed" if it is there, "updated" and "left" if an administrator has     *)
(* changed columns that the seed's upsert updates, or that it leaves.  Of  *)
(* a role's grants, "seed" are the permissions the seed gives, "extra" one *)
(* that it does not give.                                                  *)
(***************************************************************************)
EXTENDS Integers, Sequences

CONSTANTS
    Editable,   \* tables administrators change
    Naming,     \* whether the environment of a pass names an administrator
    MaxPasses,  \* bound: passes of the seed
    MaxEdits    \* bound: changes

-----------------------------------------------------------------------------
(* The statements of main, in order. *)
MarketStatements == <<"warehouse", "taxClass", "market", "domain", "rate">>

(* rolePermission.deleteMany, then createMany; and, if the environment      *)
(* names an administrator, his account and his role.                        *)
AccessStatements == <<"permission", "role", "strip", "grants", "adminUser", "membership">>
AccountTables == {"adminUser", "membership"}

CatalogueStatements ==
    <<"segment", "category", "product", "link", "image",
      "listing", "variant", "rule", "price">>

DeliveryStatements == <<"zone", "postcode", "slot", "template", "setting">>

(* Slip: the rates of tax come with the settings, last. *)
StatementsRatesLast ==
    SubSeq(MarketStatements, 1, 4) \o AccessStatements
        \o CatalogueStatements \o DeliveryStatements \o <<"rate">>

Statements ==
    MarketStatements \o AccessStatements \o CatalogueStatements \o DeliveryStatements

Tables == {Statements[i] : i \in 1..Len(Statements)} \ {"strip"}

ASSUME SeedAssumption ==
    Editable \subseteq Tables /\ Naming \subseteq BOOLEAN /\ MaxPasses \in Nat /\ MaxEdits \in Nat

(* Tables whose upsert updates columns of a row that is there: a default    *)
(* warehouse, names, prices, what is listed.  The others keep what they     *)
(* have: their update is empty, or they are looked up first.                *)
Updated ==
    {"market", "domain", "role", "category", "product", "listing", "variant",
     "rule", "price", "zone", "slot", "template", "setting"}

(* Tables all of whose columns the seed states, or that only have a key.    *)
WithoutOthers == {"domain", "rule", "setting", "postcode", "link", "grants", "membership"}

Columns(t) ==
    {c \in {"updated", "left"} : IF c = "updated" THEN t \in Updated ELSE t \notin WithoutOthers}

(* Slip: the row is written over whole. *)
UpsertWhole(r) == {"seed"}

(* What an upsert, or createMany with skipDuplicates, makes of a row. *)
Upsert(r) == (r \ {"updated"}) \cup {"seed"}

-----------------------------------------------------------------------------
VARIABLES
    row,        \* row[t]: the marks of t's row; none while it is not there
    at,         \* the statement a pass is at; past the last: completed
    pass,       \* "none", "running", "stopped" or "completed"
    named,      \* the environment of the pass names an administrator
    passes, edits,
    standing    \* history: changes a pass has no business to undo, <<t, what>>

seedVars == <<row, at, pass, named, passes, edits, standing>>

Position(s) == CHOOSE i \in 1..Len(Statements) : Statements[i] = s

SeedInit ==
    /\ row = [t \in Tables |-> {}]
    /\ at = 1 /\ pass = "none" /\ named = FALSE /\ passes = 0
    /\ edits = 0 /\ standing = {}

(* What was changed in columns the seed leaves stands through the pass.     *)
Start ==
    /\ pass # "running" /\ passes < MaxPasses
    /\ pass' = "running" /\ at' = 1 /\ passes' = passes + 1
    /\ named' \in Naming
    /\ standing' = {change \in standing : change[2] = "left"}
    /\ UNCHANGED <<row, edits>>

(* One statement, committed on its own. *)
Execute ==
    LET t == Statements[at] IN
    /\ pass = "running"
    /\ row' = IF t = "strip" THEN [row EXCEPT !["grants"] = {}]
              ELSE IF t \in AccountTables /\ ~named THEN row
              ELSE [row EXCEPT ![t] = Upsert(row[t])]
    /\ at' = at + 1
    /\ pass' = IF at = Len(Statements) THEN "completed" ELSE "running"
    /\ UNCHANGED <<named, passes, edits, standing>>

(* A statement fails, or the process is stopped: the rest is left undone.   *)
Stop ==
    /\ pass = "running"
    /\ pass' = "stopped"
    /\ UNCHANGED <<row, at, named, passes, edits, standing>>

(* An administrator's change stands if the pass is past the statement s     *)
(* that would undo it, or none would.                                       *)
Edited(t, what, s) ==
    /\ edits < MaxEdits /\ edits' = edits + 1
    /\ standing' = IF what = "left" \/ at > Position(s) THEN standing \cup {<<t, what>>}
                   ELSE standing
    /\ UNCHANGED <<at, pass, named, passes>>

ChangeColumn(t, c) ==
    /\ row[t] # {} /\ c \in Columns(t)
    /\ row' = [row EXCEPT ![t] = @ \cup {c}]
    /\ Edited(t, c, t)

(* A role is given one more permission, also while it has none. *)
Grant ==
    /\ row["role"] # {}
    /\ row' = [row EXCEPT !["grants"] = @ \cup {"extra"}]
    /\ Edited("grants", "extra", "strip")

(* A role is taken from the administrator, or the seed's permissions from   *)
(* the role.                                                                *)
Revoke(t) ==
    /\ "seed" \in row[t]
    /\ row' = [row EXCEPT ![t] = @ \ {"seed"}]
    /\ Edited(t, "taken", t)

Edit(t) ==
    \/ \E c \in {"updated", "left"} : ChangeColumn(t, c)
    \/ t = "grants" /\ Grant
    \/ t \in {"grants", "membership"} /\ Revoke(t)

SeedNext == Start \/ Execute \/ Stop \/ \E t \in Editable : Edit(t)

SeedSpec == SeedInit /\ [][SeedNext]_seedVars

-----------------------------------------------------------------------------
(* Properties. *)

(* However often passes were stopped and run again, a completed one leaves  *)
(* in every table what one pass without a stop would have: the seed's row   *)
(* (an account only if one was named), the administrators' changes of       *)
(* columns the seed leaves, and of others only those made after the         *)
(* statement that writes them; a role has what the seed gives and what was  *)
(* granted since it was stripped.                                           *)
RerunLeaves ==
    pass = "completed" =>
        \A t \in Tables :
            LET changes == {what \in {"updated", "left", "extra"} : <<t, what>> \in standing}
            IN  \/ row[t] = changes \cup (IF <<t, "taken">> \in standing THEN {} ELSE {"seed"})
                \/ t \in AccountTables /\ ~named

-----------------------------------------------------------------------------
(* The type invariant. *)
Marks == {"seed", "updated", "left", "extra"}

SeedTypeOK ==
    /\ row \in [Tables -> SUBSET Marks]
    /\ at \in 1..(Len(Statements) + 1)
    /\ pass \in {"none", "running", "stopped", "completed"}
    /\ pass = "running" => at <= Len(Statements)
    /\ pass = "completed" => at = Len(Statements) + 1
    /\ standing \subseteq Tables \X {"updated", "left", "extra", "taken"}
=============================================================================
