----------------------------- MODULE CategoryTree -----------------------------
(***************************************************************************)
(* CategoryService.tree: the categories of a market's menu as a forest,    *)
(* with the number of products at each node.  The rows name their parent,  *)
(* which may be switched off, deleted, or lead back to them.               *)
(***************************************************************************)
EXTENDS Integers, FiniteSets, FiniteSetsExt

CONSTANTS
    Categories,
    Articles,   \* products the market sells
    NoParent    \* the parentId of a category that names no other

ASSUME MenuAssumption == IsFiniteSet(Categories) /\ IsFiniteSet(Articles)

VARIABLES
    parentOf,   \* parentOf[c]: category.parentId, of any category or of c itself
    active,     \* categories that are active and not deleted
    filed       \* filed[c]: the articles filed under c

menuVars == <<parentOf, active, filed>>

MenuInit ==
    /\ parentOf \in [Categories -> Categories \cup {NoParent}]
    /\ active \in SUBSET Categories
    /\ filed \in [Categories -> SUBSET Articles]

-----------------------------------------------------------------------------
(* nodes.get(parentId): only active categories have a node.  One that names *)
(* itself becomes a child of its own.                                       *)
HasParent(c) == parentOf[c] # NoParent /\ parentOf[c] \in active
Children(c) == {d \in active : HasParent(d) /\ parentOf[d] = c}
Roots == {c \in active : ~HasParent(c)}

(* The forest, as the nodes with the root each is under. *)
Forest ==
    LET under[n \in active] == {n} \cup UNION {under[d] : d \in Children(n)}
    IN  {<<root, n>> : root \in Roots, n \in active} \cap
            UNION {{root} \X under[root] : root \in Roots}

(* The categories that hang in it; a circle of parents does not. *)
Hanging == {link[2] : link \in Forest}

(* Slip: the children's own products are added, but not their children's. *)
rollUpOnce(c) ==
    Cardinality(filed[c]) + MapThenSumSet(LAMBDA d : Cardinality(filed[d]), Children(c))

(* productCount of the node of c: rollUp is called on the roots. *)
rollUp(c) ==
    LET count[n \in Hanging] ==
            Cardinality(filed[n]) + MapThenSumSet(LAMBDA d : count[d], Children(n))
    IN  count[c]

-----------------------------------------------------------------------------
(* Reference: the active categories on the way up from c, which are in      *)
(* every set that has c and the parents of its members.                     *)
HasParents(S) == \A d \in S : HasParent(d) => parentOf[d] \in S
AllUp(c) == {d \in active : \A S \in SUBSET active : c \in S /\ HasParents(S) => d \in S}

(* The menu shows every active category once, under the topmost active one  *)
(* on its way up, and with the number of filings under it or below: an      *)
(* article filed under a category and under one below it counts twice.      *)
(* Only categories whose way up turns in a circle are left out.             *)
MenuIsWhole ==
    /\ Forest = {link \in Roots \X active : link[1] \in AllUp(link[2])}
    /\ \A link \in Forest :
          LET c == link[2]
              below == {d \in active : c \in AllUp(d)}
          IN  rollUp(c) = Cardinality(UNION {{d} \X filed[d] : d \in below})
=============================================================================
