------------------------------ MODULE MCCatalogue ------------------------------
(* Instances for TLC of what a shop sells and of what keeps one shop from    *)
(* another: Products, VariantImages and Categories for one tenant, Tenancy   *)
(* for several. They have statements of their own and no state in common, so *)
(* a behaviour is one of them: part, chosen at the start, says of which.     *)
EXTENDS Integers, Sequences, Tenancy, TLC

CONSTANTS
  MaxVariants, Skus, AutoSku, Lists, MaxProductCalls, MaxAborts,
  MaxImages, Positions, MaxImageCalls, Categories, NoCategory, MaxMoves,
  t1, t2, r1, r2, r3, e1, e2

ASSUME ImagesAssumption == MaxImages \in Nat /\ Positions \subseteq Int
\* Requests name variants by id or by SKU; there are ids enough for each.
ASSUME ProductsAssumption ==
  /\ MaxVariants \in Nat \ {0} /\ AutoSku \in Skus
  /\ Lists \subseteq Seq([id : Int, sku : Skus, stock : Int, def : BOOLEAN])
  /\ \A s \in Lists : Len(s) <= MaxVariants
ASSUME TreeAssumption == NoCategory \notin Categories

VARIABLES part,
  status, product, given, productTx, ledger, crossed, raced, doubled, asked, productCalls, productAborts,
  variant, image, object, used, imageTx, overlapped, cleared, revived, strays, imageCalls, imageAborts,
  cat, treeTx, meddled, treeCalls, treeAborts

PV == INSTANCE Products WITH
  Txns <- Calls, MaxCalls <- MaxProductCalls, row <- product, drawn <- given, tx <- productTx,
  calls <- productCalls, aborts <- productAborts

VI == INSTANCE VariantImages WITH
  Txns <- Calls, MaxCalls <- MaxImageCalls, row <- image, drawn <- used, tx <- imageTx,
  raced <- overlapped, calls <- imageCalls, aborts <- imageAborts

CT == INSTANCE Categories WITH
  Txns <- Calls, MaxCalls <- MaxMoves,
  tx <- treeTx, calls <- treeCalls, aborts <- treeAborts

productVars == <<status, product, given, productTx, ledger, crossed, raced, doubled, asked,
                 productCalls, productAborts>>
imageVars   == <<variant, image, object, used, imageTx, overlapped, cleared, revived, strays,
                 imageCalls, imageAborts>>
treeVars    == <<cat, treeTx, meddled, treeCalls, treeAborts>>

\* Only a behaviour of the images, or of the tenants, starts in each of their
\* initial states.
CatalogueInit ==
  /\ part \in {"tenants", "product", "images", "tree"}
  /\ Init /\ PV!Init /\ VI!Init /\ CT!Init
  /\ part # "images"  => variant = "none"
  /\ part # "tenants" => tenants = {} /\ Pool = Conns

CatalogueNext ==
  \/ part = "tenants" /\ Next     /\ UNCHANGED <<part, productVars, imageVars, treeVars>>
  \/ part = "product" /\ PV!Next  /\ UNCHANGED <<part, vars, imageVars, treeVars>>
  \/ part = "images"  /\ VI!Next  /\ UNCHANGED <<part, vars, productVars, treeVars>>
  \/ part = "tree"    /\ CT!Next  /\ UNCHANGED <<part, vars, productVars, imageVars>>

CatalogueSpec == CatalogueInit /\ [][CatalogueNext]_<<part, vars, productVars, imageVars, treeVars>>

\* Requests: a variant named by its id, by its SKU or by neither, with or without
\* a stock, two that claim the default, and no variant at all.
LeftOut == -1   \* Products' None
V(i, s, n, f) == [id |-> i, sku |-> s, stock |-> n, def |-> f]
MCLists == { <<>>,
             <<V(LeftOut, "a", 1, FALSE), V(LeftOut, "b", 1, TRUE)>>,
             <<V(1, "c", LeftOut, TRUE), V(LeftOut, "a", 1, TRUE)>>,
             <<V(2, "b", LeftOut, TRUE)>> }

Symmetry == Permutations(Calls) \cup Permutations(Tenants)

OneDefault   == PV!OneDefault
StockKept    == PV!StockKept
ListApplied  == PV!ListApplied
ObjectsMatch == VI!ObjectsMatch
OnePrimary   == VI!OnePrimary
AllShown     == CT!AllShown
================================================================================
