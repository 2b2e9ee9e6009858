----------------------------- MODULE VariantImages -----------------------------
(***************************************************************************)
(* The images of one product variant: rows of product_variant_images and   *)
(* the objects they name in the object storage, changed by                 *)
(* ProductVariantImagesService and ProductsService.createWithImages.       *)
(*                                                                         *)
(* A call is a transaction, with work on the storage before or after it.   *)
(* What the transaction writes stays in tx[t] until it commits.            *)
(***************************************************************************)
EXTENDS Integers, Sequences, FiniteSets

CONSTANTS
  Txns,                \* calls that may be under way together
  MaxImages,           \* bound: image ids, numbered in the order in which they are drawn
  Positions,           \* values a request may give for sortOrder
  MaxCalls, MaxAborts  \* bounds: calls, and calls that fail

Images == 1..MaxImages

VARIABLES
  variant,   \* the variant: not created yet, there, or deleted
  row,       \* product_variant_images
  object,    \* keys of the storage that hold an object
  drawn,     \* number of ids drawn
  tx,        \* the calls under way
  raced,     \* history: two transactions have been open together,
  cleared,   \* a request has set isPrimary to false,
  revived,   \* images whose deleted row a stale save has inserted again,
  strays,    \* and something has failed that leaves an object behind
  calls, aborts

history == <<raced, cleared, revived, strays>>
db      == <<variant, row>>
bounds  == <<calls, aborts>>
vars    == <<db, object, drawn, tx, history, bounds>>

Row   == [there : BOOLEAN, sort : Int, primary : BOOLEAN]
NoRow == [there |-> FALSE, sort |-> 0, primary |-> FALSE]
At(n, p) == [there |-> TRUE, sort |-> n, primary |-> p]

Call == [pc : {"idle", "store", "open", "demote", "demoting", "compare", "write",
               "remove", "promote", "commit", "unlink"},
         op   : {"none", "create", "upload", "update", "delete", "reorder"},
         del  : SUBSET Images,       \* the image to delete
         list : Seq(Images),         \* images to store and save, in order
         ent  : [Images -> Row],     \* the entities loaded, with what is set on them
         cols : SUBSET {"sort", "primary"}, \* columns that save found different,
         ins  : BOOLEAN,             \* or the row it did not find
         todo : SUBSET Images,       \* rows that the demotion has still to lock
         wrote : SUBSET Images,      \* rows written by the transaction
         w    : [Images -> Row]]     \* and what it wrote

Blank == [i \in Images |-> NoRow]
Idle  == [pc |-> "idle", op |-> "none", del |-> {}, list |-> <<>>, ent |-> Blank,
          cols |-> {}, ins |-> FALSE, todo |-> {}, wrote |-> {}, w |-> Blank]

--------------------------------------------------------------------------------
\* One object per image, not per variant.
Key_PerVariant(i) == "variant"
Key(i) == i

Rows      == { i \in Images : row[i].there }
View(t, i) == IF i \in tx[t].wrote THEN tx[t].w[i] ELSE row[i]
Seen(t)   == { i \in Images : View(t, i).there }
Free(t, i) == \A u \in Txns \ {t} : i \notin tx[u].wrote

\* The transaction of the call is open.
InTx(r) == r.pc \notin {"idle", "open", "unlink"} /\ (r.pc = "store" => r.op = "create")
Racing(t) == \E u \in Txns \ {t} : InTx(tx[u])

\* A gallery as uploads one after the other leave it.
Tidy(s) == [i \in Images |->
  IF \E n \in 1..Len(s) : s[n] = i
  THEN LET n == CHOOSE n \in 1..Len(s) : s[n] = i IN At(n - 1, n = 1) ELSE NoRow]

\* Orderings of images without a repetition.
Orderings(S) == { s \in [1..Cardinality(S) -> S] : \A j, k \in DOMAIN s : s[j] = s[k] => j = k }

Drawn(n) == [k \in 1..n |-> k]

Init ==
  /\ \/ variant = "none" /\ drawn = 0
     \/ variant = "there" /\ drawn \in 0..MaxImages
  /\ row = Tidy(Drawn(drawn)) /\ object = { Key(i) : i \in 1..drawn }
  /\ tx = [t \in Txns |-> Idle]
  /\ raced = FALSE /\ cleared = FALSE /\ revived = {} /\ strays = FALSE
  /\ calls = 0 /\ aborts = 0

Arrive(t, r) ==
  /\ tx[t].pc = "idle" /\ calls < MaxCalls
  /\ calls' = calls + 1
  /\ tx' = [tx EXCEPT ![t] = r]
  /\ raced' = (raced \/ (InTx(r) /\ Racing(t)))
  /\ UNCHANGED <<db, object, revived, strays, aborts>>

Step(t, r) ==
  /\ tx' = [tx EXCEPT ![t] = r]
  /\ UNCHANGED <<db, object, drawn, history, bounds>>

--------------------------------------------------------------------------------
(* createWithImages and uploadImage.                                       *)

\* The transaction of a new product, once its variant is inserted.
BeginCreate(t, n) ==
  /\ variant = "none" /\ \A u \in Txns : tx[u].op # "create"
  /\ drawn' = n
  /\ Arrive(t, [Idle EXCEPT !.op = "create", !.list = Drawn(n), !.ent = Tidy(Drawn(n)),
                            !.pc = IF n = 0 THEN "commit" ELSE "store"])
  /\ UNCHANGED cleared

\* validateVariant in a transaction of its own; asked: dto.isPrimary.
BeginUpload(t, asked) ==
  /\ variant = "there" /\ drawn < MaxImages
  /\ drawn' = drawn + 1
  /\ Arrive(t, [Idle EXCEPT !.op = "upload", !.list = <<drawn + 1>>,
                            !.ent[drawn + 1] = At(0, asked), !.pc = "store"])
  /\ UNCHANGED cleared

Store(t) ==
  /\ tx[t].pc = "store"
  /\ object' = object \cup {Key(Head(tx[t].list))}
  /\ tx' = [tx EXCEPT ![t].pc = IF tx[t].op = "create" THEN "compare" ELSE "open"]
  /\ UNCHANGED <<db, drawn, history, bounds>>

Last == CHOOSE n \in {-1} \cup { row[i].sort : i \in Rows } : \A i \in Rows : row[i].sort <= n

FirstIsPrimary_Asked(asked) == asked
FirstIsPrimary(asked) == Rows = {} \/ asked

\* The second transaction of uploadImage: the images there are.
Open(t) ==
  /\ tx[t].pc = "open"
  /\ LET i == Head(tx[t].list)
         p == FirstIsPrimary(tx[t].ent[i].primary)
     IN  tx' = [tx EXCEPT ![t].ent[i] = At(Last + 1, p),
                          ![t].pc = IF p /\ Rows # {} THEN "demote" ELSE "compare"]
  /\ raced' = (raced \/ Racing(t))
  /\ UNCHANGED <<db, object, drawn, cleared, revived, strays, bounds>>

--------------------------------------------------------------------------------
(* updateImage, deleteImage and reorderImages.                             *)

\* dto.isPrimary is "yes", "no" or left out; dto.sortOrder a position or left out.
BeginUpdate(t, i, primary, sort) ==
  /\ i \in Rows
  /\ LET p == IF primary = "keep" THEN row[i].primary ELSE primary = "yes"
     IN  Arrive(t, [Idle EXCEPT !.op = "update", !.list = <<i>>,
                      !.ent[i] = At(sort, p),
                      !.pc = IF p /\ ~row[i].primary THEN "demote" ELSE "compare"])
  /\ cleared' = (cleared \/ primary = "no")
  /\ UNCHANGED drawn

BeginDelete(t, i) ==
  /\ i \in Rows
  /\ Arrive(t, [Idle EXCEPT !.op = "delete", !.del = {i}, !.ent[i] = row[i], !.pc = "remove"])
  /\ UNCHANGED <<drawn, cleared>>

\* All the images of the variant, each once; save writes them one by one.
BeginReorder(t) ==
  /\ tx[t].pc = "idle" /\ Rows # {}
  /\ \E s \in Orderings(Rows) :
       Arrive(t, [Idle EXCEPT !.op = "reorder", !.list = s, !.pc = "compare",
         !.ent = [i \in Images |-> IF i \in Rows THEN At(Tidy(s)[i].sort, row[i].primary)
                                   ELSE NoRow]])
  /\ UNCHANGED <<drawn, cleared>>

\* UPDATE ... WHERE is_primary: the rows that the statement sees,
StartDemotion(t) ==
  /\ tx[t].pc = "demote"
  /\ LET S == { i \in Rows : row[i].primary }
     IN  Step(t, [tx[t] EXCEPT !.todo = S, !.pc = IF S = {} THEN "compare" ELSE "demoting"])

\* each locked and looked at again.
Demote(t, i) ==
  /\ tx[t].pc = "demoting" /\ i \in tx[t].todo /\ Free(t, i)
  /\ LET rest == tx[t].todo \ {i}
         r == [tx[t] EXCEPT !.todo = rest, !.pc = IF rest = {} THEN "compare" ELSE @]
     IN  Step(t, IF row[i].there /\ row[i].primary
                 THEN [r EXCEPT !.wrote = @ \cup {i}, !.w[i] = [row[i] EXCEPT !.primary = FALSE]]
                 ELSE r)

Remove(t) ==
  /\ tx[t].pc = "remove"
  /\ \E i \in tx[t].del :
       /\ Free(t, i)
       /\ Step(t, [tx[t] EXCEPT !.wrote = @ \cup {i}, !.w[i] = NoRow,
                                !.pc = IF tx[t].ent[i].primary THEN "promote" ELSE "commit"])

\* ORDER BY sort_order, created_at: images in the same place in either order.
First(t, i) == i \in Seen(t) /\ \A j \in Seen(t) : View(t, i).sort <= View(t, j).sort

Promote(t) ==
  /\ tx[t].pc = "promote"
  /\ \/ /\ Seen(t) = {} /\ Step(t, [tx[t] EXCEPT !.pc = "commit"])
     \/ \E i \in Images :
          /\ First(t, i)
          /\ Step(t, [tx[t] EXCEPT !.list = <<i>>, !.pc = "compare",
                                   !.ent[i] = [View(t, i) EXCEPT !.primary = TRUE]])

--------------------------------------------------------------------------------
(* save of one entity: a SELECT by id, then an UPDATE of the columns that  *)
(* differ, or an INSERT when there is no such row.                         *)

\* With the head of the list saved: the next, or the end.
Saved(r) == [r EXCEPT !.list = Tail(@),
               !.pc = IF Len(r.list) = 1 THEN "commit"
                      ELSE IF r.op = "create" THEN "store" ELSE "compare"]

Differing(a, b) == { c \in {"sort", "primary"} : a[c] # b[c] }
Patch(a, b, C)  == [c \in DOMAIN a |-> IF c \in C THEN b[c] ELSE a[c]]

Compare(t) ==
  /\ tx[t].pc = "compare"
  /\ LET i == Head(tx[t].list)
         C == Differing(tx[t].ent[i], View(t, i))
     IN  Step(t, IF ~View(t, i).there THEN [tx[t] EXCEPT !.ins = TRUE, !.pc = "write"]
                 ELSE IF C = {} THEN Saved(tx[t])
                 ELSE [tx[t] EXCEPT !.ins = FALSE, !.cols = C, !.pc = "write"])

\* An INSERT needs the variant, which createWithImages has inserted itself.
Accepted(t) == ~row[Head(tx[t].list)].there /\ (variant = "there" \/ tx[t].op = "create")

Write(t) ==
  /\ tx[t].pc = "write" /\ Free(t, Head(tx[t].list)) /\ (tx[t].ins => Accepted(t))
  /\ LET i == Head(tx[t].list)
         r == Saved(tx[t])
     IN  Step(t, IF tx[t].ins THEN [r EXCEPT !.wrote = @ \cup {i}, !.w[i] = tx[t].ent[i]]
                 ELSE IF View(t, i).there
                 THEN [r EXCEPT !.wrote = @ \cup {i},
                                !.w[i] = Patch(View(t, i), tx[t].ent[i], tx[t].cols)]
                 ELSE r)

--------------------------------------------------------------------------------
\* Images that the call puts back although their row was deleted.
Again(t) == IF tx[t].op \in {"create", "upload"} THEN {}
            ELSE { i \in tx[t].wrote : tx[t].w[i].there /\ ~row[i].there }

Commit(t) ==
  /\ tx[t].pc = "commit"
  /\ row' = [i \in Images |-> View(t, i)]
  /\ variant' = IF tx[t].op = "create" THEN "there" ELSE variant
  /\ revived' = revived \cup Again(t)
  /\ tx' = [tx EXCEPT ![t] = IF tx[t].op = "delete"
                             THEN [Idle EXCEPT !.op = "delete", !.del = tx[t].del, !.pc = "unlink"]
                             ELSE Idle]
  /\ UNCHANGED <<object, drawn, raced, cleared, strays, bounds>>

\* deleteImage, after its transaction.
Deleted_Nothing(t) == {}
Deleted(t) == { Key(i) : i \in tx[t].del }

Unlink(t) ==
  /\ tx[t].pc = "unlink"
  /\ object' = object \ Deleted(t)
  /\ tx' = [tx EXCEPT ![t] = Idle]
  /\ UNCHANGED <<db, drawn, history, bounds>>

\* Nobody deletes the objects of a call that fails, or that stops half way.
Drop(t) ==
  /\ tx' = [tx EXCEPT ![t] = Idle]
  /\ strays' = TRUE
  /\ UNCHANGED <<db, object, drawn, raced, cleared, revived>>

\* The INSERT is refused: the variant is gone, or the row is back already.
Refused(t) ==
  /\ tx[t].pc = "write" /\ tx[t].ins /\ ~Accepted(t) /\ Free(t, Head(tx[t].list))
  /\ Drop(t) /\ UNCHANGED bounds

\* The process, a connection or the storage fails.
Abort(t) ==
  /\ tx[t].pc # "idle" /\ aborts < MaxAborts
  /\ aborts' = aborts + 1
  /\ Drop(t) /\ UNCHANGED calls

\* ProductsService deletes the variant; its image rows go with it.
DeleteVariant ==
  /\ variant = "there" /\ \A t \in Txns : tx[t].wrote = {}
  /\ variant' = "gone" /\ row' = Blank /\ strays' = TRUE
  /\ UNCHANGED <<object, drawn, tx, raced, cleared, revived, bounds>>

Begin(t) ==
  \/ \E n \in 0..MaxImages : BeginCreate(t, n)
  \/ \E asked \in BOOLEAN : BeginUpload(t, asked)
  \/ BeginReorder(t)
  \/ \E i \in Images :
       \/ \E p \in {"keep", "yes", "no"}, n \in Positions \cup {row[i].sort} : BeginUpdate(t, i, p, n)
       \/ BeginDelete(t, i)

Run(t) ==
  \/ Store(t) \/ Open(t) \/ StartDemotion(t) \/ Remove(t) \/ Promote(t)
  \/ Compare(t) \/ Write(t) \/ Refused(t) \/ Commit(t) \/ Unlink(t)
  \/ \E i \in Images : Demote(t, i)

Next ==
  \/ \E t \in Txns : Begin(t) \/ Run(t) \/ Abort(t)
  \/ DeleteVariant

Spec == Init /\ [][Next]_vars

--------------------------------------------------------------------------------
TypeOK ==
  /\ variant \in {"none", "there", "gone"} /\ row \in [Images -> Row]
  /\ object \in SUBSET Images /\ drawn \in 0..MaxImages
  /\ tx \in [Txns -> Call]
  /\ raced \in BOOLEAN /\ cleared \in BOOLEAN /\ revived \in SUBSET Images /\ strays \in BOOLEAN
  /\ calls \in Nat /\ aborts \in Nat

(* Images and objects match. No image is shown whose object is missing: objects *)
(* are stored before their row and deleted after it, whatever overlaps or fails; *)
(* only an update, reorder or promotion that saves an image deleted after it was *)
(* loaded puts back a row without an object. And the storage does not fill up:   *)
(* once every call has ended, each object belongs to an image, unless a call     *)
(* failed half way or the variant was deleted (uploadImage, deleteImage).        *)
ObjectsMatch ==
  /\ \A i \in Rows : Key(i) \in object \/ i \in revived
  /\ ~strays /\ (\A t \in Txns : tx[t].pc = "idle") => \A k \in object : \E i \in Rows : Key(i) = k

(* A variant with images has exactly one primary image, through uploads,        *)
(* updates, deletions and reorderings, as long as no two of them overlap and    *)
(* no request takes the mark away (uploadImage, updateImage, deleteImage).      *)
OnePrimary ==
  ~raced => /\ \A i, j \in Rows : row[i].primary /\ row[j].primary => i = j
            /\ Rows # {} /\ ~cleared => \E i \in Rows : row[i].primary
================================================================================
