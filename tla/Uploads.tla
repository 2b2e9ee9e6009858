--------------------------------- MODULE Uploads ---------------------------------
(***************************************************************************)
(* useImageUploadManager of the admin web: the images of one variant as    *)
(* the form lists them, the uploads that run behind the list, and the      *)
(* deletions, orders and refreshes that cross them.                        *)
(*                                                                         *)
(* The marks of the primary image are left out: no property is about them. *)
(***************************************************************************)
EXTENDS Integers, Sequences, FiniteSets, SequencesExt

CONSTANTS
  Files,            \* files that the user may add; an image has the name of its file
  Concurrency,      \* limit of p-limit
  MaxActs, MaxFaults \* bounds: acts of the user and refreshes, answers that are errors

VARIABLES
  added,     \* files used so far
  items,     \* itemsRef: what is listed, in order
  context,   \* contextRef: the variant has an id on the server
  scheduled, \* scheduledRef
  tasks,     \* calls handed to the limiter, in order
  server,    \* images that the server has
  deletions, \* items whose deletion is not answered yet
  orders,    \* previous orders of reorderings not answered yet
  refresh,   \* an answer to a query of the product on its way, if any
  waiter,    \* a call of waitForIdle: the tasks it awaits,
  awaited,   \* history: and the files that it is to await
  acts, faults

ops    == <<deletions, orders>>
bounds == <<acts, faults>>
vars   == <<added, items, context, scheduled, tasks, server, ops, refresh, waiter, awaited, bounds>>

\* A local item has a file of its own; a persisted one is named after its image.
Item   == [file : Files, local : BOOLEAN, status : {"queued", "uploading", "done", "error"}]
Task   == [file : Files, pc : {"waiting", "uploading", "stored", "ended"}, aborted : BOOLEAN]
Key(i) == <<i.file, i.local>>

Init ==
  /\ added = {} /\ items = <<>> /\ context \in BOOLEAN /\ scheduled = {} /\ tasks = <<>>
  /\ server = {} /\ deletions = {} /\ orders = {} /\ refresh = {}
  /\ waiter = {} /\ awaited = {} /\ acts = 0 /\ faults = 0

--------------------------------------------------------------------------------
Keys     == { Key(items[n]) : n \in DOMAIN items }
Listed   == { i.file : i \in ToSet(items) }
Queued   == { i.file : i \in { j \in ToSet(items) : j.status = "queued" } }
Busy     == { i.file : i \in { j \in ToSet(items) : j.status \in {"queued", "uploading"} } }
Running  == { k \in DOMAIN tasks : tasks[k].pc \in {"uploading", "stored"} }
LastTask(f) == { k \in DOMAIN tasks : tasks[k].file = f /\ \A j \in DOMAIN tasks : tasks[j].file = f => j <= k }

\* Array.filter, written out: TLAPS does not look into SelectSeq.
Filter(s, S) ==
  LET kept[n \in 0..Len(s)] == IF n = 0 THEN <<>>
                               ELSE IF s[n] \in S THEN Append(kept[n - 1], s[n]) ELSE kept[n - 1]
  IN  kept[Len(s)]

ItemOf(key)      == items[CHOOSE n \in DOMAIN items : /\ Key(items[n]) = key
                                                      /\ \A m \in DOMAIN items : Key(items[m]) = key => m <= n]
Without(s, key)  == Filter(s, { i \in Item : Key(i) # key })
Patched(f, st)   == [n \in DOMAIN items |-> IF items[n].file = f /\ items[n].local
                                            THEN [items[n] EXCEPT !.status = st] ELSE items[n]]

Act == acts < MaxActs /\ acts' = acts + 1 /\ UNCHANGED faults

\* scheduleUploads: the queued files that no task has yet are handed to the limiter.
Unscheduled_All(s) == s
Unscheduled(s) == Filter(s, { i \in Item : i.file \notin scheduled })

Schedule(s) ==
  LET queued == Filter(s, { i \in Item : i.status = "queued" })
      new == Unscheduled(queued)
  IN  /\ tasks' = tasks \o [n \in DOMAIN new |-> [file |-> new[n].file, pc |-> "waiting", aborted |-> FALSE]]
      /\ scheduled' = scheduled \cup { i.file : i \in ToSet(queued) }

ScheduleIfKnown == IF context THEN Schedule(items') ELSE UNCHANGED <<tasks, scheduled>>

--------------------------------------------------------------------------------
(* The user.                                                               *)

AddFiles(F) ==
  /\ Act /\ F # {} /\ F \cap added = {} /\ added' = added \cup F
  /\ LET s == SetToSeq(F)
         queued == [n \in DOMAIN s |-> [file |-> s[n], local |-> TRUE, status |-> "queued"]]
     IN  items' = items \o queued
  /\ ScheduleIfKnown
  /\ UNCHANGED <<context, server, ops, refresh, waiter, awaited>>

AddRejectedFile(f) ==
  /\ Act /\ f \notin added /\ added' = added \cup {f}
  /\ items' = Append(items, [file |-> f, local |-> TRUE, status |-> "error"])
  /\ UNCHANGED <<context, scheduled, tasks, server, ops, refresh, waiter, awaited>>

\* An upload that runs is aborted.
RemoveLocal(i) ==
  /\ Act /\ i \in ToSet(items) /\ i.status # "done"
  /\ items' = Without(items, Key(i))
  /\ tasks' = [k \in DOMAIN tasks |-> IF tasks[k].file = i.file /\ k \in Running
                                      THEN [tasks[k] EXCEPT !.aborted = TRUE] ELSE tasks[k]]
  /\ UNCHANGED <<added, context, scheduled, server, ops, refresh, waiter, awaited>>

\* An image that the server has leaves the list at once.
RemoveDone(i) ==
  /\ Act /\ i \in ToSet(items) /\ i.status = "done" /\ context
  /\ i \notin deletions    \* bound: one deletion of an item at a time
  /\ items' = Without(items, Key(i))
  /\ deletions' = deletions \cup {i}
  /\ UNCHANGED <<added, context, scheduled, tasks, server, orders, refresh, waiter, awaited>>

RetryItem(i) ==
  /\ Act /\ i \in ToSet(items) /\ i.status = "error"
  /\ items' = Patched(i.file, "queued")
  /\ awaited' = awaited \ {i.file}
  /\ ScheduleIfKnown
  /\ UNCHANGED <<added, context, server, ops, refresh, waiter>>

\* The dragged items come first, and the others stay in the list.
Untouched_None(s, K) == <<>>
Untouched(s, K) == Filter(s, { i \in Item : Key(i) \notin K })

ReorderItems(s) ==
  /\ Act /\ s # <<>>
  /\ items' = s \o Untouched(items, { Key(i) : i \in ToSet(s) })
  /\ orders' = IF context /\ \E i \in ToSet(items) : i.status = "done"
               THEN orders \cup {[n \in DOMAIN items |-> Key(items[n])]} ELSE orders
  /\ UNCHANGED <<added, context, scheduled, tasks, server, deletions, refresh, waiter, awaited>>

\* What a drag can produce: one of the items that are shown moves to the place of
\* another. An editor shows the finished uploads, a new product all but the errors.
Moves(s) == { InsertAt(RemoveAt(s, m), n, s[m]) : m, n \in DOMAIN s } \ {s}
Dragged  == Moves(Filter(items, { i \in Item : i.status = "done" }))
              \cup Moves(Filter(items, { i \in Item : i.status # "error" }))

--------------------------------------------------------------------------------
(* The pages: contexts, refreshes and waitForIdle.                         *)

SetGroupContext ==
  /\ ~context /\ context' = TRUE
  /\ Schedule(items)
  /\ UNCHANGED <<added, items, server, ops, refresh, waiter, awaited, bounds>>

\* The product is queried again, and answered with the images of that moment.
Query ==
  /\ Act /\ context /\ refresh = {}
  /\ refresh' = {server}
  /\ UNCHANGED <<added, items, context, scheduled, tasks, server, ops, waiter, awaited>>

\* hydrateExisting, then setGroupContext once more.
Hydrate ==
  /\ refresh # {} /\ refresh' = {}
  /\ \E S \in refresh :
       LET s == SetToSeq(S)
           persisted == [n \in DOMAIN s |-> [file |-> s[n], local |-> FALSE, status |-> "done"]]
       IN  items' = persisted \o Filter(items, { i \in Item : i.status # "done" })
  /\ Schedule(items')
  /\ UNCHANGED <<added, context, server, ops, waiter, awaited, bounds>>

WaitForIdle ==
  /\ context /\ waiter = {} /\ Act
  /\ waiter' = UNION { LastTask(f) : f \in Busy }
  /\ awaited' = Busy
  /\ UNCHANGED <<added, items, context, scheduled, tasks, server, ops, refresh>>

Resolved == \A k \in waiter : tasks[k].pc = "ended"

Resolve ==
  /\ waiter # {} /\ Resolved
  /\ waiter' = {} /\ awaited' = {}
  /\ UNCHANGED <<added, items, context, scheduled, tasks, server, ops, refresh, bounds>>

--------------------------------------------------------------------------------
(* The limiter and the answers of the server.                              *)

\* An item that was removed while it waited is not sent.
ToSend_Anyway(f) == TRUE
ToSend(f) == f \in Queued

\* finally: the file may be scheduled again.
Cleared_Not(f) == scheduled
Cleared(f) == scheduled \ {f}

Start(k) ==
  /\ tasks[k].pc = "waiting" /\ Cardinality(Running) < Concurrency
  /\ \A j \in 1..(k - 1) : tasks[j].pc # "waiting"
  /\ LET f == tasks[k].file
     IN  IF ToSend(f) THEN items' = Patched(f, "uploading") /\ tasks' = [tasks EXCEPT ![k].pc = "uploading"]
         ELSE tasks' = [tasks EXCEPT ![k].pc = "ended"] /\ UNCHANGED items
  /\ UNCHANGED <<added, context, scheduled, server, ops, refresh, waiter, awaited, bounds>>

Store(k) ==
  /\ tasks[k].pc = "uploading"
  /\ server' = server \cup {tasks[k].file}
  /\ tasks' = [tasks EXCEPT ![k].pc = "stored"]
  /\ UNCHANGED <<added, items, context, scheduled, ops, refresh, waiter, awaited, bounds>>

End(k, st) ==
  /\ items' = IF tasks[k].aborted THEN items ELSE Patched(tasks[k].file, st)
  /\ tasks' = [tasks EXCEPT ![k].pc = "ended"]
  /\ scheduled' = Cleared(tasks[k].file)
  /\ UNCHANGED <<added, context, server, ops, refresh, waiter, awaited, acts>>

Uploaded(k) == tasks[k].pc = "stored" /\ End(k, "done") /\ UNCHANGED faults

\* Aborted, refused, or the answer is lost.
Failed(k) ==
  /\ k \in Running
  /\ IF tasks[k].aborted THEN UNCHANGED faults ELSE faults < MaxFaults /\ faults' = faults + 1
  /\ End(k, "error")

Deleted(i) ==
  /\ i \in deletions /\ deletions' = deletions \ {i}
  /\ server' = server \ {i.file}
  /\ UNCHANGED <<added, items, context, scheduled, tasks, orders, refresh, waiter, awaited, bounds>>

\* The item comes back, at the end of the list.
DeleteFails(i) ==
  /\ i \in deletions /\ deletions' = deletions \ {i}
  /\ faults < MaxFaults /\ faults' = faults + 1
  /\ items' = Append(items, i)
  /\ UNCHANGED <<added, context, scheduled, tasks, server, orders, refresh, waiter, awaited, acts>>

Reordered(o) ==
  /\ o \in orders /\ orders' = orders \ {o}
  /\ UNCHANGED <<added, items, context, scheduled, tasks, server, deletions, refresh, waiter, awaited, bounds>>

\* What was listed before comes back in its old order, before the new items.
ReorderFails(o) ==
  /\ o \in orders /\ orders' = orders \ {o}
  /\ faults < MaxFaults /\ faults' = faults + 1
  /\ LET old == Filter(o, Keys)
     IN  items' = [n \in DOMAIN old |-> ItemOf(old[n])] \o Untouched(items, ToSet(o))
  /\ UNCHANGED <<added, context, scheduled, tasks, server, deletions, refresh, waiter, awaited, acts>>

--------------------------------------------------------------------------------
User ==
  \/ \E F \in SUBSET Files : AddFiles(F)
  \/ \E f \in Files : AddRejectedFile(f)
  \/ \E i \in ToSet(items) : RemoveLocal(i) \/ RemoveDone(i) \/ RetryItem(i)
  \/ \E s \in Dragged : ReorderItems(s)

Pages == SetGroupContext \/ Query \/ Hydrate \/ WaitForIdle \/ Resolve

Upload(k) == Start(k) \/ Store(k) \/ Uploaded(k) \/ Failed(k)

Next ==
  \/ User \/ Pages
  \/ \E k \in DOMAIN tasks : Upload(k)
  \/ \E i \in deletions : Deleted(i) \/ DeleteFails(i)
  \/ \E o \in orders : Reordered(o) \/ ReorderFails(o)

\* The limiter starts what it can, and a request gets an answer or an error.
UploadStep == \E k \in DOMAIN tasks : Upload(k)
Fairness   == WF_vars(UploadStep)

Spec == Init /\ [][Next]_vars /\ Fairness

--------------------------------------------------------------------------------
TypeOK ==
  /\ added \in SUBSET Files /\ items \in Seq(Item) /\ context \in BOOLEAN
  /\ scheduled \in SUBSET Files /\ tasks \in Seq(Task) /\ server \in SUBSET Files
  /\ deletions \in SUBSET Item /\ refresh \in SUBSET SUBSET Files
  /\ \A o \in orders : o \in Seq(Files \X BOOLEAN)
  /\ waiter \in SUBSET (1..Len(tasks)) /\ awaited \in SUBSET Files
  /\ acts \in Nat /\ faults \in Nat

(* When waitForIdle resolves, none of the files that were queued or uploading as *)
(* it was called still is, unless the user has retried it since: refreshes that   *)
(* schedule a file once more do not hide the task that uploads it.                *)
WaitCovers == waiter # {} /\ Resolved => awaited \cap Busy = {}

(* Only what is listed is sent: a request that runs for a file has an item of it  *)
(* in the state "uploading", or was aborted when that item was removed, be it     *)
(* that the item was removed, retried or hydrated over in any order (runUpload).  *)
SentAsListed ==
  \A k \in Running : tasks[k].aborted
    \/ \E i \in ToSet(items) : i.local /\ i.file = tasks[k].file /\ i.status = "uploading"

(* A file leaves the list only when the user removes it or a refresh no longer    *)
(* has it: an order that names some of the items, and one that is taken back,     *)
(* keep the others (reorderItems).                                                *)
ListKept ==
  [][ Listed \subseteq Listed' \/ Hydrate
      \/ \E i \in ToSet(items) : RemoveLocal(i) \/ RemoveDone(i) ]_vars

(* An upload does not hang: a file that waits or is sent for a variant with an id *)
(* ends as done, failed or removed, retries included (runUpload, scheduledRef).   *)
UploadsSettle == \A f \in Files : (f \in Busy /\ context) ~> f \notin Busy
================================================================================
