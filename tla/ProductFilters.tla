---------------------------- MODULE ProductFilters ----------------------------
(***************************************************************************)
(* The filters of the product list (useProductFilters, ProductListPage):   *)
(* the text that is typed, which reaches the URL 500 ms later, the         *)
(* selectors and the pages, which write the URL at once, the URL, which    *)
(* Back, Forward and links change as well, and the list of the products.   *)
(*                                                                         *)
(* React Router renders a new URL in a transition: until then the handlers *)
(* are those of the last render, and build on the URL that it has seen.    *)
(***************************************************************************)
EXTENDS Integers

CONSTANTS
  Texts, Categories,      \* texts, and category names, a user may enter
  Known,                  \* the categories that there are
  MaxPage, MaxActs        \* bounds: pages, and acts of the user

NoText   == ""
All      == "all"
Statuses == {All, "draft"}
URL      == [q : Texts \cup {NoText}, status : Statuses, category : Categories \cup {All}, page : 1..MaxPage]
Default  == [q |-> NoText, status |-> All, category |-> All, page |-> 1]

VARIABLES
  url, seen,  \* the URL, and the one that the page was last rendered with
  search,     \* the text in the input
  timer,      \* the text that waits for the debounce, if any
  tree,       \* the categories: still loading, there, or failed to load
  asked,      \* queries under way
  answered,   \* queries whose answers are in the cache
  list,       \* the query whose answer the table shows, if any
  failed,     \* the request of what the page shows has failed
  overtaken,  \* history: a URL was built on one that another had replaced already
  acts

requests == <<asked, answered, list, failed>>
vars == <<url, seen, search, timer, tree, requests, overtaken, acts>>

Init ==
  /\ url \in [q : Texts \cup {NoText}, status : {All}, category : Categories \cup {All}, page : {1}]
  /\ seen = url /\ search = url.q /\ timer = {} /\ tree = "loading"
  /\ asked = {} /\ answered = {} /\ list = {} /\ failed = FALSE /\ overtaken = FALSE /\ acts = 0

--------------------------------------------------------------------------------
\* queryParams: a name that is no category's filters nothing, and no name does when
\* the categories have failed to load.
Offered == IF tree = "there" THEN Known ELSE {}
Query(u) == [u EXCEPT !.category = IF @ \in Offered THEN @ ELSE All]

\* Nothing is asked for a category while the categories are loading.
Skipped(u) == u.category # All /\ tree = "loading"

Act == acts < MaxActs /\ acts' = acts + 1

\* setSearchParams: the next URL from the one that the last render has seen.
Navigate(u) == url' = u /\ overtaken' = (overtaken \/ url # seen)

ListUnchanged == UNCHANGED <<seen, tree, requests>>

SetSearch(text) ==
  /\ Act /\ text # search /\ search' = text /\ timer' = {text}
  /\ ListUnchanged /\ UNCHANGED <<url, overtaken>>

Fire ==
  /\ \E text \in timer : Navigate([seen EXCEPT !.q = text, !.page = 1])
  /\ timer' = {} /\ ListUnchanged /\ UNCHANGED <<search, acts>>

\* A selector, the buttons of the pages, or Back, Forward and links.
Chosen == { [seen EXCEPT !.status = s, !.page = 1]   : s \in Statuses \ {seen.status} }
     \cup { [seen EXCEPT !.category = c, !.page = 1] : c \in (Offered \cup {All}) \ {seen.category} }
Turned == { [seen EXCEPT !.page = n] : n \in {seen.page - 1, seen.page + 1} \cap 1..MaxPage }
Linked == { [q |-> x, status |-> s, category |-> All, page |-> 1] : x \in Texts \cup {NoText}, s \in Statuses }

Browse ==
  /\ Act /\ \E u \in Chosen \cup Turned \cup Linked : Navigate(u)
  /\ ListUnchanged /\ UNCHANGED <<search, timer>>

ResetFilters ==
  /\ Act /\ timer' = {} /\ search' = NoText /\ url' = Default
  /\ ListUnchanged /\ UNCHANGED overtaken

\* A render with another text in the URL takes it over and drops what waits.
Synced_Kept(u) == search
Synced(u) == IF u.q # seen.q THEN u.q ELSE search

Shown(u) == IF ~Skipped(u) /\ Query(u) \in answered THEN {Query(u)} ELSE list

\* The request is another one when the query is.
Render ==
  /\ url # seen /\ seen' = url
  /\ search' = Synced(url) /\ timer' = IF url.q # seen.q THEN {} ELSE timer
  /\ list' = Shown(url) /\ failed' = (failed /\ ~Skipped(url) /\ Query(url) = Query(seen))
  /\ UNCHANGED <<url, tree, asked, answered, overtaken, acts>>

Awaited(a) == ~Skipped(seen) /\ a = Query(seen)

\* useGetProductsQuery asks for what is neither there nor under way. What has failed
\* it asks for again when the query changes to it.
Ask ==
  /\ ~Skipped(seen) /\ ~failed /\ Query(seen) \notin asked \cup answered
  /\ asked' = asked \cup {Query(seen)}
  /\ UNCHANGED <<url, seen, search, timer, tree, answered, list, failed, overtaken, acts>>

\* The answers come in any order.
Answer(a) ==
  /\ a \in asked /\ asked' = asked \ {a} /\ answered' = answered \cup {a}
  /\ list' = IF Awaited(a) THEN {a} ELSE list
  /\ UNCHANGED <<url, seen, search, timer, tree, failed, overtaken, acts>>

\* A request fails. The page does not look at isError, and data is still that of the
\* last query that was answered: the old list stays under the new filters.
Refuse(a) ==
  /\ a \in asked /\ asked' = asked \ {a}
  /\ failed' = (failed \/ Awaited(a))
  /\ UNCHANGED <<url, seen, search, timer, tree, answered, list, overtaken, acts>>

CategoriesSettled(how) ==
  /\ tree = "loading" /\ tree' = how
  /\ UNCHANGED <<url, seen, search, timer, asked, answered, failed, overtaken, acts>>
  /\ list' = LET q == Query(seen)' IN IF q \in answered THEN {q} ELSE list

User   == ResetFilters \/ Browse \/ \E text \in Texts \cup {NoText} : SetSearch(text)
Client ==
  \/ Fire \/ Render \/ Ask \/ CategoriesSettled("there") \/ CategoriesSettled("failed")
  \/ \E a \in asked : Answer(a) \/ Refuse(a)
Next   == User \/ Client

Spec == Init /\ [][Next]_vars /\ WF_vars(Client)

--------------------------------------------------------------------------------
TypeOK ==
  /\ url \in URL /\ seen \in URL /\ search \in Texts \cup {NoText}
  /\ timer \in SUBSET (Texts \cup {NoText}) /\ tree \in {"loading", "there", "failed"}
  /\ failed \in BOOLEAN /\ overtaken \in BOOLEAN
  /\ asked \in SUBSET URL /\ answered \in SUBSET URL /\ list \in SUBSET URL /\ acts \in Nat

(* Once the user stops, the input, the selectors and the page number come to say  *)
(* what is asked for, and the list to be the answer to it, whichever of typing,   *)
(* the debounce, Back and Forward, late answers and the categories came first.    *)
(* Excused are a list whose own request has failed, which the page leaves as it   *)
(* was, and a URL that was built on one that another had replaced and that was    *)
(* not rendered yet.                                                              *)
FiltersAgree ==
  <>[](overtaken \/ (/\ url = seen /\ timer = {}
                     /\ Query([seen EXCEPT !.q = search]) = Query(seen)
                     /\ failed \/ list = {Query(seen)}))
================================================================================
