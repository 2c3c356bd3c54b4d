------------------------------- MODULE HomeList -------------------------------
(***************************************************************************)
(* The list of projects on the board (pages/Home/Home.tsx): sorting,       *)
(* searching and paging.  Every request is answered in its own time and    *)
(* the answer overwrites the list; nothing is cancelled.                   *)
(*                                                                         *)
(* A page is counted from 0 in a request (start / 6) and from 1 in the     *)
(* pager (currentPage).  The selects are rendered once (React.memo with a  *)
(* comparison that is always true), so their handlers are those of the     *)
(* first render and spread the parameters of that render.                  *)
(***************************************************************************)
EXTENDS Naturals, Sequences, SequencesExt

CONSTANTS
    Sorts, Orders,            \* SortMenu, OrderMenu
    FirstSort, FirstOrder,    \* BumpOrder, DESC
    Texts, NoText,            \* what is typed into the search box; the empty text
    ListPages,                \* pages of results a text has
    MaxInputs,                \* bound: inputs of the user
    MaxPending,               \* bound: requests in flight
    MaxRejects                \* bound: requests rejected

ASSUME HomeAssumption ==
    /\ FirstSort \in Sorts /\ FirstOrder \in Orders /\ NoText \in Texts
    /\ ListPages \in Nat
    /\ {MaxInputs, MaxPending, MaxRejects} \subseteq Nat

VARIABLES
    sel,       \* SortVal and OrderVal
    typed,     \* searchInputVal
    params,    \* searchFomosParams
    current,   \* currentPage
    asked,     \* requests in flight, in the order they were sent
    listed,    \* fomoList: the request it answers
    showVal,   \* whether the list is shown, and not its skeleton
    stuck,     \* history: why the skeleton may stay
    inputs, rejects

homeVars == <<sel, typed, params, current, asked, listed, showVal, stuck, inputs, rejects>>

Query == [sort : Sorts, order : Orders, text : Texts, start : Nat]

FirstQuery == [sort |-> FirstSort, order |-> FirstOrder, text |-> NoText, start |-> 0]

\* What searchFomos was called for; met: the user or another answer came in between.
Request(kind, q) == [kind |-> kind, q |-> q, met |-> FALSE]

Requests == [kind : {"default", "start", "search", "page"}, q : Query, met : BOOLEAN]

HomeTypes ==
    /\ sel \in [sort : Sorts, order : Orders]
    /\ typed \in Texts
    /\ params \in Query
    /\ current \in Nat \ {0}
    /\ asked \in Seq(Requests)
    /\ listed \in Requests
    /\ showVal \in BOOLEAN /\ stuck \in BOOLEAN
    /\ inputs \in 0..MaxInputs /\ rejects \in 0..MaxRejects

\* The list before the first answer is empty, as a page past the last is.
NoList == Request("default", [FirstQuery EXCEPT !.start = ListPages])

\* The effects of the first render and defaultgetFomoList ask for the same page.
HomeInit ==
    /\ sel = [sort |-> FirstSort, order |-> FirstOrder]
    /\ typed = NoText
    /\ params = FirstQuery
    /\ current = 1
    /\ asked = <<Request("start", FirstQuery), Request("search", FirstQuery),
                 Request("default", FirstQuery)>>
    /\ listed = NoList
    /\ showVal = FALSE
    /\ stuck = FALSE
    /\ inputs = 0 /\ rejects = 0

-----------------------------------------------------------------------------
Input ==
    /\ inputs < MaxInputs
    /\ Len(asked) <= MaxPending
    /\ inputs' = inputs + 1
    /\ UNCHANGED rejects

\* searchFomos asks with the sort, order and text of the page, but the start of params.
SearchQuery(s, p) == [sort |-> s.sort, order |-> s.order, text |-> typed, start |-> p.start]

\* A select sets the parameters of the first render with its own value.  The effect on
\* SortVal and OrderVal searches; the effect on start does as well if start went back.
Select(s, p) ==
    /\ sel' = s
    /\ params' = p
    /\ asked' = asked \o (IF p.start # params.start
                          THEN <<Request("start", SearchQuery(s, p))>> ELSE <<>>)
                      \o <<Request("search", SearchQuery(s, p))>>
    /\ UNCHANGED <<typed, current, listed, showVal, stuck>>

HandleSortMenuChange(v) ==
    /\ Input
    /\ v # sel.sort
    /\ Select([sel EXCEPT !.sort = v], [FirstQuery EXCEPT !.sort = v])

HandleOrderMenuChange(v) ==
    /\ Input
    /\ v # sel.order
    /\ Select([sel EXCEPT !.order = v], [FirstQuery EXCEPT !.order = v])

\* Text is typed; nothing is asked before the button is clicked.
TypeText(t) ==
    /\ Input
    /\ t # typed
    /\ typed' = t
    /\ params' = [params EXCEPT !.text = t]
    /\ asked' = [i \in DOMAIN asked |-> [asked[i] EXCEPT !.met = TRUE]]
    /\ listed' = [listed EXCEPT !.met = TRUE]
    /\ UNCHANGED <<sel, current, showVal, stuck>>

BtnSearch ==
    /\ Input
    /\ asked' = Append(asked, Request("search", SearchQuery(sel, params)))
    /\ UNCHANGED <<sel, typed, params, current, listed, showVal, stuck>>

\* Without a text the page is asked for; with one, start is set and its effect asks, which
\* it does not when start was that already.
PagChange(page) ==
    /\ showVal' = FALSE
    /\ current' = page
    /\ IF typed = NoText
       THEN /\ asked' = Append(asked, Request("page", [params EXCEPT !.start = page - 1]))
            /\ UNCHANGED <<params, listed, stuck>>
       ELSE /\ params' = [params EXCEPT !.start = page - 1, !.text = typed]
            /\ IF params.start # page - 1
               THEN /\ asked' = Append(asked, Request("start", SearchQuery(sel, params')))
                    /\ UNCHANGED <<listed, stuck>>
               ELSE /\ listed' = [listed EXCEPT !.met = TRUE]
                    /\ asked' = [i \in DOMAIN asked |-> [asked[i] EXCEPT !.met = TRUE]]
                    /\ stuck' = TRUE
    /\ UNCHANGED <<sel, typed>>

HandlePrevPage ==
    /\ Input
    /\ current > 1
    /\ PagChange(current - 1)

\* There is a next page unless the list is empty.
HandleNextPage ==
    /\ Input
    /\ listed.q.start < ListPages
    /\ PagChange(current + 1)

-----------------------------------------------------------------------------
\* The requests left after the i-th: those sent before it are late, and a search that goes
\* to page 1 crosses the later ones.
Left(i, crosses) ==
    LET marked == [j \in DOMAIN asked |->
                      IF j < i \/ crosses THEN [asked[j] EXCEPT !.met = TRUE] ELSE asked[j]]
    IN  RemoveAt(marked, i)

\* Faulty: a search stays on the page the pager is at.
SearchAnsweredInPlace(i) ==
    /\ listed' = asked[i]
    /\ asked' = Left(i, asked[i].kind = "search")
    /\ showVal' = TRUE
    /\ stuck' = FALSE
    /\ UNCHANGED <<sel, typed, params, current, inputs, rejects>>

\* Faulty: an empty answer gives a message and leaves the skeleton.
SearchAnsweredUnshown(i) ==
    /\ listed' = asked[i]
    /\ asked' = Left(i, asked[i].kind = "search")
    /\ current' = IF asked[i].kind = "search" THEN 1 ELSE current
    /\ showVal' = (showVal \/ asked[i].q.start < ListPages)
    /\ stuck' = FALSE
    /\ UNCHANGED <<sel, typed, params, inputs, rejects>>

\* search_fomos answers.
SearchAnswered(i) ==
    /\ listed' = asked[i]
    /\ asked' = Left(i, asked[i].kind = "search")
    /\ current' = IF asked[i].kind = "search" THEN 1 ELSE current
    /\ showVal' = TRUE
    /\ stuck' = FALSE
    /\ UNCHANGED <<sel, typed, params, inputs, rejects>>

\* Nobody catches a rejected search: the list and the skeleton stay.
SearchRejected(i) ==
    /\ rejects < MaxRejects
    /\ rejects' = rejects + 1
    /\ asked' = Left(i, FALSE)
    /\ listed' = [listed EXCEPT !.met = TRUE]
    /\ stuck' = TRUE
    /\ UNCHANGED <<sel, typed, params, current, showVal, inputs>>

HomeAnswer == \E i \in DOMAIN asked : SearchAnswered(i) \/ SearchRejected(i)

HomeNext ==
    \/ \E v \in Sorts : HandleSortMenuChange(v)
    \/ \E v \in Orders : HandleOrderMenuChange(v)
    \/ \E t \in Texts : TypeText(t)
    \/ BtnSearch \/ HandlePrevPage \/ HandleNextPage
    \/ HomeAnswer

-----------------------------------------------------------------------------
(* Properties *)

\* When everything is answered, the list is the page, sort, order and text the board shows,
\* with these exceptions: the user or another answer came between the request and its
\* answer, or a request was rejected; a search was started with the start of an earlier
\* page (searchFomos); the pager asked with parameters a select had reset (handleSort- and
\* handleOrderMenuChange).
ListAgrees ==
    /\ HomeTypes
    /\ asked = <<>> =>
           \/ listed.q = [sort |-> sel.sort, order |-> sel.order, text |-> typed,
                          start |-> current - 1]
           \/ listed.met
           \/ listed.kind = "search" /\ listed.q.start # 0
           \/ listed.kind = "page" /\ <<listed.q.sort, listed.q.order>> # <<sel.sort, sel.order>>

=============================================================================
