----------------------------- MODULE CommentList -----------------------------
(***************************************************************************)
(* The comments of a project in the browser (pages/ICPInfo/ICPInfo.tsx):   *)
(* which project the page shows, and the list of its comments, which grows *)
(* as the user scrolls.                                                    *)
(*                                                                         *)
(* The router shows all projects with one component: going from a project  *)
(* to another keeps every piece of its state.  The comments of a project   *)
(* are numbered from 0 without gaps (FomoComments) and read in pages of    *)
(* that numbering.                                                         *)
(***************************************************************************)
EXTENDS Naturals, FiniteSets

CONSTANTS
    Projects, FirstProject, NoProject,
    PageSize,      \* 15 in the code
    Reads,         \* slots for comments being read
    MaxVisits,     \* bound: projects visited
    MaxScrolls,    \* bound: times the user scrolls to the end
    MaxComments,   \* bound: comments of a project
    MaxOwn,        \* bound: comments of this user
    MaxLost        \* bound: reads and lookups that fail

ASSUME ListAssumption ==
    /\ PageSize \in Nat \ {0}
    /\ FirstProject \in Projects /\ NoProject \notin Projects
    /\ Reads \subseteq Nat
    /\ MaxVisits \in Nat \ {0} /\ {MaxScrolls, MaxComments, MaxOwn, MaxLost} \subseteq Nat

VARIABLES
    fomo_pid,   \* the project of the address
    info,       \* curFomoInfo
    lookups,    \* get_fomo_by_fomo_pid in flight
    chain,      \* the projects: how many comments they have
    list,       \* LeftFomoContentList: the project of the comment shown for a number
    page,       \* currentPage, isnull, loading
    loader,     \* what loadData captured when currentPage changed last
    reading,    \* get_comments_by_index in flight
    past,       \* history: why the list may be wrong
    visits, scrolls, own, lost

listVars == <<fomo_pid, info, lookups, chain, list, page, loader, reading, past,
              visits, scrolls, own, lost>>

Read == [project : Projects \cup {NoProject}, start : Nat, next : BOOLEAN]

NoRead == [project |-> NoProject, start |-> 0, next |-> FALSE]

ListTypes ==
    /\ fomo_pid \in Projects /\ info \in Projects \cup {NoProject}
    /\ lookups \subseteq Projects \X (0..MaxVisits)
    /\ chain \in [Projects -> 0..MaxComments]
    /\ DOMAIN list \subseteq Nat /\ \A i \in DOMAIN list : list[i] \in Projects
    /\ page \in [current : Nat \ {0}, more : BOOLEAN, loading : BOOLEAN]
    /\ loader \in [project : Projects \cup {NoProject}, page : Nat \ {0},
                   more : BOOLEAN, none : BOOLEAN]
    /\ reading \in [Reads -> Read]
    /\ past \in [moved : BOOLEAN, partial : BOOLEAN, twice : BOOLEAN]

\* The first render looks the project up twice, in the effects on [] and on fomo_pid.
ListInit ==
    /\ fomo_pid = FirstProject
    /\ info = NoProject
    /\ lookups = {<<fomo_pid, 0>>, <<fomo_pid, 1>>}
    /\ chain = [p \in Projects |-> 0]
    /\ list = [i \in {} |-> NoProject]
    /\ page = [current |-> 1, more |-> TRUE, loading |-> TRUE]
    /\ loader = [project |-> NoProject, page |-> 1, more |-> TRUE, none |-> TRUE]
    /\ reading = [r \in Reads |-> NoRead]
    /\ past = [moved |-> FALSE, partial |-> FALSE, twice |-> FALSE]
    /\ visits = 1 /\ scrolls = 0 /\ own = 0 /\ lost = 0

-----------------------------------------------------------------------------
(* The project shown *)

Loses == lost < MaxLost /\ lost' = lost + 1

\* Another project is opened, from the header for instance.
OpenProject(p) ==
    /\ p # fomo_pid /\ visits < MaxVisits
    /\ visits' = visits + 1
    /\ fomo_pid' = p
    /\ lookups' = lookups \cup {<<p, visits + 1>>}
    /\ page' = [page EXCEPT !.loading = TRUE]
    /\ past' = [past EXCEPT !.moved = TRUE]
    /\ UNCHANGED <<info, chain, list, loader, reading, scrolls, own, lost>>

\* getCommentsByIndex of project p; next: it turns the page when it is answered.
GetCommentsByIndex(p, start, next) ==
    \E r \in Reads :
        /\ reading[r].project = NoProject
        /\ \A s \in Reads : s < r => reading[s].project # NoProject
        /\ reading' = [reading EXCEPT ![r] = [project |-> p, start |-> start, next |-> next]]

\* search_fomosReq is answered: whichever project it was for is shown from then on, and the
\* effect on curFomoInfo reads its first comments.
LookupAnswered(l) ==
    /\ l \in lookups
    /\ lookups' = lookups \ {l}
    /\ info' = l[1]
    /\ GetCommentsByIndex(l[1], 0, FALSE)
    /\ page' = [page EXCEPT !.loading = TRUE]
    /\ UNCHANGED <<fomo_pid, chain, list, loader, past, visits, scrolls, own, lost>>

LookupRejected(l) ==
    /\ l \in lookups
    /\ Loses
    /\ lookups' = lookups \ {l}
    /\ UNCHANGED <<fomo_pid, info, chain, list, page, loader, reading, past,
                   visits, scrolls, own>>

-----------------------------------------------------------------------------
(* Reading comments *)

\* setCurrentPage: loadData is made anew, with what the page knows now.
TurnPage(more, none) ==
    /\ page' = [current |-> page.current + 1, more |-> more, loading |-> FALSE]
    /\ loader' = [project |-> info, page |-> page.current + 1, more |-> more, none |-> none]

\* Faulty: a page begins with the comment after its start.
FoundAfter(rd) == {i \in (rd.start + 1)..(rd.start + PageSize) : i < chain[rd.project]}

\* The numbers of the comments a read is answered with.
Found(rd) == {i \in rd.start..(rd.start + PageSize - 1) : i < chain[rd.project]}

\* Comments whose number is not in the list yet are added.
Merged(rd) == [i \in DOMAIN list \cup Found(rd) |->
                  IF i \in DOMAIN list THEN list[i] ELSE rd.project]

\* An empty page ends the reading for good (setisnull).
ReadAnswered(r) ==
    LET rd   == reading[r]
        more == page.more /\ Found(rd) # {}
    IN  /\ rd.project # NoProject
        /\ reading' = [reading EXCEPT ![r] = NoRead]
        /\ list' = Merged(rd)
        /\ IF rd.next THEN TurnPage(more, DOMAIN list' = {})
           ELSE page' = [page EXCEPT !.more = more, !.loading = FALSE] /\ UNCHANGED loader
        /\ past' = [past EXCEPT !.partial = @ \/ Cardinality(Found(rd)) \in 1..(PageSize - 1)]
        /\ UNCHANGED <<fomo_pid, info, lookups, chain, visits, scrolls, own, lost>>

\* Nobody catches a rejected read: the page goes on loading.
ReadRejected(r) ==
    /\ reading[r].project # NoProject
    /\ Loses
    /\ reading' = [reading EXCEPT ![r] = NoRead]
    /\ past' = [past EXCEPT !.partial = TRUE]
    /\ UNCHANGED <<fomo_pid, info, lookups, chain, list, page, loader,
                   visits, scrolls, own>>

\* handleScroll and loadData, with what loadData captured.  The first one knows no project
\* and only turns the page.
Scroll ==
    /\ scrolls < MaxScrolls
    /\ scrolls' = scrolls + 1
    /\ ~page.loading /\ DOMAIN list # {}
    /\ loader.page = 1 => loader.none
    /\ loader.more
    /\ past' = [past EXCEPT !.twice = @ \/ \E r \in Reads : reading[r].next]
    /\ IF loader.project = NoProject
       THEN TurnPage(page.more, DOMAIN list = {}) /\ UNCHANGED reading
       ELSE /\ GetCommentsByIndex(loader.project, PageSize * (loader.page - 1), TRUE)
            /\ page' = [page EXCEPT !.loading = TRUE]
            /\ UNCHANGED loader
    /\ UNCHANGED <<fomo_pid, info, lookups, chain, list, visits, own, lost>>

\* Somebody else comments.
OthersComment(p) ==
    /\ chain[p] < MaxComments
    /\ chain' = [chain EXCEPT ![p] = @ + 1]
    /\ UNCHANGED <<fomo_pid, info, lookups, list, page, loader, reading, past,
                   visits, scrolls, own, lost>>

\* A comment of this user is stored, and the first page is read again (ReqAddComment).
OwnComment ==
    /\ own < MaxOwn
    /\ own' = own + 1
    /\ info # NoProject /\ chain[info] < MaxComments
    /\ chain' = [chain EXCEPT ![info] = @ + 1]
    /\ GetCommentsByIndex(info, 0, FALSE)
    /\ page' = [page EXCEPT !.loading = TRUE]
    /\ UNCHANGED <<fomo_pid, info, lookups, list, loader, past, visits, scrolls, lost>>

-----------------------------------------------------------------------------
ListNext ==
    \/ \E p \in Projects : OpenProject(p) \/ OthersComment(p)
    \/ \E l \in lookups : LookupAnswered(l) \/ LookupRejected(l)
    \/ \E r \in Reads : ReadAnswered(r) \/ ReadRejected(r)
    \/ Scroll \/ OwnComment

-----------------------------------------------------------------------------
(* Properties *)

\* Unless the user came from another project, the comments shown are those of the project
\* shown; and none is left out between two of them, unless a page was read before it was
\* full, or not at all, or was asked for twice: the answer to another read ends the loading,
\* and the next scroll asks again for the page under way (getCommentsByIndex, loadData and
\* the effects on curFomoInfo).
CommentListAgrees ==
    /\ ListTypes
    /\ ~past.moved =>
           /\ \A i \in DOMAIN list : list[i] = info
           /\ past.partial \/ past.twice \/ \A i \in DOMAIN list : 0..i \subseteq DOMAIN list

=============================================================================
