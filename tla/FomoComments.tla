---------------------------- MODULE FomoComments ----------------------------
(***************************************************************************)
(* The comments of one project canister (fomowell-project/src/main.rs) and *)
(* the launcher they are paid at.  add_comment counts an index, has the    *)
(* launcher take 6 points (spending_points), uploads the image if there is *)
(* one, has the launcher count the reply (reply_update), and only then     *)
(* stores the comment: three awaits in two canisters.  Meanwhile the       *)
(* launcher hears of trades of the same project (set_buy_or_sell): a report *)
(* reads the project before its awaits and writes all of it back after     *)
(* them, the number of replies included.                                   *)
(*                                                                         *)
(* The account of a user is the one of PointsAccount: opened, granted and  *)
(* spent points.  The launcher serves only registered projects, and the    *)
(* canister runs before it is registered (see FomoCreation).               *)
(***************************************************************************)
EXTENDS Integers, FiniteSets

CONSTANTS
    Users,          \* the callers
    Calls,          \* slots for add_comment calls in flight
    Reports,        \* slots for set_buy_or_sell calls in flight
    None,           \* the user of an idle slot
    MaxComments,    \* bound: add_comment calls
    MaxCounts,      \* bound: calls of the public update method count
    MaxGrants,      \* bound: grants of points
    MaxReports,     \* bound: set_buy_or_sell calls
    MaxFailures     \* bound: failing uploads and failing reply_update calls

ASSUME CommentsAssumption ==
    /\ None \notin Users
    /\ MaxComments \in Nat
    /\ MaxCounts \in Nat
    /\ MaxGrants \in Nat
    /\ MaxReports \in Nat
    /\ MaxFailures \in Nat

VARIABLES
    comments,     \* COMMENTS: index -> comment
    count,        \* CounterState.count of the project canister
    call,         \* the add_comment calls in flight
    registered,   \* launcher: the project is in FOMO_PROJECT_MAP
    replies,      \* launcher: reply_count of the project
    report,       \* launcher: the set_buy_or_sell calls in flight
    points,       \* launcher: user_points of each user
    spent,        \* launcher: points taken by spending_points
    lost,         \* history: paid comments that were never stored, per user
    uncounted,    \* history: replies counted for comments that were never stored
    exposed,      \* history: replies counted while a trade was being reported
    bounds        \* [comments, counts, grants, reports, failures] so far

project  == <<comments, count>>
record   == <<registered, replies, report, exposed>>
launcher == <<record, points, spent>>
vars     == <<project, call, launcher, lost, uncounted, bounds>>

-----------------------------------------------------------------------------
(* Data *)

Price == 6          \* COMMENT and IMAGE_COMMENT cost the same
Grant == 10

Comment == [user : Users, image : BOOLEAN]

AddCall == [pc : {"idle", "spending", "spent", "refused", "upload", "reply", "replied"},
            user : Users \cup {None}, idx : Nat, image : BOOLEAN]

IdleCall == [pc |-> "idle", user |-> None, idx |-> 0, image |-> FALSE]

\* seen: the reply_count that the report read.
Report == [on : BOOLEAN, seen : Nat]

NoReport == [on |-> FALSE, seen |-> 0]

Put(f, k, v) == [x \in DOMAIN f \cup {k} |-> IF x = k THEN v ELSE f[x]]

\* A reply is counted in the record of the project.
CountReply ==
    /\ registered
    /\ replies' = replies + 1
    /\ exposed' = IF \E r \in Reports : report[r].on THEN exposed + 1 ELSE exposed
    /\ UNCHANGED <<registered, report>>

Counted(bound, max) ==
    /\ bounds[bound] < max
    /\ bounds' = [bounds EXCEPT ![bound] = @ + 1]

-----------------------------------------------------------------------------
(* add_comment *)

\* Faulty: the index is the number of comments stored.
AddCommentAtEnd(c, u, image) ==
    /\ call[c].pc = "idle"
    /\ Counted("comments", MaxComments)
    /\ call' = [call EXCEPT ![c] = [pc |-> "spending", user |-> u, image |-> image,
                                    idx |-> Cardinality(DOMAIN comments) + 1]]
    /\ UNCHANGED <<project, launcher, lost, uncounted>>

\* The first segment takes an index and calls spending_points.
AddComment(c, u, image) ==
    /\ call[c].pc = "idle"
    /\ Counted("comments", MaxComments)
    /\ count' = count + 1
    /\ call' = [call EXCEPT ![c] = [pc |-> "spending", user |-> u, image |-> image,
                                    idx |-> count + 1]]
    /\ UNCHANGED <<comments, launcher, lost, uncounted>>

\* spending_points at the launcher: the caller is a registered project and
\* the user has the points.
SpendingPoints(c) ==
    /\ call[c].pc = "spending"
    /\ registered
    /\ points[call[c].user] >= Price
    /\ points' = [points EXCEPT ![call[c].user] = @ - Price]
    /\ spent' = [spent EXCEPT ![call[c].user] = @ + Price]
    /\ call' = [call EXCEPT ![c].pc = "spent"]
    /\ UNCHANGED <<project, record, lost, uncounted, bounds>>

\* It panics, or the call is rejected.
SpendingRefused(c) ==
    /\ call[c].pc = "spending"
    /\ call' = [call EXCEPT ![c].pc = "refused"]
    /\ UNCHANGED <<project, launcher, lost, uncounted, bounds>>

\* Faulty: the refusal is ignored and the comment goes on.
RefusalIgnored(c) ==
    /\ call[c].pc = "refused"
    /\ call' = [call EXCEPT ![c].pc = IF call[c].image THEN "upload" ELSE "reply"]
    /\ UNCHANGED <<project, launcher, lost, uncounted, bounds>>

\* The refusal is returned; the index stays counted.
ReturnRefusal(c) ==
    /\ call[c].pc = "refused"
    /\ call' = [call EXCEPT ![c] = IdleCall]
    /\ UNCHANGED <<project, launcher, lost, uncounted, bounds>>

\* The points are taken: upload the image, or call reply_update at once.
PointsTaken(c) ==
    /\ call[c].pc = "spent"
    /\ call' = [call EXCEPT ![c].pc = IF call[c].image THEN "upload" ELSE "reply"]
    /\ UNCHANGED <<project, launcher, lost, uncounted, bounds>>

UploadDone(c) ==
    /\ call[c].pc = "upload"
    /\ call' = [call EXCEPT ![c].pc = "reply"]
    /\ UNCHANGED <<project, launcher, lost, uncounted, bounds>>

\* upload_file panics, or reply_update is not delivered and expect panics: the
\* points stay taken and no comment is stored.
CommentLost(c) ==
    /\ call[c].pc \in {"upload", "reply"}
    /\ Counted("failures", MaxFailures)
    /\ lost' = [lost EXCEPT ![call[c].user] = @ + 1]
    /\ call' = [call EXCEPT ![c] = IdleCall]
    /\ UNCHANGED <<project, launcher, uncounted>>

\* reply_update at the launcher; for an unregistered project it would panic.
ReplyUpdate(c) ==
    /\ call[c].pc = "reply"
    /\ CountReply
    /\ call' = [call EXCEPT ![c].pc = "replied"]
    /\ UNCHANGED <<project, points, spent, lost, uncounted, bounds>>

\* Faulty: the comment is stored under the counter, read again.
StoreAtCount(c) ==
    /\ call[c].pc = "replied"
    /\ comments' = Put(comments, count, [user |-> call[c].user, image |-> call[c].image])
    /\ call' = [call EXCEPT ![c] = IdleCall]
    /\ UNCHANGED <<count, launcher, lost, uncounted, bounds>>

\* The answer of reply_update: the comment is stored.
StoreComment(c) ==
    /\ call[c].pc = "replied"
    /\ comments' = Put(comments, call[c].idx, [user |-> call[c].user, image |-> call[c].image])
    /\ call' = [call EXCEPT ![c] = IdleCall]
    /\ UNCHANGED <<count, launcher, lost, uncounted, bounds>>

-----------------------------------------------------------------------------
(* The other handlers *)

\* count is a public update method of the project canister.
Count ==
    /\ Counted("counts", MaxCounts)
    /\ count' = count + 1
    /\ UNCHANGED <<comments, call, launcher, lost, uncounted>>

\* reply_update is a public update method of the launcher: it is answered to
\* any caller, and counts a reply without a comment.
ReplyFromElsewhere ==
    /\ Counted("counts", MaxCounts)
    /\ CountReply
    /\ uncounted' = uncounted + 1
    /\ UNCHANGED <<project, call, points, spent, lost>>

\* create_fomo's last segment.
Register ==
    /\ ~registered
    /\ registered' = TRUE
    /\ UNCHANGED <<project, call, replies, report, exposed, points, spent, lost, uncounted, bounds>>

\* set_buy_or_sell: the project is read, the swap looked up.
ReportTrade(r) ==
    /\ ~report[r].on
    /\ registered
    /\ Counted("reports", MaxReports)
    /\ report' = [report EXCEPT ![r] = [on |-> TRUE, seen |-> replies]]
    /\ UNCHANGED <<project, call, registered, replies, exposed, points, spent, lost, uncounted>>

\* After four awaits the record is written back, with the reply_count that was read.
TradeReported(r) ==
    /\ report[r].on
    /\ replies' = report[r].seen
    /\ report' = [report EXCEPT ![r] = NoReport]
    /\ UNCHANGED <<project, call, registered, exposed, points, spent, lost, uncounted, bounds>>

\* It panics: an invalid swap, an earlier timestamp, a call that fails.
ReportFails(r) ==
    /\ report[r].on
    /\ report' = [report EXCEPT ![r] = NoReport]
    /\ UNCHANGED <<project, call, registered, replies, exposed, points, spent, lost, uncounted, bounds>>

\* A top-up, a reward or an airdrop.
GrantPoints(u) ==
    /\ Counted("grants", MaxGrants)
    /\ points' = [points EXCEPT ![u] = @ + Grant]
    /\ UNCHANGED <<project, call, record, spent, lost, uncounted>>

-----------------------------------------------------------------------------
(* The specification *)

Init ==
    /\ comments = [i \in {} |-> 0]
    /\ count = 0
    /\ call = [c \in Calls |-> IdleCall]
    /\ registered = FALSE
    /\ replies = 0
    /\ report = [r \in Reports |-> NoReport]
    /\ exposed = 0
    /\ points = [u \in Users |-> 0]
    /\ spent = [u \in Users |-> 0]
    /\ lost = [u \in Users |-> 0]
    /\ uncounted = 0
    /\ bounds = [comments |-> 0, counts |-> 0, grants |-> 0,
                  reports |-> 0, failures |-> 0]

CallProgress(c) ==
    \/ SpendingPoints(c)
    \/ SpendingRefused(c)
    \/ ReturnRefusal(c)
    \/ PointsTaken(c)
    \/ UploadDone(c)
    \/ CommentLost(c)
    \/ ReplyUpdate(c)
    \/ StoreComment(c)

Next ==
    \/ \E c \in Calls : \/ CallProgress(c)
                        \/ \E u \in Users, image \in BOOLEAN : AddComment(c, u, image)
    \/ \E u \in Users : GrantPoints(u)
    \/ \E r \in Reports : ReportTrade(r) \/ TradeReported(r) \/ ReportFails(r)
    \/ Count
    \/ ReplyFromElsewhere
    \/ Register

Spec == Init /\ [][Next]_vars

\* The subnet delivers every message and every answer.
Fairness == \A c \in Calls : WF_vars(CallProgress(c))

LiveSpec == Spec /\ Fairness

-----------------------------------------------------------------------------
(* Properties *)

\* The types of the state.
TypeOK ==
    /\ \A i \in DOMAIN comments : comments[i] \in Comment
    /\ count \in Nat
    /\ call \in [Calls -> AddCall]
    /\ registered \in BOOLEAN
    /\ replies \in Nat
    /\ report \in [Reports -> Report]
    /\ exposed \in Nat
    /\ points \in [Users -> Nat]
    /\ spent \in [Users -> Nat]
    /\ lost \in [Users -> Nat]
    /\ uncounted \in Nat
    /\ bounds \in [comments : 0..MaxComments, counts : 0..MaxCounts,
                   grants : 0..MaxGrants, reports : 0..MaxReports,
                   failures : 0..MaxFailures]

InFlight(pcs) == {c \in Calls : call[c].pc \in pcs}

StoredOf(u) == {i \in DOMAIN comments : comments[i].user = u}

\* The types; and every 6 points taken pay for one comment that is stored, on its way or lost
\* to a failing call, and no comment is stored unpaid, although the points are
\* kept in another canister (add_comment, spending_points).
CommentsPaid ==
    /\ TypeOK
    /\ \A u \in Users :
        spent[u] = Price * (Cardinality(StoredOf(u)) + lost[u]
                            + Cardinality({c \in InFlight({"spent", "upload", "reply", "replied"}) :
                                               call[c].user = u}))

\* The replies that the canisters answered for: the comments stored here, those
\* whose answer is on its way and the replies counted for others.
Answered == Cardinality(DOMAIN comments) + Cardinality(InFlight({"replied"})) + uncounted

\* The launcher's reply_count never exceeds the replies answered, and what it lacks of them
\* was counted while a trade of the project was being reported: set_buy_or_sell writes back
\* the count it read before its awaits, and loses no reply but those counted meanwhile,
\* however many reports and comments overlap (add_comment, reply_update, set_buy_or_sell).
RepliesAgree == replies <= Answered /\ Answered <= replies + exposed

\* The indices of the stored comments and of the calls in flight are distinct
\* and counted (count and add_comment, with any number of calls in flight).
IndexOwned ==
    /\ DOMAIN comments \subseteq 1..count
    /\ \A c \in Calls : call[c].pc # "idle" =>
           /\ call[c].idx \in (1..count) \ DOMAIN comments
           /\ \A d \in Calls \ {c} : call[d].pc # "idle" => call[d].idx # call[c].idx

\* A stored comment is never overwritten (COMMENTS.insert).
CommentsKept ==
    [][\A i \in DOMAIN comments : i \in DOMAIN comments' /\ comments'[i] = comments[i]]_vars

\* Every comment that was paid for is stored in the end, but for those that a
\* failing upload or reply_update lost (add_comment, from the deduction to the
\* insert).
PaidIsStored ==
    \A u \in Users : \A n \in 1..MaxComments :
        spent[u] >= n * Price ~> Cardinality(StoredOf(u)) + lost[u] >= n

=============================================================================
