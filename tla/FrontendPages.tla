---------------------------- MODULE FrontendPages ----------------------------
(***************************************************************************)
(* What the pages of the browser read and show: the board (HomeList), the  *)
(* comments of a project (CommentList, CommentPost), its quotes            *)
(* (QuoteBox), the dialogs that send (SendIcp, SendToken, AddCycles), the  *)
(* profile (ProfileEdit), the steps of what is being paid (StepDialogs),   *)
(* and what is read again and again beside all that (ContextFeed,          *)
(* BoardCards, UserPage, ProjectPage).  They share the wallet session and  *)
(* the canisters, which stand outside, but no state of their own, so a     *)
(* behaviour exercises one of them while the others stay as they were      *)
(* first rendered.                                                         *)
(***************************************************************************)
EXTENDS HomeList, CommentList, CommentPost, QuoteBox, SendIcp, SendToken, AddCycles,
        ProfileEdit, StepDialogs, ContextFeed, BoardCards, UserPage, ProjectPage

VARIABLE part   \* the part this behaviour exercises

vars == <<homeVars, listVars, postVars, quoteVars, icpVars, tokVars, cycVars,
          profVars, stepVars, ctxVars, godVars, rowVars, coinVars, pgVars, part>>

Init ==
    /\ HomeInit /\ ListInit /\ PostInit /\ QuoteInit
    /\ SendIcpInit /\ SendTokenInit /\ AddCyclesInit
    /\ ProfileInit /\ StepInit
    /\ ContextInit /\ GodInit /\ RowsInit /\ UserPageInit /\ ProjectInit
    /\ part \in {"home", "list", "post", "quote", "icp", "token", "cycles", "profile", "steps",
                "context", "god", "rows", "coins", "project"}
    /\ part # "steps" => stepPage = "trade"
    /\ part # "context" => ctxPage = "home" /\ ctxStored = NoContext
    /\ part # "god" => god = 0
    /\ part # "coins" => coinMade = {}
    /\ part # "project" => pgKind = "balance"

\* Only the variables of part p change.
Only(p) ==
    /\ part = p
    /\ p # "home" => UNCHANGED homeVars
    /\ p # "list" => UNCHANGED listVars
    /\ p # "post" => UNCHANGED postVars
    /\ p # "quote" => UNCHANGED quoteVars
    /\ p # "icp" => UNCHANGED icpVars
    /\ p # "token" => UNCHANGED tokVars
    /\ p # "cycles" => UNCHANGED cycVars
    /\ p # "profile" => UNCHANGED profVars
    /\ p # "steps" => UNCHANGED stepVars
    /\ p # "context" => UNCHANGED ctxVars
    /\ p # "god" => UNCHANGED godVars
    /\ p # "rows" => UNCHANGED rowVars
    /\ p # "coins" => UNCHANGED coinVars
    /\ p # "project" => UNCHANGED pgVars
    /\ UNCHANGED part

Next ==
    \/ Only("home") /\ HomeNext
    \/ Only("list") /\ ListNext
    \/ Only("post") /\ PostNext
    \/ Only("quote") /\ QuoteNext
    \/ Only("icp") /\ SendIcpNext
    \/ Only("token") /\ SendTokenNext
    \/ Only("cycles") /\ AddCyclesNext
    \/ Only("profile") /\ ProfileNext
    \/ Only("steps") /\ StepNext
    \/ Only("context") /\ ContextNext
    \/ Only("god") /\ GodNext
    \/ Only("rows") /\ RowsNext
    \/ Only("coins") /\ UserPageNext
    \/ Only("project") /\ ProjectNext

Spec == Init /\ [][Next]_vars

\* The launcher answers a search, or rejects it.
LiveSpec == Spec /\ WF_homeVars(Only("home") /\ HomeAnswer)

-----------------------------------------------------------------------------
(* Properties: the invariants are those of the parts *)

\* The skeleton of the board is replaced by a list, unless a request was rejected or paging
\* through a search asked for nothing (setShowVal in pagChange and searchFomos).
SkeletonEnds == part = "home" /\ ~showVal ~> showVal \/ stuck

\* The comments shown are those of the project shown, without gaps, and a comment is sent as
\* it was when its button was clicked, but for what each of the two names
\* (getCommentsByIndex and loadData; BtnPostreply and ReqAddComment).
CommentsAgree == CommentListAgrees /\ PostsAgree

\* The dialogs that send ICP, a token or cycles send what they show, but for what "Max" shows
\* without its zeros, and let through what cannot be paid only for the reasons each of them
\* names; they send once at a time until the balance read after a transfer was rejected
\* (btnseticp of both dialogs, btnMax, btnBuyamount); the dialog of the profile saves what it
\* shows, with the same proviso (editUserInfo).
DialogsAgree == SendIcpAgrees /\ SendTokenAgrees /\ AddCyclesAgrees /\ ProfileAgrees

\* What the header, the board and the pages of a user and of a project read beside the user's
\* doing is shown as it was answered, and names and replies are blank exactly where their last
\* reading was rejected, but for the overlaps and rejections each of them names
\* (getFomContext, defaultgetFomoList, updateFomoUserNames, GertSearch_fomos,
\* search_fomosReq).
FeedsAgree == ContextAgrees /\ CardsAgree /\ UserPageAgrees /\ ProjectPageAgrees

=============================================================================
