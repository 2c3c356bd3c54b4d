------------------------------ MODULE PaidFlows ------------------------------
(***************************************************************************)
(* What a user pays the launcher for in the browser: creating a project    *)
(* (pages/SetCoin/SetCoin.tsx), topping points up                          *)
(* (layout/home/buyToken/index.tsx) and giving the ownership of a token    *)
(* away (pages/ICPInfo/ICPInfo.tsx).  Each flow approves the launcher on   *)
(* the ICP ledger for what the page thinks is enough, and then calls it;   *)
(* the flows are independent of each other but share one allowance, which  *)
(* every icrc2_approve replaces.                                           *)
(*                                                                         *)
(* Amounts are in e8s and a price is what a tenth of a dollar costs in     *)
(* them.  The launcher charges by the oracle's price, the pages approve by *)
(* the price they got from Binance or Coinbase.  What the user owns is     *)
(* always enough; OwnershipTransfer and LauncherPoints have the balance,   *)
(* and the awaits between the quote and the charge, which are one step     *)
(* here: only flows that met another could tell.                           *)
(***************************************************************************)
EXTENDS LauncherFee, FiniteSets

CONSTANTS
    Prices,       \* prices of a tenth of a dollar; an ICP costs less than 373 dollars
    Default,      \* the price the pages begin with
    Shares,       \* the locked shares a user types; 0 stands for an empty input
    Points,       \* the points a user tops up
    Fractions,    \* those that are no integers
    MaxFlows,     \* bound: flows of a run
    MaxEdits,     \* bound: changes of the form, while a flow may still start
    MaxLogins,    \* bound: times somebody logs in or disconnects
    MaxTicks,     \* bound: changes of each price
    MaxFailures,  \* bound: calls that fail
    MaxCloses     \* bound: times the user closes a progress box

ASSUME PaidAssumption ==
    /\ Prices \subseteq Nat /\ Default \in Prices
    /\ \A p \in Prices : p >= 26800
    /\ Shares \subseteq Nat /\ {0, 10} \subseteq Shares
    /\ Points \subseteq Nat /\ Fractions \subseteq Points
    /\ {MaxFlows, MaxEdits, MaxLogins, MaxTicks, MaxFailures, MaxCloses} \subseteq Nat

VARIABLES
    user,       \* whether somebody is connected
    form,       \* SetCoin: lockeChecked, lockedVal and FomoParms.sneed_dao_lock; it is filled in
    photos,     \* pictures being read, with the lock of the render they were chosen in
    box,        \* openRightBox of SetCoin: the button loads
    topping,    \* openbuyLoding
    owning,     \* ownershipLoding
    flow,       \* the flows
    dollar,     \* tokenStore.dollar2ICP
    oracle,     \* the price the launcher reads
    allowance,  \* the ledger: what the launcher may take, and whose approval that was
    hist,       \* history: what may excuse the properties
    bounds

page == <<user, form, photos>>
busy == <<box, topping, owning>>
market == <<dollar, oracle>>
vars == <<page, busy, flow, market, allowance, hist, bounds>>

Flows == 1..MaxFlows

Kinds == {"create", "topup", "owner"}

\* FomoParms.sneed_dao_lock: 0 for none.
Lock == Shares

Flow == [kind : Kinds,
         pc : {"idle", "waiting", "approve", "upload", "call", "paid", "refused", "profile",
               "over"},
         lock : Lock, wanted : Lock,    \* what is sent, and what the form showed
         points : Points \cup {0},
         rate : Prices,                 \* dollar2ICP when the approval was computed
         charged : {"no", "own", "other"}, alone : BOOLEAN,
         drift : BOOLEAN, skipped : BOOLEAN]

NoFlow == [kind |-> "create", pc |-> "idle", lock |-> 0, wanted |-> 0, points |-> 0,
           rate |-> Default, charged |-> "no", alone |-> TRUE, drift |-> FALSE, skipped |-> FALSE]

\* Nothing of a flow that ended is used again.
Over == [NoFlow EXCEPT !.pc = "over"]

Types ==
    /\ user \in BOOLEAN
    /\ form \in [checked : BOOLEAN, val : Shares, lock : Lock]
    /\ photos \subseteq Lock
    /\ <<box, topping, owning>> \in BOOLEAN \X BOOLEAN \X BOOLEAN
    /\ flow \in [Flows -> Flow]
    /\ dollar \in Prices /\ oracle \in Prices
    /\ allowance \in [amount : Nat, by : Flows \cup {0}]
    /\ hist \in [reverted : BOOLEAN, orphan : BOOLEAN, silent : SUBSET Kinds]
    /\ bounds \in [edits : 0..MaxEdits, logins : 0..MaxLogins, ticks : 0..MaxTicks, failures : 0..MaxFailures,
                   closes : 0..MaxCloses]

Init ==
    /\ user \in BOOLEAN
    /\ form = [checked |-> FALSE, val |-> 10, lock |-> 0]
    /\ photos = {}
    /\ box = FALSE /\ topping = FALSE /\ owning = FALSE
    /\ flow = [f \in Flows |-> NoFlow]
    /\ dollar = Default /\ oracle = Default
    /\ allowance = [amount |-> 0, by |-> 0]
    /\ hist = [reverted |-> FALSE, orphan |-> FALSE, silent |-> {}]
    /\ bounds = [edits |-> 0, logins |-> 0, ticks |-> 0, failures |-> 0, closes |-> 0]

-----------------------------------------------------------------------------
(* Amounts *)

\* Faulty: the price of a project is approved without a margin.
ApproveOfBare(kind, points, rate) ==
    CASE kind = "create" -> 60 * rate
      [] kind = "topup"  -> 13 * points * rate
      [] kind = "owner"  -> 26 * rate

\* What the page approves: 1.3 times 6 and 2 dollars; for points 1.3 dollars each, which
\* is ten times what they cost.
ApproveOf(kind, points, rate) ==
    CASE kind = "create" -> 78 * rate
      [] kind = "topup"  -> 13 * points * rate
      [] kind = "owner"  -> 26 * rate

\* What get_icp_platform_fee computes for 6 and 2 dollars, and for a tenth of a dollar a point.
FeeOf(kind, points) ==
    CASE kind = "create" -> 60 * oracle + 10000
      [] kind = "topup"  -> points * oracle + 10000
      [] kind = "owner"  -> 20 * oracle + 10000

\* A new price from Binance or Coinbase; a new price of the oracle.
PriceArrives ==
    /\ bounds.ticks < MaxTicks
    /\ \E f \in Flows : flow[f].pc # "over"
    /\ bounds' = [bounds EXCEPT !.ticks = @ + 1]
    /\ \/ dollar' \in Prices \ {dollar} /\ UNCHANGED oracle
       \/ oracle' \in Prices \ {oracle} /\ UNCHANGED dollar
    /\ UNCHANGED <<page, busy, flow, allowance, hist>>

-----------------------------------------------------------------------------
(* The form of a project *)

Edit ==
    /\ bounds.edits < MaxEdits
    /\ \E f \in Flows : flow[f].pc = "idle"
    /\ bounds' = [bounds EXCEPT !.edits = @ + 1]
    /\ UNCHANGED <<user, busy, flow, market, allowance>>

CheckboxChange ==
    /\ Edit
    /\ form' = [form EXCEPT !.checked = ~@, !.lock = IF form.checked THEN 0 ELSE form.val]
    /\ UNCHANGED <<photos, hist>>

\* Faulty: a changed share is only shown.
ChangeLockedValShown(v) ==
    /\ Edit
    /\ form' = [form EXCEPT !.val = v]
    /\ UNCHANGED <<photos, hist>>

ChangeLockedVal(v) ==
    /\ Edit
    /\ form' = [form EXCEPT !.val = v, !.lock = IF form.checked THEN v ELSE 0]
    /\ UNCHANGED <<photos, hist>>

\* BtnUpPhoto: a picture is chosen, and read later by a closure of this render.
BtnUpPhoto ==
    /\ Edit
    /\ photos' = photos \cup {form.lock}
    /\ UNCHANGED <<form, hist>>

\* The picture is read: the parameters of that render come back with it.
PhotoLoads(l) ==
    /\ l \in photos
    /\ photos' = photos \ {l}
    /\ form' = [form EXCEPT !.lock = l]
    /\ hist' = [hist EXCEPT !.reverted = @ \/ l # form.lock]
    /\ UNCHANGED <<user, busy, flow, market, allowance, bounds>>

-----------------------------------------------------------------------------
(* Flows *)

Fail == bounds.failures < MaxFailures /\ bounds' = [bounds EXCEPT !.failures = @ + 1]

Active(f) == flow[f].pc \in {"approve", "upload", "call"}

\* The next flow of the run.
Fresh(f) == flow[f].pc = "idle" /\ \A g \in 1..(f - 1) : flow[g].pc # "idle"

\* Flow f starts to approve: the price is read now.  From here to the launcher's answer it
\* may meet others.
Start(f, rec) ==
    LET others == {g \in Flows \ {f} : Active(g)}
    IN  flow' = [g \in Flows |->
            IF g = f THEN [rec EXCEPT !.pc = "approve", !.alone = (others = {}), !.rate = dollar]
            ELSE IF g \in others THEN [flow[g] EXCEPT !.alone = FALSE] ELSE flow[g]]

\* The share a checked form must show.
InRange == form.val >= 10 /\ form.val <= 50

\* What a click on the form sends: the lock only if it is checked.
Clicked == [NoFlow EXCEPT !.lock   = IF form.checked THEN form.lock ELSE 0,
                          !.wanted = IF form.checked THEN form.val ELSE 0]

\* btnFomo.  Without a user the wallet dialog opens and an interval waits for one; the
\* button does not load meanwhile.
BtnFomo(f) ==
    /\ ~box /\ Fresh(f)
    /\ form.checked => InRange
    /\ IF user THEN Start(f, Clicked) /\ box' = TRUE
       ELSE flow' = [flow EXCEPT ![f] = [Clicked EXCEPT !.pc = "waiting"]] /\ UNCHANGED box
    /\ form' = [form EXCEPT !.lock = IF form.checked THEN @ ELSE 0]
    /\ UNCHANGED <<user, photos, topping, owning, market, allowance, hist, bounds>>

\* The interval finds a user: stepApprove of the render of the click.
IntervalUser(f) ==
    /\ flow[f].pc = "waiting"
    /\ user
    /\ Start(f, flow[f])
    /\ box' = TRUE
    /\ UNCHANGED <<page, topping, owning, market, allowance, hist, bounds>>

\* btnBuyToken; the button loads before anybody looks whether there is a user.
BtnBuyToken(f, n) ==
    /\ ~topping /\ Fresh(f)
    /\ n >= 10
    /\ topping' = TRUE
    /\ IF user
       THEN Start(f, [NoFlow EXCEPT !.kind = "topup", !.points = n]) /\ UNCHANGED hist
       ELSE hist' = [hist EXCEPT !.orphan = TRUE] /\ UNCHANGED flow
    /\ UNCHANGED <<page, box, owning, market, allowance, bounds>>

\* btnremoveownership, by the developer of a project.
BtnRemoveOwnership(f) ==
    /\ user /\ ~owning /\ Fresh(f)
    /\ owning' = TRUE
    /\ Start(f, [NoFlow EXCEPT !.kind = "owner"])
    /\ UNCHANGED <<page, box, topping, market, allowance, hist, bounds>>

\* The buttons of a kind of flow stop loading.
Free(kind) ==
    /\ box' = (box /\ kind # "create")
    /\ topping' = (topping /\ kind # "topup")
    /\ owning' = (owning /\ kind # "owner")

\* The wallet signs icrc2_approve, which replaces what was approved.
ApproveDone(f) ==
    /\ flow[f].pc = "approve"
    /\ allowance' = [amount |-> ApproveOf(flow[f].kind, flow[f].points, flow[f].rate), by |-> f]
    /\ flow' = [flow EXCEPT ![f].pc = IF flow[f].kind = "create" THEN "upload" ELSE "call"]
    /\ box' = (box \/ flow[f].kind = "create")
    /\ UNCHANGED <<page, topping, owning, market, hist, bounds>>

\* Faulty: a failed approval ends no flow.
ApproveFailsGoingOn(f) ==
    /\ flow[f].pc = "approve"
    /\ Fail
    /\ Free(flow[f].kind)
    /\ flow' = [flow EXCEPT ![f].pc = "call"]
    /\ UNCHANGED <<page, market, allowance, hist>>

\* onFail.  A transfer of ownership tells so and goes on to the launcher nevertheless.
ApproveFails(f) ==
    /\ flow[f].pc = "approve"
    /\ Fail
    /\ Free(flow[f].kind)
    /\ flow' = [flow EXCEPT ![f] = IF @.kind = "owner"
                                   THEN [@ EXCEPT !.pc = "call", !.skipped = TRUE] ELSE Over]
    /\ UNCHANGED <<page, market, allowance, hist>>

\* execute() ends and calls nobody: no wallet was there when the batch was made, or its actor
\* could not be had.  The buttons go on loading, but for the transfer of ownership, which
\* goes on to the launcher.
ApproveSilent(f) ==
    /\ flow[f].pc = "approve"
    /\ Fail
    /\ IF flow[f].kind = "owner"
       THEN flow' = [flow EXCEPT ![f].pc = "call", ![f].skipped = TRUE] /\ UNCHANGED hist
       ELSE flow' = [flow EXCEPT ![f] = Over] /\ hist' = [hist EXCEPT !.silent = @ \cup {flow[f].kind}]
    /\ UNCHANGED <<page, busy, market, allowance>>

Uploaded(f) ==
    /\ flow[f].pc = "upload"
    /\ flow' = [flow EXCEPT ![f].pc = "call"]
    /\ UNCHANGED <<page, busy, market, allowance, hist, bounds>>

\* Faulty: a failed upload only gives a message.
UploadFailsLoading(f) ==
    /\ flow[f].pc = "upload"
    /\ Fail
    /\ flow' = [flow EXCEPT ![f] = Over]
    /\ UNCHANGED <<page, busy, market, allowance, hist>>

UploadFails(f) ==
    /\ flow[f].pc = "upload"
    /\ Fail
    /\ flow' = [flow EXCEPT ![f] = Over]
    /\ Free("create")
    /\ UNCHANGED <<page, market, allowance, hist>>

\* BigInt of points that are no integer throws, after the approval.
TopupThrows(f) ==
    /\ flow[f].pc = "call"
    /\ flow[f].kind = "topup" /\ flow[f].points \in Fractions
    /\ flow' = [flow EXCEPT ![f] = Over]
    /\ Free("topup")
    /\ UNCHANGED <<page, market, allowance, hist, bounds>>

\* create_fomo, topup_points or ownership_transfer finds the lower end of the band approved,
\* and the ledger the charge and its own fee; or one of them refuses.
LauncherCharges(f) ==
    /\ flow[f].pc = "call"
    /\ flow[f].points \notin Fractions
    /\ LET fee == FeeOf(flow[f].kind, flow[f].points)
           taken == ChargedFee(allowance.amount, fee) + LedgerFee
       IN  IF allowance.amount >= MinFee(fee) /\ allowance.amount >= taken
           THEN /\ allowance' = [allowance EXCEPT !.amount = @ - taken]
                /\ flow' = [flow EXCEPT ![f].pc = "paid",
                                        ![f].charged = IF allowance.by = f THEN "own" ELSE "other"]
           ELSE /\ flow' = [flow EXCEPT ![f].pc = "refused",
                                        ![f].drift = 4 * oracle > 5 * flow[f].rate]
                /\ UNCHANGED allowance
    /\ UNCHANGED <<page, busy, market, hist, bounds>>

\* The answer arrives, or the call is rejected: the buttons are freed in all cases.  After a
\* top-up the points of the user are read.
Answered(f) ==
    /\ flow[f].pc \in {"paid", "refused"}
    /\ flow' = [flow EXCEPT ![f] = IF @.kind = "topup" /\ @.pc = "paid"
                                   THEN [Over EXCEPT !.pc = "profile"] ELSE Over]
    /\ Free(flow[f].kind)
    /\ UNCHANGED <<page, market, allowance, hist, bounds>>

\* getBaseUserInfo answers; or it is rejected, which the catch takes for a failed top-up: the
\* button is freed once more, whoever made it load.
ProfileRead(f) ==
    /\ flow[f].pc = "profile"
    /\ flow' = [flow EXCEPT ![f] = Over]
    /\ \/ UNCHANGED <<busy, bounds>>
       \/ Fail /\ Free("topup")
    /\ UNCHANGED <<page, market, allowance, hist>>

\* The user closes the progress box of SetCoin, which frees its button.
CloseRightBox ==
    /\ box
    /\ bounds.closes < MaxCloses
    /\ box' = FALSE
    /\ bounds' = [bounds EXCEPT !.closes = @ + 1]
    /\ UNCHANGED <<page, topping, owning, flow, market, allowance, hist>>

\* Somebody logs in; or disconnects.
UserChanges ==
    /\ bounds.logins < MaxLogins
    /\ \E f \in Flows : flow[f].pc \in {"idle", "waiting"}
    /\ bounds' = [bounds EXCEPT !.logins = @ + 1]
    /\ user' = ~user
    /\ UNCHANGED <<form, photos, busy, flow, market, allowance, hist>>

-----------------------------------------------------------------------------
FlowAnswered(f) ==
    \/ ApproveDone(f) \/ ApproveFails(f) \/ ApproveSilent(f) \/ Uploaded(f) \/ UploadFails(f)
    \/ TopupThrows(f) \/ LauncherCharges(f) \/ Answered(f) \/ ProfileRead(f)

Next ==
    \/ PriceArrives
    \/ CheckboxChange \/ BtnUpPhoto \/ UserChanges \/ CloseRightBox
    \/ \E v \in Shares : ChangeLockedVal(v)
    \/ \E l \in photos : PhotoLoads(l)
    \/ \E f \in Flows :
          \/ BtnFomo(f) \/ IntervalUser(f) \/ BtnRemoveOwnership(f)
          \/ \E n \in Points : BtnBuyToken(f, n)
          \/ FlowAnswered(f)

Spec == Init /\ [][Next]_vars

\* Wallet, ledger, image service and launcher answer.
Fairness == \A f \in Flows : WF_vars(FlowAnswered(f))

LiveSpec == Spec /\ Fairness

-----------------------------------------------------------------------------
(* Properties *)

\* The types of the state; and a project is created with the lock the form showed when it
\* was clicked, unless a picture that was still being read brought an earlier lock back
\* (BtnUpPhoto, CheckboxChange, changelockedVal, btnFomo).
LockAgrees ==
    /\ Types
    /\ \A f \in Flows : flow[f].pc # "idle" =>
           flow[f].lock = flow[f].wanted \/ hist.reverted

\* What a flow is charged comes from its own approval, unless another flow was under way
\* with it or its approval failed and it went on (btnremoveownership).
ChargedFromOwn ==
    \A f \in Flows : flow[f].charged = "other" =>
        \/ ~flow[f].alone
        \/ flow[f].skipped

\* The launcher or the ledger refuses a flow for want of allowance only if the oracle's price
\* is more than a quarter above the one the page approved by, or another flow replaced or used
\* the approval, or the approval failed.  The pages approve thirty percent too much; the
\* launcher's extra percent and the fees that come on top leave a quarter (stepApprove,
\* btnBuyToken, btnremoveownership and get_icp_platform_fee).
MarginSuffices ==
    \A f \in Flows : flow[f].pc = "refused" =>
        flow[f].drift \/ ~flow[f].alone \/ flow[f].skipped

\* A button stops loading however the flow ends, unless its execute() ended without calling
\* back or points were bought without a user; giving the ownership away frees its button even
\* then (setopenRightBox, setopenbuyLoding, setownershipLoding).
ButtonsFreed ==
    /\ box ~> (~box \/ "create" \in hist.silent)
    /\ topping ~> (~topping \/ hist.orphan \/ "topup" \in hist.silent)
    /\ owning ~> ~owning

=============================================================================
