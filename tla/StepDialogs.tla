----------------------------- MODULE StepDialogs -----------------------------
(***************************************************************************)
(* The dialogs that show the steps of a trade (pages/ICPInfo/ICPInfo.tsx), *)
(* of a new project (pages/SetCoin/SetCoin.tsx) and of a top-up            *)
(* (layout/home/buyToken/index.tsx): approve, then do.  Each page keeps    *)
(* one set of flags for all its runs, and a run that ends resets them by a *)
(* timer 800 ms later, when the next run may have begun.  What the runs    *)
(* do is modelled by TradeFlow and PaidFlows; here is what is shown.       *)
(***************************************************************************)
EXTENDS Naturals

CONSTANTS
    MaxRuns,        \* bound: runs of a page
    MaxStatus,      \* bound: status requests of a trade in flight at once
    MaxCloseSteps   \* bound: what the user closes and reopens

ASSUME StepAssumption == {MaxRuns, MaxStatus, MaxCloseSteps} \subseteq Nat

VARIABLES
    stepPage,   \* the page this behaviour is about
    steps,      \* openStep, isStepApprove, StepApproveSuccess, isStepCreateFomo, StepCreateFomoSuccess
    stepBox,    \* openRightBox, which for trades and projects is what the button loads on
    stepLoads,  \* openbuyLoding, what the button of a top-up loads on
    stepRuns,   \* the runs
    stepTimers, \* the timeouts of 800 ms
    stepCloses

stepVars == <<stepPage, steps, stepBox, stepLoads, stepRuns, stepTimers, stepCloses>>

Runs == 1 .. MaxRuns

Flags == [open : BOOLEAN, approving : BOOLEAN, approved : BOOLEAN, doing : BOOLEAN,
          done : BOOLEAN]

Blank == [open |-> FALSE, approving |-> TRUE, approved |-> FALSE, doing |-> FALSE, done |-> FALSE]

\* stranded: nothing will reset the flags after the run.  from: the flags it began with;
\* clean: whether it began with no timer or other run left.
Run == [pc : {"idle", "waiting", "approve", "upload", "quote", "call", "poll", "report",
              "profile", "over", "stranded"},
        asked : 0 .. MaxStatus, reporting : 0 .. MaxStatus, from : Flags, clean : BOOLEAN]

NoRun == [pc |-> "idle", asked |-> 0, reporting |-> 0, from |-> Blank, clean |-> TRUE]

TimerKinds == {"close", "reset", "resetDone", "resetBox"}

StepTypes ==
    /\ stepPage \in {"trade", "create", "topup"}
    /\ steps \in Flags
    /\ {stepBox, stepLoads} \subseteq BOOLEAN
    /\ stepRuns \in [Runs -> Run]
    /\ stepTimers \subseteq [run : Runs, kind : TimerKinds, nth : 0 .. MaxStatus]

StepInit ==
    /\ stepPage \in {"trade", "create", "topup"}
    /\ steps = Blank
    /\ stepBox = FALSE /\ stepLoads = FALSE
    /\ stepRuns = [r \in Runs |-> NoRun]
    /\ stepTimers = {}
    /\ stepCloses = 0

-----------------------------------------------------------------------------
Circle(spins, ticked) == [spins |-> spins, ticked |-> ticked]
Plain == Circle(FALSE, FALSE)
Spins == Circle(TRUE, FALSE)
Ticked == Circle(FALSE, TRUE)

ApproveCircle == Circle(steps.approving, steps.approved)
DoCircle == Circle(steps.doing, steps.done)

\* What the page shows: the dialog and its two circles, the box, and the button that loads.
StepsPage == [open |-> steps.open, circles |-> <<ApproveCircle, DoCircle>>, box |-> stepBox,
              loads |-> IF stepPage = "topup" THEN stepLoads ELSE stepBox]

Locked == StepsPage.loads

Ended(r) == /\ stepRuns[r].pc \in {"idle", "over"}
            /\ stepRuns[r].asked = 0 /\ stepRuns[r].reporting = 0

Goes(r, pc) == stepRuns' = [stepRuns EXCEPT ![r].pc = pc]

Box(b) == stepBox' = b /\ UNCHANGED stepLoads
BoxAndButton(b) == stepBox' = b /\ stepLoads' = (b /\ stepPage = "topup")

Timer(r, kind) == stepTimers' = stepTimers \cup {[run |-> r, kind |-> kind, nth |-> 0]}

NoTimer == UNCHANGED <<stepTimers, stepCloses, stepPage>>

\* btnPlaceTrade and btnBuyToken of a connected user, or btnFomo: the dialog opens.  btnFomo
\* without a user opens it too, and waits.
StartRun(r) ==
    /\ ~Locked /\ ~steps.open
    /\ stepRuns[r].pc = "idle" /\ \A q \in 1 .. (r - 1) : stepRuns[q].pc # "idle"
    /\ \E pc \in {"approve", "waiting"} :
          /\ pc = "waiting" => stepPage = "create"
          /\ stepRuns' = [stepRuns EXCEPT ![r] =
                 [NoRun EXCEPT !.pc = pc, !.from = steps,
                               !.clean = stepTimers = {} /\ \A q \in Runs : Ended(q)]]
          /\ IF pc = "approve" THEN BoxAndButton(TRUE) ELSE UNCHANGED <<stepBox, stepLoads>>
    /\ steps' = [steps EXCEPT !.open = TRUE]
    /\ NoTimer

\* IntervalUser of btnFomo finds somebody connected.
WaitOver(r) ==
    /\ stepRuns[r].pc = "waiting"
    /\ Goes(r, "approve")
    /\ Box(TRUE)
    /\ UNCHANGED steps /\ NoTimer

\* onSuccess of icrc2_approve.  A project first uploads its picture.
StepApproved(r) ==
    /\ stepRuns[r].pc = "approve"
    /\ Goes(r, CASE stepPage = "trade" -> "quote" [] stepPage = "create" -> "upload"
                 [] stepPage = "topup" -> "call")
    /\ steps' = [steps EXCEPT !.approving = FALSE, !.approved = TRUE,
                              !.doing = @ \/ stepPage # "create"]
    /\ Box(TRUE)
    /\ NoTimer

\* onFail
StepApproveFails(r) ==
    /\ stepRuns[r].pc = "approve"
    /\ Goes(r, "over")
    /\ BoxAndButton(FALSE)
    /\ Timer(r, "close")
    /\ UNCHANGED <<steps, stepCloses, stepPage>>

\* execute() ends and calls back nothing: the wallet is gone, or gives no actor.
StepApproveSilent(r) ==
    /\ stepRuns[r].pc = "approve"
    /\ Goes(r, "stranded")
    /\ UNCHANGED <<steps, stepBox, stepLoads>> /\ NoTimer

\* StepCreateFomo, once the picture is uploaded.
StepUploaded(r) ==
    /\ stepRuns[r].pc = "upload"
    /\ Goes(r, "call")
    /\ steps' = [steps EXCEPT !.doing = TRUE]
    /\ UNCHANGED <<stepBox, stepLoads>> /\ NoTimer

StepUploadFails(r) ==
    /\ stepRuns[r].pc = "upload"
    /\ Goes(r, "over")
    /\ steps' = [Blank EXCEPT !.done = steps.done]
    /\ Box(FALSE)
    /\ NoTimer

StepQuoted(r) ==
    /\ stepRuns[r].pc = "quote"
    /\ Goes(r, "call")
    /\ UNCHANGED <<steps, stepBox, stepLoads>> /\ NoTimer

\* A rejected quote of a purchase is caught nowhere; that of a sale closes the dialog, and
\* resets it by a timer.  The button loads for good.
StepQuoteRejected(r) ==
    /\ stepRuns[r].pc = "quote"
    /\ Goes(r, "stranded")
    /\ \/ UNCHANGED <<steps, stepTimers>>
       \/ steps' = [steps EXCEPT !.open = FALSE] /\ Timer(r, "resetDone")
    /\ UNCHANGED <<stepBox, stepLoads, stepCloses, stepPage>>

\* The router takes a swap.
StepAccepted(r) ==
    /\ stepPage = "trade"
    /\ stepRuns[r].pc = "call"
    /\ Goes(r, "poll")
    /\ UNCHANGED <<steps, stepBox, stepLoads>> /\ NoTimer

\* create_fomo or topup_points answers Ok; after a top-up the profile is read in the same try.
StepDone(r) ==
    /\ stepPage # "trade"
    /\ stepRuns[r].pc = "call"
    /\ Goes(r, IF stepPage = "topup" THEN "profile" ELSE "over")
    /\ steps' = [steps EXCEPT !.doing = FALSE, !.done = TRUE]
    /\ BoxAndButton(FALSE)
    /\ Timer(r, "resetDone")
    /\ UNCHANGED <<stepCloses, stepPage>>

StepReread(r) ==
    /\ stepRuns[r].pc = "profile"
    /\ Goes(r, "over")
    /\ UNCHANGED <<steps, stepBox, stepLoads>> /\ NoTimer

\* The profile cannot be read: the catch of the top-up, whatever is shown by then.
StepRereadFails(r) ==
    /\ stepRuns[r].pc = "profile"
    /\ Goes(r, "over")
    /\ steps' = [steps EXCEPT !.done = FALSE]
    /\ BoxAndButton(FALSE)
    /\ Timer(r, "reset")
    /\ UNCHANGED <<stepCloses, stepPage>>

\* Err, or an exception: only Err of a project or a top-up ends the second step at once.
StepRefused(r) ==
    /\ stepRuns[r].pc = "call"
    /\ Goes(r, "over")
    /\ \E d \in {steps.doing, FALSE} :
          /\ stepPage = "trade" => d = steps.doing
          /\ steps' = [steps EXCEPT !.doing = d, !.done = FALSE]
    /\ BoxAndButton(FALSE)
    /\ Timer(r, "reset")
    /\ UNCHANGED <<stepCloses, stepPage>>

\* The interval of a trade asks again, whether or not the last request is back.
StepAsks(r) ==
    /\ stepRuns[r].pc = "poll"
    /\ stepRuns[r].asked < MaxStatus
    /\ stepRuns' = [stepRuns EXCEPT ![r].asked = @ + 1]
    /\ UNCHANGED <<steps, stepBox, stepLoads>> /\ NoTimer

StepPending(r) ==
    /\ stepRuns[r].pc = "poll" /\ stepRuns[r].asked > 0
    /\ stepRuns' = [stepRuns EXCEPT ![r].asked = @ - 1]
    /\ UNCHANGED <<steps, stepBox, stepLoads>> /\ NoTimer

\* "Succeeded": the trade is reported; the flags are reset only after that.
StepSucceeded(r) ==
    /\ stepRuns[r].pc \in {"poll", "report"} /\ stepRuns[r].asked > 0
    /\ stepRuns' = [stepRuns EXCEPT ![r].pc = "report", ![r].asked = @ - 1,
                                    ![r].reporting = @ + 1]
    /\ steps' = [steps EXCEPT !.doing = FALSE, !.done = TRUE]
    /\ Box(FALSE)
    /\ NoTimer

\* set_buy_or_sell answers; a rejected one is caught nowhere, and nothing is reset.
StepReported(r) ==
    /\ stepRuns[r].reporting > 0
    /\ LET left == stepRuns[r].reporting - 1
           next == [stepRuns EXCEPT ![r].reporting = left]
       IN  \/ /\ stepRuns' = [next EXCEPT ![r].pc = IF @ = "report" THEN "over" ELSE @]
              /\ stepTimers' = stepTimers \cup {[run |-> r, kind |-> "resetDone", nth |-> left]}
           \/ stepRuns' = [next EXCEPT ![r].pc = "stranded"] /\ UNCHANGED stepTimers
    /\ UNCHANGED <<steps, stepBox, stepLoads, stepCloses, stepPage>>

\* Requests under way when the interval was cleared still answer "Succeeded".
StepSucceededLate(r) ==
    /\ stepRuns[r].pc \in {"over", "stranded"} /\ stepRuns[r].asked > 0
    /\ stepRuns' = [stepRuns EXCEPT ![r].asked = @ - 1, ![r].reporting = @ + 1]
    /\ steps' = [steps EXCEPT !.doing = FALSE, !.done = TRUE]
    /\ Box(FALSE)
    /\ NoTimer

\* "Failed": the button is freed by the timer.  (Others under way answer the same, and
\* their timers do the same.)
StepFailed(r) ==
    /\ stepRuns[r].pc = "poll" /\ stepRuns[r].asked > 0
    /\ stepRuns' = [stepRuns EXCEPT ![r].asked = 0, ![r].pc = "over"]
    /\ steps' = [steps EXCEPT !.done = FALSE]
    /\ stepTimers' = stepTimers \cup
           {[run |-> r, kind |-> "resetBox", nth |-> n] : n \in 1 .. stepRuns[r].asked}
    /\ UNCHANGED <<stepBox, stepLoads, stepCloses, stepPage>>

\* Faulty: after Err or an exception the first step stays approved.
TimerResets(kind) ==
    steps' = CASE kind = "close"     -> [steps EXCEPT !.open = FALSE]
               [] kind = "resetDone" -> Blank
               [] OTHER -> [Blank EXCEPT !.done = steps.done, !.approved = steps.approved]

\* What the timeouts reset: after a failed approval only the dialog; after Err or an
\* exception all but the mark of the second step, cleared before.
StepResets(kind) ==
    steps' = CASE kind = "close"     -> [steps EXCEPT !.open = FALSE]
               [] kind = "resetDone" -> Blank
               [] OTHER              -> [Blank EXCEPT !.done = steps.done]

StepTimerFires ==
    /\ \E t \in stepTimers :
          /\ stepTimers' = stepTimers \ {t}
          /\ StepResets(t.kind)
          /\ IF t.kind = "resetBox" THEN Box(FALSE) ELSE UNCHANGED <<stepBox, stepLoads>>
    /\ UNCHANGED <<stepRuns, stepCloses, stepPage>>

StepUser ==
    /\ stepCloses < MaxCloseSteps
    /\ stepCloses' = stepCloses + 1
    /\ UNCHANGED <<stepRuns, stepTimers, stepPage>>

\* handleCloseStep and onBtnCloseStep: on the page of a project all flags are reset.
CloseStep ==
    /\ StepUser
    /\ steps.open
    /\ steps' = IF stepPage = "trade" THEN Blank ELSE [steps EXCEPT !.open = FALSE]
    /\ UNCHANGED <<stepBox, stepLoads>>

\* "View progress" in the box; closing the box frees the button unless it is a top-up's.
ViewProgress ==
    /\ StepUser
    /\ stepBox /\ ~steps.open
    /\ \/ steps' = [steps EXCEPT !.open = TRUE] /\ UNCHANGED <<stepBox, stepLoads>>
       \/ Box(FALSE) /\ UNCHANGED steps

StepNext ==
    \/ \E r \in Runs :
          \/ StartRun(r) \/ WaitOver(r)
          \/ StepApproved(r) \/ StepApproveFails(r) \/ StepApproveSilent(r)
          \/ StepUploaded(r) \/ StepUploadFails(r) \/ StepQuoted(r) \/ StepQuoteRejected(r)
          \/ StepAccepted(r) \/ StepDone(r) \/ StepReread(r) \/ StepRereadFails(r)
          \/ StepRefused(r)
          \/ StepAsks(r) \/ StepPending(r) \/ StepSucceeded(r) \/ StepSucceededLate(r)
          \/ StepReported(r) \/ StepFailed(r)
    \/ StepTimerFires \/ CloseStep \/ ViewProgress

-----------------------------------------------------------------------------
(* Properties *)

\* A run that began after the others, and during which nothing was closed on a page that
\* resets the flags then, is shown as it is: the approval spins until it is given and is ticked
\* from then on, the second step spins from then on, or for a project once the picture is
\* uploaded, and is ticked by the success (onSuccess, StepCreateFomo, the poll of a trade).
StepsShown ==
    \A r \in Runs :
        /\ stepRuns[r].clean
        /\ \A q \in (r + 1) .. MaxRuns : stepRuns[q].pc = "idle"
        /\ stepPage = "trade" => stepCloses = 0
        => /\ stepRuns[r].pc \in {"waiting", "approve"} => StepsPage.circles = <<Spins, Plain>>
           /\ stepRuns[r].pc = "upload" => StepsPage.circles = <<Ticked, Plain>>
           /\ stepRuns[r].pc \in {"quote", "call", "poll"} => StepsPage.circles = <<Ticked, Spins>>
           /\ stepRuns[r].pc = "report" => StepsPage.circles = <<Ticked, Ticked>>

\* A run shows its own steps from the start if the one before had ended, the reading of the
\* profile after a top-up included, and its timers had fired; and when all runs have ended
\* the dialog is closed, its flags are reset and the button is free, except after a run
\* whose approval is never answered (execute) or whose rejected quote or report is caught
\* nowhere (getswapTokenToToken, StepCreateFomo, gettopup_points).
StepsAgree ==
    /\ StepTypes
    /\ StepsShown
    /\ \A r \in Runs : stepRuns[r].clean => stepRuns[r].from = Blank
    /\ stepTimers = {} /\ (\A r \in Runs : Ended(r)) =>
           steps = Blank /\ ~StepsPage.box /\ ~StepsPage.loads

=============================================================================
