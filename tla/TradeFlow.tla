------------------------------ MODULE TradeFlow ------------------------------
(***************************************************************************)
(* Trading on the page of a project (pages/ICPInfo/ICPInfo.tsx): the form  *)
(* and the trades it starts, which approve the                             *)
(* router on a ledger, quote once more, swap, and ask for the status of    *)
(* the swap every second until it is settled and reported to the launcher. *)
(*                                                                         *)
(* The handlers are closures of a render: a trade keeps the form it was    *)
(* clicked with, whatever the form has become when an answer arrives.      *)
(* The ledger's allowance and the router's swap are external.              *)
(***************************************************************************)
EXTENDS Integers, FiniteSets

CONSTANTS
    Projects,     \* the projects a user visits without leaving the page
    Amounts,      \* the amounts typed; 0 stands for the empty input
    Balance,      \* what the user has of ICP and of each token
    Margin,       \* what the button wants to be left over
    MaxTrades,    \* bound: trades of a run
    MaxEdits,     \* bound: changes of the form
    MaxPolls,     \* bound: status requests of a trade in flight at once
    MaxFailures,  \* bound: calls that are rejected
    MaxCloses     \* bound: times the user closes the box that tells of a trade

ASSUME TradeAssumption ==
    /\ Projects # {}
    /\ Amounts \subseteq Nat /\ 0 \in Amounts
    /\ Margin \in 0..Balance
    /\ {MaxTrades, Balance, MaxEdits, MaxPolls, MaxFailures, MaxCloses} \subseteq Nat

VARIABLES
    project,    \* curFomoInfo
    search,     \* search_fomosReq under way, with the amount of the render it began in
    form,       \* CurBuyOrSell: direction, token and amount
    screen,     \* the tab that is lit and the text of the input
    box,        \* openRightBox: the button is loading and the box is shown
    timers,     \* setTimeouts of 800 ms that will free the button
    trade,      \* the trades
    allowance,  \* the ledgers: what the router may take of ICP and of each token
    swap,       \* the router: what became of the swap of each trade
    reports,    \* the launcher: set_buy_or_sell calls per trade
    hist,       \* history: what may excuse the properties
    tradeBounds

desk   == <<form, screen>>
window == <<box, timers>>
world  == <<allowance, swap, reports>>
tradeVars   == <<project, search, desk, window, trade, world, hist, tradeBounds>>

Trades == 1..MaxTrades

Dir == {"buy", "sell"}
AmountRange == Amounts \cup {Balance \div 2, Balance - Margin}

Form == [dir : Dir, token : Projects, amount : AmountRange]

\* The asset that is sold, on whose ledger the router is approved.
Assets == {"icp"} \cup Projects
AssetOf(dir, p) == IF dir = "buy" THEN "icp" ELSE p

Trade == [pc : {"idle", "approve", "quote", "swap", "poll", "settled", "over", "dead"},
          form : Form, pool : Projects, polls : 0..MaxPolls, peak : 0..MaxPolls, reporting : 0..MaxPolls]

NoTrade == [pc |-> "idle", form |-> [dir |-> "buy", token |-> CHOOSE p \in Projects : TRUE, amount |-> 0],
            pool |-> CHOOSE p \in Projects : TRUE, polls |-> 0, peak |-> 0, reporting |-> 0]

Types ==
    /\ project \in Projects
    /\ search \subseteq [project : Projects, amount : AmountRange]
    /\ form \in Form
    /\ screen \in [tab : Dir, text : AmountRange]
    /\ box \in BOOLEAN
    /\ timers \in Nat
    /\ trade \in [Trades -> Trade]
    /\ allowance \in [Assets -> Nat]
    /\ swap \in [Trades -> {"none", "pending", "ok", "failed", "short"}]
    /\ reports \in [Trades -> Nat]
    /\ hist \in [revived : BOOLEAN, closed : BOOLEAN, unseen : BOOLEAN]
    /\ tradeBounds \in [edits : 0..MaxEdits, failures : 0..MaxFailures, closes : 0..MaxCloses]

TradeInit ==
    /\ project = CHOOSE p \in Projects : TRUE
    /\ search = {}
    /\ form = [dir |-> "buy", token |-> project, amount |-> 0]
    /\ screen = [tab |-> "buy", text |-> 0]
    /\ box = FALSE
    /\ timers = 0
    /\ trade = [t \in Trades |-> NoTrade]
    /\ allowance = [a \in Assets |-> 0]
    /\ swap = [t \in Trades |-> "none"]
    /\ reports = [t \in Trades |-> 0]
    /\ hist = [revived |-> FALSE, closed |-> FALSE, unseen |-> FALSE]
    /\ tradeBounds = [edits |-> 0, failures |-> 0, closes |-> 0]

-----------------------------------------------------------------------------
(* The form *)

Edit ==
    /\ tradeBounds.edits < MaxEdits
    /\ tradeBounds' = [tradeBounds EXCEPT !.edits = @ + 1]
    /\ UNCHANGED <<window, trade, world, hist>>

\* btnBuy and btnSell light a tab and keep the amount.
BtnBuy ==
    /\ Edit
    /\ form' = [form EXCEPT !.dir = "buy", !.token = project]
    /\ screen' = [screen EXCEPT !.tab = "buy"]
    /\ UNCHANGED <<project, search>>

BtnSell ==
    /\ Edit
    /\ form' = [form EXCEPT !.dir = "sell", !.token = project]
    /\ screen' = [screen EXCEPT !.tab = "sell"]
    /\ UNCHANGED <<project, search>>

\* A number is typed (anything else is refused with a message).
InputAmountChange(a) ==
    /\ Edit
    /\ screen' = [screen EXCEPT !.text = a]
    /\ form' = [form EXCEPT !.amount = a]
    /\ UNCHANGED <<project, search>>

\* The tags below the input: reset and fixed amounts of ICP; shares of the balance of a
\* token, all of it but one.
Presets == IF form.dir = "buy" THEN Amounts ELSE {0, Balance \div 2, Balance - Margin}

\* Faulty: a tag only fills the input.
SelectHandleTextOnly(a) ==
    /\ a \in Presets
    /\ Edit
    /\ screen' = [screen EXCEPT !.text = a]
    /\ UNCHANGED <<project, search, form>>

SelectHandle(a) ==
    /\ a \in Presets
    /\ Edit
    /\ screen' = [screen EXCEPT !.text = a]
    /\ form' = [form EXCEPT !.amount = a]
    /\ UNCHANGED <<project, search>>

\* The user goes on to another project: the effect on fomo_pid asks for it.
Navigate(p) ==
    /\ p # project
    /\ Edit
    /\ search' = search \cup {[project |-> p, amount |-> form.amount]}
    /\ UNCHANGED <<project, form, screen>>

\* search_fomosReq puts the form it began with into the state; the effects on curFomoInfo
\* then choose Buy and the token of the project.
InfoArrives(s) ==
    /\ s \in search
    /\ search' = search \ {s}
    /\ project' = s.project
    /\ form' = [dir |-> "buy", token |-> s.project, amount |-> s.amount]
    /\ screen' = [screen EXCEPT !.tab = "buy"]
    /\ hist' = [hist EXCEPT !.revived = @ \/ s.amount # form.amount]
    /\ UNCHANGED <<window, trade, world, tradeBounds>>

Fail == tradeBounds.failures < MaxFailures /\ tradeBounds' = [tradeBounds EXCEPT !.failures = @ + 1]

-----------------------------------------------------------------------------
(* A trade *)

\* Faulty: the button does not load.
EnabledWhileLoading == screen.text # 0 /\ screen.text <= Balance - Margin

\* The button can be pressed: it is not loading, and the input is within the balance.
Enabled == ~box /\ screen.text # 0 /\ screen.text <= Balance - Margin

\* btnPlaceTrade for a connected user; an empty amount only gives a message.
PlaceTrade(t) ==
    /\ Enabled
    /\ form.amount # 0
    /\ trade[t].pc = "idle" /\ \A u \in 1..(t - 1) : trade[u].pc # "idle"
    /\ trade' = [trade EXCEPT ![t].pc = "approve", ![t].form = form, ![t].pool = project]
    /\ box' = TRUE
    /\ UNCHANGED <<project, search, desk, timers, world, hist, tradeBounds>>

\* icrc2_approve of the amount and one more; it replaces what was approved before.
ApproveDone(t) ==
    /\ trade[t].pc = "approve"
    /\ LET f == trade[t].form
       IN  allowance' = [allowance EXCEPT ![AssetOf(f.dir, f.token)] = f.amount + 1]
    /\ trade' = [trade EXCEPT ![t].pc = "quote"]
    /\ box' = TRUE
    /\ UNCHANGED <<project, search, desk, timers, swap, reports, hist, tradeBounds>>

ApproveFails(t) ==
    /\ trade[t].pc = "approve"
    /\ Fail
    /\ trade' = [trade EXCEPT ![t].pc = "over"]
    /\ box' = FALSE
    /\ UNCHANGED <<project, search, desk, timers, world, hist>>

\* execute() ends and calls nobody: no wallet was there when the batch was made, or its actor
\* could not be had.  The box stays, and with it the loading button.
ApproveSilent(t) ==
    /\ trade[t].pc = "approve"
    /\ Fail
    /\ trade' = [trade EXCEPT ![t].pc = "dead"]
    /\ UNCHANGED <<project, search, desk, window, world, hist>>

\* The quote for the least return: the form of the click is put back into the state.
QuotedForSwap(t) ==
    /\ trade[t].pc = "quote"
    /\ form' = trade[t].form
    /\ hist' = [hist EXCEPT !.revived = @ \/ trade[t].form # form]
    /\ trade' = [trade EXCEPT ![t].pc = "swap"]
    /\ UNCHANGED <<project, search, screen, window, world, tradeBounds>>

\* A rejected quote of a purchase is caught nowhere, that of a sale gives a message; the
\* box stays in both cases, and with it the loading button.
QuoteForSwapRejected(t) ==
    /\ trade[t].pc = "quote"
    /\ Fail
    /\ trade' = [trade EXCEPT ![t].pc = "dead"]
    /\ UNCHANGED <<project, search, desk, window, world, hist>>

\* The router takes the swap and answers with its hash.
SwapAccepted(t) ==
    /\ trade[t].pc = "swap"
    /\ swap' = [swap EXCEPT ![t] = "pending"]
    /\ trade' = [trade EXCEPT ![t].pc = "poll"]
    /\ UNCHANGED <<project, search, desk, window, allowance, reports, hist, tradeBounds>>

\* The call answers Err or is rejected.  A rejected call may have reached the router.
SwapRefused(t) ==
    /\ trade[t].pc = "swap"
    /\ Fail
    /\ \/ UNCHANGED <<swap, hist>>
       \/ /\ swap' = [swap EXCEPT ![t] = "pending"]
          /\ hist' = [hist EXCEPT !.unseen = TRUE]
    /\ trade' = [trade EXCEPT ![t].pc = "over"]
    /\ box' = FALSE
    /\ UNCHANGED <<project, search, desk, timers, allowance, reports>>

\* The router carries a swap out, refuses it, or finds too little approved.
RouterSettles(t) ==
    /\ swap[t] = "pending"
    /\ LET f == trade[t].form
           a == AssetOf(f.dir, f.token)
       IN  \/ /\ allowance[a] >= f.amount + 1
              /\ allowance' = [allowance EXCEPT ![a] = @ - (f.amount + 1)]
              /\ swap' = [swap EXCEPT ![t] = "ok"]
           \/ /\ allowance[a] >= f.amount + 1
              /\ swap' = [swap EXCEPT ![t] = "failed"]
              /\ UNCHANGED allowance
           \/ /\ allowance[a] < f.amount + 1
              /\ swap' = [swap EXCEPT ![t] = "short"]
              /\ UNCHANGED allowance
    /\ UNCHANGED <<project, search, desk, window, trade, reports, hist, tradeBounds>>

\* The interval fires: another status request, whether or not the last one is back.
Poll(t) ==
    /\ trade[t].pc = "poll"
    /\ trade[t].polls < MaxPolls
    /\ trade' = [trade EXCEPT ![t].polls = @ + 1,
                              ![t].peak = IF trade[t].polls < @ THEN @ ELSE trade[t].polls + 1]
    /\ UNCHANGED <<project, search, desk, window, world, hist, tradeBounds>>

\* The swap was pending, or the request failed: the interval goes on.
PollPending(t) ==
    /\ trade[t].polls > 0
    /\ \/ swap[t] = "pending" /\ UNCHANGED tradeBounds
       \/ Fail
    /\ trade' = [trade EXCEPT ![t].polls = @ - 1]
    /\ UNCHANGED <<project, search, desk, window, world, hist>>

\* Every request that finds the swap succeeded reports it, also one that was under way
\* when the interval was cleared.
PollSucceeded(t) ==
    /\ trade[t].polls > 0
    /\ swap[t] = "ok"
    /\ trade' = [trade EXCEPT ![t].polls = @ - 1, ![t].reporting = @ + 1, ![t].pc = "settled"]
    /\ reports' = [reports EXCEPT ![t] = @ + 1]
    /\ box' = FALSE
    /\ UNCHANGED <<project, search, desk, timers, allowance, swap, hist, tradeBounds>>

\* Faulty: a failed swap is reported like a successful one.
PollFailedReporting(t) ==
    /\ trade[t].polls > 0
    /\ swap[t] \in {"failed", "short"}
    /\ trade' = [trade EXCEPT ![t].polls = @ - 1, ![t].reporting = @ + 1, ![t].pc = "settled"]
    /\ reports' = [reports EXCEPT ![t] = @ + 1]
    /\ box' = FALSE
    /\ UNCHANGED <<project, search, desk, timers, allowance, swap, hist, tradeBounds>>

PollFailed(t) ==
    /\ trade[t].polls > 0
    /\ swap[t] \in {"failed", "short"}
    /\ trade' = [trade EXCEPT ![t].polls = @ - 1, ![t].pc = "settled"]
    /\ timers' = timers + 1
    /\ UNCHANGED <<project, search, desk, box, world, hist, tradeBounds>>

\* set_buy_or_sell answers, and the project is read again, by the closure of the click;
\* or it is rejected.
Reported(t) ==
    /\ trade[t].reporting > 0
    /\ trade' = [trade EXCEPT ![t].reporting = @ - 1]
    /\ \/ /\ search' = search \cup {[project |-> trade[t].pool, amount |-> trade[t].form.amount]}
          /\ UNCHANGED tradeBounds
       \/ Fail /\ UNCHANGED search
    /\ UNCHANGED <<project, desk, window, world, hist>>

\* Faulty: the timer forgets the button.
TimerFiresModalOnly ==
    /\ timers > 0
    /\ timers' = timers - 1
    /\ UNCHANGED <<project, search, desk, box, trade, world, hist, tradeBounds>>

\* The timer of a failed swap frees the button, whichever trade it is loading for now.
TimerFires ==
    /\ timers > 0
    /\ timers' = timers - 1
    /\ box' = FALSE
    /\ UNCHANGED <<project, search, desk, trade, world, hist, tradeBounds>>

\* The user closes the box.
CloseRightBox ==
    /\ box
    /\ tradeBounds.closes < MaxCloses
    /\ box' = FALSE
    /\ tradeBounds' = [tradeBounds EXCEPT !.closes = @ + 1]
    /\ hist' = [hist EXCEPT !.closed = TRUE]
    /\ UNCHANGED <<project, search, desk, timers, trade, world>>

-----------------------------------------------------------------------------
TradeAnswered(t) ==
    \/ ApproveDone(t) \/ ApproveFails(t) \/ ApproveSilent(t)
    \/ QuotedForSwap(t) \/ QuoteForSwapRejected(t)
    \/ SwapAccepted(t) \/ SwapRefused(t)

PollAnswered(t) == PollPending(t) \/ PollSucceeded(t) \/ PollFailed(t)

TradeNext ==
    \/ \E t \in Trades :
          \/ PlaceTrade(t) \/ TradeAnswered(t) \/ RouterSettles(t)
          \/ Poll(t) \/ PollAnswered(t) \/ Reported(t)
    \/ BtnBuy \/ BtnSell
    \/ \E a \in AmountRange : InputAmountChange(a) \/ SelectHandle(a)
    \/ \E p \in Projects : Navigate(p)
    \/ \E s \in search : InfoArrives(s)
    \/ TimerFires
    \/ CloseRightBox

TradeSpec == TradeInit /\ [][TradeNext]_tradeVars

\* Wallet, router and canisters answer, the intervals and the timers fire.
TradeFairness ==
    /\ \A t \in Trades : /\ WF_tradeVars(TradeAnswered(t)) /\ WF_tradeVars(RouterSettles(t))
                         /\ WF_tradeVars(Poll(t)) /\ WF_tradeVars(PollAnswered(t))
    /\ WF_tradeVars(TimerFires)

LiveTradeSpec == TradeSpec /\ TradeFairness

-----------------------------------------------------------------------------
(* Properties *)

\* The types of the state; and the next trade is for what the page shows: the amount is the
\* one in the input, the direction the one of the lit tab, the token the project's, unless a
\* late answer put an earlier form back (setCurBuyOrSell in getswapTokenToToken and in
\* search_fomosReq spreads the form of the render it began in).
FormAgrees ==
    /\ Types
    /\ ~hist.revived =>
           /\ form.amount = screen.text /\ form.dir = screen.tab /\ form.token = project
           /\ \A t \in Trades : trade[t].pc # "idle" => trade[t].form.token = trade[t].pool

\* Only a swap that succeeded is reported, and more than once only if several status
\* requests of it were under way together (the interval in getswapTokenToToken).
ReportsAgree ==
    \A t \in Trades : /\ reports[t] > 0 => swap[t] = "ok"
                      /\ reports[t] <= trade[t].peak

\* A swap finds less approved than it needs only if the button was freed while a trade was
\* under way: the user closed the box, a swap went on although its call was rejected, or a
\* second answer for an earlier trade freed it (openRightBox is the only lock, and
\* icrc2_approve replaces what was approved).
ShortExplained ==
    \A t \in Trades : swap[t] = "short" =>
        hist.closed \/ hist.unseen \/ \E u \in Trades : trade[u].peak > 1

\* The button loads until the trade is over, but for ever if a quote was rejected or the
\* batch of the approval ended without calling back (btnPlaceTrade, getswapTokenToToken).
ButtonFreed == box ~> (~box \/ \E t \in Trades : trade[t].pc = "dead")

=============================================================================
