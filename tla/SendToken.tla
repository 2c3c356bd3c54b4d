------------------------------ MODULE SendToken ------------------------------
(***************************************************************************)
(* The dialog that sends a token held by a user                            *)
(* (pages/User/sendToken/index.tsx).  One dialog serves all the tokens of  *)
(* the list: each opening gives it the token and its balance at once, and  *)
(* asks the token for its fee and decimals, which arrive when they may.    *)
(* After a transfer the balance of ICP is read in the same try: when that  *)
(* is rejected the transfer is reported as failed, and the button freed.   *)
(***************************************************************************)
EXTENDS Integers

CONSTANTS
    HeldTokens, NoHeld,           \* the tokens listed; none
    Payees, NoPayee, NoPrincipal, \* recipients; none; a text that is no principal
    Holdings,                     \* what the user holds of each when the list is read
    MaxHeld,                      \* bound: units held of a token
    MaxTransfers,                 \* bound: clicks on the button whose awaits are not over
    MaxOpenings, MaxTyped         \* bounds: openings, and what a user does in them

ASSUME SendTokenAssumption ==
    /\ NoHeld \notin HeldTokens /\ Holdings \in [HeldTokens -> 0 .. MaxHeld]
    /\ NoPayee \notin Payees /\ NoPrincipal \notin Payees /\ NoPrincipal # NoPayee
    /\ {MaxHeld, MaxTransfers, MaxOpenings, MaxTyped} \subseteq Nat

VARIABLES
    tokForm,     \* the dialog: open, baseInfo, amount, toamount and what its field shows
    tokCanSend,  \* isshow is false
    tokHeld,     \* what the user holds, and what the list says
    tokUnits,    \* the token whose fee and decimals the dialog has, and the answers to come
    tokSends,    \* the clicks on the button: a transfer in flight, or the balance read after it
    tokLoading,  \* openbuyAmountLoding
    tokLost,     \* history: a balance read after a transfer was rejected
    tokOpenings, tokTyped

tokVars == <<tokForm, tokCanSend, tokHeld, tokUnits, tokSends, tokLoading, tokLost,
             tokOpenings, tokTyped>>

Held == 0 .. MaxHeld
TokFee == 1

Entries == Payees \cup {NoPayee, NoPrincipal}

\* entered: the amount was entered in this opening.
TokForm == [open : BOOLEAN, token : HeldTokens \cup {NoHeld}, amount : -TokFee .. MaxHeld,
            to : Entries, shown : Entries, entered : BOOLEAN]

Clicks == 1 .. MaxTransfers
NoTransfer == [pc |-> "idle"]
Transfer == [pc : {"transfer"}, form : TokForm, units : HeldTokens \cup {NoHeld}]
Refreshing == [pc |-> "balance"]

SendTokenTypes ==
    /\ tokForm \in TokForm
    /\ {tokCanSend, tokLoading, tokLost} \subseteq BOOLEAN
    /\ tokHeld \in [funds : [HeldTokens -> Held], list : [HeldTokens -> Held]]
    /\ tokUnits \in [of : HeldTokens \cup {NoHeld}, asked : SUBSET HeldTokens]
    /\ tokSends \in [Clicks -> Transfer \cup {NoTransfer, Refreshing}]

SendTokenInit ==
    /\ tokForm = [open |-> FALSE, token |-> NoHeld, amount |-> 0, to |-> NoPayee,
                  shown |-> NoPayee, entered |-> FALSE]
    /\ tokCanSend = FALSE
    /\ tokHeld = [funds |-> Holdings, list |-> Holdings]
    /\ tokUnits = [of |-> NoHeld, asked |-> {}]
    /\ tokSends = [s \in Clicks |-> NoTransfer]
    /\ tokLoading = FALSE /\ tokLost = FALSE
    /\ tokOpenings = 0 /\ tokTyped = 0

-----------------------------------------------------------------------------
\* Faulty: the balance is not looked at.
TokEffectUnchecked(form) ==
    /\ tokForm' = form
    /\ tokCanSend' = (form.amount # 0 /\ form.to \in Payees)

\* The effect on amount and toamount: it reads the balance of the token shown.
TokEffect(form) ==
    /\ tokForm' = form
    /\ tokCanSend' = /\ form.amount # 0 /\ form.to \in Payees
                     /\ form.amount <= tokHeld.list[form.token]

\* openModal: what was entered stays, and is not checked again.
OpenSendToken(t) ==
    /\ tokOpenings < MaxOpenings
    /\ ~tokForm.open
    /\ tokOpenings' = tokOpenings + 1
    /\ tokForm' = [tokForm EXCEPT !.open = TRUE, !.token = t, !.shown = NoPayee, !.entered = FALSE]
    /\ tokUnits' = [tokUnits EXCEPT !.asked = @ \cup {t}]
    /\ UNCHANGED <<tokCanSend, tokHeld, tokSends, tokLoading, tokLost, tokTyped>>

\* init: fee and decimals arrive, of whatever opening.
InitAnswered ==
    /\ \E t \in tokUnits.asked : tokUnits' = [of |-> t, asked |-> tokUnits.asked \ {t}]
    /\ UNCHANGED <<tokForm, tokCanSend, tokHeld, tokSends, tokLoading, tokLost, tokOpenings, tokTyped>>

TokTyping ==
    /\ tokForm.open
    /\ tokTyped < MaxTyped
    /\ tokTyped' = tokTyped + 1
    /\ UNCHANGED <<tokHeld, tokUnits, tokSends, tokLoading, tokLost, tokOpenings>>

CloseSendToken ==
    /\ TokTyping
    /\ TokEffect([tokForm EXCEPT !.open = FALSE, !.amount = 0, !.shown = NoPayee])

TypeTokAmount ==
    /\ TokTyping
    /\ \E n \in Held : TokEffect([tokForm EXCEPT !.amount = n, !.entered = TRUE])

TypeTokRecipient ==
    /\ TokTyping
    /\ \E p \in Entries \ {tokForm.shown} : TokEffect([tokForm EXCEPT !.to = p, !.shown = p])

\* btnMaxICP: all the list shows but the fee, which is 0 before the first answer and may be another
\* token's.
BtnMaxToken ==
    /\ TokTyping
    /\ LET fee == IF tokUnits.of = NoHeld THEN 0 ELSE TokFee
       IN  TokEffect([tokForm EXCEPT !.amount = tokHeld.list[tokForm.token] - fee,
                                     !.entered = TRUE])

\* btnseticp
BtnSetToken(s) ==
    /\ tokForm.open /\ tokCanSend /\ ~tokLoading
    /\ tokSends[s] = NoTransfer
    /\ tokLoading' = TRUE
    /\ tokSends' = [tokSends EXCEPT ![s] =
           [pc |-> "transfer", form |-> tokForm, units |-> tokUnits.of]]
    /\ UNCHANGED <<tokForm, tokCanSend, tokHeld, tokUnits, tokLost, tokOpenings, tokTyped>>

\* Ok: the dialog closes, whichever token it shows by now, and keeps what was entered; the
\* list is not read again, but the balance of ICP is.
TokenSent(s) ==
    LET form == tokSends[s].form
        left == tokHeld.funds[form.token] - form.amount - TokFee
    IN  /\ tokSends[s].pc = "transfer" /\ form.amount > 0 /\ left >= 0
        /\ tokSends[s].units # NoHeld
        /\ tokHeld' = [tokHeld EXCEPT !.funds[form.token] = left]
        /\ tokLoading' = FALSE
        /\ tokForm' = [tokForm EXCEPT !.open = FALSE, !.shown = NoPayee]
        /\ tokSends' = [tokSends EXCEPT ![s] = Refreshing]
        /\ UNCHANGED <<tokCanSend, tokUnits, tokLost, tokOpenings, tokTyped>>

TokenRefused(s) ==
    /\ tokSends[s].pc = "transfer"
    /\ tokLoading' = FALSE
    /\ tokSends' = [tokSends EXCEPT ![s] = NoTransfer]
    /\ UNCHANGED <<tokForm, tokCanSend, tokHeld, tokUnits, tokLost, tokOpenings, tokTyped>>

\* The balance of ICP goes to the store; or it cannot be read: the catch of the transfer.
TokenStored(s) ==
    /\ tokSends[s] = Refreshing
    /\ tokSends' = [tokSends EXCEPT ![s] = NoTransfer]
    /\ UNCHANGED <<tokForm, tokCanSend, tokHeld, tokUnits, tokLoading, tokLost, tokOpenings, tokTyped>>

TokenNotStored(s) ==
    /\ tokSends[s] = Refreshing
    /\ tokSends' = [tokSends EXCEPT ![s] = NoTransfer]
    /\ tokLoading' = FALSE
    /\ tokLost' = TRUE
    /\ UNCHANGED <<tokForm, tokCanSend, tokHeld, tokUnits, tokOpenings, tokTyped>>

SendTokenNext ==
    \/ \E t \in HeldTokens : OpenSendToken(t)
    \/ InitAnswered \/ CloseSendToken \/ TypeTokAmount \/ TypeTokRecipient \/ BtnMaxToken
    \/ \E s \in Clicks :
          \/ BtnSetToken(s) \/ TokenSent(s) \/ TokenRefused(s)
          \/ TokenStored(s) \/ TokenNotStored(s)

-----------------------------------------------------------------------------
(* Properties *)

TokInFlight == {s \in Clicks : tokSends[s].pc = "transfer"}

\* An amount entered in this opening is covered by the balance the list shows of the token
\* that is sent; one left from before a transfer was not checked against it (openModal does
\* not run the effect on amount and toamount again).
AmountCovered(form) == form.entered => form.amount <= tokHeld.list[form.token]

\* Such an amount is refused for funds only because the fee is not counted or because the
\* list was read before an earlier transfer (openModal takes the balance of the list).
TokenShortExplained(form) ==
    form.entered /\ form.amount + TokFee > tokHeld.funds[form.token] =>
        \/ form.amount = tokHeld.list[form.token]
        \/ tokHeld.list[form.token] # tokHeld.funds[form.token]

\* The button loads only while a transfer is in flight, and until a balance read after one was
\* rejected, it loads while any is, so that there is never a second (btnseticp).
TokOneAtATime ==
    /\ tokLoading => TokInFlight # {}
    /\ ~tokLost => /\ TokInFlight # {} => tokLoading
                   /\ \A s, q \in TokInFlight : s = q

\* What is sent goes to a principal the dialog shows, or to the one of an earlier opening
\* while it shows none.
SendTokenAgrees ==
    /\ SendTokenTypes
    /\ TokOneAtATime
    /\ \A s \in TokInFlight :
          LET form == tokSends[s].form
          IN  /\ form.to \in Payees /\ form.shown \in {form.to, NoPayee}
              /\ AmountCovered(form) /\ TokenShortExplained(form)

=============================================================================
