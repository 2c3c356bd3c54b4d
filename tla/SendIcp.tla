------------------------------- MODULE SendIcp -------------------------------
(***************************************************************************)
(* The dialog that sends ICP (layout/home/sendICP/index.tsx).  It checks   *)
(* an amount against the balance it read when it was first opened, while   *)
(* the page shows, and "Max" uses, the balance in the store.  An effect on *)
(* the amount and the recipient enables the button.  The field of the      *)
(* recipient is uncontrolled: a dialog opened again shows it empty, but    *)
(* the recipient typed before is still there.  After a transfer the        *)
(* balance is read in the same try: when that is rejected the transfer is  *)
(* reported as failed, and the button freed, whatever is sent by then.     *)
(***************************************************************************)
EXTENDS Integers

CONSTANTS
    People,     \* recipients: account identifiers and principals
    Nobody,     \* no recipient, or an empty field
    Garbage,    \* a text that is neither
    MaxFunds,   \* bound: ICP on the account
    MaxSends,   \* bound: clicks on the button whose awaits are not over
    MaxSteps,   \* bound: what a user does in the dialog
    MaxMoves    \* bound: changes of the account made elsewhere

ASSUME SendIcpAssumption ==
    /\ Nobody \notin People /\ Garbage \notin People /\ Garbage # Nobody
    /\ {MaxFunds, MaxSends, MaxSteps, MaxMoves} \subseteq Nat

VARIABLES
    icpForm,    \* the dialog: open, amount, toamount and what its field shows
    icpCanSend, \* isshow is false: the button can be clicked
    icpFunds,   \* the account on the ledger
    icpKnown,   \* curicpBalance, the balances on their way to it, and the store's icpAccount
    icpSends,   \* the clicks on the button: a transfer in flight, or the balance read after it
    icpLoading, \* openbuyAmountLoding
    icpBroken,  \* the effect threw, and the page with it
    icpLost,    \* history: a balance read after a transfer was rejected
    icpSteps, icpMoves

icpVars == <<icpForm, icpCanSend, icpFunds, icpKnown, icpSends, icpLoading, icpBroken, icpLost,
             icpSteps, icpMoves>>

Funds == 0 .. MaxFunds
IcpFee == 1
Unread == -1

Fields == People \cup {Nobody, Garbage}

\* max: btnMaxICP filled in the amount; against: the balance the effect checked it against.
IcpForm == [open : BOOLEAN, amount : (Unread - IcpFee) .. MaxFunds, to : Fields, shown : Fields,
            max : BOOLEAN, against : Funds \cup {Unread}]

Known == [checked : Funds \cup {Unread}, stored : Funds \cup {Unread}, reads : SUBSET Funds]

Sends == 1 .. MaxSends
NoSend == [pc |-> "idle"]

\* form: what the dialog held and showed at the click; had: the account then.
Sending == [pc : {"transfer"}, form : IcpForm, had : Funds]
Rereading == [pc : {"balance"}, read : Funds]

SendIcpTypes ==
    /\ icpForm \in IcpForm /\ icpKnown \in Known
    /\ {icpCanSend, icpLoading, icpBroken, icpLost} \subseteq BOOLEAN
    /\ icpFunds \in Funds
    /\ icpSends \in [Sends -> Sending \cup Rereading \cup {NoSend}]

SendIcpInit ==
    /\ icpForm = [open |-> FALSE, amount |-> 0, to |-> Nobody, shown |-> Nobody, max |-> FALSE,
                  against |-> Unread]
    /\ icpCanSend = FALSE
    /\ icpFunds = MaxFunds
    /\ icpKnown = [checked |-> Unread, stored |-> Unread, reads |-> {}]
    /\ icpSends = [s \in Sends |-> NoSend]
    /\ icpLoading = FALSE /\ icpBroken = FALSE /\ icpLost = FALSE
    /\ icpSteps = 0 /\ icpMoves = 0

-----------------------------------------------------------------------------
UserOfIcp ==
    /\ ~icpBroken
    /\ icpSteps < MaxSteps
    /\ icpSteps' = icpSteps + 1
    /\ UNCHANGED <<icpFunds, icpLost, icpMoves>>

\* The effect on amount and toamount: without a balance "new Big" throws.
IcpEffect(form, checked) ==
    LET entered == form.amount # 0 /\ form.to # Nobody
    IN  /\ icpForm' = [form EXCEPT !.against = checked]
        /\ icpCanSend' = (entered /\ form.amount <= checked /\ form.to # Garbage)
        /\ icpBroken' = (entered /\ checked = Unread)

\* openModal: the balance is read unless there is one, and init reads the fee and the
\* decimals, which for ICP are those the dialog starts with.
OpenSendIcp ==
    /\ UserOfIcp
    /\ ~icpForm.open
    /\ icpForm' = [icpForm EXCEPT !.open = TRUE, !.shown = Nobody]
    /\ icpKnown' = IF icpKnown.checked = Unread
                   THEN [icpKnown EXCEPT !.reads = @ \cup {icpFunds}] ELSE icpKnown
    /\ UNCHANGED <<icpCanSend, icpSends, icpLoading, icpBroken>>

IcpBalanceReq ==
    /\ \E b \in icpKnown.reads :
          icpKnown' = [icpKnown EXCEPT !.checked = b, !.reads = @ \ {b}]
    /\ UNCHANGED <<icpForm, icpCanSend, icpFunds, icpSends, icpLoading, icpBroken, icpLost, icpSteps,
                   icpMoves>>

\* handleadsenticp: the amount goes, the recipient stays.
CloseSendIcp ==
    /\ UserOfIcp
    /\ icpForm.open
    /\ IcpEffect([icpForm EXCEPT !.open = FALSE, !.amount = 0, !.shown = Nobody, !.max = FALSE],
                 icpKnown.checked)
    /\ UNCHANGED <<icpKnown, icpSends, icpLoading>>

TypeIcpAmount ==
    /\ UserOfIcp
    /\ icpForm.open
    /\ \E n \in Funds :
          IcpEffect([icpForm EXCEPT !.amount = n, !.max = FALSE], icpKnown.checked)
    /\ UNCHANGED <<icpKnown, icpSends, icpLoading>>

TypeIcpRecipient ==
    /\ UserOfIcp
    /\ icpForm.open
    /\ \E p \in Fields \ {icpForm.shown} :
          IcpEffect([icpForm EXCEPT !.to = p, !.shown = p], icpKnown.checked)
    /\ UNCHANGED <<icpKnown, icpSends, icpLoading>>

\* btnMaxICP: of the stored balance, or else of the one read, which may not be there either.
BtnMaxICP ==
    LET most == IF icpKnown.stored # Unread THEN icpKnown.stored ELSE icpKnown.checked
    IN  /\ UserOfIcp
        /\ icpForm.open
        /\ IF most = Unread
           THEN UNCHANGED <<icpForm, icpCanSend, icpBroken>>
           ELSE IcpEffect([icpForm EXCEPT !.amount = most - IcpFee, !.max = TRUE],
                          icpKnown.checked)
        /\ UNCHANGED <<icpKnown, icpSends, icpLoading>>

\* btnseticp: the transfer leaves with what the dialog holds.
BtnSetIcp(s) ==
    /\ UserOfIcp
    /\ icpForm.open /\ icpCanSend /\ ~icpLoading
    /\ icpSends[s] = NoSend
    /\ icpLoading' = TRUE
    /\ icpSends' = [icpSends EXCEPT ![s] = [pc |-> "transfer", form |-> icpForm, had |-> icpFunds]]
    /\ UNCHANGED <<icpForm, icpCanSend, icpKnown, icpBroken>>

\* Ok: the dialog closes, whichever opening it is, keeps what was entered, and the store's
\* balance is read again.
IcpSent(s) ==
    LET left == icpFunds - icpSends[s].form.amount - IcpFee
    IN  /\ icpSends[s].pc = "transfer" /\ icpSends[s].form.amount > 0 /\ left >= 0
        /\ icpFunds' = left
        /\ icpLoading' = FALSE
        /\ icpForm' = [icpForm EXCEPT !.open = FALSE, !.shown = Nobody]
        /\ icpSends' = [icpSends EXCEPT ![s] = [pc |-> "balance", read |-> left]]
        /\ UNCHANGED <<icpCanSend, icpKnown, icpBroken, icpLost, icpSteps, icpMoves>>

\* Err or an exception: of the wallet, of the ledger, or as a negative amount is no Nat.
IcpRefused(s) ==
    /\ icpSends[s].pc = "transfer"
    /\ icpLoading' = FALSE
    /\ icpSends' = [icpSends EXCEPT ![s] = NoSend]
    /\ UNCHANGED <<icpForm, icpCanSend, icpFunds, icpKnown, icpBroken, icpLost, icpSteps, icpMoves>>

IcpStored(s) ==
    /\ icpSends[s].pc = "balance"
    /\ icpKnown' = [icpKnown EXCEPT !.stored = icpSends[s].read]
    /\ icpSends' = [icpSends EXCEPT ![s] = NoSend]
    /\ UNCHANGED <<icpForm, icpCanSend, icpFunds, icpLoading, icpBroken, icpLost, icpSteps, icpMoves>>

\* The balance cannot be read: the catch of the transfer.
IcpNotStored(s) ==
    /\ icpSends[s].pc = "balance"
    /\ icpLoading' = FALSE
    /\ icpSends' = [icpSends EXCEPT ![s] = NoSend]
    /\ icpLost' = TRUE
    /\ UNCHANGED <<icpForm, icpCanSend, icpFunds, icpKnown, icpBroken, icpSteps, icpMoves>>

\* The account changes elsewhere, or another one is connected, and the store is told; or the
\* dialog of a token stores the balance in the unit of its token.
IcpMoves ==
    /\ icpMoves < MaxMoves
    /\ icpMoves' = icpMoves + 1
    /\ \E b \in Funds :
          /\ icpFunds' \in {b, icpFunds}
          /\ icpKnown' = [icpKnown EXCEPT !.stored = b]
    /\ UNCHANGED <<icpForm, icpCanSend, icpSends, icpLoading, icpBroken, icpLost, icpSteps>>

SendIcpNext ==
    \/ OpenSendIcp \/ CloseSendIcp \/ TypeIcpAmount \/ TypeIcpRecipient \/ BtnMaxICP
    \/ IcpBalanceReq \/ IcpMoves
    \/ \E s \in Sends :
          BtnSetIcp(s) \/ IcpSent(s) \/ IcpRefused(s) \/ IcpStored(s) \/ IcpNotStored(s)

-----------------------------------------------------------------------------
(* Properties *)

IcpInFlight == {s \in Sends : icpSends[s].pc = "transfer"}

\* What is sent goes to a recipient the dialog shows, or to the one typed in an earlier
\* opening while it shows none, and never to a text that is no address (btnseticp).
IcpRecipientShown ==
    \A s \in IcpInFlight : /\ icpSends[s].form.to \in People
                        /\ icpSends[s].form.shown \in {icpSends[s].form.to, Nobody}

\* A transfer the account cannot pay was let through because the fee is not counted, because
\* the balance checked is no longer the account's, or because it was read after the amount
\* was entered; and what "Max" fills in is found too much only if the account received ICP
\* from elsewhere, or the dialog of a token wrote the stored balance (openModal, btnMaxICP
\* and the effect on amount).
IcpShortExplained ==
    /\ \A s \in IcpInFlight :
           icpSends[s].form.amount + IcpFee > icpSends[s].had =>
               \/ icpSends[s].form.amount = icpSends[s].had
               \/ icpSends[s].form.against # icpSends[s].had
    /\ icpForm.max /\ icpForm.to \in People /\ icpForm.amount # 0 /\ ~icpCanSend /\ ~icpBroken =>
           icpMoves > 0

\* The button loads only while a transfer is in flight; and until the balance read after one
\* was rejected, it loads while any is, so that there is never a second (btnseticp).
IcpOneAtATime ==
    /\ icpLoading => IcpInFlight # {}
    /\ ~icpLost => /\ IcpInFlight # {} => icpLoading
                   /\ \A s, q \in IcpInFlight : s = q

SendIcpAgrees ==
    /\ SendIcpTypes
    /\ IcpOneAtATime /\ IcpRecipientShown /\ IcpShortExplained

=============================================================================
