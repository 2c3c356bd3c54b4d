-------------------------- MODULE OwnershipTransfer --------------------------
(***************************************************************************)
(* ownership_transfer of the launcher (fomowell-launcher/src/main.rs): the *)
(* developer of a project pays about 2 USD in ICP and the backend removes  *)
(* the controllers of the project's token, or hands them to a principal.   *)
(* The controllers change BEFORE the fee is collected, with awaits between *)
(* the quote, the change and the charge.                                   *)
(*                                                                         *)
(* Amounts are in e8s and a price is what a dollar costs in them.          *)
(***************************************************************************)
EXTENDS LauncherFee, FiniteSets, FiniteSetsExt

CONSTANTS
    Users,         \* the callers
    Tokens,        \* tokens of registered projects
    DevOf,         \* create_user_pid of the token's project
    Slots,         \* slots for ownership_transfer calls in flight
    None,          \* the user or token of an idle slot
    Prices,        \* prices of a dollar
    Amounts,       \* what users own at first, approve, deposit and spend
    MaxCalls,      \* bound: ownership_transfer calls
    MaxFunds,      \* bound: approvals, deposits and transfers of users
    MaxRejected    \* bound: calls that are rejected

ASSUME TransferAssumption ==
    /\ None \notin Users \cup Tokens
    /\ IsFiniteSet(Tokens)
    /\ DevOf \in [Tokens -> Users]
    /\ Prices \subseteq Nat
    /\ Amounts \subseteq Nat
    /\ MaxCalls \in Nat
    /\ MaxFunds \in Nat
    /\ MaxRejected \in Nat

VARIABLES
    call,       \* the ownership_transfer calls in flight
    balance,    \* ICP ledger: what a user owns
    allowance,  \* ICP ledger: what the launcher may take of it
    charged,    \* ICP ledger: "fomo_ot" transfers from a user
    handed,     \* backend: removals done per token
    unpaid,     \* history: removals done per user that were never paid
    outspent,   \* history: the slots whose user's funds fell below what they had read
    counts      \* [calls, funds, failures] so far (bounds)

funds == <<balance, allowance>>
transferVars == <<call, funds, charged, handed, unpaid, outspent, counts>>

-----------------------------------------------------------------------------
(* Data *)

\* The awaits of ownership_transfer: balance_of, allowance, prices_batch ("price"),
\* icrc2_approve, removeTokensControllers and, when its effect is there but its
\* answer is not, "removed"; then transfer_from.
AfterQuote     == {"approve", "remove", "removed", "charge"}
AfterAllowance == {"price"} \cup AfterQuote
AfterBalance   == {"allowance"} \cup AfterAllowance

TransferCall == [pc : {"idle", "balance"} \cup AfterBalance, user : Users \cup {None},
                 token : Tokens \cup {None}, balance : Nat, allowance : Nat, fee : Int]

NewCall(pc, u, t) ==
    [pc |-> pc, user |-> u, token |-> t, balance |-> 0, allowance |-> 0, fee |-> 0]

IdleCall == NewCall("idle", None, None)

\* What get_icp_platform_fee works out for 2 USD, and what it charges.
OwnershipFee(price) == 2 * price + 10000
QuoteOf(c, price)   == ChargedFee(call[c].allowance, OwnershipFee(price))

Counted(bound, max) ==
    /\ counts[bound] < max
    /\ counts' = [counts EXCEPT ![bound] = @ + 1]

CallsOf(u, pcs) == {c \in Slots : call[c].pc \in pcs /\ call[c].user = u}

\* The funds of u fall to these: the calls that read more of them are marked.
Lowered(u, owned, allowed, others) ==
    /\ balance' = [balance EXCEPT ![u] = owned]
    /\ allowance' = [allowance EXCEPT ![u] = allowed]
    /\ outspent' = outspent \cup {c \in CallsOf(u, AfterBalance) \cap others :
           owned < call[c].balance \/ (call[c].pc \in AfterAllowance /\ allowed < call[c].allowance)}

-----------------------------------------------------------------------------
(* ownership_transfer *)

\* The first segment: the project exists and the caller is its developer.
Request(c, u, t) ==
    /\ call[c].pc = "idle"
    /\ DevOf[t] = u
    /\ Counted("calls", MaxCalls)
    /\ call' = [call EXCEPT ![c] = NewCall("balance", u, t)]
    /\ outspent' = outspent \ {c}
    /\ UNCHANGED <<funds, charged, handed, unpaid>>

ReadBalance(c) ==
    /\ call[c].pc = "balance"
    /\ call' = [call EXCEPT ![c].pc = "allowance", ![c].balance = balance[call[c].user]]
    /\ UNCHANGED <<funds, charged, handed, unpaid, outspent, counts>>

ReadAllowance(c) ==
    /\ call[c].pc = "allowance"
    /\ call' = [call EXCEPT ![c].pc = "price", ![c].allowance = allowance[call[c].user]]
    /\ UNCHANGED <<funds, charged, handed, unpaid, outspent, counts>>

\* What was read is enough for the quote, but need not be for the ledger's own fee.
Sufficient(c, price) ==
    /\ call[c].allowance >= MinFee(OwnershipFee(price))
    /\ call[c].balance >= QuoteOf(c, price)

\* Faulty: the balance is not looked at.
QuoteUnchecked(c, price) ==
    /\ call[c].pc = "price"
    /\ call[c].allowance >= MinFee(OwnershipFee(price))
    /\ call' = [call EXCEPT ![c].pc = "approve", ![c].fee = QuoteOf(c, price)]
    /\ UNCHANGED <<funds, charged, handed, unpaid, outspent, counts>>

QuoteAccepted(c, price) ==
    /\ call[c].pc = "price"
    /\ Sufficient(c, price)
    /\ call' = [call EXCEPT ![c].pc = "approve", ![c].fee = QuoteOf(c, price)]
    /\ UNCHANGED <<funds, charged, handed, unpaid, outspent, counts>>

\* The quote is refused, or a call of the quote or the approval is rejected:
\* a panic, and nothing was done.
QuoteRefused(c) ==
    /\ \/ /\ call[c].pc = "price"
          /\ \E price \in Prices : ~Sufficient(c, price)
          /\ UNCHANGED counts
       \/ call[c].pc \in {"balance", "allowance", "price", "approve"} /\ Counted("failures", MaxRejected)
    /\ call' = [call EXCEPT ![c] = IdleCall]
    /\ UNCHANGED <<funds, charged, handed, unpaid, outspent>>

\* icrc2_approve answers: an ApproveResult with an error is not looked at.
LauncherApproved(c) ==
    /\ call[c].pc = "approve"
    /\ call' = [call EXCEPT ![c].pc = "remove"]
    /\ UNCHANGED <<funds, charged, handed, unpaid, outspent, counts>>

\* removeTokensControllers is carried out by the backend (external).
ControllersRemoved(c) ==
    /\ call[c].pc = "remove"
    /\ handed' = [handed EXCEPT ![call[c].token] = @ + 1]
    /\ call' = [call EXCEPT ![c].pc = "removed"]
    /\ UNCHANGED <<funds, charged, unpaid, outspent, counts>>

\* Its answer; transfer_from is called.
RemovalAnswered(c) ==
    /\ call[c].pc = "removed"
    /\ call' = [call EXCEPT ![c].pc = "charge"]
    /\ UNCHANGED <<funds, charged, handed, unpaid, outspent, counts>>

\* Faulty: a rejected removal is not looked at.
RemovalRejectedIgnored(c) ==
    /\ call[c].pc \in {"remove", "removed"}
    /\ Counted("failures", MaxRejected)
    /\ call' = [call EXCEPT ![c].pc = "charge"]
    /\ UNCHANGED <<funds, charged, handed, unpaid, outspent>>

\* removeTokensControllers is rejected, before or after its effect: throw_call_res
\* panics before the fee is collected.
RemovalRejected(c) ==
    /\ call[c].pc \in {"remove", "removed"}
    /\ Counted("failures", MaxRejected)
    /\ unpaid' = IF call[c].pc = "remove" THEN unpaid
                 ELSE [unpaid EXCEPT ![call[c].user] = @ + 1]
    /\ call' = [call EXCEPT ![c] = IdleCall]
    /\ UNCHANGED <<funds, charged, handed, outspent>>

\* What transfer_from takes, with the ledger's own fee.
Due(c) == call[c].fee + LedgerFee

\* transfer_from is carried out; its answer ends the call and changes nothing.
LedgerCharges(c) ==
    LET u == call[c].user IN
    /\ call[c].pc = "charge"
    /\ balance[u] >= Due(c) /\ allowance[u] >= Due(c)
    /\ Lowered(u, balance[u] - Due(c), allowance[u] - Due(c), Slots \ {c})
    /\ charged' = [charged EXCEPT ![u] = @ + 1]
    /\ call' = [call EXCEPT ![c] = IdleCall]
    /\ UNCHANGED <<handed, unpaid, counts>>

\* transfer_from is refused or rejected: throw panics, the removal stands.
LedgerRefuses(c) ==
    LET u == call[c].user IN
    /\ call[c].pc = "charge"
    /\ \/ (balance[u] < Due(c) \/ allowance[u] < Due(c)) /\ UNCHANGED counts
       \/ Counted("failures", MaxRejected)
    /\ unpaid' = [unpaid EXCEPT ![u] = @ + 1]
    /\ call' = [call EXCEPT ![c] = IdleCall]
    /\ UNCHANGED <<funds, charged, handed, outspent>>

-----------------------------------------------------------------------------
(* The user at the ICP ledger *)

Deposit(u, amount) ==
    /\ Counted("funds", MaxFunds)
    /\ balance' = [balance EXCEPT ![u] = @ + amount]
    /\ UNCHANGED <<call, allowance, charged, handed, unpaid, outspent>>

\* icrc2_approve replaces the allowance and costs the ledger's fee (external).
Approve(u, amount) ==
    /\ balance[u] >= LedgerFee
    /\ Counted("funds", MaxFunds)
    /\ Lowered(u, balance[u] - LedgerFee, amount, Slots)
    /\ UNCHANGED <<call, charged, handed, unpaid>>

\* A transfer, or another fee of the launcher, which uses the allowance too (external).
SpendElsewhere(u, amount) ==
    /\ balance[u] >= amount + LedgerFee
    /\ Counted("funds", MaxFunds)
    /\ \/ Lowered(u, balance[u] - amount - LedgerFee, allowance[u], Slots)
       \/ /\ allowance[u] >= amount + LedgerFee
          /\ Lowered(u, balance[u] - amount - LedgerFee, allowance[u] - amount - LedgerFee, Slots)
    /\ UNCHANGED <<call, charged, handed, unpaid>>

-----------------------------------------------------------------------------
(* The specification *)

TransferInit ==
    /\ call = [c \in Slots |-> IdleCall]
    /\ balance \in [Users -> Amounts]
    /\ allowance \in [Users -> Amounts]
    /\ charged = [u \in Users |-> 0]
    /\ handed = [t \in Tokens |-> 0]
    /\ unpaid = [u \in Users |-> 0]
    /\ outspent = {}
    /\ counts = [calls |-> 0, funds |-> 0, failures |-> 0]

Step(c) ==
    \/ ReadBalance(c)
    \/ ReadAllowance(c)
    \/ \E price \in Prices : QuoteAccepted(c, price)
    \/ QuoteRefused(c)
    \/ LauncherApproved(c)
    \/ ControllersRemoved(c)
    \/ RemovalAnswered(c)
    \/ RemovalRejected(c)
    \/ LedgerCharges(c)
    \/ LedgerRefuses(c)

TransferNext ==
    \/ \E c \in Slots : Step(c) \/ \E u \in Users, t \in Tokens : Request(c, u, t)
    \/ \E u \in Users, a \in Amounts : Deposit(u, a) \/ Approve(u, a) \/ SpendElsewhere(u, a)

TransferSpec == TransferInit /\ [][TransferNext]_transferVars

-----------------------------------------------------------------------------
(* Properties *)

\* The types of the state; a call in flight is one of its project's developer
\* (the checks of the first segment of ownership_transfer).
TransferTypes ==
    /\ call \in [Slots -> TransferCall]
    /\ \A c \in Slots : call[c].pc # "idle" => /\ call[c].token \in Tokens
                                               /\ call[c].user = DevOf[call[c].token]
    /\ balance \in [Users -> Nat]
    /\ allowance \in [Users -> Nat]
    /\ charged \in [Users -> Nat]
    /\ handed \in [Tokens -> Nat]
    /\ unpaid \in [Users -> Nat]
    /\ outspent \subseteq Slots
    /\ counts \in [calls : 0..MaxCalls, funds : 0..MaxFunds, failures : 0..MaxRejected]

\* A call past its quote finds the fee it was quoted, and the ledger's own fee on top
\* of it if what it read covered both, unless the user's funds fell meanwhile below
\* what it read.  So without such a race and without a failing call a transfer goes
\* unpaid only when the balance or the allowance was less than a ledger's fee above
\* the quote, which get_icp_platform_fee accepts (ownership_transfer).
QuoteHolds ==
    \A c \in Slots : call[c].pc \in AfterQuote /\ c \notin outspent =>
        LET owned   == balance[call[c].user]
            allowed == allowance[call[c].user]
        IN  /\ owned >= call[c].fee /\ allowed >= call[c].fee
            /\ call[c].balance >= Due(c) => owned >= Due(c)
            /\ call[c].allowance >= Due(c) => allowed >= Due(c)

\* A developer's removals, all tokens together.
RemovalsBy(u) == MapThenSumSet(LAMBDA t : handed[t], {t \in Tokens : DevOf[t] = u})

\* The types; and nobody pays for a removal that was not done: the removals of a developer's
\* tokens are the ones paid, the ones that went unpaid and the ones whose fee is
\* about to be collected (the order of the calls in ownership_transfer).
RemovalsAccounted ==
    /\ TransferTypes
    /\ \A u \in Users :
        RemovalsBy(u) = charged[u] + unpaid[u] + Cardinality(CallsOf(u, {"removed", "charge"}))

=============================================================================
