------------------------------ MODULE AddCycles ------------------------------
(***************************************************************************)
(* The dialog that adds cycles to a canister of a project                  *)
(* (pages/ICPInfo/ICPInfo.tsx).  Its field shows a text in T while the     *)
(* amount in cycles is kept beside it; the balance of cycles is read at    *)
(* each opening and after each withdrawal.  What "Max" fills in is shown   *)
(* without the zeros at the end of its text (formatAmountByUnitToT), so    *)
(* that 10 T is shown as 1.                                                *)
(***************************************************************************)
EXTENDS Integers

CONSTANTS
    CycleTargets, NoTarget,   \* the canisters of the project; none
    EndsInZero,               \* the amounts whose text ends in a zero, as that of 10 T
    MaxCycles,                \* bound: T cycles on the account
    MaxCycleSteps,            \* bound: what a user does in the dialog
    MaxCycleMoves             \* bound: changes of the account made elsewhere

ASSUME AddCyclesAssumption ==
    /\ NoTarget \notin CycleTargets /\ EndsInZero \subseteq Int
    /\ {MaxCycles, MaxCycleSteps, MaxCycleMoves} \subseteq Nat

VARIABLES
    cycForm,     \* the dialog: open, curBtnId, amount and displayValue
    cycCanAdd,   \* isshow is false
    cycFunds,    \* the account on the cycles ledger
    cycKnown,    \* curCyclesBalance, the balances on their way, and whether the fee is read
    cycAdding,   \* the withdrawal in flight
    cycLoading,  \* openbuyAmountLoding
    cycBroken,   \* the effect threw, and the page with it
    cycSteps, cycMoves

cycVars == <<cycForm, cycCanAdd, cycFunds, cycKnown, cycAdding, cycLoading, cycBroken,
             cycSteps, cycMoves>>

Cycles == 0 .. MaxCycles
CycFee == 1
NotRead == -1
\* displayValue: blanks, which are a number to the check of the input but not to the parser.
Blanks == -2
\* Or a text that has lost its zeros.
Cut == -3

CycForm == [open : BOOLEAN, target : CycleTargets \cup {NoTarget}, amount : -CycFee .. MaxCycles,
            display : {Blanks, Cut} \cup -CycFee .. MaxCycles]

NoAdding == [on |-> FALSE]
Adding == [on : {TRUE}, form : CycForm]

AddCyclesTypes ==
    /\ cycForm \in CycForm
    /\ {cycCanAdd, cycLoading, cycBroken} \subseteq BOOLEAN
    /\ cycFunds \in Cycles
    /\ cycKnown.balance \in {NotRead} \cup Cycles /\ cycKnown.reads \subseteq Cycles
    /\ cycKnown.fee \in BOOLEAN
    /\ cycAdding \in Adding \cup {NoAdding}

AddCyclesInit ==
    /\ cycForm = [open |-> FALSE, target |-> NoTarget, amount |-> 0, display |-> 0]
    /\ cycCanAdd = FALSE
    /\ cycFunds = MaxCycles
    /\ cycKnown = [balance |-> NotRead, reads |-> {}, fee |-> FALSE]
    /\ cycAdding = NoAdding
    /\ cycLoading = FALSE /\ cycBroken = FALSE
    /\ cycSteps = 0 /\ cycMoves = 0

-----------------------------------------------------------------------------
UserOfCycles ==
    /\ ~cycBroken
    /\ cycSteps < MaxCycleSteps
    /\ cycSteps' = cycSteps + 1
    /\ UNCHANGED <<cycFunds, cycMoves, cycAdding, cycLoading>>

\* The effect on amount: without a balance "new Big" throws.
CycEffect(form) ==
    /\ cycForm' = form
    /\ IF form.amount = cycForm.amount
       THEN UNCHANGED <<cycCanAdd, cycBroken>>
       ELSE /\ cycCanAdd' = (form.amount # 0 /\ form.amount <= cycKnown.balance)
            /\ cycBroken' = (form.amount # 0 /\ cycKnown.balance = NotRead)

\* openAddCyclesModal
OpenAddCyclesModal(t) ==
    /\ UserOfCycles
    /\ ~cycForm.open
    /\ cycForm' = [cycForm EXCEPT !.open = TRUE, !.target = t]
    /\ cycKnown' = [cycKnown EXCEPT !.reads = @ \cup {cycFunds}]
    /\ UNCHANGED <<cycCanAdd, cycBroken>>

\* handleaddaddCycles: the amount goes, the text stays.
HandleAddCycles ==
    /\ UserOfCycles
    /\ cycForm.open
    /\ CycEffect([cycForm EXCEPT !.open = FALSE, !.amount = 0])
    /\ UNCHANGED cycKnown

Cyclesfee ==
    /\ ~cycKnown.fee
    /\ cycKnown' = [cycKnown EXCEPT !.fee = TRUE]
    /\ UNCHANGED <<cycForm, cycCanAdd, cycFunds, cycAdding, cycLoading, cycBroken, cycSteps,
                   cycMoves>>

GetCuruserBalance ==
    /\ \E b \in cycKnown.reads :
          cycKnown' = [cycKnown EXCEPT !.balance = b, !.reads = @ \ {b}]
    /\ UNCHANGED <<cycForm, cycCanAdd, cycFunds, cycAdding, cycLoading, cycBroken, cycSteps,
                   cycMoves>>

\* inputamountchange: the text is taken before it is parsed, so blanks leave the amount.
InputAmountCycles ==
    /\ UserOfCycles
    /\ cycForm.open
    /\ \/ \E n \in Cycles : CycEffect([cycForm EXCEPT !.amount = n, !.display = n])
       \/ CycEffect([cycForm EXCEPT !.display = Blanks])
    /\ UNCHANGED cycKnown

\* formatAmountByUnitToT, without a unit.
ShownMax(n) == IF n \in EndsInZero THEN Cut ELSE n

\* btnMax: before the fee is read "minus" throws and nothing changes.
BtnMaxCycles ==
    LET most == cycKnown.balance - CycFee
    IN  /\ UserOfCycles
        /\ cycForm.open
        /\ IF cycKnown.balance \in {NotRead, 0}
           THEN CycEffect([cycForm EXCEPT !.amount = 0, !.display = 0])
           ELSE /\ cycKnown.fee
                /\ CycEffect([cycForm EXCEPT !.amount = most, !.display = ShownMax(most)])
        /\ UNCHANGED cycKnown

\* btnBuyamount: the withdrawal leaves.
BtnBuyamount ==
    /\ ~cycBroken
    /\ cycForm.open /\ cycCanAdd /\ ~cycLoading
    /\ cycLoading' = TRUE
    /\ cycAdding' = [on |-> TRUE, form |-> cycForm]
    /\ UNCHANGED <<cycForm, cycCanAdd, cycFunds, cycKnown, cycBroken, cycSteps, cycMoves>>

\* Ok: the dialog is closed and emptied, whichever canister it is open for.
CyclesAdded ==
    LET left == cycFunds - cycAdding.form.amount - CycFee
    IN  /\ cycAdding.on /\ cycAdding.form.amount > 0 /\ left >= 0
        /\ cycFunds' = left
        /\ cycLoading' = FALSE
        /\ CycEffect([cycForm EXCEPT !.open = FALSE, !.amount = 0, !.display = 0])
        /\ cycKnown' = [cycKnown EXCEPT !.reads = @ \cup {left}]
        /\ cycAdding' = NoAdding
        /\ UNCHANGED <<cycSteps, cycMoves>>

\* Err or an exception: the dialog stays as it is.
CyclesRefused ==
    /\ cycAdding.on
    /\ cycLoading' = FALSE
    /\ cycAdding' = NoAdding
    /\ UNCHANGED <<cycForm, cycCanAdd, cycFunds, cycKnown, cycBroken, cycSteps, cycMoves>>

\* The account changes elsewhere.
CyclesMove ==
    /\ cycMoves < MaxCycleMoves
    /\ cycMoves' = cycMoves + 1
    /\ cycFunds' \in Cycles
    /\ UNCHANGED <<cycForm, cycCanAdd, cycKnown, cycAdding, cycLoading, cycBroken, cycSteps>>

AddCyclesNext ==
    \/ \E t \in CycleTargets : OpenAddCyclesModal(t)
    \/ HandleAddCycles \/ Cyclesfee \/ GetCuruserBalance \/ InputAmountCycles \/ BtnMaxCycles
    \/ BtnBuyamount \/ CyclesAdded \/ CyclesRefused \/ CyclesMove

-----------------------------------------------------------------------------
(* Properties *)

\* The field shows an amount, or blanks, or what is left of it without its zeros.
DisplayFits(form) ==
    \/ form.display \in {form.amount, Blanks}
    \/ form.display = Cut /\ form.amount \in EndsInZero

\* What is withdrawn is what the field shows unless it shows blanks, or "Max" filled in an
\* amount whose text ends in a zero (btnMax, common.ts); while the dialog is
\* closed nothing can be withdrawn, and a text left in it is no amount; the button loads
\* exactly while a withdrawal is in flight (btnBuyamount, inputamountchange,
\* handleaddaddCycles).
AddCyclesAgrees ==
    /\ AddCyclesTypes
    /\ cycLoading <=> cycAdding.on
    /\ cycAdding.on => /\ cycAdding.form.target # NoTarget
                       /\ DisplayFits(cycAdding.form)
    /\ ~cycForm.open => ~cycCanAdd /\ cycForm.amount = 0

=============================================================================
