--------------------------- MODULE LauncherPoints ---------------------------
(***************************************************************************)
(* The points economy of the launcher canister                             *)
(* (fomowell-launcher/src/main.rs): user profiles, the points history, the *)
(* top-ups paid in ICP, the paid profile edits, and the calls of the other *)
(* canisters that spend or grant points.                                   *)
(*                                                                         *)
(* A handler of an Internet Computer canister runs without interruption up *)
(* to its next await; the state is committed there and other messages run  *)
(* before the answer comes back.  Each handler is therefore split at its   *)
(* awaits: a call slot keeps the handler's program counter and the locals  *)
(* that survive the await.  A panic drops the segment it happens in and    *)
(* nothing that an earlier segment committed.                              *)
(***************************************************************************)
EXTENDS LauncherFee, FiniteSets, FiniteSetsExt

CONSTANTS
    Users,          \* the authenticated principals (never the anonymous one)
    Topups,         \* slots for topup_points calls in flight
    Edits,          \* slots for edit_user calls in flight
    None,           \* Rust's None, and the user of an idle slot
    TopupAmounts,   \* points asked for by a top-up
    AirdropAmounts, \* points granted by the owner
    Prices,         \* USD per ICP, as the oracle may answer
    Allowances,     \* ICP (e8s) a user may approve for the launcher
    InitialBalance, \* ICP (e8s) each user starts with
    MaxRequests,    \* bound: number of ingress requests and grants
    MaxUpgrades     \* bound: number of upgrades

ASSUME ConstantsAssumption ==
    /\ None \notin Nat
    /\ None \notin Users
    /\ TopupAmounts \subseteq Nat
    /\ AirdropAmounts \subseteq Nat
    /\ Prices \subseteq Nat \ {0}
    /\ Allowances \subseteq Nat
    /\ InitialBalance \in Nat
    /\ MaxRequests \in Nat
    /\ MaxUpgrades \in Nat

VARIABLES
    profile,      \* USER_PROFILE_MAP: user -> profile, defined for registered users
    history,      \* POINT_HISTORY_MAP: index -> entry
    point_count,  \* CounterState.point_count
    topup,        \* the topup_points calls in flight
    edit,         \* the edit_user calls in flight
    balance,      \* ICP ledger: balance of each user
    allowance,    \* ICP ledger: what each user lets the launcher spend
    charges,      \* ICP ledger: completed "points" transfers from each user
    freeEdits,    \* history: edits applied without a deduction, per user
    lostEdits,    \* history: deductions whose edit was abandoned, per user
    requests,     \* number of requests so far (bound)
    upgrades      \* number of upgrades so far (bound)

launcher == <<profile, history, point_count>>
ledger   == <<balance, allowance, charges>>
audit    == <<freeEdits, lostEdits>>
vars     == <<launcher, topup, edit, ledger, audit, requests, upgrades>>

-----------------------------------------------------------------------------
(* Data *)

Put(f, k, v) == [x \in DOMAIN f \cup {k} |-> IF x = k THEN v ELSE f[x]]

\* `changes' counts the times name or avatar were overwritten; it stands for
\* user_name, avatar and last_change_time.
Profile == [points : Nat \cup {None}, pre : Nat, spent : Nat, changes : Nat]

Businesses == {"INIT", "TOPUP", "CREATEFOMO", "AIRDROP", "COMMENT", "EDIT_AVATAR"}

PointHistory == [user : Users, op : {"INIT", "ADD", "DEDUCT"},
                 busi : Businesses, amount : Nat]

EditKinds == {"empty", "plain", "image"}

TopupCall == [pc : {"idle", "balance", "allowance", "price", "transfer",
                    "charged", "refused"},
              user : Users \cup {None}, amount : Nat,
              balance : Nat, allowance : Nat, fee : Nat]

EditCall == [pc : {"idle", "spending", "spent", "upload"},
             user : Users \cup {None}, kind : EditKinds, paid : BOOLEAN]

IdleTopup == [pc |-> "idle", user |-> None, amount |-> 0,
              balance |-> 0, allowance |-> 0, fee |-> 0]

IdleEdit == [pc |-> "idle", user |-> None, kind |-> "empty", paid |-> FALSE]

MinTopup      == 10
InitialPoints == 20
CreateReward  == 10

SpendPrice(busi) == IF busi = "EDIT_AVATAR" THEN 8 ELSE 6

-----------------------------------------------------------------------------
(* The points operations, as functions of one profile and of the history *)

\* Faulty: the rewards granted before the account was opened are forgotten.
InitPointsDroppingRewards(p) ==
    IF p.points = None THEN [p EXCEPT !.points = InitialPoints] ELSE p

\* init_points on the profile: the welcome points and the rewards granted
\* before are opened once; the reward field is left as it was.
InitPoints(p) ==
    IF p.points = None THEN [p EXCEPT !.points = InitialPoints + p.pre] ELSE p

\* add_points on the profile.
AddPoints(p, n) ==
    IF p.points = None THEN [p EXCEPT !.pre = @ + n]
                       ELSE [p EXCEPT !.points = @ + n]

\* deduct_points on the profile, when CanDeduct.
CanDeduct(u, n) ==
    /\ u \in DOMAIN profile
    /\ profile[u].points # None
    /\ profile[u].points >= n

DeductPoints(p, n) == [p EXCEPT !.points = @ - n, !.spent = @ + n]

HistoryEntry(u, op, busi, n) == [user |-> u, op |-> op, busi |-> busi, amount |-> n]

\* Every entry takes the next index of count_point and overwrites whatever
\* the map holds there.
RecordHistory(e) ==
    /\ point_count' = point_count + 1
    /\ history' = Put(history, point_count + 1, e)

RecordHistory2(e1, e2) ==
    /\ point_count' = point_count + 2
    /\ history' = Put(Put(history, point_count + 1, e1), point_count + 2, e2)

\* deduct_points: one segment, one entry.
Deduct(u, busi) ==
    /\ profile' = Put(profile, u, DeductPoints(profile[u], SpendPrice(busi)))
    /\ RecordHistory(HistoryEntry(u, "DEDUCT", busi, SpendPrice(busi)))

\* init_points then add_points: one segment, two entries.  The INIT entry is
\* written whether or not the account was opened before.
InitAndAdd(u, n, busi) ==
    /\ profile' = Put(profile, u, AddPoints(InitPoints(profile[u]), n))
    /\ RecordHistory2(HistoryEntry(u, "INIT", "INIT", InitialPoints),
                      HistoryEntry(u, "ADD", busi, n))

-----------------------------------------------------------------------------
(* edit_user *)

NewProfile == [points |-> None, pre |-> 0, spent |-> 0, changes |-> 0]

\* The last segment of edit_user on an existing profile.
Edited(p, kind) ==
    [p EXCEPT !.spent   = IF p.points = None THEN 0 ELSE @,
              !.changes = IF kind = "empty" THEN @ ELSE @ + 1]

\* Faulty: a first edit without values leaves the user unregistered.
FinishEditWithoutRegistering(u, kind, free) ==
    /\ profile' = IF u \in DOMAIN profile
                  THEN Put(profile, u, Edited(profile[u], kind)) ELSE profile
    /\ UNCHANGED <<history, point_count, audit>>

\* The last segment of edit_user: it looks the profile up again, so what the
\* other calls did meanwhile is kept; a first edit stores defaults and drops
\* the values it was given.
FinishEdit(u, kind, free) ==
    /\ profile' = Put(profile, u,
                      IF u \in DOMAIN profile THEN Edited(profile[u], kind)
                                              ELSE NewProfile)
    /\ freeEdits' = IF u \in DOMAIN profile /\ kind # "empty" /\ free
                    THEN [freeEdits EXCEPT ![u] = @ + 1] ELSE freeEdits
    /\ UNCHANGED <<history, point_count, lostEdits>>

Request == requests < MaxRequests /\ requests' = requests + 1

\* edit_user by a principal without a profile, or with nothing to edit: no
\* points are asked for.  Without an image to upload it is a single segment.
EditForFree(u, kind) ==
    /\ u \notin DOMAIN profile \/ kind = "empty"
    /\ kind # "image"
    /\ Request
    /\ FinishEdit(u, kind, TRUE)
    /\ UNCHANGED <<topup, edit, ledger, upgrades>>

\* The same with an image: the upload is awaited before the profile is looked
\* up again.
EditForFreeWithImage(e, u) ==
    /\ edit[e].pc = "idle"
    /\ u \notin DOMAIN profile
    /\ Request
    /\ edit' = [edit EXCEPT ![e] = [pc |-> "upload", user |-> u,
                                    kind |-> "image", paid |-> FALSE]]
    /\ UNCHANGED <<launcher, topup, ledger, audit, upgrades>>

\* edit_user on an existing profile: the canister calls its own
\* spending_points and awaits the answer.
EditExisting(e, u, kind) ==
    /\ edit[e].pc = "idle"
    /\ u \in DOMAIN profile
    /\ kind # "empty"
    /\ Request
    /\ edit' = [edit EXCEPT ![e] = [pc |-> "spending", user |-> u,
                                    kind |-> kind, paid |-> FALSE]]
    /\ UNCHANGED <<launcher, topup, ledger, audit, upgrades>>

\* The self-call runs spending_points as a message of its own.
SpendForEdit(e) ==
    /\ edit[e].pc = "spending"
    /\ CanDeduct(edit[e].user, SpendPrice("EDIT_AVATAR"))
    /\ Deduct(edit[e].user, "EDIT_AVATAR")
    /\ edit' = [edit EXCEPT ![e].pc = "spent", ![e].paid = TRUE]
    /\ UNCHANGED <<topup, ledger, audit, requests, upgrades>>

\* Faulty: the error of the self-call is ignored and the edit applied.
EditRefusedIgnored(e) ==
    /\ edit[e].pc = "spending"
    /\ FinishEdit(edit[e].user, edit[e].kind, FALSE)
    /\ edit' = [edit EXCEPT ![e] = IdleEdit]
    /\ UNCHANGED <<topup, ledger, requests, upgrades>>

\* spending_points panics, or the self-call is rejected: edit_user returns
\* the error and has changed nothing.
EditRefused(e) ==
    /\ edit[e].pc = "spending"
    /\ edit' = [edit EXCEPT ![e] = IdleEdit]
    /\ UNCHANGED <<launcher, topup, ledger, audit, requests, upgrades>>

\* The answer of the self-call: without an image the edit finishes here.
EditPaid(e) ==
    /\ edit[e].pc = "spent"
    /\ edit[e].kind = "plain"
    /\ FinishEdit(edit[e].user, edit[e].kind, FALSE)
    /\ edit' = [edit EXCEPT ![e] = IdleEdit]
    /\ UNCHANGED <<topup, ledger, requests, upgrades>>

EditPaidWithImage(e) ==
    /\ edit[e].pc = "spent"
    /\ edit[e].kind = "image"
    /\ edit' = [edit EXCEPT ![e].pc = "upload"]
    /\ UNCHANGED <<launcher, topup, ledger, audit, requests, upgrades>>

\* Faulty: the profile is not looked up again after the upload.
UploadDoneStale(e) ==
    /\ edit[e].pc = "upload"
    /\ profile' = Put(profile, edit[e].user,
                      IF edit[e].paid THEN Edited(profile[edit[e].user], "image")
                                      ELSE NewProfile)
    /\ edit' = [edit EXCEPT ![e] = IdleEdit]
    /\ UNCHANGED <<history, point_count, topup, ledger, audit, requests, upgrades>>

UploadDone(e) ==
    /\ edit[e].pc = "upload"
    /\ FinishEdit(edit[e].user, edit[e].kind, ~edit[e].paid)
    /\ edit' = [edit EXCEPT ![e] = IdleEdit]
    /\ UNCHANGED <<topup, ledger, requests, upgrades>>

\* upload_file panics on any failure of the outcall: the deduction of an
\* earlier segment stays.
UploadFails(e) ==
    /\ edit[e].pc = "upload"
    /\ edit' = [edit EXCEPT ![e] = IdleEdit]
    /\ lostEdits' = IF edit[e].paid
                    THEN [lostEdits EXCEPT ![edit[e].user] = @ + 1] ELSE lostEdits
    /\ UNCHANGED <<launcher, topup, ledger, freeEdits, requests, upgrades>>

-----------------------------------------------------------------------------
(* topup_points *)

\* get_icp_platform_fee: what it asks for when the oracle answers `price' for
\* a purchase of `amount' points at 0.1 USD each.
PlatformFee(amount, price) == (amount * 10000000) \div price + 10000

\* The first segment: edit_user without values runs inside it and registers a
\* new user, then balance_of is awaited.
Topup(c, u, n) ==
    /\ topup[c].pc = "idle"
    /\ n >= MinTopup
    /\ Request
    /\ FinishEdit(u, "empty", TRUE)
    /\ topup' = [topup EXCEPT ![c] = [IdleTopup EXCEPT !.pc = "balance",
                                                       !.user = u, !.amount = n]]
    /\ UNCHANGED <<edit, ledger, upgrades>>

TopupStep(c, from, to) ==
    /\ topup[c].pc = from
    /\ topup' = [topup EXCEPT ![c] = to]
    /\ UNCHANGED <<launcher, edit, ledger, audit, requests, upgrades>>

ReadBalance(c) ==
    TopupStep(c, "balance", [topup[c] EXCEPT !.pc = "allowance",
                                             !.balance = balance[topup[c].user]])

ReadAllowance(c) ==
    TopupStep(c, "allowance", [topup[c] EXCEPT !.pc = "price",
                                               !.allowance = allowance[topup[c].user]])

\* The oracle's answer: the checks use the balance and the allowance read
\* before, then transfer_from is awaited or the call ends with an error.
QuoteAccepted(c, price) ==
    LET fee == PlatformFee(topup[c].amount, price)
        charged == ChargedFee(topup[c].allowance, fee)
    IN  /\ topup[c].allowance >= MinFee(fee)
        /\ topup[c].balance >= charged
        /\ TopupStep(c, "price", [topup[c] EXCEPT !.pc = "transfer", !.fee = charged])

QuoteRefused(c, price) ==
    LET fee == PlatformFee(topup[c].amount, price)
    IN  /\ \/ topup[c].allowance < MinFee(fee)
           \/ topup[c].balance < ChargedFee(topup[c].allowance, fee)
        /\ TopupStep(c, "price", IdleTopup)

\* balance_of, allowance or prices_batch answers with an error: a panic.
QuoteFails(c) ==
    \E from \in {"balance", "allowance", "price"} : TopupStep(c, from, IdleTopup)

\* The ledger runs icrc2_transfer_from (external): it needs the amount and the
\* ledger's fee, in the balance and in the allowance at this moment.
LedgerCharges(c) ==
    LET u == topup[c].user
        total == topup[c].fee + LedgerFee
    IN  /\ topup[c].pc = "transfer"
        /\ balance[u] >= total
        /\ allowance[u] >= total
        /\ balance' = [balance EXCEPT ![u] = @ - total]
        /\ allowance' = [allowance EXCEPT ![u] = @ - total]
        /\ charges' = [charges EXCEPT ![u] = @ + 1]
        /\ topup' = [topup EXCEPT ![c].pc = "charged"]
        /\ UNCHANGED <<launcher, edit, audit, requests, upgrades>>

\* Insufficient funds or allowance, or the call is not delivered.
LedgerRefuses(c) ==
    TopupStep(c, "transfer", [topup[c] EXCEPT !.pc = "refused"])

\* The answer of transfer_from: throw panics on an error, otherwise the
\* points are opened and credited in the same segment.
TopupCredited(c) ==
    /\ topup[c].pc = "charged"
    /\ IF topup[c].user \in DOMAIN profile
       THEN InitAndAdd(topup[c].user, topup[c].amount, "TOPUP")
       ELSE UNCHANGED launcher          \* init_points panics
    /\ topup' = [topup EXCEPT ![c] = IdleTopup]
    /\ UNCHANGED <<edit, ledger, audit, requests, upgrades>>

\* Faulty: the error of transfer_from is ignored and the points credited.
TopupRefusedIgnored(c) ==
    /\ topup[c].pc = "refused"
    /\ InitAndAdd(topup[c].user, topup[c].amount, "TOPUP")
    /\ topup' = [topup EXCEPT ![c] = IdleTopup]
    /\ UNCHANGED <<edit, ledger, audit, requests, upgrades>>

TopupRefused(c) == TopupStep(c, "refused", IdleTopup)

-----------------------------------------------------------------------------
(* The other callers of the points operations *)

\* spending_points from the canister of a registered project: the charge of a
\* comment.  An unregistered caller, or too few points, is a panic.
ProjectSpends(u) ==
    /\ CanDeduct(u, SpendPrice("COMMENT"))
    /\ Request
    /\ Deduct(u, "COMMENT")
    /\ UNCHANGED <<topup, edit, ledger, audit, upgrades>>

\* The last segment of create_fomo grants the creator's points.
RewardCreator(u) ==
    /\ u \in DOMAIN profile
    /\ Request
    /\ InitAndAdd(u, CreateReward, "CREATEFOMO")
    /\ UNCHANGED <<topup, edit, ledger, audit, upgrades>>

\* airdrop_points, by the owner; it panics for an unregistered user.
AirdropPoints(u, n) ==
    /\ u \in DOMAIN profile
    /\ Request
    /\ profile' = Put(profile, u, AddPoints(profile[u], n))
    /\ RecordHistory(HistoryEntry(u, "ADD", "AIRDROP", n))
    /\ UNCHANGED <<topup, edit, ledger, audit, upgrades>>

\* count_point is a public update method: any caller takes an index.
CountPoint ==
    /\ Request
    /\ point_count' = point_count + 1
    /\ UNCHANGED <<profile, history, topup, edit, ledger, audit, upgrades>>

-----------------------------------------------------------------------------
(* Upgrades, and the users at the ledger *)

\* stable_save and stable_restore.  The saved image overwrites the header of
\* the stable memory manager, so the maps of the new code start empty and hold
\* exactly what is inserted again.
PreUpgrade == [users |-> profile, points |-> history, counter |-> point_count]

\* Faulty: the counters are not restored and start again.
PostUpgradeWithoutCounters(saved) ==
    /\ profile' = saved.users
    /\ history' = saved.points
    /\ point_count' = 0

PostUpgrade(saved) ==
    /\ profile' = saved.users
    /\ history' = saved.points
    /\ point_count' = saved.counter

\* The canister is stopped first, which waits for the calls in flight.
Upgrade ==
    /\ \A c \in Topups : topup[c].pc = "idle"
    /\ \A e \in Edits : edit[e].pc = "idle"
    /\ upgrades < MaxUpgrades
    /\ upgrades' = upgrades + 1
    /\ PostUpgrade(PreUpgrade)
    /\ UNCHANGED <<topup, edit, ledger, audit, requests>>

\* A user approves the launcher, or spends the ICP elsewhere, at any moment.
Approve(u, a) ==
    /\ allowance' = [allowance EXCEPT ![u] = a]
    /\ UNCHANGED <<launcher, topup, edit, balance, charges, audit, requests, upgrades>>

SpendElsewhere(u) ==
    /\ balance' = [balance EXCEPT ![u] = 0]
    /\ UNCHANGED <<launcher, topup, edit, allowance, charges, audit, requests, upgrades>>

-----------------------------------------------------------------------------
(* The specification *)

Init ==
    /\ profile = [u \in {} |-> NewProfile]
    /\ history = [i \in {} |-> 0]
    /\ point_count = 0
    /\ topup = [c \in Topups |-> IdleTopup]
    /\ edit = [e \in Edits |-> IdleEdit]
    /\ balance = [u \in Users |-> InitialBalance]
    /\ allowance = [u \in Users |-> 0]
    /\ charges = [u \in Users |-> 0]
    /\ freeEdits = [u \in Users |-> 0]
    /\ lostEdits = [u \in Users |-> 0]
    /\ requests = 0
    /\ upgrades = 0

EditStart(e, u) ==
    \/ EditForFreeWithImage(e, u)
    \/ \E kind \in EditKinds : EditExisting(e, u, kind)

\* The steps the replicated execution takes by itself: the delivery of the
\* messages and answers of the calls in flight.
EditProgress(e) ==
    \/ SpendForEdit(e)
    \/ EditRefused(e)
    \/ EditPaid(e)
    \/ EditPaidWithImage(e)
    \/ UploadDone(e)
    \/ UploadFails(e)

TopupProgress(c) ==
    \/ ReadBalance(c)
    \/ ReadAllowance(c)
    \/ \E price \in Prices : QuoteAccepted(c, price)
    \/ \E price \in Prices : QuoteRefused(c, price)
    \/ QuoteFails(c)
    \/ LedgerCharges(c)
    \/ LedgerRefuses(c)
    \/ TopupCredited(c)
    \/ TopupRefused(c)

UserStep(u) ==
    \/ \E kind \in EditKinds : EditForFree(u, kind)
    \/ \E c \in Topups, n \in TopupAmounts : Topup(c, u, n)
    \/ \E e \in Edits : EditStart(e, u)
    \/ ProjectSpends(u)
    \/ RewardCreator(u)
    \/ \E n \in AirdropAmounts : AirdropPoints(u, n)
    \/ \E a \in Allowances : Approve(u, a)
    \/ SpendElsewhere(u)

Next ==
    \/ \E u \in Users : UserStep(u)
    \/ \E c \in Topups : TopupProgress(c)
    \/ \E e \in Edits : EditProgress(e)
    \/ CountPoint
    \/ Upgrade

Spec == Init /\ [][Next]_vars

-----------------------------------------------------------------------------
(* Properties *)

\* The types; and every index in use was handed out by count_point.
TypeOK ==
    /\ DOMAIN profile \subseteq Users
    /\ \A u \in DOMAIN profile : profile[u] \in Profile
    /\ point_count \in Nat
    /\ DOMAIN history \subseteq 1..point_count
    /\ \A i \in DOMAIN history : history[i] \in PointHistory
    /\ topup \in [Topups -> TopupCall]
    /\ edit \in [Edits -> EditCall]
    /\ balance \in [Users -> Nat]
    /\ allowance \in [Users -> Nat]
    /\ charges \in [Users -> Nat]
    /\ freeEdits \in [Users -> Nat]
    /\ lostEdits \in [Users -> Nat]
    /\ requests \in 0..MaxRequests
    /\ upgrades \in 0..MaxUpgrades

\* A call in flight finds, after each await, what it relied on before it: the
\* user of a top-up or of a paid edit is registered, a deduction was taken
\* from an opened account, and an account is opened with all its welcome
\* points, only then to be spent from (topup_points, edit_user).
CallsConsistent ==
    /\ \A c \in Topups : topup[c].pc # "idle" => topup[c].user \in DOMAIN profile
    /\ \A e \in Edits :
           /\ edit[e].pc # "idle" => edit[e].user \in Users
           /\ edit[e].pc = "spending" => edit[e].user \in DOMAIN profile
           /\ edit[e].pc = "spent" => edit[e].paid
           /\ edit[e].paid => /\ edit[e].pc \in {"spent", "upload"}
                              /\ edit[e].user \in DOMAIN profile
                              /\ profile[edit[e].user].points # None
    /\ \A u \in DOMAIN profile :
           IF profile[u].points = None THEN profile[u].spent = 0
           ELSE profile[u].points + profile[u].spent >= InitialPoints

Entries(u, busi) == {i \in DOMAIN history : history[i].user = u /\ history[i].busi = busi}

Total(u, op) ==
    MapThenSumSet(LAMBDA i : history[i].amount,
                  {i \in DOMAIN history : history[i].user = u /\ history[i].op = op})

\* The books agree: the points a profile holds and has spent are the welcome
\* points, once, and what its ADD entries granted; what it has spent is what
\* its DEDUCT entries took; before it is opened the ADD entries are in the
\* reward field.  A lost update between the awaits, a reward dropped when the
\* account is opened or a second welcome break it (init_points, add_points,
\* deduct_points).
BooksAgree ==
    \A u \in DOMAIN profile :
        /\ profile[u].spent = Total(u, "DEDUCT")
        /\ IF profile[u].points = None
           THEN profile[u].pre = Total(u, "ADD")
           ELSE profile[u].points + profile[u].spent = InitialPoints + Total(u, "ADD")

\* Every ICP charge of the ledger is a credited top-up or one whose answer is
\* still on its way: nobody pays without being credited, and nobody is
\* credited without paying (topup_points, transfer_from and its answer).
PaidIsCredited ==
    \A u \in Users :
        charges[u] = Cardinality(Entries(u, "TOPUP"))
                     + Cardinality({c \in Topups : topup[c].pc = "charged" /\ topup[c].user = u})

\* Every 8-point deduction pays for exactly one edit: applied, abandoned by a
\* failed upload, or still in flight; and no edit of a profile that existed
\* when the call arrived is applied unpaid (edit_user and its self-call).
EditsAccounted ==
    \A u \in DOMAIN profile :
        Cardinality(Entries(u, "EDIT_AVATAR")) + freeEdits[u] =
            profile[u].changes + lostEdits[u]
            + Cardinality({e \in Edits : edit[e].paid /\ edit[e].user = u})

\* An entry of the points history is never changed, moved or removed, by no
\* handler and by no upgrade (count_point, pre_upgrade, post_upgrade).
HistoryKept ==
    [][\A i \in DOMAIN history : i \in DOMAIN history' /\ history'[i] = history[i]]_vars

\* The abstract points accounts: what a profile earned is in its reward field
\* until it is opened, then it is what it holds and has spent.
EarnedOf(u) ==
    IF u \notin DOMAIN profile THEN 0
    ELSE IF profile[u].points = None THEN profile[u].pre
    ELSE profile[u].points + profile[u].spent - InitialPoints

Accounts == INSTANCE PointsAccount WITH
    Welcome <- InitialPoints,
    Grants <- TopupAmounts \cup AirdropAmounts \cup {CreateReward},
    Charges <- {SpendPrice(busi) : busi \in Businesses},
    registered <- DOMAIN profile,
    opened <- {u \in DOMAIN profile : profile[u].points # None},
    earned <- [u \in Users |-> EarnedOf(u)],
    spent <- [u \in Users |-> IF u \in DOMAIN profile THEN profile[u].spent ELSE 0]

\* The launcher implements the accounts: no handler, interleaving or upgrade
\* closes an account, takes back what was earned or spends more than is there.
ImplementsAccounts == Accounts!Spec

=============================================================================
