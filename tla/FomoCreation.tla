---------------------------- MODULE FomoCreation ----------------------------
(***************************************************************************)
(* create_fomo of the launcher canister (fomowell-launcher/src/main.rs): a *)
(* registered user pays the service fee, an index is counted, a token, a   *)
(* pool and a canister are made by other canisters, the project's code is  *)
(* installed, and only then is the project registered and its creator      *)
(* rewarded.  Eleven awaits, between which every other handler may run;    *)
(* a panic after any of them loses what the call holds in its locals.      *)
(*                                                                         *)
(* The quote of the fee is the one of LauncherPoints; here it is accepted  *)
(* or refused.  Tokens, pools and canisters are numbered as they are made. *)
(***************************************************************************)
EXTENDS Integers, FiniteSets

CONSTANTS
    Users,          \* the authenticated principals
    Creates,        \* slots for create_fomo calls in flight
    None,           \* the user of an idle slot
    MaxCreates,     \* bound: create_fomo calls
    MaxCounts,      \* bound: calls of the public update method count
    MaxFailures,    \* bound: creations that a failing call ends
    MaxUpgrades     \* bound: upgrades of the launcher

ASSUME CreationAssumption ==
    /\ None \notin Users
    /\ MaxCreates \in Nat
    /\ MaxCounts \in Nat
    /\ MaxFailures \in Nat
    /\ MaxUpgrades \in Nat

VARIABLES
    profiles,     \* USER_PROFILE_MAP: the registered users
    fomos,        \* FOMO_PROJECT_MAP: index -> project
    count,        \* CounterState.count
    last_create,  \* index in last_create_fomo, 0 at first
    rewards,      \* creator rewards granted, per user
    create,       \* the create_fomo calls in flight
    made,         \* external: numbers of tokens, pools and canisters made
    code,         \* management canister: canister -> fomo_idx it was installed with
    charged,      \* ICP ledger: "fomo" transfers from each user
    abandoned,    \* history: paid creations that failed, per user
    calls,        \* [creates, counts, failures, upgrades] so far (bounds)
    taken         \* history: the indices count() gave to its other callers

launcher == <<profiles, fomos, count, last_create, rewards>>
external == <<made, code, charged>>
vars     == <<launcher, create, external, abandoned, calls, taken>>

-----------------------------------------------------------------------------
(* Data *)

\* What a FomoProject says of the things made for it.
Project == [user : Users, token : Nat, pool : Nat, canister : Nat]

\* The awaits of create_fomo, in order; "paid" and "installed" are answers on
\* their way from a call whose effect others can see already.
Paid == {"paid", "token", "approve", "pool", "canister", "upload", "status",
         "install", "installed"}

\* The awaits after which the call holds an index.
Indexed == Paid \ {"paid"}

CreateCall == [pc : {"idle", "quote", "pay"} \cup Paid, user : Users \cup {None},
               idx : Nat, token : Nat, pool : Nat, canister : Nat]

NewCreate(pc, u) == [pc |-> pc, user |-> u, idx |-> 0,
                     token |-> 0, pool |-> 0, canister |-> 0]

IdleCreate == NewCreate("idle", None)

Put(f, k, v) == [x \in DOMAIN f \cup {k} |-> IF x = k THEN v ELSE f[x]]

Counted(bound, max) ==
    /\ calls[bound] < max
    /\ calls' = [calls EXCEPT ![bound] = @ + 1]

-----------------------------------------------------------------------------
(* create_fomo *)

\* The checks of the first segment; then the fee is quoted.
CreateFomo(c, u) ==
    /\ create[c].pc = "idle"
    /\ u \in profiles
    /\ Counted("creates", MaxCreates)
    /\ create' = [create EXCEPT ![c] = NewCreate("quote", u)]
    /\ UNCHANGED <<launcher, external, abandoned, taken>>

QuoteAccepted(c) ==
    /\ create[c].pc = "quote"
    /\ create' = [create EXCEPT ![c].pc = "pay"]
    /\ UNCHANGED <<launcher, external, abandoned, calls, taken>>

\* The quote or the transfer is refused: a panic, nothing was paid.
PaymentRefused(c) ==
    /\ create[c].pc \in {"quote", "pay"}
    /\ create' = [create EXCEPT ![c] = IdleCreate]
    /\ UNCHANGED <<launcher, external, abandoned, calls, taken>>

\* transfer_from is carried out by the ledger (external).
LedgerCharges(c) ==
    /\ create[c].pc = "pay"
    /\ charged' = [charged EXCEPT ![create[c].user] = @ + 1]
    /\ create' = [create EXCEPT ![c].pc = "paid"]
    /\ UNCHANGED <<launcher, made, code, abandoned, calls, taken>>

\* Faulty: the index is the number of projects, not counted.
TakeIndexByProjects(c) ==
    /\ create[c].pc = "paid"
    /\ create' = [create EXCEPT ![c].pc = "token", ![c].idx = Cardinality(DOMAIN fomos) + 1]
    /\ UNCHANGED <<launcher, external, abandoned, calls, taken>>

\* The answer of the ledger: the index is counted, createToken awaited.
TakeIndex(c) ==
    /\ create[c].pc = "paid"
    /\ count' = count + 1
    /\ create' = [create EXCEPT ![c].pc = "token", ![c].idx = count + 1]
    /\ UNCHANGED <<profiles, fomos, last_create, rewards, external, abandoned, calls, taken>>

\* The backend made the token (external).
TokenCreated(c) ==
    /\ create[c].pc = "token"
    /\ made' = [made EXCEPT !.token = @ + 1]
    /\ create' = [create EXCEPT ![c].pc = "approve", ![c].token = made.token + 1]
    /\ UNCHANGED <<launcher, code, charged, abandoned, calls, taken>>

\* The supply is approved for the router.
RouterApproved(c) ==
    /\ create[c].pc = "approve"
    /\ create' = [create EXCEPT ![c].pc = "pool"]
    /\ UNCHANGED <<launcher, external, abandoned, calls, taken>>

\* The router made the pool of the token (external).
PoolCreated(c) ==
    /\ create[c].pc = "pool"
    /\ made' = [made EXCEPT !.pool = @ + 1]
    /\ create' = [create EXCEPT ![c].pc = "canister", ![c].pool = made.pool + 1]
    /\ UNCHANGED <<launcher, code, charged, abandoned, calls, taken>>

CanisterCreated(c) ==
    /\ create[c].pc = "canister"
    /\ made' = [made EXCEPT !.canister = @ + 1]
    /\ create' = [create EXCEPT ![c].pc = "upload", ![c].canister = made.canister + 1]
    /\ UNCHANGED <<launcher, code, charged, abandoned, calls, taken>>

\* Neither the upload nor canister_status changes anything here: a canister
\* that was just made has no module.
ImageUploaded(c) ==
    /\ create[c].pc = "upload"
    /\ create' = [create EXCEPT ![c].pc = "status"]
    /\ UNCHANGED <<launcher, external, abandoned, calls, taken>>

StatusRead(c) ==
    /\ create[c].pc = "status"
    /\ create[c].canister \notin DOMAIN code
    /\ create' = [create EXCEPT ![c].pc = "install"]
    /\ UNCHANGED <<launcher, external, abandoned, calls, taken>>

\* Faulty: the metadata holds the counter, read again after the awaits.
CodeInstalledWithCount(c) ==
    /\ create[c].pc = "install"
    /\ code' = Put(code, create[c].canister, count)
    /\ create' = [create EXCEPT ![c].pc = "installed"]
    /\ UNCHANGED <<launcher, made, charged, abandoned, calls, taken>>

\* install_code is carried out: the project canister runs from here on, and
\* knows its index, while the launcher does not know the project yet.
CodeInstalled(c) ==
    /\ create[c].pc = "install"
    /\ code' = Put(code, create[c].canister, create[c].idx)
    /\ create' = [create EXCEPT ![c].pc = "installed"]
    /\ UNCHANGED <<launcher, made, charged, abandoned, calls, taken>>

\* Faulty: the creator's reward is forgotten.
FomoRegisteredOnly(c) ==
    LET f == create[c]
    IN  /\ f.pc = "installed"
        /\ fomos' = Put(fomos, f.idx, [user |-> f.user, token |-> f.token,
                                       pool |-> f.pool, canister |-> f.canister])
        /\ last_create' = f.idx
        /\ create' = [create EXCEPT ![c] = IdleCreate]
        /\ UNCHANGED <<profiles, count, rewards, external, abandoned, calls, taken>>

\* The last segment: the project is registered, shown as the last one created,
\* and init_points and add_points reward the creator.
FomoRegistered(c) ==
    LET f == create[c]
    IN  /\ f.pc = "installed"
        /\ fomos' = Put(fomos, f.idx, [user |-> f.user, token |-> f.token,
                                       pool |-> f.pool, canister |-> f.canister])
        /\ last_create' = f.idx
        /\ rewards' = [rewards EXCEPT ![f.user] = @ + 1]
        /\ create' = [create EXCEPT ![c] = IdleCreate]
        /\ UNCHANGED <<profiles, count, external, abandoned, calls, taken>>

\* A call after the payment fails or is answered with an error: unwrap, throw
\* or throw_call_res panics, and nothing gives the fee or the index back.
CreateFails(c) ==
    /\ create[c].pc \in Indexed \ {"installed"}
    /\ Counted("failures", MaxFailures)
    /\ abandoned' = [abandoned EXCEPT ![create[c].user] = @ + 1]
    /\ create' = [create EXCEPT ![c] = IdleCreate]
    /\ UNCHANGED <<launcher, external, taken>>

-----------------------------------------------------------------------------
(* The other handlers *)

\* edit_user registers a user; nothing removes one.
Register(u) ==
    /\ u \notin profiles
    /\ profiles' = profiles \cup {u}
    /\ UNCHANGED <<fomos, count, last_create, rewards, create, external, abandoned,
                   calls, taken>>

\* count is a public update method: any caller takes an index.
Count ==
    /\ Counted("counts", MaxCounts)
    /\ count' = count + 1
    /\ taken' = taken \cup {count + 1}
    /\ UNCHANGED <<profiles, fomos, last_create, rewards, create, external, abandoned>>

\* post_upgrade inserts the saved projects and profiles into empty maps and
\* takes the context and the counters over.
Restore(saved) ==
    /\ fomos' = saved.fomos
    /\ profiles' = saved.profiles
    /\ last_create' = saved.context
    /\ count' = saved.counter

\* The canister is stopped first, which waits for the calls in flight.
Upgrade ==
    /\ \A c \in Creates : create[c].pc = "idle"
    /\ Counted("upgrades", MaxUpgrades)
    /\ Restore([fomos |-> fomos, profiles |-> profiles, context |-> last_create,
                counter |-> count])
    /\ UNCHANGED <<rewards, create, external, abandoned, taken>>

-----------------------------------------------------------------------------
(* The specification *)

Init ==
    /\ profiles = {}
    /\ fomos = [i \in {} |-> 0]
    /\ count = 0
    /\ last_create = 0
    /\ rewards = [u \in Users |-> 0]
    /\ create = [c \in Creates |-> IdleCreate]
    /\ made = [token |-> 0, pool |-> 0, canister |-> 0]
    /\ code = [i \in {} |-> 0]
    /\ charged = [u \in Users |-> 0]
    /\ abandoned = [u \in Users |-> 0]
    /\ calls = [creates |-> 0, counts |-> 0, failures |-> 0, upgrades |-> 0]
    /\ taken = {}

CreateProgress(c) ==
    \/ QuoteAccepted(c)
    \/ PaymentRefused(c)
    \/ LedgerCharges(c)
    \/ TakeIndex(c)
    \/ TokenCreated(c)
    \/ RouterApproved(c)
    \/ PoolCreated(c)
    \/ CanisterCreated(c)
    \/ ImageUploaded(c)
    \/ StatusRead(c)
    \/ CodeInstalled(c)
    \/ FomoRegistered(c)
    \/ CreateFails(c)

Next ==
    \/ \E c \in Creates : CreateProgress(c) \/ \E u \in Users : CreateFomo(c, u)
    \/ \E u \in Users : Register(u)
    \/ Count
    \/ Upgrade

Spec == Init /\ [][Next]_vars

\* The subnet delivers every answer.
Fairness == \A c \in Creates : WF_vars(CreateProgress(c))

LiveSpec == Spec /\ Fairness

-----------------------------------------------------------------------------
(* Properties *)

\* The types of the state.
TypeOK ==
    /\ profiles \subseteq Users
    /\ \A i \in DOMAIN fomos : fomos[i] \in Project
    /\ count \in Nat
    /\ last_create \in DOMAIN fomos \cup {0}
    /\ rewards \in [Users -> Nat]
    /\ create \in [Creates -> CreateCall]
    /\ made \in [token : Nat, pool : Nat, canister : Nat]
    /\ \A k \in DOMAIN code : code[k] \in Nat
    /\ charged \in [Users -> Nat]
    /\ abandoned \in [Users -> Nat]
    /\ calls \in [creates : 0..MaxCreates, counts : 0..MaxCounts,
                  failures : 0..MaxFailures, upgrades : 0..MaxUpgrades]
    /\ taken \subseteq Nat

\* An index belongs to one project, one call in flight or one other caller of
\* count, and none is ahead of the counter: no registration can overwrite a
\* project, across failures and upgrades (count, create_fomo, post_upgrade).
IndexOwned ==
    /\ DOMAIN fomos \cup taken \subseteq 1..count
    /\ DOMAIN fomos \cap taken = {}
    /\ \A c \in Creates : create[c].pc \in Indexed =>
           /\ create[c].idx \in 1..count
           /\ create[c].idx \notin DOMAIN fomos \cup taken
           /\ \A d \in Creates \ {c} : create[d].pc \in Indexed => create[d].idx # create[c].idx

\* A registered project is never changed by a later creation, nor by an
\* upgrade (create_fomo's insert, post_upgrade).
ProjectsKept ==
    [][\A i \in DOMAIN fomos : i \in DOMAIN fomos' /\ fomos'[i] = fomos[i]]_vars

\* Every registered project has a token, a pool and a canister that no other
\* project has, and its canister reports its replies under the project's own
\* index (create_fomo, the metadata given to install_code).
ResourcesOwned ==
    \A i \in DOMAIN fomos :
        /\ fomos[i].canister \in DOMAIN code
        /\ code[fomos[i].canister] = i
        /\ \A j \in DOMAIN fomos \ {i} : /\ fomos[i].token # fomos[j].token
                                         /\ fomos[i].pool # fomos[j].pool

CreatedBy(u) == {i \in DOMAIN fomos : fomos[i].user = u}

\* The types; and every fee that was charged paid for a registered project, for one on its
\* way, or for one that failed after the payment; and every registered project
\* was rewarded once (transfer_from, init_points and add_points in create_fomo).
FeesAccounted ==
    /\ TypeOK
    /\ \A u \in Users :
        /\ charged[u] = Cardinality(CreatedBy(u)) + abandoned[u]
                        + Cardinality({c \in Creates : create[c].pc \in Paid /\ create[c].user = u})
        /\ rewards[u] = Cardinality(CreatedBy(u))

\* Whoever paid gets a project in the end, but for the creations that a failing
\* call ended (create_fomo, from the charge to the registration).
PaidIsCreated ==
    \A u \in Users : \A n \in 1..MaxCreates :
        charged[u] >= n ~> Cardinality(CreatedBy(u)) + abandoned[u] >= n

=============================================================================
