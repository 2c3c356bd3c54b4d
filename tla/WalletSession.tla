---------------------------- MODULE WalletSession ----------------------------
(***************************************************************************)
(* The session of a user in the browser: the wallet adapter (Artemis in    *)
(* artemis-web3-adapter/src/index.js and the wallets it drives), connect,  *)
(* disconnect and restore (utils/wallet/connect.ts), the store and the     *)
(* local storage (store/app.ts), and the profile the header reads,         *)
(* registers and saves (layout/home/header.tsx).                           *)
(*                                                                         *)
(* JavaScript runs a callback to its next await without interruption.  A   *)
(* task is one such chain of awaits; its record keeps the place it waits   *)
(* at and the values it captured before.  What follows a wallet's answer   *)
(* up to the next request (Artemis.connect returning to requestConnect)    *)
(* takes no answer of anybody, and is one step.                            *)
(***************************************************************************)
EXTENDS Naturals, FiniteSets

CONSTANTS
    Principals,   \* who a wallet may log in
    Wallets,      \* the wallets of walletList
    Detected,     \* those whose adapter is Installed or Loadable
    Canisters,    \* the canisters the pages call with the wallet
    Launcher,     \* the launcher canister, which keeps the profiles
    Tasks,        \* slots for the chains of awaits in flight
    None,         \* '' and false: no user, no wallet, nothing stored
    MaxClicks,    \* bound: wallets selected and profile dialogs opened
    MaxLeaves,    \* bound: clicks on disconnect
    MaxReloads    \* bound: reloads of the page

ASSUME SessionAssumption ==
    /\ Detected \subseteq Wallets
    /\ Launcher \in Canisters
    /\ None \notin Principals \cup Wallets
    /\ {MaxClicks, MaxLeaves, MaxReloads} \subseteq Nat

VARIABLES
    authed,     \* who each wallet keeps logged in, across reloads (AuthClient, Plug)
    adapter,    \* Artemis: principalId and provider
    identity,   \* the identity in the agent of each wallet's adapter
    actors,     \* canisterActors: the identity of the actor kept per canister
    store,      \* AppStore
    storage,    \* localStorage
    profiles,   \* the launcher: what each principal is registered with
    task,       \* the chains of awaits in flight
    saving,     \* the profile being saved (isSave and where its chain is)
    leaving,    \* disconnects waiting for disconnect_force
    seen,       \* history: the principals connected since the page was loaded
    signed,     \* history: the latest wallet call made since then
    clicks, leaves, reloads

wallet == <<authed, adapter, identity, actors>>
client == <<store, storage>>
bounds == <<clicks, leaves, reloads>>
vars   == <<wallet, client, profiles, task, saving, leaving, seen, signed, bounds>>

User == Principals \cup {None}

Idle == [pc |-> "idle", kind |-> "connect", wallet |-> None, mem |-> None, who |-> None]

Task == [pc : {"idle", "profile", "enrol", "recheck", "wallet", "decimals", "balance",
               "read", "register", "reread"},
         kind : {"connect", "restore", "restored", "lookup"},
         wallet : Wallets \cup {None},
         mem : User,       \* the principal a restore found in local storage
         who : User]       \* account, user or signer captured before the await

Saving == [pc : {"idle", "upload", "edit", "reread", "stuck"}, who : User]

NoStore == [userId |-> None, connectType |-> None, accountId |-> None,
            profile |-> None, icp |-> None]

NoStorage == [principalId |-> None, walletType |-> None, profile |-> None]

TypeOK ==
    /\ authed \in [Wallets -> User]
    /\ adapter \in [principalId : User, provider : Wallets \cup {None}]
    /\ identity \in [Wallets -> User]
    /\ actors \in [Canisters -> User]
    /\ store \in [userId : User, connectType : Wallets \cup {None},
                  accountId : User, profile : User, icp : User]
    /\ storage \in [principalId : User, walletType : Wallets \cup {None}, profile : User]
    /\ profiles \in [Principals -> {"none", "default", "saved"}]
    /\ task \in [Tasks -> Task]
    /\ saving \in Saving
    /\ leaving \in 0..MaxLeaves
    /\ seen \subseteq Principals
    /\ signed \subseteq [by : User, shown : User, seen : SUBSET Principals]
    /\ clicks \in 0..MaxClicks /\ leaves \in 0..MaxLeaves /\ reloads \in 0..MaxReloads

\* A page just loaded; the local storage is what the last visit left.
Blank ==
    /\ adapter' = [principalId |-> None, provider |-> None]
    /\ identity' = [w \in Wallets |-> None]
    /\ actors' = [c \in Canisters |-> None]
    /\ store' = NoStore
    /\ saving' = [pc |-> "idle", who |-> None]
    /\ leaving' = 0
    /\ seen' = {}
    /\ signed' = {}

Init ==
    /\ authed = [w \in Wallets |-> None]
    /\ adapter = [principalId |-> None, provider |-> None]
    /\ identity = [w \in Wallets |-> None]
    /\ actors = [c \in Canisters |-> None]
    /\ store = NoStore
    /\ storage = NoStorage
    /\ profiles = [p \in Principals |-> "none"]
    /\ task = [t \in Tasks |-> Idle]
    /\ saving = [pc |-> "idle", who |-> None]
    /\ leaving = 0
    /\ seen = {}
    /\ signed = {}
    /\ clicks = 0 /\ leaves = 0 /\ reloads = 0

-----------------------------------------------------------------------------
(* Calls made with the wallet *)

\* createWalletActor: an actor made before is used again whoever is connected now;
\* a new one needs a provider, and createActor of `false' throws.
CanSign(c) == actors[c] # None \/ adapter.provider # None

SignerOf(c) == IF actors[c] # None THEN actors[c] ELSE identity[adapter.provider]

\* A call to canister c is sent with the actor, which is kept from then on.
Send(c) ==
    /\ CanSign(c)
    /\ actors' = [actors EXCEPT ![c] = SignerOf(c)]
    /\ signed' = {[by |-> SignerOf(c), shown |-> store.userId, seen |-> seen]}

\* A trade, an approval, a comment: the pages do this for a connected user.
PageCalls(c) ==
    /\ store.userId # None
    /\ Send(c)
    /\ UNCHANGED <<authed, adapter, identity, client, profiles, task, saving, leaving, seen, bounds>>

-----------------------------------------------------------------------------
(* Connecting *)

\* Faulty: a restore reads the balance again and again.
AfterConnectRetrying(t, st) ==
    /\ store' = [st EXCEPT !.accountId = task[t].mem]
    /\ task' = [task EXCEPT ![t].pc = "decimals"]

\* What follows requestConnect: BtnSelectWallet reads the profile of the user of the
\* store, or reports an error; a restore sets the account it remembered and reads the
\* balance once more.
AfterConnect(t, st) ==
    \/ /\ task[t].kind = "connect"
       /\ store' = st
       /\ task' = [task EXCEPT ![t] = IF st.userId = None THEN Idle
                     ELSE [Idle EXCEPT !.pc = "read", !.who = st.userId]]
    \/ /\ task[t].kind = "restore"
       /\ store' = [st EXCEPT !.accountId = task[t].mem]
       /\ task' = [task EXCEPT ![t].kind = "restored", ![t].pc = "decimals"]
    \/ /\ task[t].kind = "restored"
       /\ store' = st
       /\ task' = [task EXCEPT ![t] = Idle]

\* requestConnect with the principal that Artemis.connect returned.
Connected(t, w, p) ==
    /\ store' = [store EXCEPT !.userId = p, !.connectType = w, !.accountId = p]
    /\ storage' = [storage EXCEPT !.principalId = p, !.walletType = w]
    /\ task' = [task EXCEPT ![t].pc = "decimals", ![t].wallet = w]

\* A click on a wallet in the dialog, which is there for a user not connected.  The
\* page of a wallet that is not detected is opened, and connect returns the principal
\* of the last connection, if there was one.
SelectWallet(t, w) ==
    /\ store.userId = None
    /\ task[t].pc = "idle"
    /\ clicks < MaxClicks
    /\ clicks' = clicks + 1
    /\ \/ /\ w \in Detected
          /\ task' = [task EXCEPT ![t] = [Idle EXCEPT !.pc = "wallet", !.wallet = w]]
          /\ UNCHANGED client
       \/ /\ w \notin Detected /\ adapter.principalId # None
          /\ Connected(t, w, adapter.principalId)
    /\ UNCHANGED <<wallet, profiles, saving, leaving, seen, signed, leaves, reloads>>

\* connectWallet resolves with p: connect and requestConnect go on.
LoggedIn(t, w, p) ==
    /\ identity' = [identity EXCEPT ![w] = p]
    /\ adapter' = [principalId |-> p, provider |-> w]
    /\ Connected(t, w, p)
    /\ seen' = seen \cup {p}
    /\ UNCHANGED <<actors, profiles, saving, leaving, signed, bounds>>

\* The wallet has somebody logged in already (isAuthenticated, isConnected).
WalletResumes(t) ==
    /\ task[t].pc = "wallet"
    /\ authed[task[t].wallet] # None
    /\ LoggedIn(t, task[t].wallet, authed[task[t].wallet])
    /\ UNCHANGED authed

\* Faulty: the agent is made before the login is awaited.
WalletLogsInLate(t, p) ==
    /\ task[t].pc = "wallet"
    /\ authed[task[t].wallet] = None
    /\ authed' = [authed EXCEPT ![task[t].wallet] = p]
    /\ adapter' = [principalId |-> p, provider |-> task[t].wallet]
    /\ Connected(t, task[t].wallet, p)
    /\ seen' = seen \cup {p}
    /\ UNCHANGED <<identity, actors, profiles, saving, leaving, signed, bounds>>

\* It asks the user, who logs in p.
WalletLogsIn(t, p) ==
    /\ task[t].pc = "wallet"
    /\ authed[task[t].wallet] = None
    /\ authed' = [authed EXCEPT ![task[t].wallet] = p]
    /\ LoggedIn(t, task[t].wallet, p)

\* The wallet refuses, fails or (after a reload) is gone: connect returns false.
WalletRefuses(t) ==
    /\ task[t].pc = "wallet"
    /\ AfterConnect(t, store)
    /\ UNCHANGED <<wallet, storage, profiles, saving, leaving, seen, signed, bounds>>

\* decimals() answers; the account is read from the store now, for the balance.
DecimalsAnswer(t) ==
    /\ task[t].pc = "decimals"
    /\ task' = [task EXCEPT ![t].pc = "balance", ![t].who = store.accountId]
    /\ UNCHANGED <<wallet, client, profiles, saving, leaving, seen, signed, bounds>>

BalanceAnswers(t) ==
    /\ task[t].pc = "balance"
    /\ AfterConnect(t, [store EXCEPT !.icp = task[t].who])
    /\ UNCHANGED <<wallet, storage, profiles, saving, leaving, seen, signed, bounds>>

\* One of the two is rejected: requestConnect returns false, which nobody looks at.
BalanceFails(t) ==
    /\ task[t].pc \in {"decimals", "balance"}
    /\ AfterConnect(t, store)
    /\ UNCHANGED <<wallet, storage, profiles, saving, leaving, seen, signed, bounds>>

-----------------------------------------------------------------------------
(* Disconnecting and reloading *)

\* BtnDisconnectWallet.  The wallet is told to log out; nobody waits for it, and it may
\* fail.  Without a provider disconnect throws at once and only the
\* last lines of connect.ts's disconnect run.
Disconnect ==
    /\ store.userId # None
    /\ leaves < MaxLeaves
    /\ leaves' = leaves + 1
    /\ IF adapter.provider = None
       THEN /\ store' = [store EXCEPT !.userId = None]
            /\ storage' = [storage EXCEPT !.principalId = None, !.walletType = None]
            /\ UNCHANGED <<authed, leaving>>
       ELSE /\ leaving' = leaving + 1
            /\ \/ authed' = [authed EXCEPT ![adapter.provider] = None]
               \/ UNCHANGED authed
            /\ UNCHANGED client
    /\ UNCHANGED <<adapter, identity, actors, profiles, task, saving, seen, signed, clicks, reloads>>

\* Faulty: the user stays in the store.
DisconnectEndsKeepingUser ==
    /\ leaving > 0
    /\ leaving' = leaving - 1
    /\ adapter' = [adapter EXCEPT !.provider = None]
    /\ storage' = NoStorage
    /\ UNCHANGED <<authed, identity, actors, store, profiles, task, saving, seen, signed, bounds>>

\* disconnect_force is through; the principal and the actors of the adapter stay.
DisconnectEnds ==
    /\ leaving > 0
    /\ leaving' = leaving - 1
    /\ adapter' = [adapter EXCEPT !.provider = None]
    /\ storage' = NoStorage
    /\ store' = [store EXCEPT !.userId = None]
    /\ UNCHANGED <<authed, identity, actors, profiles, task, saving, seen, signed, bounds>>

\* The page is loaded again: the memory is gone, and verifyConnectionAndAgent begins.
Reload(t) ==
    /\ reloads < MaxReloads
    /\ reloads' = reloads + 1
    /\ Blank
    /\ task' = [s \in Tasks |->
                  IF s = t /\ storage.principalId # None
                  THEN [pc |-> "profile", kind |-> "restore", wallet |-> storage.walletType,
                        mem |-> storage.principalId, who |-> None]
                  ELSE Idle]
    /\ UNCHANGED <<authed, storage, profiles, clicks, leaves>>

\* The profile of p is shown and its name and picture are stored.
ShowProfile(p) ==
    /\ store' = [store EXCEPT !.profile = p]
    /\ storage' = [storage EXCEPT !.profile = p]

\* requestConnect of a restore, from the store st and the storage sg.  The page of a wallet
\* that is not detected is opened, and connect returns whoever connected meanwhile, or
\* nobody.
Reconnect(t, st, sg) ==
    LET w == task[t].wallet
        a == adapter.principalId
    IN  \/ /\ w \in Detected
           /\ task' = [task EXCEPT ![t].pc = "wallet"]
           /\ store' = st
           /\ storage' = sg
        \/ /\ w \notin Detected /\ a # None
           /\ task' = [task EXCEPT ![t].pc = "decimals"]
           /\ store' = [st EXCEPT !.userId = a, !.connectType = w, !.accountId = a]
           /\ storage' = [sg EXCEPT !.principalId = a, !.walletType = w]
        \/ /\ w \notin Detected /\ a = None
           /\ task' = [task EXCEPT ![t].kind = "restored", ![t].pc = "decimals"]
           /\ store' = [st EXCEPT !.accountId = task[t].mem]
           /\ storage' = sg

\* The same after the profile of the remembered principal was shown.
ReconnectShowing(t) ==
    Reconnect(t, [store EXCEPT !.profile = task[t].mem], [storage EXCEPT !.profile = task[t].mem])

\* verifyConnectionAndAgent reads the profile first, and goes on to requestConnect.  Without
\* one it registers the user with the wallet another chain connected meanwhile; while no
\* wallet is connected createActor throws and the restore is over.
RestoreReads(t) ==
    /\ task[t].pc = "profile"
    /\ LET p == task[t].mem IN
       \/ /\ profiles[p] # "none"
          /\ ReconnectShowing(t)
          /\ UNCHANGED <<actors, signed>>
       \/ /\ profiles[p] = "none"
          /\ Send(Launcher)
          /\ task' = [task EXCEPT ![t].pc = "enrol", ![t].who = SignerOf(Launcher)]
          /\ UNCHANGED client
       \/ /\ profiles[p] = "none"
          /\ ~CanSign(Launcher)
          /\ task' = [task EXCEPT ![t] = Idle]
          /\ UNCHANGED <<actors, signed, client>>
    /\ UNCHANGED <<authed, adapter, identity, profiles, saving, leaving, seen, bounds>>

\* edit_user runs for whoever signed it; the remembered principal is read again.
RestoreRegisters(t) ==
    /\ task[t].pc = "enrol"
    /\ profiles' = [profiles EXCEPT ![task[t].who] = "default"]
    /\ task' = [task EXCEPT ![t].pc = "recheck"]
    /\ UNCHANGED <<wallet, client, saving, leaving, seen, signed, bounds>>

RestoreRereads(t) ==
    /\ task[t].pc = "recheck"
    /\ IF profiles[task[t].mem] # "none" THEN ReconnectShowing(t)
                                         ELSE Reconnect(t, store, storage)
    /\ UNCHANGED <<wallet, profiles, saving, leaving, seen, signed, bounds>>

\* A read or the registration is rejected: so is verifyConnectionAndAgent.
RestoreFails(t) ==
    /\ task[t].pc \in {"profile", "enrol", "recheck"}
    /\ task' = [task EXCEPT ![t] = Idle]
    /\ UNCHANGED <<wallet, client, profiles, saving, leaving, seen, signed, bounds>>

-----------------------------------------------------------------------------
(* The profile in the header *)

\* openUserEditInfoOpen: the name is in local storage, or the profile is read.
OpenProfile(t) ==
    /\ store.userId # None
    /\ storage.profile = None
    /\ task[t].pc = "idle"
    /\ clicks < MaxClicks
    /\ clicks' = clicks + 1
    /\ task' = [task EXCEPT ![t] = [Idle EXCEPT !.pc = "read", !.kind = "lookup",
                                                !.who = store.userId]]
    /\ UNCHANGED <<wallet, client, profiles, saving, leaving, seen, signed, leaves, reloads>>

\* getUserInfo's first answer: a profile is shown; a user without one is registered.
LookupAnswers(t) ==
    /\ task[t].pc = "read"
    /\ LET p == task[t].who IN
       \/ /\ profiles[p] # "none"
          /\ ShowProfile(p)
          /\ task' = [task EXCEPT ![t] = Idle]
          /\ UNCHANGED <<actors, signed>>
       \/ /\ profiles[p] = "none"
          /\ Send(Launcher)
          /\ task' = [task EXCEPT ![t].pc = "register", ![t].who = SignerOf(Launcher)]
          /\ UNCHANGED client
       \/ /\ profiles[p] = "none"
          /\ ~CanSign(Launcher)
          /\ task' = [task EXCEPT ![t] = Idle]
          /\ UNCHANGED <<actors, signed, client>>
    /\ UNCHANGED <<authed, adapter, identity, profiles, saving, leaving, seen, bounds>>

\* edit_user with the avatar "default" runs for whoever signed it; the profile is then
\* read again, for the user of the store now ('' is no principal: an error).
Registers(t) ==
    /\ task[t].pc = "register"
    /\ profiles' = [profiles EXCEPT ![task[t].who] = "default"]
    /\ task' = [task EXCEPT ![t] = IF store.userId = None THEN Idle
                  ELSE [task[t] EXCEPT !.pc = "reread", !.who = store.userId]]
    /\ UNCHANGED <<wallet, client, saving, leaving, seen, signed, bounds>>

RereadAnswers(t) ==
    /\ task[t].pc = "reread"
    /\ IF profiles[task[t].who] # "none" THEN ShowProfile(task[t].who) ELSE UNCHANGED client
    /\ task' = [task EXCEPT ![t] = Idle]
    /\ UNCHANGED <<wallet, profiles, saving, leaving, seen, signed, bounds>>

\* The read or the registration is rejected ("getUserInfo error").
LookupFails(t) ==
    /\ task[t].pc \in {"read", "register", "reread"}
    /\ task' = [task EXCEPT ![t] = Idle]
    /\ UNCHANGED <<wallet, client, profiles, saving, leaving, seen, signed, bounds>>

\* SaveUserEditInfo: the button is loading while isSave is set.  A new picture is
\* uploaded first; edit_user is called with the wallet.
SaveProfile ==
    /\ store.userId # None
    /\ saving.pc = "idle"
    /\ clicks < MaxClicks
    /\ clicks' = clicks + 1
    /\ \/ /\ saving' = [saving EXCEPT !.pc = "upload"]
          /\ UNCHANGED <<actors, signed>>
       \/ /\ Send(Launcher)
          /\ saving' = [pc |-> "edit", who |-> SignerOf(Launcher)]
    /\ UNCHANGED <<authed, adapter, identity, client, profiles, task, leaving, seen, leaves, reloads>>

Uploaded ==
    /\ saving.pc = "upload"
    /\ Send(Launcher)
    /\ saving' = [pc |-> "edit", who |-> SignerOf(Launcher)]
    /\ UNCHANGED <<authed, adapter, identity, client, profiles, task, leaving, seen, bounds>>

\* Upload or call rejected, or edit_user answers Err: a message, and isSave is reset.
SaveFails ==
    /\ saving.pc \in {"upload", "edit"}
    /\ saving' = [pc |-> "idle", who |-> None]
    /\ UNCHANGED <<wallet, client, profiles, task, leaving, seen, signed, bounds>>

\* edit_user answers Ok.  The profile is read for the user of the store now; without a
\* user that throws outside any try, and isSave stays set.
Saved ==
    /\ saving.pc = "edit"
    /\ profiles' = [profiles EXCEPT ![saving.who] = "saved"]
    /\ saving' = IF store.userId = None THEN [pc |-> "stuck", who |-> None]
                 ELSE [pc |-> "reread", who |-> store.userId]
    /\ UNCHANGED <<wallet, client, task, leaving, seen, signed, bounds>>

\* The answer is shown; a user without a profile (res[0]!) or a rejected read throws too.
SaveShown ==
    /\ saving.pc = "reread"
    /\ \/ /\ profiles[saving.who] # "none"
          /\ ShowProfile(saving.who)
          /\ saving' = [pc |-> "idle", who |-> None]
       \/ saving' = [pc |-> "stuck", who |-> None] /\ UNCHANGED client
    /\ UNCHANGED <<wallet, profiles, task, leaving, seen, signed, bounds>>

-----------------------------------------------------------------------------
Next ==
    \/ \E t \in Tasks :
          \/ \E w \in Wallets : SelectWallet(t, w)
          \/ \E p \in Principals : WalletLogsIn(t, p)
          \/ WalletResumes(t) \/ WalletRefuses(t) \/ DecimalsAnswer(t) \/ BalanceAnswers(t) \/ BalanceFails(t)
          \/ Reload(t)
          \/ RestoreReads(t) \/ RestoreRegisters(t) \/ RestoreRereads(t) \/ RestoreFails(t)
          \/ OpenProfile(t) \/ LookupAnswers(t) \/ Registers(t) \/ RereadAnswers(t)
          \/ LookupFails(t)
    \/ \E c \in Canisters : PageCalls(c)
    \/ Disconnect \/ DisconnectEnds
    \/ SaveProfile \/ Uploaded \/ SaveFails \/ Saved \/ SaveShown

Spec == Init /\ [][Next]_vars

\* The ledger and the launcher answer or are reported to have failed.  Nothing is
\* asked of a wallet (a login window may stay open) nor of disconnect_force.
TaskAnswered(t) ==
    \/ DecimalsAnswer(t) \/ BalanceAnswers(t) \/ BalanceFails(t)
    \/ RestoreReads(t) \/ RestoreRegisters(t) \/ RestoreRereads(t) \/ RestoreFails(t)
    \/ LookupAnswers(t) \/ Registers(t) \/ RereadAnswers(t) \/ LookupFails(t)

SaveAnswered == Uploaded \/ SaveFails \/ Saved \/ SaveShown

Fairness == (\A t \in Tasks : WF_vars(TaskAnswered(t))) /\ WF_vars(SaveAnswered)

LiveSpec == Spec /\ Fairness

-----------------------------------------------------------------------------
(* Properties *)

\* The types of the state; and the four places that say who is connected agree: the user
\* shown is the principal of the adapter and the one a reload will restore, with the
\* wallet he chose, the agent of the active wallet has his identity, and that wallet keeps
\* nobody else logged in (connect in index.js, requestConnect, disconnect).
SessionAgrees ==
    /\ TypeOK
    /\ store.userId # None =>
           /\ adapter.principalId = store.userId
           /\ storage.principalId = store.userId
           /\ storage.walletType = store.connectType
    /\ adapter.provider # None => identity[adapter.provider] = adapter.principalId
    /\ storage.principalId # None => authed[storage.walletType] \in {None, storage.principalId}

\* A call is signed by somebody who connected since the page was loaded, and by the
\* user the page shows unless several did: the actors kept from an earlier
\* connection are then used again (getCanisterActor, disconnect).
SignerKnown ==
    \A s \in signed :
        /\ s.by \in s.seen
        /\ s.by = s.shown \/ s.shown = None \/ Cardinality(s.seen) > 1

\* Every chain of awaits ends or waits for the wallet it opened: connecting, restoring and
\* reading a profile settle although any answer may fail (requestConnect,
\* verifyConnectionAndAgent, getUserInfo).
ChainsSettle ==
    \A t \in Tasks : (task[t].pc # "idle") ~> (task[t].pc \in {"idle", "wallet"})

=============================================================================
