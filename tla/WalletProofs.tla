----------------------------- MODULE WalletProofs -----------------------------
(***************************************************************************)
(* What the browser promises of the user's wallet.                         *)
(*                                                                         *)
(* WalletSession, for every set of principals, wallets, canisters and      *)
(* chains: who is connected, and who signs a call.                         *)
(*                                                                         *)
(* BatchTransact, for any number of steps of which each gives the next its *)
(* arguments, any number of executions, retries and lost answers: a batch  *)
(* that is done is complete, and a retry repeats nothing.                  *)
(*                                                                         *)
(* TradeFlow, for any number of projects, trades, changes of the form and  *)
(* status requests: what is traded is what is shown, a swap is reported    *)
(* only if it was made, and finds its approval unless the button was free. *)
(***************************************************************************)
EXTENDS WalletAdapter, TradeFlow, Integers, FiniteSums, SequenceTheorems, FiniteSetTheorems,
        TLAPS

-----------------------------------------------------------------------------
(* WalletSession: the session *)

-----------------------------------------------------------------------------
(* The invariant *)

Adapter == [principalId : User, provider : Wallets \cup {None}]

Store == [userId : User, connectType : Wallets \cup {None},
          accountId : User, profile : User, icp : User]

Storage == [principalId : User, walletType : Wallets \cup {None}, profile : User]

\* The four places that say who is connected; the storage names a principal and a wallet
\* or neither, and only a wallet that is there keeps somebody logged in.
Session ==
    /\ authed \in [Wallets -> User] /\ identity \in [Wallets -> User]
    /\ adapter \in Adapter /\ store \in Store /\ storage \in Storage
    /\ store.userId # None =>
           /\ adapter.principalId = store.userId
           /\ storage.principalId = store.userId
           /\ storage.walletType = store.connectType
    /\ adapter.provider # None =>
           /\ identity[adapter.provider] = adapter.principalId
           /\ adapter.principalId # None
    /\ storage.principalId # None =>
           /\ storage.walletType # None
           /\ authed[storage.walletType] \in {None, storage.principalId}
    /\ \A w \in Wallets : authed[w] # None => w \in Detected

\* Whoever may sign connected since the page was loaded.
Signing ==
    /\ actors \in [Canisters -> User]
    /\ seen \subseteq Principals
    /\ signed \subseteq [by : User, shown : User, seen : SUBSET Principals]
    /\ IsFiniteSet(seen)
    /\ adapter.principalId # None => adapter.principalId \in seen
    /\ \A c \in Canisters : actors[c] # None => actors[c] \in seen
    /\ SignerKnown

\* A chain waits only for a wallet that is there; a restore captured what it restores.
Chains ==
    /\ task \in [Tasks -> Task]
    /\ \A t \in Tasks :
           /\ task[t].pc = "wallet" => task[t].wallet \in Detected
           /\ task[t].pc \in {"profile", "enrol", "recheck"} =>
                  task[t].wallet # None /\ task[t].mem # None

Rest ==
    /\ profiles \in [Principals -> {"none", "default", "saved"}]
    /\ saving \in Saving
    /\ leaving \in 0..MaxLeaves /\ leaving <= leaves
    /\ clicks \in 0..MaxClicks /\ leaves \in 0..MaxLeaves /\ reloads \in 0..MaxReloads

WInv == Session /\ Signing /\ Chains /\ Rest

-----------------------------------------------------------------------------
(* What a step leaves alone *)

LEMMA Constant ==
    /\ Detected \subseteq Wallets /\ Launcher \in Canisters
    /\ None \notin Principals /\ None \notin Wallets
    /\ MaxClicks \in Nat /\ MaxLeaves \in Nat /\ MaxReloads \in Nat
  BY SessionAssumption

LEMMA SessionSame ==
    ASSUME Session, authed' = authed, identity' = identity, adapter' = adapter,
           store' \in Store, storage' \in Storage,
           store'.userId = store.userId, store'.connectType = store.connectType,
           storage'.principalId = storage.principalId,
           storage'.walletType = storage.walletType
    PROVE  Session'
  BY DEF Session, Adapter, Store, Storage, User

LEMMA SigningSame ==
    ASSUME Signing, actors' = actors, seen' = seen, signed' = signed,
           adapter'.principalId = adapter.principalId
    PROVE  Signing'
  BY DEF Signing, SignerKnown, User

LEMMA RestSame ==
    ASSUME Rest, profiles' = profiles, saving' = saving, leaving' = leaving,
           clicks' = clicks, leaves' = leaves, reloads' = reloads
    PROVE  Rest'
  BY DEF Rest, Saving, User

LEMMA ChainsSame == ASSUME Chains, task' = task PROVE Chains'
  BY DEF Chains, Task, User

\* One chain takes a step.
LEMMA OneChain ==
    ASSUME Chains, NEW t \in Tasks, NEW r \in Task, task' = [task EXCEPT ![t] = r],
           r.pc = "wallet" => r.wallet \in Detected,
           r.pc \in {"profile", "enrol", "recheck"} => r.wallet # None /\ r.mem # None
    PROVE  Chains'
<1>1. task' \in [Tasks -> Task]
  BY DEF Chains
<1>2. ASSUME NEW s \in Tasks
      PROVE  /\ task'[s].pc = "wallet" => task'[s].wallet \in Detected
             /\ task'[s].pc \in {"profile", "enrol", "recheck"} =>
                    task'[s].wallet # None /\ task'[s].mem # None
  BY DEF Chains
<1> HIDE DEF Chains
<1>3. task' \in [Tasks -> Task]'
  BY <1>1 DEF Task, User
<1> QED BY <1>2, <1>3 DEF Chains

LEMMA IdleTask == Idle \in Task /\ Idle.pc = "idle"
  BY DEF Idle, Task, User

LEMMA ChainEnds ==
    ASSUME Chains, NEW t \in Tasks, task' = [task EXCEPT ![t] = Idle]
    PROVE  Chains'
  BY IdleTask, OneChain

\* A chain that goes on to its next await.
LEMMA MovedTask ==
    ASSUME NEW r \in Task, NEW p \in {"enrol", "decimals", "balance", "register", "reread"},
           NEW w \in User
    PROVE  LET s == [r EXCEPT !.pc = p, !.who = w]
           IN  s \in Task /\ s.pc = p
  BY DEF Task

\* Moving a task in two fields is giving it another record.
LEMMA MovedTasks ==
    ASSUME NEW f \in [Tasks -> Task], NEW t \in Tasks, NEW p, NEW w
    PROVE  [f EXCEPT ![t].pc = p, ![t].who = w] =
               [f EXCEPT ![t] = [f[t] EXCEPT !.pc = p, !.who = w]]
  BY f[t] \in Task DEF Task

LEMMA TypesFromParts == WInv => TypeOK
<1> SUFFICES ASSUME WInv PROVE TypeOK
  OBVIOUS
<1>1. /\ authed \in [Wallets -> User] /\ identity \in [Wallets -> User]
      /\ adapter \in Adapter /\ store \in Store /\ storage \in Storage
      /\ actors \in [Canisters -> User] /\ seen \subseteq Principals
      /\ signed \subseteq [by : User, shown : User, seen : SUBSET Principals]
      /\ task \in [Tasks -> Task]
  BY DEF WInv, Session, Signing, Chains
<1>2. Rest
  BY DEF WInv
<1> QED BY <1>1, <1>2 DEF TypeOK, Rest, Adapter, Store, Storage

-----------------------------------------------------------------------------
(* The calls *)

\* Whoever signs a call connected since the page was loaded, and is the user shown if
\* nobody else did.
LEMMA SendSteps ==
    ASSUME Session, Signing, NEW c \in Canisters, Send(c), adapter' = adapter, seen' = seen
    PROVE  Signing' /\ SignerOf(c) \in seen
<1> DEFINE s == SignerOf(c)
           call == [by |-> s, shown |-> store.userId, seen |-> seen]
<1>1. /\ actors \in [Canisters -> User] /\ identity \in [Wallets -> User]
      /\ adapter \in Adapter /\ store \in Store
      /\ seen \subseteq Principals /\ IsFiniteSet(seen)
      /\ adapter.principalId # None => adapter.principalId \in seen
  BY DEF Session, Signing
<1>2. s \in seen
  <2>1. CASE actors[c] # None
    BY <2>1 DEF Signing, SignerOf
  <2>2. CASE actors[c] = None
    BY <2>2, <1>1 DEF Session, SignerOf, Send, CanSign
  <2> QED BY <2>1, <2>2
<1>3. store.userId # None => store.userId \in seen
  BY <1>1 DEF Session
<1>4. s = store.userId \/ store.userId = None \/ Cardinality(seen) > 1
  <2>1. SUFFICES ASSUME s # store.userId, store.userId # None
                 PROVE  Cardinality(seen) > 1
    OBVIOUS
  <2>2. {s, store.userId} \subseteq seen /\ IsFiniteSet({s, store.userId})
    BY <1>2, <1>3, <2>1, <1>1, FS_Subset
  <2>3. Cardinality({s, store.userId}) = 2
    <3>1. IsFiniteSet({s}) /\ Cardinality({s}) = 1
      BY FS_Singleton
    <3>2. {s, store.userId} = {s} \cup {store.userId} /\ store.userId \notin {s}
      BY <2>1
    <3> HIDE DEF s
    <3>3. Cardinality({s} \cup {store.userId}) = Cardinality({s}) + 1
      BY <3>1, <3>2, FS_AddElement
    <3> QED BY <3>1, <3>2, <3>3
  <2>4. Cardinality({s, store.userId}) <= Cardinality(seen) /\ Cardinality(seen) \in Nat
    BY <1>1, <2>2, FS_Subset, FS_CardinalityType
  <2> QED BY <2>3, <2>4
<1>5. actors' = [actors EXCEPT ![c] = s] /\ signed' = {call}
  BY DEF Send
<1>6. s \in User /\ store.userId \in User /\ call.by = s /\ call.shown = store.userId
      /\ call.seen = seen
  BY <1>1, <1>2 DEF User, Store
<1>7. call \in [by : User, shown : User, seen : SUBSET Principals]
  BY <1>1, <1>6
<1> HIDE DEF s, call
<1>8. /\ actors' \in [Canisters -> User]
      /\ \A d \in Canisters : actors'[d] # None => actors'[d] \in seen
  BY <1>1, <1>2, <1>5, <1>6 DEF Signing
<1>9. SignerKnown'
  BY <1>2, <1>4, <1>5, <1>6 DEF SignerKnown
<1>10. signed' \subseteq [by : User, shown : User, seen : SUBSET Principals]
  BY <1>5, <1>7
<1>11. SignerOf(c) \in seen
  BY <1>2 DEF s
<1> QED BY <1>1, <1>8, <1>9, <1>10, <1>11 DEF Signing, User

-----------------------------------------------------------------------------
(* Connecting and restoring *)

LEMMA InitInv == Init => WInv
<1> SUFFICES ASSUME Init PROVE WInv
  OBVIOUS
<1>1. /\ authed = [w \in Wallets |-> None] /\ identity = [w \in Wallets |-> None]
      /\ adapter = [principalId |-> None, provider |-> None]
      /\ store = NoStore /\ storage = NoStorage
  BY DEF Init
<1>2. Session
  BY <1>1 DEF Session, Adapter, Store, Storage, User, NoStore, NoStorage
<1>3. Signing
  BY FS_EmptySet DEF Init, Signing, SignerKnown, User
<1>4. Chains
  <2>1. task = [t \in Tasks |-> Idle]
    BY DEF Init
  <2> QED BY <2>1, IdleTask DEF Chains
<1>5. Rest
  BY Constant DEF Init, Rest, Saving, User
<1> QED BY <1>2, <1>3, <1>4, <1>5 DEF WInv

\* requestConnect with the principal that the adapter kept or has just got: nobody else is
\* logged in at the wallet.
LEMMA ConnectedSession ==
    ASSUME Session, NEW w \in Wallets, NEW p \in Principals,
           authed' \in [Wallets -> User], identity' \in [Wallets -> User],
           adapter' \in Adapter, adapter'.principalId = p,
           adapter'.provider # None => identity'[adapter'.provider] = p,
           authed'[w] \in {None, p},
           \A v \in Wallets : authed'[v] # None => v \in Detected,
           store' \in Store, store'.userId = p, store'.connectType = w,
           storage' \in Storage, storage'.principalId = p, storage'.walletType = w
    PROVE  Session'
<1>1. p # None /\ w # None
  BY Constant
<1> QED BY <1>1 DEF Session, Adapter, Store, Storage, User

LEMMA ConnectedParts ==
    ASSUME Session, Chains, NEW t \in Tasks, NEW w \in Wallets, NEW p \in Principals,
           Connected(t, w, p)
    PROVE  /\ store' \in Store /\ store'.userId = p /\ store'.connectType = w
           /\ storage' \in Storage /\ storage'.principalId = p /\ storage'.walletType = w
           /\ Chains'
<1>1. store \in Store /\ storage \in Storage /\ task \in [Tasks -> Task] /\ task[t] \in Task
  BY DEF Session, Chains
<1>2. p \in User /\ w \in Wallets \cup {None}
  BY DEF User
<1>3. store' = [userId |-> p, connectType |-> w, accountId |-> p,
                profile |-> store.profile, icp |-> store.icp]
  BY <1>1 DEF Connected, Store
<1>4. store' \in Store /\ store'.userId = p /\ store'.connectType = w
  BY <1>1, <1>2, <1>3 DEF Store
<1>5. storage' = [principalId |-> p, walletType |-> w, profile |-> storage.profile]
  BY <1>1 DEF Connected, Storage
<1>6. storage' \in Storage /\ storage'.principalId = p /\ storage'.walletType = w
  BY <1>1, <1>2, <1>5 DEF Storage
<1>7. Chains'
  <2> DEFINE r == [task[t] EXCEPT !.pc = "decimals", !.wallet = w]
  <2>1. task' = [task EXCEPT ![t] = r]
    BY <1>1 DEF Connected
  <2>2. r \in Task /\ r.pc = "decimals"
    BY <1>1, <1>2 DEF Task
  <2> HIDE DEF r
  <2> QED BY <2>1, <2>2, OneChain
<1> QED BY <1>4, <1>6, <1>7

\* What follows requestConnect changes who is connected no more than st does.
LEMMA AfterConnectParts ==
    ASSUME Session, Chains, NEW t \in Tasks, NEW st \in Store, AfterConnect(t, st),
           st.userId = store.userId, st.connectType = store.connectType
    PROVE  /\ store' \in Store
           /\ store'.userId = store.userId
           /\ store'.connectType = store.connectType
           /\ Chains'
<1>1. task \in [Tasks -> Task] /\ task[t] \in Task /\ task[t].mem \in User
  BY DEF Chains, Task
<1>2. CASE store' = st /\ task' = [task EXCEPT ![t] = Idle]
  BY <1>2, ChainEnds
<1>3. CASE /\ task[t].kind = "connect" /\ store' = st /\ st.userId # None
           /\ task' = [task EXCEPT ![t] = [Idle EXCEPT !.pc = "read", !.who = st.userId]]
  <2> DEFINE r == [Idle EXCEPT !.pc = "read", !.who = st.userId]
  <2>1. r \in Task /\ r.pc = "read"
    BY IdleTask DEF Task, Store
  <2> HIDE DEF r
  <2>2. task' = [task EXCEPT ![t] = r]
    BY <1>3 DEF r
  <2> QED BY <1>3, <2>1, <2>2, OneChain
<1>4. CASE /\ store' = [st EXCEPT !.accountId = task[t].mem]
           /\ task' = [task EXCEPT ![t].kind = "restored", ![t].pc = "decimals"]
  <2> DEFINE r == [task[t] EXCEPT !.kind = "restored", !.pc = "decimals"]
  <2>1. r \in Task /\ r.pc = "decimals"
    BY <1>1 DEF Task
  <2>2. task' = [task EXCEPT ![t] = r]
    BY <1>1, <1>4
  <2> HIDE DEF r
  <2>3. /\ store' \in Store
        /\ store'.userId = st.userId
        /\ store'.connectType = st.connectType
    BY <1>1, <1>4 DEF Store
  <2> QED BY <2>1, <2>2, <2>3, OneChain
<1> QED BY <1>2, <1>3, <1>4 DEF AfterConnect

LEMMA SelectWalletInv ==
    ASSUME WInv, NEW t \in Tasks, NEW w \in Wallets, SelectWallet(t, w) PROVE WInv'
<1>1. authed' = authed /\ adapter' = adapter /\ identity' = identity /\ Signing'
  BY SigningSame DEF SelectWallet, wallet, WInv
<1>2. Rest'
  BY Constant DEF WInv, Rest, SelectWallet, Saving, User
<1>3. Session' /\ Chains'
  <2>1. CASE /\ w \in Detected /\ UNCHANGED client
             /\ task' = [task EXCEPT ![t] = [Idle EXCEPT !.pc = "wallet", !.wallet = w]]
    <3> DEFINE r == [Idle EXCEPT !.pc = "wallet", !.wallet = w]
    <3>1. r \in Task /\ r.pc = "wallet" /\ r.wallet = w
      BY IdleTask DEF Task
    <3>2. task' = [task EXCEPT ![t] = r]
      BY <2>1
    <3> HIDE DEF r
    <3>3. Chains'
      BY <2>1, <3>1, <3>2, OneChain DEF WInv
    <3>4. Session'
      BY <1>1, <2>1, SessionSame DEF WInv, client, Session
    <3> QED BY <3>3, <3>4
  <2>2. CASE /\ w \notin Detected /\ adapter.principalId # None
             /\ Connected(t, w, adapter.principalId)
    <3>1. /\ authed \in [Wallets -> User] /\ identity \in [Wallets -> User]
          /\ adapter \in Adapter /\ adapter.principalId \in Principals
          /\ \A v \in Wallets : authed[v] # None => v \in Detected
      BY <2>2 DEF WInv, Session, Adapter, User
    <3>2. authed[w] = None
      BY <2>2, <3>1
    <3>3. /\ store' \in Store /\ store'.userId = adapter.principalId
          /\ store'.connectType = w /\ storage' \in Storage
          /\ storage'.principalId = adapter.principalId /\ storage'.walletType = w
          /\ Chains'
      BY <2>2, <3>1, ConnectedParts DEF WInv
    <3>4. adapter.provider # None => identity[adapter.provider] = adapter.principalId
      BY DEF WInv, Session
    <3>5. Session'
      BY <1>1, <3>1, <3>2, <3>3, <3>4, ConnectedSession DEF WInv
    <3> QED BY <3>3, <3>5
  <2> QED BY <2>1, <2>2 DEF SelectWallet
<1> QED BY <1>1, <1>2, <1>3 DEF WInv

\* connectWallet resolves with whoever is logged in at the wallet then.
LEMMA LoggedInSteps ==
    ASSUME WInv, NEW t \in Tasks, NEW w \in Detected, NEW p \in Principals,
           LoggedIn(t, w, p), authed' \in [Wallets -> User], authed'[w] = p,
           \A v \in Wallets \ {w} : authed'[v] = authed[v]
    PROVE  WInv'
<1>1. /\ w \in Wallets /\ p \in User /\ w # None /\ p # None
      /\ authed \in [Wallets -> User] /\ identity \in [Wallets -> User]
  BY Constant DEF WInv, Session, User
<1>2. /\ identity' \in [Wallets -> User] /\ identity'[w] = p
      /\ adapter' \in Adapter /\ adapter'.principalId = p /\ adapter'.provider = w
  BY <1>1 DEF LoggedIn, Adapter
<1>3. \A v \in Wallets : authed'[v] # None => v \in Detected
  BY DEF WInv, Session
<1>4. /\ store' \in Store /\ store'.userId = p /\ store'.connectType = w
      /\ storage' \in Storage /\ storage'.principalId = p /\ storage'.walletType = w
      /\ Chains'
  BY <1>1, ConnectedParts DEF WInv, LoggedIn
<1>5. Session'
  BY <1>1, <1>2, <1>3, <1>4, ConnectedSession DEF WInv
<1>6. Signing'
  <2>1. seen' = seen \cup {p} /\ actors' = actors /\ signed' = signed
    BY DEF LoggedIn
  <2>2. IsFiniteSet(seen') /\ seen' \subseteq Principals
    BY <2>1, FS_AddElement DEF WInv, Signing
  <2>3. SignerKnown'
    BY <2>1 DEF WInv, Signing, SignerKnown
  <2> QED BY <1>2, <2>1, <2>2, <2>3 DEF WInv, Signing, User
<1>7. Rest'
  BY RestSame DEF WInv, LoggedIn, bounds
<1> QED BY <1>4, <1>5, <1>6, <1>7 DEF WInv

LEMMA WalletResumesInv == ASSUME WInv, NEW t \in Tasks, WalletResumes(t) PROVE WInv'
<1> DEFINE w == task[t].wallet
<1>1. w \in Detected /\ w \in Wallets /\ authed \in [Wallets -> User] /\ authed' = authed
  BY Constant DEF WInv, Chains, Session, WalletResumes
<1>2. authed[w] \in Principals /\ LoggedIn(t, w, authed[w])
  BY <1>1 DEF WalletResumes, User
<1> HIDE DEF w
<1> QED BY <1>1, <1>2, LoggedInSteps

LEMMA WalletLogsInInv ==
    ASSUME WInv, NEW t \in Tasks, NEW p \in Principals, WalletLogsIn(t, p) PROVE WInv'
<1> DEFINE w == task[t].wallet
<1>1. w \in Detected /\ w \in Wallets /\ authed \in [Wallets -> User] /\ p \in User
  BY Constant DEF WInv, Chains, Session, WalletLogsIn, User
<1>2. authed' = [authed EXCEPT ![w] = p] /\ LoggedIn(t, w, p)
  BY DEF WalletLogsIn
<1> HIDE DEF w
<1>3. authed' \in [Wallets -> User] /\ authed'[w] = p
      /\ \A v \in Wallets \ {w} : authed'[v] = authed[v]
  BY <1>1, <1>2
<1> QED BY <1>1, <1>2, <1>3, LoggedInSteps

\* requestConnect ends without another principal.
LEMMA AfterConnectInv ==
    ASSUME WInv, NEW t \in Tasks, NEW st \in Store, AfterConnect(t, st),
           st.userId = store.userId, st.connectType = store.connectType,
           UNCHANGED <<wallet, storage, profiles, saving, leaving, seen, signed, bounds>>
    PROVE  WInv'
<1>1. /\ store' \in Store
      /\ store'.userId = store.userId
      /\ store'.connectType = store.connectType
      /\ Chains'
  BY AfterConnectParts DEF WInv
<1>2. Session'
  BY <1>1, SessionSame DEF WInv, wallet, Session
<1>3. Signing'
  BY SigningSame DEF WInv, wallet
<1>4. Rest'
  BY RestSame DEF WInv, bounds
<1> QED BY <1>1, <1>2, <1>3, <1>4 DEF WInv

LEMMA WalletRefusesInv == ASSUME WInv, NEW t \in Tasks, WalletRefuses(t) PROVE WInv'
  BY AfterConnectInv DEF WalletRefuses, WInv, Session

LEMMA BalanceFailsInv == ASSUME WInv, NEW t \in Tasks, BalanceFails(t) PROVE WInv'
  BY AfterConnectInv DEF BalanceFails, WInv, Session

LEMMA BalanceAnswersInv == ASSUME WInv, NEW t \in Tasks, BalanceAnswers(t) PROVE WInv'
<1> DEFINE st == [store EXCEPT !.icp = task[t].who]
<1>1. store \in Store /\ task[t].who \in User
  BY DEF WInv, Session, Chains, Task
<1>2. st \in Store /\ st.userId = store.userId /\ st.connectType = store.connectType
  BY <1>1 DEF Store
<1>3. AfterConnect(t, st)
  BY DEF BalanceAnswers
<1> HIDE DEF st
<1> QED BY <1>2, <1>3, AfterConnectInv DEF BalanceAnswers

LEMMA DecimalsAnswerInv == ASSUME WInv, NEW t \in Tasks, DecimalsAnswer(t) PROVE WInv'
<1> DEFINE r == [task[t] EXCEPT !.pc = "balance", !.who = store.accountId]
<1>1. task \in [Tasks -> Task] /\ task[t] \in Task /\ store.accountId \in User
  BY DEF WInv, Session, Chains, Store
<1>2. r \in Task /\ r.pc = "balance" /\ task' = [task EXCEPT ![t] = r]
  <2> DEFINE k == task[t]
             u == store.accountId
  <2>1. r \in Task /\ r.pc = "balance"
    <3>1. k \in Task /\ u \in User /\ r = [k EXCEPT !.pc = "balance", !.who = u]
      BY <1>1
    <3> HIDE DEF k, u, r
    <3> QED BY <3>1, MovedTask
  <2>2. task' = [task EXCEPT ![t].pc = "balance", ![t].who = store.accountId]
    BY DEF DecimalsAnswer
  <2>3. task' = [task EXCEPT ![t] = r]
    BY <1>1, <2>2, MovedTasks
  <2> QED
    BY <2>1, <2>3
<1> HIDE DEF r
<1>3. Chains'
  BY <1>2, OneChain DEF WInv
<1>4. Session'
  BY SessionSame DEF WInv, Session, DecimalsAnswer, wallet, client
<1>5. Signing'
  BY SigningSame DEF WInv, DecimalsAnswer, wallet
<1>6. Rest'
  BY RestSame DEF WInv, DecimalsAnswer, bounds
<1> QED BY <1>3, <1>4, <1>5, <1>6 DEF WInv

-----------------------------------------------------------------------------
(* Disconnecting and reloading *)

LEMMA DisconnectInv == ASSUME WInv, Disconnect PROVE WInv'
<1>1. /\ authed \in [Wallets -> User] /\ adapter \in Adapter
      /\ store \in Store /\ storage \in Storage
  BY DEF WInv, Session
<1>2. adapter' = adapter /\ identity' = identity
  BY DEF Disconnect
<1>3. Signing' /\ Chains'
  BY SigningSame, ChainsSame DEF WInv, Disconnect
<1>4. Session'
  <2>1. CASE /\ store' = [store EXCEPT !.userId = None] /\ authed' = authed
             /\ storage' = [storage EXCEPT !.principalId = None, !.walletType = None]
    <3>1. store' \in Store /\ store'.userId = None
      BY <1>1, <2>1 DEF Store, User
    <3>2. storage' \in Storage /\ storage'.principalId = None
      BY <1>1, <2>1 DEF Storage, User
    <3> QED BY <1>2, <2>1, <3>1, <3>2 DEF WInv, Session, Adapter, Store, Storage, User
  <2>2. CASE /\ adapter.provider # None /\ UNCHANGED client
             /\ authed' = [authed EXCEPT ![adapter.provider] = None]
    <3>1. authed' \in [Wallets -> User] /\ \A w \in Wallets : authed'[w] \in {None, authed[w]}
      BY <1>1, <2>2 DEF User
    <3>2. storage.principalId # None => storage.walletType \in Wallets
      BY <1>1 DEF WInv, Session, Storage
    <3>3. store' = store /\ storage' = storage
      BY <2>2 DEF client
    <3>4. storage.principalId # None =>
              authed'[storage.walletType] \in {None, storage.principalId}
      BY <3>1, <3>2 DEF WInv, Session
    <3>5. \A w \in Wallets : authed'[w] # None => w \in Detected
      BY <3>1 DEF WInv, Session
    <3> QED BY <1>2, <3>1, <3>3, <3>4, <3>5 DEF WInv, Session, Adapter, Store, Storage, User
  <2>3. CASE UNCHANGED client /\ UNCHANGED authed
    BY <1>1, <1>2, <2>3, SessionSame DEF WInv, client
  <2> QED BY <2>1, <2>2, <2>3 DEF Disconnect
<1>5. Rest'
  <2>1. /\ leaves \in 0..MaxLeaves /\ leaves < MaxLeaves /\ leaves' = leaves + 1
        /\ leaving \in 0..MaxLeaves /\ leaving <= leaves
        /\ leaving' \in {leaving, leaving + 1}
    BY DEF WInv, Rest, Disconnect
  <2>2. leaves' \in 0..MaxLeaves /\ leaving' \in 0..MaxLeaves /\ leaving' <= leaves'
    BY <2>1, Constant
  <2> QED BY <2>2 DEF WInv, Rest, Disconnect, Saving, User
<1> QED BY <1>3, <1>4, <1>5 DEF WInv

LEMMA DisconnectEndsInv == ASSUME WInv, DisconnectEnds PROVE WInv'
<1>1. adapter \in Adapter /\ store \in Store
  BY DEF WInv, Session
<1>2. /\ adapter' \in Adapter /\ adapter'.principalId = adapter.principalId
      /\ adapter'.provider = None
      /\ store' \in Store /\ store'.userId = None
      /\ storage' \in Storage /\ storage'.principalId = None
  BY <1>1 DEF DisconnectEnds, Adapter, Store, Storage, NoStorage, User
<1>3. Session'
  BY <1>2 DEF WInv, Session, DisconnectEnds, Adapter, Store, Storage, User
<1>4. Signing' /\ Chains'
  BY <1>2, SigningSame, ChainsSame DEF WInv, DisconnectEnds
<1>5. Rest'
  BY Constant DEF WInv, Rest, DisconnectEnds, bounds, Saving, User
<1> QED BY <1>3, <1>4, <1>5 DEF WInv

LEMMA ReloadInv == ASSUME WInv, NEW t \in Tasks, Reload(t) PROVE WInv'
<1>1. /\ adapter' = [principalId |-> None, provider |-> None]
      /\ identity' = [w \in Wallets |-> None] /\ store' = NoStore
      /\ authed' = authed /\ storage' = storage
  BY DEF Reload, Blank
<1>2. Session'
  <2>1. /\ adapter' \in Adapter /\ adapter'.principalId = None /\ adapter'.provider = None
        /\ store' \in Store /\ store'.userId = None /\ identity' \in [Wallets -> User]
    BY <1>1 DEF Adapter, Store, NoStore, User
  <2> QED BY <1>1, <2>1 DEF WInv, Session, Adapter, Store, Storage, User
<1>3. Signing'
  BY <1>1, FS_EmptySet DEF Reload, Blank, Signing, SignerKnown, User
<1>4. Chains'
  <2> DEFINE r == [pc |-> "profile", kind |-> "restore", wallet |-> storage.walletType,
                   mem |-> storage.principalId, who |-> None]
  <2>1. task' = [s \in Tasks |-> IF s = t /\ storage.principalId # None THEN r ELSE Idle]
    BY DEF Reload
  <2>2. /\ r \in Task /\ r.pc = "profile" /\ r.wallet = storage.walletType
        /\ r.mem = storage.principalId
    BY DEF WInv, Session, Storage, Task, User
  <2>3. storage.principalId # None => storage.walletType # None
    BY DEF WInv, Session
  <2> HIDE DEF r
  <2>4. ASSUME NEW s \in Tasks
        PROVE  /\ task'[s] \in Task
               /\ task'[s].pc = "wallet" => task'[s].wallet \in Detected
               /\ task'[s].pc \in {"profile", "enrol", "recheck"} =>
                      task'[s].wallet # None /\ task'[s].mem # None
    <3>1. CASE s = t /\ storage.principalId # None
      BY <2>1, <2>2, <2>3, <3>1
    <3>2. CASE ~(s = t /\ storage.principalId # None)
      <4>1. task'[s] = Idle
        BY <2>1, <3>2
      <4> QED BY <4>1, IdleTask
    <3> QED BY <3>1, <3>2
  <2> QED BY <2>1, <2>4 DEF Chains, Task, User
<1>5. Rest'
  BY Constant DEF WInv, Rest, Reload, Blank, Saving, User
<1> QED BY <1>2, <1>3, <1>4, <1>5 DEF WInv

LEMMA ShownSession ==
    ASSUME Session, NEW p \in User, ShowProfile(p),
           authed' = authed, identity' = identity, adapter' = adapter
    PROVE  Session'
<1>1. store \in Store /\ storage \in Storage
  BY DEF Session
<1>2. store' \in Store /\ store'.userId = store.userId
      /\ store'.connectType = store.connectType
  BY <1>1 DEF ShowProfile, Store
<1>3. storage' \in Storage /\ storage'.principalId = storage.principalId
      /\ storage'.walletType = storage.walletType
  BY <1>1 DEF ShowProfile, Storage
<1> QED BY <1>2, <1>3, SessionSame

\* The state of a chain that restores a connection.
LEMMA RestoringChain ==
    ASSUME WInv, NEW t \in Tasks, task[t].pc \in {"profile", "enrol", "recheck"}
    PROVE  /\ task \in [Tasks -> Task] /\ task[t] \in Task
           /\ task[t].mem \in Principals /\ task[t].wallet \in Wallets
           /\ task[t].mem \in User /\ task[t].wallet \in Wallets \cup {None}
<1>1. /\ task \in [Tasks -> Task] /\ task[t] \in Task
      /\ task[t].wallet # None /\ task[t].mem # None
  BY DEF WInv, Chains
<1> QED BY <1>1 DEF Task, User

\* requestConnect of a restore: who is connected stays, or becomes who the adapter knows.
LEMMA ReconnectParts ==
    ASSUME WInv, NEW t \in Tasks, NEW st \in Store, NEW sg \in Storage,
           Reconnect(t, st, sg), task[t].pc \in {"profile", "enrol", "recheck"},
           st.userId = store.userId, st.connectType = store.connectType,
           sg.principalId = storage.principalId, sg.walletType = storage.walletType,
           authed' = authed, identity' = identity, adapter' = adapter
    PROVE  Session' /\ Chains'
<1> DEFINE w == task[t].wallet
           a == adapter.principalId
<1>1. /\ task \in [Tasks -> Task] /\ task[t] \in Task
      /\ w \in Wallets /\ w \in Wallets \cup {None} /\ task[t].mem \in User
  BY RestoringChain
<1>2. /\ store \in Store /\ storage \in Storage /\ adapter \in Adapter
      /\ authed \in [Wallets -> User] /\ identity \in [Wallets -> User] /\ a \in User
  BY DEF WInv, Session, Adapter
<1>3. CASE w \in Detected /\ task' = [task EXCEPT ![t].pc = "wallet"] /\ store' = st /\ storage' = sg
  <2> DEFINE r == [task[t] EXCEPT !.pc = "wallet"]
  <2>1. r \in Task /\ r.pc = "wallet" /\ r.wallet = w
    BY <1>1 DEF Task
  <2>2. task' = [task EXCEPT ![t] = r]
    BY <1>1, <1>3
  <2> HIDE DEF r, w
  <2>3. Chains'
    BY <1>3, <2>1, <2>2, OneChain DEF WInv
  <2>4. Session'
    BY <1>3, SessionSame DEF WInv
  <2> QED BY <2>3, <2>4
<1>4. CASE /\ w \notin Detected /\ a # None
           /\ task' = [task EXCEPT ![t].pc = "decimals"]
           /\ store' = [st EXCEPT !.userId = a, !.connectType = w, !.accountId = a]
           /\ storage' = [sg EXCEPT !.principalId = a, !.walletType = w]
  <2> DEFINE r == [task[t] EXCEPT !.pc = "decimals"]
  <2>1. r \in Task /\ r.pc = "decimals" /\ task' = [task EXCEPT ![t] = r]
    BY <1>1, <1>4 DEF Task
  <2> HIDE DEF r
  <2>2. Chains'
    BY <2>1, OneChain DEF WInv
  <2>3. a \in Principals /\ authed[w] = None /\ \A v \in Wallets : authed[v] # None => v \in Detected
    BY <1>1, <1>2, <1>4 DEF WInv, Session, User
  <2>4. adapter.provider # None => identity[adapter.provider] = a
    BY DEF WInv, Session
  <2> HIDE DEF w, a
  <2>5. store' = [userId |-> a, connectType |-> w, accountId |-> a, profile |-> st.profile,
                  icp |-> st.icp]
    BY <1>4 DEF Store
  <2>6. store' \in Store /\ store'.userId = a /\ store'.connectType = w
    BY <1>1, <1>2, <2>5 DEF Store
  <2>7. storage' = [principalId |-> a, walletType |-> w, profile |-> sg.profile]
    BY <1>4 DEF Storage
  <2>8. storage' \in Storage /\ storage'.principalId = a /\ storage'.walletType = w
    BY <1>1, <1>2, <2>7 DEF Storage
  <2>9. adapter.principalId = a
    BY DEF a
  <2>10. Session'
    BY <1>1, <1>2, <2>3, <2>4, <2>6, <2>8, <2>9, ConnectedSession DEF WInv
  <2> QED BY <2>2, <2>10
<1>5. CASE /\ task' = [task EXCEPT ![t].kind = "restored", ![t].pc = "decimals"]
           /\ store' = [st EXCEPT !.accountId = task[t].mem]
           /\ storage' = sg
  <2> DEFINE r == [task[t] EXCEPT !.kind = "restored", !.pc = "decimals"]
  <2>1. r \in Task /\ r.pc = "decimals" /\ task' = [task EXCEPT ![t] = r]
    BY <1>1, <1>5 DEF Task
  <2> HIDE DEF r
  <2>2. Chains'
    BY <2>1, OneChain DEF WInv
  <2>3. store' \in Store /\ store'.userId = store.userId
        /\ store'.connectType = store.connectType
    BY <1>1, <1>5 DEF Store
  <2>4. Session'
    BY <1>5, <2>3, SessionSame DEF WInv
  <2> QED BY <2>2, <2>4
<1> QED BY <1>3, <1>4, <1>5 DEF Reconnect

LEMMA ReconnectShowingParts ==
    ASSUME WInv, NEW t \in Tasks, ReconnectShowing(t),
           task[t].pc \in {"profile", "enrol", "recheck"},
           authed' = authed, identity' = identity, adapter' = adapter
    PROVE  Session' /\ Chains'
<1> DEFINE st == [store EXCEPT !.profile = task[t].mem]
           sg == [storage EXCEPT !.profile = task[t].mem]
<1>1. store \in Store /\ storage \in Storage /\ task[t].mem \in User
  BY RestoringChain DEF WInv, Session
<1>2. st \in Store /\ st.userId = store.userId /\ st.connectType = store.connectType
  BY <1>1 DEF Store
<1>3. sg \in Storage /\ sg.principalId = storage.principalId /\ sg.walletType = storage.walletType
  BY <1>1 DEF Storage
<1>4. Reconnect(t, st, sg)
  BY DEF ReconnectShowing
<1> HIDE DEF st, sg
<1> QED BY <1>2, <1>3, <1>4, ReconnectParts

LEMMA RestoreReadsInv == ASSUME WInv, NEW t \in Tasks, RestoreReads(t) PROVE WInv'
<1>1. /\ task \in [Tasks -> Task] /\ task[t] \in Task /\ task[t].pc = "profile"
      /\ task[t].wallet # None /\ task[t].mem # None
      /\ store \in Store /\ storage \in Storage
  BY DEF WInv, Chains, Session, RestoreReads
<1>2. /\ authed' = authed /\ identity' = identity /\ adapter' = adapter
      /\ seen' = seen /\ Rest'
  BY RestSame DEF WInv, RestoreReads, bounds
<1>3. CASE ReconnectShowing(t) /\ UNCHANGED <<actors, signed>>
  <2>1. Signing'
    BY <1>2, <1>3, SigningSame DEF WInv
  <2>2. Session' /\ Chains'
    BY <1>1, <1>2, <1>3, ReconnectShowingParts
  <2> QED BY <1>2, <2>1, <2>2 DEF WInv
<1>4. CASE /\ Send(Launcher) /\ UNCHANGED client
           /\ task' = [task EXCEPT ![t].pc = "enrol", ![t].who = SignerOf(Launcher)]
  <2>1. Signing' /\ SignerOf(Launcher) \in seen
    BY <1>2, <1>4, Constant, SendSteps DEF WInv
  <2>2. SignerOf(Launcher) \in User
    BY <2>1 DEF WInv, Signing, User
  <2> DEFINE r == [task[t] EXCEPT !.pc = "enrol", !.who = SignerOf(Launcher)]
  <2>3. r \in Task /\ r.pc = "enrol" /\ r.wallet # None /\ r.mem # None
    BY <1>1, <2>2 DEF Task
  <2>4. task' = [task EXCEPT ![t] = r]
    BY <1>1, <1>4, MovedTasks
  <2> HIDE DEF r
  <2>5. Chains'
    BY <2>3, <2>4, OneChain DEF WInv
  <2>6. Session'
    BY <1>1, <1>2, <1>4, SessionSame DEF WInv, client
  <2> QED BY <1>2, <2>1, <2>5, <2>6 DEF WInv
<1>5. CASE task' = [task EXCEPT ![t] = Idle] /\ UNCHANGED <<actors, signed, client>>
  <2>1. Chains' /\ Signing'
    BY <1>2, <1>5, ChainEnds, SigningSame DEF WInv
  <2>2. Session'
    BY <1>1, <1>2, <1>5, SessionSame DEF WInv, client
  <2> QED BY <1>2, <2>1, <2>2 DEF WInv
<1> QED BY <1>3, <1>4, <1>5 DEF RestoreReads

LEMMA RestoreRegistersInv == ASSUME WInv, NEW t \in Tasks, RestoreRegisters(t) PROVE WInv'
<1>1. /\ task \in [Tasks -> Task] /\ task[t] \in Task /\ task[t].pc = "enrol"
      /\ task[t].wallet # None /\ task[t].mem # None
      /\ store \in Store /\ storage \in Storage
  BY DEF WInv, Chains, Session, RestoreRegisters
<1> DEFINE r == [task[t] EXCEPT !.pc = "recheck"]
<1>2. /\ r \in Task /\ r.pc = "recheck" /\ r.wallet # None /\ r.mem # None
      /\ task' = [task EXCEPT ![t] = r]
  BY <1>1 DEF Task, RestoreRegisters
<1> HIDE DEF r
<1>3. Chains'
  BY <1>2, OneChain DEF WInv
<1>4. Session'
  BY <1>1, SessionSame DEF WInv, RestoreRegisters, wallet, client
<1>5. Signing'
  BY SigningSame DEF WInv, RestoreRegisters, wallet
<1>6. profiles' \in [Principals -> {"none", "default", "saved"}]
  BY DEF WInv, Rest, RestoreRegisters
<1>7. Rest'
  BY <1>6 DEF WInv, Rest, RestoreRegisters, bounds, Saving, User
<1> QED BY <1>3, <1>4, <1>5, <1>7 DEF WInv

LEMMA RestoreRereadsInv == ASSUME WInv, NEW t \in Tasks, RestoreRereads(t) PROVE WInv'
<1>1. /\ authed' = authed /\ identity' = identity /\ adapter' = adapter
      /\ task[t].pc = "recheck" /\ Signing' /\ Rest'
  BY SigningSame, RestSame DEF WInv, RestoreRereads, wallet, bounds
<1>2. CASE ReconnectShowing(t)
  BY <1>1, <1>2, ReconnectShowingParts DEF WInv
<1>3. CASE Reconnect(t, store, storage)
  BY <1>1, <1>3, ReconnectParts DEF WInv, Session
<1> QED BY <1>2, <1>3 DEF RestoreRereads

LEMMA RestoreFailsInv == ASSUME WInv, NEW t \in Tasks, RestoreFails(t) PROVE WInv'
<1>1. Chains' /\ Signing' /\ Rest'
  BY ChainEnds, SigningSame, RestSame DEF WInv, RestoreFails, wallet, bounds
<1>2. Session'
  BY SessionSame DEF WInv, Session, RestoreFails, wallet, client
<1> QED BY <1>1, <1>2 DEF WInv

-----------------------------------------------------------------------------
(* The profile *)

LEMMA OpenProfileInv == ASSUME WInv, NEW t \in Tasks, OpenProfile(t) PROVE WInv'
<1> DEFINE r == [Idle EXCEPT !.pc = "read", !.kind = "lookup", !.who = store.userId]
<1>1. r \in Task /\ r.pc = "read"
  BY IdleTask DEF WInv, Session, Store, Task
<1>2. task' = [task EXCEPT ![t] = r]
  BY DEF OpenProfile
<1> HIDE DEF r
<1>3. Chains'
  BY <1>1, <1>2, OneChain DEF WInv
<1>4. Session'
  BY SessionSame DEF WInv, Session, OpenProfile, wallet, client
<1>5. Signing'
  BY SigningSame DEF WInv, OpenProfile, wallet
<1>6. Rest'
  BY Constant DEF WInv, Rest, OpenProfile, Saving, User
<1> QED BY <1>3, <1>4, <1>5, <1>6 DEF WInv

LEMMA LookupAnswersInv == ASSUME WInv, NEW t \in Tasks, LookupAnswers(t) PROVE WInv'
<1>1. /\ task \in [Tasks -> Task] /\ task[t] \in Task /\ task[t].who \in User
      /\ store \in Store /\ storage \in Storage
  BY DEF WInv, Chains, Task, Session
<1>2. authed' = authed /\ identity' = identity /\ adapter' = adapter /\ seen' = seen /\ Rest'
  BY RestSame DEF WInv, LookupAnswers, bounds
<1>3. CASE /\ ShowProfile(task[t].who) /\ task' = [task EXCEPT ![t] = Idle]
           /\ UNCHANGED <<actors, signed>>
  <2>1. Chains' /\ Signing'
    BY <1>2, <1>3, ChainEnds, SigningSame DEF WInv
  <2>2. Session'
    BY <1>1, <1>2, <1>3, ShownSession DEF WInv
  <2> QED BY <1>2, <2>1, <2>2 DEF WInv
<1>4. CASE /\ Send(Launcher) /\ UNCHANGED client
           /\ task' = [task EXCEPT ![t].pc = "register", ![t].who = SignerOf(Launcher)]
  <2>1. Signing' /\ SignerOf(Launcher) \in seen
    BY <1>2, <1>4, Constant, SendSteps DEF WInv
  <2>2. SignerOf(Launcher) \in User
    BY <2>1 DEF WInv, Signing, User
  <2> DEFINE r == [task[t] EXCEPT !.pc = "register", !.who = SignerOf(Launcher)]
  <2>3. r \in Task /\ r.pc = "register" /\ task' = [task EXCEPT ![t] = r]
    <3>1. r \in Task /\ r.pc = "register"
      BY <1>1, <2>2, MovedTask
    <3>2. task' = [task EXCEPT ![t] = r]
      BY <1>1, <1>4, MovedTasks
    <3> QED
      BY <3>1, <3>2
  <2> HIDE DEF r
  <2>4. Chains'
    BY <2>3, OneChain DEF WInv
  <2>5. Session'
    BY <1>1, <1>2, <1>4, SessionSame DEF WInv, client
  <2> QED BY <1>2, <2>1, <2>4, <2>5 DEF WInv
<1>5. CASE task' = [task EXCEPT ![t] = Idle] /\ UNCHANGED <<actors, signed, client>>
  <2>1. Chains' /\ Signing'
    BY <1>2, <1>5, ChainEnds, SigningSame DEF WInv
  <2>2. Session'
    BY <1>1, <1>2, <1>5, SessionSame DEF WInv, client
  <2> QED BY <1>2, <2>1, <2>2 DEF WInv
<1> QED BY <1>3, <1>4, <1>5 DEF LookupAnswers

LEMMA RegistersInv == ASSUME WInv, NEW t \in Tasks, Registers(t) PROVE WInv'
<1>1. /\ task \in [Tasks -> Task] /\ task[t] \in Task
      /\ store \in Store /\ storage \in Storage /\ store.userId \in User
  BY DEF WInv, Chains, Session, Store
<1>2. Chains'
  <2>1. CASE task' = [task EXCEPT ![t] = Idle]
    BY <2>1, ChainEnds DEF WInv
  <2>2. CASE task' = [task EXCEPT ![t] =
                        [task[t] EXCEPT !.pc = "reread", !.who = store.userId]]
    <3> DEFINE r == [task[t] EXCEPT !.pc = "reread", !.who = store.userId]
    <3>1. r \in Task /\ r.pc = "reread"
      BY <1>1, MovedTask
    <3> HIDE DEF r
    <3>2. task' = [task EXCEPT ![t] = r]
      BY <2>2 DEF r
    <3> QED BY <3>1, <3>2, OneChain DEF WInv
  <2> QED BY <2>1, <2>2 DEF Registers
<1>3. Session'
  BY <1>1, SessionSame DEF WInv, Registers, wallet, client
<1>4. Signing'
  BY SigningSame DEF WInv, Registers, wallet
<1>5. profiles' \in [Principals -> {"none", "default", "saved"}]
  BY DEF WInv, Rest, Registers
<1>6. Rest'
  BY <1>5 DEF WInv, Rest, Registers, bounds, Saving, User
<1> QED BY <1>2, <1>3, <1>4, <1>6 DEF WInv

LEMMA RereadAnswersInv == ASSUME WInv, NEW t \in Tasks, RereadAnswers(t) PROVE WInv'
<1>1. task[t].who \in User /\ store \in Store /\ storage \in Storage
  BY DEF WInv, Chains, Task, Session
<1>2. Chains' /\ Signing' /\ Rest'
  BY ChainEnds, SigningSame, RestSame DEF WInv, RereadAnswers, wallet, bounds
<1>3. authed' = authed /\ identity' = identity /\ adapter' = adapter
  BY DEF RereadAnswers, wallet
<1>4. CASE ShowProfile(task[t].who)
  BY <1>1, <1>2, <1>3, <1>4, ShownSession DEF WInv
<1>5. CASE UNCHANGED client
  BY <1>1, <1>2, <1>3, <1>5, SessionSame DEF WInv, client
<1> QED BY <1>4, <1>5 DEF RereadAnswers

LEMMA LookupFailsInv == ASSUME WInv, NEW t \in Tasks, LookupFails(t) PROVE WInv'
<1>1. Chains' /\ Signing' /\ Rest'
  BY ChainEnds, SigningSame, RestSame DEF WInv, LookupFails, wallet, bounds
<1>2. Session'
  BY SessionSame DEF WInv, Session, LookupFails, wallet, client
<1> QED BY <1>1, <1>2 DEF WInv

\* edit_user is sent by whoever the adapter has an actor or an agent for.
LEMMA SentSaving ==
    ASSUME Session, Signing, Send(Launcher), adapter' = adapter, seen' = seen
    PROVE  Signing' /\ [pc |-> "edit", who |-> SignerOf(Launcher)] \in Saving
<1>1. Signing' /\ SignerOf(Launcher) \in seen
  BY Constant, SendSteps
<1>2. SignerOf(Launcher) \in User
  BY <1>1 DEF Signing, User
<1> QED BY <1>1, <1>2 DEF Saving

LEMMA SaveProfileInv == ASSUME WInv, SaveProfile PROVE WInv'
<1>1. Session' /\ Chains' /\ adapter' = adapter /\ seen' = seen
  BY SessionSame, ChainsSame DEF WInv, Session, SaveProfile, client
<1>2. Signing' /\ saving' \in Saving
  <2>1. CASE saving' = [saving EXCEPT !.pc = "upload"] /\ UNCHANGED <<actors, signed>>
    BY <1>1, <2>1, SigningSame DEF WInv, Rest, Saving
  <2>2. CASE Send(Launcher) /\ saving' = [pc |-> "edit", who |-> SignerOf(Launcher)]
    BY <1>1, <2>2, SentSaving DEF WInv
  <2> QED BY <2>1, <2>2 DEF SaveProfile
<1>3. Rest'
  BY <1>2, Constant DEF WInv, Rest, SaveProfile, Saving, User
<1> QED BY <1>1, <1>2, <1>3 DEF WInv

LEMMA UploadedInv == ASSUME WInv, Uploaded PROVE WInv'
<1>1. Session' /\ Chains' /\ adapter' = adapter /\ seen' = seen
  BY SessionSame, ChainsSame DEF WInv, Session, Uploaded, client
<1>2. Signing' /\ saving' \in Saving
  BY <1>1, SentSaving DEF WInv, Uploaded
<1>3. Rest'
  BY <1>2 DEF WInv, Rest, Uploaded, bounds, Saving, User
<1> QED BY <1>1, <1>2, <1>3 DEF WInv

LEMMA SaveFailsInv == ASSUME WInv, SaveFails PROVE WInv'
<1>1. Session' /\ Chains' /\ Signing'
  BY SessionSame, ChainsSame, SigningSame DEF WInv, Session, SaveFails, client, wallet
<1>2. Rest'
  BY DEF WInv, Rest, SaveFails, bounds, Saving, User
<1> QED BY <1>1, <1>2 DEF WInv

LEMMA SavedInv == ASSUME WInv, Saved PROVE WInv'
<1>1. Session' /\ Chains' /\ Signing'
  BY SessionSame, ChainsSame, SigningSame DEF WInv, Session, Saved, client, wallet
<1>2. saving' \in Saving
  BY DEF WInv, Session, Store, Saved, Saving, User
<1>3. profiles' \in [Principals -> {"none", "default", "saved"}]
  BY DEF WInv, Rest, Saved
<1>4. Rest'
  BY <1>2, <1>3 DEF WInv, Rest, Saved, bounds, Saving, User
<1> QED BY <1>1, <1>4 DEF WInv

LEMMA SaveShownInv == ASSUME WInv, SaveShown PROVE WInv'
<1>1. Chains' /\ Signing' /\ authed' = authed /\ identity' = identity /\ adapter' = adapter
  BY ChainsSame, SigningSame DEF WInv, SaveShown, wallet
<1>2. saving.who \in User /\ store \in Store /\ storage \in Storage
  BY DEF WInv, Rest, Saving, Session
<1>3. Session'
  <2>1. CASE ShowProfile(saving.who)
    BY <1>1, <1>2, <2>1, ShownSession DEF WInv
  <2>2. CASE UNCHANGED client
    BY <1>1, <1>2, <2>2, SessionSame DEF WInv, client
  <2> QED BY <2>1, <2>2 DEF SaveShown
<1>4. Rest'
  BY DEF WInv, Rest, SaveShown, bounds, Saving, User
<1> QED BY <1>1, <1>3, <1>4 DEF WInv

LEMMA PageCallsInv == ASSUME WInv, NEW c \in Canisters, PageCalls(c) PROVE WInv'
<1>1. Session' /\ Chains' /\ Rest'
  BY SessionSame, ChainsSame, RestSame DEF WInv, Session, PageCalls, client, bounds
<1>2. Signing'
  BY SendSteps DEF WInv, PageCalls
<1> QED BY <1>1, <1>2 DEF WInv

-----------------------------------------------------------------------------
(* The invariant and the promises *)

LEMMA StepInv == WInv /\ [Next]_vars => WInv'
<1> SUFFICES ASSUME WInv, [Next]_vars PROVE WInv'
  OBVIOUS
<1>1. CASE UNCHANGED vars
  BY <1>1, SessionSame, SigningSame, ChainsSame, RestSame
     DEF WInv, Session, vars, wallet, client, bounds
<1>2. CASE \E t \in Tasks :
             \/ \E w \in Wallets : SelectWallet(t, w)
             \/ \E p \in Principals : WalletLogsIn(t, p)
             \/ WalletResumes(t) \/ WalletRefuses(t) \/ DecimalsAnswer(t)
             \/ BalanceAnswers(t) \/ BalanceFails(t) \/ Reload(t) \/ RestoreReads(t)
             \/ RestoreRegisters(t) \/ RestoreRereads(t) \/ RestoreFails(t)
  BY <1>2, SelectWalletInv, WalletLogsInInv, WalletResumesInv, WalletRefusesInv,
     DecimalsAnswerInv, BalanceAnswersInv, BalanceFailsInv, ReloadInv, RestoreReadsInv,
     RestoreRegistersInv, RestoreRereadsInv, RestoreFailsInv
<1>3. CASE \E t \in Tasks :
             \/ OpenProfile(t) \/ LookupAnswers(t) \/ Registers(t) \/ RereadAnswers(t)
             \/ LookupFails(t)
  BY <1>3, OpenProfileInv, LookupAnswersInv, RegistersInv, RereadAnswersInv, LookupFailsInv
<1>4. CASE \E c \in Canisters : PageCalls(c)
  BY <1>4, PageCallsInv
<1>5. CASE Disconnect \/ DisconnectEnds
  BY <1>5, DisconnectInv, DisconnectEndsInv
<1>6. CASE SaveProfile \/ Uploaded \/ SaveFails \/ Saved \/ SaveShown
  BY <1>6, SaveProfileInv, UploadedInv, SaveFailsInv, SavedInv, SaveShownInv
<1> QED BY <1>1, <1>2, <1>3, <1>4, <1>5, <1>6 DEF Next

LEMMA AlwaysWInv == Spec => []WInv
  BY InitInv, StepInv, PTL DEF Spec

\* The state keeps its types; and the user shown is the principal of the adapter and the
\* one a reload will restore, the agent of the active wallet has his identity, and that
\* wallet keeps nobody else logged in (connect in index.js, requestConnect, disconnect).
THEOREM SessionAlwaysAgrees == Spec => []SessionAgrees
<1>1. WInv => SessionAgrees
  BY TypesFromParts DEF WInv, Session, SessionAgrees
<1> QED BY <1>1, AlwaysWInv, PTL

\* Every call is signed by somebody who connected since the page was loaded, and by the user
\* the page shows unless several did (getCanisterActor, disconnect).
THEOREM SignerAlwaysKnown == Spec => []SignerKnown
<1>1. WInv => SignerKnown
  BY DEF WInv, Signing
<1> QED BY <1>1, AlwaysWInv, PTL

-----------------------------------------------------------------------------
(* BatchTransact: flattening the groups *)

\* A sequence of sequences made one, element after element.
Flattens(seqs, g) == g = [i \in 1 .. Len(seqs) |-> IF i = 1 THEN seqs[i] ELSE g[i - 1] \o seqs[i]]

\* There is one way to do it: the first element where two differ has one before it.
LEMMA FlattensOne ==
    ASSUME NEW seqs, Len(seqs) \in Nat, NEW f, NEW g, Flattens(seqs, f), Flattens(seqs, g)
    PROVE  \A i \in 1 .. Len(seqs) : f[i] = g[i]
<1> DEFINE I == 1 .. Len(seqs)
           Bad == {T \in SUBSET I : \E i \in I : T = 1 .. i /\ f[i] # g[i]}
<1>1. SUFFICES ASSUME Bad # {} PROVE FALSE
  <2>1. ASSUME NEW i \in I, f[i] # g[i]
        PROVE  1 .. i \in Bad
    BY <2>1
  <2> QED
    BY <2>1
<1>2. PICK T \in Bad : \A U \in Bad : U \subseteq T => U = T
  <2>1. IsFiniteSet(I)
    BY FS_Interval
  <2>2. Bad \subseteq SUBSET I
    OBVIOUS
  <2> HIDE DEF Bad, I
  <2> QED
    BY <1>1, <2>1, <2>2, SmallestSet
<1>3. PICK i \in I : T = 1 .. i /\ f[i] # g[i]
  OBVIOUS
<1>4. /\ f[i] = (IF i = 1 THEN seqs[i] ELSE f[i - 1] \o seqs[i])
      /\ g[i] = (IF i = 1 THEN seqs[i] ELSE g[i - 1] \o seqs[i])
  BY DEF Flattens
<1>5. i # 1
  BY <1>3, <1>4
<1>6. /\ i - 1 \in I /\ 1 .. (i - 1) \in SUBSET I /\ 1 .. (i - 1) \subseteq T
      /\ 1 .. (i - 1) # T
  BY <1>3, <1>5
<1>7. f[i - 1] = g[i - 1]
  BY <1>2, <1>6
<1> QED
  BY <1>3, <1>4, <1>5, <1>7

\* What flattens a sequence is what FlattenSeq computes.
LEMMA FlattenIs ==
    ASSUME NEW seqs, Len(seqs) \in Nat \ {0}, NEW g, Flattens(seqs, g)
    PROVE  FlattenSeq(seqs) = g[Len(seqs)]
<1> DEFINE it == CHOOSE it : it = [i \in 1 .. Len(seqs) |->
                                      IF i = 1 THEN seqs[i] ELSE it[i - 1] \o seqs[i]]
<1>1. FlattenSeq(seqs) = it[Len(seqs)]
  BY DEF FlattenSeq
<1>2. Flattens(seqs, it)
  BY DEF Flattens
<1> HIDE DEF it
<1> QED
  BY <1>1, <1>2, FlattensOne

\* Nothing flattens to nothing.
LEMMA FlattenEmpty == FlattenSeq(<<>>) = <<>>
  BY DEF FlattenSeq

\* A sequence of one.
LEMMA FlattenSingle ==
    ASSUME NEW seqs \in Seq(Seq(Steps)), Len(seqs) = 1
    PROVE  FlattenSeq(seqs) = seqs[1]
<1> DEFINE g == [i \in 1 .. Len(seqs) |-> seqs[1]]
<1>1. Flattens(seqs, g)
  BY DEF Flattens
<1>2. g[1] = seqs[1]
  <2>1. 1 \in 1 .. Len(seqs)
    OBVIOUS
  <2> QED
    BY <2>1
<1> HIDE DEF g
<1>3. Len(seqs) \in Nat \ {0}
  OBVIOUS
<1>4. FlattenSeq(seqs) = g[Len(seqs)]
  BY <1>1, <1>3, FlattenIs
<1> QED
  BY <1>2, <1>4

\* A function on 1 .. n is a sequence of length n.
LEMMA FunctionIsSeq ==
    ASSUME NEW S, NEW n \in Nat, NEW f \in [1 .. n -> S]
    PROVE  f \in Seq(S) /\ Len(f) = n
<1>1. f \in Seq(S)
  BY SeqDef
<1> QED
  BY <1>1

-----------------------------------------------------------------------------
(* Groups of one step *)

\* Each step gives the next its arguments, or there is but one.
Chain == Len(Groups) \in Nat /\ Groups = [g \in 1 .. Len(Groups) |-> <<g>>]

\* The number of steps.
N == Len(Groups)

\* The array without its first k steps.
Cut(k) == [g \in 1 .. N |-> IF g <= k THEN <<>> ELSE <<g>>]

\* The step before a later one is not the one given.
LEMMA StepBefore ==
    ASSUME NEW n \in Nat, NEW r \in 1 .. n, NEW s \in 1 .. n, r > 1, r # s + 1
    PROVE  r - 1 \in 1 .. n /\ r - 1 # s
OBVIOUS

\* In a chain a step is its own group.
LEMMA ChainSteps ==
    ASSUME Chain
    PROVE  /\ N \in Nat /\ Steps = 1 .. N /\ Groups = Cut(0) /\ Groups \in Seq(Seq(Steps))
           /\ DOMAIN Groups = 1 .. N
           /\ \A s \in Steps : Groups[s] = <<s>> /\ GroupOf(s) = s /\ PlaceOf(s) = 1
           /\ \A s \in Steps : Updates(s) <=> s < N
<1>1. N \in Nat /\ DOMAIN Groups = 1 .. N /\ \A g \in 1 .. N : Groups[g] = <<g>>
  BY DEF Chain, N
<1>2. Steps = 1 .. N
  BY <1>1 DEF Steps, ToSet
<1>3. Groups = Cut(0)
  BY <1>1 DEF Chain, N, Cut
<1>4. Groups \in Seq(Seq(Steps))
  <2>1. \A g \in 1 .. N : <<g>> \in Seq(Steps)
    BY <1>2
  <2>2. Groups \in [1 .. N -> Seq(Steps)]
    BY <2>1 DEF Chain, N
  <2> QED
    BY <1>1, <2>2, SeqDef
<1>5. ASSUME NEW s \in Steps
      PROVE  GroupOf(s) = s /\ PlaceOf(s) = 1
  <2>1. ASSUME NEW g \in DOMAIN Groups
        PROVE  s \in ToSet(Groups[g]) <=> g = s
    <3>1. DOMAIN <<g>> = {1} /\ <<g>>[1] = g
      OBVIOUS
    <3>2. ToSet(<<g>>) = {g}
      BY <3>1 DEF ToSet
    <3>3. Groups[g] = <<g>>
      BY <1>1
    <3> QED
      BY <3>2, <3>3
  <2>2. GroupOf(s) = s
    <3>1. s \in DOMAIN Groups /\ s \in ToSet(Groups[s])
      BY <1>1, <1>2, <2>1
    <3>2. GroupOf(s) = CHOOSE g \in DOMAIN Groups : s \in ToSet(Groups[g])
      BY DEF GroupOf
    <3>3. GroupOf(s) \in DOMAIN Groups /\ s \in ToSet(Groups[GroupOf(s)])
      BY <3>1, <3>2
    <3> QED
      BY <2>1, <3>3
  <2>3. Groups[s] = <<s>>
    BY <1>1, <1>2
  <2>4. \A j \in DOMAIN Groups[s] : Groups[s][j] = s <=> j = 1
    <3>1. DOMAIN <<s>> = {1} /\ <<s>>[1] = s
      OBVIOUS
    <3> QED
      BY <2>3, <3>1
  <2>5. 1 \in DOMAIN Groups[s]
    BY <2>3
  <2> QED
    BY <2>2, <2>4, <2>5 DEF PlaceOf
<1>6. ASSUME NEW s \in Steps
      PROVE  Updates(s) <=> s < N
  <2>1. Groups[GroupOf(s)] = <<s>>
    BY <1>1, <1>2, <1>5
  <2>2. Last(<<s>>) = s
    BY DEF Last
  <2> QED
    BY <1>5, <2>1, <2>2 DEF Updates, N
<1> QED
  BY <1>1, <1>2, <1>3, <1>4, <1>5, <1>6

\* The loops reach the steps after the first k.
LEMMA CutQueue ==
    ASSUME Chain, NEW k \in 0 .. N
    PROVE  FlattenSeq(Cut(k)) = [i \in 1 .. (N - k) |-> k + i]
<1> USE ChainSteps
<1>1. CASE N = 0
  <2>1. Cut(k) = <<>>
    BY <1>1 DEF Cut
  <2>2. [i \in 1 .. (N - k) |-> k + i] = <<>>
    BY <1>1
  <2> QED
    BY <2>1, <2>2, FlattenEmpty
<1>2. CASE N # 0
  <2> DEFINE tail(m) == [j \in 1 .. m |-> k + j]
             g == [i \in 1 .. N |-> IF i <= k THEN <<>> ELSE tail(i - k)]
  <2>1. Len(Cut(k)) = N /\ \A i \in 1 .. N : Cut(k)[i] = IF i <= k THEN <<>> ELSE <<i>>
    BY DEF Cut
  <2>2. ASSUME NEW i \in 1 .. N
        PROVE  g[i] = IF i = 1 THEN Cut(k)[i] ELSE g[i - 1] \o Cut(k)[i]
    <3>1. CASE i <= k
      <4>1. g[i] = <<>> /\ Cut(k)[i] = <<>>
        BY <2>1, <3>1
      <4>2. i # 1 => g[i - 1] = <<>>
        BY <3>1
      <4>3. <<>> \o <<>> = <<>>
        OBVIOUS
      <4> QED
        BY <4>1, <4>2, <4>3
    <3>2. CASE i = k + 1
      <4>0. i - k = 1 /\ ~(i <= k)
        BY <3>2
      <4>1. g[i] = tail(1) /\ Cut(k)[i] = <<i>>
        <5>1. Cut(k)[i] = <<i>>
          BY <2>1, <4>0
        <5>2. g[i] = tail(i - k)
          BY <4>0
        <5> QED
          BY <4>0, <5>1, <5>2
      <4>2. tail(1) = <<i>>
        BY <3>2
      <4>3. i # 1 => g[i - 1] = <<>>
        BY <3>2
      <4>4. <<>> \o <<i>> = <<i>>
        OBVIOUS
      <4> QED
        BY <4>1, <4>2, <4>3, <4>4
    <3>3. CASE i > k + 1
      <4> DEFINE m == i - 1 - k
      <4>1. m \in Nat /\ m >= 1 /\ i - k = m + 1 /\ i = k + (m + 1) /\ i # 1
        BY <3>3
      <4>2. g[i] = tail(i - k) /\ Cut(k)[i] = <<i>> /\ g[i - 1] = tail(m)
        BY <2>1, <3>3
      <4>3. tail(m) \in Seq(Int) /\ Len(tail(m)) = m /\ <<i>> \in Seq(Int) /\ Len(<<i>>) = 1
        BY <4>1
      <4> HIDE DEF m
      <4>4. tail(m + 1) = tail(m) \o <<i>>
        BY <4>1
      <4> QED
        BY <4>1, <4>2, <4>4
    <3> QED
      BY <3>1, <3>2, <3>3
  <2>3. Flattens(Cut(k), g)
    BY <2>1, <2>2 DEF Flattens
  <2>4. g[N] = [i \in 1 .. (N - k) |-> k + i]
    <3>1. CASE k = N
      <4>1. [i \in 1 .. (N - k) |-> k + i] = <<>>
        BY <3>1
      <4> QED
        BY <1>2, <3>1, <4>1
    <3>2. CASE k < N
      BY <1>2, <3>2
    <3> QED
      BY <3>1, <3>2
  <2> HIDE DEF g
  <2>5. FlattenSeq(Cut(k)) = g[N]
    BY <1>2, <2>1, <2>3, FlattenIs
  <2> QED
    BY <2>4, <2>5
<1> QED
  BY <1>1, <1>2

\* A retry takes the finished steps out.
LEMMA UndoneStep ==
    ASSUME Chain, NEW s \in Steps
    PROVE  /\ Undone(<<>>) = <<>>
           /\ Undone(<<s>>) = IF item[s] = "done" THEN <<>> ELSE <<s>>
<1>1. Undone(<<>>) = <<>>
  <2>1. [j \in DOMAIN <<>> |-> IF item[<<>>[j]] = "done" THEN <<>> ELSE << <<>>[j] >>] = <<>>
    OBVIOUS
  <2> QED
    BY <2>1, FlattenEmpty DEF Undone
<1> DEFINE rest == IF item[s] = "done" THEN <<>> ELSE <<s>>
           f == [j \in DOMAIN <<s>> |-> IF item[<<s>>[j]] = "done" THEN <<>> ELSE << <<s>>[j] >>]
<1>2. DOMAIN <<s>> = {1} /\ <<s>>[1] = s
  OBVIOUS
<1>3. f = <<rest>>
  BY <1>2
<1>4. <<rest>> \in Seq(Seq(Steps)) /\ Len(<<rest>>) = 1 /\ <<rest>>[1] = rest
  OBVIOUS
<1>5. FlattenSeq(<<rest>>) = rest
  BY <1>4, FlattenSingle
<1>6. Undone(<<s>>) = FlattenSeq(f)
  BY DEF Undone
<1> QED
  BY <1>1, <1>3, <1>5, <1>6

-----------------------------------------------------------------------------
(* What a batch keeps to *)

\* The values of the state.
BatchTyped ==
    /\ state \in {"idle", "running", "error", "done"}
    /\ item \in [Steps -> {"idle", "error", "done"}]
    /\ completed \in Seq(Steps) /\ failedSteps \in Seq(Steps)
    /\ results \subseteq Steps /\ updated \subseteq Steps
    /\ wraps \in 0 .. MaxExecutes /\ retries \in 0 .. MaxRetries
    /\ executed \in [Steps -> Nat] /\ unseen \in [Steps -> Nat] /\ faults \in Nat

\* The first d steps are done, the first k of them were taken out of the array.
At(k, d) ==
    /\ array = Cut(k) /\ pos = d - k + 1
    /\ \A s \in Steps : item[s] = "done" <=> s <= d

\* Where a batch is: not begun, or at a step, and at the end once it is done.
Places ==
    \/ state = "idle" /\ array = <<>> /\ pos = 1
    \/ /\ state # "idle" /\ wraps > 0
       /\ \E k \in 0 .. N : \E d \in k .. N : At(k, d) /\ (state = "done" => d = N)

\* What is done took effect and its result is held; a step was called, or is next, only when
\* its arguments are set; and a batch that runs has no failed step.
Given ==
    /\ \A s \in Steps : item[s] = "done" => executed[s] > 0 /\ s \in results
    /\ \A s \in Steps : s > 1 /\ (executed[s] > 0 \/ item[s - 1] = "done") => s \in updated
    /\ state = "running" => failedSteps = <<>>

\* The inductive invariant of a batch.
BatchInv == BatchTyped /\ Places /\ Given

\* The invariant is what a batch that is done promises.
LEMMA BatchInvDone ==
    ASSUME Chain, BatchInv
    PROVE  DoneMeansAll
<1> USE ChainSteps
<1>1. BatchTyped /\ Places /\ Given
  BY DEF BatchInv
<1>2. Queue \in Seq(Steps) /\ pos \in 1 .. Len(Queue) + 1
  <2>1. CASE state = "idle"
    <3>1. array = <<>> /\ pos = 1
      BY <1>1, <2>1 DEF Places
    <3>2. Queue = <<>>
      BY <3>1, FlattenEmpty DEF Queue
    <3> QED
      BY <3>1, <3>2
  <2>2. CASE state # "idle"
    <3>1. PICK k \in 0 .. N : \E d \in k .. N : At(k, d)
      BY <1>1, <2>2 DEF Places
    <3>2. PICK d \in k .. N : At(k, d)
      BY <3>1
    <3>3. Queue = [i \in 1 .. (N - k) |-> k + i]
      BY <3>2, CutQueue DEF At, Queue
    <3>4. Queue \in [1 .. (N - k) -> Steps] /\ N - k \in Nat
      BY <3>3
    <3>5. Queue \in Seq(Steps)
      BY <3>4, FunctionIsSeq
    <3>6. Len(Queue) = N - k
      BY <3>4, FunctionIsSeq
    <3>7. pos = d - k + 1
      BY <3>2 DEF At
    <3> QED
      BY <3>5, <3>6, <3>7
  <2> QED
    BY <2>1, <2>2
<1>3. ASSUME NEW q \in Seq(Steps)
      PROVE  ToSet(q) \subseteq Steps
  <2>1. \A i \in DOMAIN q : q[i] \in Steps
    OBVIOUS
  <2> QED
    BY <2>1 DEF ToSet
<1>4. BatchTypes
  BY <1>1, <1>2, <1>3 DEF BatchTypes, BatchTyped
<1>5. ASSUME state = "done"
      PROVE  (\A s \in Steps : executed[s] > 0 /\ item[s] = "done") /\ results = Steps
  <2>1. \A s \in Steps : item[s] = "done"
    <3>1. PICK k \in 0 .. N : \E d \in k .. N : At(k, d) /\ d = N
      BY <1>1, <1>5 DEF Places
    <3> QED
      BY <3>1 DEF At
  <2>2. \A s \in Steps : executed[s] > 0 /\ s \in results
    BY <1>1, <2>1 DEF Given
  <2>3. results \subseteq Steps
    BY <1>1 DEF BatchTyped
  <2> QED
    BY <2>1, <2>2, <2>3
<1>6. ASSUME NEW g \in DOMAIN Groups \ {1}, executed[Groups[g][1]] > 0
      PROVE  Groups[g][1] \in updated
  <2>0. g \in 1 .. N /\ g # 1 /\ N \in Nat
    BY ChainSteps
  <2>1. g \in Steps /\ g > 1 /\ Groups[g] = <<g>>
    <3>1. g > 1
      BY <2>0
    <3>2. g \in Steps
      BY <2>0, ChainSteps
    <3>3. Groups[g] = <<g>>
      BY <3>2, ChainSteps
    <3> QED
      BY <3>1, <3>2, <3>3
  <2>2. <<g>>[1] = g
    OBVIOUS
  <2>3. executed[g] > 0
    BY <1>6, <2>1, <2>2
  <2>4. g \in updated
    BY <1>1, <2>1, <2>3 DEF Given
  <2> QED
    BY <2>1, <2>2, <2>4
<1> QED
  BY <1>4, <1>5, <1>6 DEF DoneMeansAll

\* The step whose turn it is: the first that is not done.
LEMMA TurnStep ==
    ASSUME Chain, BatchInv, NEW s \in Steps, Turn(s)
    PROVE  /\ state = "running" /\ wraps > 0 /\ failedSteps = <<>>
           /\ \E k \in 0 .. N : k <= s - 1 /\ At(k, s - 1)
           /\ Found(s) /\ Target(s) = s
           /\ \A g \in Steps : g > s => array[g] = <<g>>
           /\ item[s] # "done"
<1> USE ChainSteps
<1>1. state = "running" /\ wraps > 0 /\ failedSteps = <<>>
  BY DEF BatchInv, Turn, Places, Given
<1>2. PICK k \in 0 .. N : \E d \in k .. N : At(k, d)
  BY <1>1 DEF BatchInv, Places
<1>3. PICK d \in k .. N : At(k, d)
  BY <1>2
<1>4. Queue = [i \in 1 .. (N - k) |-> k + i]
  BY <1>3, CutQueue DEF At, Queue
<1>5. Len(Queue) = N - k
  <2>1. Queue \in [1 .. (N - k) -> Steps] /\ N - k \in Nat
    BY <1>4
  <2> QED
    BY <2>1, FunctionIsSeq
<1>6. pos = d - k + 1 /\ pos <= N - k /\ s = Queue[pos]
  BY <1>3, <1>5 DEF At, Turn
<1>7. pos \in 1 .. (N - k)
  BY <1>6
<1>8. s = d + 1 /\ d < N
  BY <1>4, <1>6, <1>7
<1>9. \A g \in Steps : g > k => array[g] = <<g>>
  BY <1>3 DEF At, Cut
<1>10. Found(s) /\ Target(s) = s
  <2>1. array[GroupOf(s)] = <<s>> /\ PlaceOf(s) = 1
    BY <1>8, <1>9
  <2>2. DOMAIN <<s>> = {1} /\ <<s>>[1] = s
    OBVIOUS
  <2> QED
    BY <2>1, <2>2 DEF Found, Target
<1>11. item[s] # "done"
  BY <1>3, <1>8 DEF At
<1>12. d = s - 1 /\ k <= s - 1
  BY <1>8
<1>13. \A g \in Steps : g > s => array[g] = <<g>>
  BY <1>9, <1>12
<1> QED
  BY <1>1, <1>3, <1>10, <1>11, <1>12, <1>13

\* Steps repeated for each time the callbacks are wrapped.
LEMMA RepeatedSteps ==
    ASSUME NEW s \in Steps, NEW n \in Int
    PROVE  Repeated(s, n) \in Seq(Steps)
<1>1. CASE n \in Nat
  <2>1. Repeated(s, n) \in [1 .. n -> Steps]
    BY DEF Repeated
  <2> QED
    BY <1>1, <2>1, SeqDef
<1>2. CASE n < 0
  <2>1. Repeated(s, n) = <<>>
    BY <1>2 DEF Repeated
  <2> QED
    BY <2>1
<1> QED
  BY <1>1, <1>2

\* A failed call: the batch stops where it is.
LEMMA StopKeeps ==
    ASSUME Chain, BatchInv, NEW s \in Steps, Turn(s),
           state' = "error", pos' = pos, array' = array, wraps' = wraps, updated' = updated,
           completed' = completed, retries' = retries,
           item' \in [Steps -> {"idle", "error", "done"}],
           \A r \in Steps : item'[r] = "done" <=> item[r] = "done",
           failedSteps' \in Seq(Steps), results' \subseteq Steps, results \subseteq results',
           executed' \in [Steps -> Nat], unseen' \in [Steps -> Nat], faults' \in Nat,
           \A r \in Steps : executed'[r] = executed[r] \/ (r = s /\ executed'[r] = executed[r] + 1)
    PROVE  BatchInv'
<1> USE ChainSteps
<1>1. BatchTyped /\ Places /\ Given
  BY DEF BatchInv
<1>2. BatchTyped'
  BY <1>1 DEF BatchTyped
<1>3. PICK k \in 0 .. N : k <= s - 1 /\ At(k, s - 1)
  BY TurnStep
<1>4. At(k, s - 1)'
  BY <1>3 DEF At, Cut
<1>5. Places'
  <2>1. s - 1 \in k .. N /\ wraps > 0 /\ N' = N
    BY <1>3, TurnStep DEF N
  <2> QED
    BY <1>3, <1>4, <2>1 DEF Places
<1>6. Given'
  <2>1. \A r \in Steps : executed[r] \in Nat
    BY <1>1 DEF BatchTyped
  <2>2. \A r \in Steps : executed[r] > 0 => executed'[r] > 0
    <3> TAKE r \in Steps
    <3>1. executed[r] \in Nat
      BY <2>1
    <3>2. executed'[r] = executed[r] \/ executed'[r] = executed[r] + 1
      OBVIOUS
    <3> QED
      BY <3>1, <3>2
  <2>3. \A r \in Steps : item'[r] = "done" => executed'[r] > 0 /\ r \in results'
    <3> TAKE r \in Steps
    <3>1. item'[r] = "done" => item[r] = "done"
      OBVIOUS
    <3>2. item[r] = "done" => executed[r] > 0 /\ r \in results
      BY <1>1 DEF Given
    <3> QED
      BY <2>2, <3>1, <3>2
  <2>4. ASSUME s > 1
        PROVE  s \in updated
    <3>1. s - 1 \in Steps
      BY <2>4, ChainSteps
    <3>2. item[s - 1] = "done"
      BY <1>3, <3>1 DEF At
    <3> QED
      BY <1>1, <2>4, <3>2 DEF Given
  <2>5. \A r \in Steps : r > 1 /\ (executed'[r] > 0 \/ item'[r - 1] = "done") => r \in updated'
    <3>1. \A r \in Steps : r > 1 => r - 1 \in Steps
      OBVIOUS
    <3> QED
      BY <1>1, <2>1, <2>4, <3>1 DEF Given
  <2> QED
    BY <2>3, <2>5 DEF Given
<1> QED
  BY <1>2, <1>5, <1>6 DEF BatchInv

\* An exception marks no step.
LEMMA ThrownKeeps ==
    ASSUME Chain, BatchInv, NEW s \in Steps, Turn(s), Thrown, retries' = retries,
           executed' \in [Steps -> Nat], unseen' \in [Steps -> Nat], faults' \in Nat,
           \A r \in Steps : executed'[r] = executed[r] \/ (r = s /\ executed'[r] = executed[r] + 1)
    PROVE  BatchInv'
<1>1. BatchTyped
  BY DEF BatchInv
<1>2. /\ item' \in [Steps -> {"idle", "error", "done"}] /\ item' = item
      /\ failedSteps' \in Seq(Steps) /\ results' \subseteq Steps /\ results \subseteq results'
  BY <1>1 DEF Thrown, batch, BatchTyped
<1> QED
  BY <1>2, StopKeeps DEF Thrown, batch

\* A step that failed is marked, or its missing callback throws.
LEMMA FailedKeeps ==
    ASSUME Chain, BatchInv, NEW s \in Steps, Turn(s), Failed(s), retries' = retries,
           executed' \in [Steps -> Nat], unseen' \in [Steps -> Nat], faults' \in Nat,
           \A r \in Steps : executed'[r] = executed[r] \/ (r = s /\ executed'[r] = executed[r] + 1)
    PROVE  BatchInv'
<1>1. BatchTyped /\ Target(s) = s /\ item[s] # "done"
  BY TurnStep DEF BatchInv
<1>2. CASE ~Found(s) \/ s \notin WithFail
  BY <1>2, ThrownKeeps DEF Failed
<1>3. CASE Found(s) /\ s \in WithFail
  <2>1. /\ failedSteps' = failedSteps \o Repeated(s, wraps) /\ item' = [item EXCEPT ![s] = "error"]
        /\ state' = "error" /\ UNCHANGED <<pos, array, completed, results, updated, wraps>>
    BY <1>1, <1>3 DEF Failed
  <2>2. failedSteps' \in Seq(Steps)
    BY <1>1, <2>1, RepeatedSteps, BatchAssumption DEF BatchTyped
  <2>3. item' \in [Steps -> {"idle", "error", "done"}]
        /\ \A r \in Steps : item'[r] = "done" <=> item[r] = "done"
    BY <1>1, <2>1 DEF BatchTyped
  <2>4. results' \subseteq Steps /\ results \subseteq results'
    BY <1>1, <2>1 DEF BatchTyped
  <2> QED
    BY <2>1, <2>2, <2>3, <2>4, StopKeeps
<1> QED
  BY <1>2, <1>3

\* A step whose result is an error is marked.
LEMMA RefusedKeeps ==
    ASSUME Chain, BatchInv, NEW s \in Steps, CallRefused(s)
    PROVE  BatchInv'
<1>1. BatchTyped /\ Target(s) = s /\ item[s] # "done" /\ Turn(s)
  BY TurnStep DEF BatchInv, CallRefused
<1>2. /\ executed' \in [Steps -> Nat] /\ unseen' \in [Steps -> Nat] /\ faults' \in Nat
      /\ executed' = executed /\ retries' = retries
  BY <1>1 DEF CallRefused, external, BatchTyped
<1>3. CASE ~Found(s) \/ (wraps = 1 /\ s \notin WithSuccess)
  <2>1. Thrown
    BY <1>3 DEF CallRefused, Refused
  <2> QED
    BY <1>1, <1>2, <2>1, ThrownKeeps
<1>4. CASE Found(s) /\ ~(wraps = 1 /\ s \notin WithSuccess)
  <2> DEFINE n == IF s \in WithSuccess THEN wraps ELSE wraps - 1
  <2>1. /\ failedSteps' = failedSteps \o Repeated(s, n) /\ item' = [item EXCEPT ![s] = "error"]
        /\ results' = results \cup {s}
        /\ state' = "error" /\ UNCHANGED <<pos, array, completed, updated, wraps>>
    BY <1>1, <1>4 DEF CallRefused, Refused
  <2>2. n \in Int
    BY <1>1, BatchAssumption DEF BatchTyped
  <2> HIDE DEF n
  <2>3. failedSteps' \in Seq(Steps)
    BY <1>1, <2>1, <2>2, RepeatedSteps DEF BatchTyped
  <2>4. item' \in [Steps -> {"idle", "error", "done"}]
        /\ \A r \in Steps : item'[r] = "done" <=> item[r] = "done"
    BY <1>1, <2>1 DEF BatchTyped
  <2>5. results' \subseteq Steps /\ results \subseteq results'
    BY <1>1, <2>1 DEF BatchTyped
  <2> QED
    BY <1>1, <1>2, <2>1, <2>3, <2>4, <2>5, StopKeeps
<1> QED
  BY <1>3, <1>4

\* A call that succeeds: its step is done, and the next is given its arguments.
LEMMA SucceedsKeeps ==
    ASSUME Chain, BatchInv, NEW s \in Steps, CallSucceeds(s)
    PROVE  BatchInv'
<1> USE ChainSteps
<1>1. /\ BatchTyped /\ Places /\ Given /\ Turn(s)
      /\ Found(s) /\ Target(s) = s /\ state = "running" /\ wraps > 0 /\ failedSteps = <<>>
  BY TurnStep DEF BatchInv, CallSucceeds
<1>2. /\ executed' = [executed EXCEPT ![s] = executed[s] + 1] /\ executed \in [Steps -> Nat]
      /\ unseen' = unseen /\ faults' = faults /\ retries' = retries
  BY <1>1 DEF CallSucceeds, BatchTyped
<1>3. /\ executed' \in [Steps -> Nat] /\ executed'[s] > 0
      /\ \A r \in Steps : r # s => executed'[r] = executed[r]
      /\ \A r \in Steps : executed'[r] = executed[r] \/ (r = s /\ executed'[r] = executed[r] + 1)
  <2>1. executed[s] \in Nat
    BY <1>2
  <2>2. executed[s] + 1 \in Nat /\ executed[s] + 1 > 0
    BY <2>1
  <2> QED
    BY <1>2, <2>2
<1>4. CASE wraps = 1 /\ s \notin WithSuccess
  <2>1. Thrown
    BY <1>4 DEF CallSucceeds, Succeeded
  <2>2. unseen' \in [Steps -> Nat] /\ faults' \in Nat
    BY <1>1, <1>2 DEF BatchTyped
  <2> QED
    BY <1>1, <1>2, <1>3, <2>1, <2>2, ThrownKeeps
<1>5. CASE ~(wraps = 1 /\ s \notin WithSuccess)
  <2> DEFINE n == IF s \in WithSuccess THEN wraps ELSE wraps - 1
             given == Updates(s) /\ array[s + 1] # <<>>
  <2>1. /\ completed' = completed \o Repeated(s, n) /\ results' = results \cup {s}
        /\ item' = [item EXCEPT ![s] = "done"]
        /\ updated' = IF given THEN updated \cup {Head(array[s + 1])} ELSE updated
        /\ state' = IF Updates(s) /\ ~given THEN "error" ELSE state
        /\ pos' = pos + 1 /\ UNCHANGED <<array, failedSteps, wraps>>
    <3>1. GroupOf(s) = s
      OBVIOUS
    <3> QED
      BY <1>1, <1>5, <3>1 DEF CallSucceeds, Succeeded
  <2>2. n \in Int
    BY <1>1, BatchAssumption DEF BatchTyped
  <2>3. completed' \in Seq(Steps)
    <3> HIDE DEF n
    <3> QED
      BY <1>1, <2>1, <2>2, RepeatedSteps DEF BatchTyped
  <2> HIDE DEF n
  <2>4. ASSUME s < N
        PROVE  given /\ Head(array[s + 1]) = s + 1 /\ s + 1 \in Steps
    <3>1. s + 1 \in Steps /\ s + 1 > s
      BY <2>4, ChainSteps
    <3>2. array[s + 1] = <<s + 1>>
      BY <1>1, <3>1, TurnStep
    <3>3. <<s + 1>> # <<>> /\ Head(<<s + 1>>) = s + 1
      OBVIOUS
    <3>4. Updates(s)
      BY <2>4, ChainSteps
    <3> QED
      BY <3>1, <3>2, <3>3, <3>4
  <2>5. state' = "running" /\ (s < N => s + 1 \in updated') /\ updated \subseteq updated'
        /\ updated' \subseteq Steps
    <3>1. Updates(s) <=> s < N
      BY ChainSteps
    <3> HIDE DEF given
    <3>2. updated \subseteq Steps
      BY <1>1 DEF BatchTyped
    <3>3. CASE s < N
      BY <1>1, <2>1, <2>4, <3>2, <3>3
    <3>4. CASE ~(s < N)
      <4>1. ~given
        BY <3>1, <3>4 DEF given
      <4> QED
        BY <1>1, <2>1, <3>1, <3>2, <3>4, <4>1
    <3> QED
      BY <3>3, <3>4
  <2> HIDE DEF given
  <2>6. /\ item \in [Steps -> {"idle", "error", "done"}]
        /\ item' \in [Steps -> {"idle", "error", "done"}] /\ item'[s] = "done"
        /\ \A r \in Steps : r # s => item'[r] = item[r]
    BY <1>1, <2>1 DEF BatchTyped
  <2>7. BatchTyped'
    BY <1>1, <1>2, <1>3, <2>1, <2>3, <2>5, <2>6 DEF BatchTyped
  <2>8. PICK k \in 0 .. N : k <= s - 1 /\ At(k, s - 1)
    BY <1>1, TurnStep
  <2>9. At(k, s)'
    <3>1. array' = Cut(k)'
      BY <2>1, <2>8 DEF At, Cut, N
    <3>2. pos = (s - 1) - k + 1 /\ s \in Int /\ k \in Int
      BY <2>8 DEF At
    <3>3. pos' = s - k + 1
      BY <2>1, <3>2
    <3>4. \A r \in Steps : item'[r] = "done" <=> r <= s
      <4> TAKE r \in Steps
      <4>1. item[r] = "done" <=> r <= s - 1
        BY <2>8 DEF At
      <4>2. r \in Int /\ s \in Int
        BY ChainSteps
      <4>3. CASE r = s
        BY <2>6, <4>2, <4>3
      <4>4. CASE r # s
        <5>1. item'[r] = item[r]
          BY <2>6, <4>4
        <5>2. r <= s - 1 <=> r <= s
          BY <4>2, <4>4
        <5> QED
          BY <4>1, <5>1, <5>2
      <4> QED
        BY <4>3, <4>4
    <3> QED
      BY <3>1, <3>3, <3>4 DEF At
  <2>10. Places'
    <3>1. s \in k .. N /\ N' = N /\ wraps' > 0 /\ state' # "idle" /\ state' # "done"
      BY <1>1, <2>1, <2>5, <2>8 DEF N
    <3> QED
      BY <2>8, <2>9, <3>1 DEF Places
  <2>11. Given'
    <3>1. ASSUME NEW r \in Steps, item'[r] = "done"
          PROVE  executed'[r] > 0 /\ r \in results'
      <4>1. CASE r = s
        BY <1>3, <2>1, <4>1
      <4>2. CASE r # s
        <5>1. item[r] = "done" /\ executed'[r] = executed[r]
          BY <1>3, <2>6, <3>1, <4>2
        <5>2. executed[r] > 0 /\ r \in results
          BY <1>1, <5>1 DEF Given
        <5> QED
          BY <2>1, <5>1, <5>2
      <4> QED
        BY <4>1, <4>2
    <3>2. ASSUME s > 1
          PROVE  s \in updated
      <4>1. s - 1 \in Steps
        BY <3>2, ChainSteps
      <4>2. item[s - 1] = "done"
        BY <2>8, <4>1 DEF At
      <4> QED
        BY <1>1, <3>2, <4>2 DEF Given
    <3>3. ASSUME NEW r \in Steps, r > 1, executed'[r] > 0 \/ item'[r - 1] = "done"
          PROVE  r \in updated'
      <4>1. CASE r = s
        BY <2>5, <3>2, <3>3, <4>1
      <4>2. CASE r = s + 1
        <5>1. s < N
          BY <4>2, ChainSteps
        <5> QED
          BY <2>5, <4>2, <5>1
      <4>3. CASE r # s /\ r # s + 1
        <5>0. r \in 1 .. N /\ s \in 1 .. N /\ N \in Nat
          BY ChainSteps
        <5>a. r - 1 \in 1 .. N /\ r - 1 # s
          <6>1. r > 1 /\ r # s + 1
            BY <3>3, <4>3
          <6> QED
            BY <5>0, <6>1, StepBefore
        <5>1. r - 1 \in Steps /\ r - 1 # s
          BY <5>a, ChainSteps
        <5>2. executed[r] > 0 \/ item[r - 1] = "done"
          BY <1>3, <2>6, <3>3, <4>3, <5>1
        <5> QED
          BY <1>1, <2>5, <3>3, <5>2 DEF Given
      <4> QED
        BY <4>1, <4>2, <4>3
    <3>4. failedSteps' = <<>>
      BY <1>1, <2>1
    <3> QED
      BY <3>1, <3>3, <3>4 DEF Given
  <2> QED
    BY <2>7, <2>10, <2>11 DEF BatchInv
<1> QED
  BY <1>4, <1>5

\* A batch begins, again, with all its steps.
LEMMA ExecuteKeeps ==
    ASSUME Chain, BatchInv, Execute
    PROVE  BatchInv'
<1> USE ChainSteps
<1>1. BatchTyped /\ Places /\ Given
  BY DEF BatchInv
<1>2. /\ state' = "running" /\ array' = Cut(0) /\ item' = [s \in Steps |-> "idle"]
      /\ wraps' = wraps + 1 /\ wraps < MaxExecutes /\ failedSteps' = <<>> /\ pos' = 1 /\ faults' = 0
      /\ UNCHANGED <<completed, results, updated, executed, unseen, retries>>
  BY DEF Execute, external
<1>3. wraps' \in 0 .. MaxExecutes /\ wraps' > 0
  BY <1>1, <1>2, BatchAssumption DEF BatchTyped
<1>4. failedSteps' \in Seq(Steps)
  BY <1>2
<1>5. BatchTyped'
  BY <1>1, <1>2, <1>3, <1>4 DEF BatchTyped
<1>6. At(0, 0)'
  <2>1. Cut(0)' = Cut(0)
    BY DEF Cut, N
  <2>2. \A s \in Steps : ~(s <= 0)
    BY ChainSteps
  <2>3. \A s \in Steps : item'[s] # "done"
    BY <1>2
  <2> QED
    BY <1>2, <2>1, <2>2, <2>3 DEF At
<1>7. Places'
  <2>1. N' = N /\ 0 \in 0 .. N
    BY DEF N
  <2> QED
    BY <1>2, <1>3, <1>6, <2>1 DEF Places
<1>8. Given'
  <2>1. \A s \in Steps : item'[s] # "done"
    BY <1>2
  <2>2. \A s \in Steps : s > 1 => s - 1 \in Steps
    BY ChainSteps
  <2> QED
    BY <1>1, <1>2, <2>1, <2>2 DEF Given
<1> QED
  BY <1>5, <1>7, <1>8 DEF BatchInv

\* A retry begins with the steps that are not done.
LEMMA RetryKeeps ==
    ASSUME Chain, BatchInv, RetryExecute
    PROVE  BatchInv'
<1> USE ChainSteps
<1>1. BatchTyped /\ Places /\ Given /\ state = "error"
  BY DEF BatchInv, RetryExecute, StartRetry
<1>2. /\ state' = "running" /\ failedSteps' = <<>> /\ pos' = 1 /\ faults' = 0
      /\ retries' = retries + 1 /\ retries < MaxRetries
      /\ array' = [g \in DOMAIN array |-> Undone(array[g])]
      /\ UNCHANGED <<item, completed, results, updated, wraps, executed, unseen>>
  BY DEF RetryExecute, StartRetry, external
<1>3. retries' \in 0 .. MaxRetries
  BY <1>1, <1>2, BatchAssumption DEF BatchTyped
<1>4. failedSteps' \in Seq(Steps)
  BY <1>2
<1>5. BatchTyped'
  BY <1>1, <1>2, <1>3, <1>4 DEF BatchTyped
<1>6. PICK k \in 0 .. N : \E d \in k .. N : At(k, d)
  BY <1>1 DEF Places
<1>7. PICK d \in k .. N : At(k, d)
  BY <1>6
<1>8. d \in 0 .. N /\ wraps > 0
  BY <1>1 DEF Places
<1>9. array' = Cut(d)
  <2>1. DOMAIN array = 1 .. N /\ \A g \in 1 .. N : array[g] = IF g <= k THEN <<>> ELSE <<g>>
    BY <1>7 DEF At, Cut
  <2>2. ASSUME NEW g \in 1 .. N
        PROVE  Undone(array[g]) = IF g <= d THEN <<>> ELSE <<g>>
    <3>1. g \in Steps /\ (item[g] = "done" <=> g <= d)
      BY <1>7, ChainSteps DEF At
    <3>2. Undone(<<>>) = <<>> /\ Undone(<<g>>) = IF item[g] = "done" THEN <<>> ELSE <<g>>
      BY <3>1, UndoneStep
    <3>3. CASE g <= k
      <4>1. g <= d
        BY <3>3
      <4> QED
        BY <2>1, <3>2, <3>3, <4>1
    <3>4. CASE ~(g <= k)
      BY <2>1, <3>1, <3>2, <3>4
    <3> QED
      BY <3>3, <3>4
  <2> QED
    BY <1>2, <2>1, <2>2 DEF Cut
<1>10. At(d, d)'
  <2>1. Cut(d)' = Cut(d)
    BY DEF Cut, N
  <2> QED
    BY <1>2, <1>7, <1>8, <1>9, <2>1 DEF At
<1>11. Places'
  <2>1. N' = N /\ d \in d .. N
    BY <1>8 DEF N
  <2> QED
    BY <1>2, <1>8, <1>10, <2>1 DEF Places
<1>12. Given'
  BY <1>1, <1>2 DEF Given
<1> QED
  BY <1>5, <1>11, <1>12 DEF BatchInv

\* The loops are through when every step is done, and none has failed.
LEMMA FinishKeeps ==
    ASSUME Chain, BatchInv, Finish
    PROVE  BatchInv' /\ state' = "done"
<1> USE ChainSteps
<1>1. BatchTyped /\ Places /\ Given /\ state = "running" /\ failedSteps = <<>>
  BY DEF BatchInv, Given, Finish
<1>2. /\ state' = "done" /\ pos > Len(Queue)
      /\ UNCHANGED <<pos, array, item, completed, failedSteps, results, updated, wraps, executed,
                     unseen, faults, retries>>
  BY <1>1 DEF Finish, batch, external
<1>3. PICK k \in 0 .. N : \E d \in k .. N : At(k, d)
  BY <1>1 DEF Places
<1>4. PICK d \in k .. N : At(k, d)
  BY <1>3
<1>5. Len(Queue) = N - k
  <2>1. Queue = [i \in 1 .. (N - k) |-> k + i]
    BY <1>4, CutQueue DEF At, Queue
  <2>2. Queue \in [1 .. (N - k) -> Steps] /\ N - k \in Nat
    BY <2>1
  <2> QED
    BY <2>2, FunctionIsSeq
<1>6. d = N
  <2>1. pos = d - k + 1
    BY <1>4 DEF At
  <2> QED
    BY <1>2, <1>5, <2>1
<1>7. At(k, d)' /\ wraps > 0
  BY <1>1, <1>2, <1>4 DEF At, Cut, N, Places
<1>8. Places'
  <2>1. N' = N
    BY DEF N
  <2> QED
    BY <1>2, <1>6, <1>7, <2>1 DEF Places
<1>9. BatchTyped' /\ Given'
  BY <1>1, <1>2 DEF BatchTyped, Given
<1> QED
  BY <1>2, <1>8, <1>9 DEF BatchInv

\* At first a batch has not begun.
LEMMA BatchInitInv ==
    ASSUME Chain, BatchInit
    PROVE  BatchInv
<1>1. BatchTyped
  <2>1. <<>> \in Seq(Steps) /\ 0 \in 0 .. MaxExecutes /\ 0 \in 0 .. MaxRetries
    BY BatchAssumption
  <2> QED
    BY <2>1 DEF BatchInit, BatchTyped
<1>2. \A s \in Steps : s > 1 => s - 1 \in Steps
  BY ChainSteps
<1> QED
  BY <1>1, <1>2 DEF BatchInit, BatchInv, Places, Given

\* Every step of a batch keeps the invariant.
LEMMA BatchStepInv ==
    ASSUME Chain, BatchInv, [BatchNext]_batchVars
    PROVE  BatchInv'
<1>1. BatchTyped
  BY DEF BatchInv
<1>2. CASE UNCHANGED batchVars
  <2>1. UNCHANGED <<state, pos, array, item, completed, failedSteps, results, updated, wraps,
                    executed, unseen, faults, retries>>
    BY <1>2 DEF batchVars, batch, external
  <2> QED
    BY <2>1 DEF BatchInv, BatchTyped, Places, Given, At, Cut, N
<1>3. ASSUME NEW s \in Steps, CallRejected(s) \/ CallUnseen(s) \/ ActorMissing(s)
      PROVE  BatchInv'
  <2>1. Turn(s) /\ (Failed(s) \/ Thrown) /\ retries' = retries /\ faults' = faults + 1
    BY <1>3 DEF CallRejected, CallUnseen, ActorMissing
  <2>2. faults' \in Nat
    BY <1>1, <2>1 DEF BatchTyped
  <2>3. /\ executed' \in [Steps -> Nat] /\ unseen' \in [Steps -> Nat]
        /\ \A r \in Steps : executed'[r] = executed[r] \/ (r = s /\ executed'[r] = executed[r] + 1)
    <3>1. /\ executed \in [Steps -> Nat] /\ unseen \in [Steps -> Nat]
          /\ executed[s] + 1 \in Nat /\ unseen[s] + 1 \in Nat
      BY <1>1 DEF BatchTyped
    <3>2. CASE executed' = executed /\ unseen' = unseen
      BY <3>1, <3>2
    <3>3. CASE /\ executed' = [executed EXCEPT ![s] = executed[s] + 1]
               /\ unseen' = [unseen EXCEPT ![s] = unseen[s] + 1]
      BY <3>1, <3>3
    <3> QED
      BY <1>3, <3>2, <3>3 DEF CallRejected, CallUnseen, ActorMissing, external
  <2> QED
    BY <2>1, <2>2, <2>3, FailedKeeps, ThrownKeeps
<1> QED
  BY <1>2, <1>3, ExecuteKeeps, RetryKeeps, FinishKeeps, SucceedsKeeps, RefusedKeeps
     DEF BatchNext

-----------------------------------------------------------------------------
(* How often a step is called *)

\* What is left of the executes for a step that will be marked: one, unless it is done or
\* nothing has begun.
Left(s) == IF item[s] = "done" \/ state = "idle" THEN 0 ELSE 1

\* What is left for any step of the run that is under way.
Again(s) == IF state = "running" /\ item[s] # "done" THEN 1 ELSE 0

\* A step that is carried out although its success cannot be marked.
Unmarked == wraps = 1 /\ \E s \in Steps \ WithSuccess : executed[s] > 0

\* A step may still be called once for the execute that is under way, and once in the run.
Once ==
    /\ \A s \in WithSuccess : executed[s] + Left(s) <= wraps + unseen[s]
    /\ \A s \in Steps : executed[s] + Again(s) <= wraps + retries
    /\ state = "error" => faults > 0 \/ Unmarked

LEMMA Lefts ==
    /\ \A s : Left(s) \in 0 .. 1 /\ Again(s) \in 0 .. 1
    /\ \A s : Left(s)' \in 0 .. 1 /\ Again(s)' \in 0 .. 1
  BY DEF Left, Again

LEMMA BatchNumbers ==
    ASSUME BatchInv
    PROVE  /\ wraps \in Nat /\ retries \in Nat /\ faults \in Nat /\ WithSuccess \subseteq Steps
           /\ executed \in [Steps -> Nat] /\ unseen \in [Steps -> Nat]
           /\ item \in [Steps -> {"idle", "error", "done"}]
  BY BatchAssumption DEF BatchInv, BatchTyped

\* A run begins: with an execute all steps are left, with a retry those that are not done.
LEMMA RunOnce ==
    ASSUME Chain, BatchInv, Once, Execute \/ RetryExecute
    PROVE  Once'
<1>1. /\ executed' = executed /\ unseen' = unseen
      /\ state \in {"idle", "error"} /\ state' = "running"
      /\ \/ wraps' = wraps + 1 /\ retries' = retries
         \/ state = "error" /\ item' = item /\ wraps' = wraps /\ retries' = retries + 1
  BY DEF Execute, RetryExecute, StartRetry, external
<1>2. ASSUME NEW s \in WithSuccess
      PROVE  executed'[s] + Left(s)' <= wraps' + unseen'[s]
  <2>1. /\ s \in Steps /\ executed[s] \in Nat /\ unseen[s] \in Nat /\ wraps \in Nat
        /\ executed[s] + Left(s) <= wraps + unseen[s]
    BY BatchNumbers DEF Once
  <2>2. Left(s) \in 0 .. 1 /\ Left(s)' \in 0 .. 1
    BY Lefts
  <2>3. CASE wraps' = wraps + 1
    BY <1>1, <2>1, <2>2, <2>3
  <2>4. CASE wraps' = wraps /\ item' = item /\ state = "error"
    <3>1. Left(s)' = Left(s)
      BY <1>1, <2>4 DEF Left
    <3> QED BY <1>1, <2>1, <2>4, <3>1
  <2> QED BY <1>1, <2>3, <2>4
<1>3. ASSUME NEW s \in Steps
      PROVE  executed'[s] + Again(s)' <= wraps' + retries'
  <2>1. /\ executed[s] \in Nat /\ wraps \in Nat /\ retries \in Nat
        /\ executed[s] + Again(s) <= wraps + retries
    BY BatchNumbers DEF Once
  <2>2. Again(s) \in 0 .. 1 /\ Again(s)' \in 0 .. 1
    BY Lefts
  <2> QED BY <1>1, <2>1, <2>2
<1> QED
  BY <1>1, <1>2, <1>3 DEF Once

\* A call of s in the run: what was left of s is used up, or the call is not counted, or its
\* answer was not seen; and the run goes on, ends for a fault, or for a success nobody marks.
LEMMA CallOnce ==
    ASSUME BatchInv, Once, NEW s \in Steps, state = "running", item[s] # "done",
           UNCHANGED <<wraps, retries>>,
           \A r \in Steps : r # s => /\ item'[r] = item[r]
                                     /\ executed'[r] = executed[r] /\ unseen'[r] = unseen[r],
           \/ executed'[s] = executed[s] /\ unseen'[s] = unseen[s]
           \/ executed'[s] = executed[s] + 1 /\ unseen'[s] = unseen[s] + 1
           \/ executed'[s] = executed[s] + 1 /\ unseen'[s] = unseen[s] /\ item'[s] = "done"
           \/ executed'[s] = executed[s] + 1 /\ unseen'[s] = unseen[s] /\ s \notin WithSuccess,
           state' = "error" \/ (state' = "running" /\ item'[s] = "done"),
           state' = "error" => faults' > 0 \/ Unmarked'
    PROVE  Once'
<1>1. ASSUME NEW r \in WithSuccess
      PROVE  executed'[r] + Left(r)' <= wraps' + unseen'[r]
  <2>1. /\ r \in Steps /\ executed[r] \in Nat /\ unseen[r] \in Nat /\ wraps \in Nat
        /\ executed[r] + Left(r) <= wraps + unseen[r]
    BY BatchNumbers DEF Once
  <2>2. Left(r) \in 0 .. 1 /\ Left(r)' \in 0 .. 1
    BY Lefts
  <2>3. CASE r # s
    <3>1. Left(r)' = Left(r)
      BY <2>1, <2>3 DEF Left
    <3> QED BY <2>1, <2>3, <3>1
  <2>4. CASE r = s
    <3>1. Left(r) = 1 /\ (item'[r] = "done" => Left(r)' = 0)
      BY <2>4 DEF Left
    <3> QED BY <2>1, <2>2, <2>4, <3>1
  <2> QED BY <2>3, <2>4
<1>2. ASSUME NEW r \in Steps
      PROVE  executed'[r] + Again(r)' <= wraps' + retries'
  <2>1. /\ executed[r] \in Nat /\ wraps \in Nat /\ retries \in Nat
        /\ executed[r] + Again(r) <= wraps + retries
    BY BatchNumbers DEF Once
  <2>2. Again(r) \in 0 .. 1 /\ Again(r)' \in 0 .. 1
    BY Lefts
  <2>3. CASE r # s
    <3>1. Again(r)' = Again(r) \/ Again(r)' = 0
      BY <2>3 DEF Again
    <3> QED BY <2>1, <2>2, <2>3, <3>1
  <2>4. CASE r = s
    <3>1. Again(r) = 1 /\ Again(r)' = 0
      BY <2>4 DEF Again
    <3> QED BY <2>1, <2>4, <3>1
  <2> QED BY <2>3, <2>4
<1> QED
  BY <1>1, <1>2 DEF Once

\* A call that succeeds is marked, or its step cannot be: the callbacks are wrapped once.
LEMMA SuccessOnce ==
    ASSUME Chain, BatchInv, Once, NEW s \in Steps, CallSucceeds(s)
    PROVE  Once'
<1>1. /\ Turn(s) /\ Found(s) /\ Target(s) = s /\ item[s] # "done" /\ state = "running"
      /\ executed \in [Steps -> Nat] /\ executed' = [executed EXCEPT ![s] = executed[s] + 1]
      /\ unseen' = unseen /\ retries' = retries
      /\ item \in [Steps -> {"idle", "error", "done"}]
  BY BatchNumbers, TurnStep DEF CallSucceeds
<1>2. /\ executed'[s] = executed[s] + 1
      /\ \A r \in Steps : r # s => executed'[r] = executed[r]
  BY <1>1
<1>3. CASE wraps = 1 /\ s \notin WithSuccess
  <2>1. state' = "error" /\ wraps' = wraps /\ item' = item
    BY <1>1, <1>3 DEF CallSucceeds, Succeeded, Thrown, batch
  <2>2. Unmarked'
    <3>1. executed'[s] > 0
      BY <1>1, <1>2
    <3> QED BY <1>3, <2>1, <3>1 DEF Unmarked
  <2> QED BY <1>1, <1>2, <1>3, <2>1, <2>2, CallOnce
<1>4. CASE ~(wraps = 1 /\ s \notin WithSuccess)
  <2>1. item' = [item EXCEPT ![s] = "done"] /\ wraps' = wraps
    BY <1>1, <1>4 DEF CallSucceeds, Succeeded
  <2>2. state' = "running"
    <3>1. GroupOf(s) = s /\ (Updates(s) <=> s < N) /\ N \in Nat /\ Steps = 1 .. N
      BY ChainSteps
    <3>2. ASSUME Updates(s)
          PROVE  array[s + 1] # <<>>
      <4>1. s + 1 \in Steps /\ s + 1 > s
        BY <3>1, <3>2
      <4>2. array[s + 1] = <<s + 1>>
        BY <1>1, <4>1, TurnStep
      <4> QED
        BY <4>2
    <3> QED
      BY <1>1, <1>4, <3>1, <3>2 DEF CallSucceeds, Succeeded
  <2>3. item'[s] = "done" /\ \A r \in Steps : r # s => item'[r] = item[r]
    BY <1>1, <2>1
  <2> QED BY <1>1, <1>2, <2>1, <2>2, <2>3, CallOnce
<1> QED BY <1>3, <1>4

\* A call that does not succeed.
LEMMA FaultOnce ==
    ASSUME Chain, BatchInv, Once, NEW s \in Steps,
           CallRefused(s) \/ CallRejected(s) \/ CallUnseen(s) \/ ActorMissing(s)
    PROVE  Once'
<1>1. /\ Turn(s) /\ Target(s) = s /\ item[s] # "done" /\ state = "running"
      /\ faults' = faults + 1 /\ retries' = retries
  BY TurnStep DEF CallRefused, CallRejected, CallUnseen, ActorMissing
<1>2. Refused(s) \/ Failed(s) \/ Thrown
  BY DEF CallRefused, CallRejected, CallUnseen, ActorMissing
<1>3. /\ state' = "error" /\ wraps' = wraps
      /\ item' = item \/ item' = [item EXCEPT ![s] = "error"]
  BY <1>1, <1>2 DEF Refused, Failed, Thrown, batch
<1>4. \/ executed' = executed /\ unseen' = unseen
      \/ /\ executed' = [executed EXCEPT ![s] = executed[s] + 1]
         /\ unseen' = [unseen EXCEPT ![s] = unseen[s] + 1]
  BY DEF CallRefused, CallRejected, CallUnseen, ActorMissing, external
<1>5. /\ executed \in [Steps -> Nat] /\ unseen \in [Steps -> Nat] /\ faults \in Nat
      /\ item \in [Steps -> {"idle", "error", "done"}]
  BY BatchNumbers
<1>6. \A r \in Steps : r # s => item'[r] = item[r]
  BY <1>3, <1>5
<1>7. /\ \A r \in Steps : r # s => executed'[r] = executed[r] /\ unseen'[r] = unseen[r]
      /\ \/ executed'[s] = executed[s] /\ unseen'[s] = unseen[s]
         \/ executed'[s] = executed[s] + 1 /\ unseen'[s] = unseen[s] + 1
  BY <1>4, <1>5
<1>8. faults' > 0
  BY <1>1, <1>5
<1> QED
  BY <1>1, <1>3, <1>6, <1>7, <1>8, CallOnce

\* Every step of a batch keeps to it.
LEMMA OnceStep ==
    ASSUME Chain, BatchInv, Once, [BatchNext]_batchVars
    PROVE  Once'
<1>1. CASE UNCHANGED batchVars
  BY <1>1 DEF batchVars, batch, external, Once, Left, Again, Unmarked
<1>2. CASE Finish
  <2>1. /\ UNCHANGED <<item, wraps, executed, unseen, retries>>
        /\ state = "running" /\ state' = "done"
    BY <1>2, FinishKeeps DEF Finish, batch, external
  <2>2. ASSUME NEW s \in WithSuccess
        PROVE  executed'[s] + Left(s)' <= wraps' + unseen'[s]
    BY <2>1 DEF Once, Left
  <2>3. ASSUME NEW s \in Steps
        PROVE  executed'[s] + Again(s)' <= wraps' + retries'
    <3>1. /\ executed[s] \in Nat /\ wraps \in Nat /\ retries \in Nat
          /\ executed[s] + Again(s) <= wraps + retries
      BY BatchNumbers DEF Once
    <3>2. Again(s) \in 0 .. 1 /\ Again(s)' = 0
      BY <2>1, Lefts DEF Again
    <3> QED BY <2>1, <3>1, <3>2
  <2> QED
    BY <2>1, <2>2, <2>3 DEF Once
<1> QED
  BY <1>1, <1>2, RunOnce, SuccessOnce, FaultOnce DEF BatchNext

\* Nothing has been called at first.
LEMMA OnceInit ==
    ASSUME BatchInit
    PROVE  Once
  BY BatchAssumption DEF BatchInit, Once, Left, Again

\* The invariant is what is promised of the calls.
LEMMA OnceAgrees ==
    ASSUME BatchInv, Once
    PROVE  ExecutedOnce /\ SuccessReported
<1>1. ASSUME NEW s \in Steps
      PROVE  executed[s] <= wraps + IF s \in WithSuccess THEN unseen[s] ELSE retries
  <2>1. /\ executed[s] \in Nat /\ unseen[s] \in Nat /\ wraps \in Nat /\ retries \in Nat
        /\ Left(s) \in 0 .. 1 /\ Again(s) \in 0 .. 1
    BY BatchNumbers, Lefts
  <2>2. /\ s \in WithSuccess => executed[s] + Left(s) <= wraps + unseen[s]
        /\ executed[s] + Again(s) <= wraps + retries
    BY DEF Once
  <2> QED
    BY <2>1, <2>2
<1> QED
  BY <1>1 DEF ExecutedOnce, SuccessReported, Once, Unmarked

\* A batch whose steps each give the next its arguments reports "done" only when every step was
\* carried out and every result is held, and calls none before its arguments are set, however
\* often it fails and is retried or executed again (_processBatch, updateNextStep).
THEOREM DoneAlwaysMeansAll ==
    ASSUME Chain
    PROVE  AdapterSpec => []DoneMeansAll
<1>1. AdapterInit => BatchInv
  BY BatchInitInv DEF AdapterInit
<1>2. BatchInv /\ [AdapterNext]_<<vars, batchVars, part>> => BatchInv'
  BY BatchStepInv DEF AdapterNext
<1>3. BatchInv => DoneMeansAll
  BY BatchInvDone
<1> QED
  BY <1>1, <1>2, <1>3, PTL DEF AdapterSpec

\* A retry of such a batch does not repeat what was done: each execute makes a call once, and
\* once more only for an answer that was not seen, or in a retry for a step whose onSuccess is
\* missing or throws (retryExecute's filter against the callbacks that mark the steps).
THEOREM ExecutedAlwaysOnce ==
    ASSUME Chain
    PROVE  AdapterSpec => []ExecutedOnce
<1>1. AdapterInit => BatchInv /\ Once
  BY BatchInitInv, OnceInit DEF AdapterInit
<1>2. BatchInv /\ Once /\ [AdapterNext]_<<vars, batchVars, part>> => BatchInv' /\ Once'
  BY BatchStepInv, OnceStep DEF AdapterNext
<1>3. BatchInv /\ Once => ExecutedOnce
  BY OnceAgrees
<1> QED
  BY <1>1, <1>2, <1>3, PTL DEF AdapterSpec

\* It reports an error for a run in which every call succeeded only in the first execute and its
\* retries, and only when a step whose onSuccess is missing or throws was carried out (onSuccess).
THEOREM SuccessAlwaysReported ==
    ASSUME Chain
    PROVE  AdapterSpec => []SuccessReported
<1>1. AdapterInit => BatchInv /\ Once
  BY BatchInitInv, OnceInit DEF AdapterInit
<1>2. BatchInv /\ Once /\ [AdapterNext]_<<vars, batchVars, part>> => BatchInv' /\ Once'
  BY BatchStepInv, OnceStep DEF AdapterNext
<1>3. BatchInv /\ Once => SuccessReported
  BY OnceAgrees
<1> QED
  BY <1>1, <1>2, <1>3, PTL DEF AdapterSpec

-----------------------------------------------------------------------------
(* TradeFlow: the trades *)

\* The states of a swap.
SwapState == {"none", "pending", "ok", "failed", "short"}

\* What is known of a trade n, of the state s of its swap and of the r times it was reported:
\* every status request that is under way or has reported it was asked for at a time, and only
\* a swap that the router has taken has a state.
Fine(n, s, r) ==
    /\ n.reporting <= r
    /\ r + n.polls <= n.peak
    /\ n.polls > 0 => n.pc \in {"poll", "settled"}
    /\ r > 0 => n.pc = "settled" /\ s = "ok"
    /\ n.pc \in {"idle", "approve", "quote", "swap", "dead"} => s = "none"

\* What is known of every trade.
AllFine == \A t \in Trades : Fine(trade[t], swap[t], reports[t])

\* Unless an earlier form was put back, the form is the one on the screen.
FormKept ==
    ~hist.revived =>
        /\ form.amount = screen.text /\ form.dir = screen.tab /\ form.token = project
        /\ \A t \in Trades : trade[t].pc # "idle" => trade[t].form.token = trade[t].pool

\* Nothing has freed the button under a trade.
Plain == ~hist.closed /\ ~hist.unseen /\ \A t \in Trades : trade[t].peak <= 1

\* A trade under way; what it sells; whether the approval covers it.
Busy(n) == n.pc \in {"approve", "quote", "swap", "poll", "dead"}
Sold(n) == AssetOf(n.form.dir, n.form.token)
Covered(n) == allowance[Sold(n)] >= n.form.amount + 1

\* The box is up while a trade is under way or a timer will free the button, one at a time;
\* what a trade has approved is left until its swap is settled.
OneAtATime ==
    /\ timers <= 1
    /\ timers > 0 => box /\ \A t \in Trades : ~Busy(trade[t])
    /\ \A t \in Trades : Busy(trade[t]) => box /\ \A u \in Trades \ {t} : ~Busy(trade[u])
    /\ \A t \in Trades : swap[t] = "pending" => trade[t].pc = "poll"
    /\ \A t \in Trades : trade[t].pc = "settled" => trade[t].polls = 0
    /\ \A t \in Trades : trade[t].pc \in {"quote", "swap"} \/ swap[t] = "pending" => Covered(trade[t])
    /\ \A t \in Trades : swap[t] # "short"

\* While nothing has freed the button there is one trade at a time.
LockKept == Plain => OneAtATime

\* The inductive invariant of the trades.
TradeInv == Types /\ AllFine /\ FormKept /\ LockKept

\* The invariant is what the page promises of its trades.
LEMMA TradeInvAgrees ==
    ASSUME TradeInv
    PROVE  FormAgrees /\ ReportsAgree /\ ShortExplained
<1>1. FormAgrees
  BY DEF TradeInv, FormKept, FormAgrees
<1>2. ReportsAgree
  <2> SUFFICES ASSUME NEW t \in Trades
               PROVE  (reports[t] > 0 => swap[t] = "ok") /\ reports[t] <= trade[t].peak
    BY DEF ReportsAgree
  <2>1. Fine(trade[t], swap[t], reports[t]) /\ trade[t] \in Trade /\ reports[t] \in Nat
    BY DEF TradeInv, AllFine, Types
  <2>2. trade[t].polls \in Nat /\ trade[t].peak \in Nat
    BY <2>1 DEF Trade
  <2> QED
    BY <2>1, <2>2 DEF Fine
<1>3. ShortExplained
  <2> SUFFICES ASSUME NEW t \in Trades, swap[t] = "short"
               PROVE  hist.closed \/ hist.unseen \/ \E u \in Trades : trade[u].peak > 1
    BY DEF ShortExplained
  <2>1. ~Plain
    BY DEF TradeInv, LockKept, OneAtATime
  <2>2. \A u \in Trades : trade[u].peak \in Nat
    BY DEF TradeInv, Types, Trade
  <2> QED
    BY <2>1, <2>2 DEF Plain
<1> QED
  BY <1>1, <1>2, <1>3

\* Amounts are numbers.
LEMMA AmountsNumbers == AmountRange \subseteq Nat
<1>1. Balance - Margin \in Nat
  BY TradeAssumption
<1>2. Balance \div 2 \in Nat
  BY TradeAssumption
<1> QED
  BY <1>1, <1>2, TradeAssumption DEF AmountRange

\* What is known of the parts of the state.
LEMMA TradeTypes ==
    ASSUME TradeInv
    PROVE  /\ project \in Projects
           /\ search \subseteq [project : Projects, amount : AmountRange]
           /\ form \in Form /\ screen \in [tab : Dir, text : AmountRange]
           /\ box \in BOOLEAN /\ timers \in Nat
           /\ trade \in [Trades -> Trade] /\ swap \in [Trades -> SwapState]
           /\ allowance \in [Assets -> Nat] /\ reports \in [Trades -> Nat]
           /\ hist \in [revived : BOOLEAN, closed : BOOLEAN, unseen : BOOLEAN]
           /\ tradeBounds \in [edits : 0..MaxEdits, failures : 0..MaxFailures,
                               closes : 0..MaxCloses]
BY DEF TradeInv, Types, SwapState

\* A counter of failures or edits that is not at its bound goes up.
LEMMA FailTypes ==
    ASSUME TradeInv, Fail
    PROVE  tradeBounds' \in [edits : 0..MaxEdits, failures : 0..MaxFailures, closes : 0..MaxCloses]
<1>1. tradeBounds.failures + 1 \in 0..MaxFailures
  BY TradeTypes, TradeAssumption DEF Fail
<1> QED
  BY <1>1, TradeTypes DEF Fail

\* So does the counter of edits.
LEMMA EditTypes ==
    ASSUME TradeInv, Edit
    PROVE  tradeBounds' \in [edits : 0..MaxEdits, failures : 0..MaxFailures, closes : 0..MaxCloses]
<1>1. tradeBounds.edits + 1 \in 0..MaxEdits
  BY TradeTypes, TradeAssumption DEF Edit
<1> QED
  BY <1>1, TradeTypes DEF Edit

\* A step of the form: the trades, the router and the button are left alone.
LEMMA FormSteps ==
    ASSUME TradeInv, UNCHANGED <<window, trade, world>>,
           project' \in Projects, search' \subseteq [project : Projects, amount : AmountRange],
           form' \in Form, screen' \in [tab : Dir, text : AmountRange],
           hist' \in [revived : BOOLEAN, closed : BOOLEAN, unseen : BOOLEAN],
           hist'.closed <=> hist.closed, hist'.unseen <=> hist.unseen,
           tradeBounds' \in [edits : 0..MaxEdits, failures : 0..MaxFailures, closes : 0..MaxCloses],
           ~hist'.revived => /\ ~hist.revived
                             /\ form'.amount = screen'.text /\ form'.dir = screen'.tab
                             /\ form'.token = project'
    PROVE  TradeInv'
<1>1. UNCHANGED <<box, timers, trade, allowance, swap, reports>>
  BY DEF window, world
<1>2. Types'
  BY <1>1, TradeTypes DEF Types, SwapState
<1>3. AllFine'
  BY <1>1 DEF TradeInv, AllFine
<1>4. FormKept'
  BY <1>1 DEF TradeInv, FormKept
<1>5. LockKept'
  BY <1>1 DEF TradeInv, LockKept, Plain, OneAtATime, Covered
<1> QED
  BY <1>2, <1>3, <1>4, <1>5 DEF TradeInv

\* A step of trade t, which becomes n.
LEMMA TradeMoves ==
    ASSUME TradeInv, NEW t \in Trades, NEW n \in Trade,
           trade' = [trade EXCEPT ![t] = n],
           UNCHANGED <<project, screen>>,
           form' \in Form, search' \subseteq [project : Projects, amount : AmountRange],
           box' \in BOOLEAN, timers' \in Nat,
           allowance' \in [Assets -> Nat],
           swap' \in [Trades -> SwapState], \A u \in Trades \ {t} : swap'[u] = swap[u],
           reports' \in [Trades -> Nat], \A u \in Trades \ {t} : reports'[u] = reports[u],
           hist' \in [revived : BOOLEAN, closed : BOOLEAN, unseen : BOOLEAN],
           tradeBounds' \in [edits : 0..MaxEdits, failures : 0..MaxFailures, closes : 0..MaxCloses],
           Fine(n, swap'[t], reports'[t]),
           ~hist'.revived => ~hist.revived /\ form' = form,
           ~hist.revived => n.form.token = n.pool,
           hist.closed => hist'.closed, hist.unseen => hist'.unseen,
           trade[t].peak <= n.peak,
           Plain /\ ~hist'.closed /\ ~hist'.unseen /\ n.peak <= 1 /\ OneAtATime =>
               /\ timers' <= 1
               /\ timers' > 0 => box' /\ ~Busy(n) /\ \A u \in Trades \ {t} : ~Busy(trade[u])
               /\ Busy(n) => box' /\ \A u \in Trades \ {t} : ~Busy(trade[u])
               /\ \A u \in Trades \ {t} : Busy(trade[u]) => box' /\ allowance' = allowance
               /\ swap'[t] = "pending" => n.pc = "poll"
               /\ n.pc = "settled" => n.polls = 0
               /\ n.pc \in {"quote", "swap"} \/ swap'[t] = "pending" =>
                      allowance'[Sold(n)] >= n.form.amount + 1
               /\ swap'[t] # "short"
    PROVE  TradeInv'
<1>1. /\ trade' \in [Trades -> Trade] /\ trade'[t] = n
      /\ \A u \in Trades \ {t} : trade'[u] = trade[u]
  BY TradeTypes
<1>2. Types'
  BY <1>1, TradeTypes DEF Types, SwapState
<1>3. AllFine'
  BY <1>1 DEF TradeInv, AllFine
<1>4. FormKept'
  BY <1>1 DEF TradeInv, FormKept
<1>5. LockKept'
  <2> SUFFICES ASSUME Plain' PROVE OneAtATime'
    BY DEF LockKept
  <2>1. Plain
    <3>1. trade[t].peak <= 1
      <4>1. n.peak <= 1 /\ n.peak \in Nat /\ trade[t].peak \in Nat
        BY <1>1, TradeTypes DEF Plain, Trade
      <4> QED
        BY <4>1
    <3>2. \A u \in Trades : trade[u].peak <= 1
      BY <1>1, <3>1 DEF Plain
    <3> QED
      BY <3>2 DEF Plain
  <2>2. OneAtATime
    BY <2>1 DEF TradeInv, LockKept
  <2>3. /\ timers' <= 1
        /\ timers' > 0 => box' /\ ~Busy(n) /\ \A u \in Trades \ {t} : ~Busy(trade[u])
        /\ Busy(n) => box' /\ \A u \in Trades \ {t} : ~Busy(trade[u])
        /\ \A u \in Trades \ {t} : Busy(trade[u]) => box' /\ allowance' = allowance
        /\ swap'[t] = "pending" => n.pc = "poll"
        /\ n.pc = "settled" => n.polls = 0
        /\ n.pc \in {"quote", "swap"} \/ swap'[t] = "pending" =>
               allowance'[Sold(n)] >= n.form.amount + 1
        /\ swap'[t] # "short"
    BY <1>1, <2>1, <2>2 DEF Plain
  <2>4. timers' > 0 => box' /\ \A u \in Trades : ~Busy(trade'[u])
    BY <1>1, <2>3
  <2>5. ASSUME NEW u \in Trades, Busy(trade'[u])
        PROVE  box' /\ \A v \in Trades \ {u} : ~Busy(trade'[v])
    BY <1>1, <2>2, <2>3, <2>5 DEF OneAtATime
  <2>6. \A u \in Trades : swap'[u] = "pending" => trade'[u].pc = "poll"
    BY <1>1, <2>2, <2>3 DEF OneAtATime
  <2>7. \A u \in Trades : trade'[u].pc = "settled" => trade'[u].polls = 0
    BY <1>1, <2>2, <2>3 DEF OneAtATime
  <2>8. ASSUME NEW u \in Trades, trade'[u].pc \in {"quote", "swap"} \/ swap'[u] = "pending"
        PROVE  Covered(trade[u])' 
    <3>1. CASE u = t
      BY <1>1, <2>3, <2>8, <3>1 DEF Covered
    <3>2. CASE u # t
      <4>1. Covered(trade[u]) /\ Busy(trade[u])
        BY <1>1, <2>2, <2>8, <3>2 DEF OneAtATime, Busy
      <4> QED
        BY <1>1, <2>3, <3>2, <4>1 DEF Covered
    <3> QED
      BY <3>1, <3>2
  <2>9. \A u \in Trades : swap'[u] # "short"
    BY <1>1, <2>2, <2>3 DEF OneAtATime
  <2> QED
    BY <2>3, <2>4, <2>5, <2>6, <2>7, <2>8, <2>9 DEF OneAtATime, Covered
<1> QED
  BY <1>2, <1>3, <1>4, <1>5 DEF TradeInv

\* The button is pressed only while it is free: then no other trade is under way.
LEMMA PlaceTradeInv ==
    ASSUME TradeInv, NEW t \in Trades, PlaceTrade(t)
    PROVE  TradeInv'
<1> DEFINE n == [trade[t] EXCEPT !.pc = "approve", !.form = form, !.pool = project]
<1>0. trade \in [Trades -> Trade] /\ trade[t] \in Trade /\ Fine(trade[t], swap[t], reports[t])
  BY TradeTypes DEF TradeInv, AllFine
<1>1. /\ ~box /\ trade[t].pc = "idle"
      /\ box' = TRUE
      /\ UNCHANGED <<project, search, form, screen, timers, allowance, swap, reports, hist, tradeBounds>>
  BY DEF PlaceTrade, desk, window, world, Enabled
<1>2. /\ trade' = [trade EXCEPT ![t] = n]
      /\ n.pc = "approve"
      /\ n.form = form
      /\ n.pool = project
      /\ n.polls = trade[t].polls
      /\ n.peak = trade[t].peak
      /\ n.reporting = trade[t].reporting
  BY <1>0 DEF PlaceTrade, Trade
<1>3. n \in Trade
  <2>1. form \in Form /\ project \in Projects
    BY TradeTypes
  <2> QED
    BY <1>0, <2>1 DEF Trade
<1> HIDE DEF n
<1>4. swap' \in [Trades -> SwapState] /\ reports' \in [Trades -> Nat] /\ allowance' \in [Assets -> Nat]
  BY <1>1, TradeTypes
<1>5. /\ \A u \in Trades \ {t} : swap'[u] = swap[u]
      /\ \A u \in Trades \ {t} : reports'[u] = reports[u]
  BY <1>1, TradeTypes
<1>6. tradeBounds' \in [edits : 0..MaxEdits, failures : 0..MaxFailures, closes : 0..MaxCloses]
  BY <1>1, TradeTypes, FailTypes
<1>7. /\ form' \in Form /\ search' \subseteq [project : Projects, amount : AmountRange]
      /\ box' \in BOOLEAN /\ timers' \in Nat
      /\ hist' \in [revived : BOOLEAN, closed : BOOLEAN, unseen : BOOLEAN]
  BY <1>1, TradeTypes
<1>8. /\ ~hist'.revived => ~hist.revived /\ form' = form
      /\ ~hist.revived => n.form.token = n.pool
      /\ hist.closed => hist'.closed
      /\ hist.unseen => hist'.unseen
      /\ trade[t].peak <= n.peak
  BY <1>0, <1>1, <1>2 DEF TradeInv, FormKept, Trade
<1>9. Fine(n, swap'[t], reports'[t])
  BY <1>0, <1>1, <1>2, TradeTypes DEF Fine, Trade
<1>10. ASSUME Plain, ~hist'.unseen, n.peak <= 1, OneAtATime
       PROVE  /\ timers' <= 1
              /\ timers' > 0 => box' /\ ~Busy(n) /\ \A u \in Trades \ {t} : ~Busy(trade[u])
              /\ Busy(n) => box' /\ \A u \in Trades \ {t} : ~Busy(trade[u])
              /\ \A u \in Trades \ {t} : Busy(trade[u]) => box' /\ allowance' = allowance
              /\ swap'[t] = "pending" => n.pc = "poll"
              /\ n.pc = "settled" => n.polls = 0
              /\ n.pc \in {"quote", "swap"} \/ swap'[t] = "pending" =>
                     allowance'[Sold(n)] >= n.form.amount + 1
              /\ swap'[t] # "short"
  <2>1. ~(timers > 0) /\ \A u \in Trades : ~Busy(trade[u])
    BY <1>10, <1>0, <1>1, <1>2 DEF OneAtATime, Busy, Fine
  <2> QED
    BY <1>0, <1>1, <1>2, <1>10, <2>1, TradeTypes DEF OneAtATime, Busy, Fine
<1> QED
  BY <1>1, <1>2, <1>3, <1>4, <1>5, <1>6, <1>7, <1>8, <1>9, <1>10, TradeMoves

\* What is approved is what the trade will take.
LEMMA ApproveDoneInv ==
    ASSUME TradeInv, NEW t \in Trades, ApproveDone(t)
    PROVE  TradeInv'
<1> DEFINE n == [trade[t] EXCEPT !.pc = "quote"]
<1>0. trade \in [Trades -> Trade] /\ trade[t] \in Trade /\ Fine(trade[t], swap[t], reports[t])
  BY TradeTypes DEF TradeInv, AllFine
<1>1. /\ trade[t].pc = "approve"
      /\ box' = TRUE
      /\ allowance' = [allowance EXCEPT ![Sold(trade[t])] = trade[t].form.amount + 1]
      /\ UNCHANGED <<project, search, form, screen, timers, swap, reports, hist, tradeBounds>>
  BY DEF ApproveDone, desk, window, world, Sold
<1>2. /\ trade' = [trade EXCEPT ![t] = n]
      /\ n.pc = "quote"
      /\ n.form = trade[t].form
      /\ n.pool = trade[t].pool
      /\ n.polls = trade[t].polls
      /\ n.peak = trade[t].peak
      /\ n.reporting = trade[t].reporting
  BY <1>0 DEF ApproveDone, Trade
<1>3. n \in Trade
  BY <1>0 DEF Trade
<1> HIDE DEF n
<1>4. swap' \in [Trades -> SwapState] /\ reports' \in [Trades -> Nat] /\ allowance' \in [Assets -> Nat]
  <2>1. trade[t].form.amount \in AmountRange
    BY <1>0 DEF Trade, Form
  <2>2. trade[t].form.amount \in Nat
    BY <2>1, AmountsNumbers
  <2>3. trade[t].form.amount + 1 \in Nat
    BY <2>2
  <2> QED
    BY <1>1, <2>3, TradeTypes
<1>5. /\ \A u \in Trades \ {t} : swap'[u] = swap[u]
      /\ \A u \in Trades \ {t} : reports'[u] = reports[u]
  BY <1>1, TradeTypes
<1>6. tradeBounds' \in [edits : 0..MaxEdits, failures : 0..MaxFailures, closes : 0..MaxCloses]
  BY <1>1, TradeTypes, FailTypes
<1>7. /\ form' \in Form /\ search' \subseteq [project : Projects, amount : AmountRange]
      /\ box' \in BOOLEAN /\ timers' \in Nat
      /\ hist' \in [revived : BOOLEAN, closed : BOOLEAN, unseen : BOOLEAN]
  BY <1>1, TradeTypes
<1>8. /\ ~hist'.revived => ~hist.revived /\ form' = form
      /\ ~hist.revived => n.form.token = n.pool
      /\ hist.closed => hist'.closed
      /\ hist.unseen => hist'.unseen
      /\ trade[t].peak <= n.peak
  BY <1>0, <1>1, <1>2 DEF TradeInv, FormKept, Trade
<1>9. Fine(n, swap'[t], reports'[t])
  BY <1>0, <1>1, <1>2, TradeTypes DEF Fine, Trade
<1>10. ASSUME Plain, ~hist'.unseen, n.peak <= 1, OneAtATime
       PROVE  /\ timers' <= 1
              /\ timers' > 0 => box' /\ ~Busy(n) /\ \A u \in Trades \ {t} : ~Busy(trade[u])
              /\ Busy(n) => box' /\ \A u \in Trades \ {t} : ~Busy(trade[u])
              /\ \A u \in Trades \ {t} : Busy(trade[u]) => box' /\ allowance' = allowance
              /\ swap'[t] = "pending" => n.pc = "poll"
              /\ n.pc = "settled" => n.polls = 0
              /\ n.pc \in {"quote", "swap"} \/ swap'[t] = "pending" =>
                     allowance'[Sold(n)] >= n.form.amount + 1
              /\ swap'[t] # "short"
  <2>1. Busy(trade[t])
    BY <1>1 DEF Busy
  <2>2. ~(timers > 0) /\ \A u \in Trades \ {t} : ~Busy(trade[u])
    BY <1>10, <2>1 DEF OneAtATime
  <2>3. swap[t] = "none"
    BY <1>0, <1>1 DEF Fine
  <2>4. allowance'[Sold(n)] = n.form.amount + 1 /\ n.form.amount + 1 \in Nat
    <3>1. Sold(n) = Sold(trade[t]) /\ Sold(trade[t]) \in Assets /\ trade[t].form.amount \in Nat
      BY <1>0, <1>2, AmountsNumbers DEF Sold, AssetOf, Assets, Trade, Form, Dir
    <3> QED
      BY <1>1, <1>2, <3>1, TradeTypes
  <2> QED
    BY <1>1, <1>2, <1>10, <2>2, <2>3, <2>4, TradeTypes DEF OneAtATime
<1> QED
  BY <1>1, <1>2, <1>3, <1>4, <1>5, <1>6, <1>7, <1>8, <1>9, <1>10, TradeMoves

\* A trade that is not approved is over, and no timer is left.
LEMMA ApproveFailsInv ==
    ASSUME TradeInv, NEW t \in Trades, ApproveFails(t)
    PROVE  TradeInv'
<1> DEFINE n == [trade[t] EXCEPT !.pc = "over"]
<1>0. trade \in [Trades -> Trade] /\ trade[t] \in Trade /\ Fine(trade[t], swap[t], reports[t])
  BY TradeTypes DEF TradeInv, AllFine
<1>1. /\ trade[t].pc = "approve"
      /\ Fail
      /\ box' = FALSE
      /\ UNCHANGED <<project, search, form, screen, timers, allowance, swap, reports, hist>>
  BY DEF ApproveFails, desk, window, world
<1>2. /\ trade' = [trade EXCEPT ![t] = n]
      /\ n.pc = "over"
      /\ n.form = trade[t].form
      /\ n.pool = trade[t].pool
      /\ n.polls = trade[t].polls
      /\ n.peak = trade[t].peak
      /\ n.reporting = trade[t].reporting
  BY <1>0 DEF ApproveFails, Trade
<1>3. n \in Trade
  BY <1>0 DEF Trade
<1> HIDE DEF n
<1>4. swap' \in [Trades -> SwapState] /\ reports' \in [Trades -> Nat] /\ allowance' \in [Assets -> Nat]
  BY <1>1, TradeTypes
<1>5. /\ \A u \in Trades \ {t} : swap'[u] = swap[u]
      /\ \A u \in Trades \ {t} : reports'[u] = reports[u]
  BY <1>1, TradeTypes
<1>6. tradeBounds' \in [edits : 0..MaxEdits, failures : 0..MaxFailures, closes : 0..MaxCloses]
  BY <1>1, TradeTypes, FailTypes
<1>7. /\ form' \in Form /\ search' \subseteq [project : Projects, amount : AmountRange]
      /\ box' \in BOOLEAN /\ timers' \in Nat
      /\ hist' \in [revived : BOOLEAN, closed : BOOLEAN, unseen : BOOLEAN]
  BY <1>1, TradeTypes
<1>8. /\ ~hist'.revived => ~hist.revived /\ form' = form
      /\ ~hist.revived => n.form.token = n.pool
      /\ hist.closed => hist'.closed
      /\ hist.unseen => hist'.unseen
      /\ trade[t].peak <= n.peak
  BY <1>0, <1>1, <1>2 DEF TradeInv, FormKept, Trade
<1>9. Fine(n, swap'[t], reports'[t])
  BY <1>0, <1>1, <1>2, TradeTypes DEF Fine, Trade
<1>10. ASSUME Plain, ~hist'.unseen, n.peak <= 1, OneAtATime
       PROVE  /\ timers' <= 1
              /\ timers' > 0 => box' /\ ~Busy(n) /\ \A u \in Trades \ {t} : ~Busy(trade[u])
              /\ Busy(n) => box' /\ \A u \in Trades \ {t} : ~Busy(trade[u])
              /\ \A u \in Trades \ {t} : Busy(trade[u]) => box' /\ allowance' = allowance
              /\ swap'[t] = "pending" => n.pc = "poll"
              /\ n.pc = "settled" => n.polls = 0
              /\ n.pc \in {"quote", "swap"} \/ swap'[t] = "pending" =>
                     allowance'[Sold(n)] >= n.form.amount + 1
              /\ swap'[t] # "short"
  <2>1. ~(timers > 0) /\ swap[t] = "none" /\ \A u \in Trades \ {t} : ~Busy(trade[u])
    BY <1>10, <1>0, <1>1, <1>2 DEF OneAtATime, Busy, Fine
  <2> QED
    BY <1>0, <1>1, <1>2, <1>10, <2>1, TradeTypes DEF OneAtATime, Busy, Fine
<1> QED
  BY <1>1, <1>2, <1>3, <1>4, <1>5, <1>6, <1>7, <1>8, <1>9, <1>10, TradeMoves

\* The form of the click is put back; what is approved stays.
LEMMA QuotedForSwapInv ==
    ASSUME TradeInv, NEW t \in Trades, QuotedForSwap(t)
    PROVE  TradeInv'
<1> DEFINE n == [trade[t] EXCEPT !.pc = "swap"]
<1>0. trade \in [Trades -> Trade] /\ trade[t] \in Trade /\ Fine(trade[t], swap[t], reports[t])
  BY TradeTypes DEF TradeInv, AllFine
<1>1. /\ trade[t].pc = "quote"
      /\ form' = trade[t].form
      /\ hist' = [hist EXCEPT !.revived = @ \/ trade[t].form # form]
      /\ UNCHANGED <<project, search, screen, box, timers, allowance, swap, reports, tradeBounds>>
  BY DEF QuotedForSwap, desk, window, world
<1>2. /\ trade' = [trade EXCEPT ![t] = n]
      /\ n.pc = "swap"
      /\ n.form = trade[t].form
      /\ n.pool = trade[t].pool
      /\ n.polls = trade[t].polls
      /\ n.peak = trade[t].peak
      /\ n.reporting = trade[t].reporting
  BY <1>0 DEF QuotedForSwap, Trade
<1>3. n \in Trade
  BY <1>0 DEF Trade
<1> HIDE DEF n
<1>4. swap' \in [Trades -> SwapState] /\ reports' \in [Trades -> Nat] /\ allowance' \in [Assets -> Nat]
  BY <1>1, TradeTypes
<1>5. /\ \A u \in Trades \ {t} : swap'[u] = swap[u]
      /\ \A u \in Trades \ {t} : reports'[u] = reports[u]
  BY <1>1, TradeTypes
<1>6. tradeBounds' \in [edits : 0..MaxEdits, failures : 0..MaxFailures, closes : 0..MaxCloses]
  BY <1>1, TradeTypes, FailTypes
<1>7. /\ form' \in Form /\ search' \subseteq [project : Projects, amount : AmountRange]
      /\ box' \in BOOLEAN /\ timers' \in Nat
      /\ hist' \in [revived : BOOLEAN, closed : BOOLEAN, unseen : BOOLEAN]
  <2>1. trade[t].form \in Form
    BY <1>0 DEF Trade
  <2>2. PICK b \in BOOLEAN : b = (hist.revived \/ trade[t].form # form)
    OBVIOUS
  <2>3. hist' = [hist EXCEPT !.revived = b]
    BY <1>1, <2>2
  <2> HIDE <2>2
  <2> QED
    BY <1>1, <2>1, <2>3, TradeTypes
<1>8. /\ ~hist'.revived => ~hist.revived /\ form' = form
      /\ ~hist.revived => n.form.token = n.pool
      /\ hist.closed => hist'.closed
      /\ hist.unseen => hist'.unseen
      /\ trade[t].peak <= n.peak
  <2>1. PICK b \in BOOLEAN : b = (hist.revived \/ trade[t].form # form)
    OBVIOUS
  <2>2. b <=> hist.revived \/ trade[t].form # form
    BY <2>1
  <2>3. hist' = [hist EXCEPT !.revived = b]
    BY <1>1, <2>1
  <2> HIDE <2>1
  <2>4. (hist'.revived <=> b) /\ (hist'.closed <=> hist.closed) /\ (hist'.unseen <=> hist.unseen)
    BY <2>3, TradeTypes
  <2>5. ~hist.revived => n.form.token = n.pool
    BY <1>1, <1>2 DEF TradeInv, FormKept
  <2>6. trade[t].peak <= n.peak
    BY <1>0, <1>2 DEF Trade
  <2> QED
    BY <1>1, <2>2, <2>4, <2>5, <2>6
<1>9. Fine(n, swap'[t], reports'[t])
  BY <1>0, <1>1, <1>2, TradeTypes DEF Fine, Trade
<1>10. ASSUME Plain, ~hist'.unseen, n.peak <= 1, OneAtATime
       PROVE  /\ timers' <= 1
              /\ timers' > 0 => box' /\ ~Busy(n) /\ \A u \in Trades \ {t} : ~Busy(trade[u])
              /\ Busy(n) => box' /\ \A u \in Trades \ {t} : ~Busy(trade[u])
              /\ \A u \in Trades \ {t} : Busy(trade[u]) => box' /\ allowance' = allowance
              /\ swap'[t] = "pending" => n.pc = "poll"
              /\ n.pc = "settled" => n.polls = 0
              /\ n.pc \in {"quote", "swap"} \/ swap'[t] = "pending" =>
                     allowance'[Sold(n)] >= n.form.amount + 1
              /\ swap'[t] # "short"
  <2>1. ~(timers > 0) /\ swap[t] = "none" /\ box /\ \A u \in Trades \ {t} : ~Busy(trade[u])
    BY <1>10, <1>0, <1>1 DEF OneAtATime, Busy, Fine
  <2>2. allowance[Sold(n)] >= n.form.amount + 1
    BY <1>10, <1>1, <1>2 DEF OneAtATime, Covered, Sold
  <2> QED
    BY <1>1, <1>2, <1>10, <2>1, <2>2, TradeTypes DEF OneAtATime
<1> QED
  BY <1>1, <1>2, <1>3, <1>4, <1>5, <1>6, <1>7, <1>8, <1>9, <1>10, TradeMoves

\* The button loads for good.
LEMMA LoadsForGoodInv ==
    ASSUME TradeInv, NEW t \in Trades, QuoteForSwapRejected(t) \/ ApproveSilent(t)
    PROVE  TradeInv'
<1> DEFINE n == [trade[t] EXCEPT !.pc = "dead"]
<1>0. trade \in [Trades -> Trade] /\ trade[t] \in Trade /\ Fine(trade[t], swap[t], reports[t])
  BY TradeTypes DEF TradeInv, AllFine
<1>1. /\ trade[t].pc \in {"approve", "quote"}
      /\ Fail
      /\ UNCHANGED <<project, search, form, screen, box, timers, allowance, swap, reports, hist>>
  BY DEF QuoteForSwapRejected, ApproveSilent, desk, window, world
<1>2. /\ trade' = [trade EXCEPT ![t] = n]
      /\ n.pc = "dead"
      /\ n.form = trade[t].form
      /\ n.pool = trade[t].pool
      /\ n.polls = trade[t].polls
      /\ n.peak = trade[t].peak
      /\ n.reporting = trade[t].reporting
  BY <1>0 DEF QuoteForSwapRejected, ApproveSilent, Trade
<1>3. n \in Trade
  BY <1>0 DEF Trade
<1> HIDE DEF n
<1>4. swap' \in [Trades -> SwapState] /\ reports' \in [Trades -> Nat] /\ allowance' \in [Assets -> Nat]
  BY <1>1, TradeTypes
<1>5. /\ \A u \in Trades \ {t} : swap'[u] = swap[u]
      /\ \A u \in Trades \ {t} : reports'[u] = reports[u]
  BY <1>1, TradeTypes
<1>6. tradeBounds' \in [edits : 0..MaxEdits, failures : 0..MaxFailures, closes : 0..MaxCloses]
  BY <1>1, TradeTypes, FailTypes
<1>7. /\ form' \in Form /\ search' \subseteq [project : Projects, amount : AmountRange]
      /\ box' \in BOOLEAN /\ timers' \in Nat
      /\ hist' \in [revived : BOOLEAN, closed : BOOLEAN, unseen : BOOLEAN]
  BY <1>1, TradeTypes
<1>8. /\ ~hist'.revived => ~hist.revived /\ form' = form
      /\ ~hist.revived => n.form.token = n.pool
      /\ hist.closed => hist'.closed
      /\ hist.unseen => hist'.unseen
      /\ trade[t].peak <= n.peak
  BY <1>0, <1>1, <1>2 DEF TradeInv, FormKept, Trade
<1>9. Fine(n, swap'[t], reports'[t])
  BY <1>0, <1>1, <1>2, TradeTypes DEF Fine, Trade
<1>10. ASSUME Plain, ~hist'.unseen, n.peak <= 1, OneAtATime
       PROVE  /\ timers' <= 1
              /\ timers' > 0 => box' /\ ~Busy(n) /\ \A u \in Trades \ {t} : ~Busy(trade[u])
              /\ Busy(n) => box' /\ \A u \in Trades \ {t} : ~Busy(trade[u])
              /\ \A u \in Trades \ {t} : Busy(trade[u]) => box' /\ allowance' = allowance
              /\ swap'[t] = "pending" => n.pc = "poll"
              /\ n.pc = "settled" => n.polls = 0
              /\ n.pc \in {"quote", "swap"} \/ swap'[t] = "pending" =>
                     allowance'[Sold(n)] >= n.form.amount + 1
              /\ swap'[t] # "short"
  <2>1. ~(timers > 0) /\ swap[t] = "none" /\ box /\ \A u \in Trades \ {t} : ~Busy(trade[u])
    BY <1>10, <1>0, <1>1, <1>2 DEF OneAtATime, Busy, Fine
  <2> QED
    BY <1>0, <1>1, <1>2, <1>10, <2>1, TradeTypes DEF OneAtATime, Busy, Fine
<1> QED
  BY <1>1, <1>2, <1>3, <1>4, <1>5, <1>6, <1>7, <1>8, <1>9, <1>10, TradeMoves

\* The router has the swap of a trade that is covered.
LEMMA SwapAcceptedInv ==
    ASSUME TradeInv, NEW t \in Trades, SwapAccepted(t)
    PROVE  TradeInv'
<1> DEFINE n == [trade[t] EXCEPT !.pc = "poll"]
<1>0. trade \in [Trades -> Trade] /\ trade[t] \in Trade /\ Fine(trade[t], swap[t], reports[t])
  BY TradeTypes DEF TradeInv, AllFine
<1>1. /\ trade[t].pc = "swap"
      /\ swap' = [swap EXCEPT ![t] = "pending"]
      /\ UNCHANGED <<project, search, form, screen, box, timers, allowance, reports, hist, tradeBounds>>
  BY DEF SwapAccepted, desk, window, world
<1>2. /\ trade' = [trade EXCEPT ![t] = n]
      /\ n.pc = "poll"
      /\ n.form = trade[t].form
      /\ n.pool = trade[t].pool
      /\ n.polls = trade[t].polls
      /\ n.peak = trade[t].peak
      /\ n.reporting = trade[t].reporting
  BY <1>0 DEF SwapAccepted, Trade
<1>3. n \in Trade
  BY <1>0 DEF Trade
<1> HIDE DEF n
<1>4. swap' \in [Trades -> SwapState] /\ reports' \in [Trades -> Nat] /\ allowance' \in [Assets -> Nat]
  BY <1>1, TradeTypes DEF SwapState
<1>5. /\ \A u \in Trades \ {t} : swap'[u] = swap[u]
      /\ \A u \in Trades \ {t} : reports'[u] = reports[u]
  BY <1>1, TradeTypes
<1>6. tradeBounds' \in [edits : 0..MaxEdits, failures : 0..MaxFailures, closes : 0..MaxCloses]
  BY <1>1, TradeTypes, FailTypes
<1>7. /\ form' \in Form /\ search' \subseteq [project : Projects, amount : AmountRange]
      /\ box' \in BOOLEAN /\ timers' \in Nat
      /\ hist' \in [revived : BOOLEAN, closed : BOOLEAN, unseen : BOOLEAN]
  BY <1>1, TradeTypes
<1>8. /\ ~hist'.revived => ~hist.revived /\ form' = form
      /\ ~hist.revived => n.form.token = n.pool
      /\ hist.closed => hist'.closed
      /\ hist.unseen => hist'.unseen
      /\ trade[t].peak <= n.peak
  BY <1>0, <1>1, <1>2 DEF TradeInv, FormKept, Trade
<1>9. Fine(n, swap'[t], reports'[t])
  BY <1>0, <1>1, <1>2, TradeTypes DEF Fine, Trade
<1>10. ASSUME Plain, ~hist'.unseen, n.peak <= 1, OneAtATime
       PROVE  /\ timers' <= 1
              /\ timers' > 0 => box' /\ ~Busy(n) /\ \A u \in Trades \ {t} : ~Busy(trade[u])
              /\ Busy(n) => box' /\ \A u \in Trades \ {t} : ~Busy(trade[u])
              /\ \A u \in Trades \ {t} : Busy(trade[u]) => box' /\ allowance' = allowance
              /\ swap'[t] = "pending" => n.pc = "poll"
              /\ n.pc = "settled" => n.polls = 0
              /\ n.pc \in {"quote", "swap"} \/ swap'[t] = "pending" =>
                     allowance'[Sold(n)] >= n.form.amount + 1
              /\ swap'[t] # "short"
  <2>1. ~(timers > 0) /\ box /\ \A u \in Trades \ {t} : ~Busy(trade[u])
    BY <1>10, <1>0, <1>1 DEF OneAtATime, Busy, Fine
  <2>2. allowance[Sold(n)] >= n.form.amount + 1
    BY <1>10, <1>1, <1>2 DEF OneAtATime, Covered, Sold
  <2>3. swap'[t] = "pending"
    BY <1>1, TradeTypes
  <2> QED
    BY <1>1, <1>2, <1>10, <2>1, <2>2, <2>3, TradeTypes DEF OneAtATime
<1> QED
  BY <1>1, <1>2, <1>3, <1>4, <1>5, <1>6, <1>7, <1>8, <1>9, <1>10, TradeMoves

\* A swap that goes on although its call was rejected is remembered.
LEMMA SwapRefusedInv ==
    ASSUME TradeInv, NEW t \in Trades, SwapRefused(t)
    PROVE  TradeInv'
<1> DEFINE n == [trade[t] EXCEPT !.pc = "over"]
<1>0. trade \in [Trades -> Trade] /\ trade[t] \in Trade /\ Fine(trade[t], swap[t], reports[t])
  BY TradeTypes DEF TradeInv, AllFine
<1>1. /\ trade[t].pc = "swap"
      /\ Fail
      /\ box' = FALSE
      /\ \/ UNCHANGED <<swap, hist>>
         \/ /\ swap' = [swap EXCEPT ![t] = "pending"]
            /\ hist' = [hist EXCEPT !.unseen = TRUE]
      /\ UNCHANGED <<project, search, form, screen, timers, allowance, reports>>
  BY DEF SwapRefused, desk, window, world
<1>2. /\ trade' = [trade EXCEPT ![t] = n]
      /\ n.pc = "over"
      /\ n.form = trade[t].form
      /\ n.pool = trade[t].pool
      /\ n.polls = trade[t].polls
      /\ n.peak = trade[t].peak
      /\ n.reporting = trade[t].reporting
  BY <1>0 DEF SwapRefused, Trade
<1>3. n \in Trade
  BY <1>0 DEF Trade
<1> HIDE DEF n
<1>4. swap' \in [Trades -> SwapState] /\ reports' \in [Trades -> Nat] /\ allowance' \in [Assets -> Nat]
  BY <1>1, TradeTypes DEF SwapState
<1>5. /\ \A u \in Trades \ {t} : swap'[u] = swap[u]
      /\ \A u \in Trades \ {t} : reports'[u] = reports[u]
  BY <1>1, TradeTypes
<1>6. tradeBounds' \in [edits : 0..MaxEdits, failures : 0..MaxFailures, closes : 0..MaxCloses]
  BY <1>1, TradeTypes, FailTypes
<1>7. /\ form' \in Form /\ search' \subseteq [project : Projects, amount : AmountRange]
      /\ box' \in BOOLEAN /\ timers' \in Nat
      /\ hist' \in [revived : BOOLEAN, closed : BOOLEAN, unseen : BOOLEAN]
  BY <1>1, TradeTypes
<1>8. /\ ~hist'.revived => ~hist.revived /\ form' = form
      /\ ~hist.revived => n.form.token = n.pool
      /\ hist.closed => hist'.closed
      /\ hist.unseen => hist'.unseen
      /\ trade[t].peak <= n.peak
  BY <1>0, <1>1, <1>2, TradeTypes DEF TradeInv, FormKept, Trade
<1>9. Fine(n, swap'[t], reports'[t])
  BY <1>0, <1>1, <1>2, TradeTypes DEF Fine, Trade
<1>10. ASSUME Plain, ~hist'.unseen, n.peak <= 1, OneAtATime
       PROVE  /\ timers' <= 1
              /\ timers' > 0 => box' /\ ~Busy(n) /\ \A u \in Trades \ {t} : ~Busy(trade[u])
              /\ Busy(n) => box' /\ \A u \in Trades \ {t} : ~Busy(trade[u])
              /\ \A u \in Trades \ {t} : Busy(trade[u]) => box' /\ allowance' = allowance
              /\ swap'[t] = "pending" => n.pc = "poll"
              /\ n.pc = "settled" => n.polls = 0
              /\ n.pc \in {"quote", "swap"} \/ swap'[t] = "pending" =>
                     allowance'[Sold(n)] >= n.form.amount + 1
              /\ swap'[t] # "short"
  <2>1. ~(timers > 0) /\ swap[t] = "none" /\ \A u \in Trades \ {t} : ~Busy(trade[u])
    BY <1>10, <1>0, <1>1 DEF OneAtATime, Busy, Fine
  <2>2. swap' = swap
    <3>1. hist' # [hist EXCEPT !.unseen = TRUE]
      BY <1>10, TradeTypes
    <3> QED
      BY <1>1, <3>1
  <2> QED
    BY <1>1, <1>2, <1>10, <2>1, <2>2, TradeTypes DEF OneAtATime, Busy
<1> QED
  BY <1>1, <1>2, <1>3, <1>4, <1>5, <1>6, <1>7, <1>8, <1>9, <1>10, TradeMoves

\* Another status request of a trade that the router has.
LEMMA PollInv ==
    ASSUME TradeInv, NEW t \in Trades, Poll(t)
    PROVE  TradeInv'
<1> DEFINE n == [trade[t] EXCEPT !.polls = trade[t].polls + 1, !.peak = IF trade[t].polls < trade[t].peak THEN trade[t].peak ELSE trade[t].polls + 1]
<1>0. trade \in [Trades -> Trade] /\ trade[t] \in Trade /\ Fine(trade[t], swap[t], reports[t])
  BY TradeTypes DEF TradeInv, AllFine
<1>1. /\ trade[t].pc = "poll" /\ trade[t].polls < MaxPolls
      /\ UNCHANGED <<project, search, form, screen, box, timers, allowance, swap, reports, hist, tradeBounds>>
  BY DEF Poll, desk, window, world
<1>2. /\ trade' = [trade EXCEPT ![t] = n]
      /\ n.pc = trade[t].pc
      /\ n.form = trade[t].form
      /\ n.pool = trade[t].pool
      /\ n.polls = trade[t].polls + 1
      /\ n.peak = IF trade[t].polls < trade[t].peak THEN trade[t].peak ELSE trade[t].polls + 1
      /\ n.reporting = trade[t].reporting
  BY <1>0 DEF Poll, Trade
<1>3. n \in Trade
  <2>1. trade[t].polls + 1 \in 0..MaxPolls
    BY <1>0, <1>1, TradeAssumption, TradeTypes DEF Fine, Trade
  <2> QED
    BY <1>0, <2>1 DEF Trade
<1> HIDE DEF n
<1>4. swap' \in [Trades -> SwapState] /\ reports' \in [Trades -> Nat] /\ allowance' \in [Assets -> Nat]
  BY <1>1, TradeTypes
<1>5. /\ \A u \in Trades \ {t} : swap'[u] = swap[u]
      /\ \A u \in Trades \ {t} : reports'[u] = reports[u]
  BY <1>1, TradeTypes
<1>6. tradeBounds' \in [edits : 0..MaxEdits, failures : 0..MaxFailures, closes : 0..MaxCloses]
  BY <1>1, TradeTypes, FailTypes
<1>7. /\ form' \in Form /\ search' \subseteq [project : Projects, amount : AmountRange]
      /\ box' \in BOOLEAN /\ timers' \in Nat
      /\ hist' \in [revived : BOOLEAN, closed : BOOLEAN, unseen : BOOLEAN]
  BY <1>1, TradeTypes
<1>8. /\ ~hist'.revived => ~hist.revived /\ form' = form
      /\ ~hist.revived => n.form.token = n.pool
      /\ hist.closed => hist'.closed
      /\ hist.unseen => hist'.unseen
      /\ trade[t].peak <= n.peak
  BY <1>0, <1>1, <1>2 DEF TradeInv, FormKept, Trade
<1>9. Fine(n, swap'[t], reports'[t])
  BY <1>0, <1>1, <1>2, TradeTypes DEF Fine, Trade
<1>10. ASSUME Plain, ~hist'.unseen, n.peak <= 1, OneAtATime
       PROVE  /\ timers' <= 1
              /\ timers' > 0 => box' /\ ~Busy(n) /\ \A u \in Trades \ {t} : ~Busy(trade[u])
              /\ Busy(n) => box' /\ \A u \in Trades \ {t} : ~Busy(trade[u])
              /\ \A u \in Trades \ {t} : Busy(trade[u]) => box' /\ allowance' = allowance
              /\ swap'[t] = "pending" => n.pc = "poll"
              /\ n.pc = "settled" => n.polls = 0
              /\ n.pc \in {"quote", "swap"} \/ swap'[t] = "pending" =>
                     allowance'[Sold(n)] >= n.form.amount + 1
              /\ swap'[t] # "short"
  <2>1. ~(timers > 0) /\ box /\ \A u \in Trades \ {t} : ~Busy(trade[u])
    BY <1>10, <1>1 DEF OneAtATime, Busy
  <2>2. swap[t] = "pending" => allowance[Sold(n)] >= n.form.amount + 1
    BY <1>10, <1>2 DEF OneAtATime, Covered, Sold
  <2> QED
    BY <1>1, <1>2, <1>10, <2>1, <2>2, TradeTypes DEF OneAtATime
<1> QED
  BY <1>1, <1>2, <1>3, <1>4, <1>5, <1>6, <1>7, <1>8, <1>9, <1>10, TradeMoves

\* A request that learns nothing.
LEMMA PollPendingInv ==
    ASSUME TradeInv, NEW t \in Trades, PollPending(t)
    PROVE  TradeInv'
<1> DEFINE n == [trade[t] EXCEPT !.polls = trade[t].polls - 1]
<1>0. trade \in [Trades -> Trade] /\ trade[t] \in Trade /\ Fine(trade[t], swap[t], reports[t])
  BY TradeTypes DEF TradeInv, AllFine
<1>1. /\ trade[t].polls > 0
      /\ tradeBounds' = tradeBounds \/ Fail
      /\ UNCHANGED <<project, search, form, screen, box, timers, allowance, swap, reports, hist>>
  BY DEF PollPending, desk, window, world
<1>2. /\ trade' = [trade EXCEPT ![t] = n]
      /\ n.pc = trade[t].pc
      /\ n.form = trade[t].form
      /\ n.pool = trade[t].pool
      /\ n.polls = trade[t].polls - 1
      /\ n.peak = trade[t].peak
      /\ n.reporting = trade[t].reporting
  BY <1>0 DEF PollPending, Trade
<1>3. n \in Trade
  <2>1. trade[t].polls - 1 \in 0..MaxPolls
    BY <1>0, <1>1, TradeAssumption, TradeTypes DEF Fine, Trade
  <2> QED
    BY <1>0, <2>1 DEF Trade
<1> HIDE DEF n
<1>4. swap' \in [Trades -> SwapState] /\ reports' \in [Trades -> Nat] /\ allowance' \in [Assets -> Nat]
  BY <1>1, TradeTypes
<1>5. /\ \A u \in Trades \ {t} : swap'[u] = swap[u]
      /\ \A u \in Trades \ {t} : reports'[u] = reports[u]
  BY <1>1, TradeTypes
<1>6. tradeBounds' \in [edits : 0..MaxEdits, failures : 0..MaxFailures, closes : 0..MaxCloses]
  BY <1>1, TradeTypes, FailTypes
<1>7. /\ form' \in Form /\ search' \subseteq [project : Projects, amount : AmountRange]
      /\ box' \in BOOLEAN /\ timers' \in Nat
      /\ hist' \in [revived : BOOLEAN, closed : BOOLEAN, unseen : BOOLEAN]
  BY <1>1, TradeTypes
<1>8. /\ ~hist'.revived => ~hist.revived /\ form' = form
      /\ ~hist.revived => n.form.token = n.pool
      /\ hist.closed => hist'.closed
      /\ hist.unseen => hist'.unseen
      /\ trade[t].peak <= n.peak
  <2>1. trade[t].pc # "idle"
    BY <1>0, <1>1 DEF Fine
  <2>2. trade[t].peak \in Nat
    BY <1>0 DEF Trade
  <2> QED
    BY <1>1, <1>2, <2>1, <2>2 DEF TradeInv, FormKept
<1>9. Fine(n, swap'[t], reports'[t])
  BY <1>0, <1>1, <1>2, TradeTypes DEF Fine, Trade
<1>10. ASSUME Plain, ~hist'.unseen, n.peak <= 1, OneAtATime
       PROVE  /\ timers' <= 1
              /\ timers' > 0 => box' /\ ~Busy(n) /\ \A u \in Trades \ {t} : ~Busy(trade[u])
              /\ Busy(n) => box' /\ \A u \in Trades \ {t} : ~Busy(trade[u])
              /\ \A u \in Trades \ {t} : Busy(trade[u]) => box' /\ allowance' = allowance
              /\ swap'[t] = "pending" => n.pc = "poll"
              /\ n.pc = "settled" => n.polls = 0
              /\ n.pc \in {"quote", "swap"} \/ swap'[t] = "pending" =>
                     allowance'[Sold(n)] >= n.form.amount + 1
              /\ swap'[t] # "short"
  <2>1. trade[t].pc = "poll"
    BY <1>10, <1>0, <1>1 DEF OneAtATime, Fine
  <2>2. ~(timers > 0) /\ box /\ \A u \in Trades \ {t} : ~Busy(trade[u])
    BY <1>10, <2>1 DEF OneAtATime, Busy
  <2>3. swap[t] = "pending" => allowance[Sold(n)] >= n.form.amount + 1
    BY <1>10, <1>2 DEF OneAtATime, Covered, Sold
  <2> QED
    BY <1>1, <1>2, <1>10, <2>1, <2>2, <2>3, TradeTypes DEF OneAtATime
<1> QED
  BY <1>1, <1>2, <1>3, <1>4, <1>5, <1>6, <1>7, <1>8, <1>9, <1>10, TradeMoves

\* A request that finds the swap carried out reports it.
LEMMA PollSucceededInv ==
    ASSUME TradeInv, NEW t \in Trades, PollSucceeded(t)
    PROVE  TradeInv'
<1> DEFINE n == [trade[t] EXCEPT !.polls = trade[t].polls - 1, !.reporting = trade[t].reporting + 1, !.pc = "settled"]
<1>0. trade \in [Trades -> Trade] /\ trade[t] \in Trade /\ Fine(trade[t], swap[t], reports[t])
  BY TradeTypes DEF TradeInv, AllFine
<1>1. /\ trade[t].polls > 0 /\ swap[t] = "ok"
      /\ box' = FALSE
      /\ reports' = [reports EXCEPT ![t] = @ + 1]
      /\ UNCHANGED <<project, search, form, screen, timers, allowance, swap, hist, tradeBounds>>
  BY DEF PollSucceeded, desk, window, world
<1>2. /\ trade' = [trade EXCEPT ![t] = n]
      /\ n.pc = "settled"
      /\ n.form = trade[t].form
      /\ n.pool = trade[t].pool
      /\ n.polls = trade[t].polls - 1
      /\ n.peak = trade[t].peak
      /\ n.reporting = trade[t].reporting + 1
  BY <1>0 DEF PollSucceeded, Trade
<1>3. n \in Trade
  <2>1. trade[t].polls - 1 \in 0..MaxPolls /\ trade[t].reporting + 1 \in 0..MaxPolls
    BY <1>0, <1>1, TradeAssumption, TradeTypes DEF Fine, Trade
  <2> QED
    BY <1>0, <2>1 DEF Trade
<1> HIDE DEF n
<1>4. swap' \in [Trades -> SwapState] /\ reports' \in [Trades -> Nat] /\ allowance' \in [Assets -> Nat]
  BY <1>1, TradeTypes
<1>5. /\ \A u \in Trades \ {t} : swap'[u] = swap[u]
      /\ \A u \in Trades \ {t} : reports'[u] = reports[u]
  BY <1>1, TradeTypes
<1>6. tradeBounds' \in [edits : 0..MaxEdits, failures : 0..MaxFailures, closes : 0..MaxCloses]
  BY <1>1, TradeTypes, FailTypes
<1>7. /\ form' \in Form /\ search' \subseteq [project : Projects, amount : AmountRange]
      /\ box' \in BOOLEAN /\ timers' \in Nat
      /\ hist' \in [revived : BOOLEAN, closed : BOOLEAN, unseen : BOOLEAN]
  BY <1>1, TradeTypes
<1>8. /\ ~hist'.revived => ~hist.revived /\ form' = form
      /\ ~hist.revived => n.form.token = n.pool
      /\ hist.closed => hist'.closed
      /\ hist.unseen => hist'.unseen
      /\ trade[t].peak <= n.peak
  <2>1. trade[t].pc # "idle"
    BY <1>0, <1>1 DEF Fine
  <2>2. trade[t].peak \in Nat
    BY <1>0 DEF Trade
  <2> QED
    BY <1>1, <1>2, <2>1, <2>2 DEF TradeInv, FormKept
<1>9. Fine(n, swap'[t], reports'[t])
  BY <1>0, <1>1, <1>2, TradeTypes DEF Fine, Trade
<1>10. ASSUME Plain, ~hist'.unseen, n.peak <= 1, OneAtATime
       PROVE  /\ timers' <= 1
              /\ timers' > 0 => box' /\ ~Busy(n) /\ \A u \in Trades \ {t} : ~Busy(trade[u])
              /\ Busy(n) => box' /\ \A u \in Trades \ {t} : ~Busy(trade[u])
              /\ \A u \in Trades \ {t} : Busy(trade[u]) => box' /\ allowance' = allowance
              /\ swap'[t] = "pending" => n.pc = "poll"
              /\ n.pc = "settled" => n.polls = 0
              /\ n.pc \in {"quote", "swap"} \/ swap'[t] = "pending" =>
                     allowance'[Sold(n)] >= n.form.amount + 1
              /\ swap'[t] # "short"
  <2>1. trade[t].pc = "poll" /\ n.polls = 0
    <3>1. trade[t].polls \in Nat /\ trade[t].peak \in Nat /\ reports[t] \in Nat
      BY <1>0, TradeTypes DEF Trade
    <3>2. trade[t].polls <= 1
      BY <1>0, <1>2, <1>10, <3>1 DEF Fine
    <3>3. n.polls = 0
      BY <1>1, <1>2, <3>1, <3>2
    <3>4. trade[t].pc # "settled"
      BY <1>1, <1>10, <3>1 DEF OneAtATime
    <3> QED
      BY <1>0, <1>1, <3>3, <3>4 DEF Fine
  <2>2. ~(timers > 0) /\ \A u \in Trades \ {t} : ~Busy(trade[u])
    BY <1>10, <2>1 DEF OneAtATime, Busy
  <2> QED
    BY <1>1, <1>2, <1>10, <2>1, <2>2, TradeTypes DEF OneAtATime, Busy
<1> QED
  BY <1>1, <1>2, <1>3, <1>4, <1>5, <1>6, <1>7, <1>8, <1>9, <1>10, TradeMoves

\* A request that finds the swap failed starts a timer; the box stays until it fires.
LEMMA PollFailedInv ==
    ASSUME TradeInv, NEW t \in Trades, PollFailed(t)
    PROVE  TradeInv'
<1> DEFINE n == [trade[t] EXCEPT !.polls = trade[t].polls - 1, !.pc = "settled"]
<1>0. trade \in [Trades -> Trade] /\ trade[t] \in Trade /\ Fine(trade[t], swap[t], reports[t])
  BY TradeTypes DEF TradeInv, AllFine
<1>1. /\ trade[t].polls > 0 /\ swap[t] \in {"failed", "short"}
      /\ timers' = timers + 1
      /\ UNCHANGED <<project, search, form, screen, box, allowance, swap, reports, hist, tradeBounds>>
  BY DEF PollFailed, desk, window, world
<1>2. /\ trade' = [trade EXCEPT ![t] = n]
      /\ n.pc = "settled"
      /\ n.form = trade[t].form
      /\ n.pool = trade[t].pool
      /\ n.polls = trade[t].polls - 1
      /\ n.peak = trade[t].peak
      /\ n.reporting = trade[t].reporting
  BY <1>0 DEF PollFailed, Trade
<1>3. n \in Trade
  <2>1. trade[t].polls - 1 \in 0..MaxPolls
    BY <1>0, <1>1, TradeAssumption, TradeTypes DEF Fine, Trade
  <2> QED
    BY <1>0, <2>1 DEF Trade
<1> HIDE DEF n
<1>4. swap' \in [Trades -> SwapState] /\ reports' \in [Trades -> Nat] /\ allowance' \in [Assets -> Nat]
  BY <1>1, TradeTypes
<1>5. /\ \A u \in Trades \ {t} : swap'[u] = swap[u]
      /\ \A u \in Trades \ {t} : reports'[u] = reports[u]
  BY <1>1, TradeTypes
<1>6. tradeBounds' \in [edits : 0..MaxEdits, failures : 0..MaxFailures, closes : 0..MaxCloses]
  BY <1>1, TradeTypes, FailTypes
<1>7. /\ form' \in Form /\ search' \subseteq [project : Projects, amount : AmountRange]
      /\ box' \in BOOLEAN /\ timers' \in Nat
      /\ hist' \in [revived : BOOLEAN, closed : BOOLEAN, unseen : BOOLEAN]
  BY <1>1, TradeTypes
<1>8. /\ ~hist'.revived => ~hist.revived /\ form' = form
      /\ ~hist.revived => n.form.token = n.pool
      /\ hist.closed => hist'.closed
      /\ hist.unseen => hist'.unseen
      /\ trade[t].peak <= n.peak
  <2>1. trade[t].pc # "idle"
    BY <1>0, <1>1 DEF Fine
  <2>2. trade[t].peak \in Nat
    BY <1>0 DEF Trade
  <2> QED
    BY <1>1, <1>2, <2>1, <2>2 DEF TradeInv, FormKept
<1>9. Fine(n, swap'[t], reports'[t])
  BY <1>0, <1>1, <1>2, TradeTypes DEF Fine, Trade
<1>10. ASSUME Plain, ~hist'.unseen, n.peak <= 1, OneAtATime
       PROVE  /\ timers' <= 1
              /\ timers' > 0 => box' /\ ~Busy(n) /\ \A u \in Trades \ {t} : ~Busy(trade[u])
              /\ Busy(n) => box' /\ \A u \in Trades \ {t} : ~Busy(trade[u])
              /\ \A u \in Trades \ {t} : Busy(trade[u]) => box' /\ allowance' = allowance
              /\ swap'[t] = "pending" => n.pc = "poll"
              /\ n.pc = "settled" => n.polls = 0
              /\ n.pc \in {"quote", "swap"} \/ swap'[t] = "pending" =>
                     allowance'[Sold(n)] >= n.form.amount + 1
              /\ swap'[t] # "short"
  <2>1. trade[t].pc = "poll" /\ n.polls = 0
    <3>1. trade[t].polls \in Nat /\ trade[t].peak \in Nat /\ reports[t] \in Nat
      BY <1>0, TradeTypes DEF Trade
    <3>2. trade[t].polls <= 1
      BY <1>0, <1>2, <1>10, <3>1 DEF Fine
    <3>3. n.polls = 0
      BY <1>1, <1>2, <3>1, <3>2
    <3>4. trade[t].pc # "settled"
      BY <1>1, <1>10, <3>1 DEF OneAtATime
    <3> QED
      BY <1>0, <1>1, <3>3, <3>4 DEF Fine
  <2>2. ~(timers > 0) /\ box /\ \A u \in Trades \ {t} : ~Busy(trade[u])
    BY <1>10, <2>1 DEF OneAtATime, Busy
  <2>3. timers' <= 1 /\ swap'[t] = "failed"
    BY <1>1, <1>10, <2>2, TradeTypes DEF OneAtATime
  <2>4. ~Busy(n) /\ n.pc = "settled"
    BY <1>2 DEF Busy
  <2> QED
    BY <1>1, <2>1, <2>2, <2>3, <2>4
<1> QED
  BY <1>1, <1>2, <1>3, <1>4, <1>5, <1>6, <1>7, <1>8, <1>9, <1>10, TradeMoves

\* The launcher has answered; the project is read again.
LEMMA ReportedInv ==
    ASSUME TradeInv, NEW t \in Trades, Reported(t)
    PROVE  TradeInv'
<1> DEFINE n == [trade[t] EXCEPT !.reporting = trade[t].reporting - 1]
<1>0. trade \in [Trades -> Trade] /\ trade[t] \in Trade /\ Fine(trade[t], swap[t], reports[t])
  BY TradeTypes DEF TradeInv, AllFine
<1>1. /\ trade[t].reporting > 0
      /\ \/ /\ search' = search \cup {[project |-> trade[t].pool, amount |-> trade[t].form.amount]}
            /\ UNCHANGED tradeBounds
         \/ Fail /\ UNCHANGED search
      /\ UNCHANGED <<project, form, screen, box, timers, allowance, swap, reports, hist>>
  BY DEF Reported, desk, window, world
<1>2. /\ trade' = [trade EXCEPT ![t] = n]
      /\ n.pc = trade[t].pc
      /\ n.form = trade[t].form
      /\ n.pool = trade[t].pool
      /\ n.polls = trade[t].polls
      /\ n.peak = trade[t].peak
      /\ n.reporting = trade[t].reporting - 1
  BY <1>0 DEF Reported, Trade
<1>3. n \in Trade
  <2>1. trade[t].reporting - 1 \in 0..MaxPolls
    BY <1>0, <1>1, TradeAssumption, TradeTypes DEF Fine, Trade
  <2> QED
    BY <1>0, <2>1 DEF Trade
<1> HIDE DEF n
<1>4. swap' \in [Trades -> SwapState] /\ reports' \in [Trades -> Nat] /\ allowance' \in [Assets -> Nat]
  BY <1>1, TradeTypes
<1>5. /\ \A u \in Trades \ {t} : swap'[u] = swap[u]
      /\ \A u \in Trades \ {t} : reports'[u] = reports[u]
  BY <1>1, TradeTypes
<1>6. tradeBounds' \in [edits : 0..MaxEdits, failures : 0..MaxFailures, closes : 0..MaxCloses]
  BY <1>1, TradeTypes, FailTypes
<1>7. /\ form' \in Form /\ search' \subseteq [project : Projects, amount : AmountRange]
      /\ box' \in BOOLEAN /\ timers' \in Nat
      /\ hist' \in [revived : BOOLEAN, closed : BOOLEAN, unseen : BOOLEAN]
  <2>1. [project |-> trade[t].pool, amount |-> trade[t].form.amount] \in [project : Projects, amount : AmountRange]
    BY <1>0 DEF Trade, Form
  <2> QED
    BY <1>1, <2>1, TradeTypes
<1>8. /\ ~hist'.revived => ~hist.revived /\ form' = form
      /\ ~hist.revived => n.form.token = n.pool
      /\ hist.closed => hist'.closed
      /\ hist.unseen => hist'.unseen
      /\ trade[t].peak <= n.peak
  <2>1. trade[t].pc = "settled"
    BY <1>0, <1>1, TradeTypes DEF Fine, Trade
  <2> QED
    BY <1>0, <1>1, <1>2, <2>1 DEF TradeInv, FormKept, Trade
<1>9. Fine(n, swap'[t], reports'[t])
  BY <1>0, <1>1, <1>2, TradeTypes DEF Fine, Trade
<1>10. ASSUME Plain, ~hist'.unseen, n.peak <= 1, OneAtATime
       PROVE  /\ timers' <= 1
              /\ timers' > 0 => box' /\ ~Busy(n) /\ \A u \in Trades \ {t} : ~Busy(trade[u])
              /\ Busy(n) => box' /\ \A u \in Trades \ {t} : ~Busy(trade[u])
              /\ \A u \in Trades \ {t} : Busy(trade[u]) => box' /\ allowance' = allowance
              /\ swap'[t] = "pending" => n.pc = "poll"
              /\ n.pc = "settled" => n.polls = 0
              /\ n.pc \in {"quote", "swap"} \/ swap'[t] = "pending" =>
                     allowance'[Sold(n)] >= n.form.amount + 1
              /\ swap'[t] # "short"
  <2>1. trade[t].pc = "settled" /\ trade[t].polls = 0 /\ swap[t] = "ok"
    BY <1>10, <1>0, <1>1, TradeTypes DEF OneAtATime, Fine, Trade
  <2> QED
    BY <1>1, <1>2, <1>10, <2>1, TradeTypes DEF OneAtATime, Busy
<1> QED
  BY <1>1, <1>2, <1>3, <1>4, <1>5, <1>6, <1>7, <1>8, <1>9, <1>10, TradeMoves

\* The router carries out, refuses or fails one swap that it has.
LEMMA RouterSettlesInv ==
    ASSUME TradeInv, NEW t \in Trades, RouterSettles(t)
    PROVE  TradeInv'
<1> DEFINE n == trade[t]
<1>0. trade \in [Trades -> Trade] /\ trade[t] \in Trade /\ Fine(trade[t], swap[t], reports[t])
  BY TradeTypes DEF TradeInv, AllFine
<1>1. /\ swap[t] = "pending"
      /\ UNCHANGED <<project, search, form, screen, box, timers, trade, reports, hist, tradeBounds>>
  BY DEF RouterSettles, desk, window
<1>2. \/ /\ allowance' = [allowance EXCEPT ![Sold(n)] = @ - (n.form.amount + 1)]
         /\ allowance[Sold(n)] >= n.form.amount + 1
         /\ swap' = [swap EXCEPT ![t] = "ok"]
      \/ UNCHANGED allowance /\ swap' = [swap EXCEPT ![t] = "failed"]
      \/ UNCHANGED allowance /\ swap' = [swap EXCEPT ![t] = "short"] /\ ~Covered(n)
  <2>1. allowance[Sold(n)] \in Nat /\ n.form.amount + 1 \in Nat
    <3>1. Sold(n) \in Assets /\ n.form.amount \in Nat
      BY <1>0, AmountsNumbers DEF Sold, AssetOf, Assets, Trade, Form, Dir
    <3> QED
      BY <3>1, TradeTypes
  <2>2. \/ /\ allowance' = [allowance EXCEPT ![Sold(n)] = @ - (n.form.amount + 1)]
           /\ allowance[Sold(n)] >= n.form.amount + 1
           /\ swap' = [swap EXCEPT ![t] = "ok"]
        \/ UNCHANGED allowance /\ swap' = [swap EXCEPT ![t] = "failed"]
        \/ /\ UNCHANGED allowance
           /\ swap' = [swap EXCEPT ![t] = "short"]
           /\ allowance[Sold(n)] < n.form.amount + 1
    BY DEF RouterSettles, Sold
  <2> QED
    BY <2>1, <2>2 DEF Covered
<1>3. n \in Trade /\ trade' = [trade EXCEPT ![t] = n]
  BY <1>0, <1>1
<1>4. allowance' \in [Assets -> Nat]
  <2>1. Sold(n) \in Assets /\ n.form.amount \in Nat
    BY <1>0, AmountsNumbers DEF Sold, AssetOf, Assets, Trade, Form, Dir
  <2>2. allowance \in [Assets -> Nat]
    BY TradeTypes
  <2>3. allowance[Sold(n)] >= n.form.amount + 1 => allowance[Sold(n)] - (n.form.amount + 1) \in Nat
    BY <2>1, <2>2
  <2> QED
    BY <1>2, <2>2, <2>3
<1>5. /\ swap' \in [Trades -> SwapState] /\ swap'[t] \in {"ok", "failed", "short"}
      /\ \A u \in Trades \ {t} : swap'[u] = swap[u]
  BY <1>2, TradeTypes DEF SwapState
<1>6. n.pc \notin {"idle", "approve", "quote", "swap", "dead"} /\ ~(reports[t] > 0)
  BY <1>0, <1>1 DEF Fine
<1>7. Fine(n, swap'[t], reports'[t])
  BY <1>0, <1>1, <1>6 DEF Fine
<1>8. ~hist.revived => n.form.token = n.pool
  BY <1>6 DEF TradeInv, FormKept
<1>9. trade[t].peak <= n.peak
  BY <1>0 DEF Trade
<1>10. ASSUME Plain, OneAtATime
       PROVE  /\ timers' <= 1
              /\ timers' > 0 => box' /\ ~Busy(n) /\ \A u \in Trades \ {t} : ~Busy(trade[u])
              /\ Busy(n) => box' /\ \A u \in Trades \ {t} : ~Busy(trade[u])
              /\ \A u \in Trades \ {t} : Busy(trade[u]) => box' /\ allowance' = allowance
              /\ swap'[t] = "pending" => n.pc = "poll"
              /\ n.pc = "settled" => n.polls = 0
              /\ n.pc \in {"quote", "swap"} \/ swap'[t] = "pending" =>
                     allowance'[Sold(n)] >= n.form.amount + 1
              /\ swap'[t] # "short"
  <2>1. n.pc = "poll" /\ Covered(n)
    BY <1>1, <1>10 DEF OneAtATime
  <2>2. swap'[t] \in {"ok", "failed"}
    <3>1. swap' # [swap EXCEPT ![t] = "short"]
      BY <1>2, <2>1, TradeTypes
    <3> QED
      BY <1>2, <3>1, TradeTypes
  <2>3. ~(timers > 0) /\ box /\ \A u \in Trades \ {t} : ~Busy(trade[u])
    BY <1>10, <2>1 DEF OneAtATime, Busy
  <2> QED
    BY <1>1, <1>10, <2>1, <2>2, <2>3 DEF OneAtATime
<1> HIDE DEF n
<1>11. /\ UNCHANGED <<project, screen>>
       /\ form' \in Form /\ search' \subseteq [project : Projects, amount : AmountRange]
       /\ box' \in BOOLEAN /\ timers' \in Nat /\ reports' \in [Trades -> Nat]
       /\ \A u \in Trades \ {t} : reports'[u] = reports[u]
       /\ hist' = hist /\ form' = form
       /\ hist' \in [revived : BOOLEAN, closed : BOOLEAN, unseen : BOOLEAN]
       /\ tradeBounds' \in [edits : 0..MaxEdits, failures : 0..MaxFailures, closes : 0..MaxCloses]
  BY <1>1, TradeTypes
<1> QED
  BY <1>3, <1>4, <1>5, <1>7, <1>8, <1>9, <1>10, <1>11, TradeMoves

\* The timer frees the button; unless it is a second one, no trade is under way.
LEMMA TimerFiresInv ==
    ASSUME TradeInv, TimerFires
    PROVE  TradeInv'
<1>1. /\ timers > 0 /\ timers' = timers - 1 /\ box' = FALSE
      /\ UNCHANGED <<project, search, form, screen, trade, allowance, swap, reports, hist, tradeBounds>>
  BY DEF TimerFires, desk, world
<1>2. Types'
  <2>1. timers' \in Nat
    BY <1>1, TradeTypes
  <2> QED
    BY <1>1, <2>1, TradeTypes DEF Types, SwapState
<1>3. AllFine' /\ FormKept'
  BY <1>1 DEF TradeInv, AllFine, FormKept
<1>4. LockKept'
  <2> SUFFICES ASSUME Plain' PROVE OneAtATime'
    BY DEF LockKept
  <2>1. OneAtATime
    BY <1>1 DEF TradeInv, LockKept, Plain
  <2>2. timers' = 0 /\ \A u \in Trades : ~Busy(trade[u])
    BY <1>1, <2>1, TradeTypes DEF OneAtATime
  <2> QED
    BY <1>1, <2>1, <2>2 DEF OneAtATime, Covered
<1> QED
  BY <1>2, <1>3, <1>4 DEF TradeInv

\* A box that is closed frees the button, and is remembered.
LEMMA CloseRightBoxInv ==
    ASSUME TradeInv, CloseRightBox
    PROVE  TradeInv'
<1>1. /\ tradeBounds.closes < MaxCloses /\ tradeBounds' = [tradeBounds EXCEPT !.closes = @ + 1]
      /\ hist' = [hist EXCEPT !.closed = TRUE] /\ box' = FALSE
      /\ UNCHANGED <<project, search, form, screen, timers, trade, allowance, swap, reports>>
  BY DEF CloseRightBox, desk, world
<1>2. Types'
  <2>1. tradeBounds.closes + 1 \in 0..MaxCloses
    BY <1>1, TradeTypes, TradeAssumption
  <2>2. tradeBounds' \in [edits : 0..MaxEdits, failures : 0..MaxFailures, closes : 0..MaxCloses]
    BY <1>1, <2>1, TradeTypes
  <2>3. hist' \in [revived : BOOLEAN, closed : BOOLEAN, unseen : BOOLEAN]
    BY <1>1, TradeTypes
  <2> QED
    BY <1>1, <2>2, <2>3, TradeTypes DEF Types, SwapState
<1>3. (hist'.revived <=> hist.revived) /\ hist'.closed
  BY <1>1, TradeTypes
<1>4. AllFine' /\ FormKept'
  BY <1>1, <1>3 DEF TradeInv, AllFine, FormKept
<1>5. LockKept'
  BY <1>3 DEF LockKept, Plain
<1> QED
  BY <1>2, <1>4, <1>5 DEF TradeInv

\* What the user changes goes into the input and the form together.
LEMMA EditsInv ==
    ASSUME TradeInv,
           \/ BtnBuy \/ BtnSell
           \/ \E a \in AmountRange : InputAmountChange(a) \/ SelectHandle(a)
           \/ \E p \in Projects : Navigate(p)
    PROVE  TradeInv'
<1>1. Edit /\ UNCHANGED <<window, trade, world, hist>>
  BY DEF BtnBuy, BtnSell, InputAmountChange, SelectHandle, Navigate, Edit
<1>2. tradeBounds' \in [edits : 0..MaxEdits, failures : 0..MaxFailures, closes : 0..MaxCloses]
  BY <1>1, EditTypes
<1>3. project' \in Projects
  BY TradeTypes DEF BtnBuy, BtnSell, InputAmountChange, SelectHandle, Navigate
<1>4. search' \subseteq [project : Projects, amount : AmountRange]
  <2>1. form.amount \in AmountRange
    BY TradeTypes DEF Form
  <2> QED
    BY <2>1, TradeTypes DEF BtnBuy, BtnSell, InputAmountChange, SelectHandle, Navigate
<1> DEFINE Follows == /\ form' \in Form /\ screen' \in [tab : Dir, text : AmountRange]
                      /\ form.amount = screen.text /\ form.dir = screen.tab /\ form.token = project =>
                         /\ form'.amount = screen'.text /\ form'.dir = screen'.tab
                         /\ form'.token = project'
<1>5. form \in Form /\ screen \in [tab : Dir, text : AmountRange] /\ project \in Projects
  BY TradeTypes
<1>6. Follows
  <2>1. ASSUME BtnBuy PROVE Follows
    BY <1>5, <2>1 DEF BtnBuy, Form, Dir
  <2>2. ASSUME BtnSell PROVE Follows
    BY <1>5, <2>2 DEF BtnSell, Form, Dir
  <2>3. ASSUME NEW a \in AmountRange, InputAmountChange(a) \/ SelectHandle(a) PROVE Follows
    BY <1>5, <2>3 DEF InputAmountChange, SelectHandle, Form, Dir
  <2>4. ASSUME NEW p \in Projects, Navigate(p) PROVE Follows
    BY <1>5, <2>4 DEF Navigate
  <2> QED
    BY <2>1, <2>2, <2>3, <2>4
<1> HIDE DEF Follows
<1>7. ~hist'.revived => /\ ~hist.revived
                        /\ form'.amount = screen'.text /\ form'.dir = screen'.tab
                        /\ form'.token = project'
  <2>1. hist' = hist
    BY <1>1
  <2>2. ~hist.revived => form.amount = screen.text /\ form.dir = screen.tab /\ form.token = project
    BY DEF TradeInv, FormKept
  <2> QED
    BY <1>6, <2>1, <2>2 DEF Follows
<1>8. form' \in Form /\ screen' \in [tab : Dir, text : AmountRange]
  BY <1>6 DEF Follows
<1> QED
  BY <1>1, <1>2, <1>3, <1>4, <1>7, <1>8, TradeTypes, FormSteps

\* A project that arrives puts the amount it was asked for with into the form.
LEMMA InfoArrivesInv ==
    ASSUME TradeInv, NEW s \in search, InfoArrives(s)
    PROVE  TradeInv'
<1>1. /\ search' = search \ {s} /\ project' = s.project
      /\ form' = [dir |-> "buy", token |-> s.project, amount |-> s.amount]
      /\ screen' = [screen EXCEPT !.tab = "buy"]
      /\ hist' = [hist EXCEPT !.revived = @ \/ s.amount # form.amount]
      /\ UNCHANGED <<window, trade, world, tradeBounds>>
  BY DEF InfoArrives
<1>2. s.project \in Projects /\ s.amount \in AmountRange
  BY TradeTypes
<1>3. form' \in Form /\ screen' \in [tab : Dir, text : AmountRange]
  BY <1>1, <1>2, TradeTypes DEF Form, Dir
<1>4. PICK b \in BOOLEAN : b = (hist.revived \/ s.amount # form.amount)
  OBVIOUS
<1>5. b <=> hist.revived \/ s.amount # form.amount
  BY <1>4
<1>6. hist' = [hist EXCEPT !.revived = b]
  BY <1>1, <1>4
<1> HIDE <1>4
<1>7. /\ hist' \in [revived : BOOLEAN, closed : BOOLEAN, unseen : BOOLEAN]
      /\ hist'.revived <=> b
      /\ hist'.closed <=> hist.closed
      /\ hist'.unseen <=> hist.unseen
  BY <1>6, TradeTypes
<1>8. screen'.text = screen.text /\ screen'.tab = "buy"
  BY <1>1, TradeTypes
<1>9. ~hist'.revived => /\ ~hist.revived
                        /\ form'.amount = screen'.text /\ form'.dir = screen'.tab
                        /\ form'.token = project'
  BY <1>1, <1>5, <1>7, <1>8 DEF TradeInv, FormKept
<1>10. search' \subseteq [project : Projects, amount : AmountRange]
  BY <1>1, TradeTypes
<1> QED
  BY <1>1, <1>2, <1>3, <1>7, <1>9, <1>10, TradeTypes, FormSteps

\* Every step of the page of a project keeps the invariant.
LEMMA TradeStepInv ==
    ASSUME TradeInv, [TradeNext]_tradeVars
    PROVE  TradeInv'
<1>1. ASSUME NEW t \in Trades,
             \/ PlaceTrade(t) \/ TradeAnswered(t) \/ RouterSettles(t)
             \/ Poll(t) \/ PollAnswered(t) \/ Reported(t)
      PROVE  TradeInv'
  BY <1>1, PlaceTradeInv, ApproveDoneInv, ApproveFailsInv, QuotedForSwapInv,
     LoadsForGoodInv, SwapAcceptedInv, SwapRefusedInv, RouterSettlesInv, PollInv,
     PollPendingInv, PollSucceededInv, PollFailedInv, ReportedInv DEF TradeAnswered, PollAnswered
<1>2. CASE UNCHANGED tradeVars
  BY <1>2 DEF tradeVars, desk, window, world, TradeInv, Types, AllFine, FormKept, LockKept, Plain,
     OneAtATime, Covered
<1> QED
  BY <1>1, <1>2, EditsInv, InfoArrivesInv, TimerFiresInv, CloseRightBoxInv DEF TradeNext

\* At first nothing is traded and the input is empty.
LEMMA TradeInitInv ==
    ASSUME TradeInit
    PROVE  TradeInv
<1> DEFINE p == CHOOSE x \in Projects : TRUE
<1>1. p \in Projects
  BY TradeAssumption
<1>2. 0 \in AmountRange /\ 0 \in 0..MaxPolls
  BY TradeAssumption DEF AmountRange
<1>3. /\ project = p /\ search = {}
      /\ form = [dir |-> "buy", token |-> p, amount |-> 0]
      /\ screen = [tab |-> "buy", text |-> 0]
      /\ box = FALSE /\ timers = 0
      /\ trade = [t \in Trades |-> NoTrade]
      /\ allowance = [a \in Assets |-> 0]
      /\ swap = [t \in Trades |-> "none"]
      /\ reports = [t \in Trades |-> 0]
      /\ hist = [revived |-> FALSE, closed |-> FALSE, unseen |-> FALSE]
      /\ tradeBounds = [edits |-> 0, failures |-> 0, closes |-> 0]
  BY DEF TradeInit
<1>4. /\ NoTrade \in Trade /\ NoTrade.pc = "idle" /\ NoTrade.polls = 0 /\ NoTrade.peak = 0
      /\ NoTrade.reporting = 0
  BY <1>1, <1>2 DEF NoTrade, Trade, Form, Dir
<1> HIDE DEF p
<1>5. Types
  <2>1. form \in Form /\ screen \in [tab : Dir, text : AmountRange]
    BY <1>1, <1>2, <1>3 DEF Form, Dir
  <2>2. tradeBounds \in [edits : 0..MaxEdits, failures : 0..MaxFailures, closes : 0..MaxCloses]
    BY <1>3, TradeAssumption
  <2> QED
    BY <1>1, <1>3, <1>4, <2>1, <2>2 DEF Types
<1>6. AllFine
  BY <1>3, <1>4 DEF AllFine, Fine
<1>7. FormKept
  BY <1>3, <1>4 DEF FormKept
<1>8. LockKept
  BY <1>3, <1>4 DEF LockKept, OneAtATime, Busy
<1> QED
  BY <1>5, <1>6, <1>7, <1>8 DEF TradeInv

\* The state keeps its types, and the next trade is for what the page shows, unless a late answer
\* put an earlier form back (setCurBuyOrSell in getswapTokenToToken and in search_fomosReq).
THEOREM TradesAsShown == TradeSpec => []FormAgrees
<1>1. TradeInit => TradeInv
  BY TradeInitInv
<1>2. TradeInv /\ [TradeNext]_tradeVars => TradeInv'
  BY TradeStepInv
<1>3. TradeInv => FormAgrees
  BY TradeInvAgrees
<1> QED
  BY <1>1, <1>2, <1>3, PTL DEF TradeSpec

\* Only a swap that succeeded is reported, and more than once only if several status requests
\* of it were under way together (the interval in getswapTokenToToken).
THEOREM ReportsAlwaysAgree == TradeSpec => []ReportsAgree
<1>1. TradeInit => TradeInv
  BY TradeInitInv
<1>2. TradeInv /\ [TradeNext]_tradeVars => TradeInv'
  BY TradeStepInv
<1>3. TradeInv => ReportsAgree
  BY TradeInvAgrees
<1> QED
  BY <1>1, <1>2, <1>3, PTL DEF TradeSpec

\* A swap finds less approved than it needs only if the button was freed while a trade was
\* under way: the box was closed, a swap went on although its call was rejected, or a second
\* answer freed it (openRightBox is the only lock, and icrc2_approve replaces what was
\* approved).
THEOREM ShortAlwaysExplained == TradeSpec => []ShortExplained
<1>1. TradeInit => TradeInv
  BY TradeInitInv
<1>2. TradeInv /\ [TradeNext]_tradeVars => TradeInv'
  BY TradeStepInv
<1>3. TradeInv => ShortExplained
  BY TradeInvAgrees
<1> QED
  BY <1>1, <1>2, <1>3, PTL DEF TradeSpec

===============================================================================
