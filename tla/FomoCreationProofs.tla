------------------------- MODULE FomoCreationProofs -------------------------
(***************************************************************************)
(* Theorems about FomoCreation for every set of users, any number of       *)
(* creations in flight and all bounds.                                     *)
(***************************************************************************)
EXTENDS FomoCreation, FiniteSetTheorems, TLAPS

\* The part of the state an index depends on, typed, and what the calls in
\* flight know of their user.
CallsTyped ==
    /\ profiles \subseteq Users
    /\ count \in Nat
    /\ create \in [Creates -> CreateCall]
    /\ \A c \in Creates : create[c].pc # "idle" => create[c].user \in Users
    /\ made \in [token : Nat, pool : Nat, canister : Nat]

(* The inductive invariant. *)
IInv == CallsTyped /\ IndexOwned

LEMMA InitOwned == Init => IInv
  BY CreationAssumption
  DEF Init, IInv, CallsTyped, IndexOwned, CreateCall, IdleCreate, NewCreate, Indexed, Paid

\* A step of one call that keeps its index and its user.
LEMMA MoveKeeps ==
    ASSUME IInv, NEW c \in Creates,
           create[c].pc \in Indexed,
           create' \in [Creates -> CreateCall],
           create'[c].pc \in Indexed,
           create'[c].idx = create[c].idx,
           create'[c].user = create[c].user,
           \A d \in Creates \ {c} : create'[d] = create[d],
           made' \in [token : Nat, pool : Nat, canister : Nat],
           UNCHANGED <<profiles, fomos, count, taken>>
    PROVE  IInv'
  <1>1. CallsTyped'
    BY DEF IInv, CallsTyped, Indexed, Paid
  <1>2. \A d \in Creates : /\ create'[d].pc \in Indexed <=> create[d].pc \in Indexed
                           /\ create'[d].idx = create[d].idx
    OBVIOUS
  <1>3. IndexOwned'
    BY <1>2 DEF IInv, IndexOwned
  <1> QED BY <1>1, <1>3 DEF IInv

\* A step after which the call holds no index, and nothing else moves.
LEMMA DropKeeps ==
    ASSUME IInv, NEW c \in Creates, NEW to \in CreateCall, to.pc \notin Indexed,
           to.pc # "idle" => to.user \in Users,
           create' = [create EXCEPT ![c] = to],
           profiles' \subseteq Users,
           UNCHANGED <<fomos, count, taken, made>>
    PROVE  IInv'
  <1>1. CallsTyped'
    BY DEF IInv, CallsTyped
  <1>2. \A d \in Creates : create'[d].pc \in Indexed => d # c /\ create'[d] = create[d]
    BY DEF IInv, CallsTyped
  <1>3. IndexOwned'
    BY <1>2 DEF IInv, IndexOwned
  <1> QED BY <1>1, <1>3 DEF IInv

\* What every step keeps of the registered projects.
Kept == \A i \in DOMAIN fomos : i \in DOMAIN fomos' /\ fomos'[i] = fomos[i]

\* The steps of a call between its quote and its payment.
LEMMA BeforeIndex ==
    ASSUME IInv, NEW c \in Creates,
           \/ \E u \in Users : CreateFomo(c, u)
           \/ QuoteAccepted(c)
           \/ PaymentRefused(c)
           \/ LedgerCharges(c)
    PROVE  IInv' /\ Kept
<1> USE DEF IdleCreate, NewCreate
<1>1. create[c] \in CreateCall
  BY DEF IInv, CallsTyped
<1>2. IdleCreate \in CreateCall /\ IdleCreate.pc \notin Indexed /\ profiles \subseteq Users
  BY DEF CreateCall, Indexed, Paid, IInv, CallsTyped
<1>3. ASSUME NEW u \in Users, CreateFomo(c, u) PROVE IInv' /\ Kept
  <2> DEFINE to == NewCreate("quote", u)
  <2>1. to \in CreateCall /\ to.pc \notin Indexed /\ to.user \in Users
    BY DEF CreateCall, Indexed, Paid
  <2>2. create' = [create EXCEPT ![c] = to] /\ UNCHANGED <<profiles, fomos, count, taken, made>>
    BY <1>3 DEF CreateFomo, launcher, external
  <2> HIDE DEF to
  <2> QED BY <1>2, <2>1, <2>2, DropKeeps DEF Kept
<1>4. CASE QuoteAccepted(c) \/ LedgerCharges(c)
  <2>1. PICK pc \in {"pay", "paid"} : create' = [create EXCEPT ![c].pc = pc]
    BY <1>4 DEF QuoteAccepted, LedgerCharges
  <2> DEFINE to == [create[c] EXCEPT !.pc = pc]
  <2>2. create' = [create EXCEPT ![c] = to] /\ UNCHANGED <<profiles, fomos, count, taken, made>>
    BY <1>4, <2>1 DEF QuoteAccepted, LedgerCharges, launcher, external
  <2>3. to \in CreateCall /\ to.pc = pc /\ to.user = create[c].user
    BY <1>1, <2>1 DEF CreateCall, Paid
  <2>4. create[c].user \in Users
    BY <1>4 DEF QuoteAccepted, LedgerCharges, IInv, CallsTyped
  <2>5. to.pc \notin Indexed
    BY <2>1, <2>3 DEF Indexed, Paid
  <2> HIDE DEF to
  <2> QED BY <1>2, <2>2, <2>3, <2>4, <2>5, DropKeeps DEF Kept
<1>5. CASE PaymentRefused(c)
  BY <1>2, <1>5, DropKeeps DEF PaymentRefused, launcher, external, Kept
<1> QED
  BY <1>3, <1>4, <1>5

\* The steps of a call that holds an index, but for its registration.
LEMMA WithIndex ==
    ASSUME IInv, NEW c \in Creates,
           \/ TokenCreated(c) \/ RouterApproved(c) \/ PoolCreated(c) \/ CanisterCreated(c)
           \/ ImageUploaded(c) \/ StatusRead(c) \/ CodeInstalled(c)
    PROVE  IInv' /\ Kept
<1>1. create \in [Creates -> CreateCall] /\ create[c].pc \in Indexed
  BY DEF IInv, CallsTyped, Indexed, Paid, TokenCreated, RouterApproved, PoolCreated,
         CanisterCreated, ImageUploaded, StatusRead, CodeInstalled
<1>2. made \in [token : Nat, pool : Nat, canister : Nat]
  BY DEF IInv, CallsTyped
<1>3. made' \in [token : Nat, pool : Nat, canister : Nat]
  BY <1>2 DEF TokenCreated, RouterApproved, PoolCreated, CanisterCreated, ImageUploaded,
         StatusRead, CodeInstalled, external
<1>4. UNCHANGED <<profiles, fomos, count, taken>>
  BY DEF TokenCreated, RouterApproved, PoolCreated, CanisterCreated, ImageUploaded, StatusRead,
         CodeInstalled, launcher
<1>5. /\ create' \in [Creates -> CreateCall]
      /\ create'[c].pc \in Indexed
      /\ create'[c].idx = create[c].idx
      /\ create'[c].user = create[c].user
      /\ \A d \in Creates \ {c} : create'[d] = create[d]
  <2> USE <1>2
  <2>1. CASE TokenCreated(c)
    <3>1. create' = [[create EXCEPT ![c].pc = "approve"] EXCEPT ![c].token = made.token + 1]
      BY <2>1 DEF TokenCreated
    <3>2. made.token + 1 \in Nat
      OBVIOUS
    <3> QED
      BY <1>1, <3>1, <3>2, ZenonT(40) DEF CreateCall, Indexed, Paid
  <2>2. CASE PoolCreated(c)
    <3>1. create' = [[create EXCEPT ![c].pc = "canister"] EXCEPT ![c].pool = made.pool + 1]
      BY <2>2 DEF PoolCreated
    <3>2. made.pool + 1 \in Nat
      OBVIOUS
    <3> QED
      BY <1>1, <3>1, <3>2, ZenonT(40) DEF CreateCall, Indexed, Paid
  <2>3. CASE CanisterCreated(c)
    <3>1. create' = [[create EXCEPT ![c].pc = "upload"] EXCEPT ![c].canister = made.canister + 1]
      BY <2>3 DEF CanisterCreated
    <3>2. made.canister + 1 \in Nat
      OBVIOUS
    <3> QED
      BY <1>1, <3>1, <3>2, ZenonT(40) DEF CreateCall, Indexed, Paid
  <2>4. CASE RouterApproved(c)
    BY <1>1, <2>4 DEF RouterApproved, CreateCall, Indexed, Paid
  <2>5. CASE ImageUploaded(c)
    BY <1>1, <2>5 DEF ImageUploaded, CreateCall, Indexed, Paid
  <2>6. CASE StatusRead(c)
    BY <1>1, <2>6 DEF StatusRead, CreateCall, Indexed, Paid
  <2>7. CASE CodeInstalled(c)
    BY <1>1, <2>7 DEF CodeInstalled, CreateCall, Indexed, Paid
  <2> QED
    BY <2>1, <2>2, <2>3, <2>4, <2>5, <2>6, <2>7
<1> QED
  BY <1>1, <1>4, <1>5, <1>3, MoveKeeps DEF Kept

\* The counter moves on and nobody holds the new index yet.
LEMMA CountKeeps ==
    ASSUME IInv, Count
    PROVE  IInv' /\ Kept
<1>1. count \in Nat /\ count' = count + 1 /\ taken' = taken \cup {count + 1}
  BY DEF IInv, CallsTyped, Count
<1>2. UNCHANGED <<profiles, fomos, create, made>>
  BY DEF Count, external
<1>3. count + 1 \notin 1..count /\ 1..count \subseteq 1..count' /\ count + 1 \in 1..count'
  BY <1>1
<1>4. IndexOwned'
  BY <1>1, <1>2, <1>3 DEF IInv, IndexOwned
<1> QED
  BY <1>1, <1>2, <1>4 DEF IInv, CallsTyped, Kept

\* The index counted after the payment is above every other.
LEMMA TakeIndexKeeps ==
    ASSUME IInv, NEW c \in Creates, TakeIndex(c)
    PROVE  IInv' /\ Kept
<1>1. /\ count \in Nat /\ count' = count + 1
      /\ create \in [Creates -> CreateCall]
      /\ create[c].pc = "paid"
      /\ UNCHANGED <<profiles, fomos, taken, made>>
  BY DEF IInv, CallsTyped, TakeIndex, external
<1>2. create' = [[create EXCEPT ![c].pc = "token"] EXCEPT ![c].idx = count + 1]
  BY DEF TakeIndex
<1>3. /\ create' \in [Creates -> CreateCall]
      /\ create'[c].pc = "token"
      /\ create'[c].idx = count + 1
      /\ create'[c].user = create[c].user
      /\ \A d \in Creates \ {c} : create'[d] = create[d]
  <2>1. count + 1 \in Nat /\ create \in [Creates -> CreateCall] /\ create[c].pc = "paid"
    BY <1>1
  <2> DEFINE idx == count + 1
  <2>2. idx \in Nat /\ create' = [[create EXCEPT ![c].pc = "token"] EXCEPT ![c].idx = idx]
    BY <1>2, <2>1
  <2> HIDE DEF idx
  <2>3. /\ create' \in [Creates -> CreateCall]
        /\ create'[c].pc = "token"
        /\ create'[c].idx = idx
        /\ create'[c].user = create[c].user
        /\ \A d \in Creates \ {c} : create'[d] = create[d]
    BY <2>1, <2>2 DEF CreateCall, Paid
  <2> QED BY <2>3 DEF idx
<1>4. CallsTyped'
  BY <1>1, <1>3 DEF IInv, CallsTyped
<1>5. count + 1 \notin 1..count /\ 1..count \subseteq 1..count' /\ count + 1 \in 1..count'
  BY <1>1
<1>6. IndexOwned'
  <2>1. /\ DOMAIN fomos' \cup taken' \subseteq 1..count'
        /\ DOMAIN fomos' \cap taken' = {}
    BY <1>1, <1>5 DEF IInv, IndexOwned
  <2>2. ASSUME NEW d \in Creates, create'[d].pc \in Indexed
        PROVE  /\ create'[d].idx \in 1..count'
               /\ create'[d].idx \notin DOMAIN fomos' \cup taken'
               /\ \A e \in Creates \ {d} : create'[e].pc \in Indexed => create'[e].idx # create'[d].idx
    <3>1. CASE d = c
      BY <1>1, <1>3, <1>5, <2>2, <3>1 DEF IInv, IndexOwned
    <3>2. CASE d # c
      BY <1>1, <1>3, <1>5, <2>2, <3>2 DEF IInv, IndexOwned
    <3> QED BY <3>1, <3>2
  <2> QED BY <2>1, <2>2 DEF IndexOwned
<1> QED
  BY <1>1, <1>4, <1>6 DEF IInv, Kept

\* The registration inserts under an index that no project has.
LEMMA RegistrationKeeps ==
    ASSUME IInv, NEW c \in Creates, FomoRegistered(c)
    PROVE  IInv' /\ Kept
<1> DEFINE i == create[c].idx
<1>1. /\ create[c].pc \in Indexed
      /\ create' = [create EXCEPT ![c] = IdleCreate]
      /\ UNCHANGED <<profiles, count, taken, made>>
      /\ DOMAIN fomos' = DOMAIN fomos \cup {i}
      /\ \A j \in DOMAIN fomos : j # i => fomos'[j] = fomos[j]
  BY DEF FomoRegistered, Put, Indexed, Paid, external
<1>2. i \in 1..count /\ i \notin DOMAIN fomos \cup taken
  BY <1>1 DEF IInv, IndexOwned
<1>3. IdleCreate \in CreateCall /\ IdleCreate.pc = "idle" /\ "idle" \notin Indexed
  BY DEF IdleCreate, NewCreate, CreateCall, Indexed, Paid
<1>4. /\ create \in [Creates -> CreateCall]
      /\ \A d \in Creates : create'[d] = IF d = c THEN IdleCreate ELSE create[d]
  BY <1>1 DEF IInv, CallsTyped
<1>5. CallsTyped'
  BY <1>1, <1>3, <1>4 DEF IInv, CallsTyped
<1>6. IndexOwned'
  BY <1>1, <1>2, <1>3, <1>4 DEF IInv, IndexOwned
<1> QED
  BY <1>1, <1>2, <1>5, <1>6 DEF IInv, Kept

LEMMA InvStep ==
    ASSUME IInv, [Next]_vars
    PROVE  IInv' /\ Kept
<1>1. ASSUME NEW c \in Creates, CreateProgress(c) PROVE IInv' /\ Kept
  <2>1. CASE CreateFails(c)
    <3>1. IdleCreate \in CreateCall /\ IdleCreate.pc = "idle" /\ "idle" \notin Indexed
      BY DEF IdleCreate, NewCreate, CreateCall, Indexed, Paid
    <3> QED
      BY <2>1, <3>1, DropKeeps DEF CreateFails, launcher, external, Kept, IInv, CallsTyped
  <2> QED
    BY <1>1, <2>1, BeforeIndex, WithIndex, TakeIndexKeeps, RegistrationKeeps DEF CreateProgress
<1>2. ASSUME NEW c \in Creates, NEW u \in Users, CreateFomo(c, u) PROVE IInv' /\ Kept
  BY <1>2, BeforeIndex
<1>3. ASSUME NEW u \in Users, Register(u) PROVE IInv' /\ Kept
  BY <1>3 DEF Register, external, IInv, CallsTyped, IndexOwned, Kept
<1>4. CASE Count
  BY <1>4, CountKeeps
<1>5. CASE Upgrade
  <2>1. UNCHANGED <<profiles, fomos, count, create, taken, made>>
    BY <1>5 DEF Upgrade, Restore, external
  <2> QED
    BY <2>1 DEF IInv, CallsTyped, IndexOwned, Kept
<1>6. CASE UNCHANGED vars
  BY <1>6 DEF vars, launcher, external, IInv, CallsTyped, IndexOwned, Kept
<1> QED
  BY <1>1, <1>2, <1>3, <1>4, <1>5, <1>6 DEF Next

-----------------------------------------------------------------------------
(* The tokens, pools and canisters *)

\* The awaits after which a call holds a token, a pool and a canister.
HasToken    == Indexed \ {"token"}
HasPool     == HasToken \ {"approve", "pool"}
HasCanister == HasPool \ {"canister"}

\* A thing of kind k belongs to one project or to one of the calls that hold one, and was
\* made.
Owned(k, has) ==
    /\ \A i \in DOMAIN fomos :
           /\ fomos[i][k] \in 1..made[k]
           /\ \A j \in DOMAIN fomos \ {i} : fomos[j][k] # fomos[i][k]
    /\ \A c \in Creates : create[c].pc \in has =>
           /\ create[c][k] \in 1..made[k]
           /\ \A i \in DOMAIN fomos : fomos[i][k] # create[c][k]
           /\ \A d \in Creates \ {c} : create[d].pc \in has => create[d][k] # create[c][k]

\* A canister with code was installed with the index of its project, or of the call that
\* is about to register it.
CodeOwned ==
    /\ \A i \in DOMAIN fomos : /\ fomos[i].canister \in DOMAIN code
                               /\ code[fomos[i].canister] = i
    /\ \A c \in Creates : create[c].pc = "installed" =>
           /\ create[c].canister \in DOMAIN code
           /\ code[create[c].canister] = create[c].idx

(* The inductive invariant of the resources. *)
RInv ==
    /\ IInv
    /\ Owned("token", HasToken) /\ Owned("pool", HasPool) /\ Owned("canister", HasCanister)
    /\ CodeOwned

\* Nothing of kind k is made, and no call gets one.
LEMMA OwnedStays ==
    ASSUME NEW k, NEW has, Owned(k, has),
           UNCHANGED fomos, made'[k] = made[k],
           \A d \in Creates : create'[d].pc \in has =>
               create[d].pc \in has /\ create'[d][k] = create[d][k]
    PROVE  Owned(k, has)'
  BY DEF Owned

\* Call c moves on, and keeps what it holds of kind k.
LEMMA OwnedMoves ==
    ASSUME NEW k, NEW has, Owned(k, has), NEW c \in Creates,
           UNCHANGED fomos, made'[k] = made[k],
           create'[c].pc \in has => create[c].pc \in has /\ create'[c][k] = create[c][k],
           \A d \in Creates \ {c} : create'[d] = create[d]
    PROVE  Owned(k, has)'
<1>1. \A d \in Creates : create'[d].pc \in has =>
          create[d].pc \in has /\ create'[d][k] = create[d][k]
  OBVIOUS
<1> QED BY <1>1, OwnedStays

\* A call gets the one that was just made.
LEMMA OwnedFresh ==
    ASSUME NEW k, NEW has, Owned(k, has), NEW c \in Creates,
           UNCHANGED fomos, made[k] \in Nat, made'[k] = made[k] + 1,
           create'[c][k] = made[k] + 1,
           \A d \in Creates \ {c} : create'[d] = create[d]
    PROVE  Owned(k, has)'
<1>1. made'[k] \notin 1..made[k] /\ 1..made[k] \subseteq 1..made'[k] /\ made'[k] \in 1..made'[k]
  OBVIOUS
<1>2. ASSUME NEW i \in DOMAIN fomos'
      PROVE  /\ fomos'[i][k] \in 1..made'[k]
             /\ \A j \in DOMAIN fomos' \ {i} : fomos'[j][k] # fomos'[i][k]
  BY <1>1 DEF Owned
<1>3. ASSUME NEW e \in Creates, create'[e].pc \in has
      PROVE  /\ create'[e][k] \in 1..made'[k]
             /\ \A i \in DOMAIN fomos' : fomos'[i][k] # create'[e][k]
             /\ \A d \in Creates \ {e} : create'[d].pc \in has => create'[d][k] # create'[e][k]
  <2>1. CASE e = c
    BY <1>1, <2>1 DEF Owned
  <2>2. CASE e # c
    BY <1>1, <1>3, <2>2 DEF Owned
  <2> QED BY <2>1, <2>2
<1> QED BY <1>2, <1>3 DEF Owned

\* A call hands the one it holds to its project.
LEMMA OwnedRegistered ==
    ASSUME NEW k, NEW has, Owned(k, has), NEW c \in Creates, NEW i,
           create[c].pc \in has, create'[c].pc \notin has,
           i \notin DOMAIN fomos, DOMAIN fomos' = DOMAIN fomos \cup {i},
           fomos'[i][k] = create[c][k],
           \A j \in DOMAIN fomos : fomos'[j] = fomos[j],
           \A d \in Creates \ {c} : create'[d] = create[d],
           made'[k] = made[k]
    PROVE  Owned(k, has)'
<1>1. ASSUME NEW j \in DOMAIN fomos'
      PROVE  /\ fomos'[j][k] \in 1..made'[k]
             /\ \A l \in DOMAIN fomos' \ {j} : fomos'[l][k] # fomos'[j][k]
  <2>1. CASE j = i
    BY <2>1 DEF Owned
  <2>2. CASE j # i
    BY <2>2 DEF Owned
  <2> QED BY <2>1, <2>2
<1>2. ASSUME NEW e \in Creates, create'[e].pc \in has
      PROVE  /\ create'[e][k] \in 1..made'[k]
             /\ \A j \in DOMAIN fomos' : fomos'[j][k] # create'[e][k]
             /\ \A d \in Creates \ {e} : create'[d].pc \in has => create'[d][k] # create'[e][k]
  BY <1>2 DEF Owned
<1> QED BY <1>1, <1>2 DEF Owned

\* The steps of call c that give it nothing, and leave the code alone.
LEMMA NothingMade ==
    ASSUME RInv, NEW c \in Creates,
           UNCHANGED <<fomos, made, code>>,
           \A d \in Creates \ {c} : create'[d] = create[d],
           \/ create'[c].pc \notin HasToken
           \/ /\ create'[c].pc # "installed"
              /\ create[c].pc \in HasToken
              /\ create[c].pc \in HasPool <=> create'[c].pc \in HasPool
              /\ create[c].pc \in HasCanister <=> create'[c].pc \in HasCanister
              /\ create'[c].token = create[c].token
              /\ create'[c].pool = create[c].pool
              /\ create'[c].canister = create[c].canister
    PROVE  /\ Owned("token", HasToken)' /\ Owned("pool", HasPool)'
           /\ Owned("canister", HasCanister)' /\ CodeOwned'
<1>1. HasPool \subseteq HasToken /\ HasCanister \subseteq HasToken /\ "installed" \in HasToken
  BY DEF HasToken, HasPool, HasCanister, Indexed, Paid
<1>2. Owned("token", HasToken)'
  BY OwnedStays DEF RInv
<1>3. Owned("pool", HasPool)'
  BY <1>1, OwnedStays DEF RInv
<1>4. Owned("canister", HasCanister)'
  BY <1>1, OwnedStays DEF RInv
<1>5. CodeOwned'
  BY <1>1 DEF RInv, CodeOwned
<1> QED BY <1>2, <1>3, <1>4, <1>5

\* What a step that writes the program counter, and perhaps one more number, leaves.
LEMMA Advance ==
    ASSUME create \in [Creates -> CreateCall], NEW c \in Creates, NEW pc,
           create' = [create EXCEPT ![c].pc = pc]
    PROVE  /\ create'[c].pc = pc /\ create'[c].idx = create[c].idx
           /\ create'[c].token = create[c].token /\ create'[c].pool = create[c].pool
           /\ create'[c].canister = create[c].canister
           /\ \A d \in Creates \ {c} : create'[d] = create[d]
  BY DEF CreateCall

LEMMA InitResources == Init => RInv
<1>1. Init => IInv
  BY InitOwned
<1>2. Init => Owned("token", HasToken) /\ Owned("pool", HasPool) /\ Owned("canister", HasCanister)
  BY DEF Init, Owned, IdleCreate, NewCreate, HasToken, HasPool, HasCanister, Indexed, Paid
<1>3. Init => CodeOwned
  BY DEF Init, CodeOwned, IdleCreate, NewCreate
<1> QED BY <1>1, <1>2, <1>3 DEF RInv

\* A token, a pool or a canister is made for the call.
LEMMA SomethingMade ==
    ASSUME RInv, NEW c \in Creates,
           TokenCreated(c) \/ PoolCreated(c) \/ CanisterCreated(c)
    PROVE  /\ Owned("token", HasToken)' /\ Owned("pool", HasPool)'
           /\ Owned("canister", HasCanister)' /\ CodeOwned'
<1> USE DEF HasToken, HasPool, HasCanister, Indexed, Paid
<1>1. /\ create \in [Creates -> CreateCall]
      /\ made \in [token : Nat, pool : Nat, canister : Nat]
      /\ UNCHANGED <<fomos, code>>
  BY DEF RInv, IInv, CallsTyped, TokenCreated, PoolCreated, CanisterCreated, launcher
<1>2. CASE TokenCreated(c)
  <2>1. /\ create' = [[create EXCEPT ![c].pc = "approve"] EXCEPT ![c].token = made.token + 1]
        /\ made' = [made EXCEPT !.token = @ + 1]
        /\ create[c].pc = "token"
    BY <1>2 DEF TokenCreated
  <2>2. /\ made.token \in Nat /\ made'.token = made.token + 1
        /\ made'.pool = made.pool /\ made'.canister = made.canister
    BY <1>1, <2>1
  <2>3. /\ create'[c].pc = "approve" /\ create'[c].token = made.token + 1
        /\ \A d \in Creates \ {c} : create'[d] = create[d]
    BY <1>1, <2>1 DEF CreateCall
  <2>4. Owned("token", HasToken)'
    BY <1>1, <2>2, <2>3, OwnedFresh DEF RInv
  <2>5. Owned("pool", HasPool)' /\ Owned("canister", HasCanister)'
    <3>1. Owned("pool", HasPool)'
      BY <1>1, <2>2, <2>3, OwnedMoves DEF RInv
    <3>2. Owned("canister", HasCanister)'
      BY <1>1, <2>2, <2>3, OwnedMoves DEF RInv
    <3> QED BY <3>1, <3>2
  <2>6. CodeOwned'
    BY <1>1, <2>3 DEF RInv, CodeOwned
  <2> QED BY <2>4, <2>5, <2>6
<1>3. CASE PoolCreated(c)
  <2>1. /\ create' = [[create EXCEPT ![c].pc = "canister"] EXCEPT ![c].pool = made.pool + 1]
        /\ made' = [made EXCEPT !.pool = @ + 1]
        /\ create[c].pc = "pool"
    BY <1>3 DEF PoolCreated
  <2>2. /\ made.pool \in Nat /\ made'.pool = made.pool + 1
        /\ made'.token = made.token /\ made'.canister = made.canister
    BY <1>1, <2>1
  <2>3. /\ create'[c].pc = "canister" /\ create'[c].pool = made.pool + 1
        /\ create'[c].token = create[c].token
        /\ \A d \in Creates \ {c} : create'[d] = create[d]
    BY <1>1, <2>1 DEF CreateCall
  <2>4. Owned("pool", HasPool)'
    BY <1>1, <2>2, <2>3, OwnedFresh DEF RInv
  <2>5. Owned("token", HasToken)' /\ Owned("canister", HasCanister)'
    <3>1. Owned("token", HasToken)'
      BY <1>1, <2>1, <2>2, <2>3, OwnedMoves DEF RInv
    <3>2. Owned("canister", HasCanister)'
      BY <1>1, <2>1, <2>2, <2>3, OwnedMoves DEF RInv
    <3> QED BY <3>1, <3>2
  <2>6. CodeOwned'
    BY <1>1, <2>3 DEF RInv, CodeOwned
  <2> QED BY <2>4, <2>5, <2>6
<1>4. CASE CanisterCreated(c)
  <2>1. /\ create' = [[create EXCEPT ![c].pc = "upload"] EXCEPT ![c].canister = made.canister + 1]
        /\ made' = [made EXCEPT !.canister = @ + 1]
        /\ create[c].pc = "canister"
    BY <1>4 DEF CanisterCreated
  <2>2. /\ made.canister \in Nat /\ made'.canister = made.canister + 1
        /\ made'.token = made.token /\ made'.pool = made.pool
    BY <1>1, <2>1
  <2>3. /\ create'[c].pc = "upload" /\ create'[c].canister = made.canister + 1
        /\ create'[c].token = create[c].token /\ create'[c].pool = create[c].pool
        /\ \A d \in Creates \ {c} : create'[d] = create[d]
    BY <1>1, <2>1 DEF CreateCall
  <2>4. Owned("canister", HasCanister)'
    BY <1>1, <2>2, <2>3, OwnedFresh DEF RInv
  <2>5. Owned("token", HasToken)' /\ Owned("pool", HasPool)'
    <3>1. Owned("token", HasToken)'
      BY <1>1, <2>1, <2>2, <2>3, OwnedMoves DEF RInv
    <3>2. Owned("pool", HasPool)'
      BY <1>1, <2>1, <2>2, <2>3, OwnedMoves DEF RInv
    <3> QED BY <3>1, <3>2
  <2>6. CodeOwned'
    BY <1>1, <2>3 DEF RInv, CodeOwned
  <2> QED BY <2>4, <2>5, <2>6
<1> QED BY <1>2, <1>3, <1>4

\* The code is installed on a canister that is this call's alone.
LEMMA InstallKeeps ==
    ASSUME RInv, NEW c \in Creates, CodeInstalled(c)
    PROVE  /\ Owned("token", HasToken)' /\ Owned("pool", HasPool)'
           /\ Owned("canister", HasCanister)' /\ CodeOwned'
<1> USE DEF HasToken, HasPool, HasCanister, Indexed, Paid
<1>1. /\ create \in [Creates -> CreateCall]
      /\ UNCHANGED <<fomos, made>>
      /\ create[c].pc = "install"
      /\ create' = [create EXCEPT ![c].pc = "installed"]
      /\ code' = Put(code, create[c].canister, create[c].idx)
  BY DEF RInv, IInv, CallsTyped, CodeInstalled, launcher
<1>2. /\ create'[c].pc = "installed" /\ create'[c].idx = create[c].idx
      /\ create'[c].token = create[c].token /\ create'[c].pool = create[c].pool
      /\ create'[c].canister = create[c].canister
      /\ \A d \in Creates \ {c} : create'[d] = create[d]
  BY <1>1, Advance
<1>3. Owned("token", HasToken)' /\ Owned("pool", HasPool)' /\ Owned("canister", HasCanister)'
  <2>1. Owned("token", HasToken)'
    <3>1. create[c].pc \in HasToken /\ Owned("token", HasToken)
      BY <1>1 DEF RInv
    <3> HIDE DEF HasToken, RInv
    <3> QED BY <1>1, <1>2, <3>1, OwnedMoves
  <2>2. Owned("pool", HasPool)'
    <3>1. create[c].pc \in HasPool /\ Owned("pool", HasPool)
      BY <1>1 DEF RInv
    <3> HIDE DEF HasPool, RInv
    <3> QED BY <1>1, <1>2, <3>1, OwnedMoves
  <2>3. Owned("canister", HasCanister)'
    <3>1. create[c].pc \in HasCanister /\ Owned("canister", HasCanister)
      BY <1>1 DEF RInv
    <3> HIDE DEF HasCanister, RInv
    <3> QED BY <1>1, <1>2, <3>1, OwnedMoves
  <2> QED BY <2>1, <2>2, <2>3
<1>4. /\ DOMAIN code' = DOMAIN code \cup {create[c].canister}
      /\ code'[create[c].canister] = create[c].idx
      /\ \A k \in DOMAIN code : k # create[c].canister => code'[k] = code[k]
  BY <1>1 DEF Put
<1>5. \A i \in DOMAIN fomos : fomos[i].canister # create[c].canister
  BY <1>1 DEF RInv, Owned
<1>6. \A d \in Creates \ {c} : create[d].pc = "installed" => create[d].canister # create[c].canister
  BY <1>1 DEF RInv, Owned
<1>7. CodeOwned'
  BY <1>1, <1>2, <1>4, <1>5, <1>6 DEF RInv, CodeOwned
<1> QED BY <1>3, <1>7

\* The project takes over what the call holds.
LEMMA RegistrationHands ==
    ASSUME RInv, NEW c \in Creates, FomoRegistered(c)
    PROVE  /\ Owned("token", HasToken)' /\ Owned("pool", HasPool)'
           /\ Owned("canister", HasCanister)' /\ CodeOwned'
<1> USE DEF HasToken, HasPool, HasCanister, Indexed, Paid
<1> DEFINE i == create[c].idx
<1>1. /\ create \in [Creates -> CreateCall]
      /\ create[c].pc = "installed"
      /\ create' = [create EXCEPT ![c] = IdleCreate]
      /\ UNCHANGED <<made, code>>
      /\ DOMAIN fomos' = DOMAIN fomos \cup {i}
      /\ \A j \in DOMAIN fomos : j # i => fomos'[j] = fomos[j]
      /\ fomos'[i].token = create[c].token
      /\ fomos'[i].pool = create[c].pool
      /\ fomos'[i].canister = create[c].canister
  BY DEF RInv, IInv, CallsTyped, FomoRegistered, Put, external
<1>2. i \notin DOMAIN fomos
  BY <1>1 DEF RInv, IInv, IndexOwned
<1>3. create'[c].pc = "idle" /\ \A d \in Creates \ {c} : create'[d] = create[d]
  BY <1>1 DEF IdleCreate, NewCreate
<1> HIDE DEF i
<1>4. Owned("token", HasToken)'
  BY <1>1, <1>2, <1>3, OwnedRegistered DEF RInv
<1>5. Owned("pool", HasPool)'
  BY <1>1, <1>2, <1>3, OwnedRegistered DEF RInv
<1>6. Owned("canister", HasCanister)'
  BY <1>1, <1>2, <1>3, OwnedRegistered DEF RInv
<1>7. code[create[c].canister] = i /\ create[c].canister \in DOMAIN code
  BY <1>1 DEF RInv, CodeOwned, i
<1>8. CodeOwned'
  BY <1>1, <1>2, <1>3, <1>7 DEF RInv, CodeOwned
<1> QED BY <1>4, <1>5, <1>6, <1>8

\* The steps after which the call holds nothing, and those that only move it on.
LEMMA OthersKeep ==
    ASSUME RInv, NEW c \in Creates,
           \/ \E u \in Users : CreateFomo(c, u)
           \/ QuoteAccepted(c) \/ PaymentRefused(c) \/ LedgerCharges(c) \/ TakeIndex(c)
           \/ RouterApproved(c) \/ ImageUploaded(c) \/ StatusRead(c) \/ CreateFails(c)
    PROVE  /\ Owned("token", HasToken)' /\ Owned("pool", HasPool)'
           /\ Owned("canister", HasCanister)' /\ CodeOwned'
<1> USE DEF HasToken, HasPool, HasCanister, Indexed, Paid
<1>1. create \in [Creates -> CreateCall]
  BY DEF RInv, IInv, CallsTyped
<1>2. UNCHANGED <<fomos, made, code>>
  BY DEF CreateFomo, QuoteAccepted, PaymentRefused, LedgerCharges, TakeIndex, RouterApproved,
         ImageUploaded, StatusRead, CreateFails, launcher, external
<1>3. ASSUME NEW u \in Users, CreateFomo(c, u)
      PROVE  /\ create'[c].pc \notin HasToken
             /\ \A d \in Creates \ {c} : create'[d] = create[d]
  BY <1>1, <1>3 DEF CreateFomo, NewCreate
<1>4. ASSUME PaymentRefused(c) \/ CreateFails(c)
      PROVE  /\ create'[c].pc \notin HasToken
             /\ \A d \in Creates \ {c} : create'[d] = create[d]
  BY <1>1, <1>4 DEF PaymentRefused, CreateFails, IdleCreate, NewCreate
<1>5. ASSUME QuoteAccepted(c) \/ LedgerCharges(c)
      PROVE  /\ create'[c].pc \notin HasToken
             /\ \A d \in Creates \ {c} : create'[d] = create[d]
  BY <1>1, <1>5, Advance DEF QuoteAccepted, LedgerCharges
<1>6. ASSUME TakeIndex(c)
      PROVE  /\ create'[c].pc \notin HasToken
             /\ \A d \in Creates \ {c} : create'[d] = create[d]
  <2>1. create' = [[create EXCEPT ![c].pc = "token"] EXCEPT ![c].idx = count + 1]
    BY <1>6 DEF TakeIndex
  <2> QED BY <1>1, <2>1 DEF CreateCall
<1>7. ASSUME RouterApproved(c)
      PROVE  /\ create[c].pc = "approve" /\ create'[c].pc = "pool"
             /\ create'[c].token = create[c].token /\ create'[c].pool = create[c].pool
             /\ create'[c].canister = create[c].canister
             /\ \A d \in Creates \ {c} : create'[d] = create[d]
  BY <1>1, <1>7, Advance DEF RouterApproved
<1>8. ASSUME ImageUploaded(c)
      PROVE  /\ create[c].pc = "upload" /\ create'[c].pc = "status"
             /\ create'[c].token = create[c].token /\ create'[c].pool = create[c].pool
             /\ create'[c].canister = create[c].canister
             /\ \A d \in Creates \ {c} : create'[d] = create[d]
  BY <1>1, <1>8, Advance DEF ImageUploaded
<1>9. ASSUME StatusRead(c)
      PROVE  /\ create[c].pc = "status" /\ create'[c].pc = "install"
             /\ create'[c].token = create[c].token /\ create'[c].pool = create[c].pool
             /\ create'[c].canister = create[c].canister
             /\ \A d \in Creates \ {c} : create'[d] = create[d]
  BY <1>1, <1>9, Advance DEF StatusRead
<1> QED
  BY <1>2, <1>3, <1>4, <1>5, <1>6, <1>7, <1>8, <1>9, NothingMade

LEMMA ResourcesStep ==
    ASSUME RInv, [Next]_vars
    PROVE  RInv'
<1>1. IInv'
  BY InvStep DEF RInv
<1>2. ASSUME NEW c \in Creates, CreateProgress(c) \/ \E u \in Users : CreateFomo(c, u)
      PROVE  RInv'
  BY <1>1, <1>2, SomethingMade, InstallKeeps, RegistrationHands, OthersKeep
  DEF CreateProgress, RInv
<1>3. ASSUME \/ \E u \in Users : Register(u)
             \/ Count \/ Upgrade \/ UNCHANGED vars
      PROVE  RInv'
  <2>1. UNCHANGED <<fomos, create, made, code>>
    BY <1>3 DEF Register, Count, Upgrade, Restore, vars, launcher, external
  <2>2. Owned("token", HasToken)' /\ Owned("pool", HasPool)' /\ Owned("canister", HasCanister)'
    BY <2>1, OwnedStays DEF RInv
  <2>3. CodeOwned'
    BY <2>1 DEF RInv, CodeOwned
  <2> QED BY <1>1, <2>2, <2>3 DEF RInv
<1> QED
  BY <1>2, <1>3 DEF Next

-----------------------------------------------------------------------------
(* The fees *)

LEMMA OneMore ==
    ASSUME NEW f \in [Users -> Nat], NEW u
    PROVE  [f EXCEPT ![u] = @ + 1] \in [Users -> Nat]
<1> DEFINE g == [f EXCEPT ![u] = @ + 1]
<1>1. g = [v \in Users |-> IF v = u THEN f[v] + 1 ELSE f[v]]
  OBVIOUS
<1>2. \A v \in Users : (IF v = u THEN f[v] + 1 ELSE f[v]) \in Nat
  OBVIOUS
<1> QED BY <1>1, <1>2

LEMMA InitTypes == Init => TypeOK
  BY CreationAssumption
  DEF Init, TypeOK, CreateCall, IdleCreate, NewCreate, Project

\* What a step writes of the types that the index does not depend on.
LEMMA TypesKeep ==
    ASSUME IInv, TypeOK, IInv',
           UNCHANGED <<fomos, last_create, rewards, code, taken>>,
           charged' \in [Users -> Nat], abandoned' \in [Users -> Nat],
           calls' \in [creates : 0..MaxCreates, counts : 0..MaxCounts,
                       failures : 0..MaxFailures, upgrades : 0..MaxUpgrades]
    PROVE  TypeOK'
  BY DEF IInv, CallsTyped, TypeOK

LEMMA CountedTyped ==
    ASSUME TypeOK, NEW bound, NEW max \in Nat, Counted(bound, max),
           \/ bound = "creates" /\ max = MaxCreates
           \/ bound = "counts" /\ max = MaxCounts
           \/ bound = "failures" /\ max = MaxFailures
           \/ bound = "upgrades" /\ max = MaxUpgrades
    PROVE  calls' \in [creates : 0..MaxCreates, counts : 0..MaxCounts,
                       failures : 0..MaxFailures, upgrades : 0..MaxUpgrades]
<1>1. /\ calls \in [creates : 0..MaxCreates, counts : 0..MaxCounts,
                    failures : 0..MaxFailures, upgrades : 0..MaxUpgrades]
      /\ calls' = [calls EXCEPT ![bound] = @ + 1] /\ calls[bound] < max
  BY DEF TypeOK, Counted
<1> QED BY <1>1, CreationAssumption

LEMMA TypesStep ==
    ASSUME IInv, TypeOK, [Next]_vars
    PROVE  TypeOK'
<1>1. IInv'
  BY InvStep
<1>2. /\ charged \in [Users -> Nat] /\ abandoned \in [Users -> Nat]
      /\ calls \in [creates : 0..MaxCreates, counts : 0..MaxCounts,
                    failures : 0..MaxFailures, upgrades : 0..MaxUpgrades]
  BY DEF TypeOK
<1>3. ASSUME NEW c \in Creates,
             \/ QuoteAccepted(c) \/ PaymentRefused(c) \/ TakeIndex(c) \/ TokenCreated(c)
             \/ RouterApproved(c) \/ PoolCreated(c) \/ CanisterCreated(c)
             \/ ImageUploaded(c) \/ StatusRead(c)
      PROVE  TypeOK'
  <2>1. UNCHANGED <<fomos, last_create, rewards, code, taken, charged, abandoned, calls>>
    BY <1>3 DEF QuoteAccepted, PaymentRefused, TakeIndex, TokenCreated, RouterApproved,
                PoolCreated, CanisterCreated, ImageUploaded, StatusRead, launcher, external
  <2> QED BY <1>1, <1>2, <2>1, TypesKeep
<1>4. ASSUME NEW c \in Creates, LedgerCharges(c) PROVE TypeOK'
  <2>1. /\ UNCHANGED <<fomos, last_create, rewards, code, taken, abandoned, calls>>
        /\ charged' = [charged EXCEPT ![create[c].user] = @ + 1]
    BY <1>4 DEF LedgerCharges, launcher
  <2>2. charged' \in [Users -> Nat]
    BY <1>2, <2>1, OneMore
  <2> QED BY <1>1, <1>2, <2>1, <2>2, TypesKeep
<1>5. ASSUME NEW c \in Creates, CodeInstalled(c) PROVE TypeOK'
  <2>1. /\ UNCHANGED <<fomos, last_create, rewards, taken, charged, abandoned, calls>>
        /\ code' = Put(code, create[c].canister, create[c].idx)
    BY <1>5 DEF CodeInstalled, launcher
  <2>2. create[c].idx \in Nat
    BY DEF IInv, CallsTyped, CreateCall
  <2>3. \A k \in DOMAIN code' : code'[k] \in Nat
    BY <2>1, <2>2 DEF Put, TypeOK
  <2> QED BY <1>1, <1>2, <2>1, <2>3 DEF IInv, CallsTyped, TypeOK
<1>6. ASSUME NEW c \in Creates, FomoRegistered(c) PROVE TypeOK'
  <2> DEFINE f == create[c]
             project == [user |-> f.user, token |-> f.token, pool |-> f.pool,
                         canister |-> f.canister]
  <2>1. /\ UNCHANGED <<code, taken, charged, abandoned, calls>>
        /\ fomos' = Put(fomos, f.idx, project)
        /\ last_create' = f.idx
        /\ rewards' = [rewards EXCEPT ![f.user] = @ + 1]
        /\ f.pc = "installed"
    BY <1>6 DEF FomoRegistered, external
  <2>2. f \in CreateCall /\ f.user \in Users
    BY <2>1 DEF IInv, CallsTyped
  <2>3. project \in Project
    BY <2>2 DEF Project, CreateCall
  <2> HIDE DEF f, project
  <2>4. \A i \in DOMAIN fomos' : fomos'[i] \in Project
    BY <2>1, <2>3 DEF Put, TypeOK
  <2>5. last_create' \in DOMAIN fomos'
    BY <2>1 DEF Put
  <2>6. rewards' \in [Users -> Nat]
    BY <2>1, OneMore DEF TypeOK
  <2> QED BY <1>1, <1>2, <2>1, <2>4, <2>5, <2>6 DEF IInv, CallsTyped, TypeOK
<1>7. ASSUME NEW c \in Creates, CreateFails(c) PROVE TypeOK'
  <2>1. /\ UNCHANGED <<fomos, last_create, rewards, code, taken, charged>>
        /\ abandoned' = [abandoned EXCEPT ![create[c].user] = @ + 1]
        /\ Counted("failures", MaxFailures)
    BY <1>7 DEF CreateFails, launcher, external
  <2>2. abandoned' \in [Users -> Nat]
    BY <1>2, <2>1, OneMore
  <2> QED BY <1>1, <1>2, <2>1, <2>2, TypesKeep, CountedTyped, CreationAssumption
<1>8. ASSUME NEW c \in Creates, NEW u \in Users, CreateFomo(c, u) PROVE TypeOK'
  <2>1. /\ UNCHANGED <<fomos, last_create, rewards, code, taken, charged, abandoned>>
        /\ Counted("creates", MaxCreates)
    BY <1>8 DEF CreateFomo, launcher, external
  <2> QED BY <1>1, <1>2, <2>1, TypesKeep, CountedTyped, CreationAssumption
<1>9. ASSUME NEW u \in Users, Register(u) PROVE TypeOK'
  <2>1. UNCHANGED <<fomos, last_create, rewards, code, taken, charged, abandoned, calls>>
    BY <1>9 DEF Register, external
  <2> QED BY <1>1, <1>2, <2>1, TypesKeep
<1>10. CASE Count
  <2>1. /\ UNCHANGED <<fomos, last_create, rewards, code, charged, abandoned>>
        /\ Counted("counts", MaxCounts) /\ taken' = taken \cup {count + 1} /\ count \in Nat
    BY <1>10 DEF Count, external, TypeOK
  <2>2. taken' \subseteq Nat
    BY <2>1 DEF TypeOK
  <2>3. calls' \in [creates : 0..MaxCreates, counts : 0..MaxCounts,
                    failures : 0..MaxFailures, upgrades : 0..MaxUpgrades]
    BY <2>1, CountedTyped, CreationAssumption
  <2> QED BY <1>1, <1>2, <2>1, <2>2, <2>3 DEF IInv, CallsTyped, TypeOK
<1>11. CASE Upgrade
  <2>1. /\ UNCHANGED <<fomos, last_create, rewards, code, taken, charged, abandoned>>
        /\ Counted("upgrades", MaxUpgrades)
    BY <1>11 DEF Upgrade, Restore, external
  <2> QED BY <1>1, <1>2, <2>1, TypesKeep, CountedTyped, CreationAssumption
<1>12. CASE UNCHANGED vars
  <2>1. UNCHANGED <<fomos, last_create, rewards, code, taken, charged, abandoned, calls>>
    BY <1>12 DEF vars, launcher, external
  <2> QED BY <1>1, <1>2, <2>1, TypesKeep
<1> QED
  BY <1>3, <1>4, <1>5, <1>6, <1>7, <1>8, <1>9, <1>10, <1>11, <1>12 DEF Next, CreateProgress

\* The creations u paid for that are under way.
PaidBy(u) == {c \in Creates : create[c].pc \in Paid /\ create[c].user = u}

\* The fees, the projects and the rewards of a user, whose sets stay finite.
Books(u) ==
    /\ IsFiniteSet(CreatedBy(u)) /\ IsFiniteSet(PaidBy(u))
    /\ charged[u] = Cardinality(CreatedBy(u)) + abandoned[u] + Cardinality(PaidBy(u))
    /\ rewards[u] = Cardinality(CreatedBy(u))

(* The inductive invariant of the fees. *)
FInv == IInv /\ TypeOK /\ \A u \in Users : Books(u)

LEMMA InitBooks == Init => FInv
<1> SUFFICES ASSUME Init, NEW u \in Users PROVE Books(u)
  BY InitOwned, InitTypes DEF FInv
<1>1. CreatedBy(u) = {} /\ charged[u] = 0 /\ abandoned[u] = 0 /\ rewards[u] = 0
  BY DEF Init, CreatedBy
<1>2. PaidBy(u) = {}
  BY DEF Init, PaidBy, Paid, IdleCreate, NewCreate
<1> QED BY <1>1, <1>2, FS_EmptySet DEF Books

\* The books of a user whom the step does not concern.
LEMMA BooksStay ==
    ASSUME NEW u \in Users, Books(u), CreatedBy(u)' = CreatedBy(u), PaidBy(u)' = PaidBy(u),
           charged'[u] = charged[u], abandoned'[u] = abandoned[u], rewards'[u] = rewards[u]
    PROVE  Books(u)'
  BY DEF Books

\* The steps that neither charge nor register, nor end a paid creation.
LEMMA PaidStays ==
    ASSUME IInv, NEW c \in Creates, NEW to, create' = [create EXCEPT ![c] = to],
           to.pc \in Paid <=> create[c].pc \in Paid,
           to.pc \in Paid => to.user = create[c].user,
           UNCHANGED <<fomos, charged, abandoned, rewards>>,
           NEW u \in Users, Books(u)
    PROVE  Books(u)'
<1>1. create'[c] = to /\ \A d \in Creates \ {c} : create'[d] = create[d]
  BY DEF IInv, CallsTyped
<1>2. PaidBy(u)' = PaidBy(u)
  BY <1>1 DEF PaidBy
<1>3. CreatedBy(u)' = CreatedBy(u)
  BY DEF CreatedBy
<1> QED BY <1>2, <1>3, BooksStay

\* A creation is charged, and paid for from then on.
LEMMA ChargeKept ==
    ASSUME FInv, NEW c \in Creates, LedgerCharges(c), NEW u \in Users
    PROVE  Books(u)'
<1> DEFINE v == create[c].user
<1>1. /\ create' = [create EXCEPT ![c].pc = "paid"] /\ create[c].pc = "pay"
      /\ charged' = [charged EXCEPT ![v] = @ + 1]
      /\ UNCHANGED <<fomos, abandoned, rewards>>
  BY DEF LedgerCharges, launcher
<1>2. /\ create'[c].pc = "paid" /\ create'[c].user = create[c].user
      /\ \A d \in Creates \ {c} : create'[d] = create[d]
  BY <1>1 DEF FInv, IInv, CallsTyped, CreateCall
<1>3. "paid" \in Paid /\ "pay" \notin Paid
  BY DEF Paid
<1>4. Books(u) /\ charged \in [Users -> Nat] /\ abandoned \in [Users -> Nat]
  BY DEF FInv, TypeOK
<1>5. CreatedBy(u)' = CreatedBy(u)
  BY <1>1 DEF CreatedBy
<1>6. CASE v = u
  <2>1. PaidBy(u)' = PaidBy(u) \cup {c} /\ c \notin PaidBy(u)
    BY <1>1, <1>2, <1>3, <1>6 DEF PaidBy
  <2>2. /\ IsFiniteSet(PaidBy(u)')
        /\ Cardinality(PaidBy(u)') = Cardinality(PaidBy(u)) + 1
    BY <1>4, <2>1, FS_AddElement DEF Books
  <2>3. charged'[u] = charged[u] + 1
    BY <1>1, <1>4, <1>6
  <2>4. Cardinality(CreatedBy(u)) \in Nat /\ Cardinality(PaidBy(u)) \in Nat
    BY <1>4, FS_CardinalityType DEF Books
  <2> HIDE DEF v
  <2> QED BY <1>1, <1>4, <1>5, <2>2, <2>3, <2>4 DEF Books
<1>7. CASE v # u
  <2>1. PaidBy(u)' = PaidBy(u)
    BY <1>1, <1>2, <1>3, <1>7 DEF PaidBy
  <2>2. charged'[u] = charged[u]
    BY <1>1, <1>4, <1>7
  <2> QED BY <1>1, <1>4, <1>5, <2>1, <2>2, BooksStay
<1> QED BY <1>6, <1>7

\* A paid creation ends: with a project, or abandoned.
LEMMA EndKept ==
    ASSUME FInv, NEW c \in Creates, FomoRegistered(c) \/ CreateFails(c), NEW u \in Users
    PROVE  Books(u)'
<1> DEFINE v == create[c].user
           i == create[c].idx
<1>1. create' = [create EXCEPT ![c] = IdleCreate] /\ create[c].pc \in Indexed
  BY DEF FomoRegistered, CreateFails, Indexed, Paid
<1>2. /\ create'[c].pc = "idle"
      /\ \A d \in Creates \ {c} : create'[d] = create[d]
  BY <1>1 DEF FInv, IInv, CallsTyped, IdleCreate, NewCreate
<1>3. "idle" \notin Paid /\ create[c].pc \in Paid
  BY <1>1 DEF Indexed, Paid
<1>4. /\ Books(u) /\ charged \in [Users -> Nat] /\ abandoned \in [Users -> Nat]
      /\ rewards \in [Users -> Nat]
  BY DEF FInv, TypeOK
<1>5. charged' = charged
  BY DEF FomoRegistered, CreateFails, external
<1>6. PaidBy(u)' = IF v = u THEN PaidBy(u) \ {c} ELSE PaidBy(u)
  BY <1>2, <1>3 DEF PaidBy
<1>7. v = u => /\ IsFiniteSet(PaidBy(u)')
               /\ Cardinality(PaidBy(u)') = Cardinality(PaidBy(u)) - 1
  <2>1. c \in PaidBy(u) <=> v = u
    BY <1>3 DEF PaidBy
  <2> QED BY <1>4, <1>6, <2>1, FS_RemoveElement DEF Books
<1>8. Cardinality(CreatedBy(u)) \in Nat /\ Cardinality(PaidBy(u)) \in Nat
  BY <1>4, FS_CardinalityType DEF Books
<1>9. CASE FomoRegistered(c)
  <2>1. /\ i \notin DOMAIN fomos
        /\ DOMAIN fomos' = DOMAIN fomos \cup {i}
        /\ fomos'[i].user = v
        /\ \A j \in DOMAIN fomos : j # i => fomos'[j] = fomos[j]
        /\ rewards' = [rewards EXCEPT ![v] = @ + 1]
        /\ abandoned' = abandoned
    BY <1>1, <1>9 DEF FInv, IInv, IndexOwned, FomoRegistered, Put, external
  <2> HIDE DEF v, i
  <2>2. CreatedBy(u)' = IF v = u THEN CreatedBy(u) \cup {i} ELSE CreatedBy(u)
    BY <2>1 DEF CreatedBy
  <2>3. i \notin CreatedBy(u)
    BY <2>1 DEF CreatedBy
  <2>4. CASE v = u
    <3>1. /\ IsFiniteSet(CreatedBy(u)')
          /\ Cardinality(CreatedBy(u)') = Cardinality(CreatedBy(u)) + 1
      BY <1>4, <2>2, <2>3, <2>4, FS_AddElement DEF Books
    <3>2. rewards'[u] = rewards[u] + 1
      BY <1>4, <2>1, <2>4
    <3> QED BY <1>4, <1>5, <1>7, <1>8, <2>1, <2>4, <3>1, <3>2 DEF Books
  <2>5. CASE v # u
    BY <1>4, <1>5, <1>6, <2>1, <2>2, <2>5, BooksStay
  <2> QED BY <2>4, <2>5
<1>10. CASE CreateFails(c)
  <2>1. /\ UNCHANGED <<fomos, rewards>>
        /\ abandoned' = [abandoned EXCEPT ![v] = @ + 1]
    BY <1>10 DEF CreateFails, launcher
  <2>2. CreatedBy(u)' = CreatedBy(u)
    BY <2>1 DEF CreatedBy
  <2> HIDE DEF v
  <2>3. CASE v = u
    <3>1. abandoned'[u] = abandoned[u] + 1
      BY <1>4, <2>1, <2>3
    <3> QED BY <1>4, <1>5, <1>7, <1>8, <2>1, <2>2, <2>3, <3>1 DEF Books
  <2>4. CASE v # u
    BY <1>4, <1>5, <1>6, <2>1, <2>2, <2>4, BooksStay
  <2> QED BY <2>3, <2>4
<1> QED BY <1>9, <1>10

LEMMA FeesStep ==
    ASSUME FInv, [Next]_vars
    PROVE  FInv'
<1>1. IInv' /\ TypeOK'
  BY InvStep, TypesStep DEF FInv
<1> SUFFICES ASSUME NEW u \in Users PROVE Books(u)'
  BY <1>1 DEF FInv
<1>2. IInv /\ Books(u)
  BY DEF FInv
<1>3. ASSUME NEW c \in Creates, LedgerCharges(c) \/ FomoRegistered(c) \/ CreateFails(c)
      PROVE  Books(u)'
  BY <1>3, ChargeKept, EndKept
<1>4. ASSUME NEW c \in Creates,
             \/ QuoteAccepted(c) \/ TakeIndex(c) \/ TokenCreated(c) \/ RouterApproved(c)
             \/ PoolCreated(c) \/ CanisterCreated(c) \/ ImageUploaded(c) \/ StatusRead(c)
             \/ CodeInstalled(c)
      PROVE  Books(u)'
  <2>1. UNCHANGED <<fomos, charged, abandoned, rewards>>
    BY <1>4 DEF QuoteAccepted, TakeIndex, TokenCreated, RouterApproved, PoolCreated,
                CanisterCreated, ImageUploaded, StatusRead, CodeInstalled, launcher, external
  <2> DEFINE to == create'[c]
  <2>2. /\ create' = [create EXCEPT ![c] = to]
        /\ to.user = create[c].user
        /\ to.pc \in Paid <=> create[c].pc \in Paid
    <3> create \in [Creates -> CreateCall]
      BY <1>2 DEF IInv, CallsTyped
    <3>1. CASE QuoteAccepted(c)
      BY <3>1 DEF QuoteAccepted, CreateCall, Paid
    <3>2. CASE TakeIndex(c)
      <4>1. create' = [[create EXCEPT ![c].pc = "token"] EXCEPT ![c].idx = count + 1]
        BY <3>2 DEF TakeIndex
      <4> QED BY <3>2, <4>1 DEF TakeIndex, CreateCall, Paid
    <3>3. CASE TokenCreated(c)
      <4>1. create' = [[create EXCEPT ![c].pc = "approve"] EXCEPT ![c].token = made.token + 1]
        BY <3>3 DEF TokenCreated
      <4> QED BY <3>3, <4>1, ZenonT(40) DEF TokenCreated, CreateCall, Paid
    <3>4. CASE PoolCreated(c)
      <4>1. create' = [[create EXCEPT ![c].pc = "canister"] EXCEPT ![c].pool = made.pool + 1]
        BY <3>4 DEF PoolCreated
      <4> QED BY <3>4, <4>1, ZenonT(40) DEF PoolCreated, CreateCall, Paid
    <3>5. CASE CanisterCreated(c)
      <4>1. create' = [[create EXCEPT ![c].pc = "upload"]
                          EXCEPT ![c].canister = made.canister + 1]
        BY <3>5 DEF CanisterCreated
      <4> QED BY <3>5, <4>1, ZenonT(40) DEF CanisterCreated, CreateCall, Paid
    <3>6. CASE RouterApproved(c) \/ ImageUploaded(c) \/ StatusRead(c) \/ CodeInstalled(c)
      BY <3>6 DEF RouterApproved, ImageUploaded, StatusRead, CodeInstalled, CreateCall, Paid
    <3> QED BY <1>4, <3>1, <3>2, <3>3, <3>4, <3>5, <3>6
  <2> HIDE DEF to
  <2> QED BY <1>2, <2>1, <2>2, PaidStays
<1>5. ASSUME NEW c \in Creates, PaymentRefused(c) \/ \E v \in Users : CreateFomo(c, v)
      PROVE  Books(u)'
  <2>1. UNCHANGED <<fomos, charged, abandoned, rewards>> /\ create[c].pc \notin Paid
    BY <1>5 DEF PaymentRefused, CreateFomo, launcher, external, Paid
  <2>2. \E v : \E pc \in {"idle", "quote"} : create' = [create EXCEPT ![c] = NewCreate(pc, v)]
    BY <1>5 DEF PaymentRefused, CreateFomo, IdleCreate
  <2>3. PICK v : \E pc \in {"idle", "quote"} : create' = [create EXCEPT ![c] = NewCreate(pc, v)]
    BY <2>2
  <2>4. PICK pc \in {"idle", "quote"} : create' = [create EXCEPT ![c] = NewCreate(pc, v)]
    BY <2>3
  <2>5. NewCreate(pc, v).pc \notin Paid
    BY DEF NewCreate, Paid
  <2> QED BY <1>2, <2>1, <2>4, <2>5, PaidStays
<1>6. ASSUME \/ \E v \in Users : Register(v)
             \/ Count \/ Upgrade \/ UNCHANGED vars
      PROVE  Books(u)'
  <2>1. UNCHANGED <<fomos, create, charged, abandoned, rewards>>
    BY <1>6 DEF Register, Count, Upgrade, Restore, vars, launcher, external
  <2>2. CreatedBy(u)' = CreatedBy(u) /\ PaidBy(u)' = PaidBy(u)
    BY <2>1 DEF CreatedBy, PaidBy
  <2> QED BY <1>2, <2>1, <2>2, BooksStay
<1> QED
  BY <1>3, <1>4, <1>5, <1>6 DEF Next, CreateProgress

-----------------------------------------------------------------------------
(* The theorems *)

\* An index is handed out once, to a project, a call in flight or another caller
\* of count, and never ahead of the counter: for every interleaving of any
\* number of creations (count, create_fomo, post_upgrade).
THEOREM IndexAlwaysOwned == Spec => []IndexOwned
<1>1. IInv => IndexOwned
  BY DEF IInv
<1> QED
  BY <1>1, InitOwned, InvStep, PTL DEF Spec

\* No creation and no upgrade changes or removes a registered project.
THEOREM ProjectsAreKept == Spec => ProjectsKept
<1>1. IInv /\ [Next]_vars => [Kept]_vars
  BY InvStep
<1> QED
  BY <1>1, InitOwned, InvStep, PTL DEF Spec, ProjectsKept, Kept

\* Every registered project has a token, a pool and a canister of its own, and its canister
\* reports under the project's index, for any number of creations in flight
\* (create_fomo, the metadata given to install_code).
THEOREM ResourcesAlwaysOwned == Spec => []ResourcesOwned
<1>1. RInv => ResourcesOwned
  BY DEF RInv, Owned, CodeOwned, ResourcesOwned
<1> QED
  BY <1>1, InitResources, ResourcesStep, PTL DEF Spec

\* Every fee the ledger charged paid for a registered project, for one under way, or for
\* one that a failing call ended, and every registered project was rewarded once
\* (transfer_from, init_points and add_points in create_fomo).
THEOREM FeesAlwaysAccounted == Spec => []FeesAccounted
<1>1. FInv => FeesAccounted
  BY DEF FInv, Books, PaidBy, FeesAccounted
<1> QED
  BY <1>1, InitBooks, FeesStep, PTL DEF Spec

=============================================================================
