------------------------ MODULE LauncherPointsProofs ------------------------
(***************************************************************************)
(* Theorems about LauncherPoints for every set of users, any number of     *)
(* calls in flight and all amounts, prices and bounds: the types, the      *)
(* refinement of the accounts of PointsAccount, and that what is charged   *)
(* is what is credited and what the history accounts for.                  *)
(***************************************************************************)
EXTENDS LauncherPoints, FiniteSums, TLAPS

(* The inductive invariant: the types, and what the calls in flight rely on. *)
IInv == TypeOK /\ CallsConsistent

ProfilesOK ==
    /\ DOMAIN profile \subseteq Users
    /\ \A u \in DOMAIN profile : profile[u] \in Profile

HistoryOK ==
    /\ point_count \in Nat
    /\ DOMAIN history \subseteq 1..point_count
    /\ \A i \in DOMAIN history : history[i] \in PointHistory

\* The parts of CallsConsistent.
SlotsOK ==
    /\ \A c \in Topups : topup[c].pc # "idle" => topup[c].user \in DOMAIN profile
    /\ \A e \in Edits :
           /\ edit[e].pc # "idle" => edit[e].user \in Users
           /\ edit[e].pc = "spending" => edit[e].user \in DOMAIN profile
           /\ edit[e].pc = "spent" => edit[e].paid
           /\ edit[e].paid => /\ edit[e].pc \in {"spent", "upload"}
                              /\ edit[e].user \in DOMAIN profile
                              /\ profile[edit[e].user].points # None

OpenedOK ==
    \A u \in DOMAIN profile :
        IF profile[u].points = None THEN profile[u].spent = 0
        ELSE profile[u].points + profile[u].spent >= InitialPoints

LauncherInv == ProfilesOK /\ HistoryOK /\ OpenedOK

\* What every step of the launcher keeps: entries, registrations, openings.
HistoryGrows ==
    \A i \in DOMAIN history : i \in DOMAIN history' /\ history'[i] = history[i]

ProfilesGrow ==
    /\ DOMAIN profile \subseteq DOMAIN profile'
    /\ \A u \in DOMAIN profile : profile[u].points # None => profile'[u].points # None

LauncherStep == LauncherInv' /\ HistoryGrows /\ ProfilesGrow

-----------------------------------------------------------------------------
(* The operations on one profile and on the history keep the types. *)

LEMMA InitialConstants ==
    /\ MinTopup \in Nat /\ InitialPoints \in Nat /\ CreateReward \in Nat
    /\ LedgerFee \in Nat
    /\ \A busi \in Businesses : SpendPrice(busi) \in Nat
  BY DEF MinTopup, InitialPoints, CreateReward, LedgerFee, SpendPrice

LEMMA PutType ==
    ASSUME ProfilesOK, NEW u \in Users, NEW p \in Profile, profile' = Put(profile, u, p)
    PROVE  /\ ProfilesOK'
           /\ DOMAIN profile' = DOMAIN profile \cup {u}
           /\ profile'[u] = p
           /\ \A v \in DOMAIN profile \ {u} : profile'[v] = profile[v]
  BY DEF ProfilesOK, Put

LEMMA InitPointsType ==
    ASSUME NEW p \in Profile
    PROVE  /\ InitPoints(p) \in Profile
           /\ InitPoints(p).points \in Nat
           /\ InitPoints(p).spent = p.spent
           /\ p.points = None => InitPoints(p).points = InitialPoints + p.pre
           /\ p.points # None => InitPoints(p).points = p.points
  BY ConstantsAssumption, InitialConstants DEF InitPoints, Profile

LEMMA AddPointsType ==
    ASSUME NEW p \in Profile, NEW n \in Nat
    PROVE  /\ AddPoints(p, n) \in Profile
           /\ AddPoints(p, n).spent = p.spent
           /\ p.points = None => /\ AddPoints(p, n).points = None
                                 /\ AddPoints(p, n).pre = p.pre + n
           /\ p.points # None => AddPoints(p, n).points = p.points + n
  BY ConstantsAssumption DEF AddPoints, Profile

LEMMA DeductPointsType ==
    ASSUME NEW p \in Profile, NEW n \in Nat, p.points # None, p.points >= n
    PROVE  /\ DeductPoints(p, n) \in Profile
           /\ DeductPoints(p, n).points = p.points - n
           /\ DeductPoints(p, n).points # None
           /\ DeductPoints(p, n).spent = p.spent + n
<1>1. p.points \in Nat /\ p.points - n \in Nat /\ p.spent + n \in Nat
  BY DEF Profile
<1>2. DeductPoints(p, n) = [points |-> p.points - n, pre |-> p.pre,
                            spent |-> p.spent + n, changes |-> p.changes]
  <2>1. DeductPoints(p, n) = [[p EXCEPT !.points = p.points - n] EXCEPT !.spent = p.spent + n]
    BY DEF DeductPoints
  <2>2. p = [points |-> p.points, pre |-> p.pre, spent |-> p.spent, changes |-> p.changes]
    BY DEF Profile
  <2> QED
    BY <2>1, <2>2
<1> QED
  BY <1>1, <1>2, ConstantsAssumption DEF Profile

LEMMA EditedType ==
    ASSUME NEW p \in Profile, NEW kind
    PROVE  /\ Edited(p, kind) \in Profile
           /\ Edited(p, kind).points = p.points
           /\ Edited(p, kind).pre = p.pre
           /\ p.points = None => Edited(p, kind).spent = 0
           /\ p.points # None => Edited(p, kind).spent = p.spent
<1> DEFINE s == IF p.points = None THEN 0 ELSE p.spent
           n == IF kind = "empty" THEN p.changes ELSE p.changes + 1
<1>1. s \in Nat /\ n \in Nat
  BY DEF Profile
<1>2. Edited(p, kind) = [points |-> p.points, pre |-> p.pre, spent |-> s, changes |-> n]
  <2>1. Edited(p, kind) = [[p EXCEPT !.spent = s] EXCEPT !.changes = n]
    BY DEF Edited
  <2>2. p = [points |-> p.points, pre |-> p.pre, spent |-> p.spent, changes |-> p.changes]
    BY DEF Profile
  <2> HIDE DEF s, n
  <2> QED
    BY <2>1, <2>2
<1> HIDE DEF s, n
<1>3. /\ Edited(p, kind) \in Profile
      /\ Edited(p, kind).points = p.points
      /\ Edited(p, kind).pre = p.pre
      /\ Edited(p, kind).spent = s
  BY <1>1, <1>2 DEF Profile
<1> QED
  BY <1>3 DEF s

LEMMA NewProfileType == NewProfile \in Profile /\ NewProfile.points = None
                        /\ NewProfile.spent = 0 /\ NewProfile.pre = 0
  BY DEF NewProfile, Profile

LEMMA RecordType ==
    ASSUME HistoryOK, NEW e \in PointHistory, RecordHistory(e)
    PROVE  HistoryOK' /\ HistoryGrows
  BY DEF HistoryOK, HistoryGrows, RecordHistory, Put

LEMMA Record2Type ==
    ASSUME HistoryOK, NEW e1 \in PointHistory, NEW e2 \in PointHistory,
           RecordHistory2(e1, e2)
    PROVE  HistoryOK' /\ HistoryGrows
  BY DEF HistoryOK, HistoryGrows, RecordHistory2, Put

-----------------------------------------------------------------------------
(* The segments that write the profiles *)

LEMMA EntryType ==
    ASSUME NEW u \in Users, NEW op \in {"INIT", "ADD", "DEDUCT"},
           NEW busi \in Businesses, NEW n \in Nat
    PROVE  HistoryEntry(u, op, busi, n) \in PointHistory
  BY DEF HistoryEntry, PointHistory

LEMMA LauncherUnchanged ==
    ASSUME LauncherInv, UNCHANGED launcher
    PROVE  LauncherStep
  BY DEF LauncherInv, LauncherStep, ProfilesOK, HistoryOK, OpenedOK, HistoryGrows,
         ProfilesGrow, launcher

LEMMA FinishEditStep ==
    ASSUME LauncherInv, NEW u \in Users, NEW kind, NEW free, FinishEdit(u, kind, free),
           freeEdits \in [Users -> Nat]
    PROVE  /\ LauncherStep
           /\ u \in DOMAIN profile'
           /\ freeEdits' \in [Users -> Nat]
           /\ lostEdits' = lostEdits
<1> DEFINE p == IF u \in DOMAIN profile THEN Edited(profile[u], kind) ELSE NewProfile
<1>1. /\ p \in Profile
      /\ u \notin DOMAIN profile => p.points = None
      /\ u \in DOMAIN profile => p.points = profile[u].points
      /\ p.points = None => p.spent = 0
      /\ p.points # None => u \in DOMAIN profile /\ p.spent = profile[u].spent
  BY NewProfileType, EditedType DEF LauncherInv, ProfilesOK
<1> HIDE DEF p
<1>2. /\ profile' = Put(profile, u, p)
      /\ UNCHANGED <<history, point_count, lostEdits>>
  BY DEF FinishEdit, p
<1>3. /\ ProfilesOK'
      /\ DOMAIN profile' = DOMAIN profile \cup {u}
      /\ profile'[u] = p
      /\ \A v \in DOMAIN profile \ {u} : profile'[v] = profile[v]
  BY <1>1, <1>2, PutType DEF LauncherInv
<1>4. HistoryOK' /\ HistoryGrows
  BY <1>2 DEF LauncherInv, HistoryOK, HistoryGrows
<1>5. OpenedOK' /\ ProfilesGrow
  BY <1>1, <1>3 DEF LauncherInv, OpenedOK, ProfilesGrow
<1>6. freeEdits' \in [Users -> Nat]
  BY DEF FinishEdit
<1> QED
  BY <1>2, <1>3, <1>4, <1>5, <1>6 DEF LauncherStep, LauncherInv

LEMMA DeductStep ==
    ASSUME LauncherInv, NEW u \in Users, NEW busi \in Businesses,
           CanDeduct(u, SpendPrice(busi)), Deduct(u, busi)
    PROVE  /\ LauncherStep
           /\ DOMAIN profile' = DOMAIN profile
           /\ profile'[u].points # None
<1> DEFINE n == SpendPrice(busi)
           p == DeductPoints(profile[u], n)
<1>1. n \in Nat /\ u \in DOMAIN profile /\ profile[u] \in Profile
      /\ profile[u].points # None /\ profile[u].points >= n
  BY InitialConstants DEF CanDeduct, LauncherInv, ProfilesOK
<1>2. profile' = Put(profile, u, p) /\ RecordHistory(HistoryEntry(u, "DEDUCT", busi, n))
  BY DEF Deduct
<1> HIDE DEF n
<1>3. /\ p \in Profile
      /\ p.points = profile[u].points - n
      /\ p.points # None
      /\ p.spent = profile[u].spent + n
  BY <1>1, DeductPointsType
<1> HIDE DEF p
<1>4. /\ ProfilesOK'
      /\ DOMAIN profile' = DOMAIN profile
      /\ profile'[u] = p
      /\ \A v \in DOMAIN profile \ {u} : profile'[v] = profile[v]
  BY <1>1, <1>2, <1>3, PutType DEF LauncherInv
<1>5. HistoryOK' /\ HistoryGrows
  BY <1>1, <1>2, EntryType, RecordType DEF LauncherInv
<1>6. p.points + p.spent = profile[u].points + profile[u].spent
  BY <1>1, <1>3 DEF Profile
<1>7. OpenedOK' /\ ProfilesGrow
  BY <1>1, <1>3, <1>4, <1>6 DEF LauncherInv, OpenedOK, ProfilesGrow
<1> QED
  BY <1>3, <1>4, <1>5, <1>7 DEF LauncherStep, LauncherInv

LEMMA InitAndAddStep ==
    ASSUME LauncherInv, NEW u \in Users, NEW n \in Nat, NEW busi \in Businesses,
           u \in DOMAIN profile, InitAndAdd(u, n, busi)
    PROVE  /\ LauncherStep
           /\ DOMAIN profile' = DOMAIN profile
<1> DEFINE q == InitPoints(profile[u])
           p == AddPoints(q, n)
<1>1. profile[u] \in Profile
  BY DEF LauncherInv, ProfilesOK
<1>2. /\ q \in Profile
      /\ q.points \in Nat /\ q.points # None
      /\ q.spent = profile[u].spent
      /\ profile[u].points = None => q.points = InitialPoints + profile[u].pre
      /\ profile[u].points # None => q.points = profile[u].points
  BY <1>1, InitPointsType, ConstantsAssumption
<1>3. profile' = Put(profile, u, p)
      /\ RecordHistory2(HistoryEntry(u, "INIT", "INIT", InitialPoints),
                        HistoryEntry(u, "ADD", busi, n))
  BY DEF InitAndAdd
<1> HIDE DEF q
<1>4. /\ p \in Profile
      /\ p.points = q.points + n
      /\ p.spent = profile[u].spent
  BY <1>2, AddPointsType
<1> HIDE DEF p
<1>5. /\ ProfilesOK'
      /\ DOMAIN profile' = DOMAIN profile
      /\ profile'[u] = p
      /\ \A v \in DOMAIN profile \ {u} : profile'[v] = profile[v]
  BY <1>3, <1>4, PutType DEF LauncherInv
<1>6. HistoryOK' /\ HistoryGrows
  <2>1. HistoryEntry(u, "INIT", "INIT", InitialPoints) \in PointHistory
    BY EntryType, InitialConstants DEF Businesses
  <2>2. HistoryEntry(u, "ADD", busi, n) \in PointHistory
    BY EntryType
  <2> QED
    BY <1>3, <2>1, <2>2, Record2Type DEF LauncherInv
<1>7. p.points # None /\ p.points + p.spent >= InitialPoints
  <2>1. profile[u].pre \in Nat /\ profile[u].spent \in Nat
    BY <1>1 DEF Profile
  <2>2. p.points \in Nat
    BY <1>2, <1>4
  <2>3. CASE profile[u].points = None
    BY <1>2, <1>4, <2>1, <2>2, <2>3, InitialConstants, ConstantsAssumption
  <2>4. CASE profile[u].points # None
    <3>1. profile[u].points + profile[u].spent >= InitialPoints
      BY <2>4 DEF LauncherInv, OpenedOK
    <3>2. profile[u].points \in Nat
      BY <1>1, <2>4 DEF Profile
    <3> QED
      BY <1>2, <1>4, <2>1, <2>2, <2>4, <3>1, <3>2, InitialConstants, ConstantsAssumption
  <2> QED
    BY <2>3, <2>4
<1>8. OpenedOK' /\ ProfilesGrow
  BY <1>5, <1>7 DEF LauncherInv, OpenedOK, ProfilesGrow
<1> QED
  BY <1>5, <1>6, <1>8 DEF LauncherStep, LauncherInv

LEMMA AirdropStep ==
    ASSUME LauncherInv, NEW u \in Users, NEW n \in AirdropAmounts, AirdropPoints(u, n)
    PROVE  LauncherStep /\ DOMAIN profile' = DOMAIN profile
<1> DEFINE p == AddPoints(profile[u], n)
<1>1. /\ u \in DOMAIN profile
      /\ profile[u] \in Profile
      /\ n \in Nat
      /\ profile' = Put(profile, u, p)
      /\ RecordHistory(HistoryEntry(u, "ADD", "AIRDROP", n))
  BY ConstantsAssumption DEF AirdropPoints, LauncherInv, ProfilesOK
<1>2. /\ p \in Profile
      /\ p.spent = profile[u].spent
      /\ profile[u].points = None => p.points = None
      /\ profile[u].points # None => p.points = profile[u].points + n
  BY <1>1, AddPointsType
<1> HIDE DEF p
<1>3. /\ ProfilesOK'
      /\ DOMAIN profile' = DOMAIN profile
      /\ profile'[u] = p
      /\ \A v \in DOMAIN profile \ {u} : profile'[v] = profile[v]
  BY <1>1, <1>2, PutType DEF LauncherInv
<1>4. HistoryOK' /\ HistoryGrows
  <2>1. HistoryEntry(u, "ADD", "AIRDROP", n) \in PointHistory
    BY <1>1, EntryType DEF Businesses
  <2> QED
    BY <1>1, <2>1, RecordType DEF LauncherInv
<1>5. profile[u].points # None =>
          p.points # None /\ p.points + p.spent >= InitialPoints
  <2> SUFFICES ASSUME profile[u].points # None
               PROVE  p.points # None /\ p.points + p.spent >= InitialPoints
    OBVIOUS
  <2>1. profile[u].points \in Nat /\ profile[u].spent \in Nat
    BY <1>1 DEF Profile
  <2>2. profile[u].points + profile[u].spent >= InitialPoints
    BY <1>1 DEF LauncherInv, OpenedOK
  <2> QED
    BY <1>1, <1>2, <2>1, <2>2, InitialConstants, ConstantsAssumption
<1>6. OpenedOK' /\ ProfilesGrow
  BY <1>1, <1>2, <1>3, <1>5 DEF LauncherInv, OpenedOK, ProfilesGrow
<1> QED
  BY <1>3, <1>4, <1>6 DEF LauncherStep, LauncherInv

-----------------------------------------------------------------------------
(* The inductive invariant *)

CallsType ==
    /\ topup \in [Topups -> TopupCall]
    /\ edit \in [Edits -> EditCall]

LedgerType ==
    /\ balance \in [Users -> Nat]
    /\ allowance \in [Users -> Nat]
    /\ charges \in [Users -> Nat]

AuditType ==
    /\ freeEdits \in [Users -> Nat]
    /\ lostEdits \in [Users -> Nat]

BoundsType ==
    /\ requests \in 0..MaxRequests
    /\ upgrades \in 0..MaxUpgrades

LEMMA Parts == IInv <=> /\ LauncherInv /\ SlotsOK
                        /\ CallsType /\ LedgerType /\ AuditType /\ BoundsType
  BY DEF IInv, TypeOK, CallsConsistent, LauncherInv, ProfilesOK, HistoryOK, OpenedOK,
         SlotsOK, CallsType, LedgerType, AuditType, BoundsType

LEMMA PartsNext == IInv' <=> /\ LauncherInv' /\ SlotsOK'
                             /\ CallsType' /\ LedgerType' /\ AuditType' /\ BoundsType'
  BY DEF IInv, TypeOK, CallsConsistent, LauncherInv, ProfilesOK, HistoryOK, OpenedOK,
         SlotsOK, CallsType, LedgerType, AuditType, BoundsType

\* The calls in flight keep what they rely on when the profiles only grow.
LEMMA SlotsKept ==
    ASSUME SlotsOK, ProfilesGrow, UNCHANGED <<topup, edit>>
    PROVE  SlotsOK'
  BY DEF SlotsOK, ProfilesGrow

LEMMA RequestType == BoundsType /\ Request /\ UNCHANGED upgrades => BoundsType'
  BY ConstantsAssumption DEF BoundsType, Request

LEMMA FeeType ==
    ASSUME NEW amount \in Nat, NEW price \in Prices, NEW allowed \in Nat
    PROVE  ChargedFee(allowed, PlatformFee(amount, price)) \in Nat
<1>1. PlatformFee(amount, price) \in Nat
  BY ConstantsAssumption DEF PlatformFee
<1>2. /\ MaxFee(PlatformFee(amount, price)) \in Nat
      /\ MinFee(PlatformFee(amount, price)) \in Nat
  BY <1>1 DEF MaxFee, MinFee
<1> QED
  BY <1>1, <1>2 DEF ChargedFee

LEMMA InvInit == Init => IInv
<1> SUFFICES ASSUME Init
             PROVE  IInv
  OBVIOUS
<1>1. LauncherInv
  BY DEF Init, LauncherInv, ProfilesOK, HistoryOK, OpenedOK
<1>2. SlotsOK /\ CallsType
  BY DEF Init, SlotsOK, CallsType, IdleTopup, IdleEdit, TopupCall, EditCall, EditKinds
<1>3. LedgerType /\ AuditType /\ BoundsType
  BY ConstantsAssumption DEF Init, LedgerType, AuditType, BoundsType
<1> QED
  BY <1>1, <1>2, <1>3, Parts

\* A step of one top-up call that leaves the launcher's maps alone.
LEMMA TopupLocalStep ==
    ASSUME IInv, NEW c \in Topups, NEW from, NEW to \in TopupCall, TopupStep(c, from, to),
           to.pc # "idle" => from # "idle" /\ to.user = topup[c].user
    PROVE  IInv' /\ LauncherStep
<1> USE Parts, PartsNext
<1>1. LauncherStep
  BY LauncherUnchanged DEF TopupStep
<1>2. CallsType' /\ LedgerType' /\ AuditType' /\ BoundsType'
  BY DEF TopupStep, CallsType, LedgerType, AuditType, BoundsType, ledger, audit
<1>3. SlotsOK'
  BY <1>1 DEF TopupStep, SlotsOK, CallsType, launcher
<1> QED
  BY <1>1, <1>2, <1>3 DEF LauncherStep

LEMMA TopupCallType ==
    ASSUME CallsType, NEW c \in Topups
    PROVE  /\ topup[c] \in TopupCall
           /\ IdleTopup \in TopupCall
  BY DEF CallsType, TopupCall, IdleTopup

\* Every step of a top-up call in flight.
LEMMA TopupProgressStep ==
    ASSUME IInv, NEW c \in Topups, TopupProgress(c)
    PROVE  IInv' /\ LauncherStep
<1> USE Parts, PartsNext
<1>t. topup[c] \in TopupCall /\ IdleTopup \in TopupCall /\ IdleTopup.pc = "idle"
  BY TopupCallType DEF IdleTopup
<1>u. topup[c].pc # "idle" => topup[c].user \in DOMAIN profile /\ topup[c].user \in Users
  BY DEF SlotsOK, LauncherInv, ProfilesOK
<1>1. CASE ReadBalance(c)
  <2> DEFINE to == [topup[c] EXCEPT !.pc = "allowance", !.balance = balance[topup[c].user]]
  <2>1. topup[c].pc = "balance" /\ TopupStep(c, "balance", to)
    BY <1>1 DEF ReadBalance, TopupStep
  <2>2. balance[topup[c].user] \in Nat
    BY <1>u, <2>1 DEF LedgerType
  <2>3. to \in TopupCall /\ to.user = topup[c].user
    BY <1>t, <2>2 DEF TopupCall
  <2> HIDE DEF to
  <2> QED
    BY <2>1, <2>3, TopupLocalStep
<1>2. CASE ReadAllowance(c)
  <2> DEFINE to == [topup[c] EXCEPT !.pc = "price", !.allowance = allowance[topup[c].user]]
  <2>1. topup[c].pc = "allowance" /\ TopupStep(c, "allowance", to)
    BY <1>2 DEF ReadAllowance, TopupStep
  <2>2. allowance[topup[c].user] \in Nat
    BY <1>u, <2>1 DEF LedgerType
  <2>3. to \in TopupCall /\ to.user = topup[c].user
    BY <1>t, <2>2 DEF TopupCall
  <2> HIDE DEF to
  <2> QED
    BY <2>1, <2>3, TopupLocalStep
<1>3. ASSUME NEW price \in Prices, QuoteAccepted(c, price)
      PROVE  IInv' /\ LauncherStep
  <2> DEFINE charged == ChargedFee(topup[c].allowance, PlatformFee(topup[c].amount, price))
             to == [topup[c] EXCEPT !.pc = "transfer", !.fee = charged]
  <2>1. TopupStep(c, "price", to)
    BY <1>3 DEF QuoteAccepted
  <2>2. charged \in Nat
    <3>1. topup[c].amount \in Nat /\ topup[c].allowance \in Nat
      BY <1>t DEF TopupCall
    <3> QED
      BY <3>1, FeeType
  <2> HIDE DEF charged
  <2>3. to \in TopupCall /\ to.user = topup[c].user
    BY <1>t, <2>2 DEF TopupCall
  <2> HIDE DEF to
  <2> QED
    BY <2>1, <2>3, TopupLocalStep
<1>4. ASSUME NEW price \in Prices, QuoteRefused(c, price)
      PROVE  IInv' /\ LauncherStep
  BY <1>t, <1>4, TopupLocalStep DEF QuoteRefused
<1>5. CASE QuoteFails(c)
  BY <1>t, <1>5, TopupLocalStep DEF QuoteFails
<1>6. CASE LedgerRefuses(c)
  <2> DEFINE to == [topup[c] EXCEPT !.pc = "refused"]
  <2>1. TopupStep(c, "transfer", to)
    BY <1>6 DEF LedgerRefuses
  <2>2. to \in TopupCall /\ to.user = topup[c].user
    BY <1>t DEF TopupCall
  <2> HIDE DEF to
  <2> QED
    BY <2>1, <2>2, TopupLocalStep
<1>7. CASE TopupRefused(c)
  BY <1>t, <1>7, TopupLocalStep DEF TopupRefused
<1>8. CASE LedgerCharges(c)
  <2> DEFINE u == topup[c].user
             total == topup[c].fee + LedgerFee
  <2>1. topup[c].pc = "transfer" /\ u \in DOMAIN profile /\ u \in Users /\ total \in Nat
    BY <1>t, <1>u, <1>8, InitialConstants DEF LedgerCharges, TopupCall
  <2>2. LauncherStep
    BY <1>8, LauncherUnchanged DEF LedgerCharges
  <2>3. LedgerType'
    <3> HIDE DEF total
    <3>1. /\ balance[u] >= total /\ allowance[u] >= total
          /\ balance' = [balance EXCEPT ![u] = @ - total]
          /\ allowance' = [allowance EXCEPT ![u] = @ - total]
          /\ charges' = [charges EXCEPT ![u] = @ + 1]
      BY <1>8 DEF LedgerCharges, total
    <3> HIDE DEF u
    <3> QED
      BY <2>1, <3>1 DEF LedgerType
  <2>4. CallsType'
    <3>1. [topup[c] EXCEPT !.pc = "charged"] \in TopupCall
      BY <1>t DEF TopupCall
    <3>2. topup' = [topup EXCEPT ![c] = [topup[c] EXCEPT !.pc = "charged"]] /\ edit' = edit
      BY <1>8 DEF LedgerCharges, CallsType
    <3> QED
      BY <3>1, <3>2 DEF CallsType
  <2>5. SlotsOK'
    <3>1. /\ edit' = edit /\ profile' = profile
          /\ \A d \in Topups \ {c} : topup'[d] = topup[d]
          /\ topup'[c].user = u
      BY <1>t, <1>8 DEF LedgerCharges, CallsType, launcher, TopupCall
    <3> QED
      BY <2>1, <3>1 DEF SlotsOK
  <2>6. AuditType' /\ BoundsType'
    BY <1>8 DEF LedgerCharges, AuditType, BoundsType, audit
  <2> QED
    BY <2>2, <2>3, <2>4, <2>5, <2>6 DEF LauncherStep
<1>9. CASE TopupCredited(c)
  <2>1. /\ topup[c].user \in DOMAIN profile /\ topup[c].user \in Users
        /\ topup[c].amount \in Nat
    BY <1>t, <1>u, <1>9 DEF TopupCredited, TopupCall
  <2>2. LauncherStep
    BY <1>9, <2>1, InitAndAddStep DEF TopupCredited, Businesses
  <2>3. CallsType' /\ LedgerType' /\ AuditType' /\ BoundsType'
    BY <1>t, <1>9 DEF TopupCredited, CallsType, LedgerType, AuditType, BoundsType, ledger, audit
  <2>4. SlotsOK'
    BY <1>t, <1>9, <2>2 DEF TopupCredited, SlotsOK, CallsType, LauncherStep, ProfilesGrow
  <2> QED
    BY <2>2, <2>3, <2>4 DEF LauncherStep
<1> QED
  BY <1>1, <1>2, <1>3, <1>4, <1>5, <1>6, <1>7, <1>8, <1>9 DEF TopupProgress

LEMMA EditCallType ==
    ASSUME CallsType, NEW e \in Edits
    PROVE  /\ edit[e] \in EditCall
           /\ IdleEdit \in EditCall
           /\ IdleEdit.pc = "idle" /\ ~IdleEdit.paid
  BY DEF CallsType, EditCall, IdleEdit, EditKinds

\* Every step of an edit in flight.
LEMMA EditProgressStep ==
    ASSUME IInv, NEW e \in Edits, EditProgress(e)
    PROVE  IInv' /\ LauncherStep
<1> USE Parts, PartsNext
<1>t. /\ edit[e] \in EditCall /\ IdleEdit \in EditCall
      /\ IdleEdit.pc = "idle" /\ ~IdleEdit.paid
  BY EditCallType
<1>u. /\ edit[e].pc # "idle" => edit[e].user \in Users
      /\ edit[e].pc = "spending" => edit[e].user \in DOMAIN profile
      /\ edit[e].paid => /\ edit[e].pc \in {"spent", "upload"}
                         /\ edit[e].user \in DOMAIN profile
                         /\ profile[edit[e].user].points # None
      /\ edit[e].pc = "spent" => edit[e].paid
  BY DEF SlotsOK
<1>1. CASE SpendForEdit(e)
  <2> DEFINE u == edit[e].user
  <2>1. edit[e].pc = "spending" /\ u \in Users /\ u \in DOMAIN profile
    BY <1>u, <1>1 DEF SpendForEdit
  <2>2. LauncherStep /\ DOMAIN profile' = DOMAIN profile /\ profile'[u].points # None
    BY <1>1, <2>1, DeductStep DEF SpendForEdit, Businesses
  <2>3. /\ edit'[e] = [[edit[e] EXCEPT !.pc = "spent"] EXCEPT !.paid = TRUE]
        /\ edit' = [edit EXCEPT ![e] = edit'[e]]
        /\ \A d \in Edits \ {e} : edit'[d] = edit[d]
    BY <1>1 DEF SpendForEdit, CallsType
  <2>4. /\ edit'[e] \in EditCall
        /\ edit'[e].pc = "spent" /\ edit'[e].paid /\ edit'[e].user = u
    BY <1>t, <2>3 DEF EditCall
  <2>5. CallsType' /\ LedgerType' /\ AuditType' /\ BoundsType'
    BY <1>1, <2>3, <2>4 DEF SpendForEdit, CallsType, LedgerType, AuditType, BoundsType,
                            ledger, audit
  <2>6. SlotsOK'
    <3>1. topup' = topup
      BY <1>1 DEF SpendForEdit
    <3> QED
      BY <2>1, <2>2, <2>3, <2>4, <3>1, ZenonT(40) DEF SlotsOK, LauncherStep, ProfilesGrow
  <2> QED
    BY <2>2, <2>5, <2>6 DEF LauncherStep
<1>2. CASE EditRefused(e)
  <2>1. LauncherStep
    BY <1>2, LauncherUnchanged DEF EditRefused
  <2>2. CallsType' /\ LedgerType' /\ AuditType' /\ BoundsType'
    BY <1>t, <1>2 DEF EditRefused, CallsType, LedgerType, AuditType, BoundsType, ledger, audit
  <2>3. SlotsOK'
    BY <1>t, <1>2 DEF EditRefused, SlotsOK, CallsType, launcher
  <2> QED
    BY <2>1, <2>2, <2>3 DEF LauncherStep
<1>3. ASSUME NEW free, edit[e].pc # "idle", FinishEdit(edit[e].user, edit[e].kind, free),
             edit' = [edit EXCEPT ![e] = IdleEdit],
             UNCHANGED <<topup, ledger, requests, upgrades>>
      PROVE  IInv' /\ LauncherStep
  <2>1. /\ LauncherStep
        /\ freeEdits' \in [Users -> Nat]
        /\ lostEdits' = lostEdits
    BY <1>u, <1>3, FinishEditStep DEF AuditType
  <2>2. CallsType' /\ LedgerType' /\ AuditType' /\ BoundsType'
    BY <1>t, <1>3, <2>1 DEF CallsType, LedgerType, AuditType, BoundsType, ledger
  <2>3. SlotsOK'
    BY <1>t, <1>3, <2>1 DEF SlotsOK, CallsType, LauncherStep, ProfilesGrow
  <2> QED
    BY <2>1, <2>2, <2>3 DEF LauncherStep
<1>4. CASE EditPaid(e)
  BY <1>3, <1>4 DEF EditPaid
<1>5. CASE UploadDone(e)
  BY <1>3, <1>5 DEF UploadDone
<1>6. CASE EditPaidWithImage(e)
  <2>1. LauncherStep
    BY <1>6, LauncherUnchanged DEF EditPaidWithImage
  <2>2. /\ edit'[e] = [edit[e] EXCEPT !.pc = "upload"]
        /\ edit' = [edit EXCEPT ![e] = edit'[e]]
        /\ \A d \in Edits \ {e} : edit'[d] = edit[d]
        /\ edit[e].pc = "spent"
    BY <1>6 DEF EditPaidWithImage, CallsType
  <2>3. /\ edit'[e] \in EditCall
        /\ edit'[e].pc = "upload" /\ edit'[e].user = edit[e].user
    BY <1>t, <2>2 DEF EditCall
  <2>4. CallsType' /\ LedgerType' /\ AuditType' /\ BoundsType'
    BY <1>6, <2>2, <2>3 DEF EditPaidWithImage, CallsType, LedgerType, AuditType, BoundsType,
                            ledger, audit
  <2>5. SlotsOK'
    <3>1. topup' = topup /\ profile' = profile
      BY <1>6 DEF EditPaidWithImage, launcher
    <3> QED
      BY <1>u, <2>2, <2>3, <3>1, ZenonT(40) DEF SlotsOK
  <2> QED
    BY <2>1, <2>4, <2>5 DEF LauncherStep
<1>7. CASE UploadFails(e)
  <2>1. LauncherStep
    BY <1>7, LauncherUnchanged DEF UploadFails
  <2>2. CallsType' /\ LedgerType' /\ AuditType' /\ BoundsType'
    BY <1>t, <1>u, <1>7 DEF UploadFails, CallsType, LedgerType, AuditType, BoundsType, ledger
  <2>3. SlotsOK'
    BY <1>t, <1>7 DEF UploadFails, SlotsOK, CallsType, launcher
  <2> QED
    BY <2>1, <2>2, <2>3 DEF LauncherStep
<1> QED
  BY <1>1, <1>2, <1>4, <1>5, <1>6, <1>7 DEF EditProgress

\* Every request of a user, and every grant or charge made for one.
LEMMA UserStepKeeps ==
    ASSUME IInv, NEW u \in Users, UserStep(u)
    PROVE  IInv' /\ LauncherStep
<1> USE Parts, PartsNext
<1>1. ASSUME NEW kind \in EditKinds, EditForFree(u, kind)
      PROVE  IInv' /\ LauncherStep
  <2>1. LauncherStep /\ freeEdits' \in [Users -> Nat] /\ lostEdits' = lostEdits
    BY <1>1, FinishEditStep DEF EditForFree, AuditType
  <2>2. CallsType' /\ LedgerType' /\ AuditType' /\ BoundsType'
    BY <1>1, <2>1, RequestType DEF EditForFree, CallsType, LedgerType, AuditType, ledger
  <2> QED
    BY <1>1, <2>1, <2>2, SlotsKept DEF EditForFree, LauncherStep
<1>2. ASSUME NEW c \in Topups, NEW n \in TopupAmounts, Topup(c, u, n)
      PROVE  IInv' /\ LauncherStep
  <2> DEFINE to == [IdleTopup EXCEPT !.pc = "balance", !.user = u, !.amount = n]
  <2>1. /\ LauncherStep /\ u \in DOMAIN profile'
        /\ freeEdits' \in [Users -> Nat] /\ lostEdits' = lostEdits
    BY <1>2, FinishEditStep DEF Topup, AuditType
  <2>2. to \in TopupCall /\ to.user = u
    BY ConstantsAssumption DEF IdleTopup, TopupCall
  <2>3. topup' = [topup EXCEPT ![c] = to]
    BY <1>2 DEF Topup
  <2> HIDE DEF to
  <2>4. CallsType' /\ LedgerType' /\ AuditType' /\ BoundsType'
    BY <1>2, <2>1, <2>2, <2>3, RequestType DEF Topup, CallsType, LedgerType, AuditType, ledger
  <2>5. SlotsOK'
    BY <1>2, <2>1, <2>2, <2>3 DEF Topup, SlotsOK, CallsType, LauncherStep, ProfilesGrow
  <2> QED
    BY <2>1, <2>4, <2>5 DEF LauncherStep
<1>3. ASSUME NEW e \in Edits, EditStart(e, u)
      PROVE  IInv' /\ LauncherStep
  <2>1. Request /\ UNCHANGED <<launcher, topup, ledger, audit, upgrades>>
    BY <1>3 DEF EditStart, EditForFreeWithImage, EditExisting
  <2>2. LauncherStep
    BY <2>1, LauncherUnchanged
  <2>3. ASSUME NEW to \in EditCall, edit' = [edit EXCEPT ![e] = to],
               to.user = u, ~to.paid, to.pc \in {"upload", "spending"},
               to.pc = "spending" => u \in DOMAIN profile
        PROVE  IInv' /\ LauncherStep
    <3>1. CallsType' /\ LedgerType' /\ AuditType' /\ BoundsType'
      BY <2>1, <2>3, RequestType DEF CallsType, LedgerType, AuditType, ledger, audit
    <3>2. SlotsOK'
      BY <2>1, <2>3 DEF SlotsOK, CallsType, launcher
    <3> QED
      BY <2>2, <3>1, <3>2 DEF LauncherStep
  <2>4. CASE EditForFreeWithImage(e, u)
    <3> DEFINE to == [pc |-> "upload", user |-> u, kind |-> "image", paid |-> FALSE]
    <3>1. /\ to \in EditCall
          /\ to.user = u /\ ~to.paid /\ to.pc = "upload"
      BY DEF EditCall, EditKinds
    <3>2. edit' = [edit EXCEPT ![e] = to]
      BY <2>4 DEF EditForFreeWithImage
    <3> HIDE DEF to
    <3> QED
      BY <2>3, <3>1, <3>2
  <2>5. ASSUME NEW kind \in EditKinds, EditExisting(e, u, kind)
        PROVE  IInv' /\ LauncherStep
    <3> DEFINE to == [pc |-> "spending", user |-> u, kind |-> kind, paid |-> FALSE]
    <3>1. /\ to \in EditCall
          /\ to.user = u /\ ~to.paid /\ to.pc = "spending"
      BY DEF EditCall
    <3>2. edit' = [edit EXCEPT ![e] = to] /\ u \in DOMAIN profile
      BY <2>5 DEF EditExisting
    <3> HIDE DEF to
    <3> QED
      BY <2>3, <3>1, <3>2
  <2> QED
    BY <1>3, <2>4, <2>5 DEF EditStart
<1>4. ASSUME LauncherStep, Request, UNCHANGED <<topup, edit, ledger, audit, upgrades>>
      PROVE  IInv' /\ LauncherStep
  <2>1. CallsType' /\ LedgerType' /\ AuditType' /\ BoundsType'
    BY <1>4, RequestType DEF CallsType, LedgerType, AuditType, ledger, audit
  <2> QED
    BY <1>4, <2>1, SlotsKept DEF LauncherStep
<1>5. CASE ProjectSpends(u)
  BY <1>4, <1>5, DeductStep DEF ProjectSpends, Businesses
<1>6. CASE RewardCreator(u)
  BY <1>4, <1>6, InitAndAddStep, InitialConstants DEF RewardCreator, Businesses
<1>7. ASSUME NEW n \in AirdropAmounts, AirdropPoints(u, n)
      PROVE  IInv' /\ LauncherStep
  BY <1>4, <1>7, AirdropStep DEF AirdropPoints
<1>8. ASSUME NEW a \in Allowances, Approve(u, a)
      PROVE  IInv' /\ LauncherStep
  <2>1. LauncherStep
    BY <1>8, LauncherUnchanged DEF Approve
  <2>2. CallsType' /\ LedgerType' /\ AuditType' /\ BoundsType'
    BY <1>8, ConstantsAssumption DEF Approve, CallsType, LedgerType, AuditType, BoundsType, audit
  <2> QED
    BY <1>8, <2>1, <2>2, SlotsKept DEF Approve, LauncherStep
<1>9. CASE SpendElsewhere(u)
  <2>1. LauncherStep
    BY <1>9, LauncherUnchanged DEF SpendElsewhere
  <2>2. CallsType' /\ LedgerType' /\ AuditType' /\ BoundsType'
    BY <1>9 DEF SpendElsewhere, CallsType, LedgerType, AuditType, BoundsType, audit
  <2> QED
    BY <1>9, <2>1, <2>2, SlotsKept DEF SpendElsewhere, LauncherStep
<1> QED
  BY <1>1, <1>2, <1>3, <1>5, <1>6, <1>7, <1>8, <1>9 DEF UserStep

LEMMA InvStep ==
    ASSUME IInv, [Next]_vars
    PROVE  IInv' /\ HistoryGrows
<1> USE Parts, PartsNext
<1>1. ASSUME NEW u \in Users, UserStep(u)
      PROVE  IInv' /\ HistoryGrows
  BY <1>1, UserStepKeeps DEF LauncherStep
<1>2. ASSUME NEW c \in Topups, TopupProgress(c)
      PROVE  IInv' /\ HistoryGrows
  BY <1>2, TopupProgressStep DEF LauncherStep
<1>3. ASSUME NEW e \in Edits, EditProgress(e)
      PROVE  IInv' /\ HistoryGrows
  BY <1>3, EditProgressStep DEF LauncherStep
<1>4. CASE CountPoint
  <2>1. LauncherInv' /\ HistoryGrows /\ ProfilesGrow
    BY <1>4 DEF CountPoint, LauncherInv, ProfilesOK, HistoryOK, OpenedOK, HistoryGrows,
                ProfilesGrow
  <2>2. CallsType' /\ LedgerType' /\ AuditType' /\ BoundsType'
    BY <1>4, RequestType DEF CountPoint, CallsType, LedgerType, AuditType, ledger, audit
  <2> QED
    BY <1>4, <2>1, <2>2, SlotsKept DEF CountPoint
<1>5. CASE Upgrade
  <2>1. UNCHANGED launcher
    BY <1>5 DEF Upgrade, PreUpgrade, PostUpgrade, launcher
  <2>2. LauncherStep
    BY <2>1, LauncherUnchanged
  <2>3. CallsType' /\ LedgerType' /\ AuditType' /\ BoundsType'
    BY <1>5, ConstantsAssumption DEF Upgrade, CallsType, LedgerType, AuditType, BoundsType,
                                     ledger, audit
  <2> QED
    BY <1>5, <2>2, <2>3, SlotsKept DEF Upgrade, LauncherStep
<1>6. CASE UNCHANGED vars
  BY <1>6 DEF vars, launcher, ledger, audit, HistoryGrows, IInv, TypeOK, CallsConsistent
<1> QED
  BY <1>1, <1>2, <1>3, <1>4, <1>5, <1>6 DEF Next

-----------------------------------------------------------------------------
(* The accounts *)

Registered == DOMAIN profile
Opened     == {u \in DOMAIN profile : profile[u].points # None}
Earned     == [u \in Users |-> EarnedOf(u)]
Spent      == [u \in Users |-> IF u \in DOMAIN profile THEN profile[u].spent ELSE 0]
Grants     == TopupAmounts \cup AirdropAmounts \cup {CreateReward}
Charges    == {SpendPrice(busi) : busi \in Businesses}

\* What a step does to the accounts.
Kept          == UNCHANGED <<Earned, Spent>>
Granted(v, n) == Earned' = [Earned EXCEPT ![v] = @ + n] /\ Spent' = Spent
Taken(v, n)   == Spent' = [Spent EXCEPT ![v] = @ + n] /\ Earned' = Earned

LEMMA MappedStep ==
    ASSUME \/ \E u \in Users :
                 \/ /\ Registered' = Registered \cup {u}
                    /\ UNCHANGED <<Opened, Earned, Spent>>
                 \/ \E n \in Grants :
                       /\ u \in Registered
                       /\ Earned' = [Earned EXCEPT ![u] = @ + n]
                       /\ Opened' = Opened \/ Opened' = Opened \cup {u}
                       /\ UNCHANGED <<Registered, Spent>>
                 \/ \E n \in Charges :
                       /\ u \in Opened
                       /\ Spent[u] + n <= InitialPoints + Earned[u]
                       /\ Spent' = [Spent EXCEPT ![u] = @ + n]
                       /\ UNCHANGED <<Registered, Opened, Earned>>
           \/ UNCHANGED <<Registered, Opened, Earned, Spent>>
    PROVE  [Accounts!Next]_(Accounts!vars)
  BY DEF Accounts!Next, Accounts!vars, Accounts!Register, Accounts!Earn, Accounts!Spend,
         Registered, Opened, Earned, Spent, Grants, Charges

\* A profile that is unchanged, or changed in nothing an account knows of.
LEMMA AccountsStay ==
    ASSUME DOMAIN profile' = DOMAIN profile,
           \A u \in DOMAIN profile : /\ profile'[u].points = profile[u].points
                                     /\ profile'[u].pre = profile[u].pre
                                     /\ profile'[u].spent = profile[u].spent
    PROVE  UNCHANGED <<Registered, Opened, Earned, Spent>>
<1>1. Registered' = Registered /\ Opened' = Opened
  BY DEF Registered, Opened
<1>2. \A u \in Users : EarnedOf(u)' = EarnedOf(u)
  BY DEF EarnedOf
<1>3. Earned' = Earned /\ Spent' = Spent
  BY <1>2 DEF Earned, Spent
<1> QED BY <1>1, <1>3

LEMMA EditAccounts ==
    ASSUME LauncherInv, NEW v \in Users, NEW kind, NEW free, FinishEdit(v, kind, free)
    PROVE  Kept /\ [Accounts!Next]_(Accounts!vars)
<1> DEFINE p == IF v \in DOMAIN profile THEN Edited(profile[v], kind) ELSE NewProfile
<1>1. profile' = Put(profile, v, p)
  BY DEF FinishEdit
<1>2. v \in DOMAIN profile => /\ p.points = profile[v].points
                              /\ p.pre = profile[v].pre
                              /\ p.spent = profile[v].spent
  <2>1. v \in DOMAIN profile => profile[v] \in Profile
    BY DEF LauncherInv, ProfilesOK
  <2>2. v \in DOMAIN profile /\ profile[v].points = None => profile[v].spent = 0
    BY DEF LauncherInv, OpenedOK
  <2> QED BY <2>1, <2>2, EditedType
<1>3. v \notin DOMAIN profile => p.points = None /\ p.spent = 0 /\ p.pre = 0
  BY NewProfileType
<1> HIDE DEF p
<1>4. /\ DOMAIN profile' = DOMAIN profile \cup {v} /\ profile'[v] = p
      /\ \A u \in DOMAIN profile \ {v} : profile'[u] = profile[u]
  BY <1>1 DEF Put
<1>5. CASE v \in DOMAIN profile
  <2>1. UNCHANGED <<Registered, Opened, Earned, Spent>>
    BY <1>2, <1>4, <1>5, AccountsStay
  <2> QED BY <2>1, MappedStep DEF Kept
<1>6. CASE v \notin DOMAIN profile
  <2>1. Registered' = Registered \cup {v} /\ Opened' = Opened
    BY <1>3, <1>4, <1>6 DEF Registered, Opened
  <2>2. \A u \in Users : EarnedOf(u)' = EarnedOf(u)
    BY <1>3, <1>4, <1>6 DEF EarnedOf
  <2>3. Earned' = Earned
    BY <2>2 DEF Earned
  <2>4. Spent' = Spent
    BY <1>3, <1>4, <1>6 DEF Spent
  <2> QED BY <2>1, <2>3, <2>4, MappedStep DEF Kept
<1> QED BY <1>5, <1>6

\* Points are spent: the account is opened and holds them.
LEMMA SpendAccounts ==
    ASSUME LauncherInv, NEW v \in Users, NEW busi \in Businesses,
           CanDeduct(v, SpendPrice(busi)), Deduct(v, busi)
    PROVE  Taken(v, SpendPrice(busi)) /\ [Accounts!Next]_(Accounts!vars)
<1> DEFINE n == SpendPrice(busi)
           q == profile[v]
           p == DeductPoints(q, n)
<1>1. /\ n \in Nat /\ n \in Charges /\ v \in DOMAIN profile /\ q \in Profile
      /\ q.points # None /\ q.points >= n
      /\ profile' = Put(profile, v, p)
  BY InitialConstants DEF CanDeduct, Deduct, LauncherInv, ProfilesOK, Charges
<1> HIDE DEF n
<1>2. p.points = q.points - n /\ p.points # None /\ p.spent = q.spent + n
  BY <1>1, DeductPointsType
<1>3. q.points \in Nat /\ q.spent \in Nat
  BY <1>1 DEF Profile
<1> HIDE DEF p
<1>4. /\ DOMAIN profile' = DOMAIN profile /\ profile'[v] = p
      /\ \A u \in DOMAIN profile \ {v} : profile'[u] = profile[u]
  BY <1>1 DEF Put
<1>5. Registered' = Registered /\ Opened' = Opened /\ v \in Opened
  BY <1>1, <1>2, <1>4 DEF Registered, Opened
<1>6. p.points + p.spent = q.points + q.spent
  BY <1>1, <1>2, <1>3
<1>7. Earned' = Earned
  <2>1. EarnedOf(v)' = EarnedOf(v)
    <3>1. EarnedOf(v)' = p.points + p.spent - InitialPoints
      BY <1>1, <1>2, <1>4 DEF EarnedOf
    <3>2. EarnedOf(v) = q.points + q.spent - InitialPoints
      BY <1>1 DEF EarnedOf
    <3>3. p.points \in Int /\ p.spent \in Int
      BY <1>1, <1>2, <1>3
    <3> HIDE DEF q
    <3> QED BY <1>3, <1>6, <3>1, <3>2, <3>3, InitialConstants
  <2>2. \A u \in Users \ {v} : EarnedOf(u)' = EarnedOf(u)
    BY <1>4 DEF EarnedOf
  <2> QED BY <2>1, <2>2 DEF Earned
<1>8. Spent' = [Spent EXCEPT ![v] = @ + n]
  BY <1>1, <1>2, <1>4 DEF Spent
<1>9. Spent[v] + n <= InitialPoints + Earned[v]
  <2>1. Spent[v] = q.spent /\ Earned[v] = q.points + q.spent - InitialPoints
    BY <1>1 DEF Spent, Earned, EarnedOf
  <2> QED BY <1>1, <1>3, <2>1, InitialConstants
<1> HIDE DEF q
<1>10. [Accounts!Next]_(Accounts!vars)
  BY <1>1, <1>5, <1>7, <1>8, <1>9, MappedStep
<1> QED BY <1>7, <1>8, <1>10 DEF Taken, n

\* Points are granted by a step that leaves what was spent.
LEMMA EarnAccounts ==
    ASSUME LauncherInv, NEW v \in DOMAIN profile, NEW n \in Grants, NEW p \in Profile,
           profile' = Put(profile, v, p),
           p.spent = profile[v].spent,
           \/ /\ profile[v].points # None /\ p.points = profile[v].points + n
           \/ /\ profile[v].points = None
              /\ \/ p.points = None /\ p.pre = profile[v].pre + n
                 \/ p.points = InitialPoints + profile[v].pre + n
    PROVE  Granted(v, n) /\ [Accounts!Next]_(Accounts!vars)
<1> DEFINE q == profile[v]
<1>1. /\ v \in Users /\ q \in Profile /\ n \in Nat
      /\ q.pre \in Nat /\ q.spent \in Nat
      /\ q.points # None => q.points \in Nat
      /\ q.points = None => q.spent = 0
  BY ConstantsAssumption, InitialConstants DEF LauncherInv, ProfilesOK, OpenedOK, Grants, Profile
<1>2. /\ DOMAIN profile' = DOMAIN profile /\ profile'[v] = p
      /\ \A u \in DOMAIN profile \ {v} : profile'[u] = profile[u]
  BY DEF Put
<1>3. q.points # None => p.points # None
  BY <1>1, ConstantsAssumption
<1>4. Registered' = Registered /\ (Opened' = Opened \/ Opened' = Opened \cup {v})
  <2>1. Registered' = Registered
    BY <1>2 DEF Registered
  <2>2. p.points = None => Opened' = Opened
    <3>1. p.points = None => profile[v].points = None
      BY <1>3
    <3> QED BY <1>2, <3>1 DEF Opened
  <2>3. p.points # None => Opened' = Opened \cup {v}
    BY <1>2 DEF Opened
  <2> QED BY <2>1, <2>2, <2>3
<1>5. Spent' = Spent
  BY <1>2 DEF Spent
<1>6. EarnedOf(v)' = EarnedOf(v) + n
  <2>1. CASE q.points # None
    <3>1. EarnedOf(v)' = p.points + p.spent - InitialPoints
      BY <1>2, <1>3, <2>1 DEF EarnedOf
    <3>2. EarnedOf(v) = q.points + q.spent - InitialPoints
      BY <2>1 DEF EarnedOf
    <3>3. p.points = q.points + n /\ p.spent = q.spent
      BY <2>1
    <3> HIDE DEF q
    <3> QED BY <1>1, <2>1, <3>1, <3>2, <3>3, InitialConstants
  <2>2. CASE q.points = None /\ p.points = None
    <3>1. EarnedOf(v)' = p.pre
      BY <1>2, <2>2 DEF EarnedOf
    <3>2. EarnedOf(v) = q.pre
      BY <2>2 DEF EarnedOf
    <3>3. p.pre = q.pre + n
      BY <1>1, <2>2, ConstantsAssumption, InitialConstants
    <3> QED BY <3>1, <3>2, <3>3
  <2>3. CASE q.points = None /\ p.points # None
    <3>1. EarnedOf(v)' = p.points + p.spent - InitialPoints
      BY <1>2, <2>3 DEF EarnedOf
    <3>2. EarnedOf(v) = q.pre
      BY <2>3 DEF EarnedOf
    <3>3. p.points = InitialPoints + q.pre + n /\ p.spent = 0
      BY <1>1, <2>3
    <3> HIDE DEF q
    <3> QED BY <1>1, <3>1, <3>2, <3>3, InitialConstants
  <2> QED BY <2>1, <2>2, <2>3
<1>7. Earned' = [Earned EXCEPT ![v] = @ + n]
  <2>1. \A u \in Users \ {v} : EarnedOf(u)' = EarnedOf(u)
    BY <1>2 DEF EarnedOf
  <2> QED BY <1>1, <1>6, <2>1 DEF Earned
<1>8. v \in Registered
  BY DEF Registered
<1> HIDE DEF q
<1>9. [Accounts!Next]_(Accounts!vars)
  BY <1>1, <1>4, <1>5, <1>7, <1>8, MappedStep
<1> QED BY <1>5, <1>7, <1>9 DEF Granted

-----------------------------------------------------------------------------
(* The handlers, as steps of the accounts *)

\* init_points and then add_points are one grant.
LEMMA InitAndAddAccounts ==
    ASSUME LauncherInv, NEW v \in DOMAIN profile, NEW n \in Grants, NEW busi,
           InitAndAdd(v, n, busi)
    PROVE  Granted(v, n) /\ [Accounts!Next]_(Accounts!vars)
<1> DEFINE q == InitPoints(profile[v])
           p == AddPoints(q, n)
<1>1. profile[v] \in Profile /\ n \in Nat
  BY ConstantsAssumption, InitialConstants DEF LauncherInv, ProfilesOK, Grants
<1>2. /\ q \in Profile /\ q.points # None
      /\ q.spent = profile[v].spent
      /\ profile[v].points = None => q.points = InitialPoints + profile[v].pre
      /\ profile[v].points # None => q.points = profile[v].points
  BY <1>1, InitPointsType, ConstantsAssumption
<1>3. profile' = Put(profile, v, p)
  BY DEF InitAndAdd
<1> HIDE DEF q
<1>4. p \in Profile /\ p.points = q.points + n /\ p.spent = profile[v].spent
  BY <1>1, <1>2, AddPointsType
<1> HIDE DEF p
<1>5. \/ /\ profile[v].points # None /\ p.points = profile[v].points + n
      \/ /\ profile[v].points = None
         /\ p.points = InitialPoints + profile[v].pre + n
  BY <1>2, <1>4
<1> QED BY <1>3, <1>4, <1>5, EarnAccounts

LEMMA AirdropAccounts ==
    ASSUME LauncherInv, NEW v \in Users, NEW n \in AirdropAmounts, AirdropPoints(v, n)
    PROVE  Granted(v, n) /\ [Accounts!Next]_(Accounts!vars)
<1> DEFINE p == AddPoints(profile[v], n)
<1>1. /\ v \in DOMAIN profile /\ profile[v] \in Profile /\ n \in Nat /\ n \in Grants
      /\ profile' = Put(profile, v, p)
  BY ConstantsAssumption DEF AirdropPoints, LauncherInv, ProfilesOK, Grants
<1>2. /\ p \in Profile /\ p.spent = profile[v].spent
      /\ profile[v].points = None => p.points = None /\ p.pre = profile[v].pre + n
      /\ profile[v].points # None => p.points = profile[v].points + n
  BY <1>1, AddPointsType
<1> HIDE DEF p
<1> QED BY <1>1, <1>2, EarnAccounts

LEMMA ProfileUnchanged ==
    ASSUME profile' = profile
    PROVE  Kept /\ [Accounts!Next]_(Accounts!vars)
  BY AccountsStay, MappedStep DEF Kept

\* The amount of a top-up is one that was asked for, until it is credited.
AmountsAsked == \A c \in Topups : topup[c].pc # "idle" => topup[c].amount \in TopupAmounts

AInv == IInv /\ AmountsAsked

LEMMA TopupProgressAccounts ==
    ASSUME AInv, NEW c \in Topups, TopupProgress(c)
    PROVE  AmountsAsked' /\ [Accounts!Next]_(Accounts!vars)
<1>1. CallsType /\ LauncherInv /\ SlotsOK /\ AmountsAsked
  BY Parts DEF AInv
<1>2. topup[c] \in TopupCall
  BY <1>1 DEF CallsType
<1>3. ASSUME NEW from, NEW to, TopupStep(c, from, to),
             to.pc # "idle" => from # "idle" /\ to.amount = topup[c].amount
      PROVE  AmountsAsked' /\ [Accounts!Next]_(Accounts!vars)
  <2>1. profile' = profile
    BY <1>3 DEF TopupStep, launcher
  <2>2. AmountsAsked'
    BY <1>1, <1>3 DEF TopupStep, CallsType, AmountsAsked
  <2> QED BY <2>1, <2>2, ProfileUnchanged
<1>i. IdleTopup.pc = "idle"
  BY DEF IdleTopup
<1>4. CASE ReadBalance(c)
  <2> DEFINE to == [topup[c] EXCEPT !.pc = "allowance", !.balance = balance[topup[c].user]]
  <2>1. to.amount = topup[c].amount
    BY <1>2 DEF TopupCall
  <2>2. TopupStep(c, "balance", to)
    BY <1>4 DEF ReadBalance
  <2> HIDE DEF to
  <2> QED BY <1>3, <2>1, <2>2
<1>5. CASE ReadAllowance(c)
  <2> DEFINE to == [topup[c] EXCEPT !.pc = "price", !.allowance = allowance[topup[c].user]]
  <2>1. to.amount = topup[c].amount
    BY <1>2 DEF TopupCall
  <2>2. TopupStep(c, "allowance", to)
    BY <1>5 DEF ReadAllowance
  <2> HIDE DEF to
  <2> QED BY <1>3, <2>1, <2>2
<1>6. ASSUME NEW price \in Prices, QuoteAccepted(c, price)
      PROVE  AmountsAsked' /\ [Accounts!Next]_(Accounts!vars)
  <2> DEFINE charged == ChargedFee(topup[c].allowance, PlatformFee(topup[c].amount, price))
             to == [topup[c] EXCEPT !.pc = "transfer", !.fee = charged]
  <2>2. TopupStep(c, "price", to)
    BY <1>6 DEF QuoteAccepted
  <2> HIDE DEF charged
  <2>1. to.amount = topup[c].amount
    BY <1>2 DEF TopupCall
  <2> HIDE DEF to
  <2> QED BY <1>3, <2>1, <2>2
<1>7. ASSUME NEW price \in Prices, QuoteRefused(c, price)
      PROVE  AmountsAsked' /\ [Accounts!Next]_(Accounts!vars)
  <2>1. TopupStep(c, "price", IdleTopup)
    BY <1>7 DEF QuoteRefused
  <2> QED BY <1>3, <1>i, <2>1
<1>8. CASE QuoteFails(c)
  BY <1>3, <1>8, <1>i DEF QuoteFails
<1>9. CASE LedgerCharges(c)
  <2>1. profile' = profile
    BY <1>9 DEF LedgerCharges, launcher
  <2>2. topup' = [topup EXCEPT ![c].pc = "charged"] /\ topup[c].pc = "transfer"
    BY <1>9 DEF LedgerCharges
  <2>3. topup'[c].amount = topup[c].amount
        /\ \A d \in Topups \ {c} : topup'[d] = topup[d]
    BY <1>1, <1>2, <2>2 DEF CallsType, TopupCall
  <2>4. AmountsAsked'
    BY <1>1, <2>2, <2>3 DEF AmountsAsked
  <2> QED BY <2>1, <2>4, ProfileUnchanged
<1>10. CASE LedgerRefuses(c)
  <2> DEFINE to == [topup[c] EXCEPT !.pc = "refused"]
  <2>1. to.amount = topup[c].amount
    BY <1>2 DEF TopupCall
  <2>2. TopupStep(c, "transfer", to)
    BY <1>10 DEF LedgerRefuses
  <2> HIDE DEF to
  <2> QED BY <1>3, <2>1, <2>2
<1>11. CASE TopupCredited(c)
  <2>1. topup' = [topup EXCEPT ![c] = IdleTopup] /\ topup[c].pc = "charged"
    BY <1>11 DEF TopupCredited
  <2>2. AmountsAsked'
    BY <1>1, <1>i, <2>1 DEF AmountsAsked, CallsType
  <2>3. topup[c].amount \in Grants /\ topup[c].user \in DOMAIN profile
    BY <1>1, <2>1 DEF AmountsAsked, SlotsOK, Grants
  <2>4. InitAndAdd(topup[c].user, topup[c].amount, "TOPUP")
    BY <1>11, <2>3 DEF TopupCredited
  <2> QED BY <1>1, <2>2, <2>3, <2>4, InitAndAddAccounts
<1>12. CASE TopupRefused(c)
  BY <1>3, <1>12, <1>i DEF TopupRefused
<1> QED BY <1>4, <1>5, <1>6, <1>7, <1>8, <1>9, <1>10, <1>11, <1>12 DEF TopupProgress

LEMMA EditProgressAccounts ==
    ASSUME AInv, NEW e \in Edits, EditProgress(e)
    PROVE  topup' = topup /\ [Accounts!Next]_(Accounts!vars)
<1>1. LauncherInv /\ SlotsOK
  BY Parts DEF AInv
<1>2. edit[e].pc # "idle" => edit[e].user \in Users
  BY <1>1 DEF SlotsOK
<1>3. CASE SpendForEdit(e)
  <2>1. /\ topup' = topup /\ edit[e].user \in Users
        /\ CanDeduct(edit[e].user, SpendPrice("EDIT_AVATAR"))
        /\ Deduct(edit[e].user, "EDIT_AVATAR")
    BY <1>2, <1>3 DEF SpendForEdit
  <2>2. "EDIT_AVATAR" \in Businesses
    BY DEF Businesses
  <2> QED BY <1>1, <2>1, <2>2, SpendAccounts
<1>4. CASE EditRefused(e) \/ EditPaidWithImage(e) \/ UploadFails(e)
  BY <1>4, ProfileUnchanged DEF EditRefused, EditPaidWithImage, UploadFails, launcher
<1>5. CASE EditPaid(e)
  <2>1. /\ topup' = topup /\ edit[e].user \in Users
        /\ FinishEdit(edit[e].user, edit[e].kind, FALSE)
    BY <1>2, <1>5 DEF EditPaid
  <2> QED BY <1>1, <2>1, EditAccounts
<1>6. CASE UploadDone(e)
  <2>1. /\ topup' = topup /\ edit[e].user \in Users
        /\ FinishEdit(edit[e].user, edit[e].kind, ~edit[e].paid)
    BY <1>2, <1>6 DEF UploadDone
  <2> QED BY <1>1, <2>1, EditAccounts
<1> QED BY <1>3, <1>4, <1>5, <1>6 DEF EditProgress

LEMMA UserStepAccounts ==
    ASSUME AInv, NEW u \in Users, UserStep(u)
    PROVE  AmountsAsked' /\ [Accounts!Next]_(Accounts!vars)
<1>1. LauncherInv /\ AmountsAsked /\ CallsType
  BY Parts DEF AInv
<1>2. topup' = topup => AmountsAsked'
  BY <1>1 DEF AmountsAsked
<1>3. ASSUME NEW kind \in EditKinds, EditForFree(u, kind)
      PROVE  AmountsAsked' /\ [Accounts!Next]_(Accounts!vars)
  BY <1>1, <1>2, <1>3, EditAccounts DEF EditForFree
<1>4. ASSUME NEW c \in Topups, NEW n \in TopupAmounts, Topup(c, u, n)
      PROVE  AmountsAsked' /\ [Accounts!Next]_(Accounts!vars)
  <2> DEFINE to == [IdleTopup EXCEPT !.pc = "balance", !.user = u, !.amount = n]
  <2>1. to.amount = n
    BY DEF IdleTopup
  <2>2. topup' = [topup EXCEPT ![c] = to] /\ FinishEdit(u, "empty", TRUE)
    BY <1>4 DEF Topup
  <2> HIDE DEF to
  <2>3. AmountsAsked'
    BY <1>1, <2>1, <2>2 DEF AmountsAsked, CallsType
  <2> QED BY <1>1, <2>2, <2>3, EditAccounts
<1>5. ASSUME NEW e \in Edits, EditStart(e, u)
      PROVE  AmountsAsked' /\ [Accounts!Next]_(Accounts!vars)
  <2>1. profile' = profile /\ topup' = topup
    BY <1>5 DEF EditStart, EditForFreeWithImage, EditExisting, launcher
  <2> QED BY <1>2, <2>1, ProfileUnchanged
<1>6. CASE ProjectSpends(u)
  <2>1. "COMMENT" \in Businesses
    BY DEF Businesses
  <2> QED BY <1>1, <1>2, <1>6, <2>1, SpendAccounts DEF ProjectSpends
<1>7. CASE RewardCreator(u)
  <2>1. CreateReward \in Grants
    BY DEF Grants
  <2> QED BY <1>1, <1>2, <1>7, <2>1, InitAndAddAccounts DEF RewardCreator
<1>8. ASSUME NEW n \in AirdropAmounts, AirdropPoints(u, n)
      PROVE  AmountsAsked' /\ [Accounts!Next]_(Accounts!vars)
  <2>1. topup' = topup
    BY <1>8 DEF AirdropPoints
  <2> QED BY <1>1, <1>2, <1>8, <2>1, AirdropAccounts
<1>9. ASSUME NEW a \in Allowances, Approve(u, a)
      PROVE  AmountsAsked' /\ [Accounts!Next]_(Accounts!vars)
  BY <1>2, <1>9, ProfileUnchanged DEF Approve, launcher
<1>10. CASE SpendElsewhere(u)
  BY <1>2, <1>10, ProfileUnchanged DEF SpendElsewhere, launcher
<1> QED BY <1>3, <1>4, <1>5, <1>6, <1>7, <1>8, <1>9, <1>10 DEF UserStep

LEMMA AccountsInit == Init => AInv /\ Accounts!Init
<1> SUFFICES ASSUME Init
             PROVE  AInv /\ Accounts!Init
  OBVIOUS
<1>1. AInv
  BY InvInit DEF AInv, AmountsAsked, Init, IdleTopup
<1>2. DOMAIN profile = {}
  BY DEF Init
<1> QED BY <1>1, <1>2 DEF Accounts!Init, EarnedOf

LEMMA AccountsNext == AInv /\ [Next]_vars => AmountsAsked' /\ [Accounts!Next]_(Accounts!vars)
<1> SUFFICES ASSUME AInv, [Next]_vars
             PROVE  AmountsAsked' /\ [Accounts!Next]_(Accounts!vars)
  OBVIOUS
<1>2. topup' = topup => AmountsAsked'
  BY DEF AInv, AmountsAsked
<1>3. ASSUME NEW u \in Users, UserStep(u)
      PROVE  AmountsAsked' /\ [Accounts!Next]_(Accounts!vars)
  BY <1>3, UserStepAccounts
<1>4. ASSUME NEW c \in Topups, TopupProgress(c)
      PROVE  AmountsAsked' /\ [Accounts!Next]_(Accounts!vars)
  BY <1>4, TopupProgressAccounts
<1>5. ASSUME NEW e \in Edits, EditProgress(e)
      PROVE  AmountsAsked' /\ [Accounts!Next]_(Accounts!vars)
  BY <1>2, <1>5, EditProgressAccounts
<1>6. CASE CountPoint \/ Upgrade \/ UNCHANGED vars
  BY <1>2, <1>6, ProfileUnchanged
     DEF CountPoint, Upgrade, PostUpgrade, PreUpgrade, vars, launcher
<1> QED BY <1>3, <1>4, <1>5, <1>6 DEF Next

-----------------------------------------------------------------------------
(* The theorems *)

\* The variables keep their types, and every index of the history in use was
\* handed out by count_point, in every reachable state.
THEOREM TypeCorrect == Spec => []TypeOK
<1>1. IInv => TypeOK
  BY DEF IInv
<1> QED
  BY <1>1, InvInit, InvStep, PTL DEF Spec

\* What the calls in flight rely on after an await still holds there: their
\* user is registered, a deduction came from an opened account, and an opened
\* account started with the welcome points (topup_points, edit_user).
THEOREM CallsAlwaysConsistent == Spec => []CallsConsistent
<1>1. IInv => CallsConsistent
  BY DEF IInv
<1> QED
  BY <1>1, InvInit, InvStep, PTL DEF Spec

\* No handler and no upgrade changes or removes an entry of the points history
\* (init_points, add_points, deduct_points, pre_upgrade, post_upgrade).
THEOREM HistoryIsKept == Spec => HistoryKept
<1>1. IInv /\ [Next]_vars => [HistoryGrows]_vars
  BY InvStep
<1> QED
  BY <1>1, InvInit, InvStep, PTL DEF Spec, HistoryKept, HistoryGrows

(***************************************************************************)
(* The launcher implements the points accounts: init_points, add_points    *)
(* and deduct_points, called from every handler and interleaved at every   *)
(* await, never close an account, take back what was earned or spend more  *)
(* than the account holds.                                                 *)
(***************************************************************************)
THEOREM LauncherImplementsAccounts == Spec => ImplementsAccounts
<1>1. Init => AInv /\ Accounts!Init
  BY AccountsInit
<1>2. AInv /\ [Next]_vars => AInv' /\ [Accounts!Next]_(Accounts!vars)
  BY AccountsNext, InvStep DEF AInv
<1> QED BY <1>1, <1>2, PTL DEF Spec, ImplementsAccounts, Accounts!Spec

\* No account is ever overdrawn, and one that is not open has spent nothing: the promise of
\* the abstract accounts, kept by the handlers of the launcher (deduct_points, init_points).
THEOREM AccountsAlwaysSolvent == Spec => []Accounts!Solvent
<1>1. Init => AInv /\ Accounts!Init
  BY AccountsInit
<1>2. AInv /\ [Next]_vars => AInv' /\ [Accounts!Next]_(Accounts!vars)
  BY AccountsNext, InvStep DEF AInv
<1>3. AInv => Accounts!Solvent
  <2> SUFFICES ASSUME AInv, NEW u \in Users, u \in DOMAIN profile
               PROVE  /\ profile[u].spent <= InitialPoints + EarnedOf(u)
                      /\ profile[u].points = None => profile[u].spent = 0
    <3>1. ASSUME NEW u \in Users, u \notin DOMAIN profile PROVE 0 <= InitialPoints + EarnedOf(u)
      BY <3>1 DEF InitialPoints, EarnedOf
    <3> QED BY <3>1 DEF Accounts!Solvent
  <2>1. ProfilesOK /\ OpenedOK
    BY Parts DEF AInv, LauncherInv
  <2>2. profile[u] \in Profile /\ InitialPoints \in Nat
    BY <2>1 DEF ProfilesOK, InitialPoints
  <2>3. CASE profile[u].points = None
    BY <2>1, <2>2, <2>3 DEF OpenedOK, EarnedOf, Profile
  <2>4. CASE profile[u].points # None
    BY <2>2, <2>4 DEF EarnedOf, Profile
  <2> QED BY <2>3, <2>4
<1> QED BY <1>1, <1>2, <1>3, PTL DEF Spec

-----------------------------------------------------------------------------
(* The entries of the history *)

\* An entry is recorded under an index that no entry has.
LEMMA EntryRecorded ==
    ASSUME HistoryOK, NEW e, RecordHistory(e), NEW u, NEW busi
    PROVE  /\ point_count + 1 \notin Entries(u, busi)
           /\ Entries(u, busi)' = IF e.user = u /\ e.busi = busi
                                  THEN Entries(u, busi) \cup {point_count + 1}
                                  ELSE Entries(u, busi)
<1>1. point_count + 1 \notin DOMAIN history
  BY DEF HistoryOK
<1>2. /\ DOMAIN history' = DOMAIN history \cup {point_count + 1}
      /\ history'[point_count + 1] = e
      /\ \A i \in DOMAIN history : history'[i] = history[i]
  BY <1>1 DEF RecordHistory, Put
<1> QED BY <1>1, <1>2 DEF Entries

\* Of two entries the first is about something else.
LEMMA SecondRecorded ==
    ASSUME HistoryOK, NEW e1, NEW e2, RecordHistory2(e1, e2), NEW u, NEW busi,
           e1.busi # busi
    PROVE  /\ point_count + 2 \notin Entries(u, busi)
           /\ Entries(u, busi)' = IF e2.user = u /\ e2.busi = busi
                                  THEN Entries(u, busi) \cup {point_count + 2}
                                  ELSE Entries(u, busi)
<1>1. /\ point_count + 1 \notin DOMAIN history /\ point_count + 2 \notin DOMAIN history
      /\ point_count + 1 # point_count + 2
  BY DEF HistoryOK
<1>2. /\ DOMAIN history' = DOMAIN history \cup {point_count + 1, point_count + 2}
      /\ history'[point_count + 1] = e1
      /\ history'[point_count + 2] = e2
      /\ \A i \in DOMAIN history : history'[i] = history[i]
  BY <1>1 DEF RecordHistory2, Put
<1> QED BY <1>1, <1>2 DEF Entries

LEMMA DeductEntries ==
    ASSUME HistoryOK, NEW v, NEW b, Deduct(v, b), NEW u, NEW busi
    PROVE  /\ point_count + 1 \notin Entries(u, busi)
           /\ Entries(u, busi)' = IF v = u /\ b = busi
                                  THEN Entries(u, busi) \cup {point_count + 1}
                                  ELSE Entries(u, busi)
<1> DEFINE e == HistoryEntry(v, "DEDUCT", b, SpendPrice(b))
<1>1. RecordHistory(e)
  BY DEF Deduct
<1>2. e.user = v /\ e.busi = b
  BY DEF HistoryEntry
<1> HIDE DEF e
<1> QED BY <1>1, <1>2, EntryRecorded

LEMMA GrantEntries ==
    ASSUME HistoryOK, NEW v, NEW n, NEW b, InitAndAdd(v, n, b), NEW u, NEW busi, busi # "INIT"
    PROVE  /\ point_count + 2 \notin Entries(u, busi)
           /\ Entries(u, busi)' = IF v = u /\ b = busi
                                  THEN Entries(u, busi) \cup {point_count + 2}
                                  ELSE Entries(u, busi)
<1> DEFINE e1 == HistoryEntry(v, "INIT", "INIT", InitialPoints)
           e2 == HistoryEntry(v, "ADD", b, n)
<1>1. RecordHistory2(e1, e2)
  BY DEF InitAndAdd
<1>2. e1.busi # busi /\ e2.user = v /\ e2.busi = b
  BY DEF HistoryEntry
<1> HIDE DEF e1, e2
<1> QED BY <1>1, <1>2, SecondRecorded

LEMMA AirdropEntries ==
    ASSUME HistoryOK, NEW v, NEW n, AirdropPoints(v, n), NEW u, NEW busi, busi # "AIRDROP"
    PROVE  Entries(u, busi)' = Entries(u, busi)
<1> DEFINE e == HistoryEntry(v, "ADD", "AIRDROP", n)
<1>1. RecordHistory(e)
  BY DEF AirdropPoints
<1>2. e.busi # busi
  BY DEF HistoryEntry
<1> HIDE DEF e
<1> QED BY <1>1, <1>2, EntryRecorded

\* The steps that record nothing.
Silent == history' = history

LEMMA SilentEntries ==
    ASSUME Silent, NEW u, NEW busi
    PROVE  Entries(u, busi)' = Entries(u, busi)
  BY DEF Silent, Entries

\* The history a step of the launcher leaves, but for the top-ups credited and the points
\* spent and granted.
LEMMA SilentSteps ==
    /\ \A u, kind, free : FinishEdit(u, kind, free) => Silent
    /\ \A c, from, to : TopupStep(c, from, to) => Silent
    /\ UNCHANGED launcher => Silent
  BY DEF FinishEdit, TopupStep, launcher, Silent

-----------------------------------------------------------------------------
(* The top-ups *)

\* The top-ups of u that the ledger charged and the launcher has not credited yet.
Charged(u) == {c \in Topups : topup[c].pc = "charged" /\ topup[c].user = u}

Credits(u) ==
    /\ IsFiniteSet(Entries(u, "TOPUP")) /\ IsFiniteSet(Charged(u))
    /\ charges[u] = Cardinality(Entries(u, "TOPUP")) + Cardinality(Charged(u))

(* The inductive invariant of the top-ups. *)
CInv == IInv /\ \A u \in Users : Credits(u)

LEMMA InitCredits == Init => CInv
<1> SUFFICES ASSUME Init, NEW u \in Users PROVE Credits(u)
  BY InvInit DEF CInv
<1>1. Entries(u, "TOPUP") = {} /\ charges[u] = 0
  BY DEF Init, Entries
<1>2. Charged(u) = {}
  BY DEF Init, Charged, IdleTopup
<1> QED BY <1>1, <1>2, FS_EmptySet DEF Credits

LEMMA CreditsStay ==
    ASSUME NEW u \in Users, Credits(u), charges'[u] = charges[u],
           Entries(u, "TOPUP")' = Entries(u, "TOPUP"), Charged(u)' = Charged(u)
    PROVE  Credits(u)'
  BY DEF Credits

\* The ledger charges a top-up.
LEMMA ChargeCounted ==
    ASSUME CInv, NEW c \in Topups, LedgerCharges(c), NEW u \in Users
    PROVE  Credits(u)'
<1> DEFINE v == topup[c].user
<1>1. /\ topup[c].pc = "transfer" /\ topup' = [topup EXCEPT ![c].pc = "charged"]
      /\ charges' = [charges EXCEPT ![v] = @ + 1]
      /\ UNCHANGED launcher
  BY DEF LedgerCharges
<1>2. Credits(u) /\ topup \in [Topups -> TopupCall] /\ charges \in [Users -> Nat]
  BY DEF CInv, IInv, TypeOK
<1>3. /\ topup'[c].pc = "charged" /\ topup'[c].user = topup[c].user
      /\ \A d \in Topups \ {c} : topup'[d] = topup[d]
  BY <1>1, <1>2 DEF TopupCall
<1>4. Entries(u, "TOPUP")' = Entries(u, "TOPUP")
  BY <1>1, SilentSteps, SilentEntries
<1>5. CASE v = u
  <2>1. Charged(u)' = Charged(u) \cup {c} /\ c \notin Charged(u)
    BY <1>1, <1>3, <1>5 DEF Charged
  <2>2. /\ IsFiniteSet(Charged(u)')
        /\ Cardinality(Charged(u)') = Cardinality(Charged(u)) + 1
    BY <1>2, <2>1, FS_AddElement DEF Credits
  <2>3. charges'[u] = charges[u] + 1
    BY <1>1, <1>2, <1>5
  <2>4. Cardinality(Entries(u, "TOPUP")) \in Nat /\ Cardinality(Charged(u)) \in Nat
    BY <1>2, FS_CardinalityType DEF Credits
  <2> HIDE DEF v
  <2> QED BY <1>2, <1>4, <2>2, <2>3, <2>4 DEF Credits
<1>6. CASE v # u
  <2>1. Charged(u)' = Charged(u)
    BY <1>1, <1>3, <1>6 DEF Charged
  <2>2. charges'[u] = charges[u]
    BY <1>1, <1>2, <1>6
  <2> QED BY <1>2, <1>4, <2>1, <2>2, CreditsStay
<1> QED BY <1>5, <1>6

\* The launcher credits a top-up.
LEMMA CreditCounted ==
    ASSUME CInv, NEW c \in Topups, TopupCredited(c), NEW u \in Users
    PROVE  Credits(u)'
<1> DEFINE v == topup[c].user
<1>1. /\ topup[c].pc = "charged" /\ topup' = [topup EXCEPT ![c] = IdleTopup]
      /\ UNCHANGED charges
  BY DEF TopupCredited, ledger
<1>2. Credits(u) /\ topup \in [Topups -> TopupCall] /\ HistoryOK
  BY DEF CInv, IInv, TypeOK, HistoryOK
<1>3. v \in DOMAIN profile
  BY <1>1 DEF CInv, IInv, CallsConsistent
<1>4. InitAndAdd(v, topup[c].amount, "TOPUP")
  BY <1>3 DEF TopupCredited
<1>5. /\ point_count + 2 \notin Entries(u, "TOPUP")
      /\ Entries(u, "TOPUP")' = IF v = u THEN Entries(u, "TOPUP") \cup {point_count + 2}
                                         ELSE Entries(u, "TOPUP")
  BY <1>2, <1>4, GrantEntries
<1>6. topup'[c].pc = "idle" /\ \A d \in Topups \ {c} : topup'[d] = topup[d]
  BY <1>1, <1>2 DEF IdleTopup
<1>7. Charged(u)' = IF v = u THEN Charged(u) \ {c} ELSE Charged(u)
  BY <1>1, <1>6 DEF Charged
<1>8. v = u => c \in Charged(u)
  BY <1>1 DEF Charged
<1> HIDE DEF v
<1>9. CASE v = u
  <2>1. /\ IsFiniteSet(Entries(u, "TOPUP")')
        /\ Cardinality(Entries(u, "TOPUP")') = Cardinality(Entries(u, "TOPUP")) + 1
    BY <1>2, <1>5, <1>9, FS_AddElement DEF Credits
  <2>2. /\ IsFiniteSet(Charged(u)')
        /\ Cardinality(Charged(u)') = Cardinality(Charged(u)) - 1
    BY <1>2, <1>7, <1>8, <1>9, FS_RemoveElement DEF Credits
  <2>3. Cardinality(Entries(u, "TOPUP")) \in Nat /\ Cardinality(Charged(u)) \in Nat
    BY <1>2, FS_CardinalityType DEF Credits
  <2> QED BY <1>1, <1>2, <2>1, <2>2, <2>3 DEF Credits
<1>10. CASE v # u
  BY <1>1, <1>2, <1>5, <1>7, <1>10, CreditsStay
<1> QED BY <1>9, <1>10

\* The other steps of a top-up neither enter nor leave the state "charged".
LEMMA TopupsStay ==
    ASSUME CInv, NEW c \in Topups, NEW to, topup' = [topup EXCEPT ![c] = to],
           topup[c].pc # "charged", to.pc # "charged", NEW u \in Users
    PROVE  Charged(u)' = Charged(u)
<1>1. topup'[c] = to /\ \A d \in Topups \ {c} : topup'[d] = topup[d]
  BY DEF CInv, IInv, TypeOK
<1> QED BY <1>1 DEF Charged

LEMMA TopupStepsStay ==
    ASSUME CInv, NEW c \in Topups, NEW from, NEW to, TopupStep(c, from, to),
           from # "charged", to.pc # "charged", NEW u \in Users
    PROVE  Credits(u)'
<1>1. Charged(u)' = Charged(u)
  BY TopupsStay DEF TopupStep
<1>2. Entries(u, "TOPUP")' = Entries(u, "TOPUP")
  BY SilentSteps, SilentEntries
<1>3. UNCHANGED charges
  BY DEF TopupStep, ledger
<1> QED BY <1>1, <1>2, <1>3, CreditsStay DEF CInv

LEMMA TopupsCounted ==
    ASSUME CInv, NEW c \in Topups, TopupProgress(c), NEW u \in Users
    PROVE  Credits(u)'
<1>1. topup[c] \in TopupCall /\ IdleTopup.pc = "idle"
  BY DEF CInv, IInv, TypeOK, IdleTopup
<1>2. CASE ReadBalance(c)
  <2> DEFINE to == [topup[c] EXCEPT !.pc = "allowance", !.balance = balance[topup[c].user]]
  <2>1. to.pc = "allowance"
    BY <1>1 DEF TopupCall
  <2>2. TopupStep(c, "balance", to)
    BY <1>2 DEF ReadBalance
  <2> HIDE DEF to
  <2> QED BY <2>1, <2>2, TopupStepsStay
<1>3. CASE ReadAllowance(c)
  <2> DEFINE to == [topup[c] EXCEPT !.pc = "price", !.allowance = allowance[topup[c].user]]
  <2>1. to.pc = "price"
    BY <1>1 DEF TopupCall
  <2>2. TopupStep(c, "allowance", to)
    BY <1>3 DEF ReadAllowance
  <2> HIDE DEF to
  <2> QED BY <2>1, <2>2, TopupStepsStay
<1>4. ASSUME NEW price \in Prices, QuoteAccepted(c, price) PROVE Credits(u)'
  <2> DEFINE fee == ChargedFee(topup[c].allowance, PlatformFee(topup[c].amount, price))
             to  == [topup[c] EXCEPT !.pc = "transfer", !.fee = fee]
  <2>1. TopupStep(c, "price", to)
    BY <1>4 DEF QuoteAccepted
  <2> HIDE DEF fee
  <2>2. to.pc = "transfer"
    BY <1>1 DEF TopupCall
  <2> HIDE DEF to
  <2> QED BY <2>1, <2>2, TopupStepsStay
<1>5. ASSUME NEW price \in Prices, QuoteRefused(c, price) PROVE Credits(u)'
  <2>1. TopupStep(c, "price", IdleTopup)
    BY <1>5 DEF QuoteRefused
  <2> QED BY <1>1, <2>1, TopupStepsStay
<1>6. CASE QuoteFails(c)
  <2>1. PICK from \in {"balance", "allowance", "price"} : TopupStep(c, from, IdleTopup)
    BY <1>6 DEF QuoteFails
  <2> QED BY <1>1, <2>1, TopupStepsStay
<1>7. CASE LedgerRefuses(c)
  <2> DEFINE to == [topup[c] EXCEPT !.pc = "refused"]
  <2>1. to.pc = "refused" /\ TopupStep(c, "transfer", to)
    BY <1>1, <1>7 DEF TopupCall, LedgerRefuses
  <2> HIDE DEF to
  <2> QED BY <2>1, TopupStepsStay
<1>8. CASE TopupRefused(c)
  <2>1. TopupStep(c, "refused", IdleTopup)
    BY <1>8 DEF TopupRefused
  <2> QED BY <1>1, <2>1, TopupStepsStay
<1> QED
  BY <1>2, <1>3, <1>4, <1>5, <1>6, <1>7, <1>8, ChargeCounted, CreditCounted DEF TopupProgress

LEMMA CreditsStep ==
    ASSUME CInv, [Next]_vars
    PROVE  CInv'
<1>1. IInv'
  BY InvStep DEF CInv
<1> SUFFICES ASSUME NEW u \in Users PROVE Credits(u)'
  BY <1>1 DEF CInv
<1>2. Credits(u) /\ HistoryOK
  BY DEF CInv, IInv, TypeOK, HistoryOK
<1>3. ASSUME UNCHANGED <<topup, charges>>, Entries(u, "TOPUP")' = Entries(u, "TOPUP")
      PROVE  Credits(u)'
  BY <1>2, <1>3, CreditsStay DEF Charged
<1>4. ASSUME NEW v \in Users, UserStep(v) PROVE Credits(u)'
  <2>1. ASSUME NEW kind, EditForFree(v, kind) PROVE Credits(u)'
    BY <1>3, <2>1, SilentSteps, SilentEntries DEF EditForFree, ledger
  <2>2. ASSUME NEW c \in Topups, NEW n, Topup(c, v, n) PROVE Credits(u)'
    <3> DEFINE to == [IdleTopup EXCEPT !.pc = "balance", !.user = v, !.amount = n]
    <3>1. /\ topup[c].pc = "idle" /\ topup' = [topup EXCEPT ![c] = to]
          /\ UNCHANGED charges /\ Silent
      BY <2>2, SilentSteps DEF Topup, ledger
    <3>2. to.pc = "balance"
      BY DEF IdleTopup
    <3> HIDE DEF to
    <3>3. Charged(u)' = Charged(u)
      BY <3>1, <3>2, TopupsStay
    <3> QED BY <1>2, <3>1, <3>3, SilentEntries, CreditsStay
  <2>3. ASSUME NEW e \in Edits, EditStart(e, v) PROVE Credits(u)'
    <3>1. UNCHANGED <<topup, charges>> /\ UNCHANGED launcher
      BY <2>3 DEF EditStart, EditForFreeWithImage, EditExisting, ledger
    <3> QED BY <1>3, <3>1, SilentSteps, SilentEntries
  <2>4. CASE ProjectSpends(v)
    <3>1. UNCHANGED <<topup, charges>> /\ Deduct(v, "COMMENT")
      BY <2>4 DEF ProjectSpends, ledger
    <3>2. Entries(u, "TOPUP")' = Entries(u, "TOPUP")
      BY <1>2, <3>1, DeductEntries
    <3> QED BY <1>3, <3>1, <3>2
  <2>5. CASE RewardCreator(v)
    <3>1. UNCHANGED <<topup, charges>> /\ InitAndAdd(v, CreateReward, "CREATEFOMO")
      BY <2>5 DEF RewardCreator, ledger
    <3>2. Entries(u, "TOPUP")' = Entries(u, "TOPUP")
      BY <1>2, <3>1, GrantEntries
    <3> QED BY <1>3, <3>1, <3>2
  <2>6. ASSUME NEW n \in AirdropAmounts, AirdropPoints(v, n) PROVE Credits(u)'
    <3>1. UNCHANGED <<topup, charges>>
      BY <2>6 DEF AirdropPoints, ledger
    <3>2. Entries(u, "TOPUP")' = Entries(u, "TOPUP")
      BY <1>2, <2>6, AirdropEntries
    <3> QED BY <1>3, <3>1, <3>2
  <2>7. ASSUME (\E a \in Allowances : Approve(v, a)) \/ SpendElsewhere(v) PROVE Credits(u)'
    <3>1. UNCHANGED <<topup, charges>> /\ UNCHANGED launcher
      BY <2>7 DEF Approve, SpendElsewhere
    <3> QED BY <1>3, <3>1, SilentSteps, SilentEntries
  <2> QED BY <1>4, <2>1, <2>2, <2>3, <2>4, <2>5, <2>6, <2>7 DEF UserStep
<1>5. ASSUME NEW c \in Topups, TopupProgress(c) PROVE Credits(u)'
  BY <1>5, TopupsCounted
<1>6. ASSUME NEW e \in Edits, EditProgress(e) PROVE Credits(u)'
  <2>1. UNCHANGED <<topup, charges>>
    BY <1>6 DEF EditProgress, SpendForEdit, EditRefused, EditPaid, EditPaidWithImage,
                UploadDone, UploadFails, ledger
  <2>2. CASE SpendForEdit(e)
    <3>1. Deduct(edit[e].user, "EDIT_AVATAR")
      BY <2>2 DEF SpendForEdit
    <3>2. Entries(u, "TOPUP")' = Entries(u, "TOPUP")
      BY <1>2, <3>1, DeductEntries
    <3> QED BY <1>3, <2>1, <3>2
  <2>3. CASE EditPaid(e) \/ UploadDone(e)
    <3>1. Silent
      BY <2>3, SilentSteps DEF EditPaid, UploadDone
    <3> QED BY <1>3, <2>1, <3>1, SilentEntries
  <2>4. CASE EditRefused(e) \/ EditPaidWithImage(e) \/ UploadFails(e)
    <3>1. Silent
      BY <2>4, SilentSteps DEF EditRefused, EditPaidWithImage, UploadFails
    <3> QED BY <1>3, <2>1, <3>1, SilentEntries
  <2> QED BY <1>6, <2>2, <2>3, <2>4 DEF EditProgress
<1>7. CASE CountPoint \/ Upgrade \/ UNCHANGED vars
  <2>1. UNCHANGED <<topup, charges>> /\ Silent
    BY <1>7 DEF CountPoint, Upgrade, PostUpgrade, PreUpgrade, vars, launcher, ledger, Silent
  <2> QED BY <1>3, <2>1, SilentEntries
<1> QED
  BY <1>4, <1>5, <1>6, <1>7 DEF Next

-----------------------------------------------------------------------------
(* The edits *)

\* The edits of u in flight that are paid for.
EditsPaid(u) == {e \in Edits : edit[e].paid /\ edit[e].user = u}

EditEntries(u) == Entries(u, "EDIT_AVATAR")

\* Before the registration nothing is paid, and nothing can be lost.
Payments(u) ==
    /\ IsFiniteSet(EditEntries(u)) /\ IsFiniteSet(EditsPaid(u))
    /\ u \in DOMAIN profile =>
           Cardinality(EditEntries(u)) + freeEdits[u] =
               profile[u].changes + lostEdits[u] + Cardinality(EditsPaid(u))
    /\ u \notin DOMAIN profile => EditEntries(u) = {} /\ freeEdits[u] = 0 /\ lostEdits[u] = 0

\* Only an edit with an image waits for an upload.
UploadsImages == \A e \in Edits : edit[e].pc = "upload" => edit[e].kind = "image"

(* The inductive invariant of the edits. *)
EInv == IInv /\ UploadsImages /\ \A u \in Users : Payments(u)

LEMMA InitPayments == Init => EInv
<1> SUFFICES ASSUME Init PROVE UploadsImages /\ \A u \in Users : Payments(u)
  BY InvInit DEF EInv
<1>1. UploadsImages
  BY DEF Init, UploadsImages, IdleEdit
<1>2. ASSUME NEW u \in Users PROVE Payments(u)
  <2>1. EditEntries(u) = {} /\ u \notin DOMAIN profile /\ freeEdits[u] = 0 /\ lostEdits[u] = 0
    BY DEF Init, Entries, EditEntries
  <2>2. EditsPaid(u) = {}
    BY DEF Init, EditsPaid, IdleEdit
  <2> QED BY <2>1, <2>2, FS_EmptySet DEF Payments
<1> QED BY <1>1, <1>2

LEMMA PaymentTypes ==
    ASSUME EInv, NEW u \in Users
    PROVE  /\ Payments(u)
           /\ freeEdits \in [Users -> Nat] /\ lostEdits \in [Users -> Nat]
           /\ Cardinality(EditEntries(u)) \in Nat /\ Cardinality(EditsPaid(u)) \in Nat
           /\ u \in DOMAIN profile => profile[u] \in Profile /\ profile[u].changes \in Nat
           /\ u \notin DOMAIN profile => EditsPaid(u) = {} /\ Cardinality(EditsPaid(u)) = 0
<1>1. Payments(u)
  BY DEF EInv
<1>2. freeEdits \in [Users -> Nat] /\ lostEdits \in [Users -> Nat]
  BY DEF EInv, IInv, TypeOK
<1>3. Cardinality(EditEntries(u)) \in Nat /\ Cardinality(EditsPaid(u)) \in Nat
  BY <1>1, FS_CardinalityType DEF Payments
<1>4. u \in DOMAIN profile => profile[u] \in Profile /\ profile[u].changes \in Nat
  BY DEF EInv, IInv, TypeOK, Profile
<1>5. u \notin DOMAIN profile => EditsPaid(u) = {}
  BY DEF EInv, IInv, CallsConsistent, EditsPaid
<1> QED BY <1>1, <1>2, <1>3, <1>4, <1>5, FS_EmptySet

\* A step that does not concern the edits of u.
LEMMA PaymentsStay ==
    ASSUME NEW u \in Users, Payments(u),
           EditEntries(u)' = EditEntries(u), EditsPaid(u)' = EditsPaid(u),
           freeEdits'[u] = freeEdits[u], lostEdits'[u] = lostEdits[u],
           u \in DOMAIN profile' <=> u \in DOMAIN profile,
           u \in DOMAIN profile => profile'[u].changes = profile[u].changes
    PROVE  Payments(u)'
  BY DEF Payments

\* What an edit writes of the counts.
LEMMA FinishCounts ==
    ASSUME EInv, NEW v \in Users, NEW kind, NEW free, FinishEdit(v, kind, free)
    PROVE  /\ \A u \in Users : EditEntries(u)' = EditEntries(u)
           /\ lostEdits' = lostEdits
           /\ \A u \in Users \ {v} : /\ u \in DOMAIN profile' <=> u \in DOMAIN profile
                                     /\ u \in DOMAIN profile => profile'[u] = profile[u]
                                     /\ freeEdits'[u] = freeEdits[u]
           /\ v \in DOMAIN profile'
           /\ v \notin DOMAIN profile => /\ profile'[v].changes = 0
                                         /\ freeEdits'[v] = freeEdits[v]
           /\ v \in DOMAIN profile /\ kind = "empty" =>
                  /\ profile'[v].changes = profile[v].changes
                  /\ freeEdits'[v] = freeEdits[v]
           /\ v \in DOMAIN profile /\ kind # "empty" =>
                  /\ profile'[v].changes = profile[v].changes + 1
                  /\ free => freeEdits'[v] = freeEdits[v] + 1
                  /\ ~free => freeEdits'[v] = freeEdits[v]
<1> DEFINE p == IF v \in DOMAIN profile THEN Edited(profile[v], kind) ELSE NewProfile
<1>1. /\ profile' = Put(profile, v, p)
      /\ freeEdits' = IF v \in DOMAIN profile /\ kind # "empty" /\ free
                      THEN [freeEdits EXCEPT ![v] = @ + 1] ELSE freeEdits
      /\ lostEdits' = lostEdits /\ Silent
  BY DEF FinishEdit, Silent
<1>2. freeEdits \in [Users -> Nat]
  BY DEF EInv, IInv, TypeOK
<1>3. v \notin DOMAIN profile => p.changes = 0
  BY DEF NewProfile
<1>4. v \in DOMAIN profile =>
          p.changes = IF kind = "empty" THEN profile[v].changes ELSE profile[v].changes + 1
  <2> SUFFICES ASSUME v \in DOMAIN profile
               PROVE  p.changes = IF kind = "empty" THEN profile[v].changes
                                                    ELSE profile[v].changes + 1
    OBVIOUS
  <2> DEFINE q == profile[v]
             s == IF q.points = None THEN 0 ELSE q.spent
             n == IF kind = "empty" THEN q.changes ELSE q.changes + 1
  <2>1. p = [[q EXCEPT !.spent = s] EXCEPT !.changes = n]
    BY DEF Edited
  <2>2. q \in Profile
    BY DEF EInv, IInv, TypeOK
  <2> HIDE DEF q, s, n, p
  <2>3. p.changes = n
    BY <2>1, <2>2 DEF Profile
  <2> QED BY <2>3 DEF n, q
<1> HIDE DEF p
<1>5. /\ DOMAIN profile' = DOMAIN profile \cup {v} /\ profile'[v] = p
      /\ \A u \in DOMAIN profile \ {v} : profile'[u] = profile[u]
  BY <1>1 DEF Put
<1>6. \A u \in Users : EditEntries(u)' = EditEntries(u)
  BY <1>1, SilentEntries DEF EditEntries
<1>7. \A u \in Users \ {v} : freeEdits'[u] = freeEdits[u]
  BY <1>1, <1>2
<1>8. /\ v \notin DOMAIN profile \/ kind = "empty" \/ ~free => freeEdits'[v] = freeEdits[v]
      /\ v \in DOMAIN profile /\ kind # "empty" /\ free => freeEdits'[v] = freeEdits[v] + 1
  BY <1>1, <1>2
<1> QED BY <1>1, <1>3, <1>4, <1>5, <1>6, <1>7, <1>8

\* An edit that is applied without a payment: of a new user, without values, or free.
LEMMA FinishedFree ==
    ASSUME EInv, NEW v \in Users, NEW kind, NEW free, FinishEdit(v, kind, free),
           v \notin DOMAIN profile \/ kind = "empty" \/ free,
           NEW u \in Users, EditsPaid(u)' = EditsPaid(u)
    PROVE  Payments(u)'
<1>1. CASE u # v
  BY <1>1, FinishCounts, PaymentTypes, PaymentsStay
<1>2. CASE u = v /\ u \notin DOMAIN profile
  <2>1. /\ profile'[u].changes = 0 /\ freeEdits'[u] = freeEdits[u] /\ lostEdits' = lostEdits
        /\ EditEntries(u)' = EditEntries(u) /\ u \in DOMAIN profile'
    BY <1>2, FinishCounts
  <2>2. EditEntries(u) = {} /\ EditsPaid(u) = {} /\ freeEdits[u] = 0 /\ lostEdits[u] = 0
    BY <1>2, PaymentTypes DEF Payments
  <2> QED BY <2>1, <2>2, FS_EmptySet DEF Payments
<1>3. CASE u = v /\ u \in DOMAIN profile
  <2>1. EditEntries(u)' = EditEntries(u) /\ lostEdits' = lostEdits /\ u \in DOMAIN profile'
    BY <1>3, FinishCounts
  <2>2. \/ profile'[u].changes = profile[u].changes /\ freeEdits'[u] = freeEdits[u]
        \/ profile'[u].changes = profile[u].changes + 1 /\ freeEdits'[u] = freeEdits[u] + 1
    BY <1>3, FinishCounts
  <2>3. /\ Payments(u)
        /\ freeEdits[u] \in Nat /\ lostEdits[u] \in Nat /\ profile[u].changes \in Nat
        /\ Cardinality(EditEntries(u)) \in Nat /\ Cardinality(EditsPaid(u)) \in Nat
    BY <1>3, PaymentTypes
  <2> QED BY <1>3, <2>1, <2>2, <2>3 DEF Payments
<1> QED BY <1>1, <1>2, <1>3

\* An edit in flight that its user paid for ends: applied, or lost.
LEMMA PaidLeaves ==
    ASSUME EInv, NEW e \in Edits, edit[e].paid, edit' = [edit EXCEPT ![e] = IdleEdit],
           NEW u \in Users
    PROVE  /\ edit[e].user # u => EditsPaid(u)' = EditsPaid(u)
           /\ edit[e].user = u => /\ IsFiniteSet(EditsPaid(u)')
                                  /\ Cardinality(EditsPaid(u)') = Cardinality(EditsPaid(u)) - 1
<1>1. ~edit'[e].paid /\ \A d \in Edits \ {e} : edit'[d] = edit[d]
  BY DEF EInv, IInv, TypeOK, IdleEdit
<1>2. edit[e].user # u => EditsPaid(u)' = EditsPaid(u)
  BY <1>1 DEF EditsPaid
<1>3. edit[e].user = u => EditsPaid(u)' = EditsPaid(u) \ {e} /\ e \in EditsPaid(u)
  BY <1>1 DEF EditsPaid
<1>4. IsFiniteSet(EditsPaid(u))
  BY DEF EInv, Payments
<1> QED BY <1>2, <1>3, <1>4, FS_RemoveElement

LEMMA FinishedPaid ==
    ASSUME EInv, NEW e \in Edits, edit[e].paid, edit' = [edit EXCEPT ![e] = IdleEdit],
           NEW kind, kind # "empty", NEW free, ~free, FinishEdit(edit[e].user, kind, free),
           NEW u \in Users
    PROVE  Payments(u)'
<1> DEFINE v == edit[e].user
<1>1. v \in DOMAIN profile /\ v \in Users
  BY DEF EInv, IInv, CallsConsistent, TypeOK
<1>2. CASE u # v
  <2>1. EditsPaid(u)' = EditsPaid(u)
    BY <1>2, PaidLeaves
  <2> HIDE DEF v
  <2>2. FinishEdit(v, kind, free)
    BY DEF v
  <2> QED BY <1>1, <1>2, <2>1, <2>2, FinishCounts, PaymentTypes, PaymentsStay
<1>3. CASE u = v
  <2>1. /\ IsFiniteSet(EditsPaid(u)')
        /\ Cardinality(EditsPaid(u)') = Cardinality(EditsPaid(u)) - 1
    BY <1>3, PaidLeaves
  <2>2. /\ EditEntries(u)' = EditEntries(u) /\ lostEdits' = lostEdits /\ u \in DOMAIN profile'
        /\ profile'[u].changes = profile[u].changes + 1 /\ freeEdits'[u] = freeEdits[u]
    BY <1>1, <1>3, FinishCounts
  <2>3. /\ Payments(u)
        /\ freeEdits[u] \in Nat /\ lostEdits[u] \in Nat /\ profile[u].changes \in Nat
        /\ Cardinality(EditEntries(u)) \in Nat /\ Cardinality(EditsPaid(u)) \in Nat
    BY <1>1, <1>3, PaymentTypes
  <2> QED BY <1>1, <1>3, <2>1, <2>2, <2>3 DEF Payments
<1> QED BY <1>2, <1>3

\* A slot that holds no paid edit before and after the step.
LEMMA UnpaidMoves ==
    ASSUME EInv, NEW e \in Edits, NEW to, edit' = [edit EXCEPT ![e] = to],
           ~edit[e].paid, ~to.paid, NEW u \in Users
    PROVE  EditsPaid(u)' = EditsPaid(u)
<1>1. edit'[e] = to /\ \A d \in Edits \ {e} : edit'[d] = edit[d]
  BY DEF EInv, IInv, TypeOK
<1> QED BY <1>1 DEF EditsPaid

\* The points operations leave the counts of edits alone.
LEMMA PointsKeepChanges ==
    ASSUME NEW p \in Profile, NEW n
    PROVE  /\ AddPoints(p, n).changes = p.changes
           /\ InitPoints(p).changes = p.changes
           /\ AddPoints(InitPoints(p), n).changes = p.changes
           /\ DeductPoints(p, n).changes = p.changes
<1>1. InitPoints(p).changes = p.changes
  BY DEF InitPoints, Profile
<1>2. AddPoints(p, n).changes = p.changes
  BY DEF AddPoints, Profile
<1>3. AddPoints(InitPoints(p), n).changes = InitPoints(p).changes
  <2> DEFINE q == InitPoints(p)
  <2>1. q \in Profile
    BY InitPointsType
  <2> HIDE DEF q
  <2>2. AddPoints(q, n).changes = q.changes
    BY <2>1 DEF AddPoints, Profile
  <2> QED BY <2>2 DEF q
<1>4. DeductPoints(p, n).changes = p.changes
  BY DEF DeductPoints, Profile
<1> QED BY <1>1, <1>2, <1>3, <1>4

LEMMA PointsWritten ==
    ASSUME EInv, NEW v \in DOMAIN profile, NEW p, p.changes = profile[v].changes,
           profile' = Put(profile, v, p)
    PROVE  /\ DOMAIN profile' = DOMAIN profile
           /\ \A u \in DOMAIN profile : profile'[u].changes = profile[u].changes
  BY DEF Put

\* The points are spent, and the edit is paid for.
LEMMA SpendCounted ==
    ASSUME EInv, NEW e \in Edits, SpendForEdit(e), NEW u \in Users
    PROVE  Payments(u)'
<1> DEFINE v == edit[e].user
           n == SpendPrice("EDIT_AVATAR")
<1>1. /\ edit[e].pc = "spending"
      /\ edit' = [edit EXCEPT ![e].pc = "spent", ![e].paid = TRUE]
      /\ Deduct(v, "EDIT_AVATAR") /\ v \in DOMAIN profile
      /\ profile' = Put(profile, v, DeductPoints(profile[v], n))
      /\ UNCHANGED <<freeEdits, lostEdits>>
  BY DEF SpendForEdit, Deduct, CanDeduct, audit
<1>2. ~edit[e].paid
  BY <1>1 DEF EInv, IInv, CallsConsistent
<1>3. /\ edit'[e].paid /\ edit'[e].user = v
      /\ \A d \in Edits \ {e} : edit'[d] = edit[d]
  <2>1. edit' = [[edit EXCEPT ![e].pc = "spent"] EXCEPT ![e].paid = TRUE]
    BY <1>1
  <2>2. edit \in [Edits -> EditCall]
    BY DEF EInv, IInv, TypeOK
  <2> QED BY <2>1, <2>2 DEF EditCall
<1>4. HistoryOK /\ profile[v] \in Profile
  BY <1>1 DEF EInv, IInv, TypeOK, HistoryOK
<1>5. /\ point_count + 1 \notin EditEntries(u)
      /\ EditEntries(u)' = IF v = u THEN EditEntries(u) \cup {point_count + 1}
                                    ELSE EditEntries(u)
  BY <1>1, <1>4, DeductEntries DEF EditEntries
<1>6. /\ EditsPaid(u)' = IF v = u THEN EditsPaid(u) \cup {e} ELSE EditsPaid(u)
      /\ e \notin EditsPaid(u)
  BY <1>2, <1>3 DEF EditsPaid
<1>7. /\ DOMAIN profile' = DOMAIN profile
      /\ \A w \in DOMAIN profile : profile'[w].changes = profile[w].changes
  <2>1. DeductPoints(profile[v], n).changes = profile[v].changes
    BY <1>4, PointsKeepChanges
  <2> HIDE DEF v, n
  <2> QED BY <1>1, <2>1, PointsWritten
<1>8. /\ Payments(u)
      /\ freeEdits[u] \in Nat /\ lostEdits[u] \in Nat
      /\ Cardinality(EditEntries(u)) \in Nat /\ Cardinality(EditsPaid(u)) \in Nat
      /\ u \in DOMAIN profile => profile[u].changes \in Nat
  BY PaymentTypes
<1> HIDE DEF n
<1>9. CASE v = u
  <2>1. /\ IsFiniteSet(EditEntries(u)')
        /\ Cardinality(EditEntries(u)') = Cardinality(EditEntries(u)) + 1
    BY <1>5, <1>8, <1>9, FS_AddElement DEF Payments
  <2>2. /\ IsFiniteSet(EditsPaid(u)')
        /\ Cardinality(EditsPaid(u)') = Cardinality(EditsPaid(u)) + 1
    BY <1>6, <1>8, <1>9, FS_AddElement DEF Payments
  <2>3. u \in DOMAIN profile /\ u \in DOMAIN profile' /\ profile'[u].changes = profile[u].changes
    BY <1>1, <1>7, <1>9
  <2> HIDE DEF v
  <2> QED BY <1>1, <1>8, <2>1, <2>2, <2>3 DEF Payments
<1>10. CASE v # u
  <2>1. EditEntries(u)' = EditEntries(u) /\ EditsPaid(u)' = EditsPaid(u)
    BY <1>5, <1>6, <1>10
  <2> HIDE DEF v
  <2> QED BY <1>1, <1>7, <1>8, <2>1, PaymentsStay
<1> QED BY <1>9, <1>10

\* An upload fails: what was paid for it is lost.
LEMMA LossCounted ==
    ASSUME EInv, NEW e \in Edits, UploadFails(e), NEW u \in Users
    PROVE  Payments(u)'
<1> DEFINE v == edit[e].user
<1>1. /\ edit' = [edit EXCEPT ![e] = IdleEdit] /\ edit[e].pc = "upload"
      /\ lostEdits' = IF edit[e].paid THEN [lostEdits EXCEPT ![v] = @ + 1] ELSE lostEdits
      /\ UNCHANGED <<profile, freeEdits>> /\ Silent
  BY SilentSteps DEF UploadFails, launcher
<1>2. /\ Payments(u)
      /\ freeEdits[u] \in Nat /\ lostEdits \in [Users -> Nat]
      /\ Cardinality(EditEntries(u)) \in Nat /\ Cardinality(EditsPaid(u)) \in Nat
      /\ u \in DOMAIN profile => profile[u].changes \in Nat
  BY PaymentTypes
<1>3. EditEntries(u)' = EditEntries(u)
  BY <1>1, SilentEntries DEF EditEntries
<1>4. CASE ~edit[e].paid
  <2>1. EditsPaid(u)' = EditsPaid(u)
    <3>1. ~IdleEdit.paid
      BY DEF IdleEdit
    <3> QED BY <1>1, <1>4, <3>1, UnpaidMoves
  <2> QED BY <1>1, <1>2, <1>3, <1>4, <2>1, PaymentsStay
<1>5. CASE edit[e].paid /\ v = u
  <2>1. /\ IsFiniteSet(EditsPaid(u)')
        /\ Cardinality(EditsPaid(u)') = Cardinality(EditsPaid(u)) - 1
    BY <1>1, <1>5, PaidLeaves
  <2>2. lostEdits'[u] = lostEdits[u] + 1
    BY <1>1, <1>2, <1>5
  <2>3. u \in DOMAIN profile
    BY <1>5 DEF EInv, IInv, CallsConsistent
  <2> HIDE DEF v
  <2> QED BY <1>1, <1>2, <1>3, <2>1, <2>2, <2>3 DEF Payments
<1>6. CASE edit[e].paid /\ v # u
  <2>1. EditsPaid(u)' = EditsPaid(u)
    BY <1>1, <1>6, PaidLeaves
  <2>2. lostEdits'[u] = lostEdits[u]
    BY <1>1, <1>2, <1>6
  <2> QED BY <1>1, <1>2, <1>3, <2>1, <2>2, PaymentsStay
<1> QED BY <1>4, <1>5, <1>6

\* An edit waits for an upload only when it came with an image.
LEMMA ImagesStep ==
    ASSUME EInv, [Next]_vars
    PROVE  UploadsImages'
<1>1. edit \in [Edits -> EditCall] /\ UploadsImages
  BY DEF EInv, IInv, TypeOK
<1>2. ASSUME NEW e \in Edits, edit' = [edit EXCEPT ![e] = IdleEdit] PROVE UploadsImages'
  BY <1>1, <1>2 DEF UploadsImages, IdleEdit
<1>3. ASSUME NEW e \in Edits, NEW v \in Users, EditStart(e, v) PROVE UploadsImages'
  BY <1>1, <1>3 DEF EditStart, EditForFreeWithImage, EditExisting, UploadsImages
<1>4. ASSUME NEW e \in Edits, SpendForEdit(e) PROVE UploadsImages'
  <2>1. edit' = [[edit EXCEPT ![e].pc = "spent"] EXCEPT ![e].paid = TRUE]
    BY <1>4 DEF SpendForEdit
  <2>2. edit'[e].pc # "upload" /\ \A d \in Edits \ {e} : edit'[d] = edit[d]
    BY <1>1, <2>1 DEF EditCall
  <2> QED BY <1>1, <2>2 DEF UploadsImages
<1>5. ASSUME NEW e \in Edits, EditPaidWithImage(e) PROVE UploadsImages'
  <2>1. edit' = [edit EXCEPT ![e].pc = "upload"] /\ edit[e].kind = "image"
    BY <1>5 DEF EditPaidWithImage
  <2>2. edit'[e].kind = "image" /\ \A d \in Edits \ {e} : edit'[d] = edit[d]
    BY <1>1, <2>1 DEF EditCall
  <2> QED BY <1>1, <2>2 DEF UploadsImages
<1>6. ASSUME NEW e \in Edits, EditRefused(e) \/ EditPaid(e) \/ UploadDone(e) \/ UploadFails(e)
      PROVE  UploadsImages'
  BY <1>2, <1>6 DEF EditRefused, EditPaid, UploadDone, UploadFails
<1>7. ASSUME edit' = edit PROVE UploadsImages'
  BY <1>1, <1>7 DEF UploadsImages
<1>8. ASSUME NEW v \in Users, UserStep(v) PROVE UploadsImages'
  BY <1>3, <1>7, <1>8 DEF UserStep, EditForFree, Topup, ProjectSpends, RewardCreator,
                          AirdropPoints, Approve, SpendElsewhere
<1>9. ASSUME NEW c \in Topups, TopupProgress(c) PROVE UploadsImages'
  BY <1>7, <1>9 DEF TopupProgress, ReadBalance, ReadAllowance, QuoteAccepted, QuoteRefused,
                    QuoteFails, LedgerCharges, LedgerRefuses, TopupCredited, TopupRefused,
                    TopupStep
<1>10. CASE CountPoint \/ Upgrade \/ UNCHANGED vars
  BY <1>7, <1>10 DEF CountPoint, Upgrade, vars
<1> QED
  BY <1>4, <1>5, <1>6, <1>8, <1>9, <1>10 DEF Next, EditProgress

LEMMA EditsCounted ==
    ASSUME EInv, NEW e \in Edits, EditProgress(e), NEW u \in Users
    PROVE  Payments(u)'
<1> DEFINE v == edit[e].user
<1>1. edit \in [Edits -> EditCall] /\ edit[e] \in EditCall /\ UploadsImages
  BY DEF EInv, IInv, TypeOK
<1>2. /\ IdleEdit.pc # "upload" /\ ~IdleEdit.paid
  BY DEF IdleEdit
<1>3. edit[e].pc # "idle" => v \in Users
  BY DEF EInv, IInv, CallsConsistent
<1>5. CASE SpendForEdit(e)
  BY <1>5, SpendCounted
<1>6. CASE EditRefused(e)
  <2>1. /\ edit' = [edit EXCEPT ![e] = IdleEdit] /\ edit[e].pc = "spending"
        /\ UNCHANGED <<profile, freeEdits, lostEdits>> /\ Silent
    BY <1>6, SilentSteps DEF EditRefused, launcher, audit
  <2>2. ~edit[e].paid
    BY <2>1 DEF EInv, IInv, CallsConsistent
  <2>3. EditsPaid(u)' = EditsPaid(u)
    BY <1>2, <2>1, <2>2, UnpaidMoves
  <2>4. EditEntries(u)' = EditEntries(u)
    BY <2>1, SilentEntries DEF EditEntries
  <2> QED BY <2>1, <2>3, <2>4, PaymentTypes, PaymentsStay
<1>7. CASE EditPaid(e)
  <2>1. /\ edit' = [edit EXCEPT ![e] = IdleEdit] /\ edit[e].pc = "spent"
        /\ edit[e].kind # "empty" /\ FinishEdit(v, edit[e].kind, FALSE)
    BY <1>7 DEF EditPaid
  <2>2. edit[e].paid
    BY <2>1 DEF EInv, IInv, CallsConsistent
  <2> QED BY <2>1, <2>2, FinishedPaid
<1>8. CASE EditPaidWithImage(e)
  <2>1. /\ edit' = [edit EXCEPT ![e].pc = "upload"]
        /\ UNCHANGED <<profile, freeEdits, lostEdits>> /\ Silent
    BY <1>8, SilentSteps DEF EditPaidWithImage, launcher, audit
  <2>2. /\ edit'[e].paid = edit[e].paid /\ edit'[e].user = edit[e].user
        /\ \A d \in Edits \ {e} : edit'[d] = edit[d]
    BY <1>1, <2>1 DEF EditCall
  <2>3. EditsPaid(u)' = EditsPaid(u)
    BY <2>2 DEF EditsPaid
  <2>4. EditEntries(u)' = EditEntries(u)
    BY <2>1, SilentEntries DEF EditEntries
  <2> QED BY <2>1, <2>3, <2>4, PaymentTypes, PaymentsStay
<1>9. CASE UploadDone(e)
  <2> DEFINE kind == edit[e].kind
             free == ~edit[e].paid
  <2>1. /\ edit' = [edit EXCEPT ![e] = IdleEdit] /\ edit[e].pc = "upload"
        /\ FinishEdit(v, kind, free)
    BY <1>9 DEF UploadDone
  <2>2. kind # "empty" /\ v \in Users
    BY <1>1, <1>3, <2>1 DEF UploadsImages
  <2>3. CASE edit[e].paid
    <3>1. FinishEdit(v, kind, FALSE)
      BY <2>1, <2>3 DEF FinishEdit
    <3> HIDE DEF kind
    <3> QED BY <2>1, <2>2, <2>3, <3>1, FinishedPaid
  <2>4. CASE ~edit[e].paid
    <3>1. EditsPaid(u)' = EditsPaid(u)
      BY <1>2, <2>1, <2>4, UnpaidMoves
    <3>2. free
      BY <2>4
    <3> HIDE DEF kind, free, v
    <3> QED BY <2>1, <2>2, <3>1, <3>2, FinishedFree
  <2> QED BY <2>3, <2>4
<1>10. CASE UploadFails(e)
  BY <1>10, LossCounted
<1> QED BY <1>5, <1>6, <1>7, <1>8, <1>9, <1>10 DEF EditProgress

LEMMA PaymentsStep ==
    ASSUME EInv, [Next]_vars
    PROVE  EInv'
<1>1. IInv'
  BY InvStep DEF EInv
<1> SUFFICES ASSUME NEW u \in Users PROVE Payments(u)'
  BY <1>1, ImagesStep DEF EInv
<1>2. HistoryOK
  BY DEF EInv, IInv, TypeOK, HistoryOK
<1>3. ASSUME edit' = edit PROVE EditsPaid(u)' = EditsPaid(u)
  BY <1>3 DEF EditsPaid
<1>4. ASSUME UNCHANGED <<edit, freeEdits, lostEdits>>,
             EditEntries(u)' = EditEntries(u), DOMAIN profile' = DOMAIN profile,
             \A w \in DOMAIN profile : profile'[w].changes = profile[w].changes
      PROVE  Payments(u)'
  BY <1>3, <1>4, PaymentTypes, PaymentsStay
<1>5. ASSUME NEW v \in DOMAIN profile, NEW n, NEW busi, busi # "EDIT_AVATAR",
             InitAndAdd(v, n, busi), UNCHANGED <<edit, freeEdits, lostEdits>>
      PROVE  Payments(u)'
  <2>1. EditEntries(u)' = EditEntries(u)
    BY <1>2, <1>5, GrantEntries DEF EditEntries
  <2> DEFINE p == AddPoints(InitPoints(profile[v]), n)
  <2>2. profile' = Put(profile, v, p)
    BY <1>5 DEF InitAndAdd
  <2>3. p.changes = profile[v].changes
    BY PointsKeepChanges DEF EInv, IInv, TypeOK
  <2> HIDE DEF p
  <2> QED BY <1>4, <1>5, <2>1, <2>2, <2>3, PointsWritten
<1>6. ASSUME NEW v \in Users, UserStep(v) PROVE Payments(u)'
  <2>1. ASSUME NEW kind \in EditKinds, EditForFree(v, kind)
        PROVE  Payments(u)'
    <3>1. /\ FinishEdit(v, kind, TRUE) /\ edit' = edit
          /\ v \notin DOMAIN profile \/ kind = "empty"
      BY <2>1 DEF EditForFree
    <3> QED BY <1>3, <3>1, FinishedFree
  <2>2. ASSUME NEW c \in Topups, NEW n, Topup(c, v, n)
        PROVE  Payments(u)'
    <3>1. FinishEdit(v, "empty", TRUE) /\ edit' = edit
      BY <2>2 DEF Topup
    <3> QED BY <1>3, <3>1, FinishedFree
  <2>3. ASSUME NEW e \in Edits, EditStart(e, v)
        PROVE  Payments(u)'
    <3>1. /\ edit[e].pc = "idle" /\ UNCHANGED <<profile, freeEdits, lostEdits>> /\ Silent
      BY <2>3, SilentSteps DEF EditStart, EditForFreeWithImage, EditExisting, launcher, audit
    <3>2. ~edit[e].paid
      BY <3>1 DEF EInv, IInv, CallsConsistent
    <3>3. \E to : edit' = [edit EXCEPT ![e] = to] /\ ~to.paid
      <4>1. CASE EditForFreeWithImage(e, v)
        <5> DEFINE to == [pc |-> "upload", user |-> v, kind |-> "image", paid |-> FALSE]
        <5>1. edit' = [edit EXCEPT ![e] = to]
          BY <4>1 DEF EditForFreeWithImage
        <5>2. ~to.paid
          OBVIOUS
        <5> HIDE DEF to
        <5> QED BY <5>1, <5>2
      <4>2. ASSUME NEW kind \in EditKinds, EditExisting(e, v, kind)
            PROVE  \E to : edit' = [edit EXCEPT ![e] = to] /\ ~to.paid
        <5> DEFINE to == [pc |-> "spending", user |-> v, kind |-> kind, paid |-> FALSE]
        <5>1. edit' = [edit EXCEPT ![e] = to]
          BY <4>2 DEF EditExisting
        <5>2. ~to.paid
          OBVIOUS
        <5> HIDE DEF to
        <5> QED BY <5>1, <5>2
      <4> QED BY <2>3, <4>1, <4>2 DEF EditStart
    <3>4. PICK to : edit' = [edit EXCEPT ![e] = to] /\ ~to.paid
      BY <3>3
    <3>5. EditsPaid(u)' = EditsPaid(u)
      BY <3>2, <3>4, UnpaidMoves
    <3>6. EditEntries(u)' = EditEntries(u)
      BY <3>1, SilentEntries DEF EditEntries
    <3> QED BY <3>1, <3>5, <3>6, PaymentTypes, PaymentsStay
  <2>4. CASE ProjectSpends(v)
    <3> DEFINE p == DeductPoints(profile[v], SpendPrice("COMMENT"))
    <3>1. /\ UNCHANGED <<edit, freeEdits, lostEdits>> /\ Deduct(v, "COMMENT")
          /\ v \in DOMAIN profile /\ profile' = Put(profile, v, p)
      BY <2>4 DEF ProjectSpends, CanDeduct, Deduct, audit
    <3>2. EditEntries(u)' = EditEntries(u)
      BY <1>2, <3>1, DeductEntries DEF EditEntries
    <3>3. p.changes = profile[v].changes
      BY <3>1, PointsKeepChanges DEF EInv, IInv, TypeOK
    <3> HIDE DEF p
    <3> QED BY <1>4, <3>1, <3>2, <3>3, PointsWritten
  <2>5. CASE RewardCreator(v)
    <3>1. /\ v \in DOMAIN profile /\ InitAndAdd(v, CreateReward, "CREATEFOMO")
          /\ UNCHANGED <<edit, freeEdits, lostEdits>>
      BY <2>5 DEF RewardCreator, audit
    <3> QED BY <1>5, <3>1
  <2>6. ASSUME NEW n \in AirdropAmounts, AirdropPoints(v, n)
        PROVE  Payments(u)'
    <3> DEFINE p == AddPoints(profile[v], n)
    <3>1. /\ UNCHANGED <<edit, freeEdits, lostEdits>>
          /\ v \in DOMAIN profile /\ profile' = Put(profile, v, p)
      BY <2>6 DEF AirdropPoints, audit
    <3>2. EditEntries(u)' = EditEntries(u)
      BY <1>2, <2>6, AirdropEntries DEF EditEntries
    <3>3. p.changes = profile[v].changes
      BY <3>1, PointsKeepChanges DEF EInv, IInv, TypeOK
    <3> HIDE DEF p
    <3> QED BY <1>4, <3>1, <3>2, <3>3, PointsWritten
  <2>7. ASSUME (\E a \in Allowances : Approve(v, a)) \/ SpendElsewhere(v)
        PROVE  Payments(u)'
    <3>1. UNCHANGED <<edit, freeEdits, lostEdits, profile>> /\ UNCHANGED launcher
      BY <2>7 DEF Approve, SpendElsewhere, launcher, audit
    <3> QED BY <1>4, <3>1, SilentSteps, SilentEntries DEF EditEntries
  <2> QED BY <1>6, <2>1, <2>2, <2>3, <2>4, <2>5, <2>6, <2>7 DEF UserStep
<1>7. ASSUME NEW c \in Topups, TopupProgress(c) PROVE Payments(u)'
  <2>1. CASE TopupCredited(c)
    <3>1. topup[c].user \in DOMAIN profile
      BY <2>1 DEF TopupCredited, EInv, IInv, CallsConsistent
    <3>2. /\ InitAndAdd(topup[c].user, topup[c].amount, "TOPUP")
          /\ UNCHANGED <<edit, freeEdits, lostEdits>>
      BY <2>1, <3>1 DEF TopupCredited, audit
    <3> QED BY <1>5, <3>1, <3>2
  <2>2. CASE ~TopupCredited(c)
    <3>1. UNCHANGED <<edit, freeEdits, lostEdits, profile>> /\ UNCHANGED launcher
      BY <1>7, <2>2 DEF TopupProgress, ReadBalance, ReadAllowance, QuoteAccepted, QuoteRefused,
                        QuoteFails, LedgerCharges, LedgerRefuses, TopupRefused, TopupStep,
                        launcher, audit
    <3> QED BY <1>4, <3>1, SilentSteps, SilentEntries DEF EditEntries
  <2> QED BY <2>1, <2>2
<1>8. ASSUME NEW e \in Edits, EditProgress(e) PROVE Payments(u)'
  BY <1>8, EditsCounted
<1>9. CASE CountPoint \/ Upgrade \/ UNCHANGED vars
  <2>1. UNCHANGED <<edit, freeEdits, lostEdits, profile>> /\ Silent
    BY <1>9 DEF CountPoint, Upgrade, PostUpgrade, PreUpgrade, vars, launcher, audit, Silent
  <2> QED BY <1>4, <2>1, SilentEntries DEF EditEntries
<1> QED
  BY <1>6, <1>7, <1>8, <1>9 DEF Next

-----------------------------------------------------------------------------
(* The points *)

OfUser(u, op) == {i \in DOMAIN history : history[i].user = u /\ history[i].op = op}

Amounts(h) == [i \in DOMAIN h |-> h[i].amount]

LEMMA AmountsSum ==
    ASSUME NEW h, NEW S, IsFiniteSet(S), S \subseteq DOMAIN h
    PROVE  MapThenSumSet(LAMBDA i : h[i].amount, S) = Sum(Amounts(h), S)
<1> DEFINE a == Amounts(h)
           it == CHOOSE it : it = [s \in SUBSET S |->
                    IF s = {} THEN 0
                    ELSE LET x == CHOOSE x \in s : TRUE IN h[x].amount + it[s \ {x}]]
<1>1. MapThenSumSet(LAMBDA i : h[i].amount, S) = it[S]
  BY DEF MapThenSumSet, MapThenFoldSet
<1>2. PICK g : Sums(a, S, g) /\ Sum(a, S) = g[S]
  BY SumIsOne
<1>3. \A i \in S : a[i] = h[i].amount
  BY DEF Amounts
<1> HIDE DEF a
<1>4. \A f : Sums(a, S, f) <=> f = [s \in SUBSET S |->
                    IF s = {} THEN 0
                    ELSE LET x == CHOOSE x \in s : TRUE IN h[x].amount + f[s \ {x}]]
  <2> SUFFICES ASSUME NEW f, NEW s \in SUBSET S
               PROVE  SumStep(a, f, s)
                        = IF s = {} THEN 0
                          ELSE LET x == CHOOSE x \in s : TRUE IN h[x].amount + f[s \ {x}]
    BY DEF Sums
  <2> DEFINE x == CHOOSE x \in s : TRUE
  <2>1. s # {} => a[x] = h[x].amount
    BY <1>3
  <2> QED BY <2>1 DEF SumStep
<1>5. Sums(a, S, it)
  BY <1>2, <1>4, ZenonT(40)
<1> HIDE DEF it
<1>6. it[S] = g[S]
  BY <1>2, <1>5, SumsAgree
<1> QED BY <1>1, <1>2, <1>6 DEF a

LEMMA TotalIsSum ==
    ASSUME NEW u, NEW op
    PROVE  /\ IsFiniteSet(OfUser(u, op))
                => Total(u, op) = Sum(Amounts(history), OfUser(u, op))
           /\ IsFiniteSet(OfUser(u, op)')
                => Total(u, op)' = Sum(Amounts(history'), OfUser(u, op)')
<1> DEFINE Of(h) == {i \in DOMAIN h : h[i].user = u /\ h[i].op = op}
           TotalOf(h) == MapThenSumSet(LAMBDA i : h[i].amount, Of(h))
<1>1. \A h : IsFiniteSet(Of(h)) => TotalOf(h) = Sum(Amounts(h), Of(h))
  BY AmountsSum
<1>2. /\ Total(u, op) = TotalOf(history)
      /\ OfUser(u, op) = Of(history) /\ OfUser(u, op)' = Of(history')
  BY DEF Total, OfUser
<1>3. Total(u, op)' = TotalOf(history')
  BY DEF Total, MapThenSumSet, MapThenFoldSet
<1> HIDE DEF TotalOf, Of
<1> QED BY <1>1, <1>2, <1>3

\* The entries are finitely many, and their amounts are numbers.
LEMMA OfUserFinite ==
    ASSUME HistoryOK, NEW u, NEW op
    PROVE  /\ IsFiniteSet(OfUser(u, op))
           /\ \A i \in OfUser(u, op) : Amounts(history)[i] = history[i].amount
           /\ \A i \in OfUser(u, op) : history[i].amount \in Int
           /\ Total(u, op) \in Int
<1>1. OfUser(u, op) \subseteq 1..point_count /\ IsFiniteSet(1..point_count)
  BY FS_Interval DEF HistoryOK, OfUser
<1>2. IsFiniteSet(OfUser(u, op))
  BY <1>1, FS_Subset
<1>3. \A i \in OfUser(u, op) : history[i].amount \in Int
  BY DEF HistoryOK, PointHistory, OfUser
<1>4. \A i \in OfUser(u, op) : Amounts(history)[i] = history[i].amount
  BY DEF Amounts, OfUser
<1>5. \A i \in OfUser(u, op) : Amounts(history)[i] \in Int
  BY <1>3, <1>4
<1> QED BY <1>2, <1>3, <1>4, <1>5, TotalIsSum, SumInt

\* What the new entries add to the totals: e under the index k, next to others about op's
\* that are not u's.
LEMMA TotalGrows ==
    ASSUME HistoryOK, NEW u, NEW op, NEW k, k \notin DOMAIN history,
           OfUser(u, op)' = OfUser(u, op) \cup {k}, history'[k].amount \in Int, HistoryGrows
    PROVE  Total(u, op)' = Total(u, op) + history'[k].amount
<1> DEFINE S == OfUser(u, op)
           a == Amounts(history)
           b == Amounts(history')
<1>1. IsFiniteSet(S) /\ \A i \in S : a[i] = history[i].amount /\ a[i] \in Int
  BY OfUserFinite
<1>2. k \notin S
  BY DEF OfUser
<1>3. \A i \in S \cup {k} : b[i] = history'[i].amount
  <2>1. S \cup {k} \subseteq DOMAIN history'
    BY DEF OfUser
  <2> QED BY <2>1 DEF Amounts
<1>4. \A i \in S : history'[i] = history[i]
  BY DEF OfUser, HistoryGrows
<1>5. IsFiniteSet(S \cup {k})
  BY <1>1, FS_AddElement
<1>6. Total(u, op)' = Sum(b, S \cup {k})
  BY <1>5, TotalIsSum
<1>7. Total(u, op) = Sum(a, S)
  BY <1>1, TotalIsSum
<1> HIDE DEF S, a, b
<1>8. \A i \in S : a[i] = b[i]
  BY <1>1, <1>3, <1>4
<1>9. \A i \in S \cup {k} : b[i] \in Int
  BY <1>1, <1>3, <1>8
<1>10. Sum(b, S \cup {k}) = Sum(b, S) + b[k]
  BY <1>1, <1>2, <1>9, SumAdd
<1>11. Sum(a, S) = Sum(b, S)
  BY <1>1, <1>8, SumSame
<1> QED BY <1>3, <1>6, <1>7, <1>10, <1>11

LEMMA TotalStays ==
    ASSUME HistoryOK, NEW u, NEW op, OfUser(u, op)' = OfUser(u, op), HistoryGrows
    PROVE  Total(u, op)' = Total(u, op)
<1> DEFINE S == OfUser(u, op)
           a == Amounts(history)
           b == Amounts(history')
<1>1. IsFiniteSet(S)
  BY OfUserFinite
<1>2. \A i \in S : a[i] = b[i]
  <2>1. \A i \in S : i \in DOMAIN history /\ i \in DOMAIN history' /\ history'[i] = history[i]
    BY DEF OfUser, HistoryGrows
  <2> QED BY <2>1 DEF Amounts
<1>3. Total(u, op)' = Sum(b, S)
  BY <1>1, TotalIsSum
<1>4. Total(u, op) = Sum(a, S)
  BY <1>1, TotalIsSum
<1> HIDE DEF S, a, b
<1> QED BY <1>1, <1>2, <1>3, <1>4, SumSame

\* One entry is recorded.
LEMMA TotalRecorded ==
    ASSUME HistoryOK, NEW e \in PointHistory, RecordHistory(e), NEW u, NEW op
    PROVE  /\ e.user = u /\ e.op = op => Total(u, op)' = Total(u, op) + e.amount
           /\ ~(e.user = u /\ e.op = op) => Total(u, op)' = Total(u, op)
<1>1. point_count + 1 \notin DOMAIN history
  BY DEF HistoryOK
<1>2. /\ DOMAIN history' = DOMAIN history \cup {point_count + 1}
      /\ history'[point_count + 1] = e
      /\ \A i \in DOMAIN history : history'[i] = history[i]
  BY <1>1 DEF RecordHistory, Put
<1>3. HistoryGrows /\ e.amount \in Int
  BY <1>2 DEF HistoryGrows, PointHistory
<1>4. CASE e.user = u /\ e.op = op
  <2>1. OfUser(u, op)' = OfUser(u, op) \cup {point_count + 1}
    BY <1>1, <1>2, <1>4 DEF OfUser
  <2> QED BY <1>1, <1>2, <1>3, <1>4, <2>1, TotalGrows
<1>5. CASE ~(e.user = u /\ e.op = op)
  <2>1. OfUser(u, op)' = OfUser(u, op)
    BY <1>1, <1>2, <1>5 DEF OfUser
  <2> QED BY <1>3, <1>5, <2>1, TotalStays
<1> QED BY <1>4, <1>5

\* Two entries are recorded, the first of them about another op.
LEMMA TotalRecorded2 ==
    ASSUME HistoryOK, NEW e1, NEW e2 \in PointHistory, RecordHistory2(e1, e2), NEW u, NEW op,
           e1.op # op
    PROVE  /\ e2.user = u /\ e2.op = op => Total(u, op)' = Total(u, op) + e2.amount
           /\ ~(e2.user = u /\ e2.op = op) => Total(u, op)' = Total(u, op)
<1>1. /\ point_count + 1 \notin DOMAIN history /\ point_count + 2 \notin DOMAIN history
      /\ point_count + 1 # point_count + 2
  BY DEF HistoryOK
<1>2. /\ DOMAIN history' = DOMAIN history \cup {point_count + 1, point_count + 2}
      /\ history'[point_count + 1] = e1
      /\ history'[point_count + 2] = e2
      /\ \A i \in DOMAIN history : history'[i] = history[i]
  BY <1>1 DEF RecordHistory2, Put
<1>3. HistoryGrows /\ e2.amount \in Int
  BY <1>2 DEF HistoryGrows, PointHistory
<1>4. CASE e2.user = u /\ e2.op = op
  <2>1. OfUser(u, op)' = OfUser(u, op) \cup {point_count + 2}
    BY <1>1, <1>2, <1>4 DEF OfUser
  <2> QED BY <1>1, <1>2, <1>3, <1>4, <2>1, TotalGrows
<1>5. CASE ~(e2.user = u /\ e2.op = op)
  <2>1. OfUser(u, op)' = OfUser(u, op)
    BY <1>1, <1>2, <1>5 DEF OfUser
  <2> QED BY <1>3, <1>5, <2>1, TotalStays
<1> QED BY <1>4, <1>5

(* The inductive invariant of the points: the accounts of all users are the totals of their *)
(* entries, those of the users without a profile too.                                       *)
Totals(u) == Earned[u] = Total(u, "ADD") /\ Spent[u] = Total(u, "DEDUCT")

TInv == AInv /\ \A u \in Users : Totals(u)

\* The steps that record nothing change no account.
LEMMA TotalsStay ==
    ASSUME TInv, Kept, Silent, NEW u \in Users
    PROVE  Totals(u)'
<1>1. Totals(u) /\ Earned' = Earned /\ Spent' = Spent
  BY DEF TInv, Kept
<1>2. \A op : OfUser(u, op)' = OfUser(u, op) /\ history' = history
  BY DEF Silent, OfUser
<1>3. \A op : IsFiniteSet(OfUser(u, op))
  BY Parts, OfUserFinite DEF TInv, AInv, LauncherInv
<1>4. \A op : Total(u, op)' = Total(u, op)
  BY <1>2, <1>3, TotalIsSum
<1> QED BY <1>1, <1>4 DEF Totals

\* What an account is granted or charged is an amount.
LEMMA TotalsGranted ==
    ASSUME TInv, NEW v \in Users, NEW n \in Int, Granted(v, n), NEW u \in Users,
           v = u => Total(u, "ADD")' = Total(u, "ADD") + n,
           v # u => Total(u, "ADD")' = Total(u, "ADD"),
           Total(u, "DEDUCT")' = Total(u, "DEDUCT")
    PROVE  Totals(u)'
<1>1. /\ Earned[u] = Total(u, "ADD") /\ Spent[u] = Total(u, "DEDUCT")
      /\ Earned' = [Earned EXCEPT ![v] = @ + n] /\ Spent' = Spent
  BY DEF TInv, Totals, Granted
<1>2. v = u => Earned'[u] = Earned[u] + n
  BY <1>1 DEF Earned
<1>3. v # u => Earned'[u] = Earned[u]
  BY <1>1 DEF Earned
<1>4. Earned'[u] = Total(u, "ADD")'
  BY <1>1, <1>2, <1>3
<1> QED BY <1>1, <1>4 DEF Totals

LEMMA TotalsTaken ==
    ASSUME TInv, NEW v \in Users, NEW n \in Int, Taken(v, n), NEW u \in Users,
           v = u => Total(u, "DEDUCT")' = Total(u, "DEDUCT") + n,
           v # u => Total(u, "DEDUCT")' = Total(u, "DEDUCT"),
           Total(u, "ADD")' = Total(u, "ADD")
    PROVE  Totals(u)'
<1>1. /\ Earned[u] = Total(u, "ADD") /\ Spent[u] = Total(u, "DEDUCT")
      /\ Spent' = [Spent EXCEPT ![v] = @ + n] /\ Earned' = Earned
  BY DEF TInv, Totals, Taken
<1>2. v = u => Spent'[u] = Spent[u] + n
  BY <1>1 DEF Spent
<1>3. v # u => Spent'[u] = Spent[u]
  BY <1>1 DEF Spent
<1>4. Spent'[u] = Total(u, "DEDUCT")'
  BY <1>1, <1>2, <1>3
<1> QED BY <1>1, <1>4 DEF Totals

LEMMA DeductTotals ==
    ASSUME TInv, NEW v \in Users, NEW busi \in Businesses, CanDeduct(v, SpendPrice(busi)),
           Deduct(v, busi), NEW u \in Users
    PROVE  Totals(u)'
<1> DEFINE n == SpendPrice(busi)
           e == HistoryEntry(v, "DEDUCT", busi, n)
<1>1. HistoryOK /\ LauncherInv
  BY Parts DEF TInv, AInv, LauncherInv
<1>2. RecordHistory(e)
  BY DEF Deduct
<1>3. Taken(v, n)
  BY <1>1, SpendAccounts
<1>4. n \in Nat
  BY InitialConstants
<1> HIDE DEF n
<1>5. e \in PointHistory /\ e.user = v /\ e.op = "DEDUCT" /\ e.amount = n
  BY <1>4 DEF HistoryEntry, PointHistory
<1> HIDE DEF e
<1>6. /\ v = u => Total(u, "DEDUCT")' = Total(u, "DEDUCT") + n
      /\ v # u => Total(u, "DEDUCT")' = Total(u, "DEDUCT")
      /\ Total(u, "ADD")' = Total(u, "ADD")
  BY <1>1, <1>2, <1>5, TotalRecorded
<1> QED BY <1>3, <1>4, <1>6, TotalsTaken

LEMMA GrantTotals ==
    ASSUME TInv, NEW v \in DOMAIN profile, NEW n \in Grants, NEW busi \in Businesses,
           InitAndAdd(v, n, busi), NEW u \in Users
    PROVE  Totals(u)'
<1> DEFINE e1 == HistoryEntry(v, "INIT", "INIT", InitialPoints)
           e2 == HistoryEntry(v, "ADD", busi, n)
<1>1. HistoryOK /\ LauncherInv /\ v \in Users
  BY Parts DEF TInv, AInv, LauncherInv, ProfilesOK
<1>2. RecordHistory2(e1, e2)
  BY DEF InitAndAdd
<1>3. Granted(v, n)
  BY <1>1, InitAndAddAccounts
<1>4. n \in Nat
  BY ConstantsAssumption, InitialConstants DEF Grants
<1>5. /\ e1.op = "INIT"
      /\ e2 \in PointHistory /\ e2.user = v /\ e2.op = "ADD" /\ e2.amount = n
  BY <1>1, <1>4 DEF HistoryEntry, PointHistory
<1> HIDE DEF e1, e2
<1>6. /\ v = u => Total(u, "ADD")' = Total(u, "ADD") + n
      /\ v # u => Total(u, "ADD")' = Total(u, "ADD")
      /\ Total(u, "DEDUCT")' = Total(u, "DEDUCT")
  BY <1>1, <1>2, <1>5, TotalRecorded2
<1> QED BY <1>1, <1>3, <1>4, <1>6, TotalsGranted

LEMMA AirdropTotals ==
    ASSUME TInv, NEW v \in Users, NEW n \in AirdropAmounts, AirdropPoints(v, n), NEW u \in Users
    PROVE  Totals(u)'
<1> DEFINE e == HistoryEntry(v, "ADD", "AIRDROP", n)
<1>1. HistoryOK /\ LauncherInv
  BY Parts DEF TInv, AInv, LauncherInv
<1>2. RecordHistory(e)
  BY DEF AirdropPoints
<1>3. Granted(v, n)
  BY <1>1, AirdropAccounts
<1>4. n \in Nat
  BY ConstantsAssumption
<1>5. e \in PointHistory /\ e.user = v /\ e.op = "ADD" /\ e.amount = n
  BY <1>4 DEF HistoryEntry, PointHistory, Businesses
<1> HIDE DEF e
<1>6. /\ v = u => Total(u, "ADD")' = Total(u, "ADD") + n
      /\ v # u => Total(u, "ADD")' = Total(u, "ADD")
      /\ Total(u, "DEDUCT")' = Total(u, "DEDUCT")
  BY <1>1, <1>2, <1>5, TotalRecorded
<1> QED BY <1>3, <1>4, <1>6, TotalsGranted

LEMMA InitTotals == Init => TInv
<1> SUFFICES ASSUME Init, NEW u \in Users PROVE Totals(u)
  BY AccountsInit DEF TInv
<1>1. Earned[u] = 0 /\ Spent[u] = 0
  BY DEF Init, Earned, Spent, EarnedOf
<1>2. \A op : OfUser(u, op) = {}
  BY DEF Init, OfUser
<1>3. \A op : Total(u, op) = 0
  BY <1>2, TotalIsSum, SumEmpty, FS_EmptySet
<1> QED BY <1>1, <1>3 DEF Totals

LEMMA TotalsStep ==
    ASSUME TInv, [Next]_vars
    PROVE  TInv'
<1>1. AInv'
  BY InvStep, AccountsNext DEF TInv, AInv
<1> SUFFICES ASSUME NEW u \in Users PROVE Totals(u)'
  BY <1>1 DEF TInv
<1>2. IInv /\ LauncherInv /\ AmountsAsked /\ SlotsOK
  BY Parts DEF TInv, AInv
<1>3. ASSUME profile' = profile, Silent PROVE Totals(u)'
  BY <1>3, ProfileUnchanged, TotalsStay
<1>4. ASSUME NEW v \in Users, NEW kind, NEW free, FinishEdit(v, kind, free) PROVE Totals(u)'
  BY <1>2, <1>4, EditAccounts, SilentSteps, TotalsStay
<1>5. ASSUME NEW v \in Users, UserStep(v) PROVE Totals(u)'
  <2>1. ASSUME NEW kind, EditForFree(v, kind) PROVE Totals(u)'
    BY <1>4, <2>1 DEF EditForFree
  <2>2. ASSUME NEW c \in Topups, NEW n, Topup(c, v, n) PROVE Totals(u)'
    BY <1>4, <2>2 DEF Topup
  <2>3. ASSUME NEW e \in Edits, EditStart(e, v) PROVE Totals(u)'
    BY <1>3, <2>3 DEF EditStart, EditForFreeWithImage, EditExisting, launcher, Silent
  <2>4. CASE ProjectSpends(v)
    BY <2>4, DeductTotals DEF ProjectSpends, Businesses
  <2>5. CASE RewardCreator(v)
    BY <2>5, GrantTotals DEF RewardCreator, Businesses, Grants
  <2>6. ASSUME NEW n \in AirdropAmounts, AirdropPoints(v, n) PROVE Totals(u)'
    BY <2>6, AirdropTotals
  <2>7. ASSUME (\E a \in Allowances : Approve(v, a)) \/ SpendElsewhere(v) PROVE Totals(u)'
    BY <1>3, <2>7 DEF Approve, SpendElsewhere, launcher, Silent
  <2> QED BY <1>5, <2>1, <2>2, <2>3, <2>4, <2>5, <2>6, <2>7 DEF UserStep
<1>6. ASSUME NEW c \in Topups, TopupProgress(c) PROVE Totals(u)'
  <2>1. CASE TopupCredited(c)
    <3>1. topup[c].user \in DOMAIN profile /\ topup[c].amount \in Grants
      BY <1>2, <2>1 DEF TopupCredited, SlotsOK, AmountsAsked, Grants
    <3>2. InitAndAdd(topup[c].user, topup[c].amount, "TOPUP")
      BY <2>1, <3>1 DEF TopupCredited
    <3> QED BY <3>1, <3>2, GrantTotals DEF Businesses
  <2>2. CASE ~TopupCredited(c)
    <3>1. UNCHANGED launcher
      BY <1>6, <2>2 DEF TopupProgress, ReadBalance, ReadAllowance, QuoteAccepted, QuoteRefused,
                        QuoteFails, LedgerCharges, LedgerRefuses, TopupRefused, TopupStep
    <3> QED BY <1>3, <3>1 DEF launcher, Silent
  <2> QED BY <2>1, <2>2
<1>7. ASSUME NEW e \in Edits, EditProgress(e) PROVE Totals(u)'
  <2>1. edit[e].pc # "idle" => edit[e].user \in Users
    BY <1>2 DEF SlotsOK
  <2>2. CASE SpendForEdit(e)
    BY <2>1, <2>2, DeductTotals DEF SpendForEdit, Businesses
  <2>3. CASE EditPaid(e)
    BY <1>4, <2>1, <2>3 DEF EditPaid
  <2>4. CASE UploadDone(e)
    BY <1>4, <2>1, <2>4 DEF UploadDone
  <2>5. CASE EditRefused(e) \/ EditPaidWithImage(e) \/ UploadFails(e)
    BY <1>3, <2>5 DEF EditRefused, EditPaidWithImage, UploadFails, launcher, Silent
  <2> QED BY <1>7, <2>2, <2>3, <2>4, <2>5 DEF EditProgress
<1>8. CASE CountPoint \/ Upgrade \/ UNCHANGED vars
  <2>1. profile' = profile /\ Silent
    BY <1>8 DEF CountPoint, Upgrade, PostUpgrade, PreUpgrade, vars, launcher, Silent
  <2> QED BY <1>3, <2>1
<1> QED
  BY <1>5, <1>6, <1>7, <1>8 DEF Next

-----------------------------------------------------------------------------
(* The theorems *)

\* Every ICP charge of the ledger is a top-up that was credited, or one whose answer is on
\* its way, for any number of top-ups in flight and whatever the users do to their balances
\* and allowances in between (topup_points).
THEOREM PaidIsAlwaysCredited == Spec => []PaidIsCredited
<1>1. CInv => PaidIsCredited
  BY DEF CInv, Credits, Charged, PaidIsCredited
<1> QED
  BY <1>1, InitCredits, CreditsStep, PTL DEF Spec

\* Every deduction for an edit paid for one edit: applied, lost to a failed upload, or in
\* flight; no other edit of a registered profile is applied unless it was asked for before
\* the registration (edit_user and its call of spending_points).
THEOREM EditsAlwaysAccounted == Spec => []EditsAccounted
<1>1. EInv => EditsAccounted
  BY DEF EInv, IInv, TypeOK, Payments, EditEntries, EditsPaid, EditsAccounted
<1> QED
  BY <1>1, InitPayments, PaymentsStep, PTL DEF Spec

\* The points a profile holds and has spent are the welcome points, once, and the sum of what
\* its ADD entries granted; what it has spent is the sum of its DEDUCT entries; and before it
\* is opened its reward field is the sum of the ADD entries: for any number of entries, calls
\* in flight and users (init_points, add_points, deduct_points).
THEOREM BooksAlwaysAgree == Spec => []BooksAgree
<1>1. TInv => BooksAgree
  <2> SUFFICES ASSUME TInv, NEW u \in DOMAIN profile
               PROVE  /\ profile[u].spent = Total(u, "DEDUCT")
                      /\ IF profile[u].points = None
                         THEN profile[u].pre = Total(u, "ADD")
                         ELSE profile[u].points + profile[u].spent
                                = InitialPoints + Total(u, "ADD")
    BY DEF BooksAgree
  <2>1. /\ u \in Users /\ profile[u].spent \in Nat
        /\ profile[u].points # None => profile[u].points \in Nat
    BY DEF TInv, AInv, IInv, TypeOK, Profile
  <2>2. Earned[u] = Total(u, "ADD") /\ Spent[u] = Total(u, "DEDUCT")
    BY <2>1 DEF TInv, Totals
  <2>3. Earned[u] = EarnedOf(u) /\ Spent[u] = profile[u].spent
    BY <2>1 DEF Earned, Spent
  <2>4. CASE profile[u].points = None
    BY <2>2, <2>3, <2>4 DEF EarnedOf
  <2>5. CASE profile[u].points # None
    <3>1. Earned[u] = profile[u].points + profile[u].spent - InitialPoints
      BY <2>3, <2>5 DEF EarnedOf
    <3>2. profile[u].points + profile[u].spent = InitialPoints + Earned[u]
      BY <2>1, <2>5, <3>1, InitialConstants
    <3> QED BY <2>2, <2>3, <2>5, <3>2
  <2> QED BY <2>4, <2>5
<1> QED
  BY <1>1, InitTotals, TotalsStep, PTL DEF Spec

=============================================================================
