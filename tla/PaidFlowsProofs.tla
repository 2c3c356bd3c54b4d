--------------------------- MODULE PaidFlowsProofs ---------------------------
(***************************************************************************)
(* What PaidFlows promises, for every set of prices, shares and points and *)
(* any number of flows: the lock that is sent, whose approval a flow is    *)
(* charged from, and what may make the launcher refuse it.                 *)
(***************************************************************************)
EXTENDS PaidFlows, TLAPS

-----------------------------------------------------------------------------
(* The invariant *)

\* The parameters of the form hold the lock it shows, unless a picture brought an
\* earlier one back.
FormAgrees == form.lock = (IF form.checked THEN form.val ELSE 0) \/ hist.reverted

Locked(f) == flow[f].lock = flow[f].wanted \/ hist.reverted

\* A flow is charged once, by the step that pays it.
ChargedOnce(f) == flow[f].charged # "no" => flow[f].pc = "paid"

\* Nobody touched the approval of a flow that met no other, and it is for the price read
\* when the flow started.
Untouched(f) ==
    flow[f].pc \in {"upload", "call"} /\ flow[f].alone /\ ~flow[f].skipped =>
        /\ allowance.by = f
        /\ allowance.amount = ApproveOf(flow[f].kind, flow[f].points, flow[f].rate)

\* Ten points are the least that is topped up.
Enough(r) == r.kind = "topup" => r.points >= 10

\* Flows that are under way together know it.
Met(f, g) == Active(f) /\ Active(g) => ~flow[f].alone

PaidFromOwn(f) == flow[f].charged = "other" => ~flow[f].alone \/ flow[f].skipped

RefusedFor(f) == flow[f].pc = "refused" => flow[f].drift \/ ~flow[f].alone \/ flow[f].skipped

FlowsInv ==
    /\ \A f \in Flows : Locked(f) /\ ChargedOnce(f) /\ Untouched(f) /\ Enough(flow[f])
    /\ \A f \in Flows : PaidFromOwn(f) /\ RefusedFor(f)
    /\ \A f \in Flows : \A g \in Flows \ {f} : Met(f, g)

PInv == Types /\ FormAgrees /\ FlowsInv

-----------------------------------------------------------------------------
(* Flows as records *)

LEMMA Zero == 0 \in Lock /\ Lock \subseteq Nat /\ Prices \subseteq Nat /\ Points \subseteq Nat
              /\ Default \in Prices /\ MaxFlows \in Nat
  BY PaidAssumption DEF Lock

\* What the records of the code's closures are.
LEMMA NoFlowRecord ==
    /\ NoFlow \in Flow
    /\ NoFlow.lock = NoFlow.wanted
    /\ NoFlow.charged = "no"
    /\ Enough(NoFlow)
    /\ NoFlow.pc = "idle"
  BY Zero DEF NoFlow, Flow, Kinds, Enough

LEMMA OverRecord ==
    /\ Over \in Flow
    /\ Over.lock = Over.wanted
    /\ Over.charged = "no"
    /\ Enough(Over)
    /\ Over.pc = "over"
  BY Zero DEF Over, NoFlow, Flow, Kinds, Enough

LEMMA ProfileRecord ==
    LET r == [Over EXCEPT !.pc = "profile"]
    IN  r \in Flow /\ r.lock = r.wanted /\ r.charged = "no" /\ Enough(r) /\ r.pc = "profile"
  BY Zero DEF Over, NoFlow, Flow, Kinds, Enough

LEMMA ClickedRecord ==
    ASSUME Types, FormAgrees
    PROVE  /\ Clicked \in Flow
           /\ Clicked.lock = Clicked.wanted \/ hist.reverted
           /\ Clicked.charged = "no"
           /\ Enough(Clicked)
<1>1. form.lock \in Lock /\ form.val \in Lock
  BY DEF Types, Lock
<1>2. CASE form.checked
  BY <1>1, <1>2, Zero DEF Clicked, NoFlow, Flow, Kinds, FormAgrees, Enough
<1>3. CASE ~form.checked
  BY <1>1, <1>3, Zero DEF Clicked, NoFlow, Flow, Kinds, Enough
<1> QED BY <1>2, <1>3

LEMMA TopupRecord ==
    ASSUME NEW n \in Points, n >= 10
    PROVE  LET r == [NoFlow EXCEPT !.kind = "topup", !.points = n]
           IN  r \in Flow /\ r.lock = r.wanted /\ r.charged = "no" /\ Enough(r)
  BY Zero DEF NoFlow, Flow, Kinds, Enough

LEMMA OwnerRecord ==
    LET r == [NoFlow EXCEPT !.kind = "owner"]
    IN  r \in Flow /\ r.lock = r.wanted /\ r.charged = "no" /\ Enough(r)
  BY Zero DEF NoFlow, Flow, Kinds, Enough

\* A flow that goes on: only its place changes.
LEMMA MovedRecord ==
    ASSUME NEW r \in Flow, NEW p \in {"approve", "upload", "call", "waiting"}
    PROVE  LET s == [r EXCEPT !.pc = p]
           IN  /\ s \in Flow
               /\ s.pc = p
               /\ s.kind = r.kind
               /\ s.lock = r.lock
               /\ s.wanted = r.wanted
               /\ s.points = r.points
               /\ s.rate = r.rate
               /\ s.charged = r.charged
               /\ s.alone = r.alone
               /\ s.drift = r.drift
               /\ s.skipped = r.skipped
  BY DEF Flow

LEMMA SkippedRecord ==
    ASSUME NEW r \in Flow
    PROVE  LET s == [r EXCEPT !.pc = "call", !.skipped = TRUE]
           IN  /\ s \in Flow
               /\ s.pc = "call"
               /\ s.skipped
               /\ s.kind = r.kind /\ s.points = r.points
               /\ s.lock = r.lock
               /\ s.wanted = r.wanted
               /\ s.charged = r.charged
               /\ s.alone = r.alone
  BY DEF Flow

LEMMA PaidRecord ==
    ASSUME NEW r \in Flow, NEW c \in {"own", "other"}
    PROVE  LET s == [r EXCEPT !.pc = "paid", !.charged = c]
           IN  /\ s \in Flow
               /\ s.pc = "paid"
               /\ s.charged = c
               /\ s.kind = r.kind /\ s.points = r.points
               /\ s.lock = r.lock
               /\ s.wanted = r.wanted
               /\ s.alone = r.alone
               /\ s.skipped = r.skipped
  BY DEF Flow

-----------------------------------------------------------------------------
(* Amounts *)

LEMMA Amounts ==
    ASSUME Types, NEW kind \in Kinds, NEW points \in Points \cup {0}, NEW rate \in Prices
    PROVE  ApproveOf(kind, points, rate) \in Nat /\ FeeOf(kind, points) \in Nat
<1>1. rate \in Nat /\ points \in Nat /\ oracle \in Nat
  BY Zero DEF Types
<1>2. points * rate \in Nat /\ points * oracle \in Nat /\ 13 * points * rate \in Nat
  BY <1>1
<1> QED BY <1>1, <1>2 DEF ApproveOf, FeeOf, Kinds

LEMMA ChargedType ==
    ASSUME NEW a \in Nat, NEW fee \in Nat
    PROVE  ChargedFee(a, fee) + LedgerFee \in Nat
<1>1. fee \div 100 \in Nat /\ fee \div 100 <= fee
  OBVIOUS
<1> QED BY <1>1 DEF ChargedFee, MaxFee, MinFee, LedgerFee

\* What is refused lacks a percent of the fee, or the ledger's own fee on top of it.
LEMMA Band ==
    ASSUME NEW a \in Nat, NEW fee \in Nat,
           ~(a >= MinFee(fee) /\ a >= ChargedFee(a, fee) + LedgerFee)
    PROVE  100 * a < 101 * fee + 1000000
<1>1. PICK q \in Nat : q = fee \div 100 /\ 100 * q <= fee
  OBVIOUS
<1>2. MaxFee(fee) = fee + q /\ MinFee(fee) = fee - q
  BY <1>1 DEF MaxFee, MinFee
<1>3. CASE a < fee - q
  BY <1>1, <1>3
<1>4. CASE a >= fee - q
  <2>1. a < ChargedFee(a, fee) + 10000
    BY <1>1, <1>2, <1>4 DEF LedgerFee, ChargedFee
  <2>2. ChargedFee(a, fee) <= fee + q /\ ChargedFee(a, fee) \in Int
    BY <1>1, <1>2 DEF ChargedFee
  <2> QED BY <1>1, <2>1, <2>2
<1> QED BY <1>1, <1>3, <1>4

LEMMA Dear == \A q \in Prices : q >= 26800
  BY PaidAssumption

\* At most a quarter over the rate of the approval, the fee of a creation or of a new owner is
\* out of reach of the amounts that are refused.
LEMMA FlatQuarter ==
    ASSUME NEW p \in Nat, NEW o \in Nat, p >= 26800, 4 * o <= 5 * p
    PROVE  /\ ~(100 * (78 * p) < 101 * (60 * o + 10000) + 1000000)
           /\ ~(100 * (26 * p) < 101 * (20 * o + 10000) + 1000000)
<1>1. 6060 * o <= 7575 * p /\ 2020 * o <= 2525 * p
  OBVIOUS
<1>2. 225 * p >= 6030000 /\ 75 * p >= 2010000
  OBVIOUS
<1> QED BY <1>1, <1>2

\* The same of the fee of n points.
LEMMA PointsQuarter ==
    ASSUME NEW n \in Nat, n >= 10, NEW p \in Nat, NEW o \in Nat, p >= 26800, 4 * o <= 5 * p
    PROVE  ~(100 * (13 * (n * p)) < 101 * (n * o + 10000) + 1000000)
<1> DEFINE x == n * p
           y == n * o
<1>1. x \in Nat /\ y \in Nat
  OBVIOUS
<1>2. x >= 268000
  <2>1. n * p >= 10 * p
    OBVIOUS
  <2> QED BY <2>1
<1>3. 4 * y <= 5 * x
  <2>1. n * (4 * o) <= n * (5 * p)
    OBVIOUS
  <2>2. n * (4 * o) = 4 * (n * o) /\ n * (5 * p) = 5 * (n * p)
    OBVIOUS
  <2> QED BY <2>1, <2>2
<1> HIDE DEF x, y
<1>4. 404 * y <= 505 * x
  BY <1>1, <1>3
<1>5. 1300 * x >= 101 * y + 2010000
  BY <1>1, <1>2, <1>4
<1>6. ~(100 * (13 * x) < 101 * (y + 10000) + 1000000)
  BY <1>1, <1>5
<1> QED BY <1>6 DEF x, y

\* A quarter covers the extra percent and the fees.
LEMMA Margin ==
    ASSUME Types, NEW r \in Flow, Enough(r),
           LET a   == ApproveOf(r.kind, r.points, r.rate)
               fee == FeeOf(r.kind, r.points)
           IN  ~(a >= MinFee(fee) /\ a >= ChargedFee(a, fee) + LedgerFee)
    PROVE  4 * oracle > 5 * r.rate
<1>1. /\ r.rate \in Nat /\ r.points \in Nat /\ oracle \in Nat /\ r.rate >= 26800
      /\ r.kind \in Kinds /\ r.points \in Points \cup {0} /\ r.rate \in Prices
  <2>1. /\ r.kind \in Kinds /\ r.points \in Points \cup {0} /\ r.rate \in Prices
        /\ oracle \in Prices
    BY DEF Types, Flow
  <2>2. r.rate >= 26800
    BY <2>1, Dear
  <2>3. r.rate \in Nat /\ r.points \in Nat /\ oracle \in Nat
    BY <2>1, Zero
  <2> QED BY <2>1, <2>2, <2>3
<1> DEFINE a   == ApproveOf(r.kind, r.points, r.rate)
           fee == FeeOf(r.kind, r.points)
           rt  == r.rate
           n   == r.points
<1>2. a \in Nat /\ fee \in Nat
  BY <1>1, Amounts
<1>3. 100 * a < 101 * fee + 1000000
  <2> HIDE DEF a, fee
  <2> QED BY <1>2, Band DEF a, fee
<1>4. SUFFICES ASSUME 4 * oracle <= 5 * rt PROVE FALSE
  BY <1>1
<1>5. CASE r.kind = "create"
  <2>1. a = 78 * rt /\ fee = 60 * oracle + 10000
    BY <1>5 DEF ApproveOf, FeeOf
  <2>2. 100 * (78 * rt) < 101 * (60 * oracle + 10000) + 1000000
    BY <1>3, <2>1
  <2> QED BY <1>1, <1>4, <2>2, FlatQuarter
<1>6. CASE r.kind = "topup"
  <2> DEFINE x == n * rt
             y == n * oracle
  <2>1. a = 13 * n * rt /\ fee = y + 10000
    BY <1>6 DEF ApproveOf, FeeOf
  <2>2. n >= 10
    BY <1>6 DEF Enough
  <2>3. 13 * n * rt = 13 * x
    BY <1>1
  <2>4. 100 * (13 * x) < 101 * (y + 10000) + 1000000
    BY <1>3, <2>1, <2>3
  <2> QED BY <1>1, <1>4, <2>2, <2>4, PointsQuarter
<1>7. CASE r.kind = "owner"
  <2>1. a = 26 * rt /\ fee = 20 * oracle + 10000
    BY <1>7 DEF ApproveOf, FeeOf
  <2>2. 100 * (26 * rt) < 101 * (20 * oracle + 10000) + 1000000
    BY <1>3, <2>1
  <2> QED BY <1>1, <1>4, <2>2, FlatQuarter
<1> QED BY <1>1, <1>5, <1>6, <1>7 DEF Kinds

-----------------------------------------------------------------------------
(* The steps of the flows *)

\* One flow takes a step; the allowance changes only under a flow that is under way.
LEMMA OneFlowSteps ==
    ASSUME Types, FlowsInv, NEW f \in Flows, NEW r \in Flow,
           flow' = [flow EXCEPT ![f] = r], hist'.reverted = hist.reverted, Enough(r),
           r.lock = r.wanted \/ hist.reverted,
           r.charged # "no" => r.pc = "paid",
           r.charged = "other" => ~r.alone \/ r.skipped,
           r.pc = "refused" => r.drift \/ ~r.alone \/ r.skipped,
           r.pc \in {"approve", "upload", "call"} => Active(f) /\ r.alone = flow[f].alone,
           allowance' = allowance \/ Active(f),
           r.pc \in {"upload", "call"} /\ r.alone /\ ~r.skipped =>
               /\ allowance'.by = f
               /\ allowance'.amount = ApproveOf(r.kind, r.points, r.rate)
    PROVE  FlowsInv'
<1>1. flow \in [Flows -> Flow]
  BY DEF Types
<1>2. flow'[f] = r /\ \A g \in Flows \ {f} : flow'[g] = flow[g]
  BY <1>1
<1>3. ASSUME NEW g \in Flows
      PROVE  Locked(g)' /\ ChargedOnce(g)' /\ PaidFromOwn(g)' /\ RefusedFor(g)'
             /\ Enough(flow[g])'
  <2>1. CASE g = f
    BY <1>2, <2>1 DEF Locked, ChargedOnce, PaidFromOwn, RefusedFor, Enough
  <2>2. CASE g # f
    BY <1>2, <2>2 DEF FlowsInv, Enough, Locked, ChargedOnce, PaidFromOwn, RefusedFor
  <2> QED BY <2>1, <2>2
<1>4. ASSUME NEW g \in Flows
      PROVE  Untouched(g)'
  <2>1. CASE g = f
    BY <1>2, <2>1 DEF Untouched, ApproveOf
  <2>2. CASE g # f
    <3>1. flow'[g] = flow[g] /\ Untouched(g) /\ Met(g, f)
      BY <1>2, <2>2 DEF FlowsInv
    <3>2. CASE allowance' = allowance
      BY <3>1, <3>2 DEF Untouched, ApproveOf
    <3>3. CASE Active(f)
      BY <3>1, <3>3 DEF Untouched, Met, Active
    <3> QED BY <3>2, <3>3
  <2> QED BY <2>1, <2>2
<1>5. ASSUME NEW g \in Flows, NEW h \in Flows \ {g}
      PROVE  Met(g, h)'
  <2>1. Met(g, h)
    BY DEF FlowsInv
  <2>2. Active(g)' => Active(g) /\ flow'[g].alone = flow[g].alone
    BY <1>2 DEF Active
  <2>3. Active(h)' => Active(h)
    BY <1>2 DEF Active
  <2> QED BY <2>1, <2>2, <2>3 DEF Met
<1> QED BY <1>3, <1>4, <1>5 DEF FlowsInv

\* A flow starts: it and the flows under way learn of each other.
LEMMA StartSteps ==
    ASSUME Types, FlowsInv, NEW f \in Flows, NEW rec \in Flow, Start(f, rec),
           hist'.reverted = hist.reverted, allowance' = allowance,
           rec.lock = rec.wanted \/ hist.reverted, rec.charged = "no", Enough(rec)
    PROVE  FlowsInv' /\ flow' \in [Flows -> Flow]
<1> DEFINE others == {g \in Flows \ {f} : Active(g)}
           none == (others = {})
           r == [rec EXCEPT !.pc = "approve", !.alone = none, !.rate = dollar]
<1>1. flow \in [Flows -> Flow] /\ dollar \in Prices /\ none \in BOOLEAN
  BY DEF Types
<1>2. /\ r \in Flow
      /\ r.pc = "approve"
      /\ r.alone = none
      /\ r.lock = rec.lock
      /\ r.wanted = rec.wanted
      /\ r.charged = rec.charged
      /\ r.kind = rec.kind /\ r.points = rec.points
  <2> HIDE DEF none
  <2>1. CASE none = TRUE
    BY <1>1, <2>1 DEF Flow
  <2>2. CASE none = FALSE
    BY <1>1, <2>2 DEF Flow
  <2> QED BY <1>1, <2>1, <2>2
<1>3. flow' = [g \in Flows |-> IF g = f THEN r
                                ELSE IF g \in others THEN [flow[g] EXCEPT !.alone = FALSE]
                                ELSE flow[g]]
  BY DEF Start
<1> HIDE DEF r
<1>4. flow'[f] = r
  BY <1>3
<1>5. ASSUME NEW g \in Flows \ {f}
      PROVE  /\ flow'[g] \in Flow
             /\ flow'[g].pc = flow[g].pc
             /\ flow'[g].kind = flow[g].kind
             /\ flow'[g].lock = flow[g].lock
             /\ flow'[g].wanted = flow[g].wanted
             /\ flow'[g].points = flow[g].points
             /\ flow'[g].rate = flow[g].rate
             /\ flow'[g].charged = flow[g].charged
             /\ flow'[g].drift = flow[g].drift
             /\ flow'[g].skipped = flow[g].skipped
             /\ IF Active(g) THEN ~flow'[g].alone ELSE flow'[g].alone = flow[g].alone
  <2>1. flow[g] \in Flow
    BY <1>1
  <2>2. CASE g \in others
    <3>1. flow'[g] = [flow[g] EXCEPT !.alone = FALSE] /\ Active(g)
      BY <1>3, <2>2
    <3> QED BY <2>1, <3>1 DEF Flow
  <2>3. CASE g \notin others
    BY <1>3, <2>1, <2>3
  <2> QED BY <2>2, <2>3
<1>6. flow' \in [Flows -> Flow]
  BY <1>2, <1>3, <1>4, <1>5
<1>7. ASSUME NEW g \in Flows
      PROVE  Locked(g)' /\ ChargedOnce(g)' /\ PaidFromOwn(g)' /\ RefusedFor(g)'
             /\ Enough(flow[g])'
  <2>1. CASE g = f
    BY <1>2, <1>4, <2>1 DEF Locked, ChargedOnce, PaidFromOwn, RefusedFor, Enough
  <2>2. CASE g # f
    <3>1. Locked(g) /\ ChargedOnce(g) /\ PaidFromOwn(g) /\ RefusedFor(g) /\ Enough(flow[g])
      BY DEF FlowsInv
    <3>2. ~flow'[g].alone \/ flow'[g].alone = flow[g].alone
      BY <1>5, <2>2
    <3> QED BY <1>5, <2>2, <3>1, <3>2 DEF Locked, ChargedOnce, PaidFromOwn, RefusedFor, Enough
  <2> QED BY <2>1, <2>2
<1>8. ASSUME NEW g \in Flows
      PROVE  Untouched(g)'
  <2>1. CASE g = f
    BY <1>2, <1>4, <2>1 DEF Untouched
  <2>2. CASE g # f
    <3>1. Untouched(g)
      BY DEF FlowsInv
    <3>2. CASE Active(g)
      BY <1>5, <2>2, <3>2 DEF Untouched
    <3>3. CASE ~Active(g)
      BY <1>5, <2>2, <3>3 DEF Untouched, Active
    <3> QED BY <3>2, <3>3
  <2> QED BY <2>1, <2>2
<1>9. ASSUME NEW g \in Flows, NEW h \in Flows \ {g}
      PROVE  Met(g, h)'
  <2>1. CASE g = f
    <3>1. Active(h)' => h \in others
      BY <1>5, <2>1 DEF Active
    <3> QED BY <1>2, <1>4, <2>1, <3>1 DEF Met
  <2>2. CASE g # f
    <3>1. Active(g)' => Active(g)
      BY <1>5, <2>2 DEF Active
    <3> QED BY <1>5, <2>2, <3>1 DEF Met
  <2> QED BY <2>1, <2>2
<1> QED BY <1>6, <1>7, <1>8, <1>9 DEF FlowsInv

-----------------------------------------------------------------------------
(* The page *)

LEMMA InitInv == Init => PInv
<1> SUFFICES ASSUME Init PROVE PInv
  OBVIOUS
<1>1. flow = [f \in Flows |-> NoFlow] /\ allowance = [amount |-> 0, by |-> 0]
  BY DEF Init
<1>2. flow \in [Flows -> Flow] /\ \A f \in Flows : flow[f] = NoFlow
  BY <1>1, NoFlowRecord
<1>3. form = [checked |-> FALSE, val |-> 10, lock |-> 0] /\ form.val \in Shares
      /\ form.lock \in Shares
  BY PaidAssumption DEF Init
<1>4. form \in [checked : BOOLEAN, val : Shares, lock : Lock] /\ FormAgrees
  BY <1>3 DEF FormAgrees, Lock
<1>5. /\ user \in BOOLEAN /\ photos \subseteq Lock
      /\ <<box, topping, owning>> \in BOOLEAN \X BOOLEAN \X BOOLEAN
      /\ dollar \in Prices /\ oracle \in Prices
      /\ hist \in [reverted : BOOLEAN, orphan : BOOLEAN, silent : SUBSET Kinds]
  BY Zero DEF Init
<1>6. allowance \in [amount : Nat, by : Flows \cup {0}]
  BY <1>1
<1>7. bounds \in [edits : 0..MaxEdits, logins : 0..MaxLogins, ticks : 0..MaxTicks,
                  failures : 0..MaxFailures, closes : 0..MaxCloses]
  BY PaidAssumption DEF Init
<1>8. Types
  BY <1>2, <1>4, <1>5, <1>6, <1>7 DEF Types
<1>9. FlowsInv
  BY <1>2, NoFlowRecord
     DEF FlowsInv, Locked, ChargedOnce, Untouched, Met, PaidFromOwn, RefusedFor, Active
<1> QED BY <1>4, <1>8, <1>9 DEF PInv

\* What only the page changes leaves the flows right, as long as no lock is forgotten.
LEMMA FlowsSame ==
    ASSUME FlowsInv, flow' = flow, allowance' = allowance,
           hist.reverted => hist'.reverted
    PROVE  FlowsInv'
  BY DEF FlowsInv, Locked, ChargedOnce, Untouched, Met, PaidFromOwn, RefusedFor, Active,
         ApproveOf, Enough

LEMMA PriceArrivesInv == ASSUME PInv, PriceArrives PROVE PInv'
<1>1. Types'
  BY PaidAssumption DEF PInv, Types, PriceArrives, page, busy
<1>2. FlowsInv'
  BY FlowsSame DEF PInv, PriceArrives
<1>3. FormAgrees'
  BY DEF PInv, PriceArrives, FormAgrees, page
<1> QED BY <1>1, <1>2, <1>3 DEF PInv

\* A change of the form.
LEMMA EditTypes ==
    ASSUME Types, Edit, form' \in [checked : BOOLEAN, val : Shares, lock : Lock],
           photos' \subseteq Lock, hist' = hist
    PROVE  Types' /\ flow' = flow /\ allowance' = allowance
  BY PaidAssumption DEF Types, Edit, busy, market

LEMMA CheckboxChangeInv == ASSUME PInv, CheckboxChange PROVE PInv'
<1>1. /\ form \in [checked : BOOLEAN, val : Shares, lock : Lock]
      /\ photos' = photos /\ hist' = hist /\ photos \subseteq Lock
      /\ form' = [form EXCEPT !.checked = ~form.checked,
                              !.lock = IF form.checked THEN 0 ELSE form.val]
  BY DEF PInv, Types, CheckboxChange
<1>2. form.val \in Shares /\ form.val \in Lock
  BY <1>1 DEF Lock
<1>3. CASE form.checked
  <2>1. form' = [checked |-> FALSE, val |-> form.val, lock |-> 0]
    BY <1>1, <1>3
  <2>2. form' \in [checked : BOOLEAN, val : Shares, lock : Lock]
    BY <1>2, <2>1, Zero
  <2>3. FormAgrees'
    BY <2>1 DEF FormAgrees
  <2> QED BY <1>1, <2>2, <2>3, EditTypes, FlowsSame DEF PInv, CheckboxChange
<1>4. CASE ~form.checked
  <2>1. form' = [checked |-> TRUE, val |-> form.val, lock |-> form.val]
    BY <1>1, <1>4
  <2>2. form' \in [checked : BOOLEAN, val : Shares, lock : Lock]
    BY <1>2, <2>1
  <2>3. FormAgrees'
    BY <2>1 DEF FormAgrees
  <2> QED BY <1>1, <2>2, <2>3, EditTypes, FlowsSame DEF PInv, CheckboxChange
<1> QED BY <1>3, <1>4

LEMMA ChangeLockedValInv ==
    ASSUME PInv, NEW v \in Shares, ChangeLockedVal(v) PROVE PInv'
<1>1. /\ form \in [checked : BOOLEAN, val : Shares, lock : Lock]
      /\ photos' = photos /\ hist' = hist /\ photos \subseteq Lock
      /\ form' = [form EXCEPT !.val = v, !.lock = IF form.checked THEN v ELSE 0]
  BY DEF PInv, Types, ChangeLockedVal
<1>2. form' = [checked |-> form.checked, val |-> v, lock |-> IF form.checked THEN v ELSE 0]
  BY <1>1
<1>3. form' \in [checked : BOOLEAN, val : Shares, lock : Lock]
  BY <1>1, <1>2, Zero DEF Lock
<1>4. FormAgrees'
  BY <1>2 DEF FormAgrees
<1> QED BY <1>1, <1>3, <1>4, EditTypes, FlowsSame DEF PInv, ChangeLockedVal

LEMMA BtnUpPhotoInv == ASSUME PInv, BtnUpPhoto PROVE PInv'
<1>1. /\ form \in [checked : BOOLEAN, val : Shares, lock : Lock]
      /\ form' = form /\ hist' = hist /\ photos \subseteq Lock
      /\ photos' = photos \cup {form.lock}
  BY DEF PInv, Types, BtnUpPhoto
<1>2. photos' \subseteq Lock
  BY <1>1
<1>3. FormAgrees'
  BY <1>1 DEF PInv, FormAgrees
<1> QED BY <1>1, <1>2, <1>3, EditTypes, FlowsSame DEF PInv, BtnUpPhoto

LEMMA PhotoLoadsInv == ASSUME PInv, NEW l \in photos, PhotoLoads(l) PROVE PInv'
<1>1. /\ form \in [checked : BOOLEAN, val : Shares, lock : Lock]
      /\ photos \subseteq Lock /\ l \in Lock
      /\ hist \in [reverted : BOOLEAN, orphan : BOOLEAN, silent : SUBSET Kinds]
      /\ photos' = photos \ {l}
      /\ form' = [form EXCEPT !.lock = l]
      /\ hist' = [hist EXCEPT !.reverted = hist.reverted \/ l # form.lock]
  BY DEF PInv, Types, PhotoLoads
<1>2. form' \in [checked : BOOLEAN, val : Shares, lock : Lock] /\ photos' \subseteq Lock
  BY <1>1
<1>3. CASE hist.reverted \/ l # form.lock
  <2>1. hist' = [hist EXCEPT !.reverted = TRUE]
    BY <1>1, <1>3
  <2>2. hist' \in [reverted : BOOLEAN, orphan : BOOLEAN, silent : SUBSET Kinds] /\ hist'.reverted
    BY <1>1, <2>1
  <2>3. Types'
    BY <1>2, <2>2 DEF PInv, Types, PhotoLoads, busy, market
  <2>4. FormAgrees'
    BY <2>2 DEF FormAgrees
  <2>5. FlowsInv'
    BY <2>2, FlowsSame DEF PInv, PhotoLoads
  <2> QED BY <2>3, <2>4, <2>5 DEF PInv
<1>4. CASE ~hist.reverted /\ l = form.lock
  <2>1. hist' = [hist EXCEPT !.reverted = FALSE] /\ ~hist.reverted
    BY <1>1, <1>4
  <2>2. hist' \in [reverted : BOOLEAN, orphan : BOOLEAN, silent : SUBSET Kinds]
    BY <1>1, <2>1
  <2>3. form' = form
    BY <1>1, <1>4
  <2>4. Types'
    BY <1>2, <2>2 DEF PInv, Types, PhotoLoads, busy, market
  <2>5. FormAgrees'
    BY <1>4, <2>3 DEF PInv, FormAgrees
  <2>6. FlowsInv'
    BY <1>4, FlowsSame DEF PInv, PhotoLoads
  <2> QED BY <2>4, <2>5, <2>6 DEF PInv
<1> QED BY <1>3, <1>4

LEMMA UserChangesInv == ASSUME PInv, UserChanges PROVE PInv'
<1>1. Types'
  <2>1. user' \in BOOLEAN
    BY DEF UserChanges
  <2>2. bounds' \in [edits : 0..MaxEdits, logins : 0..MaxLogins, ticks : 0..MaxTicks,
                     failures : 0..MaxFailures, closes : 0..MaxCloses]
    BY PaidAssumption DEF PInv, Types, UserChanges
  <2> QED BY <2>1, <2>2 DEF PInv, Types, UserChanges, busy, market
<1>2. FlowsInv'
  BY FlowsSame DEF PInv, UserChanges
<1>3. FormAgrees'
  BY DEF PInv, UserChanges, FormAgrees
<1> QED BY <1>1, <1>2, <1>3 DEF PInv

LEMMA CloseRightBoxInv == ASSUME PInv, CloseRightBox PROVE PInv'
<1>1. Types'
  <2>1. bounds' \in [edits : 0..MaxEdits, logins : 0..MaxLogins, ticks : 0..MaxTicks,
                     failures : 0..MaxFailures, closes : 0..MaxCloses]
    BY PaidAssumption DEF PInv, Types, CloseRightBox
  <2> QED BY <2>1 DEF PInv, Types, CloseRightBox, page, market
<1>2. FlowsInv'
  BY FlowsSame DEF PInv, CloseRightBox
<1>3. FormAgrees'
  BY DEF PInv, CloseRightBox, FormAgrees, page
<1> QED BY <1>1, <1>2, <1>3 DEF PInv

-----------------------------------------------------------------------------
(* A flow begins *)

LEMMA BtnFomoInv == ASSUME PInv, NEW f \in Flows, BtnFomo(f) PROVE PInv'
<1>1. /\ Clicked \in Flow
      /\ Clicked.lock = Clicked.wanted \/ hist.reverted
      /\ Clicked.charged = "no"
      /\ Enough(Clicked)
  BY ClickedRecord DEF PInv
<1>2. form \in [checked : BOOLEAN, val : Shares, lock : Lock]
      /\ form' = [form EXCEPT !.lock = IF form.checked THEN form.lock ELSE 0]
  BY DEF PInv, Types, BtnFomo
<1>3. form' \in [checked : BOOLEAN, val : Shares, lock : Lock] /\ FormAgrees'
  <2>1. hist' = hist /\ FormAgrees
    BY DEF PInv, BtnFomo
  <2>2. CASE form.checked
    <3>1. form' = form
      BY <1>2, <2>2
    <3> QED BY <1>2, <2>1, <3>1 DEF FormAgrees
  <2>3. CASE ~form.checked
    <3>1. form' = [form EXCEPT !.lock = 0]
      BY <1>2, <2>3
    <3> QED BY <1>2, <2>1, <2>3, <3>1, Zero DEF FormAgrees
  <2> QED BY <2>2, <2>3
<1>4. flow' \in [Flows -> Flow] /\ FlowsInv' /\ box' \in BOOLEAN
  <2>1. CASE user
    <3>1. Start(f, Clicked) /\ box' = TRUE /\ hist' = hist /\ allowance' = allowance
      BY <2>1 DEF BtnFomo
    <3> QED BY <1>1, <3>1, StartSteps DEF PInv
  <2>2. CASE ~user
    <3> DEFINE r == [Clicked EXCEPT !.pc = "waiting"]
    <3>1. flow' = [flow EXCEPT ![f] = r] /\ box' = box /\ hist' = hist
          /\ allowance' = allowance
      BY <2>2 DEF BtnFomo
    <3>2. /\ r \in Flow /\ r.pc = "waiting"
          /\ r.lock = Clicked.lock /\ r.wanted = Clicked.wanted
          /\ r.charged = Clicked.charged
          /\ r.kind = Clicked.kind /\ r.points = Clicked.points
      <4> HIDE DEF r
      <4> QED BY <1>1, MovedRecord DEF r
    <3> HIDE DEF r
    <3>3. FlowsInv'
      BY <1>1, <3>1, <3>2, OneFlowSteps DEF PInv, Enough
    <3>4. flow' \in [Flows -> Flow] /\ box' \in BOOLEAN
      BY <3>1, <3>2 DEF PInv, Types
    <3> QED BY <3>3, <3>4
  <2> QED BY <2>1, <2>2 DEF PInv, Types
<1>5. Types'
  BY <1>3, <1>4 DEF PInv, Types, BtnFomo, market
<1> QED BY <1>3, <1>4, <1>5 DEF PInv

LEMMA IntervalUserInv == ASSUME PInv, NEW f \in Flows, IntervalUser(f) PROVE PInv'
<1>1. flow[f] \in Flow /\ flow[f].pc = "waiting" /\ Locked(f) /\ ChargedOnce(f)
      /\ Enough(flow[f])
  BY DEF PInv, Types, FlowsInv, IntervalUser
<1>2. Start(f, flow[f]) /\ hist' = hist /\ allowance' = allowance
  BY DEF IntervalUser
<1>3. FlowsInv' /\ flow' \in [Flows -> Flow]
  BY <1>1, <1>2, StartSteps DEF PInv, Locked, ChargedOnce
<1>4. Types'
  BY <1>3 DEF PInv, Types, IntervalUser, page, market
<1>5. FormAgrees'
  BY DEF PInv, FormAgrees, IntervalUser, page
<1> QED BY <1>3, <1>4, <1>5 DEF PInv

LEMMA BtnBuyTokenInv ==
    ASSUME PInv, NEW f \in Flows, NEW n \in Points, BtnBuyToken(f, n) PROVE PInv'
<1> DEFINE r == [NoFlow EXCEPT !.kind = "topup", !.points = n]
<1>1. r \in Flow /\ r.lock = r.wanted /\ r.charged = "no" /\ Enough(r)
  BY TopupRecord DEF BtnBuyToken
<1>2. hist \in [reverted : BOOLEAN, orphan : BOOLEAN, silent : SUBSET Kinds] /\ allowance' = allowance
      /\ topping' = TRUE /\ form' = form
  BY DEF PInv, Types, BtnBuyToken, page
<1>3. /\ flow' \in [Flows -> Flow]
      /\ FlowsInv'
      /\ hist' \in [reverted : BOOLEAN, orphan : BOOLEAN, silent : SUBSET Kinds]
      /\ hist'.reverted = hist.reverted
  <2>1. CASE user
    <3>1. Start(f, r) /\ hist' = hist
      BY <2>1 DEF BtnBuyToken
    <3> HIDE DEF r
    <3> QED BY <1>1, <1>2, <3>1, StartSteps DEF PInv
  <2>2. CASE ~user
    <3>1. hist' = [hist EXCEPT !.orphan = TRUE] /\ flow' = flow
      BY <2>2 DEF BtnBuyToken
    <3>2. hist' \in [reverted : BOOLEAN, orphan : BOOLEAN, silent : SUBSET Kinds] /\ hist'.reverted = hist.reverted
      BY <1>2, <3>1
    <3>3. FlowsInv'
      BY <1>2, <3>1, <3>2, FlowsSame DEF PInv
    <3> QED BY <3>1, <3>2, <3>3 DEF PInv, Types
  <2> QED BY <2>1, <2>2 DEF PInv, Types
<1>4. Types'
  BY <1>2, <1>3 DEF PInv, Types, BtnBuyToken, page, market
<1>5. FormAgrees'
  BY <1>2, <1>3 DEF PInv, FormAgrees
<1> QED BY <1>3, <1>4, <1>5 DEF PInv

LEMMA BtnRemoveOwnershipInv ==
    ASSUME PInv, NEW f \in Flows, BtnRemoveOwnership(f) PROVE PInv'
<1> DEFINE r == [NoFlow EXCEPT !.kind = "owner"]
<1>1. r \in Flow /\ r.lock = r.wanted /\ r.charged = "no" /\ Enough(r)
  BY OwnerRecord
<1>2. Start(f, r) /\ hist' = hist /\ allowance' = allowance
  BY DEF BtnRemoveOwnership
<1> HIDE DEF r
<1>3. FlowsInv' /\ flow' \in [Flows -> Flow]
  BY <1>1, <1>2, StartSteps DEF PInv
<1>4. Types'
  BY <1>3 DEF PInv, Types, BtnRemoveOwnership, page, market
<1>5. FormAgrees'
  BY DEF PInv, FormAgrees, BtnRemoveOwnership, page
<1> QED BY <1>3, <1>4, <1>5 DEF PInv

-----------------------------------------------------------------------------
(* A flow goes on *)

\* A call fails, and the buttons of a kind are freed.
LEMMA FailTypes ==
    ASSUME Types, Fail
    PROVE  bounds' \in [edits : 0..MaxEdits, logins : 0..MaxLogins, ticks : 0..MaxTicks,
                        failures : 0..MaxFailures, closes : 0..MaxCloses]
  BY PaidAssumption DEF Types, Fail

LEMMA FreeTypes ==
    ASSUME Types, NEW kind, Free(kind)
    PROVE  <<box', topping', owning'>> \in BOOLEAN \X BOOLEAN \X BOOLEAN
  BY DEF Types, Free

\* Nothing of a flow that is over is left.
LEMMA OverSteps ==
    ASSUME Types, FlowsInv, NEW f \in Flows, flow' = [flow EXCEPT ![f] = Over],
           hist'.reverted = hist.reverted, allowance' = allowance
    PROVE  FlowsInv' /\ flow' \in [Flows -> Flow]
<1>1. FlowsInv'
  BY OverRecord, OneFlowSteps
<1> QED BY <1>1, OverRecord DEF Types

LEMMA ApproveDoneInv == ASSUME PInv, NEW f \in Flows, ApproveDone(f) PROVE PInv'
<1> DEFINE p == IF flow[f].kind = "create" THEN "upload" ELSE "call"
           r == [flow[f] EXCEPT !.pc = p]
           a == ApproveOf(flow[f].kind, flow[f].points, flow[f].rate)
<1>1. flow \in [Flows -> Flow] /\ flow[f] \in Flow /\ flow[f].pc = "approve" /\ hist' = hist
  BY DEF PInv, Types, ApproveDone
<1>2. flow' = [flow EXCEPT ![f] = r] /\ allowance' = [amount |-> a, by |-> f]
  BY <1>1 DEF ApproveDone
<1>3. /\ r \in Flow /\ r.pc \in {"upload", "call"}
      /\ r.kind = flow[f].kind /\ r.points = flow[f].points /\ r.rate = flow[f].rate
      /\ r.lock = flow[f].lock /\ r.wanted = flow[f].wanted
      /\ r.charged = flow[f].charged /\ r.alone = flow[f].alone
  <2>1. p \in {"upload", "call"} /\ p \in {"approve", "upload", "call", "waiting"}
    OBVIOUS
  <2> HIDE DEF p
  <2>2. r.pc = p
    BY <1>1, <2>1, MovedRecord
  <2> QED BY <1>1, <2>1, <2>2, MovedRecord, ZenonT(40)
<1>4. a \in Nat
  <2>1. flow[f].kind \in Kinds /\ flow[f].points \in Points \cup {0} /\ flow[f].rate \in Prices
    BY <1>1 DEF Flow
  <2> QED BY <2>1, Amounts DEF PInv
<1>5. allowance'.by = f /\ allowance'.amount = ApproveOf(r.kind, r.points, r.rate)
  BY <1>2, <1>3
<1> HIDE DEF r, a
<1>6. Locked(f) /\ ChargedOnce(f) /\ Enough(flow[f])
  BY DEF PInv, FlowsInv
<1>7. FlowsInv'
  BY <1>1, <1>2, <1>3, <1>5, <1>6, OneFlowSteps DEF PInv, Locked, ChargedOnce, Active, Enough
<1>8. allowance' \in [amount : Nat, by : Flows \cup {0}] /\ flow' \in [Flows -> Flow]
  BY <1>1, <1>2, <1>3, <1>4
<1>9. Types'
  <2>1. box' \in BOOLEAN
    BY DEF ApproveDone
  <2> QED BY <1>8, <2>1 DEF PInv, Types, ApproveDone, page, market
<1>10. FormAgrees'
  BY DEF PInv, FormAgrees, ApproveDone, page
<1> QED BY <1>7, <1>9, <1>10 DEF PInv

LEMMA ApproveFailsInv == ASSUME PInv, NEW f \in Flows, ApproveFails(f) PROVE PInv'
<1>1. flow \in [Flows -> Flow] /\ flow[f] \in Flow /\ flow[f].pc = "approve" /\ hist' = hist
      /\ allowance' = allowance
  BY DEF PInv, Types, ApproveFails
<1>2. FlowsInv' /\ flow' \in [Flows -> Flow]
  <2>1. CASE flow[f].kind = "owner"
    <3> DEFINE r == [flow[f] EXCEPT !.pc = "call", !.skipped = TRUE]
    <3>1. flow' = [flow EXCEPT ![f] = r]
      BY <1>1, <2>1 DEF ApproveFails
    <3>2. /\ r \in Flow /\ r.pc = "call" /\ r.skipped
          /\ r.lock = flow[f].lock /\ r.wanted = flow[f].wanted
          /\ r.charged = flow[f].charged /\ r.alone = flow[f].alone
          /\ r.kind = flow[f].kind /\ r.points = flow[f].points
      BY <1>1, SkippedRecord
    <3> HIDE DEF r
    <3>3. Locked(f) /\ ChargedOnce(f) /\ Enough(flow[f])
      BY DEF PInv, FlowsInv
    <3>4. FlowsInv'
      BY <1>1, <3>1, <3>2, <3>3, OneFlowSteps DEF PInv, Locked, ChargedOnce, Active, Enough
    <3> QED BY <1>1, <3>1, <3>2, <3>4
  <2>2. CASE flow[f].kind # "owner"
    <3>1. flow' = [flow EXCEPT ![f] = Over]
      BY <1>1, <2>2 DEF ApproveFails
    <3> QED BY <1>1, <3>1, OverSteps DEF PInv
  <2> QED BY <2>1, <2>2
<1>3. Types'
  BY <1>2, FailTypes, FreeTypes DEF PInv, Types, ApproveFails, page, market
<1>4. FormAgrees'
  BY DEF PInv, FormAgrees, ApproveFails, page
<1> QED BY <1>2, <1>3, <1>4 DEF PInv

\* Nobody is called back: the flow is over, or goes on without an approval.
LEMMA ApproveSilentInv == ASSUME PInv, NEW f \in Flows, ApproveSilent(f) PROVE PInv'
<1>1. flow \in [Flows -> Flow] /\ flow[f] \in Flow /\ flow[f].pc = "approve" /\ allowance' = allowance
      /\ hist \in [reverted : BOOLEAN, orphan : BOOLEAN, silent : SUBSET Kinds]
  BY DEF PInv, Types, ApproveSilent
<1>2. /\ FlowsInv' /\ flow' \in [Flows -> Flow] /\ hist'.reverted = hist.reverted
      /\ hist' \in [reverted : BOOLEAN, orphan : BOOLEAN, silent : SUBSET Kinds]
  <2>1. CASE flow[f].kind = "owner"
    <3> DEFINE r == [flow[f] EXCEPT !.pc = "call", !.skipped = TRUE]
    <3>1. flow' = [flow EXCEPT ![f] = r] /\ hist' = hist
      BY <1>1, <2>1 DEF ApproveSilent
    <3>2. /\ r \in Flow /\ r.pc = "call" /\ r.skipped
          /\ r.lock = flow[f].lock /\ r.wanted = flow[f].wanted
          /\ r.charged = flow[f].charged /\ r.alone = flow[f].alone
          /\ r.kind = flow[f].kind /\ r.points = flow[f].points
      BY <1>1, SkippedRecord
    <3> HIDE DEF r
    <3>3. Locked(f) /\ ChargedOnce(f) /\ Enough(flow[f])
      BY DEF PInv, FlowsInv
    <3>4. FlowsInv'
      BY <1>1, <3>1, <3>2, <3>3, OneFlowSteps DEF PInv, Locked, ChargedOnce, Active, Enough
    <3> QED BY <1>1, <3>1, <3>2, <3>4
  <2>2. CASE flow[f].kind # "owner"
    <3>1. /\ flow' = [flow EXCEPT ![f] = Over]
          /\ hist' = [hist EXCEPT !.silent = hist.silent \cup {flow[f].kind}]
      BY <1>1, <2>2 DEF ApproveSilent
    <3>2. flow[f].kind \in Kinds
      BY <1>1 DEF Flow
    <3>3. /\ hist'.reverted = hist.reverted
          /\ hist' \in [reverted : BOOLEAN, orphan : BOOLEAN, silent : SUBSET Kinds]
      BY <1>1, <3>1, <3>2
    <3> QED BY <1>1, <3>1, <3>3, OverSteps DEF PInv
  <2> QED BY <2>1, <2>2
<1>3. Types'
  BY <1>2, FailTypes DEF PInv, Types, ApproveSilent, page, busy, market
<1>4. FormAgrees'
  BY <1>2 DEF PInv, FormAgrees, ApproveSilent, page
<1> QED BY <1>2, <1>3, <1>4 DEF PInv

LEMMA UploadedInv == ASSUME PInv, NEW f \in Flows, Uploaded(f) PROVE PInv'
<1> DEFINE r == [flow[f] EXCEPT !.pc = "call"]
<1>1. flow \in [Flows -> Flow] /\ flow[f] \in Flow /\ flow[f].pc = "upload" /\ hist' = hist
      /\ allowance' = allowance
  BY DEF PInv, Types, Uploaded
<1>2. flow' = [flow EXCEPT ![f] = r]
  BY <1>1 DEF Uploaded
<1>3. /\ r \in Flow /\ r.pc = "call"
      /\ r.kind = flow[f].kind /\ r.points = flow[f].points /\ r.rate = flow[f].rate
      /\ r.lock = flow[f].lock /\ r.wanted = flow[f].wanted
      /\ r.charged = flow[f].charged /\ r.alone = flow[f].alone
      /\ r.skipped = flow[f].skipped
  BY <1>1, MovedRecord
<1> HIDE DEF r
<1>4. Locked(f) /\ ChargedOnce(f) /\ Untouched(f) /\ Enough(flow[f])
  BY DEF PInv, FlowsInv
<1>5. r.alone /\ ~r.skipped => /\ allowance'.by = f
                               /\ allowance'.amount = ApproveOf(r.kind, r.points, r.rate)
  BY <1>1, <1>3, <1>4 DEF Untouched
<1>6. FlowsInv'
  BY <1>1, <1>2, <1>3, <1>4, <1>5, OneFlowSteps DEF PInv, Locked, ChargedOnce, Active, Enough
<1>7. flow' \in [Flows -> Flow]
  BY <1>1, <1>2, <1>3
<1>8. Types'
  BY <1>7 DEF PInv, Types, Uploaded, page, busy, market
<1>9. FormAgrees'
  BY DEF PInv, FormAgrees, Uploaded, page
<1> QED BY <1>6, <1>8, <1>9 DEF PInv

LEMMA UploadFailsInv == ASSUME PInv, NEW f \in Flows, UploadFails(f) PROVE PInv'
<1>1. FlowsInv' /\ flow' \in [Flows -> Flow]
  BY OverSteps DEF PInv, UploadFails
<1>2. Types'
  BY <1>1, FailTypes, FreeTypes DEF PInv, Types, UploadFails, page, market
<1>3. FormAgrees'
  BY DEF PInv, FormAgrees, UploadFails, page
<1> QED BY <1>1, <1>2, <1>3 DEF PInv

LEMMA TopupThrowsInv == ASSUME PInv, NEW f \in Flows, TopupThrows(f) PROVE PInv'
<1>1. FlowsInv' /\ flow' \in [Flows -> Flow]
  BY OverSteps DEF PInv, TopupThrows
<1>2. Types'
  BY <1>1, FreeTypes DEF PInv, Types, TopupThrows, page, market
<1>3. FormAgrees'
  BY DEF PInv, FormAgrees, TopupThrows, page
<1> QED BY <1>1, <1>2, <1>3 DEF PInv

LEMMA AnsweredInv == ASSUME PInv, NEW f \in Flows, Answered(f) PROVE PInv'
<1>1. FlowsInv' /\ flow' \in [Flows -> Flow]
  <2> DEFINE r == [Over EXCEPT !.pc = "profile"]
  <2>1. hist' = hist /\ allowance' = allowance
        /\ \/ flow' = [flow EXCEPT ![f] = Over]
           \/ flow' = [flow EXCEPT ![f] = r]
    BY DEF Answered
  <2>2. r \in Flow /\ r.lock = r.wanted /\ r.charged = "no" /\ Enough(r) /\ r.pc = "profile"
    BY ProfileRecord
  <2> HIDE DEF r
  <2>3. CASE flow' = [flow EXCEPT ![f] = Over]
    BY <2>1, <2>3, OverSteps DEF PInv
  <2>4. CASE flow' = [flow EXCEPT ![f] = r]
    <3>1. FlowsInv'
      BY <2>1, <2>2, <2>4, OneFlowSteps DEF PInv
    <3> QED BY <2>2, <2>4, <3>1 DEF PInv, Types
  <2> QED BY <2>1, <2>3, <2>4
<1>2. Types'
  BY <1>1, FreeTypes DEF PInv, Types, Answered, page, market
<1>3. FormAgrees'
  BY DEF PInv, FormAgrees, Answered, page
<1> QED BY <1>1, <1>2, <1>3 DEF PInv

LEMMA ProfileReadInv == ASSUME PInv, NEW f \in Flows, ProfileRead(f) PROVE PInv'
<1>1. FlowsInv' /\ flow' \in [Flows -> Flow]
  BY OverSteps DEF PInv, ProfileRead
<1>2. Types'
  BY <1>1, FailTypes, FreeTypes DEF PInv, Types, ProfileRead, page, busy, market
<1>3. FormAgrees'
  BY DEF PInv, FormAgrees, ProfileRead, page
<1> QED BY <1>1, <1>2, <1>3 DEF PInv

\* The launcher takes its fee from the allowance it finds, or refuses.
LEMMA LauncherChargesInv == ASSUME PInv, NEW f \in Flows, LauncherCharges(f) PROVE PInv'
<1> DEFINE fee == FeeOf(flow[f].kind, flow[f].points)
           taken == ChargedFee(allowance.amount, fee) + LedgerFee
           ok == allowance.amount >= MinFee(fee) /\ allowance.amount >= taken
           d == 4 * oracle > 5 * flow[f].rate
           c == IF allowance.by = f THEN "own" ELSE "other"
<1>1. flow \in [Flows -> Flow] /\ flow[f] \in Flow /\ flow[f].pc = "call" /\ hist' = hist
  BY DEF PInv, Types, LauncherCharges
<1>2. flow[f].kind \in Kinds /\ flow[f].points \in Points \cup {0} /\ flow[f].rate \in Prices
  BY <1>1 DEF Flow
<1>3. fee \in Nat /\ allowance \in [amount : Nat, by : Flows \cup {0}] /\ Active(f)
  BY <1>1, <1>2, Amounts DEF PInv, Types, Active
<1>4. Locked(f) /\ ChargedOnce(f) /\ Untouched(f) /\ Enough(flow[f])
  BY DEF PInv, FlowsInv
<1>5. /\ flow' \in [Flows -> Flow]
      /\ FlowsInv'
      /\ allowance' \in [amount : Nat, by : Flows \cup {0}]
  <2>1. CASE ok
    <3> DEFINE r == [flow[f] EXCEPT !.pc = "paid", !.charged = c]
    <3>1. flow' = [flow EXCEPT ![f] = r]
          /\ allowance' = [allowance EXCEPT !.amount = allowance.amount - taken]
      BY <1>1, <2>1 DEF LauncherCharges
    <3>2. /\ r \in Flow /\ r.pc = "paid" /\ r.charged = c
          /\ r.lock = flow[f].lock /\ r.wanted = flow[f].wanted
          /\ r.alone = flow[f].alone /\ r.skipped = flow[f].skipped
          /\ r.kind = flow[f].kind /\ r.points = flow[f].points
      <4>1. c \in {"own", "other"}
        OBVIOUS
      <4> HIDE DEF c
      <4> QED BY <1>1, <4>1, PaidRecord
    <3>3. c = "other" => ~r.alone \/ r.skipped
      BY <1>1, <1>4, <3>2 DEF Untouched
    <3>4. allowance' \in [amount : Nat, by : Flows \cup {0}]
      <4>1. taken \in Nat
        BY <1>3, ChargedType
      <4>2. allowance.amount \in Nat /\ allowance.amount >= taken
        BY <1>3, <2>1
      <4> HIDE DEF fee, taken
      <4>3. allowance.amount - taken \in Nat
        BY <4>1, <4>2
      <4> QED BY <1>3, <3>1, <4>3
    <3> HIDE DEF r, c, fee, taken, ok
    <3>5. FlowsInv'
      BY <1>1, <1>3, <1>4, <3>1, <3>2, <3>3, OneFlowSteps DEF PInv, Locked, Enough
    <3> QED BY <1>1, <3>1, <3>2, <3>4, <3>5
  <2>2. CASE ~ok
    <3> DEFINE r == [flow[f] EXCEPT !.pc = "refused", !.drift = d]
    <3>1. flow' = [flow EXCEPT ![f] = r] /\ allowance' = allowance
      BY <1>1, <2>2 DEF LauncherCharges
    <3>2. d \/ ~flow[f].alone \/ flow[f].skipped
      <4>1. SUFFICES ASSUME flow[f].alone, ~flow[f].skipped PROVE d
        OBVIOUS
      <4>2. allowance.amount = ApproveOf(flow[f].kind, flow[f].points, flow[f].rate)
        BY <1>1, <1>4, <4>1 DEF Untouched
      <4> QED BY <1>1, <1>4, <2>2, <4>2, Margin DEF PInv
    <3>3. /\ r \in Flow /\ r.pc = "refused"
          /\ d => r.drift
          /\ r.charged = flow[f].charged
          /\ r.lock = flow[f].lock /\ r.wanted = flow[f].wanted
          /\ r.alone = flow[f].alone /\ r.skipped = flow[f].skipped
          /\ r.kind = flow[f].kind /\ r.points = flow[f].points
      <4>1. d \in BOOLEAN
        OBVIOUS
      <4> HIDE DEF d
      <4>2. CASE d = TRUE
        BY <1>1, <4>2 DEF Flow
      <4>3. CASE d = FALSE
        BY <1>1, <4>3 DEF Flow
      <4> QED BY <4>1, <4>2, <4>3
    <3> HIDE DEF r, d, fee, taken, ok
    <3>4. FlowsInv'
      BY <1>1, <1>3, <1>4, <3>1, <3>2, <3>3, OneFlowSteps DEF PInv, Locked, ChargedOnce, Enough
    <3> QED BY <1>1, <1>3, <3>1, <3>3, <3>4
  <2> QED BY <2>1, <2>2
<1>6. Types'
  BY <1>5 DEF PInv, Types, LauncherCharges, page, busy, market
<1>7. FormAgrees'
  BY DEF PInv, FormAgrees, LauncherCharges, page
<1> QED BY <1>5, <1>6, <1>7 DEF PInv

-----------------------------------------------------------------------------
(* The invariant and the promises *)

LEMMA StepInv == PInv /\ [Next]_vars => PInv'
<1> SUFFICES ASSUME PInv, [Next]_vars PROVE PInv'
  OBVIOUS
<1>1. CASE UNCHANGED vars
  <2>1. Types'
    BY <1>1 DEF PInv, Types, vars, page, busy, market
  <2>2. FormAgrees'
    BY <1>1 DEF PInv, FormAgrees, vars, page
  <2>3. FlowsInv'
    BY <1>1, FlowsSame DEF PInv, vars
  <2> QED BY <2>1, <2>2, <2>3 DEF PInv
<1>2. CASE \E f \in Flows : FlowAnswered(f)
  BY <1>2, ApproveDoneInv, ApproveFailsInv, UploadedInv, UploadFailsInv, TopupThrowsInv,
     LauncherChargesInv, AnsweredInv, ApproveSilentInv, ProfileReadInv DEF FlowAnswered
<1>3. CASE \E f \in Flows : \/ BtnFomo(f) \/ IntervalUser(f) \/ BtnRemoveOwnership(f)
                            \/ \E n \in Points : BtnBuyToken(f, n)
  BY <1>3, BtnFomoInv, IntervalUserInv, BtnRemoveOwnershipInv, BtnBuyTokenInv
<1>4. CASE PriceArrives \/ CheckboxChange \/ BtnUpPhoto \/ UserChanges \/ CloseRightBox
  BY <1>4, PriceArrivesInv, CheckboxChangeInv, BtnUpPhotoInv, UserChangesInv,
     CloseRightBoxInv
<1>5. CASE (\E v \in Shares : ChangeLockedVal(v)) \/ (\E l \in photos : PhotoLoads(l))
  BY <1>5, ChangeLockedValInv, PhotoLoadsInv
<1> QED BY <1>1, <1>2, <1>3, <1>4, <1>5 DEF Next

LEMMA AlwaysPInv == Spec => []PInv
  BY InitInv, StepInv, PTL DEF Spec

\* A project is created with the lock the form showed when it was clicked, unless a
\* picture that was still being read brought an earlier lock back; and the state keeps its
\* types (SetCoin.tsx: BtnUpPhoto, CheckboxChange, changelockedVal, btnFomo).
THEOREM LockAlwaysAgrees == Spec => []LockAgrees
<1>1. PInv => LockAgrees
  BY DEF PInv, FlowsInv, Locked, LockAgrees
<1> QED BY <1>1, AlwaysPInv, PTL

\* Whatever flows are under way, one that met no other and whose approval was signed is
\* charged from that approval (stepApprove, icrc2_approve and the launcher's transfer).
THEOREM AlwaysChargedFromOwn == Spec => []ChargedFromOwn
<1>1. PInv => ChargedFromOwn
  BY DEF PInv, FlowsInv, PaidFromOwn, ChargedFromOwn
<1> QED BY <1>1, AlwaysPInv, PTL

\* For all prices: a flow is refused only if the oracle's price is more than a quarter above the
\* page's, it met another or its approval failed; the launcher's band of one percent and the
\* ledger's fees are counted in (stepApprove, get_icp_platform_fee, icrc2_transfer_from).
THEOREM MarginAlwaysSuffices == Spec => []MarginSuffices
<1>1. PInv => MarginSuffices
  BY DEF PInv, FlowsInv, RefusedFor, MarginSuffices
<1> QED BY <1>1, AlwaysPInv, PTL

=============================================================================
