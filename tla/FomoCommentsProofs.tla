------------------------- MODULE FomoCommentsProofs -------------------------
(***************************************************************************)
(* Theorems about FomoComments for every set of users, any number of       *)
(* comments in flight and all bounds.                                      *)
(***************************************************************************)
EXTENDS FomoComments, FiniteSetTheorems, TLAPS

\* What an index depends on, typed.
CallsTyped ==
    /\ count \in Nat
    /\ call \in [Calls -> AddCall]

(* The inductive invariant. *)
IInv == CallsTyped /\ IndexOwned

\* What every step keeps of the stored comments.
Kept == \A i \in DOMAIN comments : i \in DOMAIN comments' /\ comments'[i] = comments[i]

LEMMA InitOwned == Init => IInv
  BY DEF Init, IInv, CallsTyped, IndexOwned, AddCall, IdleCall

LEMMA IdleType == IdleCall \in AddCall /\ IdleCall.pc = "idle"
  BY DEF IdleCall, AddCall

\* A call moves on and keeps its index.
LEMMA MoveKeeps ==
    ASSUME IInv, NEW c \in Calls, call[c].pc # "idle",
           NEW pc \in {"spent", "refused", "upload", "reply", "replied"},
           call' = [call EXCEPT ![c].pc = pc],
           UNCHANGED project
    PROVE  IInv' /\ Kept
<1>1. CallsTyped'
  BY DEF IInv, CallsTyped, AddCall, project
<1>2. \A d \in Calls : /\ call'[d].pc # "idle" <=> call[d].pc # "idle"
                       /\ call'[d].idx = call[d].idx
  BY DEF IInv, CallsTyped, AddCall
<1>3. IndexOwned'
  BY <1>2 DEF IInv, IndexOwned, project
<1> QED
  BY <1>1, <1>3 DEF IInv, Kept, project

\* A call ends without a comment.
LEMMA EndKeeps ==
    ASSUME IInv, NEW c \in Calls, call' = [call EXCEPT ![c] = IdleCall], UNCHANGED project
    PROVE  IInv' /\ Kept
<1>1. CallsTyped'
  BY IdleType DEF IInv, CallsTyped, project
<1>2. \A d \in Calls : call'[d].pc # "idle" => d # c /\ call'[d] = call[d]
  BY IdleType DEF IInv, CallsTyped
<1>3. IndexOwned'
  BY <1>2 DEF IInv, IndexOwned, project
<1> QED
  BY <1>1, <1>3 DEF IInv, Kept, project

\* Facts about the next index.
LEMMA NextIndex ==
    ASSUME count \in Nat, count' = count + 1
    PROVE  /\ count' \in Nat
           /\ count + 1 \notin 1..count
           /\ count + 1 \in 1..count'
           /\ 1..count \subseteq 1..count'
  OBVIOUS

\* A new comment takes an index above every other.
LEMMA AddKeeps ==
    ASSUME IInv, NEW c \in Calls, NEW u \in Users, NEW image \in BOOLEAN,
           AddComment(c, u, image)
    PROVE  IInv' /\ Kept
<1> DEFINE new == [pc |-> "spending", user |-> u, image |-> image, idx |-> count + 1]
<1>1. /\ call' = [call EXCEPT ![c] = new]
      /\ count' = count + 1
      /\ UNCHANGED comments
  BY DEF AddComment
<1>2. count \in Nat /\ call \in [Calls -> AddCall]
  BY DEF IInv, CallsTyped
<1>3. new \in AddCall /\ new.idx = count + 1
  BY <1>2 DEF AddCall
<1> HIDE DEF new
<1>4. \A d \in Calls : call'[d] = IF d = c THEN new ELSE call[d]
  BY <1>1, <1>2
<1>5. CallsTyped'
  BY <1>1, <1>2, <1>3, NextIndex DEF CallsTyped
<1>6. IndexOwned'
  <2>1. DOMAIN comments' \subseteq 1..count'
    BY <1>1, <1>2, NextIndex DEF IInv, IndexOwned
  <2>2. ASSUME NEW d \in Calls, call'[d].pc # "idle"
        PROVE  /\ call'[d].idx \in (1..count') \ DOMAIN comments'
               /\ \A e \in Calls \ {d} : call'[e].pc # "idle" => call'[e].idx # call'[d].idx
    <3>1. CASE d = c
      BY <1>1, <1>2, <1>3, <1>4, <3>1, NextIndex DEF IInv, IndexOwned
    <3>2. CASE d # c
      BY <1>1, <1>2, <1>3, <1>4, <2>2, <3>2, NextIndex DEF IInv, IndexOwned
    <3> QED BY <3>1, <3>2
  <2> QED BY <2>1, <2>2 DEF IndexOwned
<1> QED
  BY <1>1, <1>5, <1>6 DEF IInv, Kept

\* A comment is stored under an index that no comment has.
LEMMA StoreKeeps ==
    ASSUME IInv, NEW c \in Calls, StoreComment(c)
    PROVE  IInv' /\ Kept
<1> DEFINE i == call[c].idx
<1>1. /\ call[c].pc # "idle"
      /\ call' = [call EXCEPT ![c] = IdleCall]
      /\ UNCHANGED count
      /\ DOMAIN comments' = DOMAIN comments \cup {i}
      /\ \A j \in DOMAIN comments : j # i => comments'[j] = comments[j]
  BY DEF StoreComment, Put
<1>2. i \in 1..count /\ i \notin DOMAIN comments
  BY <1>1 DEF IInv, IndexOwned
<1>3. \A d \in Calls : call'[d].pc # "idle" => d # c /\ call'[d] = call[d]
  BY <1>1, IdleType DEF IInv, CallsTyped
<1>4. CallsTyped'
  BY <1>1, IdleType DEF IInv, CallsTyped
<1>5. IndexOwned'
  BY <1>1, <1>2, <1>3 DEF IInv, IndexOwned
<1> QED
  BY <1>1, <1>2, <1>4, <1>5 DEF IInv, Kept

LEMMA InvStep ==
    ASSUME IInv, [Next]_vars
    PROVE  IInv' /\ Kept
<1>1. ASSUME NEW c \in Calls, CallProgress(c) PROVE IInv' /\ Kept
  <2>1. CASE SpendingPoints(c)
    BY <2>1, MoveKeeps DEF SpendingPoints
  <2>2. CASE SpendingRefused(c)
    BY <2>2, MoveKeeps DEF SpendingRefused
  <2>3. CASE PointsTaken(c)
    BY <2>3, MoveKeeps DEF PointsTaken
  <2>4. CASE UploadDone(c)
    BY <2>4, MoveKeeps DEF UploadDone
  <2>5. CASE ReplyUpdate(c)
    BY <2>5, MoveKeeps DEF ReplyUpdate
  <2>6. CASE ReturnRefusal(c) \/ CommentLost(c)
    BY <2>6, EndKeeps DEF ReturnRefusal, CommentLost
  <2>7. CASE StoreComment(c)
    BY <2>7, StoreKeeps
  <2> QED
    BY <1>1, <2>1, <2>2, <2>3, <2>4, <2>5, <2>6, <2>7 DEF CallProgress
<1>2. ASSUME NEW c \in Calls, NEW u \in Users, NEW image \in BOOLEAN, AddComment(c, u, image)
      PROVE  IInv' /\ Kept
  BY <1>2, AddKeeps
<1>3. CASE Count
  BY <1>3, NextIndex DEF Count, IInv, CallsTyped, IndexOwned, Kept
<1>4. CASE \/ ReplyFromElsewhere
           \/ Register
           \/ \E u \in Users : GrantPoints(u)
           \/ \E r \in Reports : ReportTrade(r) \/ TradeReported(r) \/ ReportFails(r)
           \/ UNCHANGED vars
  <2>1. UNCHANGED <<project, call>>
    BY <1>4 DEF ReplyFromElsewhere, Register, GrantPoints, ReportTrade, TradeReported,
                ReportFails, vars
  <2> QED
    BY <2>1 DEF project, IInv, CallsTyped, IndexOwned, Kept
<1> QED
  BY <1>1, <1>2, <1>3, <1>4 DEF Next

-----------------------------------------------------------------------------
(* The types *)

\* A call in flight has a user.
CallersKnown == \A c \in Calls : call[c].pc # "idle" => call[c].user \in Users

Typed == TypeOK /\ CallersKnown

LEMMA InitTyped == Init => Typed
<1> SUFFICES ASSUME Init PROVE Typed
  OBVIOUS
<1>1. bounds \in [comments : 0..MaxComments, counts : 0..MaxCounts,
                  grants : 0..MaxGrants, reports : 0..MaxReports, failures : 0..MaxFailures]
  BY CommentsAssumption DEF Init
<1>3. report \in [Reports -> Report]
  BY DEF Init, NoReport, Report
<1>2. call \in [Calls -> AddCall] /\ \A c \in Calls : call[c].pc = "idle"
  BY IdleType DEF Init
<1> QED BY <1>1, <1>2, <1>3 DEF Init, Typed, TypeOK, CallersKnown

\* What a call looks like after it moved on.
LEMMA Moved ==
    ASSUME TypeOK, NEW c \in Calls,
           NEW pc \in {"spent", "refused", "upload", "reply", "replied"},
           call' = [call EXCEPT ![c].pc = pc]
    PROVE  /\ call' \in [Calls -> AddCall]
           /\ call'[c].pc = pc /\ call'[c].user = call[c].user
           /\ \A d \in Calls \ {c} : call'[d] = call[d]
  BY DEF TypeOK, AddCall

LEMMA Ended ==
    ASSUME TypeOK, NEW c \in Calls, call' = [call EXCEPT ![c] = IdleCall]
    PROVE  /\ call' \in [Calls -> AddCall]
           /\ call'[c].pc = "idle"
           /\ \A d \in Calls \ {c} : call'[d] = call[d]
  BY IdleType DEF TypeOK

LEMMA CountedType ==
    ASSUME TypeOK,
           \/ Counted("comments", MaxComments) \/ Counted("counts", MaxCounts)
           \/ Counted("grants", MaxGrants) \/ Counted("failures", MaxFailures)
           \/ Counted("reports", MaxReports)
    PROVE  bounds' \in [comments : 0..MaxComments, counts : 0..MaxCounts,
                        grants : 0..MaxGrants, reports : 0..MaxReports,
                     failures : 0..MaxFailures]
<1>1. /\ bounds \in [comments : 0..MaxComments, counts : 0..MaxCounts,
                     grants : 0..MaxGrants, reports : 0..MaxReports,
                     failures : 0..MaxFailures]
      /\ MaxComments \in Nat /\ MaxCounts \in Nat /\ MaxGrants \in Nat /\ MaxFailures \in Nat
      /\ MaxReports \in Nat
  BY CommentsAssumption DEF TypeOK
<1>2. CASE Counted("comments", MaxComments)
  BY <1>1, <1>2 DEF Counted
<1>3. CASE Counted("counts", MaxCounts)
  BY <1>1, <1>3 DEF Counted
<1>4. CASE Counted("grants", MaxGrants)
  BY <1>1, <1>4 DEF Counted
<1>5. CASE Counted("failures", MaxFailures)
  BY <1>1, <1>5 DEF Counted
<1>6. CASE Counted("reports", MaxReports)
  BY <1>1, <1>6 DEF Counted
<1> QED BY <1>2, <1>3, <1>4, <1>5, <1>6

\* A reply is counted, in the record and for the reports that have read it.
LEMMA CountTyped ==
    ASSUME TypeOK, CountReply
    PROVE  /\ replies' \in Nat /\ exposed' \in Nat /\ report' \in [Reports -> Report]
           /\ registered' \in BOOLEAN
  BY DEF CountReply, TypeOK

\* A step of a call that only moves it.
LEMMA MoveTyped ==
    ASSUME Typed, NEW c \in Calls, call[c].pc # "idle",
           NEW pc \in {"spent", "refused", "upload", "reply", "replied"},
           call' = [call EXCEPT ![c].pc = pc]
    PROVE  call' \in [Calls -> AddCall] /\ CallersKnown'
  BY Moved DEF Typed, CallersKnown

LEMMA EndTyped ==
    ASSUME Typed, NEW c \in Calls, call' = [call EXCEPT ![c] = IdleCall]
    PROVE  call' \in [Calls -> AddCall] /\ CallersKnown'
  BY Ended DEF Typed, CallersKnown

LEMMA TypedStep ==
    ASSUME Typed, [Next]_vars
    PROVE  Typed'
<1>1. TypeOK /\ CallersKnown
  BY DEF Typed
<1>2. ASSUME NEW c \in Calls, CallProgress(c) PROVE Typed'
  <2>1. CASE SpendingPoints(c)
    <3> DEFINE v == call[c].user
    <3>1. /\ points[v] >= Price
          /\ points' = [points EXCEPT ![v] = @ - Price]
          /\ spent' = [spent EXCEPT ![v] = @ + Price]
          /\ call[c].pc = "spending" /\ call' = [call EXCEPT ![c].pc = "spent"]
          /\ UNCHANGED <<project, record, lost, uncounted, bounds>>
      BY <2>1 DEF SpendingPoints
    <3>2. call' \in [Calls -> AddCall] /\ CallersKnown'
      BY <1>1, <3>1, MoveTyped DEF Typed
    <3>3. v \in Users
      BY <1>1, <3>1 DEF CallersKnown
    <3> HIDE DEF v
    <3>4. points' \in [Users -> Nat] /\ spent' \in [Users -> Nat]
      BY <1>1, <3>1, <3>3 DEF TypeOK, Price
    <3> QED BY <1>1, <3>1, <3>2, <3>4 DEF Typed, TypeOK, project, record
  <2>2. CASE SpendingRefused(c) \/ PointsTaken(c) \/ UploadDone(c)
    <3>1. /\ call[c].pc # "idle"
          /\ \E pc \in {"refused", "upload", "reply"} : call' = [call EXCEPT ![c].pc = pc]
          /\ UNCHANGED <<project, launcher, lost, uncounted, bounds>>
      BY <2>2 DEF SpendingRefused, PointsTaken, UploadDone
    <3>2. call' \in [Calls -> AddCall] /\ CallersKnown'
      BY <3>1, MoveTyped
    <3> QED BY <1>1, <3>1, <3>2 DEF Typed, TypeOK, project, launcher, record
  <2>3. CASE ReturnRefusal(c)
    <3>1. /\ call' = [call EXCEPT ![c] = IdleCall]
          /\ UNCHANGED <<project, launcher, lost, uncounted, bounds>>
      BY <2>3 DEF ReturnRefusal
    <3>2. call' \in [Calls -> AddCall] /\ CallersKnown'
      BY <3>1, EndTyped
    <3> QED BY <1>1, <3>1, <3>2 DEF Typed, TypeOK, project, launcher, record
  <2>4. CASE CommentLost(c)
    <3>1. /\ call' = [call EXCEPT ![c] = IdleCall]
          /\ lost' = [lost EXCEPT ![call[c].user] = @ + 1]
          /\ Counted("failures", MaxFailures) /\ call[c].pc # "idle"
          /\ UNCHANGED <<project, launcher, uncounted>>
      BY <2>4 DEF CommentLost
    <3>2. call' \in [Calls -> AddCall] /\ CallersKnown'
      BY <3>1, EndTyped
    <3>3. lost' \in [Users -> Nat]
      <4> DEFINE v == call[c].user
      <4>1. v \in Users /\ lost' = [lost EXCEPT ![v] = @ + 1]
        BY <1>1, <3>1 DEF CallersKnown
      <4> HIDE DEF v
      <4> QED BY <1>1, <4>1 DEF TypeOK
    <3> QED BY <1>1, <3>1, <3>2, <3>3, CountedType DEF Typed, TypeOK, project, launcher, record
  <2>5. CASE ReplyUpdate(c)
    <3>1. /\ call[c].pc # "idle" /\ call' = [call EXCEPT ![c].pc = "replied"]
          /\ CountReply
          /\ UNCHANGED <<project, points, spent, lost, uncounted, bounds>>
      BY <2>5 DEF ReplyUpdate
    <3>2. call' \in [Calls -> AddCall] /\ CallersKnown'
      BY <3>1, MoveTyped
    <3> QED BY <1>1, <3>1, <3>2, CountTyped DEF Typed, TypeOK, project
  <2>6. CASE StoreComment(c)
    <3> DEFINE new == [user |-> call[c].user, image |-> call[c].image]
    <3>1. /\ call[c].pc = "replied" /\ call' = [call EXCEPT ![c] = IdleCall]
          /\ comments' = Put(comments, call[c].idx, new)
          /\ UNCHANGED <<count, launcher, lost, uncounted, bounds>>
      BY <2>6 DEF StoreComment
    <3>2. call' \in [Calls -> AddCall] /\ CallersKnown'
      BY <3>1, EndTyped
    <3>3. new \in Comment
      BY <1>1, <3>1 DEF CallersKnown, TypeOK, AddCall, Comment
    <3> HIDE DEF new
    <3>4. \A i \in DOMAIN comments' : comments'[i] \in Comment
      BY <1>1, <3>1, <3>3 DEF TypeOK, Put
    <3> QED BY <1>1, <3>1, <3>2, <3>4 DEF Typed, TypeOK, launcher, record
  <2> QED BY <1>2, <2>1, <2>2, <2>3, <2>4, <2>5, <2>6 DEF CallProgress
<1>3. ASSUME NEW c \in Calls, NEW u \in Users, NEW image \in BOOLEAN, AddComment(c, u, image)
      PROVE  Typed'
  <2> DEFINE new == [pc |-> "spending", user |-> u, image |-> image, idx |-> count + 1]
  <2>1. /\ call' = [call EXCEPT ![c] = new] /\ count' = count + 1
        /\ Counted("comments", MaxComments)
        /\ UNCHANGED <<comments, launcher, lost, uncounted>>
    BY <1>3 DEF AddComment
  <2>2. new \in AddCall /\ new.user = u
    BY <1>1 DEF TypeOK, AddCall
  <2> HIDE DEF new
  <2>3. call' \in [Calls -> AddCall] /\ CallersKnown'
    BY <1>1, <2>1, <2>2 DEF TypeOK, CallersKnown
  <2> QED BY <1>1, <2>1, <2>3, CountedType DEF Typed, TypeOK, launcher, record
<1>4. CASE Count
  BY <1>1, <1>4, CountedType DEF Count, Typed, TypeOK, CallersKnown, launcher, record
<1>5. CASE ReplyFromElsewhere
  BY <1>1, <1>5, CountedType, CountTyped DEF ReplyFromElsewhere, Typed, TypeOK, CallersKnown, project
<1>6. CASE Register
  BY <1>1, <1>6 DEF Register, Typed, TypeOK, CallersKnown, project
<1>7. ASSUME NEW u \in Users, GrantPoints(u) PROVE Typed'
  <2>1. points' \in [Users -> Nat]
    BY <1>1, <1>7 DEF GrantPoints, TypeOK, Grant
  <2> QED BY <1>1, <1>7, <2>1, CountedType DEF GrantPoints, Typed, TypeOK, CallersKnown, project, record
<1>8. CASE UNCHANGED vars
  BY <1>1, <1>8 DEF vars, project, launcher, record, Typed, TypeOK, CallersKnown
<1>9. ASSUME NEW r \in Reports, ReportTrade(r) \/ TradeReported(r) \/ ReportFails(r)
      PROVE  Typed'
  <2>1. /\ report' \in [Reports -> Report] /\ replies' \in Nat
        /\ UNCHANGED <<project, call, registered, exposed, points, spent, lost, uncounted>>
        /\ bounds' = bounds \/ Counted("reports", MaxReports)
    <3>1. CASE ReportTrade(r)
      BY <1>1, <3>1 DEF ReportTrade, TypeOK, Report
    <3>2. CASE TradeReported(r)
      BY <1>1, <3>2 DEF TradeReported, TypeOK, Report, NoReport
    <3>3. CASE ReportFails(r)
      BY <1>1, <3>3 DEF ReportFails, TypeOK, Report, NoReport
    <3> QED BY <1>9, <3>1, <3>2, <3>3
  <2> QED BY <1>1, <2>1, CountedType DEF Typed, TypeOK, CallersKnown, project
<1> QED BY <1>2, <1>3, <1>4, <1>5, <1>6, <1>7, <1>8, <1>9 DEF Next

-----------------------------------------------------------------------------
(* The points and the replies *)

\* The calls whose points are taken and whose comment is not stored yet.
Taken == {"spent", "upload", "reply", "replied"}

Paying(u) == {c \in InFlight(Taken) : call[c].user = u}

Paid(u) ==
    /\ IsFiniteSet(StoredOf(u)) /\ IsFiniteSet(Paying(u))
    /\ spent[u] = Price * (Cardinality(StoredOf(u)) + lost[u] + Cardinality(Paying(u)))

\* A count is one that the launcher may write: the record has it, or a report has read it.
Between(n) == n <= Answered /\ Answered <= n + exposed

Replied ==
    /\ IsFiniteSet(DOMAIN comments) /\ IsFiniteSet(InFlight({"replied"}))
    /\ Between(replies)
    /\ \A r \in Reports : report[r].on => Between(report[r].seen)

(* The inductive invariant of the points and the replies: the indices matter, because a *)
(* comment stored over another one would not be counted, and what the reports have read  *)
(* matters, because it is written back.                                                 *)
PInv == IInv /\ Typed /\ Replied /\ \A u \in Users : Paid(u)

LEMMA InitPaid == Init => PInv
<1> SUFFICES ASSUME Init PROVE PInv
  OBVIOUS
<1>1. \A c \in Calls : call[c].pc = "idle"
  BY IdleType DEF Init
<1>2. InFlight({"replied"}) = {} /\ \A u : Paying(u) = {}
  BY <1>1 DEF InFlight, Paying, Taken
<1>3. DOMAIN comments = {} /\ \A u : StoredOf(u) = {}
  BY DEF Init, StoredOf
<1>4. Replied
  <2>1. /\ replies = 0 /\ uncounted = 0 /\ exposed = 0
        /\ \A r \in Reports : ~report[r].on
    BY DEF Init, NoReport
  <2>2. Cardinality(DOMAIN comments) = 0 /\ Cardinality(InFlight({"replied"})) = 0
    BY <1>2, <1>3, FS_EmptySet
  <2>3. Answered = 0
    BY <2>1, <2>2 DEF Answered
  <2>4. Between(replies)
    BY <2>1, <2>3 DEF Between
  <2> QED BY <1>2, <1>3, <2>1, <2>4, FS_EmptySet DEF Replied
<1>5. ASSUME NEW u \in Users PROVE Paid(u)
  <2>1. spent[u] = 0 /\ lost[u] = 0
    BY DEF Init
  <2> QED BY <1>2, <1>3, <2>1, FS_EmptySet DEF Paid, Price
<1> QED BY <1>4, <1>5, InitOwned, InitTyped DEF PInv

\* The sets of calls after one of them moved on, or ended.
LEMMA MovedSets ==
    ASSUME Typed, NEW c \in Calls,
           NEW pc \in {"spent", "refused", "upload", "reply", "replied"},
           call' = [call EXCEPT ![c].pc = pc]
    PROVE  /\ \A u : Paying(u)' = IF pc \in Taken /\ call[c].user = u
                                  THEN Paying(u) \cup {c} ELSE Paying(u) \ {c}
           /\ InFlight({"replied"})' = IF pc = "replied" THEN InFlight({"replied"}) \cup {c}
                                       ELSE InFlight({"replied"}) \ {c}
<1>1. /\ call'[c].pc = pc /\ call'[c].user = call[c].user
      /\ \A d \in Calls \ {c} : call'[d] = call[d]
  BY Moved DEF Typed
<1> QED BY <1>1 DEF Paying, InFlight

LEMMA EndedSets ==
    ASSUME Typed, NEW c \in Calls, call' = [call EXCEPT ![c] = IdleCall]
    PROVE  /\ \A u : Paying(u)' = Paying(u) \ {c}
           /\ InFlight({"replied"})' = InFlight({"replied"}) \ {c}
<1>1. call'[c].pc = "idle" /\ \A d \in Calls \ {c} : call'[d] = call[d]
  BY Ended DEF Typed
<1> QED BY <1>1 DEF Paying, InFlight, Taken

\* The numbers that are counted with.
LEMMA PaidTypes ==
    ASSUME PInv, NEW u \in Users
    PROVE  /\ Paid(u) /\ spent[u] \in Nat /\ lost[u] \in Nat
           /\ Cardinality(StoredOf(u)) \in Nat /\ Cardinality(Paying(u)) \in Nat
  BY FS_CardinalityType DEF PInv, Paid, Typed, TypeOK

LEMMA RepliedTypes ==
    ASSUME PInv
    PROVE  /\ Replied /\ replies \in Nat /\ uncounted \in Nat /\ exposed \in Nat
           /\ \A r \in Reports : report[r].seen \in Nat
           /\ Cardinality(DOMAIN comments) \in Nat
           /\ Cardinality(InFlight({"replied"})) \in Nat
  BY FS_CardinalityType DEF PInv, Replied, Typed, TypeOK, Report

LEMMA PaidStays ==
    ASSUME NEW u \in Users, Paid(u), StoredOf(u)' = StoredOf(u), Paying(u)' = Paying(u),
           spent'[u] = spent[u], lost'[u] = lost[u]
    PROVE  Paid(u)'
  BY DEF Paid

LEMMA RepliedStays ==
    ASSUME Replied, UNCHANGED <<comments, replies, report, exposed, uncounted>>,
           InFlight({"replied"})' = InFlight({"replied"})
    PROVE  Replied'
  BY DEF Replied, Between, Answered

\* One more reply is answered for and counted: the record stays as close as it was, and a
\* report that has read it earlier makes the reply one of those it may lose.
LEMMA CountAgrees ==
    ASSUME PInv, CountReply, Answered' = Answered + 1,
           IsFiniteSet(DOMAIN comments'), IsFiniteSet(InFlight({"replied"})')
    PROVE  Replied'
<1>1. /\ Between(replies) /\ replies' = replies + 1 /\ report' = report
      /\ \A r \in Reports : report[r].on => Between(report[r].seen)
      /\ exposed' = IF \E r \in Reports : report[r].on THEN exposed + 1 ELSE exposed
  BY RepliedTypes DEF Replied, CountReply
<1>2. /\ Answered \in Nat /\ replies \in Nat /\ exposed \in Nat
      /\ \A r \in Reports : report[r].seen \in Nat
  BY RepliedTypes DEF Answered
<1> HIDE DEF Answered
<1>3. Between(replies)'
  BY <1>1, <1>2 DEF Between
<1>4. (\A r \in Reports : report[r].on => Between(report[r].seen))'
  BY <1>1, <1>2 DEF Between
<1> QED BY <1>3, <1>4 DEF Replied

\* A report reads the count, writes back what it read, or ends without.
LEMMA ReportAgrees ==
    ASSUME PInv, NEW r \in Reports, ReportTrade(r) \/ TradeReported(r) \/ ReportFails(r)
    PROVE  Replied'
<1>1. /\ UNCHANGED <<comments, call, exposed, uncounted>>
      /\ report \in [Reports -> Report]
      /\ \E new \in {NoReport, [on |-> TRUE, seen |-> replies]} :
             report' = [report EXCEPT ![r] = new]
      /\ replies' = replies \/ (report[r].on /\ replies' = report[r].seen)
  BY DEF ReportTrade, TradeReported, ReportFails, project, PInv, Typed, TypeOK
<1>2. InFlight({"replied"})' = InFlight({"replied"})
  BY <1>1 DEF InFlight
<1>3. \A n : Between(n)' <=> Between(n)
  BY <1>1, <1>2 DEF Between, Answered
<1>4. Between(replies)'
  BY <1>1, <1>3, RepliedTypes DEF Replied
<1>5. \A p \in Reports : report'[p].on => Between(report'[p].seen)
  BY <1>1, RepliedTypes DEF Replied, NoReport
<1> QED BY <1>1, <1>2, <1>3, <1>4, <1>5, RepliedTypes DEF Replied

LEMMA StoredStay ==
    ASSUME comments' = comments, NEW u
    PROVE  StoredOf(u)' = StoredOf(u)
  BY DEF StoredOf

\* The launcher takes the points of one call.
LEMMA SpendingCounted ==
    ASSUME PInv, NEW c \in Calls, SpendingPoints(c)
    PROVE  Replied' /\ \A u \in Users : Paid(u)'
<1> DEFINE v == call[c].user
<1>1. /\ call[c].pc = "spending" /\ call' = [call EXCEPT ![c].pc = "spent"]
      /\ spent' = [spent EXCEPT ![v] = @ + Price]
      /\ UNCHANGED <<comments, replies, report, exposed, uncounted, lost>>
  BY DEF SpendingPoints, project, record
<1>2. /\ \A u : Paying(u)' = IF v = u THEN Paying(u) \cup {c} ELSE Paying(u) \ {c}
      /\ InFlight({"replied"})' = InFlight({"replied"}) \ {c}
  BY <1>1, MovedSets DEF PInv, Taken
<1>3. c \notin InFlight({"replied"}) /\ \A u : c \notin Paying(u)
  BY <1>1 DEF InFlight, Paying, Taken
<1>4. Replied'
  BY <1>1, <1>2, <1>3, RepliedStays DEF PInv
<1>5. v \in Users /\ spent \in [Users -> Nat]
  BY <1>1 DEF PInv, Typed, TypeOK, CallersKnown
<1> HIDE DEF v
<1>6. ASSUME NEW u \in Users PROVE Paid(u)'
  <2>1. StoredOf(u)' = StoredOf(u)
    BY <1>1, StoredStay
  <2>2. CASE v = u
    <3>1. IsFiniteSet(Paying(u)') /\ Cardinality(Paying(u)') = Cardinality(Paying(u)) + 1
      BY <1>2, <1>3, <2>2, PaidTypes, FS_AddElement DEF Paid
    <3>2. spent'[u] = spent[u] + Price /\ lost'[u] = lost[u]
      BY <1>1, <1>5, <2>2
    <3> QED BY <2>1, <3>1, <3>2, PaidTypes DEF Paid, Price
  <2>3. CASE v # u
    <3>1. Paying(u)' = Paying(u) /\ spent'[u] = spent[u]
      BY <1>1, <1>2, <1>3, <1>5, <2>3
    <3> QED BY <1>1, <2>1, <3>1, PaidTypes, PaidStays
  <2> QED BY <2>2, <2>3
<1> QED BY <1>4, <1>6

\* A call that keeps what it paid: the points taken, the upload done, the reply counted.
LEMMA MoveCounted ==
    ASSUME PInv, NEW c \in Calls, NEW pc \in {"refused", "upload", "reply", "replied"},
           call' = [call EXCEPT ![c].pc = pc],
           call[c].pc \in Taken <=> pc \in Taken, call[c].pc # "replied",
           UNCHANGED <<comments, spent, lost, uncounted>>,
           IF pc = "replied" THEN CountReply ELSE UNCHANGED <<replies, report, exposed>>
    PROVE  Replied' /\ \A u \in Users : Paid(u)'
<1>0. Typed /\ pc \in {"spent", "refused", "upload", "reply", "replied"}
  BY DEF PInv
<1>1. /\ \A u : Paying(u)' = IF pc \in Taken /\ call[c].user = u
                             THEN Paying(u) \cup {c} ELSE Paying(u) \ {c}
      /\ InFlight({"replied"})' = IF pc = "replied" THEN InFlight({"replied"}) \cup {c}
                                  ELSE InFlight({"replied"}) \ {c}
  BY <1>0, MovedSets
<1>2. \A u : Paying(u)' = Paying(u)
  BY <1>1 DEF Paying, InFlight
<1>3. \A u \in Users : Paid(u)'
  BY <1>2, PaidTypes, StoredStay, PaidStays
<1>4. c \notin InFlight({"replied"})
  BY DEF InFlight
<1>5. CASE pc = "replied"
  <2>1. /\ IsFiniteSet(InFlight({"replied"})')
        /\ Cardinality(InFlight({"replied"})') = Cardinality(InFlight({"replied"})) + 1
    BY <1>1, <1>4, <1>5, RepliedTypes, FS_AddElement DEF Replied
  <2>2. Answered' = Answered + 1 /\ IsFiniteSet(DOMAIN comments')
    BY <2>1, RepliedTypes DEF Answered, Replied
  <2> QED BY <1>3, <1>5, <2>1, <2>2, CountAgrees
<1>6. CASE pc # "replied"
  BY <1>1, <1>3, <1>4, <1>6, RepliedTypes, RepliedStays
<1> QED BY <1>5, <1>6

\* A failing call loses the comment that was paid for.
LEMMA LossCounted ==
    ASSUME PInv, NEW c \in Calls, CommentLost(c)
    PROVE  Replied' /\ \A u \in Users : Paid(u)'
<1> DEFINE v == call[c].user
<1>1. /\ call[c].pc \in {"upload", "reply"} /\ call' = [call EXCEPT ![c] = IdleCall]
      /\ lost' = [lost EXCEPT ![v] = @ + 1]
      /\ UNCHANGED <<comments, replies, report, exposed, uncounted, spent>>
  BY DEF CommentLost, project, launcher, record
<1>2. /\ \A u : Paying(u)' = Paying(u) \ {c}
      /\ InFlight({"replied"})' = InFlight({"replied"}) \ {c}
  BY <1>1, EndedSets DEF PInv
<1>3. c \notin InFlight({"replied"}) /\ \A u : c \in Paying(u) <=> v = u
  BY <1>1 DEF InFlight, Paying, Taken
<1>4. Replied'
  BY <1>1, <1>2, <1>3, RepliedStays DEF PInv
<1>5. v \in Users /\ lost \in [Users -> Nat]
  BY <1>1 DEF PInv, Typed, TypeOK, CallersKnown
<1> HIDE DEF v
<1>6. ASSUME NEW u \in Users PROVE Paid(u)'
  <2>1. StoredOf(u)' = StoredOf(u)
    BY <1>1, StoredStay
  <2>2. CASE v = u
    <3>1. IsFiniteSet(Paying(u)') /\ Cardinality(Paying(u)') = Cardinality(Paying(u)) - 1
      BY <1>2, <1>3, <2>2, PaidTypes, FS_RemoveElement DEF Paid
    <3>2. lost'[u] = lost[u] + 1
      BY <1>1, <1>5, <2>2
    <3> QED BY <1>1, <2>1, <3>1, <3>2, PaidTypes DEF Paid
  <2>3. CASE v # u
    <3>1. Paying(u)' = Paying(u) /\ lost'[u] = lost[u]
      BY <1>1, <1>2, <1>3, <1>5, <2>3
    <3> QED BY <1>1, <2>1, <3>1, PaidTypes, PaidStays
  <2> QED BY <2>2, <2>3
<1> QED BY <1>4, <1>6

\* The comment is stored under an index of its own.
LEMMA StoreCounted ==
    ASSUME PInv, NEW c \in Calls, StoreComment(c)
    PROVE  Replied' /\ \A u \in Users : Paid(u)'
<1> DEFINE v == call[c].user
           i == call[c].idx
<1>1. /\ call[c].pc = "replied" /\ call' = [call EXCEPT ![c] = IdleCall]
      /\ DOMAIN comments' = DOMAIN comments \cup {i}
      /\ comments'[i].user = v
      /\ \A j \in DOMAIN comments : j # i => comments'[j] = comments[j]
      /\ UNCHANGED <<replies, report, exposed, uncounted, spent, lost>>
  BY DEF StoreComment, Put, launcher, record
<1>2. i \notin DOMAIN comments
  BY <1>1 DEF PInv, IInv, IndexOwned
<1>3. /\ \A u : Paying(u)' = Paying(u) \ {c}
      /\ InFlight({"replied"})' = InFlight({"replied"}) \ {c}
  BY <1>1, EndedSets DEF PInv
<1>4. c \in InFlight({"replied"}) /\ \A u : c \in Paying(u) <=> v = u
  BY <1>1 DEF InFlight, Paying, Taken
<1>5. /\ \A u : StoredOf(u)' = IF v = u THEN StoredOf(u) \cup {i} ELSE StoredOf(u)
      /\ \A u : i \notin StoredOf(u)
  BY <1>1, <1>2 DEF StoredOf
<1> HIDE DEF v, i
<1>6. Replied'
  <2>1. /\ IsFiniteSet(DOMAIN comments')
        /\ Cardinality(DOMAIN comments') = Cardinality(DOMAIN comments) + 1
    BY <1>1, <1>2, RepliedTypes, FS_AddElement DEF Replied
  <2>2. /\ IsFiniteSet(InFlight({"replied"})')
        /\ Cardinality(InFlight({"replied"})') = Cardinality(InFlight({"replied"})) - 1
    BY <1>3, <1>4, RepliedTypes, FS_RemoveElement DEF Replied
  <2>3. Answered' = Answered
    BY <1>1, <2>1, <2>2, RepliedTypes DEF Answered
  <2>4. Between(replies) /\ \A q \in Reports : report[q].on => Between(report[q].seen)
    BY RepliedTypes DEF Replied
  <2> HIDE DEF Answered
  <2> QED BY <1>1, <2>1, <2>2, <2>3, <2>4 DEF Replied, Between
<1>7. ASSUME NEW u \in Users PROVE Paid(u)'
  <2>1. CASE v = u
    <3>1. /\ IsFiniteSet(StoredOf(u)')
          /\ Cardinality(StoredOf(u)') = Cardinality(StoredOf(u)) + 1
      BY <1>5, <2>1, PaidTypes, FS_AddElement DEF Paid
    <3>2. IsFiniteSet(Paying(u)') /\ Cardinality(Paying(u)') = Cardinality(Paying(u)) - 1
      BY <1>3, <1>4, <2>1, PaidTypes, FS_RemoveElement DEF Paid
    <3> QED BY <1>1, <3>1, <3>2, PaidTypes DEF Paid
  <2>2. CASE v # u
    <3>1. Paying(u)' = Paying(u) /\ StoredOf(u)' = StoredOf(u)
      BY <1>3, <1>4, <1>5, <2>2
    <3> QED BY <1>1, <3>1, PaidTypes, PaidStays
  <2> QED BY <2>1, <2>2
<1> QED BY <1>6, <1>7

LEMMA PaidStep ==
    ASSUME PInv, [Next]_vars
    PROVE  PInv'
<1>1. IInv' /\ Typed'
  BY InvStep, TypedStep DEF PInv
<1> SUFFICES Replied' /\ \A u \in Users : Paid(u)'
  BY <1>1 DEF PInv
<1>2. ASSUME call' = call, UNCHANGED <<comments, spent, lost>>
      PROVE  \A u \in Users : Paid(u)'
  <2>1. \A u : Paying(u)' = Paying(u)
    BY <1>2 DEF Paying, InFlight
  <2> QED BY <1>2, <2>1, PaidTypes, StoredStay, PaidStays
<1>3. ASSUME call' = call PROVE InFlight({"replied"})' = InFlight({"replied"})
  BY <1>3 DEF InFlight
<1>4. ASSUME NEW c \in Calls, CallProgress(c) PROVE Replied' /\ \A u \in Users : Paid(u)'
  <2>1. CASE SpendingPoints(c)
    BY <2>1, SpendingCounted
  <2>2. CASE SpendingRefused(c)
    BY <2>2, MoveCounted DEF SpendingRefused, Taken, project, launcher, record
  <2>3. CASE PointsTaken(c) \/ UploadDone(c)
    <3>1. /\ call[c].pc \in {"spent", "upload"}
          /\ \E pc \in {"upload", "reply"} : call' = [call EXCEPT ![c].pc = pc]
          /\ UNCHANGED <<comments, spent, lost, uncounted, replies, report, exposed>>
      BY <2>3 DEF PointsTaken, UploadDone, project, launcher, record
    <3> QED BY <3>1, MoveCounted DEF Taken
  <2>4. CASE ReplyUpdate(c)
    BY <2>4, MoveCounted DEF ReplyUpdate, Taken, project
  <2>5. CASE ReturnRefusal(c)
    <3>1. /\ call[c].pc = "refused" /\ call' = [call EXCEPT ![c] = IdleCall]
          /\ UNCHANGED <<comments, spent, lost, uncounted, replies, report, exposed>>
      BY <2>5 DEF ReturnRefusal, project, launcher, record
    <3>2. c \notin InFlight({"replied"}) /\ \A u : c \notin Paying(u)
      BY <3>1 DEF InFlight, Paying, Taken
    <3>3. /\ InFlight({"replied"})' = InFlight({"replied"}) \ {c}
          /\ \A u : Paying(u)' = Paying(u) \ {c}
      BY <3>1, EndedSets DEF PInv
    <3>4. InFlight({"replied"})' = InFlight({"replied"}) /\ \A u : Paying(u)' = Paying(u)
      BY <3>2, <3>3
    <3> QED BY <3>1, <3>4, PaidTypes, StoredStay, PaidStays, RepliedTypes, RepliedStays
  <2>6. CASE CommentLost(c)
    BY <2>6, LossCounted
  <2>7. CASE StoreComment(c)
    BY <2>7, StoreCounted
  <2> QED BY <1>4, <2>1, <2>2, <2>3, <2>4, <2>5, <2>6, <2>7 DEF CallProgress
<1>5. ASSUME NEW c \in Calls, NEW v \in Users, NEW image \in BOOLEAN, AddComment(c, v, image)
      PROVE  Replied' /\ \A u \in Users : Paid(u)'
  <2> DEFINE new == [pc |-> "spending", user |-> v, image |-> image, idx |-> count + 1]
  <2>1. /\ call[c].pc = "idle" /\ call' = [call EXCEPT ![c] = new]
        /\ UNCHANGED <<comments, spent, lost, uncounted, replies, report, exposed>>
    BY <1>5 DEF AddComment, launcher, record
  <2>2. new.pc = "spending"
    OBVIOUS
  <2> HIDE DEF new
  <2>3. call'[c] = new /\ \A d \in Calls \ {c} : call'[d] = call[d]
    BY <2>1 DEF PInv, Typed, TypeOK
  <2>4. InFlight({"replied"})' = InFlight({"replied"}) /\ \A u : Paying(u)' = Paying(u)
    BY <2>1, <2>2, <2>3 DEF InFlight, Paying, Taken
  <2> QED BY <2>1, <2>4, PaidTypes, StoredStay, PaidStays, RepliedTypes, RepliedStays
<1>6. CASE \/ Count \/ Register
           \/ \E u \in Users : GrantPoints(u)
           \/ UNCHANGED vars
  <2>1. call' = call /\ UNCHANGED <<comments, spent, lost, uncounted, replies, report, exposed>>
    BY <1>6 DEF Count, Register, GrantPoints, vars, project, launcher, record
  <2> QED BY <1>2, <1>3, <2>1, RepliedTypes, RepliedStays
<1>7. CASE ReplyFromElsewhere
  <2>1. /\ call' = call /\ UNCHANGED <<comments, spent, lost>>
        /\ CountReply /\ uncounted' = uncounted + 1
    BY <1>7 DEF ReplyFromElsewhere, project
  <2>2. Answered' = Answered + 1
    BY <1>3, <2>1, RepliedTypes DEF Answered
  <2>3. Replied'
    BY <1>3, <2>1, <2>2, RepliedTypes, CountAgrees DEF Replied
  <2> QED BY <1>2, <2>1, <2>3
<1>8. ASSUME NEW r \in Reports, ReportTrade(r) \/ TradeReported(r) \/ ReportFails(r)
      PROVE  Replied' /\ \A u \in Users : Paid(u)'
  <2>1. call' = call /\ UNCHANGED <<comments, spent, lost>>
    BY <1>8 DEF ReportTrade, TradeReported, ReportFails, project
  <2> QED BY <1>2, <1>8, <2>1, ReportAgrees
<1> QED BY <1>4, <1>5, <1>6, <1>7, <1>8 DEF Next

-----------------------------------------------------------------------------
(* The theorems *)

\* Whatever is interleaved with it, a comment in flight holds an index that
\* nobody else holds and no stored comment has (count, add_comment).
THEOREM IndexAlwaysOwned == Spec => []IndexOwned
<1>1. IInv => IndexOwned
  BY DEF IInv
<1> QED
  BY <1>1, InitOwned, InvStep, PTL DEF Spec

\* No step overwrites or removes a stored comment (COMMENTS.insert).
THEOREM CommentsAreKept == Spec => CommentsKept
<1>1. IInv /\ [Next]_vars => [Kept]_vars
  BY InvStep
<1> QED
  BY <1>1, InitOwned, InvStep, PTL DEF Spec, CommentsKept, Kept

\* Every 6 points that the launcher took pay for one comment that is stored, on its way or
\* lost to a failing call, and no comment is stored unpaid, with any number of comments in
\* flight; the variables keep their types (add_comment, spending_points).
THEOREM CommentsAlwaysPaid == Spec => []CommentsPaid
<1>1. PInv => CommentsPaid
  BY DEF PInv, Typed, Paid, Paying, Taken, CommentsPaid
<1> QED
  BY <1>1, InitPaid, PaidStep, PTL DEF Spec

\* The launcher's reply_count never exceeds the replies answered, and what it lacks of them
\* was counted while set_buy_or_sell was reporting a trade, with any number of comments and
\* reports in flight (reply_update, set_buy_or_sell).
THEOREM RepliesAlwaysAgree == Spec => []RepliesAgree
<1>1. PInv => RepliesAgree
  BY DEF PInv, Replied, Between, RepliesAgree
<1> QED
  BY <1>1, InitPaid, PaidStep, PTL DEF Spec

=============================================================================
