-------------------------- MODULE LauncherCallsProofs --------------------------
(***************************************************************************)
(* What calls of the launcher that overlap in their awaits keep.           *)
(*                                                                         *)
(* LauncherProgress: overlapping runs of update_progress, for any number   *)
(* of projects, runs and failing router calls: the shares and the replies  *)
(* as long as no swap is reported by set_buy_or_sell, the progress shown   *)
(* with any number of such reports.                                        *)
(*                                                                         *)
(* OwnershipTransfer: transfers of ownership, for all users and tokens,    *)
(* any number of calls in flight and all bounds: a call finds the fee it   *)
(* was quoted, and the removals of a developer are paid, unpaid or about   *)
(* to be paid.                                                             *)
(***************************************************************************)
EXTENDS LauncherProgress, OwnershipTransfer, FiniteSums, WellFoundedInduction, TLAPS

-----------------------------------------------------------------------------
(* LauncherProgress: the shares, the replies and the progress *)

NoTrades == Trades = {}

\* A project is one of the list the run locks, or the one it is at.
Holds(r, i) == run[r].pc = "locking" /\ (i \in run[r].queue \/ run[r].current = i)

\* The fields of a project that are written here, and whether it is complete.
Fields == {"progress", "cap", "god_progress", "god_time", "done", "replies"}

Shapes ==
    /\ DOMAIN fomos \subseteq Fomos
    /\ \A i \in DOMAIN fomos : Fields \subseteq DOMAIN fomos[i] /\ fomos[i].done \in BOOLEAN
    /\ DOMAIN run = Runs
    /\ \A r \in Runs : "call" \in DOMAIN run[r]
    /\ moved \in [Fomos -> [Daos -> Nat]]

\* A project is held by one run, which completed it, and the run is not to come to the
\* project it is at again.
HeldOnce ==
    \A r \in Runs : \A i :
        Holds(r, i) => /\ i \in DOMAIN fomos /\ fomos[i].done
                       /\ \A s \in Runs \ {r} : ~Holds(s, i)
                       /\ ~(i \in run[r].queue /\ run[r].current = i)

\* A share that is to be sent has not been sent, and one that was went out once, for a
\* complete project.
SentOnce ==
    \A i \in Fomos, d \in Daos :
        /\ \A r \in Runs : Sending(r, i, d) => moved[i][d] = 0
        /\ moved[i][d] # 0 => moved[i][d] = 1 /\ i \in DOMAIN fomos /\ fomos[i].done

(* The inductive invariant. *)
IInv == Shapes /\ HeldOnce /\ SentOnce

LEMMA InitShares == Init => IInv
<1> SUFFICES ASSUME Init PROVE IInv
  OBVIOUS
<1>1. \A r \in Runs : run[r].pc = "idle" /\ "call" \in DOMAIN run[r]
  BY DEF Init, IdleRun
<1>2. Shapes
  BY <1>1 DEF Init, Shapes
<1>3. HeldOnce
  BY <1>1 DEF HeldOnce, Holds
<1>4. SentOnce
  BY <1>1 DEF Init, SentOnce, Sending
<1> QED BY <1>2, <1>3, <1>4 DEF IInv

\* The turn a list leads to holds only projects of the list, and the one it is at is out
\* of the rest.
LEMMA TurnHolds ==
    ASSUME NEW queue, NEW turn \in NextTurn(queue)
    PROVE  /\ "call" \in DOMAIN turn
           /\ turn.pc \in {"idle", "locking"}
           /\ turn.pc = "locking" => /\ turn.current \in queue
                                     /\ turn.queue = queue \ {turn.current}
<1>1. CASE queue = {}
  <2>1. turn = IdleRun
    BY <1>1 DEF NextTurn
  <2> QED BY <2>1 DEF IdleRun
<1>2. CASE queue # {}
  <2>1. PICK i \in queue :
            turn = [IdleRun EXCEPT !.pc = "locking", !.queue = queue \ {i},
                                   !.current = i, !.call = FirstCall(fomos[i])]
    BY <1>2 DEF NextTurn
  <2> DEFINE first == FirstCall(fomos[i])
  <2>2. turn = [IdleRun EXCEPT !.pc = "locking", !.queue = queue \ {i},
                               !.current = i, !.call = first]
    BY <2>1
  <2> HIDE DEF first
  <2> QED BY <2>2 DEF IdleRun
<1> QED BY <1>1, <1>2

\* The run moves on: it is not to send the share of its last call again, and holds nothing
\* it did not hold.
LEMMA LoopHolds ==
    ASSUME IInv, NEW r \in Runs, run[r].pc = "locking", LoopGoesOn(r)
    PROVE  /\ DOMAIN run' = Runs /\ \A s \in Runs : "call" \in DOMAIN run'[s]
           /\ \A s \in Runs \ {r} : run'[s] = run[s]
           /\ \A i : Holds(r, i)' => Holds(r, i)
           /\ \A i : Holds(r, i)' => ~(i \in run'[r].queue /\ run'[r].current = i)
           /\ \A i : \A d \in Daos : Sending(r, i, d)' => /\ Sending(r, i, d)
                                                      /\ ~(run[r].current = i /\ run[r].call = d)
<1>1. ~(run[r].current \in run[r].queue)
  BY DEF IInv, HeldOnce, Holds
<1>2. DOMAIN run = Runs /\ \A s \in Runs : "call" \in DOMAIN run[s]
  BY DEF IInv, Shapes
<1>3. CASE run[r].call = "lock"
  <2>1. PICK turn \in NextTurn(run[r].queue) : run' = [run EXCEPT ![r] = turn]
    BY <1>3 DEF LoopGoesOn
  <2>2. run'[r] = turn /\ \A s \in Runs \ {r} : run'[s] = run[s]
    BY <1>2, <2>1
  <2>3. DOMAIN run' = Runs /\ \A s \in Runs : "call" \in DOMAIN run'[s]
    BY <1>2, <2>1, <2>2, TurnHolds
  <2>4. \A i : Holds(r, i)' => i \in run[r].queue /\ ~(i \in run'[r].queue /\ run'[r].current = i)
    BY <2>2, TurnHolds DEF Holds
  <2>5. \A i : \A d \in Daos : Sending(r, i, d)' => i \in run[r].queue
    BY <2>2, TurnHolds DEF Sending
  <2> QED BY <1>1, <2>2, <2>3, <2>4, <2>5 DEF Holds, Sending
<1>4. CASE run[r].call # "lock"
  <2> DEFINE next == CallAfter(fomos[run[r].current], run[r].call)
  <2>1. run' = [run EXCEPT ![r].call = next]
    BY <1>4 DEF LoopGoesOn
  <2>2. next = "lock" \/ (run[r].call = "sneed" /\ next = "dogmi")
    BY DEF CallAfter
  <2> HIDE DEF next
  <2>3. /\ run'[r].call = next
        /\ run'[r].pc = run[r].pc /\ run'[r].queue = run[r].queue
        /\ run'[r].current = run[r].current
        /\ \A s \in Runs \ {r} : run'[s] = run[s]
        /\ DOMAIN run' = Runs /\ "call" \in DOMAIN run'[r]
    BY <1>2, <2>1
  <2>4. \A s \in Runs : "call" \in DOMAIN run'[s]
    BY <1>2, <2>3
  <2>5. \A i : Holds(r, i)' <=> Holds(r, i)
    BY <2>3 DEF Holds
  <2>6. \A i : \A d \in Daos : Sending(r, i, d)' => /\ Sending(r, i, d)
                                                /\ ~(run[r].current = i /\ run[r].call = d)
    BY <1>1, <2>2, <2>3 DEF Sending, Daos
  <2> QED BY <1>1, <2>3, <2>4, <2>5, <2>6 DEF Holds
<1> QED BY <1>3, <1>4

\* A run that holds nothing new, while the projects and the shares sent stay.
LEMMA MoveKeeps ==
    ASSUME IInv, NEW r \in Runs, UNCHANGED <<fomos, moved>>,
           DOMAIN run' = Runs, \A s \in Runs : "call" \in DOMAIN run'[s],
           \A s \in Runs \ {r} : run'[s] = run[s],
           \A i : Holds(r, i)' => Holds(r, i) /\ ~(i \in run'[r].queue /\ run'[r].current = i),
           \A i : \A d \in Daos : Sending(r, i, d)' => Sending(r, i, d)
    PROVE  IInv'
<1>1. Shapes'
  BY DEF IInv, Shapes
<1>2. \A s \in Runs : \A i : Holds(s, i)' => Holds(s, i) /\ ~(i \in run'[s].queue /\ run'[s].current = i)
  <2>1. ASSUME NEW s \in Runs \ {r}, NEW i, Holds(s, i)'
        PROVE  Holds(s, i) /\ ~(i \in run'[s].queue /\ run'[s].current = i)
    BY <2>1 DEF IInv, HeldOnce, Holds
  <2> QED BY <2>1
<1>3. \A s \in Runs : \A i : \A d \in Daos : Sending(s, i, d)' => Sending(s, i, d)
  <2>1. ASSUME NEW s \in Runs \ {r}, NEW i, NEW d \in Daos, Sending(s, i, d)'
        PROVE  Sending(s, i, d)
    BY <2>1 DEF Sending
  <2> QED BY <2>1
<1>4. HeldOnce'
  BY <1>2 DEF IInv, HeldOnce
<1>5. ASSUME NEW i \in Fomos, NEW d \in Daos
      PROVE  /\ \A s \in Runs : Sending(s, i, d)' => moved'[i][d] = 0
             /\ moved'[i][d] # 0 => moved'[i][d] = 1 /\ i \in DOMAIN fomos' /\ fomos'[i].done
  <2>1. moved' = moved /\ fomos' = fomos
    OBVIOUS
  <2>2. /\ \A s \in Runs : Sending(s, i, d) => moved[i][d] = 0
        /\ moved[i][d] # 0 => moved[i][d] = 1 /\ i \in DOMAIN fomos /\ fomos[i].done
    BY DEF IInv, SentOnce
  <2>3. \A s \in Runs : Sending(s, i, d)' => Sending(s, i, d)
    BY <1>3
  <2>4. \A s \in Runs : Sending(s, i, d)' => moved'[i][d] = 0
    BY <2>1, <2>2, <2>3
  <2>5. moved'[i][d] # 0 => moved'[i][d] = 1 /\ i \in DOMAIN fomos' /\ fomos'[i].done
    BY <2>1, <2>2
  <2> QED BY <2>4, <2>5
<1>6. SentOnce'
  BY <1>5 DEF SentOnce
<1> QED BY <1>1, <1>4, <1>6 DEF IInv

\* A share is sent: once, by the run that holds the project.
LEMMA TransferKeeps ==
    ASSUME IInv, NEW r \in Runs, RouterTransfers(r)
    PROVE  IInv'
<1> DEFINE k == run[r].current
           e == run[r].call
<1>1. /\ run[r].pc = "locking" /\ e \in Daos
      /\ moved' = [moved EXCEPT ![k][e] = @ + 1]
      /\ LoopGoesOn(r)
      /\ UNCHANGED fomos
  BY DEF RouterTransfers, launcher
<1>2. Holds(r, k) /\ Sending(r, k, e)
  BY <1>1 DEF Holds, Sending
<1>3. k \in Fomos /\ fomos[k].done /\ k \in DOMAIN fomos
  BY <1>2 DEF IInv, Shapes, HeldOnce
<1>4. moved[k][e] = 0
  BY <1>1, <1>2, <1>3 DEF IInv, SentOnce
<1>5. moved \in [Fomos -> [Daos -> Nat]]
  BY DEF IInv, Shapes
<1> HIDE DEF k, e
<1>6. /\ moved' \in [Fomos -> [Daos -> Nat]]
      /\ moved'[k][e] = 1
      /\ \A i \in Fomos, d \in Daos : ~(i = k /\ d = e) => moved'[i][d] = moved[i][d]
  BY <1>1, <1>3, <1>4, <1>5
<1>7. /\ DOMAIN run' = Runs /\ \A s \in Runs : "call" \in DOMAIN run'[s]
      /\ \A s \in Runs \ {r} : run'[s] = run[s]
      /\ \A i : Holds(r, i)' => Holds(r, i)
      /\ \A i : Holds(r, i)' => ~(i \in run'[r].queue /\ run'[r].current = i)
      /\ \A i : \A d \in Daos : Sending(r, i, d)' => Sending(r, i, d) /\ ~(k = i /\ e = d)
  BY <1>1, LoopHolds DEF k, e
<1>8. Shapes'
  BY <1>1, <1>6, <1>7 DEF IInv, Shapes
<1>9. \A s \in Runs : \A i : Holds(s, i)' =>
          Holds(s, i) /\ ~(i \in run'[s].queue /\ run'[s].current = i)
  <2>1. ASSUME NEW s \in Runs \ {r}, NEW i, Holds(s, i)'
        PROVE  Holds(s, i) /\ ~(i \in run'[s].queue /\ run'[s].current = i)
    BY <1>7, <2>1 DEF IInv, HeldOnce, Holds
  <2> QED BY <1>7, <2>1
<1>10. HeldOnce'
  BY <1>1, <1>9 DEF IInv, HeldOnce
<1>11. ASSUME NEW s \in Runs, NEW i \in Fomos, NEW d \in Daos, Sending(s, i, d)'
       PROVE  Sending(s, i, d) /\ ~(k = i /\ e = d)
  <2>1. CASE s = r
    BY <1>7, <1>11, <2>1
  <2>2. CASE s # r
    <3>1. Sending(s, i, d) /\ Holds(s, i)
      BY <1>7, <1>11, <2>2 DEF Sending, Holds
    <3>2. ~Holds(s, k)
      BY <1>2, <2>2 DEF IInv, HeldOnce
    <3> QED BY <3>1, <3>2
  <2> QED BY <2>1, <2>2
<1>12. ASSUME NEW i \in Fomos, NEW d \in Daos
       PROVE  /\ \A s \in Runs : Sending(s, i, d)' => moved'[i][d] = 0
              /\ moved'[i][d] # 0 => moved'[i][d] = 1 /\ i \in DOMAIN fomos /\ fomos[i].done
  BY <1>3, <1>6, <1>11 DEF IInv, SentOnce
<1>13. SentOnce'
  BY <1>1, <1>12 DEF SentOnce
<1> QED BY <1>8, <1>10, <1>13 DEF IInv

\* The other steps of a run in flight: it starts, asks, or moves on without a share sent.
LEMMA RunKeeps ==
    ASSUME IInv, NEW r \in Runs,
           \/ StartUpdate(r) \/ RouterLocks(r) \/ RouterErrs(r) \/ RouterRejects(r)
           \/ \E cap \in Caps : OracleAnswers(r, cap)
    PROVE  IInv'
<1>1. UNCHANGED <<fomos, moved>>
  BY DEF StartUpdate, RouterLocks, RouterErrs, RouterRejects, OracleAnswers, launcher, router
<1>2. DOMAIN run = Runs /\ \A s \in Runs : "call" \in DOMAIN run[s]
  BY DEF IInv, Shapes
<1>3. CASE RouterLocks(r) \/ RouterErrs(r)
  BY <1>1, <1>3, LoopHolds, MoveKeeps DEF RouterLocks, RouterErrs
<1>4. ASSUME NEW next, run' = [run EXCEPT ![r] = next],
             next.pc # "locking", "call" \in DOMAIN next
      PROVE  IInv'
  <2>1. /\ DOMAIN run' = Runs /\ run'[r] = next
        /\ \A s \in Runs \ {r} : run'[s] = run[s]
    BY <1>2, <1>4
  <2>2. \A s \in Runs : "call" \in DOMAIN run'[s]
    BY <1>2, <1>4, <2>1
  <2>3. \A i : ~Holds(r, i)'
    BY <1>4, <2>1 DEF Holds
  <2>4. \A i : \A d \in Daos : ~Sending(r, i, d)'
    BY <1>4, <2>1 DEF Sending
  <2> QED BY <1>1, <2>1, <2>2, <2>3, <2>4, MoveKeeps
<1>5. CASE StartUpdate(r)
  <2> DEFINE todo == DOMAIN fomos
             snapshot == [i \in DOMAIN fomos |-> SnapshotItem(i)]
             next == [IdleRun EXCEPT !.pc = "asking", !.todo = todo, !.snapshot = snapshot]
  <2>1. run' = [run EXCEPT ![r] = next]
    BY <1>5 DEF StartUpdate
  <2> HIDE DEF todo, snapshot
  <2>2. next.pc # "locking" /\ "call" \in DOMAIN next
    BY DEF IdleRun
  <2> HIDE DEF next
  <2> QED BY <1>4, <2>1, <2>2
<1>6. ASSUME NEW cap \in Caps, OracleAnswers(r, cap) PROVE IInv'
  <2>1. run' = [run EXCEPT ![r] = Answered(run[r], cap)] /\ run[r].pc = "asking"
    BY <1>6 DEF OracleAnswers
  <2>2. "call" \in DOMAIN Answered(run[r], cap) /\ Answered(run[r], cap).pc = run[r].pc
    BY <1>2 DEF Answered
  <2> QED BY <1>4, <2>1, <2>2
<1>7. CASE RouterRejects(r)
  <2>1. run' = [run EXCEPT ![r] = IdleRun]
    BY <1>7 DEF RouterRejects
  <2>2. IdleRun.pc # "locking" /\ "call" \in DOMAIN IdleRun
    BY DEF IdleRun
  <2> QED BY <1>4, <2>1, <2>2
<1> QED BY <1>3, <1>5, <1>6, <1>7

\* A project as a run writes it back: complete for good once it was, and now if its cap
\* is full.
LEMMA SyncedDone ==
    ASSUME NEW p, Fields \subseteq DOMAIN p, p.done \in BOOLEAN, NEW cap, NEW max
    PROVE  /\ Fields \subseteq DOMAIN Synced(p, cap, max)
           /\ Synced(p, cap, max).done \in BOOLEAN
           /\ p.done => Synced(p, cap, max).done
           /\ CutOff(RawProgress(cap)) = Full => Synced(p, cap, max).done
           /\ Synced(p, cap, max).replies = p.replies
<1> DEFINE progress == CutOff(RawProgress(cap))
           q == [p EXCEPT !.progress = progress, !.cap = cap]
           g == GodProgress(q, cap, max)
<1>1. Synced(p, cap, max) = [g EXCEPT !.done = p.done \/ q.progress = Full]
  BY DEF Synced
<1> HIDE DEF progress
<1>2. /\ DOMAIN q = DOMAIN p /\ q.progress = progress /\ q.replies = p.replies
  BY DEF Fields
<1> HIDE DEF q
<1>3. DOMAIN g = DOMAIN q /\ g.replies = q.replies
  <2>1. CASE max = 0
    BY <2>1 DEF GodProgress
  <2>2. CASE max # 0 /\ q.god_progress < Full
    <3> DEFINE n == (cap * Full) \div max
               m == CutOff(n)
               t == q.god_time \/ n >= Full
    <3>1. g = [q EXCEPT !.god_progress = m, !.god_time = t]
      BY <2>2 DEF GodProgress
    <3> HIDE DEF n, m, t, g
    <3> QED BY <3>1
  <2>3. CASE max # 0 /\ ~(q.god_progress < Full)
    <3> DEFINE t == q.god_time \/ q.god_progress = Full
    <3>1. g = [q EXCEPT !.god_progress = Full, !.god_time = t]
      BY <2>3 DEF GodProgress
    <3> HIDE DEF t, g
    <3> QED BY <3>1
  <2> QED BY <2>1, <2>2, <2>3
<1> HIDE DEF g
<1> DEFINE done == p.done \/ q.progress = Full
<1>4. done \in BOOLEAN /\ (p.done => done) /\ (progress = Full => done)
  BY <1>2
<1>5. Synced(p, cap, max) = [g EXCEPT !.done = done]
  BY <1>1
<1> HIDE DEF done
<1>6. /\ DOMAIN Synced(p, cap, max) = DOMAIN p
      /\ Synced(p, cap, max).done = done
      /\ Synced(p, cap, max).replies = p.replies
  BY <1>2, <1>3, <1>5 DEF Fields
<1> QED BY <1>4, <1>6 DEF progress

\* The projects after a run has written them, and the list it is to lock.
LEMMA SyncProjects ==
    ASSUME IInv, NEW a, Sync(a)
    PROVE  /\ DOMAIN fomos' = DOMAIN fomos
           /\ \A i \in DOMAIN fomos :
                  /\ Fields \subseteq DOMAIN fomos'[i] /\ fomos'[i].done \in BOOLEAN
                  /\ fomos[i].done => fomos'[i].done
                  /\ i \in Completing(a) => fomos'[i].done /\ ~fomos[i].done
                  /\ fomos'[i].replies = fomos[i].replies
           /\ Completing(a) \subseteq DOMAIN fomos
<1>1. /\ DOMAIN fomos' = DOMAIN fomos
      /\ \A i \in DOMAIN fomos : fomos'[i] = IF i \in DOMAIN a.caps
                                             THEN Synced(fomos[i], a.caps[i], a.max)
                                             ELSE fomos[i]
  BY DEF Sync
<1>2. ASSUME NEW i \in DOMAIN fomos
      PROVE  /\ Fields \subseteq DOMAIN fomos'[i] /\ fomos'[i].done \in BOOLEAN
             /\ fomos[i].done => fomos'[i].done
             /\ i \in Completing(a) => fomos'[i].done /\ ~fomos[i].done
             /\ fomos'[i].replies = fomos[i].replies
  <2>1. Fields \subseteq DOMAIN fomos[i] /\ fomos[i].done \in BOOLEAN
    BY DEF IInv, Shapes
  <2>2. CASE i \in DOMAIN a.caps
    <3>1. fomos'[i] = Synced(fomos[i], a.caps[i], a.max)
      BY <1>1, <2>2
    <3>2. i \in Completing(a) => CutOff(RawProgress(a.caps[i])) = Full /\ ~fomos[i].done
      BY DEF Completing
    <3> QED BY <2>1, <3>1, <3>2, SyncedDone
  <2>3. CASE i \notin DOMAIN a.caps
    BY <1>1, <2>1, <2>3 DEF Completing
  <2> QED BY <2>2, <2>3
<1> QED BY <1>1, <1>2 DEF Completing

\* The last answer of the oracle: the run takes over the projects it completes, which no
\* other run can hold.
LEMMA CompleteKeeps ==
    ASSUME IInv, NEW r \in Runs, NEW cap \in Caps, OracleAnswersLast(r, cap)
    PROVE  IInv'
<1> DEFINE a == Answered(run[r], cap)
           list == Completing(a)
<1>1. /\ run[r].pc = "asking" /\ Sync(a) /\ UNCHANGED moved
      /\ \E turn \in NextTurn(list) : run' = [run EXCEPT ![r] = turn]
  BY DEF OracleAnswersLast, router
<1> HIDE DEF a
<1>2. /\ DOMAIN fomos' = DOMAIN fomos
      /\ \A i \in DOMAIN fomos : /\ Fields \subseteq DOMAIN fomos'[i]
                                 /\ fomos'[i].done \in BOOLEAN
                                 /\ fomos[i].done => fomos'[i].done
                                 /\ i \in list => fomos'[i].done /\ ~fomos[i].done
      /\ list \subseteq DOMAIN fomos
  BY <1>1, SyncProjects
<1> HIDE DEF list
<1>3. DOMAIN run = Runs /\ \A s \in Runs : "call" \in DOMAIN run[s]
  BY DEF IInv, Shapes
<1>4. PICK turn \in NextTurn(list) : run' = [run EXCEPT ![r] = turn]
  BY <1>1
<1>5. /\ DOMAIN run' = Runs /\ run'[r] = turn
      /\ \A s \in Runs \ {r} : run'[s] = run[s]
  BY <1>3, <1>4
<1>6. \A s \in Runs : "call" \in DOMAIN run'[s]
  BY <1>3, <1>5, TurnHolds
<1>7. \A i : Holds(r, i)' => i \in list /\ ~(i \in run'[r].queue /\ run'[r].current = i)
  BY <1>5, TurnHolds DEF Holds
<1>8. \A s \in Runs \ {r} : \A i : Holds(s, i)' => Holds(s, i)
  BY <1>5 DEF Holds
<1>9. Shapes'
  BY <1>1, <1>2, <1>5, <1>6 DEF IInv, Shapes
<1>10. ASSUME NEW s \in Runs, NEW i, Holds(s, i)'
       PROVE  /\ i \in DOMAIN fomos' /\ fomos'[i].done
              /\ \A t \in Runs \ {s} : ~Holds(t, i)'
              /\ ~(i \in run'[s].queue /\ run'[s].current = i)
  <2>1. CASE s = r
    <3>1. i \in list /\ i \in DOMAIN fomos /\ fomos'[i].done /\ ~fomos[i].done
      BY <1>2, <1>7, <1>10, <2>1
    <3>2. \A t \in Runs : ~Holds(t, i)
      BY <3>1 DEF IInv, HeldOnce
    <3> QED BY <1>2, <1>7, <1>8, <1>10, <2>1, <3>1, <3>2
  <2>2. CASE s # r
    <3>1. Holds(s, i)
      BY <1>8, <1>10, <2>2
    <3>2. /\ i \in DOMAIN fomos /\ fomos[i].done
          /\ \A t \in Runs \ {s} : ~Holds(t, i)
          /\ ~(i \in run[s].queue /\ run[s].current = i)
      BY <3>1 DEF IInv, HeldOnce
    <3>3. ~Holds(r, i)'
      BY <1>2, <1>7, <3>2
    <3> QED BY <1>2, <1>5, <1>8, <2>2, <3>2, <3>3
  <2> QED BY <2>1, <2>2
<1>11. HeldOnce'
  BY <1>10 DEF HeldOnce
<1>12. ASSUME NEW i \in Fomos, NEW d \in Daos
       PROVE  /\ \A s \in Runs : Sending(s, i, d)' => moved'[i][d] = 0
              /\ moved'[i][d] # 0 => moved'[i][d] = 1 /\ i \in DOMAIN fomos' /\ fomos'[i].done
  <2>1. moved' = moved
    BY <1>1
  <2>2. /\ \A s \in Runs : Sending(s, i, d) => moved[i][d] = 0
        /\ moved[i][d] # 0 => moved[i][d] = 1 /\ i \in DOMAIN fomos /\ fomos[i].done
    BY DEF IInv, SentOnce
  <2>3. Sending(r, i, d)' => i \in list
    BY <1>7 DEF Sending, Holds
  <2>4. i \in list => moved[i][d] = 0
    BY <1>2, <2>2
  <2>5. \A s \in Runs \ {r} : Sending(s, i, d)' => Sending(s, i, d)
    BY <1>5 DEF Sending
  <2>6. \A s \in Runs : Sending(s, i, d)' => moved'[i][d] = 0
    BY <2>1, <2>2, <2>3, <2>4, <2>5
  <2>7. moved'[i][d] # 0 => moved'[i][d] = 1 /\ i \in DOMAIN fomos' /\ fomos'[i].done
    BY <1>2, <2>1, <2>2
  <2> QED BY <2>6, <2>7
<1>13. SentOnce'
  BY <1>12 DEF SentOnce
<1> QED BY <1>9, <1>11, <1>13 DEF IInv

\* The steps that leave the runs and the shares alone, and every project as complete as it
\* was.
LEMMA ProjectsKeep ==
    ASSUME IInv, UNCHANGED <<run, moved>>,
           DOMAIN fomos \subseteq DOMAIN fomos', DOMAIN fomos' \subseteq Fomos,
           \A i \in DOMAIN fomos' : Fields \subseteq DOMAIN fomos'[i] /\ fomos'[i].done \in BOOLEAN,
           \A i \in DOMAIN fomos : fomos'[i].done = fomos[i].done
    PROVE  IInv'
<1>1. Shapes'
  BY DEF IInv, Shapes
<1>2. HeldOnce'
  BY DEF IInv, HeldOnce, Holds
<1>3. SentOnce'
  BY DEF IInv, SentOnce, Sending
<1> QED BY <1>1, <1>2, <1>3 DEF IInv

LEMMA ProjectStepKeeps ==
    ASSUME IInv, NEW i \in Fomos, ProjectStep(i)
    PROVE  IInv'
<1>1. CASE \E daos \in DaoLocks : NewFomo(i, daos)
  <2>1. PICK daos \in DaoLocks : NewFomo(i, daos)
    BY <1>1
  <2>2. /\ UNCHANGED <<run, moved>>
        /\ DOMAIN fomos' = DOMAIN fomos \cup {i} /\ i \notin DOMAIN fomos
        /\ fomos'[i] = NewProject(daos)
        /\ \A j \in DOMAIN fomos : fomos'[j] = fomos[j]
    BY <2>1 DEF NewFomo, Put, router
  <2>3. Fields \subseteq DOMAIN NewProject(daos) /\ NewProject(daos).done = FALSE
    BY DEF Fields, NewProject
  <2>4. \A j \in DOMAIN fomos' : Fields \subseteq DOMAIN fomos'[j] /\ fomos'[j].done \in BOOLEAN
    BY <2>2, <2>3 DEF IInv, Shapes
  <2>5. DOMAIN fomos' \subseteq Fomos
    BY <2>2 DEF IInv, Shapes
  <2> QED BY <2>2, <2>4, <2>5, ProjectsKeep
<1>2. CASE ReplyUpdate(i)
  <2>1. /\ UNCHANGED <<run, moved>>
        /\ i \in DOMAIN fomos /\ fomos' = [fomos EXCEPT ![i].replies = @ + 1]
    BY <1>2 DEF ReplyUpdate, router
  <2>2. /\ DOMAIN fomos' = DOMAIN fomos
        /\ \A j \in DOMAIN fomos : DOMAIN fomos'[j] = DOMAIN fomos[j] /\ fomos'[j].done = fomos[j].done
    BY <2>1
  <2>3. /\ DOMAIN fomos' \subseteq Fomos
        /\ \A j \in DOMAIN fomos' : Fields \subseteq DOMAIN fomos'[j] /\ fomos'[j].done \in BOOLEAN
    BY <2>2 DEF IInv, Shapes
  <2> QED BY <2>1, <2>2, <2>3, ProjectsKeep
<1>3. CASE LockPool(i)
  <2>1. UNCHANGED <<run, moved, fomos>>
    BY <1>3 DEF LockPool, launcher
  <2> QED BY <2>1, ProjectsKeep DEF IInv, Shapes
<1> QED BY <1>1, <1>2, <1>3 DEF ProjectStep

LEMMA SharesStep ==
    ASSUME NoTrades, IInv, [Next]_vars
    PROVE  IInv'
<1>1. ASSUME NEW r \in Runs, RunProgress(r) \/ StartUpdate(r) PROVE IInv'
  BY <1>1, RunKeeps, CompleteKeeps, TransferKeeps DEF RunProgress
<1>2. ASSUME \/ \E r \in Runs : UpdateNothing(r)
             \/ UNCHANGED vars
      PROVE  IInv'
  <2>1. UNCHANGED <<run, moved, fomos>>
    BY <1>2 DEF UpdateNothing, vars, launcher, router
  <2> QED BY <2>1, ProjectsKeep DEF IInv, Shapes
<1>3. ASSUME NEW i \in Fomos, ProjectStep(i) PROVE IInv'
  BY <1>3, ProjectStepKeeps
<1> QED
  BY <1>1, <1>2, <1>3 DEF Next, NoTrades

LEMMA SharesCounted == IInv => ShareSentOnce
<1> SUFFICES ASSUME IInv, NEW i \in DOMAIN fomos, NEW d \in Daos
             PROVE  moved[i][d] + Cardinality({r \in Runs : Sending(r, i, d)})
                        <= (IF fomos[i].done THEN 1 ELSE 0)
  BY DEF ShareSentOnce
<1> DEFINE S == {r \in Runs : Sending(r, i, d)}
<1>1. /\ i \in Fomos /\ fomos[i].done \in BOOLEAN /\ moved[i][d] \in Nat
      /\ \A r \in Runs : Sending(r, i, d) => moved[i][d] = 0 /\ Holds(r, i)
      /\ moved[i][d] # 0 => moved[i][d] = 1 /\ fomos[i].done
      /\ \A r \in Runs : Holds(r, i) => fomos[i].done /\ \A s \in Runs \ {r} : ~Holds(s, i)
  BY DEF IInv, Shapes, SentOnce, HeldOnce, Sending, Holds
<1>2. CASE S = {}
  <2>1. Cardinality(S) = 0
    BY <1>2, FS_EmptySet
  <2>2. CASE fomos[i].done
    <3>1. moved[i][d] + Cardinality(S) <= 1
      BY <1>1, <2>1
    <3> QED BY <2>2, <3>1
  <2>3. CASE ~fomos[i].done
    <3>1. moved[i][d] + Cardinality(S) <= 0
      BY <1>1, <2>1, <2>3
    <3> QED BY <2>3, <3>1
  <2> QED BY <2>2, <2>3
<1>3. CASE S # {}
  <2>1. PICK r \in Runs : Sending(r, i, d)
    BY <1>3
  <2>2. S = {r}
    BY <1>1, <2>1
  <2>3. Cardinality(S) = 1
    BY <2>2, FS_Singleton
  <2>4. moved[i][d] = 0 /\ fomos[i].done
    BY <1>1, <2>1
  <2>5. moved[i][d] + Cardinality(S) <= 1
    BY <2>3, <2>4
  <2> QED BY <2>4, <2>5
<1> QED BY <1>2, <1>3

-----------------------------------------------------------------------------
(* The replies *)

\* Every reply is in the record, and none came before the project.
RepliesKnown ==
    /\ replies \in [Fomos -> Nat]
    /\ \A i \in Fomos : IF i \in DOMAIN fomos THEN fomos[i].replies = replies[i]
                                              ELSE replies[i] = 0

LEMMA InitReplies == Init => RepliesKnown
  BY DEF Init, RepliesKnown

LEMMA RepliesStep ==
    ASSUME NoTrades, IInv, RepliesKnown, [Next]_vars
    PROVE  RepliesKnown'
<1> DOMAIN fomos \subseteq Fomos
  BY DEF IInv, Shapes
<1>1. ASSUME UNCHANGED replies, DOMAIN fomos' = DOMAIN fomos,
             \A i \in DOMAIN fomos : fomos'[i].replies = fomos[i].replies
      PROVE  RepliesKnown'
  BY <1>1 DEF RepliesKnown
<1>2. ASSUME NEW r \in Runs, NEW cap \in Caps, OracleAnswersLast(r, cap)
      PROVE  RepliesKnown'
  <2>1. UNCHANGED replies /\ Sync(Answered(run[r], cap))
    BY <1>2 DEF OracleAnswersLast
  <2> QED BY <1>1, <2>1, SyncProjects
<1>3. ASSUME NEW r \in Runs,
             \/ UpdateNothing(r) \/ StartUpdate(r)
             \/ RunProgress(r) /\ ~\E cap \in Caps : OracleAnswersLast(r, cap)
      PROVE  RepliesKnown'
  <2>1. UNCHANGED <<fomos, replies>>
    BY <1>3 DEF UpdateNothing, StartUpdate, RunProgress, OracleAnswers, RouterTransfers,
                RouterLocks, RouterErrs, RouterRejects, launcher
  <2> QED BY <1>1, <2>1
<1>4. ASSUME NEW i \in Fomos, ProjectStep(i) PROVE RepliesKnown'
  <2>1. CASE \E daos \in DaoLocks : NewFomo(i, daos)
    <3>1. PICK daos \in DaoLocks : NewFomo(i, daos)
      BY <2>1
    <3>2. /\ UNCHANGED replies /\ i \notin DOMAIN fomos
          /\ DOMAIN fomos' = DOMAIN fomos \cup {i}
          /\ fomos'[i].replies = 0
          /\ \A j \in DOMAIN fomos : fomos'[j] = fomos[j]
      BY <3>1 DEF NewFomo, Put, NewProject
    <3> QED BY <3>2 DEF RepliesKnown
  <2>2. CASE ReplyUpdate(i)
    <3>1. /\ i \in DOMAIN fomos /\ fomos' = [fomos EXCEPT ![i].replies = @ + 1]
          /\ replies' = [replies EXCEPT ![i] = @ + 1]
          /\ "replies" \in DOMAIN fomos[i]
      BY <2>2 DEF ReplyUpdate, IInv, Shapes, Fields
    <3> QED BY <3>1 DEF RepliesKnown
  <2>3. CASE LockPool(i)
    BY <1>1, <2>3 DEF LockPool, launcher
  <2> QED BY <1>4, <2>1, <2>2, <2>3 DEF ProjectStep
<1>5. CASE UNCHANGED vars
  BY <1>1, <1>5 DEF vars, launcher
<1> QED
  BY <1>2, <1>3, <1>4, <1>5 DEF Next, NoTrades

-----------------------------------------------------------------------------
(* The progress shown *)

CapShown(p) == p.progress = (IF p.cap >= GoalUSD THEN Full ELSE 2 * p.cap)

ProjectOK(p) == p \in Project /\ p.progress <= Full /\ p.god_progress <= Full /\ CapShown(p)

ProjectsShown ==
    /\ DOMAIN fomos \subseteq Fomos
    /\ \A i \in DOMAIN fomos : ProjectOK(fomos[i])

RunFields == {"pc", "todo", "snapshot", "caps", "max", "best", "queue", "current", "call"}

RunsOK ==
    /\ DOMAIN run = Runs
    /\ \A r \in Runs : RunFields \subseteq DOMAIN run[r] /\ RunOK(run[r])

\* A trade in flight is about a project there is.
TradesKnown ==
    /\ trade \in [Trades -> Trade]
    /\ \A c \in Trades : trade[c].pc # "idle" => trade[c].idx \in DOMAIN fomos

LauncherOK == god \in Fomos \cup {0, 1} /\ lastSwap \in Timestamps \cup {0}

RouterOK ==
    /\ moved \in [Fomos -> [Daos -> Nat]]
    /\ locked \subseteq Fomos
    /\ failures \in 0..MaxFailures

CountsOK == replies \in [Fomos -> Nat] /\ trades \in 0..MaxTrades

(* The inductive invariant: the types, what is shown, and the shapes of the runs. *)
CapInv == ProjectsShown /\ RunsOK /\ TradesKnown /\ LauncherOK /\ RouterOK /\ CountsOK

LEMMA CapInvShows == CapInv => ProgressFollowsCap
  BY DEF CapInv, ProgressFollowsCap, TypeOK, ProjectsShown, ProjectOK, CapShown, RunsOK,
         TradesKnown, LauncherOK, RouterOK, CountsOK

\* The progress of a market cap, cut off.
LEMMA ProgressOf ==
    ASSUME NEW cap \in Nat
    PROVE  /\ RawProgress(cap) \in Nat
           /\ CutOff(RawProgress(cap)) \in Nat /\ CutOff(RawProgress(cap)) <= Full
           /\ CutOff(RawProgress(cap)) = IF cap >= GoalUSD THEN Full ELSE 2 * cap
<1>1. RawProgress(cap) = 2 * cap
  BY DEF RawProgress, Full, GoalUSD
<1> QED BY <1>1 DEF CutOff, Full, GoalUSD

\* The progress towards the god of wells stays within bounds and leaves the rest alone.
LEMMA GodProgressOK ==
    ASSUME NEW p \in Project, NEW cap \in Nat, NEW max \in Nat
    PROVE  /\ GodProgress(p, cap, max) \in Project
           /\ GodProgress(p, cap, max).god_progress <= Full
           /\ GodProgress(p, cap, max).progress = p.progress
           /\ GodProgress(p, cap, max).cap = p.cap
           /\ GodProgress(p, cap, max).done = p.done
<1>1. CASE max = 0
  BY <1>1 DEF GodProgress, Project, Full
<1>2. CASE max # 0 /\ p.god_progress < Full
  <2> DEFINE n == (cap * Full) \div max
             m == CutOff(n)
             t == p.god_time \/ n >= Full
  <2>1. GodProgress(p, cap, max) = [p EXCEPT !.god_progress = m, !.god_time = t]
    BY <1>2 DEF GodProgress
  <2>2. n \in Nat
    <3>1. cap * Full \in Nat /\ max \in Nat \ {0}
      BY <1>2 DEF Full
    <3> HIDE DEF n
    <3> QED BY <3>1 DEF n
  <2> HIDE DEF n
  <2>3. m \in Nat /\ m <= Full /\ t \in BOOLEAN
    BY <2>2 DEF CutOff, Full
  <2> HIDE DEF m, t
  <2>4. [p EXCEPT !.god_progress = m, !.god_time = t] \in Project
    BY <2>3 DEF Project
  <2> QED BY <2>1, <2>3, <2>4 DEF Project
<1>3. CASE max # 0 /\ ~(p.god_progress < Full)
  <2> DEFINE t == p.god_time \/ p.god_progress = Full
  <2>1. GodProgress(p, cap, max) = [p EXCEPT !.god_progress = Full, !.god_time = t]
    BY <1>3 DEF GodProgress
  <2>2. t \in BOOLEAN
    OBVIOUS
  <2> HIDE DEF t
  <2> DEFINE g == [p EXCEPT !.god_progress = Full, !.god_time = t]
  <2>3. g \in Project /\ g.god_progress = Full
    <3>1. Full \in Nat
      BY DEF Full
    <3> QED BY <2>2, <3>1 DEF Project
  <2>4. g.progress = p.progress /\ g.cap = p.cap /\ g.done = p.done
    BY DEF Project
  <2>5. GodProgress(p, cap, max) = g /\ Full <= Full
    BY <2>1 DEF Full
  <2> HIDE DEF g
  <2> QED BY <2>3, <2>4, <2>5
<1> QED BY <1>1, <1>2, <1>3

\* A project written with a new market cap shows the progress of it.
LEMMA WrittenOK ==
    ASSUME NEW p \in Project, NEW cap \in Nat, NEW max \in Nat
    PROVE  ProjectOK(GodProgress([p EXCEPT !.progress = CutOff(RawProgress(cap)), !.cap = cap],
                                 cap, max))
<1> DEFINE progress == CutOff(RawProgress(cap))
           q == [p EXCEPT !.progress = progress, !.cap = cap]
<1>1. progress \in Nat /\ progress <= Full
      /\ progress = IF cap >= GoalUSD THEN Full ELSE 2 * cap
  BY ProgressOf
<1> HIDE DEF progress
<1>2. q \in Project /\ q.progress = progress /\ q.cap = cap
  BY <1>1 DEF Project
<1> HIDE DEF q
<1> DEFINE g == GodProgress(q, cap, max)
<1>3. g \in Project /\ g.god_progress <= Full /\ g.progress = progress /\ g.cap = cap
  BY <1>2, GodProgressOK
<1> HIDE DEF g
<1>4. ProjectOK(g)
  BY <1>1, <1>3 DEF ProjectOK, CapShown
<1> QED BY <1>4 DEF g, q, progress

LEMMA SyncedOK ==
    ASSUME NEW p \in Project, NEW cap \in Nat, NEW max \in Nat
    PROVE  ProjectOK(Synced(p, cap, max))
<1> DEFINE q == [p EXCEPT !.progress = CutOff(RawProgress(cap)), !.cap = cap]
           g == GodProgress(q, cap, max)
           done == p.done \/ q.progress = Full
<1>1. Synced(p, cap, max) = [g EXCEPT !.done = done]
  BY DEF Synced
<1>2. ProjectOK(g)
  BY WrittenOK
<1>3. done \in BOOLEAN
  OBVIOUS
<1> HIDE DEF g, done
<1> QED BY <1>1, <1>2, <1>3 DEF ProjectOK, CapShown, Project

LEMMA InitCaps == Init => CapInv
<1> SUFFICES ASSUME Init PROVE CapInv
  OBVIOUS
<1>1. ProjectsShown
  BY DEF Init, ProjectsShown
<1>2. RunsOK
  <2>1. RunFields \subseteq DOMAIN IdleRun /\ RunOK(IdleRun)
    BY DEF RunFields, IdleRun, RunOK, NoCaps
  <2> QED BY <2>1 DEF Init, RunsOK
<1>3. TradesKnown
  <2>1. NewProject([sneed |-> FALSE, dogmi |-> FALSE]) \in Project
    BY DEF NewProject, Project
  <2>2. IdleTrade \in Trade /\ IdleTrade.pc = "idle"
    BY <2>1 DEF IdleTrade, Trade
  <2> QED BY <2>2 DEF Init, TradesKnown
<1>4. LauncherOK /\ RouterOK /\ CountsOK
  BY ProgressAssumption DEF Init, LauncherOK, RouterOK, CountsOK
<1> QED BY <1>1, <1>2, <1>3, <1>4 DEF CapInv

\* What a run in flight refers to is still there when the projects only grow.
LEMMA RunsKept ==
    ASSUME RunsOK, UNCHANGED run, DOMAIN fomos \subseteq DOMAIN fomos'
    PROVE  RunsOK'
<1>1. ASSUME NEW r, RunOK(r) PROVE RunOK(r)'
  BY <1>1 DEF RunOK
<1> QED BY <1>1 DEF RunsOK

\* One run moves on.
LEMMA RunMoves ==
    ASSUME RunsOK, DOMAIN fomos \subseteq DOMAIN fomos', NEW r \in Runs, NEW a,
           run' = [run EXCEPT ![r] = a], RunFields \subseteq DOMAIN a, RunOK(a)
    PROVE  RunsOK'
<1>1. ASSUME NEW b, RunOK(b) PROVE RunOK(b)'
  BY <1>1 DEF RunOK
<1>2. /\ DOMAIN run' = Runs /\ run'[r] = a
      /\ \A s \in Runs \ {r} : run'[s] = run[s]
  BY DEF RunsOK
<1>3. ASSUME NEW s \in Runs PROVE RunFields \subseteq DOMAIN run'[s] /\ RunOK(run'[s])
  BY <1>2 DEF RunsOK
<1>4. ASSUME NEW s \in Runs PROVE RunOK(run[s])'
  <2>1. PICK b : b = run'[s]
    OBVIOUS
  <2>2. RunOK(b)'
    BY <1>1, <1>3, <2>1
  <2> QED BY <2>1, <2>2 DEF RunOK
<1> QED BY <1>2, <1>3, <1>4 DEF RunsOK

\* The project asked about next is one of those not asked yet.
LEMMA NextIsToDo ==
    ASSUME ProjectsShown, NEW r, RunOK(r), r.todo # {}
    PROVE  NextItem(r) \in r.todo
<1>1. r.todo \subseteq Nat
  BY ProgressAssumption DEF ProjectsShown, RunOK
<1> DEFINE Less == {ij \in Nat \X Nat : ij[1] < ij[2]}
<1>2. IsWellFoundedOn(Less, Nat)
  <2>1. OpToRel(<, Nat) = Less
    BY Zenon DEF OpToRel
  <2> QED BY <2>1, NatLessThanWellFounded, Zenon
<1>3. \A i \in Nat : \A j \in Nat : <<j, i>> \in Less \/ i <= j
  OBVIOUS
<1> HIDE DEF Less
<1>4. PICK i \in r.todo : \A j \in r.todo : ~(<<j, i>> \in Less)
  BY <1>1, <1>2, WFMin
<1>5. \A j \in r.todo : i <= j
  BY <1>1, <1>3, <1>4
<1> QED BY <1>5 DEF NextItem

\* The answers so far, and the candidate among them.
LEMMA AnsweredOK ==
    ASSUME ProjectsShown, NEW r, RunFields \subseteq DOMAIN r, RunOK(r), r.todo # {},
           NEW cap \in Caps
    PROVE  /\ RunFields \subseteq DOMAIN Answered(r, cap) /\ RunOK(Answered(r, cap))
           /\ Answered(r, cap).pc = r.pc
<1> DEFINE i == NextItem(r)
           better == Candidate(cap, r.max, r.snapshot[i].done, r.snapshot[i].god_time)
           todo == r.todo \ {i}
           caps == Put(r.caps, i, cap)
           max == IF better THEN cap ELSE r.max
           best == IF better THEN i ELSE r.best
           a == [r EXCEPT !.todo = todo, !.caps = caps, !.max = max, !.best = best]
<1>1. i \in r.todo /\ i \in DOMAIN fomos /\ i \in Fomos /\ cap \in Nat
  BY NextIsToDo, ProgressAssumption DEF RunOK, ProjectsShown
<1>2. Answered(r, cap) = a
  BY DEF Answered
<1>3. todo \subseteq r.todo
  OBVIOUS
<1>4. DOMAIN caps \subseteq DOMAIN fomos /\ \A j \in DOMAIN caps : caps[j] \in Nat
  BY <1>1 DEF Put, RunOK
<1>5. max \in Nat /\ best \in Fomos \cup {0}
  BY <1>1 DEF RunOK
<1> HIDE DEF i, better, todo, caps, max, best
<1>6. /\ DOMAIN a = DOMAIN r
      /\ a.todo = todo /\ a.caps = caps /\ a.max = max /\ a.best = best
      /\ a.pc = r.pc /\ a.snapshot = r.snapshot /\ a.queue = r.queue
      /\ a.current = r.current /\ a.call = r.call
  BY DEF RunFields
<1> HIDE DEF a
<1>7. RunOK(a)
  BY <1>3, <1>4, <1>5, <1>6 DEF RunOK
<1> QED BY <1>2, <1>6, <1>7

LEMMA TurnOK ==
    ASSUME NEW queue, queue \subseteq DOMAIN fomos, NEW turn \in NextTurn(queue)
    PROVE  RunFields \subseteq DOMAIN turn /\ RunOK(turn)
<1>1. RunFields \subseteq DOMAIN IdleRun /\ RunOK(IdleRun)
  BY DEF RunFields, IdleRun, RunOK, NoCaps
<1>2. CASE queue = {}
  BY <1>1, <1>2 DEF NextTurn
<1>3. CASE queue # {}
  <2>1. PICK i \in queue :
            turn = [IdleRun EXCEPT !.pc = "locking", !.queue = queue \ {i},
                                   !.current = i, !.call = FirstCall(fomos[i])]
    BY <1>3 DEF NextTurn
  <2> DEFINE first == FirstCall(fomos[i])
             rest == queue \ {i}
  <2>2. first \in Daos \cup {"lock"} /\ rest \subseteq DOMAIN fomos /\ i \in DOMAIN fomos
    BY DEF FirstCall, Daos
  <2>3. turn = [IdleRun EXCEPT !.pc = "locking", !.queue = rest, !.current = i, !.call = first]
    BY <2>1
  <2> HIDE DEF first, rest
  <2>4. /\ DOMAIN turn = DOMAIN IdleRun
        /\ turn.pc = "locking" /\ turn.queue = rest /\ turn.current = i /\ turn.call = first
        /\ turn.todo = {} /\ turn.snapshot = NoCaps /\ turn.caps = NoCaps
        /\ turn.max = 0 /\ turn.best = 0
    BY <2>3 DEF IdleRun
  <2>5. RunOK(turn)
    BY <2>2, <2>4 DEF RunOK, NoCaps
  <2> QED BY <1>1, <2>4, <2>5
<1> QED BY <1>2, <1>3

\* The steps of a run that only move it on.
LEMMA LoopOK ==
    ASSUME RunsOK, UNCHANGED fomos, NEW r \in Runs, LoopGoesOn(r)
    PROVE  RunsOK'
<1>1. RunFields \subseteq DOMAIN run[r] /\ RunOK(run[r])
  BY DEF RunsOK
<1>2. CASE run[r].call = "lock"
  <2>1. PICK turn \in NextTurn(run[r].queue) : run' = [run EXCEPT ![r] = turn]
    BY <1>2 DEF LoopGoesOn
  <2>2. run[r].queue \subseteq DOMAIN fomos
    BY <1>1 DEF RunOK
  <2>3. RunFields \subseteq DOMAIN turn /\ RunOK(turn)
    BY <2>2, TurnOK
  <2> QED BY <2>1, <2>3, RunMoves
<1>3. CASE run[r].call # "lock"
  <2> DEFINE after == CallAfter(fomos[run[r].current], run[r].call)
             a == [run[r] EXCEPT !.call = after]
  <2>1. run' = [run EXCEPT ![r] = a]
    BY <1>3 DEF LoopGoesOn
  <2>2. after \in Daos \cup {"lock"}
    BY DEF CallAfter, Daos
  <2> HIDE DEF after
  <2>3. /\ DOMAIN a = DOMAIN run[r] /\ a.call = after
        /\ a.pc = run[r].pc /\ a.todo = run[r].todo /\ a.snapshot = run[r].snapshot
        /\ a.caps = run[r].caps /\ a.max = run[r].max /\ a.best = run[r].best
        /\ a.queue = run[r].queue /\ a.current = run[r].current
    BY <1>1 DEF RunFields
  <2> HIDE DEF a
  <2>4. RunOK(a)
    BY <1>1, <2>2, <2>3 DEF RunOK
  <2> QED BY <1>1, <2>1, <2>3, <2>4, RunMoves
<1> QED BY <1>2, <1>3

\* A run writes its answers back, and goes to the list of the projects it completed.
LEMMA SyncOK ==
    ASSUME CapInv, NEW a, RunOK(a), Sync(a)
    PROVE  /\ ProjectsShown' /\ DOMAIN fomos' = DOMAIN fomos
           /\ god' \in Fomos \cup {0, 1}
<1>1. /\ DOMAIN fomos' = DOMAIN fomos
      /\ \A i \in DOMAIN fomos :
             fomos'[i] = IF i \in DOMAIN a.caps THEN Synced(fomos[i], a.caps[i], a.max)
                                                ELSE fomos[i]
  BY DEF Sync
<1>2. ASSUME NEW i \in DOMAIN fomos PROVE ProjectOK(fomos'[i])
  <2>1. fomos[i] \in Project /\ ProjectOK(fomos[i])
    BY DEF CapInv, ProjectsShown, ProjectOK
  <2>2. CASE i \in DOMAIN a.caps
    <3>1. a.caps[i] \in Nat /\ a.max \in Nat
      BY <2>2 DEF RunOK
    <3> QED BY <1>1, <2>1, <2>2, <3>1, SyncedOK
  <2>3. CASE i \notin DOMAIN a.caps
    BY <1>1, <2>1, <2>3
  <2> QED BY <2>2, <2>3
<1>3. god' \in Fomos \cup {0, 1}
  BY DEF Sync, RunOK
<1> QED BY <1>1, <1>2, <1>3 DEF CapInv, ProjectsShown, ProjectOK, CapShown

LEMMA RunStepCaps ==
    ASSUME CapInv, NEW r \in Runs, UpdateNothing(r) \/ StartUpdate(r) \/ RunProgress(r)
    PROVE  CapInv'
<1>1. RunFields \subseteq DOMAIN run[r] /\ RunOK(run[r])
  BY DEF CapInv, RunsOK
<1>2. RunFields \subseteq DOMAIN IdleRun /\ RunOK(IdleRun)
  BY DEF RunFields, IdleRun, RunOK, NoCaps
<1>3. ASSUME UNCHANGED <<fomos, god, lastSwap, trade, replies, trades>>, RunsOK', RouterOK'
      PROVE  CapInv'
  BY <1>3 DEF CapInv, ProjectsShown, TradesKnown, LauncherOK, CountsOK
<1>4. UNCHANGED router => RouterOK'
  BY DEF CapInv, RouterOK, router
<1>5. CASE UpdateNothing(r)
  <2>1. UNCHANGED <<fomos, lastSwap, run, trade, router, replies, trades>> /\ god' = 0
    BY <1>5 DEF UpdateNothing
  <2>2. RunsOK'
    BY <2>1, RunsKept DEF CapInv
  <2> QED BY <1>4, <2>1, <2>2 DEF CapInv, ProjectsShown, TradesKnown, LauncherOK, CountsOK
<1>6. CASE StartUpdate(r)
  <2> DEFINE snapshot == [i \in DOMAIN fomos |-> SnapshotItem(i)]
             todo == DOMAIN fomos
             a == [IdleRun EXCEPT !.pc = "asking", !.todo = todo, !.snapshot = snapshot]
  <2>1. run' = [run EXCEPT ![r] = a] /\ UNCHANGED <<launcher, trade, router, replies, trades>>
    BY <1>6 DEF StartUpdate
  <2>2. /\ DOMAIN snapshot = DOMAIN fomos
        /\ \A i \in DOMAIN snapshot : snapshot[i] \in [done : BOOLEAN, god_time : BOOLEAN]
    BY DEF CapInv, ProjectsShown, ProjectOK, Project, SnapshotItem
  <2>3. todo = DOMAIN fomos
    OBVIOUS
  <2> HIDE DEF snapshot, todo
  <2>4. /\ DOMAIN a = DOMAIN IdleRun
        /\ a.pc = "asking" /\ a.todo = todo /\ a.snapshot = snapshot
        /\ a.caps = NoCaps /\ a.max = 0 /\ a.best = 0 /\ a.queue = {}
        /\ a.current = 0 /\ a.call = "lock"
    BY DEF IdleRun
  <2> HIDE DEF a
  <2>5. RunOK(a)
    BY <2>2, <2>3, <2>4 DEF RunOK, NoCaps
  <2>6. RunsOK'
    BY <1>2, <2>1, <2>4, <2>5, RunMoves DEF CapInv, launcher
  <2> QED BY <1>3, <1>4, <2>1, <2>6 DEF launcher
<1>7. ASSUME NEW cap \in Caps, OracleAnswers(r, cap) PROVE CapInv'
  <2>1. run[r].todo # {}
    BY <1>7, FS_EmptySet DEF OracleAnswers
  <2>2. RunFields \subseteq DOMAIN Answered(run[r], cap) /\ RunOK(Answered(run[r], cap))
    BY <1>1, <2>1, AnsweredOK DEF CapInv
  <2>3. /\ run' = [run EXCEPT ![r] = Answered(run[r], cap)]
        /\ UNCHANGED <<launcher, trade, router, replies, trades>>
    BY <1>7 DEF OracleAnswers
  <2>4. RunsOK'
    BY <2>2, <2>3, RunMoves DEF CapInv, launcher
  <2> QED BY <1>3, <1>4, <2>3, <2>4 DEF launcher
<1>8. ASSUME NEW cap \in Caps, OracleAnswersLast(r, cap) PROVE CapInv'
  <2> DEFINE a == Answered(run[r], cap)
  <2>1. run[r].todo # {}
    BY <1>8, FS_EmptySet DEF OracleAnswersLast
  <2>2. RunOK(a)
    BY <1>1, <2>1, AnsweredOK DEF CapInv
  <2>3. /\ Sync(a)
        /\ \E turn \in NextTurn(Completing(a)) : run' = [run EXCEPT ![r] = turn]
        /\ UNCHANGED <<lastSwap, trade, router, replies, trades>>
    BY <1>8 DEF OracleAnswersLast
  <2> HIDE DEF a
  <2>4. ProjectsShown' /\ DOMAIN fomos' = DOMAIN fomos /\ god' \in Fomos \cup {0, 1}
    BY <2>2, <2>3, SyncOK
  <2>5. PICK turn \in NextTurn(Completing(a)) : run' = [run EXCEPT ![r] = turn]
    BY <2>3
  <2>6. Completing(a) \subseteq DOMAIN fomos
    BY DEF Completing
  <2>7. RunFields \subseteq DOMAIN turn /\ RunOK(turn)
    BY <2>6, TurnOK
  <2>8. RunsOK'
    BY <2>4, <2>5, <2>7, RunMoves DEF CapInv
  <2> QED BY <1>4, <2>3, <2>4, <2>8 DEF CapInv, TradesKnown, LauncherOK, CountsOK
<1>9. CASE RouterTransfers(r)
  <2>1. /\ LoopGoesOn(r) /\ UNCHANGED <<launcher, trade, locked, failures, replies, trades>>
        /\ moved' = [moved EXCEPT ![run[r].current][run[r].call] = @ + 1]
    BY <1>9 DEF RouterTransfers
  <2>2. RunsOK'
    BY <2>1, LoopOK DEF CapInv, launcher
  <2>3. moved' \in [Fomos -> [Daos -> Nat]]
    <3> DEFINE k == run[r].current
               d == run[r].call
    <3>1. moved \in [Fomos -> [Daos -> Nat]] /\ moved' = [moved EXCEPT ![k][d] = @ + 1]
      BY <2>1 DEF CapInv, RouterOK
    <3>2. k \in Fomos /\ d \in Daos
      BY <1>1, <1>9 DEF RouterTransfers, RunOK, CapInv, ProjectsShown
    <3> HIDE DEF k, d
    <3> QED BY <3>1, <3>2
  <2>4. RouterOK'
    BY <2>1, <2>3 DEF CapInv, RouterOK
  <2> QED BY <1>3, <2>1, <2>2, <2>4 DEF launcher
<1>10. CASE RouterLocks(r)
  <2>1. /\ LoopGoesOn(r) /\ UNCHANGED <<launcher, trade, moved, failures, replies, trades>>
        /\ locked' = locked \cup {run[r].current} /\ run[r].pc = "locking"
    BY <1>10 DEF RouterLocks
  <2>2. RunsOK'
    BY <2>1, LoopOK DEF CapInv, launcher
  <2>3. run[r].current \in Fomos
    BY <1>1, <2>1 DEF RunOK, CapInv, ProjectsShown
  <2>4. RouterOK'
    BY <2>1, <2>3 DEF CapInv, RouterOK
  <2> QED BY <1>3, <2>1, <2>2, <2>4 DEF launcher
<1>11. CASE RouterErrs(r) \/ RouterRejects(r)
  <2>1. /\ UNCHANGED <<launcher, trade, moved, locked, replies, trades>>
        /\ Failure
        /\ LoopGoesOn(r) \/ run' = [run EXCEPT ![r] = IdleRun]
    BY <1>11 DEF RouterErrs, RouterRejects
  <2>2. RunsOK'
    BY <1>2, <2>1, LoopOK, RunMoves DEF CapInv, launcher
  <2>3. failures' \in 0..MaxFailures
    BY <2>1, ProgressAssumption DEF Failure, CapInv, RouterOK
  <2>4. RouterOK'
    BY <2>1, <2>3 DEF CapInv, RouterOK
  <2> QED BY <1>3, <2>1, <2>2, <2>4 DEF launcher
<1> QED BY <1>5, <1>6, <1>7, <1>8, <1>9, <1>10, <1>11 DEF RunProgress

LEMMA TradeStepCaps ==
    ASSUME CapInv, NEW c \in Trades, TradeStep(c)
    PROVE  CapInv'
<1>1. trade \in [Trades -> Trade] /\ trade[c] \in Trade
  BY DEF CapInv, TradesKnown
<1>2. NewProject([sneed |-> FALSE, dogmi |-> FALSE]) \in Project
  BY DEF NewProject, Project
<1>3. IdleTrade \in Trade /\ IdleTrade.pc = "idle"
  BY <1>2 DEF IdleTrade, Trade
<1>4. ASSUME NEW t \in Trade, trade' = [trade EXCEPT ![c] = t],
             t.pc # "idle" => t.idx \in DOMAIN fomos, DOMAIN fomos \subseteq DOMAIN fomos'
      PROVE  TradesKnown'
  BY <1>1, <1>4 DEF CapInv, TradesKnown
<1>5. ASSUME UNCHANGED <<launcher, run, router, replies>>, TradesKnown', trades' \in 0..MaxTrades
      PROVE  CapInv'
  <2>1. RunsOK'
    BY <1>5, RunsKept DEF CapInv, launcher
  <2> QED BY <1>5, <2>1 DEF CapInv, ProjectsShown, LauncherOK, RouterOK, CountsOK,
                            launcher, router
<1>6. trades \in 0..MaxTrades
  BY DEF CapInv, CountsOK
<1>7. ASSUME NEW k \in Fomos, SetBuyOrSell(c, k) PROVE CapInv'
  <2> DEFINE v == fomos[k]
             t == [IdleTrade EXCEPT !.pc = "status", !.idx = k, !.v = v]
  <2>1. /\ trade' = [trade EXCEPT ![c] = t] /\ k \in DOMAIN fomos
        /\ trades < MaxTrades /\ trades' = trades + 1
        /\ UNCHANGED <<launcher, run, router, replies>>
    BY <1>7 DEF SetBuyOrSell
  <2>2. v \in Project
    BY <2>1 DEF CapInv, ProjectsShown, ProjectOK
  <2> HIDE DEF v
  <2>3. t \in Trade /\ t.idx = k
    BY <1>3, <2>2 DEF Trade
  <2> HIDE DEF t
  <2>4. TradesKnown'
    BY <1>4, <2>1, <2>3 DEF launcher
  <2>5. trades' \in 0..MaxTrades
    BY <1>6, <2>1, ProgressAssumption
  <2> QED BY <1>5, <2>1, <2>4, <2>5
<1>8. ASSUME NEW time \in Timestamps, SwapAccepted(c, time) PROVE CapInv'
  <2> DEFINE god_time == fomos[trade[c].idx].god_time
             t == [trade[c] EXCEPT !.pc = "price", !.time = time, !.god_time = god_time]
  <2>1. trade' = [[[trade EXCEPT ![c].pc = "price"] EXCEPT ![c].time = time]
                     EXCEPT ![c].god_time = god_time]
    BY <1>8 DEF SwapAccepted
  <2>2. /\ trade[c].pc = "status" /\ UNCHANGED <<launcher, run, router, replies, trades>>
    BY <1>8 DEF SwapAccepted
  <2>3. trade[c].idx \in DOMAIN fomos /\ god_time \in BOOLEAN
    BY <2>2 DEF CapInv, TradesKnown, ProjectsShown, ProjectOK, Project
  <2> HIDE DEF god_time
  <2>4. trade' = [trade EXCEPT ![c] = t]
    BY <1>1, <2>1 DEF Trade
  <2>5. t \in Trade /\ t.idx = trade[c].idx
    BY <1>1, <2>3 DEF Trade
  <2> HIDE DEF t
  <2>6. TradesKnown'
    BY <1>4, <2>2, <2>3, <2>4, <2>5 DEF launcher
  <2> QED BY <1>5, <1>6, <2>2, <2>6
<1>9. CASE TradeFails(c)
  <2>1. trade' = [trade EXCEPT ![c] = IdleTrade]
        /\ UNCHANGED <<launcher, run, router, replies, trades>>
    BY <1>9 DEF TradeFails
  <2>2. TradesKnown'
    BY <1>3, <1>4, <2>1 DEF launcher
  <2> QED BY <1>5, <1>6, <2>1, <2>2
<1>10. ASSUME NEW cap \in Caps, WriteTrade(c, cap) PROVE CapInv'
  <2> DEFINE t == trade[c]
             p == TradeWritten(t, cap)
  <2>1. /\ t.pc = "price" /\ lastSwap' = t.time
        /\ god' = t.idx \/ god' = god
        /\ fomos' = Put(fomos, t.idx, p)
        /\ trade' = [trade EXCEPT ![c] = IdleTrade]
        /\ UNCHANGED <<run, router, replies, trades>>
    BY <1>10 DEF WriteTrade
  <2>2. t.v \in Project /\ t.time \in Timestamps \cup {0} /\ t.idx \in DOMAIN fomos
    BY <1>1, <2>1 DEF Trade, CapInv, TradesKnown
  <2>3. GodCap \in Nat
    BY DEF GodCap, CapInv, ProjectsShown, ProjectOK, Project
  <2>4. cap \in Nat
    BY ProgressAssumption
  <2>5. ProjectOK(p)
    BY <2>2, <2>3, <2>4, WrittenOK DEF TradeWritten
  <2> HIDE DEF p
  <2>6. /\ DOMAIN fomos' = DOMAIN fomos /\ fomos'[t.idx] = p
        /\ \A i \in DOMAIN fomos : i # t.idx => fomos'[i] = fomos[i]
    BY <2>1, <2>2 DEF Put
  <2>7. \A i \in DOMAIN fomos : ProjectOK(fomos'[i])
    BY <2>5, <2>6 DEF CapInv, ProjectsShown
  <2>8. ProjectsShown'
    BY <2>6, <2>7 DEF CapInv, ProjectsShown, ProjectOK, CapShown
  <2>9. RunsOK'
    BY <2>1, <2>6, RunsKept DEF CapInv
  <2>10. TradesKnown'
    BY <1>3, <1>4, <2>1, <2>6
  <2>11. LauncherOK'
    BY <2>1, <2>2 DEF CapInv, LauncherOK, ProjectsShown
  <2> QED BY <2>1, <2>8, <2>9, <2>10, <2>11 DEF CapInv, RouterOK, CountsOK, router
<1> QED BY <1>7, <1>8, <1>9, <1>10 DEF TradeStep

LEMMA ProjectStepCaps ==
    ASSUME CapInv, NEW i \in Fomos, ProjectStep(i)
    PROVE  CapInv'
<1>1. ASSUME UNCHANGED <<god, lastSwap, run, trade, router, trades>>,
             DOMAIN fomos \subseteq DOMAIN fomos', ProjectsShown',
             replies' \in [Fomos -> Nat]
      PROVE  CapInv'
  <2>1. RunsOK'
    BY <1>1, RunsKept DEF CapInv
  <2>2. TradesKnown'
    BY <1>1 DEF CapInv, TradesKnown
  <2> QED BY <1>1, <2>1, <2>2 DEF CapInv, LauncherOK, RouterOK, CountsOK, router
<1>2. replies \in [Fomos -> Nat]
  BY DEF CapInv, CountsOK
<1>3. ASSUME NEW daos \in DaoLocks, NewFomo(i, daos) PROVE CapInv'
  <2>1. ProjectOK(NewProject(daos))
    <3>1. daos.sneed \in BOOLEAN /\ daos.dogmi \in BOOLEAN
      BY ProgressAssumption
    <3> QED BY <3>1 DEF NewProject, ProjectOK, CapShown, Project, Full, GoalUSD
  <2>2. /\ UNCHANGED <<god, lastSwap, run, trade, router, replies, trades>>
        /\ DOMAIN fomos' = DOMAIN fomos \cup {i} /\ fomos'[i] = NewProject(daos)
        /\ \A j \in DOMAIN fomos : fomos'[j] = fomos[j]
    BY <1>3 DEF NewFomo, Put
  <2>3. \A j \in DOMAIN fomos' : ProjectOK(fomos'[j])
    BY <2>1, <2>2 DEF CapInv, ProjectsShown
  <2>4. ProjectsShown'
    BY <2>2, <2>3 DEF CapInv, ProjectsShown, ProjectOK, CapShown
  <2> QED BY <1>1, <1>2, <2>2, <2>4
<1>4. CASE ReplyUpdate(i)
  <2> DEFINE n == fomos[i].replies + 1
             p == [fomos[i] EXCEPT !.replies = n]
  <2>1. /\ i \in DOMAIN fomos /\ fomos' = [fomos EXCEPT ![i] = p]
        /\ replies' = [replies EXCEPT ![i] = @ + 1]
        /\ UNCHANGED <<god, lastSwap, run, trade, router, trades>>
    BY <1>4 DEF ReplyUpdate
  <2>2. ProjectOK(fomos[i])
    BY <2>1 DEF CapInv, ProjectsShown
  <2>3. n \in Nat
    BY <2>2 DEF ProjectOK, Project
  <2> HIDE DEF n
  <2>4. ProjectOK(p)
    BY <2>2, <2>3 DEF ProjectOK, CapShown, Project
  <2> HIDE DEF p
  <2>5. DOMAIN fomos' = DOMAIN fomos /\ \A j \in DOMAIN fomos : ProjectOK(fomos'[j])
    BY <2>1, <2>4 DEF CapInv, ProjectsShown
  <2>6. ProjectsShown'
    BY <2>5 DEF CapInv, ProjectsShown, ProjectOK, CapShown
  <2>7. replies' \in [Fomos -> Nat]
    BY <1>2, <2>1
  <2> QED BY <1>1, <2>1, <2>5, <2>6, <2>7
<1>5. CASE LockPool(i)
  <2>1. /\ UNCHANGED <<launcher, run, trade, moved, failures, replies, trades>>
        /\ locked' = locked \cup {i}
    BY <1>5 DEF LockPool
  <2>2. RunsOK'
    BY <2>1, RunsKept DEF CapInv, launcher
  <2> QED BY <2>1, <2>2 DEF CapInv, ProjectsShown, TradesKnown, LauncherOK, RouterOK, CountsOK,
                            launcher
<1> QED BY <1>3, <1>4, <1>5 DEF ProjectStep

LEMMA CapsStep ==
    ASSUME CapInv, [Next]_vars
    PROVE  CapInv'
<1>1. CASE UNCHANGED vars
  <2>1. RunsOK'
    BY <1>1, RunsKept DEF CapInv, vars, launcher
  <2> QED BY <1>1, <2>1 DEF CapInv, ProjectsShown, TradesKnown, LauncherOK, RouterOK, CountsOK,
                            vars, launcher, router
<1> QED BY <1>1, RunStepCaps, TradeStepCaps, ProjectStepCaps DEF Next

-----------------------------------------------------------------------------
(* The theorems *)

\* However many runs of update_progress overlap, and whichever router calls fail, each DAO
\* is sent its share of a project's liquidity once at most, and never before the project is
\* complete: the run that set the completion time is the only one to lock the project.
\* That no swap is reported is needed, for set_buy_or_sell may write an older record back.
THEOREM SharesAlwaysSentOnce ==
    ASSUME NoTrades
    PROVE  Spec => []ShareSentOnce
<1>1. IInv /\ [Next]_vars => IInv'
  BY SharesStep
<1> QED
  BY <1>1, InitShares, SharesCounted, PTL DEF Spec

\* No reply_update is lost in the records the runs write back after their awaits.
THEOREM RepliesAlwaysCounted ==
    ASSUME NoTrades
    PROVE  Spec => []RepliesCounted
<1>1. IInv /\ RepliesKnown /\ [Next]_vars => IInv' /\ RepliesKnown'
  BY SharesStep, RepliesStep
<1>2. IInv /\ RepliesKnown => RepliesCounted
  BY DEF IInv, Shapes, RepliesKnown, RepliesCounted
<1> QED
  BY <1>1, <1>2, InitShares, InitReplies, PTL DEF Spec

\* However runs of update_progress and reports of set_buy_or_sell interleave, and although
\* both write records they read awaits before, the progress a project shows is that of the
\* market cap it shows.
THEOREM ProgressAlwaysFollowsCap == Spec => []ProgressFollowsCap
<1> QED
  BY InitCaps, CapsStep, CapInvShows, PTL DEF Spec

-----------------------------------------------------------------------------
(* OwnershipTransfer: the fee of a call *)

\* The types the argument needs.
CallsTyped ==
    /\ call \in [Slots -> TransferCall]
    /\ \A c \in Slots : call[c].pc # "idle" => call[c].user \in Users
    /\ balance \in [Users -> Nat]
    /\ allowance \in [Users -> Nat]

\* What a call read is still there.
StillThere(r, owned, allowed) ==
    /\ r.pc \in AfterBalance => owned >= r.balance
    /\ r.pc \in AfterAllowance => allowed >= r.allowance

\* What a call read is enough for the quote it accepted.
Quoted(r) == r.pc \in AfterQuote => r.balance >= r.fee /\ r.allowance >= r.fee

(* The inductive invariant. *)
TransferInv ==
    /\ CallsTyped
    /\ \A c \in Slots : Quoted(call[c])
    /\ \A c \in Slots \ outspent :
          StillThere(call[c], balance[call[c].user], allowance[call[c].user])

LEMMA IdleType ==
    /\ IdleCall \in TransferCall
    /\ IdleCall.pc = "idle"
    /\ "idle" \notin AfterBalance /\ "idle" \notin AfterAllowance /\ "idle" \notin AfterQuote
  BY DEF IdleCall, NewCall, TransferCall, AfterQuote, AfterAllowance, AfterBalance

LEMMA InitHolds == TransferInit => TransferInv
<1> SUFFICES ASSUME TransferInit PROVE TransferInv
  OBVIOUS
<1>1. balance \in [Users -> Nat] /\ allowance \in [Users -> Nat]
  BY TransferAssumption DEF TransferInit
<1> QED
  BY <1>1, IdleType DEF TransferInit, TransferInv, CallsTyped, StillThere, Quoted

\* A call moves from await to await, no funds are taken.
LEMMA CallMoveKeeps ==
    ASSUME TransferInv, NEW c \in Slots, NEW to \in TransferCall,
           call' = [call EXCEPT ![c] = to],
           to.pc # "idle" => to.user \in Users,
           Quoted(to),
           c \notin outspent' => StillThere(to, balance[to.user], allowance[to.user]),
           outspent' \cup {c} = outspent \cup {c},
           UNCHANGED funds
    PROVE  TransferInv'
<1>1. \A d \in Slots : call'[d] = IF d = c THEN to ELSE call[d]
  BY DEF TransferInv, CallsTyped
<1>2. CallsTyped'
  BY <1>1 DEF TransferInv, CallsTyped, funds
<1>3. \A d \in Slots : Quoted(call'[d])
  BY <1>1 DEF TransferInv
<1>4. ASSUME NEW d \in Slots, d \notin outspent'
      PROVE  StillThere(call'[d], balance'[call'[d].user], allowance'[call'[d].user])
  <2>1. balance' = balance /\ allowance' = allowance
    BY DEF funds
  <2>2. CASE d = c
    BY <1>1, <1>4, <2>1, <2>2
  <2>3. CASE d # c
    BY <1>1, <1>4, <2>1, <2>3 DEF TransferInv
  <2> QED BY <2>2, <2>3
<1>5. (\A d \in Slots : Quoted(call[d]))'
  BY <1>3 DEF Quoted
<1>6. (\A d \in Slots \ outspent :
           StillThere(call[d], balance[call[d].user], allowance[call[d].user]))'
  BY <1>4 DEF StillThere
<1> QED
  BY <1>2, <1>5, <1>6 DEF TransferInv

\* The funds of u fall: every call of u that read more is marked, but for those that
\* end with this step.
LEMMA LoweredKeeps ==
    ASSUME TransferInv, NEW u \in Users, NEW owned \in Nat, NEW allowed \in Nat,
           NEW S \in SUBSET Slots, Lowered(u, owned, allowed, Slots \ S),
           \A d \in S : call'[d] = IdleCall,
           \A d \in Slots \ S : call'[d] = call[d],
           call' \in [Slots -> TransferCall]
    PROVE  TransferInv'
<1>1. /\ balance \in [Users -> Nat] /\ balance' = [balance EXCEPT ![u] = owned]
      /\ allowance \in [Users -> Nat] /\ allowance' = [allowance EXCEPT ![u] = allowed]
      /\ call \in [Slots -> TransferCall]
  BY DEF TransferInv, CallsTyped, Lowered
<1>2. CallsTyped'
  <2>1. \A c \in Slots : call'[c].pc # "idle" => call'[c].user \in Users
    BY IdleType DEF TransferInv, CallsTyped
  <2> QED BY <1>1, <2>1 DEF CallsTyped
<1>3. \A d \in Slots : Quoted(call'[d])
  BY IdleType DEF TransferInv, Quoted
<1>4. ASSUME NEW d \in Slots, d \notin outspent'
      PROVE  StillThere(call'[d], balance'[call'[d].user], allowance'[call'[d].user])
  <2>1. CASE d \in S
    BY <2>1, IdleType DEF StillThere
  <2>2. CASE d \notin S /\ call[d].pc \notin AfterBalance
    BY <2>2 DEF StillThere, AfterBalance
  <2>3. CASE d \notin S /\ call[d].pc \in AfterBalance /\ call[d].user # u
    <3>1. d \notin outspent
      BY <1>4 DEF Lowered
    <3>2. call[d].pc # "idle" /\ call[d].user \in Users
      BY <2>3, IdleType DEF TransferInv, CallsTyped
    <3>3. /\ balance'[call[d].user] = balance[call[d].user]
          /\ allowance'[call[d].user] = allowance[call[d].user]
      BY <1>1, <2>3, <3>2
    <3> QED BY <2>3, <3>1, <3>3 DEF TransferInv
  <2>4. CASE d \notin S /\ call[d].pc \in AfterBalance /\ call[d].user = u
    <3>1. d \in CallsOf(u, AfterBalance) \cap (Slots \ S)
      BY <2>4 DEF CallsOf
    <3>2. ~(owned < call[d].balance \/ (call[d].pc \in AfterAllowance /\ allowed < call[d].allowance))
      BY <1>4, <3>1 DEF Lowered
    <3>3. call[d].balance \in Nat /\ call[d].allowance \in Nat
      BY <1>1 DEF TransferCall
    <3>4. balance'[u] = owned /\ allowance'[u] = allowed /\ call'[d] = call[d]
      BY <1>1, <2>4
    <3> QED BY <2>4, <3>2, <3>3, <3>4 DEF StillThere
  <2> QED BY <2>1, <2>2, <2>3, <2>4
<1>5. (\A d \in Slots : Quoted(call[d]))'
  BY <1>3 DEF Quoted
<1>6. (\A d \in Slots \ outspent :
           StillThere(call[d], balance[call[d].user], allowance[call[d].user]))'
  BY <1>4 DEF StillThere
<1> QED
  BY <1>2, <1>5, <1>6 DEF TransferInv

LEMMA QuoteIsInt ==
    ASSUME NEW c \in Slots, NEW price \in Prices
    PROVE  QuoteOf(c, price) \in Int
<1>1. OwnershipFee(price) \in Nat
  BY TransferAssumption DEF OwnershipFee
<1> QED
  BY <1>1 DEF QuoteOf, ChargedFee, MaxFee, MinFee

\* An accepted quote is covered by what was read.
LEMMA QuoteCovered ==
    ASSUME TransferInv, NEW c \in Slots, NEW price \in Prices
    PROVE  Sufficient(c, price) => /\ call[c].allowance >= QuoteOf(c, price)
                                   /\ call[c].balance >= QuoteOf(c, price)
<1>1. call[c].allowance \in Nat
  BY DEF TransferInv, CallsTyped, TransferCall
<1>2. OwnershipFee(price) \in Nat
  BY TransferAssumption DEF OwnershipFee
<1> DEFINE fee == OwnershipFee(price)
<1>3. fee \in Nat /\ QuoteOf(c, price) = ChargedFee(call[c].allowance, fee)
  BY <1>2 DEF QuoteOf
<1>4. Sufficient(c, price) => /\ call[c].allowance >= MinFee(fee)
                              /\ call[c].balance >= QuoteOf(c, price)
  BY DEF Sufficient
<1> HIDE DEF fee
<1>5. MaxFee(fee) \in Int /\ MinFee(fee) \in Int
  BY <1>3 DEF MaxFee, MinFee
<1> QED
  BY <1>1, <1>3, <1>4, <1>5 DEF ChargedFee

\* A step of one call that takes no fee.
LEMMA StepKeeps ==
    ASSUME TransferInv, NEW c \in Slots,
           \/ ReadBalance(c) \/ ReadAllowance(c)
           \/ \E price \in Prices : QuoteAccepted(c, price)
           \/ LauncherApproved(c) \/ ControllersRemoved(c) \/ RemovalAnswered(c)
    PROVE  TransferInv'
<1>1. call[c] \in TransferCall /\ call[c].pc # "idle" /\ call[c].user \in Users
  BY DEF TransferInv, CallsTyped, ReadBalance, ReadAllowance, QuoteAccepted, LauncherApproved,
         ControllersRemoved, RemovalAnswered
<1>2. /\ call \in [Slots -> TransferCall]
      /\ balance[call[c].user] \in Nat /\ allowance[call[c].user] \in Nat
      /\ Quoted(call[c])
      /\ c \notin outspent =>
             StillThere(call[c], balance[call[c].user], allowance[call[c].user])
  BY <1>1 DEF TransferInv, CallsTyped
<1>3. CASE ReadBalance(c)
  <2> DEFINE owned == balance[call[c].user]
             to == [[call[c] EXCEPT !.pc = "allowance"] EXCEPT !.balance = owned]
  <2>1. /\ call' = [call EXCEPT ![c] = to]
        /\ UNCHANGED <<funds, outspent>>
    BY <1>2, <1>3 DEF ReadBalance
  <2>2. /\ to \in TransferCall /\ to.user = call[c].user /\ to.pc = "allowance"
        /\ to.balance = owned
    BY <1>1, <1>2 DEF TransferCall, AfterBalance
  <2> HIDE DEF to
  <2>3. Quoted(to)
    BY <2>2 DEF Quoted, AfterQuote
  <2>4. StillThere(to, balance[to.user], allowance[to.user])
    BY <1>2, <2>2 DEF StillThere, AfterAllowance, AfterQuote
  <2> QED
    BY <1>1, <2>1, <2>2, <2>3, <2>4, CallMoveKeeps
<1>4. CASE ReadAllowance(c)
  <2> DEFINE allowed == allowance[call[c].user]
             to == [[call[c] EXCEPT !.pc = "price"] EXCEPT !.allowance = allowed]
  <2>1. /\ call' = [call EXCEPT ![c] = to]
        /\ call[c].pc = "allowance"
        /\ UNCHANGED <<funds, outspent>>
    BY <1>2, <1>4 DEF ReadAllowance
  <2>2. /\ to \in TransferCall /\ to.user = call[c].user /\ to.pc = "price"
        /\ to.allowance = allowed /\ to.balance = call[c].balance
    BY <1>1, <1>2 DEF TransferCall, AfterBalance, AfterAllowance
  <2> HIDE DEF to
  <2>3. Quoted(to)
    BY <2>2 DEF Quoted, AfterQuote
  <2>4. c \notin outspent => StillThere(to, balance[to.user], allowance[to.user])
    BY <1>2, <2>1, <2>2 DEF StillThere, AfterBalance
  <2> QED
    BY <1>1, <2>1, <2>2, <2>3, <2>4, CallMoveKeeps
<1>5. ASSUME NEW price \in Prices, QuoteAccepted(c, price)
      PROVE  TransferInv'
  <2> DEFINE fee == QuoteOf(c, price)
             to == [[call[c] EXCEPT !.pc = "approve"] EXCEPT !.fee = fee]
  <2>1. fee \in Int /\ call[c].allowance >= fee /\ call[c].balance >= fee
    BY <1>5, QuoteCovered, QuoteIsInt DEF QuoteAccepted
  <2>2. /\ call' = [call EXCEPT ![c] = to]
        /\ call[c].pc = "price"
        /\ UNCHANGED <<funds, outspent>>
    BY <1>2, <1>5 DEF QuoteAccepted
  <2> HIDE DEF fee
  <2>3. /\ to \in TransferCall /\ to.user = call[c].user /\ to.pc = "approve" /\ to.fee = fee
        /\ to.allowance = call[c].allowance /\ to.balance = call[c].balance
    BY <1>1, <2>1 DEF TransferCall, AfterBalance, AfterAllowance, AfterQuote
  <2> HIDE DEF to
  <2>4. Quoted(to)
    BY <2>1, <2>3 DEF Quoted
  <2>5. c \notin outspent => StillThere(to, balance[to.user], allowance[to.user])
    BY <1>2, <2>2, <2>3 DEF StillThere, AfterBalance, AfterAllowance
  <2> QED
    BY <1>1, <2>2, <2>3, <2>4, <2>5, CallMoveKeeps
<1>6. ASSUME NEW pc \in AfterQuote, call[c].pc \in AfterQuote, call' = [call EXCEPT ![c].pc = pc],
             UNCHANGED <<funds, outspent>>
      PROVE  TransferInv'
  <2> DEFINE to == [call[c] EXCEPT !.pc = pc]
  <2>1. call' = [call EXCEPT ![c] = to]
    BY <1>2, <1>6
  <2>2. /\ to \in TransferCall /\ to.user = call[c].user /\ to.pc = pc /\ to.fee = call[c].fee
        /\ to.allowance = call[c].allowance /\ to.balance = call[c].balance
    BY <1>1, <1>6 DEF TransferCall, AfterBalance, AfterAllowance
  <2> HIDE DEF to
  <2>3. Quoted(to)
    BY <1>2, <1>6, <2>2 DEF Quoted
  <2>4. c \notin outspent => StillThere(to, balance[to.user], allowance[to.user])
    BY <1>2, <1>6, <2>2 DEF StillThere, AfterBalance, AfterAllowance
  <2> QED
    BY <1>1, <1>6, <2>1, <2>2, <2>3, <2>4, CallMoveKeeps
<1>7. CASE LauncherApproved(c)
  BY <1>6, <1>7 DEF LauncherApproved, AfterQuote
<1>8. CASE ControllersRemoved(c)
  BY <1>6, <1>8 DEF ControllersRemoved, AfterQuote
<1>9. CASE RemovalAnswered(c)
  BY <1>6, <1>9 DEF RemovalAnswered, AfterQuote
<1> QED
  BY <1>3, <1>4, <1>5, <1>7, <1>8, <1>9

\* A step of one call that ends it, paid or not.
LEMMA EndKeeps ==
    ASSUME TransferInv, NEW c \in Slots,
           QuoteRefused(c) \/ RemovalRejected(c) \/ LedgerCharges(c) \/ LedgerRefuses(c)
    PROVE  TransferInv'
<1>1. call \in [Slots -> TransferCall] /\ call' = [call EXCEPT ![c] = IdleCall]
  BY DEF TransferInv, CallsTyped, QuoteRefused, RemovalRejected, LedgerCharges, LedgerRefuses
<1>2. CASE QuoteRefused(c) \/ RemovalRejected(c) \/ LedgerRefuses(c)
  <2>1. UNCHANGED <<funds, outspent>>
    BY <1>2 DEF QuoteRefused, RemovalRejected, LedgerRefuses
  <2>2. /\ Quoted(IdleCall)
        /\ StillThere(IdleCall, balance[IdleCall.user], allowance[IdleCall.user])
    BY IdleType DEF Quoted, StillThere
  <2> QED
    BY <1>1, <2>1, <2>2, IdleType, CallMoveKeeps
<1>3. CASE LedgerCharges(c)
  <2> DEFINE u == call[c].user
             owned == balance[u] - Due(c)
             allowed == allowance[u] - Due(c)
  <2>1. u \in Users /\ balance[u] \in Nat /\ allowance[u] \in Nat /\ call[c].fee \in Int
    BY <1>1, <1>3 DEF TransferInv, CallsTyped, TransferCall, LedgerCharges
  <2>2. owned \in Nat /\ allowed \in Nat
    BY <1>3, <2>1 DEF LedgerCharges, Due, LedgerFee
  <2>3. /\ Lowered(u, owned, allowed, Slots \ {c})
        /\ \A d \in {c} : call'[d] = IdleCall
        /\ \A d \in Slots \ {c} : call'[d] = call[d]
        /\ call' \in [Slots -> TransferCall]
    BY <1>1, <1>3, IdleType DEF LedgerCharges
  <2> HIDE DEF u, owned, allowed
  <2> QED
    BY <2>1, <2>2, <2>3, LoweredKeeps
<1> QED BY <1>2, <1>3

\* A step of a user at the ledger.
LEMMA LedgerKeeps ==
    ASSUME TransferInv, NEW u \in Users, NEW a \in Amounts,
           Deposit(u, a) \/ Approve(u, a) \/ SpendElsewhere(u, a)
    PROVE  TransferInv'
<1>1. /\ balance \in [Users -> Nat] /\ balance[u] \in Nat
      /\ allowance \in [Users -> Nat] /\ allowance[u] \in Nat /\ a \in Nat
      /\ call' = call /\ call \in [Slots -> TransferCall]
  BY TransferAssumption DEF TransferInv, CallsTyped, Deposit, Approve, SpendElsewhere
<1>2. CASE Deposit(u, a)
  <2>1. balance' = [balance EXCEPT ![u] = balance[u] + a] /\ UNCHANGED <<allowance, outspent>>
    BY <1>2 DEF Deposit
  <2>2. CallsTyped'
    BY <1>1, <2>1 DEF TransferInv, CallsTyped
  <2>3. ASSUME NEW d \in Slots, d \notin outspent
        PROVE  StillThere(call[d], balance'[call[d].user], allowance[call[d].user])
    <3>1. call[d] \in TransferCall /\ call[d].balance \in Nat
      BY <1>1 DEF TransferCall
    <3>2. call[d].pc \in AfterBalance => call[d].user \in Users
      BY IdleType DEF TransferInv, CallsTyped
    <3>3. StillThere(call[d], balance[call[d].user], allowance[call[d].user])
      BY <2>3 DEF TransferInv
    <3>4. call[d].user \in Users => /\ balance[call[d].user] \in Nat
                                    /\ balance'[call[d].user] \in Nat
                                    /\ balance'[call[d].user] >= balance[call[d].user]
      BY <1>1, <2>1
    <3> QED BY <3>1, <3>2, <3>3, <3>4 DEF StillThere
  <2>4. (\A d \in Slots : Quoted(call[d]))'
    BY <1>1 DEF TransferInv, Quoted
  <2>5. (\A d \in Slots \ outspent :
             StillThere(call[d], balance[call[d].user], allowance[call[d].user]))'
    BY <1>1, <2>1, <2>3 DEF StillThere
  <2> QED BY <2>2, <2>4, <2>5 DEF TransferInv
<1>3. ASSUME NEW owned \in Nat, NEW allowed \in Nat, Lowered(u, owned, allowed, Slots)
      PROVE  TransferInv'
  <2> DEFINE S == {}
  <2>1. /\ S \in SUBSET Slots
        /\ Lowered(u, owned, allowed, Slots \ S)
        /\ \A d \in S : call'[d] = IdleCall
        /\ \A d \in Slots \ S : call'[d] = call[d]
        /\ call' \in [Slots -> TransferCall]
    BY <1>1, <1>3
  <2> HIDE DEF S
  <2> QED BY <2>1, LoweredKeeps
<1>4. CASE Approve(u, a)
  <2>1. balance[u] - LedgerFee \in Nat
    BY <1>1, <1>4 DEF Approve, LedgerFee
  <2> QED BY <1>1, <1>3, <1>4, <2>1 DEF Approve
<1>5. CASE SpendElsewhere(u, a)
  <2>1. /\ balance[u] - a - LedgerFee \in Nat
        /\ allowance[u] >= a + LedgerFee => allowance[u] - a - LedgerFee \in Nat
    BY <1>1, <1>5 DEF SpendElsewhere, LedgerFee
  <2> QED BY <1>1, <1>3, <1>5, <2>1 DEF SpendElsewhere
<1> QED BY <1>2, <1>4, <1>5

LEMMA InvStep ==
    ASSUME TransferInv, [TransferNext]_transferVars
    PROVE  TransferInv'
<1>1. ASSUME NEW c \in Slots, NEW u \in Users, NEW t \in Tokens, Request(c, u, t)
      PROVE  TransferInv'
  <2> DEFINE to == NewCall("balance", u, t)
  <2>1. to \in TransferCall /\ to.pc = "balance" /\ to.user = u
    BY DEF NewCall, TransferCall
  <2>2. /\ call' = [call EXCEPT ![c] = to]
        /\ outspent' = outspent \ {c}
        /\ UNCHANGED funds
    BY <1>1 DEF Request
  <2> HIDE DEF to
  <2>3. Quoted(to) /\ StillThere(to, balance[to.user], allowance[to.user])
    BY <2>1 DEF Quoted, StillThere, AfterQuote, AfterAllowance, AfterBalance
  <2> QED
    BY <2>1, <2>2, <2>3, CallMoveKeeps
<1>2. CASE UNCHANGED transferVars
  BY <1>2 DEF transferVars, funds, TransferInv, CallsTyped, StillThere, Quoted
<1> QED
  BY <1>1, <1>2, StepKeeps, EndKeeps, LedgerKeeps DEF TransferNext, Step

-----------------------------------------------------------------------------
(* The funds *)

\* Whatever users do at the ledger meanwhile, a call past its quote finds the fee it was
\* quoted, and the ledger's own fee on top of it if what it read covered both, unless the
\* user's funds fell meanwhile below what it read (get_icp_platform_fee,
\* ownership_transfer): a transfer goes unpaid only by such a race, by a failing call, or
\* because the quote left less than the ledger's fee.
THEOREM QuoteAlwaysHolds == TransferSpec => []QuoteHolds
<1>1. ASSUME TransferInv, NEW c \in Slots, call[c].pc \in AfterQuote, c \notin outspent
      PROVE  LET owned   == balance[call[c].user]
                 allowed == allowance[call[c].user]
             IN  /\ owned >= call[c].fee /\ allowed >= call[c].fee
                 /\ call[c].balance >= Due(c) => owned >= Due(c)
                 /\ call[c].allowance >= Due(c) => allowed >= Due(c)
  <2> DEFINE owned   == balance[call[c].user]
             allowed == allowance[call[c].user]
  <2>1. call[c] \in TransferCall /\ call[c].user \in Users
    BY <1>1, IdleType DEF TransferInv, CallsTyped
  <2>2. /\ owned \in Nat /\ allowed \in Nat
        /\ call[c].balance \in Nat /\ call[c].allowance \in Nat /\ call[c].fee \in Int
    BY <1>1, <2>1 DEF TransferInv, CallsTyped, TransferCall
  <2>3. /\ owned >= call[c].balance /\ allowed >= call[c].allowance
        /\ call[c].balance >= call[c].fee /\ call[c].allowance >= call[c].fee
    BY <1>1 DEF TransferInv, StillThere, Quoted, AfterBalance, AfterAllowance
  <2> HIDE DEF owned, allowed
  <2> QED BY <2>2, <2>3 DEF Due, LedgerFee, owned, allowed
<1>2. TransferInv => QuoteHolds
  BY <1>1 DEF QuoteHolds
<1> QED
  BY <1>2, InitHolds, InvStep, PTL DEF TransferSpec

-----------------------------------------------------------------------------
(* The removals *)

\* The calls whose removal is done and whose fee is not collected yet.
Pending(u) == CallsOf(u, {"removed", "charge"})

TokensOf(u) == {t \in Tokens : DevOf[t] = u}

Balanced(u) == RemovalsBy(u) = charged[u] + unpaid[u] + Cardinality(Pending(u))

RInv ==
    /\ TransferTypes
    /\ \A u \in Users : IsFiniteSet(Pending(u)) /\ Balanced(u)

LEMMA RemovalsAreSum ==
    /\ \A u : RemovalsBy(u) = Sum(handed, TokensOf(u))
    /\ \A u : RemovalsBy(u)' = Sum(handed', TokensOf(u))
<1>1. \A u : RemovalsBy(u) = Sum(handed, TokensOf(u))
  BY DEF RemovalsBy, Sum, TokensOf
<1>2. \A u : RemovalsBy(u)' = Sum(handed', TokensOf(u))
  BY DEF RemovalsBy, Sum, TokensOf, MapThenSumSet, MapThenFoldSet
<1> QED BY <1>1, <1>2

LEMMA TokensFinite == \A u : TokensOf(u) \subseteq Tokens /\ IsFiniteSet(TokensOf(u))
  BY TransferAssumption, FS_Subset DEF TokensOf

LEMMA CountsType ==
    ASSUME TransferTypes,
           \/ UNCHANGED counts
           \/ Counted("calls", MaxCalls)
           \/ Counted("funds", MaxFunds)
           \/ Counted("failures", MaxRejected)
    PROVE  counts' \in [calls : 0..MaxCalls, funds : 0..MaxFunds, failures : 0..MaxRejected]
  BY TransferAssumption DEF TransferTypes, Counted

\* The call of c becomes to: its types, and whether it is pending.
LEMMA CallMoves ==
    ASSUME TransferTypes, NEW c \in Slots, NEW to \in TransferCall, call' = [call EXCEPT ![c] = to],
           to.pc # "idle" => to.token \in Tokens /\ to.user = DevOf[to.token]
    PROVE  /\ call' \in [Slots -> TransferCall]
           /\ \A d \in Slots : call'[d].pc # "idle" => /\ call'[d].token \in Tokens
                                                       /\ call'[d].user = DevOf[call'[d].token]
           /\ \A u : Pending(u)' = IF to.pc \in {"removed", "charge"} /\ to.user = u
                                   THEN Pending(u) \cup {c} ELSE Pending(u) \ {c}
<1>1. call \in [Slots -> TransferCall]
  BY DEF TransferTypes
<1>2. \A d \in Slots : call'[d] = IF d = c THEN to ELSE call[d]
  BY <1>1
<1>3. call' \in [Slots -> TransferCall]
  BY <1>1
<1>4. \A d \in Slots : call'[d].pc # "idle" => /\ call'[d].token \in Tokens
                                               /\ call'[d].user = DevOf[call'[d].token]
  BY <1>2 DEF TransferTypes
<1>5. ASSUME NEW u
      PROVE  Pending(u)' = IF to.pc \in {"removed", "charge"} /\ to.user = u
                           THEN Pending(u) \cup {c} ELSE Pending(u) \ {c}
  BY <1>2 DEF Pending, CallsOf
<1> QED BY <1>3, <1>4, <1>5

\* Nothing is done and nothing is paid.
LEMMA NothingDone ==
    ASSUME RInv, TransferTypes', UNCHANGED <<handed, charged, unpaid>>,
           \A u \in Users : Pending(u)' = Pending(u)
    PROVE  RInv'
  BY RemovalsAreSum DEF RInv, Balanced

\* The call of c moves on without a removal or a payment.
LEMMA MoveBalances ==
    ASSUME RInv, NEW c \in Slots, NEW to \in TransferCall, call' = [call EXCEPT ![c] = to],
           to.pc # "idle" => to.token \in Tokens /\ to.user = DevOf[to.token],
           to.pc \in {"removed", "charge"} <=> call[c].pc \in {"removed", "charge"},
           to.pc \in {"removed", "charge"} => to.user = call[c].user,
           UNCHANGED <<handed, charged, unpaid>>,
           balance' \in [Users -> Nat], allowance' \in [Users -> Nat],
           outspent' \subseteq Slots,
           counts' \in [calls : 0..MaxCalls, funds : 0..MaxFunds, failures : 0..MaxRejected]
    PROVE  RInv'
<1>1. TransferTypes
  BY DEF RInv
<1>2. TransferTypes'
  <2>1. /\ call' \in [Slots -> TransferCall]
        /\ \A d \in Slots : call'[d].pc # "idle" => /\ call'[d].token \in Tokens
                                                    /\ call'[d].user = DevOf[call'[d].token]
    BY <1>1, CallMoves
  <2> QED BY <1>1, <2>1 DEF TransferTypes
<1>3. \A u \in Users : Pending(u)' = Pending(u)
  <2>1. \A u : Pending(u)' = IF to.pc \in {"removed", "charge"} /\ to.user = u
                             THEN Pending(u) \cup {c} ELSE Pending(u) \ {c}
    BY <1>1, CallMoves
  <2>2. \A u : c \in Pending(u) <=> call[c].pc \in {"removed", "charge"} /\ call[c].user = u
    BY DEF Pending, CallsOf
  <2> QED BY <2>1, <2>2
<1> QED BY <1>2, <1>3, NothingDone

\* The removal of c is done: one more of its token, and one more to be paid.
LEMMA RemovalBalances == ASSUME RInv, NEW c \in Slots, ControllersRemoved(c) PROVE RInv'
<1> DEFINE to == [call[c] EXCEPT !.pc = "removed"]
<1>0. PICK t \in Tokens, v \in Users :
          call[c].token = t /\ call[c].user = v /\ v = DevOf[t]
  BY TransferAssumption DEF RInv, TransferTypes, ControllersRemoved
<1>1. /\ TransferTypes /\ call \in [Slots -> TransferCall] /\ call[c] \in TransferCall
      /\ call[c].pc = "remove" /\ handed \in [Tokens -> Nat]
  BY DEF RInv, TransferTypes, ControllersRemoved
<1>2. to \in TransferCall /\ to.pc = "removed" /\ to.user = v /\ to.token = t
  BY <1>0, <1>1 DEF TransferCall, AfterBalance, AfterAllowance, AfterQuote
<1>3. /\ call' = [call EXCEPT ![c] = to]
      /\ handed' = [handed EXCEPT ![t] = handed[t] + 1]
      /\ UNCHANGED <<balance, allowance, charged, unpaid, outspent, counts>>
  BY <1>0, <1>1 DEF ControllersRemoved, funds
<1>4. c \notin Pending(v)
  BY <1>1 DEF Pending, CallsOf
<1> HIDE DEF to
<1>5. TransferTypes' /\ \A u : Pending(u)' = IF v = u THEN Pending(u) \cup {c} ELSE Pending(u) \ {c}
  <2>1. /\ call' \in [Slots -> TransferCall]
        /\ \A d \in Slots : call'[d].pc # "idle" => /\ call'[d].token \in Tokens
                                                    /\ call'[d].user = DevOf[call'[d].token]
        /\ \A u : Pending(u)' = IF to.pc \in {"removed", "charge"} /\ to.user = u
                                THEN Pending(u) \cup {c} ELSE Pending(u) \ {c}
    BY <1>0, <1>1, <1>2, <1>3, CallMoves
  <2>2. handed' \in [Tokens -> Nat]
    BY <1>1, <1>3
  <2>3. TransferTypes'
    BY <1>1, <1>3, <2>1, <2>2 DEF TransferTypes
  <2> QED BY <1>2, <2>1, <2>3
<1>6. ASSUME NEW u \in Users, u # v
      PROVE  IsFiniteSet(Pending(u)') /\ Balanced(u)'
  <2>1. c \notin Pending(u)
    BY <1>0, <1>6 DEF Pending, CallsOf
  <2>2. Pending(u)' = Pending(u)
    BY <1>5, <1>6, <2>1
  <2>3. \A s \in TokensOf(u) : handed[s] = handed'[s]
    BY <1>0, <1>1, <1>3, <1>6 DEF TokensOf
  <2>4. Sum(handed, TokensOf(u)) = Sum(handed', TokensOf(u))
    BY <2>3, TokensFinite, SumSame
  <2> QED BY <1>3, <2>2, <2>4, RemovalsAreSum DEF RInv, Balanced
<1>7. IsFiniteSet(Pending(v)') /\ Balanced(v)'
  <2>1. IsFiniteSet(Pending(v)) /\ Cardinality(Pending(v)) \in Nat
    BY <1>1, FS_CardinalityType DEF RInv
  <2>2. Pending(v)' = Pending(v) \cup {c}
    BY <1>5
  <2>3. /\ IsFiniteSet(Pending(v)')
        /\ Cardinality(Pending(v)') = Cardinality(Pending(v)) + 1
    BY <1>4, <2>1, <2>2, FS_AddElement
  <2>4. t \in TokensOf(v)
    BY <1>0 DEF TokensOf
  <2>5. \A s \in TokensOf(v) : handed[s] \in Int /\ handed'[s] \in Int
    BY <1>1, <1>3, TokensFinite
  <2>6. \A s \in TokensOf(v) \ {t} : handed'[s] = handed[s]
    BY <1>1, <1>3, TokensFinite
  <2>7. Sum(handed', TokensOf(v)) = Sum(handed, TokensOf(v)) + (handed'[t] - handed[t])
    BY <2>4, <2>5, <2>6, TokensFinite, SumChanged
  <2>8. handed'[t] - handed[t] = 1
    BY <1>1, <1>3
  <2>9. charged[v] \in Nat /\ unpaid[v] \in Nat /\ Balanced(v)
    BY <1>1 DEF RInv, TransferTypes
  <2>10. Sum(handed, TokensOf(v)) = charged[v] + unpaid[v] + Cardinality(Pending(v))
    BY <2>9, RemovalsAreSum DEF Balanced
  <2>11. Sum(handed', TokensOf(v)) = charged[v] + unpaid[v] + Cardinality(Pending(v)')
    BY <2>1, <2>3, <2>7, <2>8, <2>9, <2>10
  <2> QED BY <1>3, <2>3, <2>11, RemovalsAreSum DEF Balanced
<1> QED BY <1>5, <1>6, <1>7 DEF RInv

\* A pending call ends, and its removal is counted as paid or as unpaid.
LEMMA SettledBalances ==
    ASSUME RInv, NEW c \in Slots, call[c].pc \in {"removed", "charge"},
           call' = [call EXCEPT ![c] = IdleCall], handed' = handed,
           \/ /\ charged' = [charged EXCEPT ![call[c].user] = @ + 1]
              /\ unpaid' = unpaid
           \/ /\ unpaid' = [unpaid EXCEPT ![call[c].user] = @ + 1]
              /\ charged' = charged,
           balance' \in [Users -> Nat], allowance' \in [Users -> Nat], outspent' \subseteq Slots,
           counts' \in [calls : 0..MaxCalls, funds : 0..MaxFunds, failures : 0..MaxRejected]
    PROVE  RInv'
<1>0. PICK v \in Users : call[c].user = v
  BY TransferAssumption DEF RInv, TransferTypes
<1>1. /\ TransferTypes /\ c \in Pending(v)
      /\ charged \in [Users -> Nat] /\ unpaid \in [Users -> Nat]
  BY <1>0 DEF RInv, TransferTypes, Pending, CallsOf
<1>2. /\ charged' \in [Users -> Nat] /\ unpaid' \in [Users -> Nat]
      /\ charged'[v] + unpaid'[v] = charged[v] + unpaid[v] + 1
      /\ \A u \in Users \ {v} : charged'[u] = charged[u] /\ unpaid'[u] = unpaid[u]
  BY <1>0, <1>1
<1>3. \A u \in Users \ {v} : c \notin Pending(u)
  BY <1>0 DEF Pending, CallsOf
<1>4. TransferTypes' /\ \A u : Pending(u)' = Pending(u) \ {c}
  <2>1. /\ call' \in [Slots -> TransferCall]
        /\ \A d \in Slots : call'[d].pc # "idle" => /\ call'[d].token \in Tokens
                                                    /\ call'[d].user = DevOf[call'[d].token]
        /\ \A u : Pending(u)' = Pending(u) \ {c}
    BY <1>1, IdleType, CallMoves
  <2>2. TransferTypes'
    BY <1>1, <1>2, <2>1 DEF TransferTypes
  <2> QED BY <2>1, <2>2
<1>5. ASSUME NEW u \in Users, u # v
      PROVE  IsFiniteSet(Pending(u)') /\ Balanced(u)'
  <2>1. Pending(u)' = Pending(u)
    BY <1>3, <1>4, <1>5
  <2> QED BY <1>2, <1>5, <2>1, RemovalsAreSum DEF RInv, Balanced
<1>6. IsFiniteSet(Pending(v)') /\ Balanced(v)'
  <2>1. IsFiniteSet(Pending(v)) /\ Cardinality(Pending(v)) \in Nat
    BY <1>1, FS_CardinalityType DEF RInv
  <2>2. Pending(v)' = Pending(v) \ {c}
    BY <1>4
  <2>3. /\ IsFiniteSet(Pending(v)')
        /\ Cardinality(Pending(v)') = Cardinality(Pending(v)) - 1
    BY <1>1, <2>1, <2>2, FS_RemoveElement
  <2>4. charged[v] + unpaid[v] \in Nat /\ charged'[v] + unpaid'[v] \in Nat
    BY <1>1, <1>2
  <2>5. Sum(handed, TokensOf(v)) = charged[v] + unpaid[v] + Cardinality(Pending(v))
    BY <1>1, RemovalsAreSum DEF RInv, Balanced
  <2>6. charged'[v] + unpaid'[v] + Cardinality(Pending(v)')
            = charged[v] + unpaid[v] + Cardinality(Pending(v))
    BY <1>2, <2>1, <2>3, <2>4
  <2> QED BY <2>3, <2>5, <2>6, RemovalsAreSum DEF Balanced
<1> QED BY <1>4, <1>5, <1>6 DEF RInv

LEMMA RemovalsInit == TransferInit => RInv
<1> SUFFICES ASSUME TransferInit PROVE RInv
  OBVIOUS
<1>1. /\ call = [c \in Slots |-> IdleCall] /\ handed = [t \in Tokens |-> 0]
      /\ charged = [u \in Users |-> 0] /\ unpaid = [u \in Users |-> 0]
      /\ balance \in [Users -> Nat] /\ allowance \in [Users -> Nat] /\ outspent = {}
      /\ counts = [calls |-> 0, funds |-> 0, failures |-> 0]
  BY TransferAssumption DEF TransferInit
<1>2. TransferTypes
  BY <1>1, IdleType, TransferAssumption DEF TransferTypes
<1>3. ASSUME NEW u \in Users
      PROVE  IsFiniteSet(Pending(u)) /\ Balanced(u)
  <2>1. Pending(u) = {}
    BY <1>1, IdleType DEF Pending, CallsOf
  <2>2. IsFiniteSet(Pending(u)) /\ Cardinality(Pending(u)) = 0
    BY <2>1, FS_EmptySet
  <2>3. Sum(handed, TokensOf(u)) = 0
    BY <1>1, TokensFinite, SumZero
  <2> QED BY <1>1, <2>2, <2>3, RemovalsAreSum DEF Balanced
<1> QED BY <1>2, <1>3 DEF RInv

LEMMA StepRemovals == ASSUME RInv, NEW c \in Slots, Step(c) PROVE RInv'
<1>1. /\ TransferTypes /\ call \in [Slots -> TransferCall] /\ call[c] \in TransferCall
      /\ balance \in [Users -> Nat] /\ allowance \in [Users -> Nat] /\ outspent \subseteq Slots
  BY DEF RInv, TransferTypes
<1>2. call[c].pc # "idle" => call[c].token \in Tokens /\ call[c].user = DevOf[call[c].token]
  BY DEF RInv, TransferTypes
<1>3. ASSUME NEW to \in TransferCall, call[c].pc # "idle", to.pc # "idle",
             to.user = call[c].user, to.token = call[c].token,
             to.pc \in {"removed", "charge"} <=> call[c].pc \in {"removed", "charge"},
             call' = [call EXCEPT ![c] = to],
             UNCHANGED <<funds, charged, handed, unpaid, outspent, counts>>
      PROVE  RInv'
  <2>1. counts' \in [calls : 0..MaxCalls, funds : 0..MaxFunds, failures : 0..MaxRejected]
    BY <1>1, <1>3, CountsType
  <2>2. /\ to.token \in Tokens /\ to.user = DevOf[to.token]
        /\ balance' \in [Users -> Nat] /\ allowance' \in [Users -> Nat] /\ outspent' \subseteq Slots
    BY <1>1, <1>2, <1>3 DEF funds
  <2> QED BY <1>3, <2>1, <2>2, MoveBalances
<1>4. CASE ReadBalance(c)
  <2> DEFINE owned == balance[call[c].user]
             to == [[call[c] EXCEPT !.pc = "allowance"] EXCEPT !.balance = owned]
  <2>1. owned \in Nat
    BY <1>1, <1>2, <1>4, TransferAssumption DEF ReadBalance
  <2>2. call' = [call EXCEPT ![c] = to]
    BY <1>1, <1>4 DEF ReadBalance
  <2> HIDE DEF owned
  <2>3. /\ to \in TransferCall /\ to.pc = "allowance"
        /\ to.user = call[c].user /\ to.token = call[c].token
    BY <1>1, <2>1 DEF TransferCall, AfterBalance
  <2> HIDE DEF to
  <2> QED BY <1>3, <1>4, <2>2, <2>3 DEF ReadBalance
<1>5. CASE ReadAllowance(c)
  <2> DEFINE allowed == allowance[call[c].user]
             to == [[call[c] EXCEPT !.pc = "price"] EXCEPT !.allowance = allowed]
  <2>1. allowed \in Nat
    BY <1>1, <1>2, <1>5, TransferAssumption DEF ReadAllowance
  <2>2. call' = [call EXCEPT ![c] = to]
    BY <1>1, <1>5 DEF ReadAllowance
  <2> HIDE DEF allowed
  <2>3. /\ to \in TransferCall /\ to.pc = "price"
        /\ to.user = call[c].user /\ to.token = call[c].token
    BY <1>1, <2>1 DEF TransferCall, AfterBalance, AfterAllowance
  <2> HIDE DEF to
  <2> QED BY <1>3, <1>5, <2>2, <2>3 DEF ReadAllowance
<1>6. ASSUME NEW price \in Prices, QuoteAccepted(c, price)
      PROVE  RInv'
  <2> DEFINE fee == QuoteOf(c, price)
             to == [[call[c] EXCEPT !.pc = "approve"] EXCEPT !.fee = fee]
  <2>1. fee \in Int
    BY QuoteIsInt
  <2>2. call' = [call EXCEPT ![c] = to]
    BY <1>1, <1>6 DEF QuoteAccepted
  <2> HIDE DEF fee
  <2>3. /\ to \in TransferCall /\ to.pc = "approve"
        /\ to.user = call[c].user /\ to.token = call[c].token
    BY <1>1, <2>1 DEF TransferCall, AfterBalance, AfterAllowance, AfterQuote
  <2> HIDE DEF to
  <2> QED BY <1>3, <1>6, <2>2, <2>3 DEF QuoteAccepted
<1>7. ASSUME NEW pc \in AfterQuote, call[c].pc # "idle",
             pc \in {"removed", "charge"} <=> call[c].pc \in {"removed", "charge"},
             call' = [call EXCEPT ![c].pc = pc],
             UNCHANGED <<funds, charged, handed, unpaid, outspent, counts>>
      PROVE  RInv'
  <2> DEFINE to == [call[c] EXCEPT !.pc = pc]
  <2>1. /\ to \in TransferCall /\ to.pc = pc /\ pc # "idle"
        /\ to.user = call[c].user /\ to.token = call[c].token
    BY <1>1, <1>7, IdleType DEF TransferCall, AfterBalance, AfterAllowance
  <2>2. call' = [call EXCEPT ![c] = to]
    BY <1>1, <1>7
  <2> HIDE DEF to
  <2> QED BY <1>3, <1>7, <2>1, <2>2
<1>8. CASE LauncherApproved(c)
  BY <1>7, <1>8 DEF LauncherApproved, AfterQuote
<1>9. CASE RemovalAnswered(c)
  BY <1>7, <1>9 DEF RemovalAnswered, AfterQuote
<1>10. CASE QuoteRefused(c) \/ (RemovalRejected(c) /\ call[c].pc = "remove")
  <2>1. /\ call' = [call EXCEPT ![c] = IdleCall]
        /\ call[c].pc \in {"balance", "allowance", "price", "approve", "remove"}
        /\ UNCHANGED <<balance, allowance, charged, handed, unpaid, outspent>>
        /\ UNCHANGED counts \/ Counted("failures", MaxRejected)
    BY <1>10 DEF QuoteRefused, RemovalRejected, funds
  <2>2. counts' \in [calls : 0..MaxCalls, funds : 0..MaxFunds, failures : 0..MaxRejected]
    BY <1>1, <2>1, CountsType
  <2> QED BY <1>1, <2>1, <2>2, IdleType, MoveBalances
<1>11. CASE \/ LedgerCharges(c)
            \/ LedgerRefuses(c)
            \/ RemovalRejected(c) /\ call[c].pc = "removed"
  <2>1. /\ call' = [call EXCEPT ![c] = IdleCall] /\ handed' = handed
        /\ call[c].pc \in {"removed", "charge"}
        /\ \/ /\ charged' = [charged EXCEPT ![call[c].user] = @ + 1]
              /\ unpaid' = unpaid
           \/ /\ unpaid' = [unpaid EXCEPT ![call[c].user] = @ + 1]
              /\ charged' = charged
        /\ UNCHANGED counts \/ Counted("failures", MaxRejected)
    BY <1>11 DEF LedgerCharges, LedgerRefuses, RemovalRejected
  <2>2. counts' \in [calls : 0..MaxCalls, funds : 0..MaxFunds, failures : 0..MaxRejected]
    BY <1>1, <2>1, CountsType
  <2>3. call[c].user \in Users
    BY <1>2, <2>1, TransferAssumption
  <2>4. balance' \in [Users -> Nat] /\ allowance' \in [Users -> Nat] /\ outspent' \subseteq Slots
    <3>1. CASE LedgerCharges(c)
      <4> DEFINE u == call[c].user
      <4>1. balance[u] \in Nat /\ allowance[u] \in Nat /\ call[c].fee \in Int
        BY <1>1, <2>3 DEF TransferCall
      <4>2. balance[u] - Due(c) \in Nat /\ allowance[u] - Due(c) \in Nat
        BY <3>1, <4>1 DEF LedgerCharges, Due, LedgerFee
      <4>3. Lowered(u, balance[u] - Due(c), allowance[u] - Due(c), Slots \ {c})
        BY <3>1 DEF LedgerCharges
      <4> HIDE DEF u
      <4> QED BY <1>1, <4>2, <4>3 DEF Lowered, CallsOf
    <3>2. CASE LedgerRefuses(c) \/ RemovalRejected(c)
      BY <1>1, <3>2 DEF LedgerRefuses, RemovalRejected, funds
    <3> QED BY <1>11, <3>1, <3>2
  <2> QED BY <2>1, <2>2, <2>4, SettledBalances
<1>12. CASE ControllersRemoved(c)
  BY <1>12, RemovalBalances
<1>13. RemovalRejected(c) => call[c].pc \in {"remove", "removed"}
  BY DEF RemovalRejected
<1> QED BY <1>4, <1>5, <1>6, <1>8, <1>9, <1>10, <1>11, <1>12, <1>13 DEF Step

LEMMA RemovalsStep == ASSUME RInv, [TransferNext]_transferVars PROVE RInv'
<1>1. /\ TransferTypes /\ call \in [Slots -> TransferCall]
      /\ balance \in [Users -> Nat] /\ allowance \in [Users -> Nat] /\ outspent \subseteq Slots
  BY DEF RInv, TransferTypes
<1>2. CASE \E c \in Slots : Step(c)
  BY <1>2, StepRemovals
<1>3. ASSUME NEW c \in Slots, NEW u \in Users, NEW t \in Tokens, Request(c, u, t)
      PROVE  RInv'
  <2> DEFINE to == NewCall("balance", u, t)
  <2>1. to \in TransferCall /\ to.pc = "balance" /\ to.user = u /\ to.token = t
    BY DEF NewCall, TransferCall
  <2>2. /\ call' = [call EXCEPT ![c] = to] /\ call[c].pc = "idle" /\ DevOf[t] = u
        /\ outspent' \subseteq Slots
        /\ UNCHANGED <<balance, allowance, charged, handed, unpaid>>
        /\ Counted("calls", MaxCalls)
    BY <1>1, <1>3 DEF Request, funds
  <2> HIDE DEF to
  <2>3. counts' \in [calls : 0..MaxCalls, funds : 0..MaxFunds, failures : 0..MaxRejected]
    BY <1>1, <2>2, CountsType
  <2> QED BY <1>1, <2>1, <2>2, <2>3, MoveBalances
<1>4. ASSUME call' = call, UNCHANGED <<charged, handed, unpaid>>,
             balance' \in [Users -> Nat], allowance' \in [Users -> Nat], outspent' \subseteq Slots,
             counts' \in [calls : 0..MaxCalls, funds : 0..MaxFunds, failures : 0..MaxRejected]
      PROVE  RInv'
  <2>1. TransferTypes'
    BY <1>1, <1>4 DEF TransferTypes
  <2>2. \A u \in Users : Pending(u)' = Pending(u)
    BY <1>4 DEF Pending, CallsOf
  <2> QED BY <1>4, <2>1, <2>2, NothingDone
<1>5. ASSUME NEW u \in Users, NEW a \in Amounts,
             Deposit(u, a) \/ Approve(u, a) \/ SpendElsewhere(u, a)
      PROVE  RInv'
  <2>1. /\ call' = call /\ UNCHANGED <<charged, handed, unpaid>>
        /\ Counted("funds", MaxFunds)
    BY <1>5 DEF Deposit, Approve, SpendElsewhere
  <2>2. counts' \in [calls : 0..MaxCalls, funds : 0..MaxFunds, failures : 0..MaxRejected]
    BY <1>1, <2>1, CountsType
  <2>3. balance[u] \in Nat /\ allowance[u] \in Nat /\ a \in Nat
    BY <1>1, TransferAssumption
  <2>4. ASSUME NEW owned \in Nat, NEW allowed \in Nat, Lowered(u, owned, allowed, Slots)
        PROVE  /\ balance' \in [Users -> Nat] /\ allowance' \in [Users -> Nat]
               /\ outspent' \subseteq Slots
    BY <1>1, <2>4 DEF Lowered, CallsOf
  <2>5. CASE Deposit(u, a)
    <3>1. balance' \in [Users -> Nat] /\ allowance' \in [Users -> Nat] /\ outspent' \subseteq Slots
      BY <1>1, <2>3, <2>5 DEF Deposit
    <3> QED BY <1>4, <2>1, <2>2, <3>1
  <2>6. CASE Approve(u, a)
    <3>1. balance[u] - LedgerFee \in Nat
      BY <2>3, <2>6 DEF Approve, LedgerFee
    <3>2. Lowered(u, balance[u] - LedgerFee, a, Slots)
      BY <2>6 DEF Approve
    <3> QED BY <1>4, <2>1, <2>2, <2>3, <2>4, <3>1, <3>2
  <2>7. CASE SpendElsewhere(u, a)
    <3>1. /\ balance[u] - a - LedgerFee \in Nat
          /\ allowance[u] >= a + LedgerFee => allowance[u] - a - LedgerFee \in Nat
      BY <2>3, <2>7 DEF SpendElsewhere, LedgerFee
    <3>2. \E owned, allowed \in Nat : Lowered(u, owned, allowed, Slots)
      BY <2>3, <2>7, <3>1 DEF SpendElsewhere
    <3> QED BY <1>4, <2>1, <2>2, <2>4, <3>2
  <2> QED BY <1>5, <2>5, <2>6, <2>7
<1>6. CASE UNCHANGED transferVars
  <2>1. counts' \in [calls : 0..MaxCalls, funds : 0..MaxFunds, failures : 0..MaxRejected]
    BY <1>1, <1>6, CountsType DEF transferVars
  <2> QED BY <1>1, <1>4, <1>6, <2>1 DEF transferVars, funds
<1> QED BY <1>2, <1>3, <1>5, <1>6 DEF TransferNext

\* The state keeps its types; and however calls of a developer interleave and fail, the
\* removals of his tokens are the ones paid, the ones that went unpaid and the ones whose
\* fee is about to be collected (the order of the calls in ownership_transfer).
THEOREM RemovalsAlwaysAccounted == TransferSpec => []RemovalsAccounted
<1>1. RInv => RemovalsAccounted
  BY DEF RInv, Balanced, Pending, RemovalsAccounted
<1> QED
  BY <1>1, RemovalsInit, RemovalsStep, PTL DEF TransferSpec

=============================================================================
