-------------------------- MODULE LauncherProgress --------------------------
(***************************************************************************)
(* How the launcher follows the market of its projects                     *)
(* (fomowell-launcher/src/main.rs): update_progress, run by a timer and by *)
(* anyone who calls it, set_buy_or_sell, reported by the frontend after a  *)
(* swap, reply_update, sent by the project canisters, and lock_pool.       *)
(*                                                                         *)
(* A project whose market cap reaches 5000 USD has completed its progress: *)
(* its liquidity is shared with the chosen DAOs and the pool is locked.    *)
(* The oracle, the router and the swap index are other canisters, every    *)
(* call to them an await between which the other handlers run.             *)
(*                                                                         *)
(* A time is modelled by whether it is set; a market cap in whole USD.     *)
(***************************************************************************)
EXTENDS Integers, FiniteSets

CONSTANTS
    Fomos,          \* the indices projects may get, 1, 2, ...
    Runs,           \* slots for update_progress runs in flight
    Trades,         \* slots for set_buy_or_sell calls in flight
    Caps,           \* market caps the oracle and the pools may show
    DaoLocks,       \* the DAO choices a project may be created with
    Timestamps,     \* times of the swaps that may be reported
    MaxTrades,      \* bound: set_buy_or_sell calls
    MaxReplies,     \* bound: replies per project
    MaxFailures     \* bound: rejected calls to the router

ASSUME ProgressAssumption ==
    /\ Fomos \subseteq Nat \ {0}
    /\ Caps \subseteq Nat
    /\ Timestamps \subseteq Nat \ {0}
    /\ DaoLocks \subseteq [sneed : BOOLEAN, dogmi : BOOLEAN]
    /\ MaxTrades \in Nat
    /\ MaxReplies \in Nat
    /\ MaxFailures \in Nat

VARIABLES
    fomos,      \* FOMO_PROJECT_MAP: index -> project
    god,        \* god_of_wells_idx
    lastSwap,   \* swap time of last_buy_sell_op, 0 for None
    run,        \* the update_progress runs in flight
    trade,      \* the set_buy_or_sell calls in flight
    moved,      \* router: LP shares sent to each DAO, per project
    locked,     \* router: the projects whose pool is locked
    replies,    \* history: reply_update calls per project
    trades,     \* number of set_buy_or_sell calls (bound)
    failures    \* number of rejected calls (bound)

launcher == <<fomos, god, lastSwap>>
router   == <<moved, locked, failures>>
vars     == <<launcher, run, trade, router, replies, trades>>

-----------------------------------------------------------------------------
(* Data *)

Full    == 10000
GoalUSD == 5000
Daos    == {"sneed", "dogmi"}

Project == [cap : Nat, progress : Nat, done : BOOLEAN,
            god_progress : Nat, god_time : BOOLEAN,
            replies : Nat, sneed : BOOLEAN, dogmi : BOOLEAN]

NewProject(daos) ==
    [cap |-> 0, progress |-> 0, done |-> FALSE, god_progress |-> 0,
     god_time |-> FALSE, replies |-> 0, sneed |-> daos.sneed, dogmi |-> daos.dogmi]

Put(f, k, v) == [x \in DOMAIN f \cup {k} |-> IF x = k THEN v ELSE f[x]]

\* The progress of a market cap before it is cut off at 10000.
RawProgress(cap) == (cap * Full) \div GoalUSD

CutOff(n) == IF n > Full THEN Full ELSE n

\* Who may become the god of wells with this market cap.
Candidate(cap, max, done, god_time) ==
    /\ cap > max
    /\ \/ RawProgress(cap) <= Full /\ ~done
       \/ RawProgress(cap) >= Full /\ ~god_time

\* The progress towards the god of wells: once full it stays full, and the
\* time is set when it becomes full.
GodProgress(p, cap, max) ==
    IF max = 0 THEN [p EXCEPT !.god_progress = 0]
    ELSE IF p.god_progress < Full THEN
        LET next == (cap * Full) \div max
        IN  [p EXCEPT !.god_progress = CutOff(next),
                      !.god_time = p.god_time \/ next >= Full]
    ELSE [p EXCEPT !.god_progress = Full,
                   !.god_time = p.god_time \/ p.god_progress = Full]

-----------------------------------------------------------------------------
(* update_progress *)

NoCaps == [i \in {} |-> 0]

\* `todo' is the part of the snapshot not yet asked about, `caps' the HashMap
\* of the answers, `best' the candidate so far; then `current' and `call' are
\* the project and the router call awaited, `queue' the projects still to lock.
IdleRun == [pc |-> "idle", todo |-> {}, snapshot |-> NoCaps, caps |-> NoCaps,
            max |-> 0, best |-> 0, queue |-> {}, current |-> 0, call |-> "lock"]

SnapshotItem(i) == [done |-> fomos[i].done, god_time |-> fomos[i].god_time]

\* The map is iterated by index, and asked about in that order.
NextItem(r) == CHOOSE i \in r.todo : \A j \in r.todo : i <= j

\* One answer of the oracle: the candidate is chosen by the project as it was
\* in the snapshot.
Answered(r, cap) ==
    LET i == NextItem(r)
        better == Candidate(cap, r.max, r.snapshot[i].done, r.snapshot[i].god_time)
    IN  [r EXCEPT !.todo = @ \ {i},
                  !.caps = Put(@, i, cap),
                  !.max  = IF better THEN cap ELSE @,
                  !.best = IF better THEN i ELSE @]

\* Faulty: the project is written with a literal that resets the replies.
SyncedFromScratch(p, cap, max) ==
    [p EXCEPT !.progress = CutOff(RawProgress(cap)), !.cap = cap, !.replies = 0]

\* A project after the run: the record is read again, so what the other
\* handlers wrote during the awaits is kept.
Synced(p, cap, max) ==
    LET q == [p EXCEPT !.progress = CutOff(RawProgress(cap)), !.cap = cap]
    IN  [GodProgress(q, cap, max) EXCEPT !.done = p.done \/ q.progress = Full]

Sync(r) ==
    /\ god' = r.best
    /\ fomos' = [i \in DOMAIN fomos |->
                    IF i \in DOMAIN r.caps THEN Synced(fomos[i], r.caps[i], r.max)
                                           ELSE fomos[i]]

\* Faulty: the completion time is not looked at.
CompletingAgain(r) ==
    {i \in DOMAIN fomos \cap DOMAIN r.caps : CutOff(RawProgress(r.caps[i])) = Full}

\* The projects that complete their progress in this run, and are to be locked.
Completing(r) ==
    {i \in DOMAIN fomos \cap DOMAIN r.caps :
        CutOff(RawProgress(r.caps[i])) = Full /\ ~fomos[i].done}

FirstCall(p) == IF p.sneed THEN "sneed" ELSE IF p.dogmi THEN "dogmi" ELSE "lock"

CallAfter(p, call) == IF call = "sneed" /\ p.dogmi THEN "dogmi" ELSE "lock"

\* Faulty: the loop ends with the first project.
NextTurnStops(queue) ==
    IF queue = {} THEN {IdleRun}
    ELSE {[IdleRun EXCEPT !.pc = "locking", !.current = i,
                          !.call = FirstCall(fomos[i])] : i \in queue}

\* The next turn of the locking loop.  The list was filled in the order of a
\* HashMap, that is, in any order.
NextTurn(queue) ==
    IF queue = {} THEN {IdleRun}
    ELSE {[IdleRun EXCEPT !.pc = "locking", !.queue = queue \ {i},
                          !.current = i, !.call = FirstCall(fomos[i])] : i \in queue}

\* Without projects nothing is awaited.
UpdateNothing(r) ==
    /\ run[r].pc = "idle"
    /\ DOMAIN fomos = {}
    /\ god' = 0
    /\ UNCHANGED <<fomos, lastSwap, run, trade, router, replies, trades>>

StartUpdate(r) ==
    /\ run[r].pc = "idle"
    /\ DOMAIN fomos # {}
    /\ run' = [run EXCEPT ![r] =
                  [IdleRun EXCEPT !.pc = "asking", !.todo = DOMAIN fomos,
                                  !.snapshot = [i \in DOMAIN fomos |-> SnapshotItem(i)]]]
    /\ UNCHANGED <<launcher, trade, router, replies, trades>>

\* market_cap_batch answers (external); an error counts as a cap of 0.
OracleAnswers(r, cap) ==
    /\ run[r].pc = "asking"
    /\ Cardinality(run[r].todo) > 1
    /\ run' = [run EXCEPT ![r] = Answered(@, cap)]
    /\ UNCHANGED <<launcher, trade, router, replies, trades>>

\* The last answer: the rest up to the first router call is one segment.
OracleAnswersLast(r, cap) ==
    LET answered == Answered(run[r], cap)
    IN  /\ run[r].pc = "asking"
        /\ Cardinality(run[r].todo) = 1
        /\ Sync(answered)
        /\ \E turn \in NextTurn(Completing(answered)) : run' = [run EXCEPT ![r] = turn]
        /\ UNCHANGED <<lastSwap, trade, router, replies, trades>>

\* The loop goes on to the next call, or to the next project.
LoopGoesOn(r) ==
    IF run[r].call = "lock"
    THEN \E turn \in NextTurn(run[r].queue) : run' = [run EXCEPT ![r] = turn]
    ELSE run' = [run EXCEPT ![r].call = CallAfter(fomos[run[r].current], @)]

\* transferLiquidity is carried out by the router (external).
RouterTransfers(r) ==
    /\ run[r].pc = "locking"
    /\ run[r].call \in Daos
    /\ moved' = [moved EXCEPT ![run[r].current][run[r].call] = @ + 1]
    /\ LoopGoesOn(r)
    /\ UNCHANGED <<launcher, trade, locked, failures, replies, trades>>

\* lockLiquidity is carried out by the router (external).
RouterLocks(r) ==
    /\ run[r].pc = "locking"
    /\ run[r].call = "lock"
    /\ locked' = locked \cup {run[r].current}
    /\ LoopGoesOn(r)
    /\ UNCHANGED <<launcher, trade, moved, failures, replies, trades>>

Failure == failures < MaxFailures /\ failures' = failures + 1

\* The router answers with an error of its own, or refuses to lock: the code
\* looks at neither result, and goes on.
RouterErrs(r) ==
    /\ run[r].pc = "locking"
    /\ Failure
    /\ LoopGoesOn(r)
    /\ UNCHANGED <<launcher, trade, moved, locked, replies, trades>>

\* A transferLiquidity call is rejected: throw_call_res panics, and with it
\* goes the rest of the list.
RouterRejects(r) ==
    /\ run[r].pc = "locking"
    /\ run[r].call \in Daos
    /\ Failure
    /\ run' = [run EXCEPT ![r] = IdleRun]
    /\ UNCHANGED <<launcher, trade, moved, locked, replies, trades>>

-----------------------------------------------------------------------------
(* set_buy_or_sell *)

IdleTrade == [pc |-> "idle", idx |-> 0, v |-> NewProject([sneed |-> FALSE, dogmi |-> FALSE]),
              god_time |-> FALSE, time |-> 0]

\* The project is read, and the status of the swap awaited.
SetBuyOrSell(c, k) ==
    /\ trade[c].pc = "idle"
    /\ k \in DOMAIN fomos
    /\ trades < MaxTrades
    /\ trades' = trades + 1
    /\ trade' = [trade EXCEPT ![c] = [IdleTrade EXCEPT !.pc = "status", !.idx = k,
                                                       !.v = fomos[k]]]
    /\ UNCHANGED <<launcher, run, router, replies>>

\* querySwapStatus answers: an older swap than the last one is refused.  The
\* project is read a second time, and the pool, the price and the supply are
\* awaited; nothing is read or written between these three.
SwapAccepted(c, time) ==
    /\ trade[c].pc = "status"
    /\ lastSwap <= time
    /\ trade' = [trade EXCEPT ![c].pc = "price", ![c].time = time,
                              ![c].god_time = fomos[trade[c].idx].god_time]
    /\ UNCHANGED <<launcher, run, router, replies, trades>>

\* The swap is too old or did not succeed, or a call fails: a panic.
TradeFails(c) ==
    /\ trade[c].pc # "idle"
    /\ trade' = [trade EXCEPT ![c] = IdleTrade]
    /\ UNCHANGED <<launcher, run, router, replies, trades>>

GodCap == IF god \in DOMAIN fomos THEN fomos[god].cap ELSE 0

\* Faulty: the progress is written without the market cap.
TradeWrittenWithoutCap(t, cap) ==
    GodProgress([t.v EXCEPT !.progress = CutOff(RawProgress(cap))], cap, GodCap)

\* The last answer: the record of the first read is written back.
TradeWritten(t, cap) ==
    GodProgress([t.v EXCEPT !.progress = CutOff(RawProgress(cap)), !.cap = cap], cap, GodCap)

WriteTrade(c, cap) ==
    LET t == trade[c]
    IN  /\ t.pc = "price"
        /\ lastSwap' = t.time
        /\ god' = IF Candidate(cap, GodCap, t.v.done, t.god_time) THEN t.idx ELSE god
        /\ fomos' = Put(fomos, t.idx, TradeWritten(t, cap))
        /\ trade' = [trade EXCEPT ![c] = IdleTrade]
        /\ UNCHANGED <<run, router, replies, trades>>

-----------------------------------------------------------------------------
(* The other handlers *)

\* create_fomo's last segment registers a project.
NewFomo(i, daos) ==
    /\ i \notin DOMAIN fomos
    /\ fomos' = Put(fomos, i, NewProject(daos))
    /\ UNCHANGED <<god, lastSwap, run, trade, router, replies, trades>>

ReplyUpdate(i) ==
    /\ i \in DOMAIN fomos
    /\ replies[i] < MaxReplies
    /\ fomos' = [fomos EXCEPT ![i].replies = @ + 1]
    /\ replies' = [replies EXCEPT ![i] = @ + 1]
    /\ UNCHANGED <<god, lastSwap, run, trade, router, trades>>

\* The owner asks the router to lock a pool; the launcher keeps no trace of it.
LockPool(i) ==
    /\ i \in DOMAIN fomos
    /\ locked' = locked \cup {i}
    /\ UNCHANGED <<launcher, run, trade, moved, failures, replies, trades>>

-----------------------------------------------------------------------------
(* The specification *)

Init ==
    /\ fomos = [i \in {} |-> 0]
    /\ god = 1
    /\ lastSwap = 0
    /\ run = [r \in Runs |-> IdleRun]
    /\ trade = [c \in Trades |-> IdleTrade]
    /\ moved = [i \in Fomos |-> [d \in Daos |-> 0]]
    /\ locked = {}
    /\ replies = [i \in Fomos |-> 0]
    /\ trades = 0
    /\ failures = 0

\* The answers of the calls a run awaits.
RunProgress(r) ==
    \/ \E cap \in Caps : OracleAnswers(r, cap)
    \/ \E cap \in Caps : OracleAnswersLast(r, cap)
    \/ RouterTransfers(r)
    \/ RouterLocks(r)
    \/ RouterErrs(r)
    \/ RouterRejects(r)

TradeStep(c) ==
    \/ \E k \in Fomos : SetBuyOrSell(c, k)
    \/ \E time \in Timestamps : SwapAccepted(c, time)
    \/ TradeFails(c)
    \/ \E cap \in Caps : WriteTrade(c, cap)

ProjectStep(i) ==
    \/ \E daos \in DaoLocks : NewFomo(i, daos)
    \/ ReplyUpdate(i)
    \/ LockPool(i)

Next ==
    \/ \E r \in Runs : UpdateNothing(r) \/ StartUpdate(r) \/ RunProgress(r)
    \/ \E c \in Trades : TradeStep(c)
    \/ \E i \in Fomos : ProjectStep(i)

Spec == Init /\ [][Next]_vars

\* The subnet delivers every answer a run awaits.
Fairness == \A r \in Runs : WF_vars(RunProgress(r))

LiveSpec == Spec /\ Fairness

-----------------------------------------------------------------------------
(* Properties *)

\* A run in flight, and the parts of its maps.
RunOK(r) ==
    /\ r.pc \in {"idle", "asking", "locking"}
    /\ r.todo \subseteq DOMAIN r.snapshot
    /\ DOMAIN r.snapshot \subseteq DOMAIN fomos
    /\ \A i \in DOMAIN r.snapshot :
           r.snapshot[i] \in [done : BOOLEAN, god_time : BOOLEAN]
    /\ DOMAIN r.caps \subseteq DOMAIN fomos
    /\ \A i \in DOMAIN r.caps : r.caps[i] \in Nat
    /\ r.max \in Nat
    /\ r.best \in Fomos \cup {0}
    /\ r.queue \subseteq DOMAIN fomos
    /\ r.current \in DOMAIN fomos \cup {0}
    /\ r.pc = "locking" => r.current \in DOMAIN fomos
    /\ r.call \in Daos \cup {"lock"}

Trade == [pc : {"idle", "status", "price"}, idx : Fomos \cup {0}, v : Project,
          god_time : BOOLEAN, time : Timestamps \cup {0}]

\* The types; both progress figures stay within 0..10000.
TypeOK ==
    /\ DOMAIN fomos \subseteq Fomos
    /\ \A i \in DOMAIN fomos : /\ fomos[i] \in Project
                               /\ fomos[i].progress <= Full
                               /\ fomos[i].god_progress <= Full
    /\ god \in Fomos \cup {0, 1}
    /\ lastSwap \in Timestamps \cup {0}
    /\ \A r \in Runs : RunOK(run[r])
    /\ trade \in [Trades -> Trade]
    /\ moved \in [Fomos -> [Daos -> Nat]]
    /\ locked \subseteq Fomos
    /\ replies \in [Fomos -> Nat]
    /\ trades \in 0..MaxTrades
    /\ failures \in 0..MaxFailures

\* The types; and the progress shown is the one of the market cap shown, whichever
\* handlers wrote them in whichever order (update_progress, set_buy_or_sell).
ProgressFollowsCap ==
    /\ TypeOK
    /\ \A i \in DOMAIN fomos :
           fomos[i].progress = (IF fomos[i].cap >= GoalUSD THEN Full ELSE 2 * fomos[i].cap)

\* The shares run r may still send to the DAO d for project i.
Sending(r, i, d) ==
    /\ run[r].pc = "locking"
    /\ \/ i \in run[r].queue
       \/ run[r].current = i /\ (run[r].call = d \/ run[r].call = "sneed")

\* Each DAO gets its share of a project's liquidity at most once, and none
\* before the project is complete, even when runs overlap (update_progress).
ShareSentOnce ==
    \A i \in DOMAIN fomos, d \in Daos :
        LET sends == moved[i][d] + Cardinality({r \in Runs : Sending(r, i, d)})
        IN  sends <= (IF fomos[i].done THEN 1 ELSE 0)

\* Every reply_update is counted in the record the runs write back.
RepliesCounted == \A i \in DOMAIN fomos : fomos[i].replies = replies[i]

\* When no call to the router fails, the pool of a completed project is locked
\* in the end, and its DAOs have got their shares.
CompletedIsLocked ==
    \A i \in Fomos :
        (i \in DOMAIN fomos /\ fomos[i].done) ~>
            /\ i \in locked
            /\ fomos[i].sneed => moved[i]["sneed"] > 0
            /\ fomos[i].dogmi => moved[i]["dogmi"] > 0

\* main.rs:351 says of set_buy_or_sell that it does not change
\* pool_progress_done_time.
TradesKeepCompletion ==
    [][\A c \in Trades : \A cap \in Caps :
          WriteTrade(c, cap) => \A i \in DOMAIN fomos : fomos'[i].done = fomos[i].done]_vars

=============================================================================
