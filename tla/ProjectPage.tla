----------------------------- MODULE ProjectPage -----------------------------
(***************************************************************************)
(* What the page of a project shows of other canisters                     *)
(* (pages/ICPInfo/ICPInfo.tsx).  The address names the project; the page   *)
(* looks it up, twice at first, and every answer starts the readings of    *)
(* its cycles, its pool, the controllers of its token and the balances of  *)
(* the user.  A trade and a transfer of the ownership read again, for the  *)
(* project of the render they were clicked in.  The page stays mounted     *)
(* when the address changes.  The readings of different kinds share the    *)
(* lookups only, so a behaviour follows one kind.                          *)
(***************************************************************************)
EXTENDS Naturals

CONSTANTS
    Wells, FirstWell, NoWell,
    LowCycles,    \* the canisters of each project that are low on cycles
    MaxBatches,   \* bound: lookups and readings
    MaxPageFaults \* bound: calls rejected

ASSUME ProjectPageAssumption ==
    /\ FirstWell \in Wells /\ NoWell \notin Wells
    /\ LowCycles \in [Wells -> SUBSET {"fomo", "token", "pool"}]
    /\ MaxBatches \in Nat \ {0, 1} /\ MaxPageFaults \in Nat

VARIABLES
    pgKind,    \* the kind of reading this behaviour follows
    pgAddress, \* fomo_pid of the address
    pgShown,   \* curFomoInfo
    pgCard,    \* the project whose cycles, pool or balances are shown
    pgLow,     \* showaddcylesimg: the canisters marked as low
    pgIcon,    \* issneedicon, isfireicon: the token was given away
    pgLocked,  \* tabRefSell: the project whose empty pool locked the tab, or none
    pgBatches, \* the lookups and readings, in the order they started
    pgTask,    \* the trade or transfer of the user that is under way
    pgWells,   \* outside: projects with ICP in the pool, and those given away
    pgFaults,
    pgPast     \* history: whether a lookup failed, a reading failed, an answer came late

pgVars == <<pgKind, pgAddress, pgShown, pgCard, pgLow, pgIcon, pgLocked, pgBatches, pgTask,
            pgWells, pgFaults, pgPast>>

\* The name of the creator, the market cap to beat and the holders are read and shown like
\* the pool.
ReadKinds == {"cycles", "pool", "owners", "balance"}
SomeWell == Wells \cup {NoWell}

\* filled, given: the state of project "of" when the reading started.
Batch == [pc : {"idle", "asked", "reading", "over"}, of : SomeWell, filled : BOOLEAN,
          given : BOOLEAN]
NoBatch == [pc |-> "idle", of |-> NoWell, filled |-> FALSE, given |-> FALSE]
BatchOver == [NoBatch EXCEPT !.pc = "over"]
Batches == 1 .. MaxBatches

\* of, address: curFomoInfo and fomo_pid in the render of the click.
NoTask == [pc |-> "none", of |-> NoWell, address |-> NoWell]

ProjectTypes ==
    /\ pgKind \in ReadKinds
    /\ pgAddress \in Wells /\ {pgShown, pgCard, pgLocked} \subseteq SomeWell
    /\ pgLow \subseteq {"fomo", "token", "pool"} /\ pgIcon \in BOOLEAN
    /\ pgBatches \in [Batches -> Batch]
    /\ pgTask \in [pc : {"none", "swap", "poll", "give"}, of : SomeWell, address : SomeWell]
    /\ pgWells \in [filled : SUBSET Wells, given : SUBSET Wells]

Lookup(w) == [NoBatch EXCEPT !.pc = "asked", !.of = w]

\* A reading of some kinds, if the one followed is among them.
ReadingOf(w, kinds) ==
    IF pgKind \in kinds
    THEN [pc |-> "reading", of |-> w, filled |-> w \in pgWells.filled, given |-> w \in pgWells.given]
    ELSE BatchOver

\* The first effect and that on fomo_pid both look the project up.
ProjectInit ==
    /\ pgKind \in ReadKinds
    /\ pgAddress = FirstWell
    /\ pgShown = NoWell /\ pgCard = NoWell /\ pgLocked = NoWell
    /\ pgLow = {} /\ pgIcon = FALSE
    /\ pgBatches = [b \in Batches |-> IF b <= 2 THEN Lookup(FirstWell) ELSE NoBatch]
    /\ pgTask = NoTask
    /\ pgWells \in [filled : IF pgKind = "pool" THEN SUBSET Wells ELSE {Wells},
                    given : IF pgKind = "owners" THEN SUBSET Wells ELSE {{}}]
    /\ pgFaults = 0
    /\ pgPast = [nowhere |-> FALSE, failed |-> FALSE, late |-> FALSE]

-----------------------------------------------------------------------------
NextBatch(b) == pgBatches[b].pc = "idle" /\ \A d \in 1 .. (b - 1) : pgBatches[d].pc # "idle"

PageFault == pgFaults < MaxPageFaults /\ pgFaults' = pgFaults + 1

Late(b) == pgPast.late \/ pgBatches[b].of # pgAddress

\* The address changes: the elements below the key are new, so the tab is free again.
OpenWell ==
    /\ \E w \in Wells \ {pgAddress}, b \in Batches :
          /\ NextBatch(b)
          /\ pgAddress' = w
          /\ pgBatches' = [pgBatches EXCEPT ![b] = Lookup(w)]
    /\ pgLocked' = NoWell
    /\ pgCard' = IF pgKind = "balance" THEN NoWell ELSE pgCard
    /\ UNCHANGED <<pgKind, pgShown, pgLow, pgIcon, pgTask, pgWells, pgFaults, pgPast>>

\* Faulty: the icons are not cleared first.
WellFoundKeepingIcons(b) ==
    /\ pgBatches[b].pc = "asked"
    /\ pgShown' = pgBatches[b].of
    /\ pgBatches' = [pgBatches EXCEPT ![b] = ReadingOf(@.of, ReadKinds)]
    /\ pgPast' = [pgPast EXCEPT !.late = Late(b)]
    /\ UNCHANGED <<pgKind, pgAddress, pgCard, pgLow, pgIcon, pgLocked, pgTask, pgWells, pgFaults>>

\* search_fomosReq is answered, and the effects on curFomoInfo start the readings.
WellFound(b) ==
    /\ pgBatches[b].pc = "asked"
    /\ pgShown' = pgBatches[b].of
    /\ pgIcon' = FALSE
    /\ pgBatches' = [pgBatches EXCEPT ![b] = ReadingOf(@.of, ReadKinds)]
    /\ pgPast' = [pgPast EXCEPT !.late = Late(b)]
    /\ UNCHANGED <<pgKind, pgAddress, pgCard, pgLow, pgLocked, pgTask, pgWells, pgFaults>>

LookupRefused(b) ==
    /\ PageFault
    /\ pgBatches[b].pc = "asked"
    /\ pgBatches' = [pgBatches EXCEPT ![b] = BatchOver]
    /\ pgPast' = [pgPast EXCEPT !.nowhere = TRUE]
    /\ UNCHANGED <<pgKind, pgAddress, pgShown, pgCard, pgLow, pgIcon, pgLocked, pgTask, pgWells>>

\* A reading of kind k is over.
Finishes(b, k) ==
    /\ pgKind = k /\ pgBatches[b].pc = "reading"
    /\ pgBatches' = [pgBatches EXCEPT ![b] = BatchOver]
    /\ pgCard' = IF k = "owners" THEN pgCard ELSE pgBatches[b].of
    /\ UNCHANGED <<pgKind, pgAddress, pgShown, pgTask, pgWells>>

\* Only the first canister that is low is marked.
Marked(low) ==
    IF "fomo" \in low THEN {"fomo"} ELSE IF "token" \in low THEN {"token"} ELSE low

\* reqIcrc1_balance_of: cycles that cannot be read count as none.  Lookups made in one render
\* share tempshowaddcylesimg, in which marks are kept until a lookup finds nothing low: what
\* another lookup of the project has marked, which is more only if it could not read it all.
CyclesShown(b) ==
    LET low == LowCycles[pgBatches[b].of]
    IN  /\ Finishes(b, "cycles")
        /\ \E unread, kept \in SUBSET {"fomo", "token", "pool"} :
              /\ IF unread = {} THEN UNCHANGED pgFaults ELSE PageFault
              /\ pgPast.failed \/ kept \subseteq Marked(low)
              /\ pgLow' = IF low \cup unread = {} THEN {} ELSE Marked(low \cup unread) \cup kept
              /\ pgPast' = [pgPast EXCEPT !.late = Late(b), !.failed = @ \/ unread # {}]
        /\ UNCHANGED <<pgIcon, pgLocked>>

\* getPoolInfoFn: without ICP in the pool the tab for selling is locked.
PoolShown(b) ==
    LET w == pgBatches[b].of
    IN  /\ Finishes(b, "pool")
        /\ \E filled \in {pgBatches[b].filled, w \in pgWells.filled} :
              pgLocked' = IF filled THEN pgLocked ELSE w
        /\ pgPast' = [pgPast EXCEPT !.late = Late(b)]
        /\ UNCHANGED <<pgLow, pgIcon, pgFaults>>

\* getStatus: the icons are added, never taken away.
OwnersShown(b) ==
    LET w == pgBatches[b].of
    IN  /\ Finishes(b, "owners")
        /\ \E given \in {pgBatches[b].given, w \in pgWells.given} : pgIcon' = (pgIcon \/ given)
        /\ pgPast' = [pgPast EXCEPT !.late = Late(b)]
        /\ UNCHANGED <<pgLow, pgLocked, pgFaults>>

\* getBuyicrc1_metadata and getUserBalance, of the token of that project.
BalanceShown(b) ==
    /\ Finishes(b, "balance")
    /\ pgPast' = [pgPast EXCEPT !.late = Late(b)]
    /\ UNCHANGED <<pgLow, pgIcon, pgLocked, pgFaults>>

KindRefused(b) ==
    /\ PageFault
    /\ pgKind # "cycles" /\ pgBatches[b].pc = "reading"
    /\ pgBatches' = [pgBatches EXCEPT ![b] = BatchOver]
    /\ pgPast' = [pgPast EXCEPT !.failed = TRUE]
    /\ UNCHANGED <<pgKind, pgAddress, pgShown, pgCard, pgLow, pgIcon, pgLocked, pgTask, pgWells>>

-----------------------------------------------------------------------------
(* The user trades, or gives the ownership of the token away *)

StartTask ==
    /\ pgTask = NoTask /\ pgShown # NoWell
    /\ \E pc \in IF pgIcon THEN {"swap"} ELSE {"swap", "give"} :
          pgTask' = [pc |-> pc, of |-> pgShown, address |-> pgAddress]
    /\ UNCHANGED <<pgKind, pgAddress, pgShown, pgCard, pgLow, pgIcon, pgLocked, pgBatches,
                   pgWells, pgFaults, pgPast>>

\* The router takes the swap, which leaves ICP in the pool unless it fails later: the tab is
\* free, whichever project is shown.
TradeTaken ==
    /\ pgTask.pc = "swap"
    /\ pgTask' = [pgTask EXCEPT !.pc = "poll"]
    /\ pgLocked' = NoWell
    /\ \E filled \in {pgWells.filled, pgWells.filled \cup {pgTask.of}} :
          pgWells' = [pgWells EXCEPT !.filled = filled]
    /\ UNCHANGED <<pgKind, pgAddress, pgShown, pgCard, pgLow, pgIcon, pgBatches, pgFaults, pgPast>>

\* After set_buy_or_sell the project is looked up and its pool and balances are read.
TradeReread ==
    /\ pgTask.pc = "poll" /\ pgTask.of \in pgWells.filled
    /\ \E b \in Batches :
          /\ NextBatch(b) /\ b < MaxBatches
          /\ pgBatches' = [pgBatches EXCEPT ![b] = ReadingOf(pgTask.of, {"pool", "balance"}),
                                            ![b + 1] = Lookup(pgTask.address)]
    /\ pgTask' = NoTask
    /\ UNCHANGED <<pgKind, pgAddress, pgShown, pgCard, pgLow, pgIcon, pgLocked, pgWells, pgFaults,
                   pgPast>>

\* btnremoveownership ends with getStatus, whether or not the launcher removed the controllers.
OwnershipEnds ==
    /\ pgTask.pc = "give"
    /\ \E done \in BOOLEAN, b \in Batches :
          LET given == IF done THEN pgWells.given \cup {pgTask.of} ELSE pgWells.given
          IN  /\ NextBatch(b)
              /\ pgWells' = [pgWells EXCEPT !.given = given]
              /\ pgBatches' = [pgBatches EXCEPT ![b] = [ReadingOf(pgTask.of, {"owners"}) EXCEPT
                     !.given = pgKind = "owners" /\ pgTask.of \in given]]
    /\ pgIcon' = FALSE
    /\ pgTask' = NoTask
    /\ UNCHANGED <<pgKind, pgAddress, pgShown, pgCard, pgLow, pgLocked, pgFaults, pgPast>>

\* The trade fails, or its status says so later: nothing is read again.
TaskFails ==
    /\ pgTask.pc \in {"swap", "poll"}
    /\ pgTask' = NoTask
    /\ UNCHANGED <<pgKind, pgAddress, pgShown, pgCard, pgLow, pgIcon, pgLocked, pgBatches,
                   pgWells, pgFaults, pgPast>>

ProjectNext ==
    \/ OpenWell \/ StartTask \/ TradeTaken \/ TradeReread \/ OwnershipEnds \/ TaskFails
    \/ \E b \in Batches :
          \/ WellFound(b) \/ LookupRefused(b) \/ CyclesShown(b) \/ PoolShown(b)
          \/ OwnersShown(b) \/ BalanceShown(b) \/ KindRefused(b)

-----------------------------------------------------------------------------
(* What is on the page *)

\* The overview of the canisters: the project of the numbers, the marks and the icons.
Overview == [of |-> pgCard, low |-> pgLow, icon |-> pgIcon]

\* The developer is offered to give the token away.
MayGive == ~Overview.icon

\* The amounts left in the well.
WellText == pgCard

\* The balances above the form.
Balance == pgCard

-----------------------------------------------------------------------------
(* Properties *)

Settled == \A b \in Batches : pgBatches[b].pc \in {"idle", "over"}

\* Once everything is answered the page is that of its address, and so are its cycles, pool,
\* balances and icons, unless a call was rejected or an answer came after the address had
\* changed; and only then is the tab for selling locked by another project, or ownership
\* offered that was given away (search_fomosReq, reqIcrc1_balance_of, getPoolInfoFn,
\* getStatus).
ProjectPageAgrees ==
    /\ ProjectTypes
    /\ Settled /\ ~pgPast.late /\ ~pgPast.nowhere =>
           /\ pgShown = pgAddress
           /\ pgKind = "cycles" => Overview.of = pgShown
           /\ pgKind = "cycles" /\ ~pgPast.failed => Overview.low = Marked(LowCycles[pgShown])
           /\ pgKind = "pool" /\ ~pgPast.failed => WellText = pgShown
           /\ pgKind = "balance" /\ ~pgPast.failed => Balance = pgShown
           /\ pgKind = "owners" /\ ~pgPast.failed => (MayGive <=> pgShown \notin pgWells.given)
    /\ ~pgPast.late => pgLocked \in {pgAddress, NoWell}

=============================================================================
