------------------------------ MODULE UserPage ------------------------------
(***************************************************************************)
(* The coins a user has created, on the page of the user                   *)
(* (pages/User/UserInfo.tsx).  The first render reads the profile and then *)
(* the coins; scrolling reads them all once more and adds those not shown  *)
(* yet.  Each reading starts a chain that reads names and replies one coin *)
(* after the other, which nothing waits for.                               *)
(***************************************************************************)
EXTENDS Naturals

CONSTANTS
    Coins,          \* coins the user may create
    MaxReadCoins,   \* bound: readings of the coins
    MaxUserFaults   \* bound: calls rejected

ASSUME UserPageAssumption == MaxReadCoins \in Nat \ {0} /\ MaxUserFaults \in Nat

VARIABLES
    coinProfile, \* CurUserInfo
    coinMade,    \* the coins the user has created, on the launcher
    coinItems,   \* coinCrateInfoitems
    coinPaging,  \* currentPage and loading
    coinReads,   \* the readings, in the order they started, with the chains they start
    coinNames,   \* userNames, of the one creator of all coins, and userReplies: what they have
    coinFaults,
    coinOverlap, \* history: a chain started while another was running
    coinUnnamed  \* history: the last chain has not got the name, or not yet

coinVars == <<coinProfile, coinMade, coinItems, coinPaging, coinReads, coinNames, coinFaults,
              coinOverlap, coinUnnamed>>

\* got: the coins answered; left: those whose name and replies are still to be read; named:
\* whether the last name read was one.
CoinRead == [pc : {"idle", "asked", "names", "over", "thrown"}, got : SUBSET Coins,
             left : SUBSET Coins, named : BOOLEAN]
NoCoinRead == [pc |-> "idle", got |-> {}, left |-> {}, named |-> FALSE]
CoinReads == 1 .. MaxReadCoins

UserPageTypes ==
    /\ coinProfile \in {"asked", "shown", "failed"}
    /\ {coinMade, coinItems} \subseteq SUBSET Coins
    /\ coinNames \in [named : BOOLEAN, replied : SUBSET Coins]
    /\ coinPaging \in [page : 1 .. (MaxReadCoins + 1), loading : BOOLEAN]
    /\ coinReads \in [CoinReads -> CoinRead]
    /\ {coinOverlap, coinUnnamed} \subseteq BOOLEAN

UserPageInit ==
    /\ coinProfile = "asked"
    /\ coinMade \in SUBSET Coins
    /\ coinItems = {}
    /\ coinNames = [named |-> FALSE, replied |-> {}]
    /\ coinPaging = [page |-> 1, loading |-> TRUE]
    /\ coinReads = [r \in CoinReads |-> NoCoinRead]
    /\ coinFaults = 0
    /\ coinOverlap = FALSE /\ coinUnnamed = TRUE

-----------------------------------------------------------------------------
CoinFault == coinFaults < MaxUserFaults /\ coinFaults' = coinFaults + 1

\* A reading is asked for.
AsksCoins ==
    \E r \in CoinReads :
        /\ coinReads[r].pc = "idle" /\ \A q \in 1 .. (r - 1) : coinReads[q].pc # "idle"
        /\ coinReads' = [coinReads EXCEPT ![r].pc = "asked"]

\* getUserFomoName of the first render; the coins are read next.
ProfileShown ==
    /\ coinProfile = "asked"
    /\ coinProfile' = "shown"
    /\ AsksCoins
    /\ UNCHANGED <<coinMade, coinItems, coinPaging, coinNames, coinFaults, coinOverlap,
                   coinUnnamed>>

\* No profile, or the call is rejected: the coins of nobody are asked for, which throws, and
\* the page loads for good.
ProfileMissing ==
    /\ CoinFault
    /\ coinProfile = "asked"
    /\ coinProfile' = "failed"
    /\ UNCHANGED <<coinMade, coinItems, coinPaging, coinReads, coinNames, coinOverlap,
                   coinUnnamed>>

\* create_fomo, from another page.
CoinCreated ==
    /\ \E c \in Coins \ coinMade : coinMade' = coinMade \cup {c}
    /\ UNCHANGED <<coinProfile, coinItems, coinPaging, coinReads, coinNames, coinFaults, coinOverlap,
                   coinUnnamed>>

\* GertSearch_fomos: nothing changes if there are none; coins not shown yet are added, and a
\* chain reads the names and replies of all.
CoinsRead(r) ==
    /\ coinReads[r].pc = "asked"
    /\ IF coinMade = {}
       THEN /\ coinReads' = [coinReads EXCEPT ![r].pc = "over"]
            /\ coinPaging' = [coinPaging EXCEPT !.loading = FALSE]
            /\ UNCHANGED <<coinItems, coinOverlap, coinUnnamed>>
       ELSE /\ coinReads' = [coinReads EXCEPT ![r] = [pc |-> "names", got |-> coinMade,
                                                      left |-> coinMade, named |-> FALSE]]
            /\ coinPaging' = [page |-> coinPaging.page + 1, loading |-> FALSE]
            /\ coinItems' = coinItems \cup coinMade
            /\ coinOverlap' = (coinOverlap \/ \E q \in CoinReads : coinReads[q].pc = "names")
            /\ coinUnnamed' = TRUE
    /\ UNCHANGED <<coinProfile, coinMade, coinNames, coinFaults>>

\* get_fomo_by_create_user_pid is rejected: caught nowhere, the page loads for good.
CoinsRejected(r) ==
    /\ CoinFault
    /\ coinReads[r].pc = "asked"
    /\ coinReads' = [coinReads EXCEPT ![r].pc = "thrown"]
    /\ UNCHANGED <<coinProfile, coinMade, coinItems, coinPaging, coinNames, coinOverlap,
                   coinUnnamed>>

\* updateFomoUserNames: one coin after the other.  A rejected getFomoUserInfo is caught and
\* leaves no name, as does a user without a profile; a rejected get_comments_len ends the chain.
NameRead(r) ==
    /\ coinReads[r].pc = "names"
    /\ \E c \in coinReads[r].left, named \in BOOLEAN :
          /\ coinReads' = [coinReads EXCEPT ![r].left = @ \ {c}, ![r].named = named]
          /\ coinUnnamed' = ~named
    /\ UNCHANGED <<coinProfile, coinMade, coinItems, coinPaging, coinNames, coinFaults, coinOverlap>>

RepliesRejected(r) ==
    /\ CoinFault
    /\ coinReads[r].pc = "names" /\ coinReads[r].left # {}
    /\ coinReads' = [coinReads EXCEPT ![r].pc = "thrown"]
    /\ UNCHANGED <<coinProfile, coinMade, coinItems, coinPaging, coinNames, coinOverlap,
                   coinUnnamed>>

NamesShown(r) ==
    /\ coinReads[r].pc = "names" /\ coinReads[r].left = {}
    /\ coinReads' = [coinReads EXCEPT ![r].pc = "over"]
    /\ coinNames' = [named |-> coinReads[r].named, replied |-> coinReads[r].got]
    /\ UNCHANGED <<coinProfile, coinMade, coinItems, coinPaging, coinFaults, coinOverlap,
                   coinUnnamed>>

\* handleScroll and loadData, whose closure knows no user before the first coins were read.
ScrollCoins ==
    /\ ~coinPaging.loading /\ coinPaging.page # 1
    /\ AsksCoins
    /\ coinPaging' = [coinPaging EXCEPT !.loading = TRUE]
    /\ UNCHANGED <<coinProfile, coinMade, coinItems, coinNames, coinFaults, coinOverlap,
                   coinUnnamed>>

\* The card of a coin.
CoinCard(c) == [shown |-> c \in coinItems, named |-> coinNames.named,
                replied |-> c \in coinNames.replied]

UserPageNext ==
    \/ ProfileShown \/ ProfileMissing \/ CoinCreated \/ ScrollCoins
    \/ \E r \in CoinReads : CoinsRead(r) \/ CoinsRejected(r) \/ NameRead(r)
                             \/ RepliesRejected(r) \/ NamesShown(r)

-----------------------------------------------------------------------------
(* Properties *)

Asked == {r \in CoinReads : coinReads[r].pc = "asked"}

\* The coins are read one reading at a time, and the page loads for good only after a call was
\* rejected (handleScroll, GertSearch_fomos).  When nothing is being read, every coin shown
\* has its replies, and the name of its creator if the last reading of that gave one, unless
\* another call was rejected or two chains overlapped; and no coin that the last reading
\* found is missing (updateFomoUserNames).
UserPageAgrees ==
    /\ UserPageTypes
    /\ \A r, q \in Asked : r = q
    /\ coinPaging.loading => Asked # {} \/ coinProfile = "asked" \/ coinFaults > 0
    /\ \A r \in CoinReads : coinReads[r].got \subseteq coinItems
    /\ (\A r \in CoinReads : coinReads[r].pc \in {"idle", "over"}) /\ ~coinOverlap =>
           \A c \in Coins : /\ CoinCard(c).shown <=> CoinCard(c).replied
                            /\ CoinCard(c).shown => (CoinCard(c).named <=> ~coinUnnamed)

=============================================================================
