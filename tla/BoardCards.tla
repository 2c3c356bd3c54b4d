----------------------------- MODULE BoardCards -----------------------------
(***************************************************************************)
(* The cards of the board (pages/Home/Home.tsx): what they show of other   *)
(* canisters.  The card of the god of wells is read again every 10 s, and  *)
(* its parts arrive one by one.  For a list of projects one chain reads    *)
(* the names, replies and cycles, row after row, and a new list starts a   *)
(* new chain beside the old one.                                           *)
(***************************************************************************)
EXTENDS Naturals

CONSTANTS
    MaxGods,     \* bound: projects that become the god of wells
    MaxGodPolls, \* bound: times it is read
    Rows,        \* projects listed
    Users,       \* those who have created them
    Creator,     \* who has created which: names are kept by user
    Lists,       \* the lists, of two rows each, given by their rows
    MaxChains    \* bound: lists answered

ASSUME CardsAssumption ==
    /\ MaxGods \in Nat /\ {MaxGodPolls, MaxChains} \subseteq Nat \ {0}
    /\ Lists \subseteq Rows \X Rows /\ Lists # {}
    /\ Creator \in [Rows -> Users]

VARIABLES
    god,       \* the god of wells of the launcher; 0 before the first
    godPolls,  \* the readings of it, in the order they started
    godCard,   \* godOfWells, GodUserInfo, godOfWellName and godOfWellReplies, by project
    godSeen,   \* CurgodFomoIdx of the interval
    godShakes, \* shake, and the pending timeout that stops it
    godPast,   \* history: parts whose last reading failed, and whether readings overlapped
    rowList,   \* fomoList
    rowChains, \* the chains of updateFomoUserNames, in the order they started
    rowNames,  \* userInfo, lowBattery and userReplies: the users and rows they have
    rowPast    \* history: chains that overlapped, and whose last reading failed

godVars == <<god, godPolls, godCard, godSeen, godShakes, godPast>>
rowVars == <<rowList, rowChains, rowNames, rowPast>>

\* What is read of a god of wells; the avatar and the name of its creator come by two calls
\* that go the same way.
GodParts == {"creator", "replies"}
GodPoll == [pc : {"idle", "asked", "read"}, project : 0 .. MaxGods, parts : SUBSET GodParts]
NoPoll == [pc |-> "idle", project |-> 0, parts |-> {}]
Done == [NoPoll EXCEPT !.pc = "read"]
Polls == 1 .. MaxGodPolls

\* at: the row being read.  named, low, replied: what the chain will set, or has set.
Chain == [pc : {"idle", "on", "over"}, list : Rows \X Rows, at : 1 .. 3, named : SUBSET Users,
          low : SUBSET Rows, replied : SUBSET Rows]
Chains == 1 .. MaxChains

NoChain == [pc |-> "idle", list |-> CHOOSE l \in Lists : TRUE, at |-> 1, named |-> {},
            low |-> {}, replied |-> {}]

CardsTypes ==
    /\ god \in 0 .. MaxGods
    /\ godPolls \in [Polls -> GodPoll]
    /\ godCard \in [GodParts \cup {"project"} -> 0 .. MaxGods]
    /\ godSeen \in 0 .. MaxGods
    /\ godShakes \in [on : BOOLEAN, timer : BOOLEAN]
    /\ godPast \in [failed : SUBSET GodParts, overlap : BOOLEAN]
    /\ rowChains \in [Chains -> Chain]
    /\ rowNames \in [named : SUBSET Users, low : SUBSET Rows, replied : SUBSET Rows,
                     of : 0 .. MaxChains]
    /\ rowPast \in [overlap : BOOLEAN, unnamed : SUBSET Users, unreplied : SUBSET Rows]

\* defaultgetFomoList reads the god of wells.
GodInit ==
    /\ god \in {0, 1} \cap (0 .. MaxGods)
    /\ godPolls = [p \in Polls |-> IF p = 1 THEN [NoPoll EXCEPT !.pc = "asked", !.project = god]
                                  ELSE NoPoll]
    /\ godCard = [k \in GodParts \cup {"project"} |-> 0]
    /\ godSeen = 0
    /\ godShakes = [on |-> FALSE, timer |-> FALSE]
    /\ godPast = [failed |-> {}, overlap |-> FALSE]

RowsInit ==
    /\ rowList = 0
    /\ rowChains = [c \in Chains |-> NoChain]
    /\ rowNames = [named |-> {}, low |-> {}, replied |-> {}, of |-> 0]
    /\ rowPast = [overlap |-> FALSE, unnamed |-> {}, unreplied |-> {}]

-----------------------------------------------------------------------------
(* The god of wells *)

GodReading == {p \in Polls : godPolls[p].pc = "asked" \/ godPolls[p].parts # {}}

GodChanges ==
    /\ god < MaxGods
    /\ god' = god + 1
    /\ UNCHANGED <<godPolls, godCard, godSeen, godShakes, godPast>>

\* The interval, whether or not the last reading is back.
PollGod ==
    /\ \E p \in Polls :
          /\ godPolls[p].pc = "idle" /\ \A q \in 1 .. (p - 1) : godPolls[q].pc # "idle"
          /\ godPolls' = [godPolls EXCEPT ![p].pc = "asked", ![p].project = god]
    /\ godPast' = [godPast EXCEPT !.overlap = @ \/ GodReading # {}]
    /\ UNCHANGED <<god, godCard, godSeen, godShakes>>

\* get_god_of_wells is answered with what it was some time since the request; an empty answer
\* changes nothing.  The first reading, of defaultgetFomoList, does not look for news.
GodRead(p) ==
    /\ godPolls[p].pc = "asked"
    /\ \E g \in godPolls[p].project .. god :
          IF g = 0
          THEN /\ godPolls' = [godPolls EXCEPT ![p] = Done]
               /\ UNCHANGED <<godCard, godSeen, godShakes>>
          ELSE /\ godPolls' = [godPolls EXCEPT ![p] = [pc |-> "read", project |-> g,
                                                       parts |-> GodParts]]
               /\ godCard' = [godCard EXCEPT !["project"] = g]
               /\ godSeen' = IF p = 1 THEN godSeen ELSE g
               /\ godShakes' = IF p = 1 \/ godShakes.on = (g # godSeen) THEN godShakes
                               ELSE [on |-> g # godSeen, timer |-> g # godSeen]
    /\ UNCHANGED <<god, godPast>>

\* get_god_of_wells is rejected.
GodReadFails(p) ==
    /\ godPolls[p].pc = "asked"
    /\ godPolls' = [godPolls EXCEPT ![p] = Done]
    /\ UNCHANGED <<god, godCard, godSeen, godShakes, godPast>>

\* getBaseUserInfo, getFomoUserInfo or get_comments_len is answered; or rejected, and the card
\* keeps what it had.
GodPartRead(p, k) ==
    /\ k \in godPolls[p].parts
    /\ godPolls' = [godPolls EXCEPT ![p] =
           IF @.parts = {k} THEN Done ELSE [godPolls[p] EXCEPT !.parts = @ \ {k}]]
    /\ \/ /\ godCard' = [godCard EXCEPT ![k] = godPolls[p].project]
          /\ godPast' = [godPast EXCEPT !.failed = @ \ {k}]
       \/ UNCHANGED godCard /\ godPast' = [godPast EXCEPT !.failed = @ \cup {k}]
    /\ UNCHANGED <<god, godSeen, godShakes>>

GodShakeStops ==
    /\ godShakes.timer
    /\ godShakes' = [on |-> FALSE, timer |-> FALSE]
    /\ UNCHANGED <<god, godPolls, godCard, godSeen, godPast>>

\* The project whose creator or replies the card shows; 0 on its skeleton.
GodShown(k) == IF godCard["project"] = 0 THEN 0 ELSE godCard[k]

GodNext ==
    \/ GodChanges \/ PollGod \/ GodShakeStops
    \/ \E p \in Polls : GodRead(p) \/ GodReadFails(p) \/ (\E k \in GodParts : GodPartRead(p, k))

-----------------------------------------------------------------------------
(* The rows of the list *)

ChainsOn == {c \in Chains : rowChains[c].pc = "on"}

\* A search is answered: its list is shown, and a chain starts.
ListAnswered ==
    /\ \E c \in Chains, l \in Lists :
          /\ rowChains[c].pc = "idle" /\ \A d \in 1 .. (c - 1) : rowChains[d].pc # "idle"
          /\ rowChains' = [rowChains EXCEPT ![c] = [NoChain EXCEPT !.pc = "on", !.list = l]]
          /\ rowList' = c
    /\ rowPast' = [overlap |-> rowPast.overlap \/ ChainsOn # {}, unnamed |-> {}, unreplied |-> {}]
    /\ UNCHANGED <<rowNames>>

Having(set, x, has) == IF has THEN set \cup {x} ELSE set \ {x}

\* The three readings of a row are settled: the name, kept by the user, and the replies, set at
\* once, each empty when it cannot be read; the cycles, which count as none then.
RowRead(c) ==
    LET chain == rowChains[c]
        row == chain.list[chain.at]
        user == Creator[row]
    IN  /\ chain.pc = "on" /\ chain.at <= 2
        /\ \E named, replied, low \in BOOLEAN :
              /\ rowChains' = [rowChains EXCEPT ![c] =
                     [chain EXCEPT !.at = @ + 1, !.named = Having(@, user, named),
                                   !.low = Having(@, row, low),
                                   !.replied = Having(@, row, replied)]]
              /\ rowPast' = [rowPast EXCEPT !.unnamed = Having(@, user, ~named),
                                            !.unreplied = Having(@, row, ~replied)]
              /\ rowNames' = [rowNames EXCEPT !.replied = Having(chain.replied, row, replied)]
        /\ UNCHANGED <<rowList>>

\* Faulty: the names are added to those of the lists before, but only the first time.
ChainEndsOnce(c) ==
    /\ rowChains[c].pc = "on" /\ rowChains[c].at = 3
    /\ rowChains' = [rowChains EXCEPT ![c].pc = "over"]
    /\ rowNames' = IF rowNames.of = 0
                   THEN [rowNames EXCEPT !.named = rowChains[c].named, !.low = rowChains[c].low,
                                         !.of = c]
                   ELSE rowNames
    /\ UNCHANGED <<rowList, rowPast>>

\* The loop is done: names and batteries are those of its list alone.
ChainEnds(c) ==
    /\ rowChains[c].pc = "on" /\ rowChains[c].at = 3
    /\ rowChains' = [rowChains EXCEPT ![c].pc = "over"]
    /\ rowNames' = [rowNames EXCEPT !.named = rowChains[c].named, !.low = rowChains[c].low,
                                    !.of = c]
    /\ UNCHANGED <<rowList, rowPast>>

\* What the card of a row says beside the project itself.
RowShown(row) == [named |-> Creator[row] \in rowNames.named, replied |-> row \in rowNames.replied,
                  low |-> row \in rowNames.low]

RowsNext == ListAnswered \/ \E c \in Chains : RowRead(c) \/ ChainEnds(c)

-----------------------------------------------------------------------------
(* Properties *)

\* When nothing is being read, a part of the card is of the project it names unless its own
\* last reading failed or readings overlapped; and a card that shakes will stop
\* (defaultgetFomoList and the interval of the first effect).
GodCardAgrees ==
    /\ GodReading = {} /\ ~godPast.overlap =>
           \A k \in GodParts \ godPast.failed : GodShown(k) = godCard["project"]
    /\ godShakes.on => godShakes.timer

\* When no chain is running, the rows shown have their names and replies, but for replies that
\* could not be read and for the name of a user whose last reading, for whichever of the
\* user's rows, failed; unless a chain for an earlier list ran beside the last one
\* (updateFomoUserNames).
RowsAgree ==
    ChainsOn = {} /\ rowList # 0 /\ ~rowPast.overlap =>
        \A i \in 1 .. 2 :
            LET row == rowChains[rowList].list[i]
            IN  /\ RowShown(row).named <=> Creator[row] \notin rowPast.unnamed
                /\ RowShown(row).replied <=> row \notin rowPast.unreplied
                /\ RowShown(row).low <=> row \in rowChains[rowList].low

CardsAgree == CardsTypes /\ GodCardAgrees /\ RowsAgree

=============================================================================
