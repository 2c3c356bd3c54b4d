---------------------------- MODULE ContextFeed ----------------------------
(***************************************************************************)
(* The last trade and the last creation, which the header shows on every   *)
(* page (layout/home/header.tsx) and the board once more                   *)
(* (pages/Home/Home.tsx).  They are read at the start, every 15 s whether  *)
(* or not the last reading is back, and by the header after a trade of its *)
(* user.  A button shakes when the closure that read it had not seen it;   *)
(* the polls use the closure of the first render, an own trade that of a   *)
(* later one, which begins with what the local storage says.               *)
(***************************************************************************)
EXTENDS Naturals

CONSTANTS
    MaxTrades, MaxCreations,   \* bounds: trades and creations on the market
    MaxReadings                \* bound: readings of the context

ASSUME ContextAssumption ==
    /\ {MaxTrades, MaxCreations} \subseteq Nat \ {0} /\ MaxReadings \in Nat \ {0, 1}

VARIABLES
    ctxPage,      \* "header" or "home"
    ctxMarket,    \* the last trade and the last creation, counted
    ctxReadings,  \* the readings, in the order they started
    ctxSeen,      \* curbuyStateIdx and curcreateStateIdx of the first closure
    ctxStored,    \* the same in the local storage
    ctxShown,     \* FomContext; 0 before the first
    ctxShake,     \* buyShake and createShake
    ctxTimer,     \* the pending timeout of 500 ms: which of them it stops
    ctxPast       \* history: what was stored at first and announced since, and the disorder met

ctxVars == <<ctxPage, ctxMarket, ctxReadings, ctxSeen, ctxStored, ctxShown, ctxShake, ctxTimer,
             ctxPast>>

Context == [trade : 0 .. MaxTrades, created : 0 .. MaxCreations]

NoContext == [trade |-> 0, created |-> 0]

\* own: by the closure of a later render, which has seen what was stored then.
Reading == [pc : {"idle", "asked", "images", "over"}, got : Context, own : BOOLEAN, seen : Context]

NoReading == [pc |-> "idle", got |-> NoContext, own |-> FALSE, seen |-> NoContext]

Readings == 1 .. MaxReadings

ContextTypes ==
    /\ ctxPage \in {"header", "home"}
    /\ {ctxMarket, ctxSeen, ctxStored, ctxShown} \subseteq Context
    /\ ctxReadings \in [Readings -> Reading]
    /\ ctxShake \in [buy : BOOLEAN, create : BOOLEAN]
    /\ ctxTimer \in {"none", "buy", "create"}

\* The header reads twice at the start: an effect of its own, and that on buyorsell.
ContextInit ==
    /\ ctxPage \in {"header", "home"}
    /\ ctxMarket = [trade |-> 1, created |-> 1]
    /\ ctxStored \in {NoContext, ctxMarket}
    /\ ctxSeen = ctxStored
    /\ ctxReadings = [r \in Readings |->
           [NoReading EXCEPT !.pc = IF r <= (IF ctxPage = "header" THEN 2 ELSE 1)
                                    THEN "asked" ELSE "idle"]]
    /\ ctxShown = NoContext
    /\ ctxShake = [buy |-> FALSE, create |-> FALSE]
    /\ ctxTimer = "none"
    /\ ctxPast = [stored |-> ctxStored, told |-> {}, twice |-> FALSE, back |-> FALSE,
                  own |-> FALSE, overlap |-> ctxPage = "header"]

-----------------------------------------------------------------------------
InFlight == {r \in Readings : ctxReadings[r].pc \in {"asked", "images"}}

NextReading == {r \in Readings : ctxReadings[r].pc = "idle"
                                 /\ \A q \in 1 .. (r - 1) : ctxReadings[q].pc # "idle"}

\* Somebody trades or creates.
MarketMoves ==
    /\ ctxMarket' \in {[ctxMarket EXCEPT !.trade = @ + 1], [ctxMarket EXCEPT !.created = @ + 1]}
    /\ ctxMarket' \in Context
    /\ UNCHANGED <<ctxPage, ctxReadings, ctxSeen, ctxStored, ctxShown, ctxShake, ctxTimer, ctxPast>>

Starts(own) ==
    /\ \E r \in NextReading :
          ctxReadings' = [ctxReadings EXCEPT ![r] =
              [pc |-> "asked", got |-> NoContext, own |-> own,
               seen |-> IF own THEN ctxStored ELSE NoContext]]
    /\ ctxPast' = [ctxPast EXCEPT !.overlap = @ \/ InFlight # {}, !.own = @ \/ own]
    /\ UNCHANGED <<ctxPage, ctxMarket, ctxSeen, ctxStored, ctxShown, ctxShake, ctxTimer>>

\* The interval.
PollContext == Starts(FALSE)

\* The effect on buyorsell after a trade of the user was reported.
OwnTrade == ctxPage = "header" /\ Starts(TRUE)

\* get_fomo_context is answered; the two images are read next.
ContextRead ==
    /\ \E r \in Readings :
          /\ ctxReadings[r].pc = "asked"
          /\ ctxReadings' = [ctxReadings EXCEPT ![r].pc = "images", ![r].got = ctxMarket]
    /\ UNCHANGED <<ctxPage, ctxMarket, ctxSeen, ctxStored, ctxShown, ctxShake, ctxTimer, ctxPast>>

\* Err, or one of the three calls is rejected: nothing is shown.
ReadingFails ==
    /\ \E r \in InFlight : ctxReadings' = [ctxReadings EXCEPT ![r].pc = "over"]
    /\ UNCHANGED <<ctxPage, ctxMarket, ctxSeen, ctxStored, ctxShown, ctxShake, ctxTimer, ctxPast>>

\* Faulty: only the button of the trade is in the dependencies of the effect.
ShakeEffectOfTrade(buy, create) ==
    /\ ctxShake' = [buy |-> buy, create |-> create]
    /\ ctxTimer' = IF buy = ctxShake.buy THEN ctxTimer
                   ELSE IF buy THEN "buy" ELSE IF create THEN "create" ELSE "none"

\* The effect on buyShake and createShake: a new timeout for the first of them that is on.
ShakeEffect(buy, create) ==
    /\ ctxShake' = [buy |-> buy, create |-> create]
    /\ ctxTimer' = IF ctxShake' = ctxShake THEN ctxTimer
                   ELSE IF buy THEN "buy" ELSE IF create THEN "create" ELSE "none"

\* The header stores what it announces; the board does not.
ContextShown ==
    \E r \in Readings :
        LET got == ctxReadings[r].got
            seen == IF ctxReadings[r].own THEN ctxReadings[r].seen ELSE ctxSeen
            news == {k \in {"trade", "created"} : got[k] # seen[k]}
        IN  /\ ctxReadings[r].pc = "images"
            /\ ctxReadings' = [ctxReadings EXCEPT ![r].pc = "over"]
            /\ ctxSeen' = IF ctxReadings[r].own THEN ctxSeen ELSE got
            /\ ctxStored' = IF ctxPage = "header"
                            THEN [k \in {"trade", "created"} |->
                                     IF k \in news THEN got[k] ELSE ctxStored[k]]
                            ELSE ctxStored
            /\ ShakeEffect("trade" \in news, "created" \in news)
            /\ ctxShown' = got
            /\ ctxPast' = [ctxPast EXCEPT
                   !.told = @ \cup {<<k, got[k]>> : k \in news},
                   !.twice = @ \/ \E k \in news : <<k, got[k]>> \in ctxPast.told,
                   !.back = @ \/ got.trade < ctxShown.trade \/ got.created < ctxShown.created]
            /\ UNCHANGED <<ctxPage, ctxMarket>>

ShakeStops ==
    /\ \/ ctxTimer = "buy" /\ ShakeEffect(FALSE, ctxShake.create)
       \/ ctxTimer = "create" /\ ShakeEffect(ctxShake.buy, FALSE)
    /\ UNCHANGED <<ctxPage, ctxMarket, ctxReadings, ctxSeen, ctxStored, ctxShown, ctxPast>>

\* The button of the trade or of the creation shakes; it is a skeleton at first.
Shakes(button) == ctxShown # NoContext /\ ctxShake[button]

ContextNext ==
    \/ MarketMoves \/ PollContext \/ OwnTrade \/ ContextRead \/ ReadingFails \/ ContextShown
    \/ ShakeStops

-----------------------------------------------------------------------------
(* Properties *)

\* A button that shakes will be stopped.  What is shown was announced, or was in the storage
\* when the page was loaded; it goes back to something earlier only if readings overlapped,
\* and is announced twice only then or after a trade of the user, whose closure is another
\* (getFomContext and the effect on buyShake and createShake).
ContextAgrees ==
    /\ ContextTypes
    /\ Shakes("buy") \/ Shakes("create") => ctxTimer # "none"
    /\ ctxTimer # "none" => Shakes(ctxTimer)
    /\ ctxShown # NoContext =>
           \A k \in {"trade", "created"} :
               <<k, ctxShown[k]>> \in ctxPast.told \/ ctxShown[k] = ctxPast.stored[k]
    /\ ctxPast.back => ctxPast.overlap
    /\ ctxPast.twice => ctxPast.overlap \/ ctxPast.own

=============================================================================
