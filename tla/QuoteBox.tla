------------------------------ MODULE QuoteBox ------------------------------
(***************************************************************************)
(* The amount a trade would bring, shown below the form of a project       *)
(* (switchIcp in pages/ICPInfo/ICPInfo.tsx).  An effect on the amount, the *)
(* slippage and the direction asks the pool half a second after the last   *)
(* change; the answers overwrite each other as they come.                  *)
(***************************************************************************)
EXTENDS Naturals, Sequences, SequencesExt

CONSTANTS
    Amounts, NoAmount,  \* base_from_amount
    MaxChanges,         \* bound: changes of the form
    MaxQuotes,          \* bound: quotes in flight
    MaxRefused          \* bound: quotes rejected

ASSUME QuoteAssumption ==
    /\ NoAmount \in Amounts
    /\ {MaxChanges, MaxQuotes, MaxRefused} \subseteq Nat

VARIABLES
    asks,      \* what the form asks: amount, direction and pool
    waiting,   \* the arguments debounceSwitchIcp waits with
    quoting,   \* switchIcp in flight, in the order it was called
    quoted,    \* CurswitchIcp: what it answers
    spinning,  \* isLodingBalance
    changes, refused

quoteVars == <<asks, waiting, quoting, quoted, spinning, changes, refused>>

Ask == [amount : Amounts, directions : {0, 1}, pool : {"first", "second"}]

FirstAsk == [amount |-> NoAmount, directions |-> 1, pool |-> "first"]

\* met: the form went on without asking, or another answer came first.
Quote(a) == [ask |-> a, met |-> FALSE]

Quotes == [ask : Ask, met : BOOLEAN]

QuoteTypes ==
    /\ asks \in Ask
    /\ waiting \in Seq(Ask) /\ Len(waiting) <= 1
    /\ quoting \in Seq(Quotes)
    /\ quoted \in Quotes
    /\ spinning \in BOOLEAN

QuoteInit ==
    /\ asks = FirstAsk
    /\ waiting = <<>>
    /\ quoting = <<>>
    /\ quoted = Quote(FirstAsk)
    /\ spinning = FALSE
    /\ changes = 0 /\ refused = 0

-----------------------------------------------------------------------------
Change == changes < MaxChanges /\ changes' = changes + 1 /\ UNCHANGED refused

\* Faulty: the debounced call keeps its first arguments.
FormChangesFirst(a) ==
    /\ Change
    /\ a # asks /\ a.pool = asks.pool
    /\ asks' = a
    /\ waiting' = IF waiting = <<>> THEN <<a>> ELSE waiting
    /\ UNCHANGED <<quoting, quoted, spinning>>

\* InputAmountChange, btnBuy, btnSell: the effect starts debounceSwitchIcp anew.
FormChanges(a) ==
    /\ Change
    /\ a # asks /\ a.pool = asks.pool
    /\ asks' = a
    /\ waiting' = <<a>>
    /\ UNCHANGED <<quoting, quoted, spinning>>

\* Another project: the effect does not depend on it, so nobody asks.
PoolChanges ==
    /\ Change
    /\ asks.pool = "first"
    /\ asks' = [asks EXCEPT !.pool = "second"]
    /\ quoting' = [i \in DOMAIN quoting |-> [quoting[i] EXCEPT !.met = TRUE]]
    /\ quoted' = [quoted EXCEPT !.met = TRUE]
    /\ UNCHANGED <<waiting, spinning>>

\* Half a second passed: querySellQuote or querySellBase is called with what was given then.
QuoteAsked ==
    /\ waiting # <<>>
    /\ Len(quoting) < MaxQuotes
    /\ quoting' = Append(quoting, [ask |-> waiting[1], met |-> waiting[1].pool # asks.pool])
    /\ waiting' = <<>>
    /\ spinning' = TRUE
    /\ UNCHANGED <<asks, quoted, changes, refused>>

\* The calls left after the i-th ended.
Rest(i) == RemoveAt([j \in DOMAIN quoting |-> IF j < i THEN [quoting[j] EXCEPT !.met = TRUE]
                                              ELSE quoting[j]], i)

QuoteAnswered(i) ==
    /\ quoted' = quoting[i]
    /\ quoting' = Rest(i)
    /\ spinning' = FALSE
    /\ UNCHANGED <<asks, waiting, changes, refused>>

\* A rejected quote is caught nowhere: the spinner goes on, the old quote stays.
QuoteRefused(i) ==
    /\ refused < MaxRefused
    /\ refused' = refused + 1
    /\ quoting' = Rest(i)
    /\ quoted' = [quoted EXCEPT !.met = TRUE]
    /\ UNCHANGED <<asks, waiting, spinning, changes>>

QuoteNext ==
    \/ \E a \in Ask : FormChanges(a)
    \/ PoolChanges \/ QuoteAsked
    \/ \E i \in DOMAIN quoting : QuoteAnswered(i) \/ QuoteRefused(i)

-----------------------------------------------------------------------------
(* Properties *)

\* Once every quote is answered, the amount shown is that of the form, unless an earlier
\* quote was answered after a later one, the last one was rejected, or another project was
\* opened; and only a rejected quote leaves the spinner turning (switchIcp, debounceSwitchIcp
\* and its effect).
QuoteAgrees ==
    /\ QuoteTypes
    /\ waiting = <<>> /\ quoting = <<>> => quoted.ask = asks \/ quoted.met
    /\ quoting = <<>> /\ refused = 0 => ~spinning

=============================================================================
