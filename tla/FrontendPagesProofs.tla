------------------------- MODULE FrontendPagesProofs -------------------------
(***************************************************************************)
(* What FrontendPages promises of the pages holds in every behaviour, for  *)
(* any number of projects, rows, people, tokens, readings and runs.        *)
(*                                                                         *)
(* The parts share no state, so each has an inductive invariant of its     *)
(* own: what it promises, the values of its state, and what the readings,  *)
(* calls and timers under way will find when they answer.  A step of the   *)
(* pages is a step of each part, or leaves that part as it was.            *)
(***************************************************************************)
EXTENDS FrontendPages, Integers, SequenceTheorems, FiniteSetTheorems, TLAPS

-----------------------------------------------------------------------------
(* The quotes of a project (QuoteBox): requests answered in any order. *)

(***************************************************************************)
(* Sequences of calls in flight, of which one ends.                        *)
(***************************************************************************)

\* A sequence without its i-th element.
LEMMA Removed ==
    ASSUME NEW S, NEW s \in Seq(S), NEW i \in 1 .. Len(s)
    PROVE  /\ RemoveAt(s, i) \in Seq(S)
           /\ Len(RemoveAt(s, i)) = Len(s) - 1
           /\ \A j \in 1 .. Len(s) - 1 : RemoveAt(s, i)[j] = IF j < i THEN s[j] ELSE s[j + 1]
<1> DEFINE a == SubSeq(s, 1, i - 1)
           b == SubSeq(s, i + 1, Len(s))
<1>1. Len(s) \in Nat
  BY LenProperties
<1>2. \A j \in 1 .. i - 1 : s[j] \in S
  BY <1>1, ElementOfSeq
<1>3. \A j \in i + 1 .. Len(s) : s[j] \in S
  BY <1>1, ElementOfSeq
<1>4. a \in Seq(S) /\ Len(a) = i - 1 /\ \A j \in 1 .. i - 1 : a[j] = s[j]
  BY <1>1, <1>2, SubSeqProperties
<1>5. b \in Seq(S) /\ Len(b) = Len(s) - i /\ \A j \in 1 .. Len(s) - i : b[j] = s[i + j]
  BY <1>1, <1>3, SubSeqProperties
<1> HIDE DEF a, b
<1>6. RemoveAt(s, i) = a \o b
  BY DEF RemoveAt, a, b
<1>7. a \o b \in Seq(S) /\ Len(a \o b) = Len(s) - 1
  <2>1. a \o b \in Seq(S) /\ Len(a \o b) = Len(a) + Len(b)
    BY <1>4, <1>5, ConcatProperties
  <2>2. Len(a) + Len(b) = Len(s) - 1
    BY <1>1, <1>4, <1>5
  <2> QED
    BY <2>1, <2>2
<1>8. ASSUME NEW j \in 1 .. Len(s) - 1
      PROVE  (a \o b)[j] = IF j < i THEN s[j] ELSE s[j + 1]
  <2>1. (a \o b)[j] = IF j <= Len(a) THEN a[j] ELSE b[j - Len(a)]
    BY <1>1, <1>4, <1>5, <1>7, ConcatProperties
  <2>2. CASE j < i
    BY <2>1, <2>2, <1>1, <1>4
  <2>3. CASE ~(j < i)
    <3>1. b[j - (i - 1)] = s[i + (j - (i - 1))]
      BY <2>3, <1>1, <1>5
    <3>2. i + (j - (i - 1)) = j + 1
      BY <1>1
    <3> QED
      BY <3>1, <3>2, <2>1, <2>3, <1>1, <1>4
  <2> QED
    BY <2>2, <2>3
<1> QED
  BY <1>6, <1>7, <1>8

\* A function on 1 .. n is a sequence of length n.
LEMMA SequenceOf ==
    ASSUME NEW S, NEW n \in Nat, NEW f \in [1 .. n -> S]
    PROVE  f \in Seq(S) /\ Len(f) = n
<1>1. f \in Seq(S)
  BY SeqDef
<1>2. DOMAIN f = 1 .. n /\ DOMAIN f = 1 .. Len(f) /\ Len(f) \in Nat
  BY <1>1, LenProperties
<1>3. Len(f) = n
  BY <1>2
<1> QED
  BY <1>1, <1>3

(***************************************************************************)
(* The quotes of a project (QuoteBox).                                     *)
(***************************************************************************)

\* What the form asks is what waits, unless the pool has changed since.
WaitingForm == waiting # <<>> =>
    \/ waiting[1] = asks
    \/ waiting[1].pool = "first" /\ asks.pool = "second"

\* The quote asked for last is for the form, unless it was marked.
LastQuote == waiting = <<>> /\ quoting # <<>> =>
    quoting[Len(quoting)].ask = asks \/ quoting[Len(quoting)].met

\* The spinner turns for a quote in flight, or for one that was rejected.
SpinnerExplained == spinning => quoting # <<>> \/ refused > 0

\* The inductive invariant of the quotes: what they promise and why.
QuoteInv ==
    /\ QuoteAgrees
    /\ WaitingForm /\ LastQuote /\ SpinnerExplained
    /\ refused \in Nat

\* A quote marked as met is a quote of the same form.
LEMMA MarkedQuote ==
    ASSUME NEW q \in Quotes
    PROVE  /\ [q EXCEPT !.met = TRUE] \in Quotes
           /\ [q EXCEPT !.met = TRUE].met
           /\ [q EXCEPT !.met = TRUE].ask = q.ask
  BY DEF Quotes

\* The calls that Rest leaves.
LEMMA QuotesLeft ==
    ASSUME QuoteTypes, NEW i \in DOMAIN quoting
    PROVE  /\ i \in 1 .. Len(quoting) /\ Len(quoting) \in Nat
           /\ Rest(i) \in Seq(Quotes) /\ Len(Rest(i)) = Len(quoting) - 1
           /\ Rest(i) # <<>> =>
                 \/ Rest(i)[Len(Rest(i))].met
                 \/ i < Len(quoting) /\ Rest(i)[Len(Rest(i))] = quoting[Len(quoting)]
<1> DEFINE n == Len(quoting)
           m == [j \in DOMAIN quoting |-> IF j < i THEN [quoting[j] EXCEPT !.met = TRUE]
                                          ELSE quoting[j]]
<1>1. n \in Nat /\ quoting \in [1 .. n -> Quotes] /\ DOMAIN quoting = 1 .. n
  BY LenProperties DEF QuoteTypes
<1>2. \A j \in 1 .. n : [quoting[j] EXCEPT !.met = TRUE] \in Quotes
  BY <1>1, MarkedQuote
<1>3. m \in [1 .. n -> Quotes]
  BY <1>1, <1>2
<1>4. m \in Seq(Quotes) /\ Len(m) = n
  BY <1>1, <1>3, SequenceOf
<1>5. i \in 1 .. n /\ i \in 1 .. Len(m)
  BY <1>1, <1>4
<1>6. \A j \in 1 .. n : m[j] = IF j < i THEN [quoting[j] EXCEPT !.met = TRUE] ELSE quoting[j]
  BY <1>1
<1> HIDE DEF m
<1>7. Rest(i) = RemoveAt(m, i)
  BY DEF Rest, m
<1>8. Rest(i) \in Seq(Quotes) /\ Len(Rest(i)) = n - 1
      /\ \A j \in 1 .. n - 1 : Rest(i)[j] = IF j < i THEN m[j] ELSE m[j + 1]
  BY <1>4, <1>5, <1>7, Removed
<1>9. ASSUME Rest(i) # <<>>
      PROVE  \/ Rest(i)[n - 1].met
             \/ i < n /\ Rest(i)[n - 1] = quoting[n]
  <2>1. n - 1 \in 1 .. n - 1
    <3>1. n - 1 # 0
      BY <1>8, <1>9, EmptySeq
    <3> QED
      BY <3>1, <1>1, <1>5
  <2>2. CASE i = n
    <3>1. Rest(i)[n - 1] = m[n - 1]
      BY <1>8, <2>1, <2>2, <1>1
    <3>2. n - 1 \in 1 .. n /\ n - 1 < i
      BY <2>1, <2>2, <1>1
    <3>3. m[n - 1] = [quoting[n - 1] EXCEPT !.met = TRUE]
      BY <1>6, <3>2
    <3> QED
      BY <3>1, <3>2, <3>3, <1>1, MarkedQuote
  <2>3. CASE i # n
    <3>1. i < n /\ ~(n - 1 < i)
      BY <2>3, <1>1, <1>5
    <3>2. Rest(i)[n - 1] = m[n - 1 + 1]
      BY <3>1, <2>1, <1>8
    <3>3. n - 1 + 1 = n /\ n \in 1 .. n /\ ~(n < i)
      BY <1>1, <1>5, <3>1
    <3> QED
      BY <3>1, <3>2, <3>3, <1>6
  <2> QED
    BY <2>2, <2>3
<1> QED
  BY <1>1, <1>5, <1>8, <1>9

\* A form that changes, or a quote that is asked for.
LEMMA QuoteStepInv ==
    ASSUME QuoteInv, [QuoteNext]_quoteVars
    PROVE  QuoteInv'
<1> USE DEF QuoteInv
<1>a. QuoteTypes /\ refused \in Nat /\ Len(quoting) \in Nat
  BY LenProperties DEF QuoteAgrees, QuoteTypes
<1>1. ASSUME NEW a \in Ask, FormChanges(a)
      PROVE  QuoteInv'
  <2>1. <<a>> \in Seq(Ask) /\ Len(<<a>>) = 1 /\ <<a>>[1] = a /\ <<a>> # <<>>
    OBVIOUS
  <2>2. /\ asks' = a /\ waiting' = <<a>>
        /\ quoting' = quoting /\ quoted' = quoted /\ spinning' = spinning /\ refused' = refused
    BY <1>1 DEF FormChanges, Change
  <2>3. waiting' # <<>> /\ waiting'[1] = asks'
    BY <2>1, <2>2
  <2>4. QuoteTypes'
    BY <1>a, <2>1, <2>2 DEF QuoteTypes
  <2>5. QuoteAgrees' /\ SpinnerExplained'
    BY <2>2, <2>3, <2>4 DEF QuoteAgrees, SpinnerExplained
  <2>6. WaitingForm' /\ LastQuote'
    BY <2>3 DEF WaitingForm, LastQuote
  <2> QED
    BY <1>a, <2>2, <2>5, <2>6
<1>2. CASE PoolChanges
  <2> DEFINE m == [i \in DOMAIN quoting |-> [quoting[i] EXCEPT !.met = TRUE]]
  <2>1. /\ asks' = [asks EXCEPT !.pool = "second"] /\ asks.pool = "first"
        /\ quoting' = m /\ quoted' = [quoted EXCEPT !.met = TRUE]
        /\ waiting' = waiting /\ spinning' = spinning /\ refused' = refused
    BY <1>2 DEF PoolChanges, Change
  <2>2. quoting \in [1 .. Len(quoting) -> Quotes]
    BY <1>a, LenProperties DEF QuoteTypes
  <2>3. \A j \in 1 .. Len(quoting) : [quoting[j] EXCEPT !.met = TRUE] \in Quotes
                                     /\ [quoting[j] EXCEPT !.met = TRUE].met
    BY <2>2, MarkedQuote
  <2>4. m \in [1 .. Len(quoting) -> Quotes]
    BY <2>2, <2>3
  <2>5. m \in Seq(Quotes) /\ Len(m) = Len(quoting)
    BY <1>a, <2>4, SequenceOf
  <2>6. quoting' # <<>> => quoting # <<>> /\ quoting'[Len(quoting')].met
    <3>1. SUFFICES ASSUME quoting' # <<>>
                   PROVE  quoting # <<>> /\ quoting'[Len(quoting')].met
      OBVIOUS
    <3>2. Len(quoting) # 0
      BY <2>1, <2>5, <3>1, EmptySeq
    <3>3. Len(quoting) \in 1 .. Len(quoting)
      BY <1>a, <3>2
    <3>4. m[Len(quoting)] = [quoting[Len(quoting)] EXCEPT !.met = TRUE]
      BY <2>2, <3>3
    <3> QED
      BY <2>1, <2>3, <2>5, <3>2, <3>3, <3>4, EmptySeq
  <2>7. quoting # <<>> => quoting' # <<>>
    BY <2>1, <2>5, <1>a, EmptySeq DEF QuoteTypes
  <2>8. asks' \in Ask /\ asks'.pool = "second" /\ quoted' \in Quotes /\ quoted'.met
    BY <1>a, <2>1, MarkedQuote DEF QuoteTypes, Ask
  <2>9. QuoteTypes'
    BY <1>a, <2>1, <2>5, <2>8 DEF QuoteTypes
  <2>10. WaitingForm'
    <3>1. waiting # <<>> => waiting[1].pool = "first"
      BY <2>1 DEF WaitingForm
    <3> QED
      BY <3>1, <2>1, <2>8 DEF WaitingForm
  <2>11. LastQuote' /\ SpinnerExplained'
    BY <2>1, <2>6, <2>7 DEF LastQuote, SpinnerExplained
  <2>12. QuoteAgrees'
    BY <2>1, <2>7, <2>8, <2>9 DEF QuoteAgrees
  <2> QED
    BY <1>a, <2>1, <2>9, <2>10, <2>11, <2>12
<1>3. CASE QuoteAsked
  <2> DEFINE q == [ask |-> waiting[1], met |-> waiting[1].pool # asks.pool]
  <2>1. waiting # <<>> /\ quoting' = Append(quoting, q) /\ waiting' = <<>> /\ spinning' = TRUE
        /\ asks' = asks /\ quoted' = quoted /\ refused' = refused
    BY <1>3 DEF QuoteAsked
  <2>2. waiting[1] \in Ask
    <3>1. Len(waiting) \in Nat /\ Len(waiting) # 0
      BY <1>a, <2>1, EmptySeq, LenProperties DEF QuoteTypes
    <3>2. 1 \in 1 .. Len(waiting)
      BY <3>1
    <3> QED
      BY <1>a, <3>2, ElementOfSeq DEF QuoteTypes
  <2>3. q \in Quotes /\ (q.ask = asks \/ q.met)
    BY <2>1, <2>2 DEF WaitingForm, Quotes
  <2> HIDE DEF q
  <2>4. /\ quoting' \in Seq(Quotes) /\ quoting' # <<>>
        /\ quoting'[Len(quoting')] = q
    BY <1>a, <2>1, <2>3, AppendProperties DEF QuoteTypes
  <2>5. waiting' \in Seq(Ask) /\ Len(waiting') <= 1
    BY <2>1, EmptySeq
  <2> QED
    BY <1>a, <2>1, <2>3, <2>4, <2>5 DEF QuoteAgrees, QuoteTypes, WaitingForm, LastQuote,
                                        SpinnerExplained
<1>4. ASSUME NEW i \in DOMAIN quoting, QuoteAnswered(i)
      PROVE  QuoteInv'
  <2>1. /\ quoted' = quoting[i] /\ quoting' = Rest(i) /\ spinning' = FALSE
        /\ asks' = asks /\ waiting' = waiting /\ refused' = refused
    BY <1>4 DEF QuoteAnswered
  <2>2. /\ i \in 1 .. Len(quoting) /\ quoting # <<>>
        /\ quoting' \in Seq(Quotes) /\ Len(quoting') = Len(quoting) - 1
        /\ quoting' # <<>> => quoting'[Len(quoting')].met
                               \/ quoting'[Len(quoting')] = quoting[Len(quoting)]
    BY <1>a, <2>1, QuotesLeft, EmptySeq
  <2>3. quoting[i] \in Quotes
    BY <1>a, <2>2, ElementOfSeq DEF QuoteTypes
  <2>4. quoting' = <<>> => i = Len(quoting)
    BY <1>a, <2>2, EmptySeq
  <2> QED
    BY <1>a, <2>1, <2>2, <2>3, <2>4 DEF QuoteAgrees, QuoteTypes, WaitingForm, LastQuote,
                                        SpinnerExplained
<1>5. ASSUME NEW i \in DOMAIN quoting, QuoteRefused(i)
      PROVE  QuoteInv'
  <2>1. /\ quoted' = [quoted EXCEPT !.met = TRUE] /\ quoting' = Rest(i) /\ spinning' = spinning
        /\ asks' = asks /\ waiting' = waiting /\ refused' = refused + 1
    BY <1>5 DEF QuoteRefused
  <2>2. /\ quoting # <<>>
        /\ quoting' \in Seq(Quotes)
        /\ quoting' # <<>> => quoting'[Len(quoting')].met
                               \/ quoting'[Len(quoting')] = quoting[Len(quoting)]
    BY <1>a, <2>1, QuotesLeft, EmptySeq
  <2>3. quoted' \in Quotes /\ quoted'.met /\ refused' > 0 /\ refused' \in Nat
    BY <1>a, <2>1, MarkedQuote DEF QuoteTypes
  <2> QED
    BY <1>a, <2>1, <2>2, <2>3 DEF QuoteAgrees, QuoteTypes, WaitingForm, LastQuote,
                                  SpinnerExplained
<1>6. CASE UNCHANGED quoteVars
  BY <1>6 DEF quoteVars, QuoteAgrees, QuoteTypes, WaitingForm, LastQuote, SpinnerExplained
<1> QED
  BY <1>1, <1>2, <1>3, <1>4, <1>5, <1>6 DEF QuoteNext

\* The first form has asked for nothing.
LEMMA QuoteInitInv ==
    ASSUME QuoteInit
    PROVE  QuoteInv
<1>1. <<>> \in Seq(Ask) /\ Len(<<>>) <= 1 /\ <<>> \in Seq(Quotes)
  BY EmptySeq
<1>2. FirstAsk \in Ask
  BY QuoteAssumption DEF FirstAsk, Ask
<1>3. Quote(FirstAsk) \in Quotes /\ Quote(FirstAsk).ask = FirstAsk
  BY <1>2 DEF Quote, Quotes
<1>4. QuoteAgrees
  <2>1. QuoteTypes
    BY <1>1, <1>2, <1>3, Zenon DEF QuoteInit, QuoteTypes
  <2> QED
    BY <1>3, <2>1 DEF QuoteInit, QuoteAgrees
<1> QED
  BY <1>4 DEF QuoteInit, QuoteInv, WaitingForm, LastQuote, SpinnerExplained

-----------------------------------------------------------------------------
(* The board (HomeList): what is listed was asked for, unless requests overlapped. *)

\* What the board asks for when it is on page c.
Shown(c) == [sort |-> sel.sort, order |-> sel.order, text |-> typed, start |-> c - 1]

\* A request that, if nothing comes in between, is answered as the list is to be shown.
HomeFits(r) ==
    \/ r.met
    \/ r.kind = "search" /\ (r.q.start # 0 \/ r.q = Shown(1))
    \/ r.kind # "search" /\ r.q = Shown(current)
    \/ r.kind = "page" /\ <<r.q.sort, r.q.order>> # <<sel.sort, sel.order>>

\* The request sent last does, and the parameters hold the text typed or none.
HomeInv ==
    /\ ListAgrees
    /\ asked # <<>> => HomeFits(asked[Len(asked)])
    /\ params.text \in {typed, NoText}

\* A request the user has overtaken is a request, marked.
LEMMA MarkedRequest ==
    ASSUME NEW r \in Requests
    PROVE  /\ [r EXCEPT !.met = TRUE] \in Requests
           /\ [r EXCEPT !.met = TRUE].met
  BY DEF Requests

\* All requests in flight, marked.
LEMMA AllMarked ==
    ASSUME HomeTypes, NEW m, m = [i \in DOMAIN asked |-> [asked[i] EXCEPT !.met = TRUE]]
    PROVE  m \in Seq(Requests) /\ (m # <<>> => m[Len(m)].met)
<1>1. Len(asked) \in Nat /\ DOMAIN asked = 1 .. Len(asked)
      /\ asked \in [1 .. Len(asked) -> Requests]
  BY LenProperties DEF HomeTypes
<1>2. \A j \in 1 .. Len(asked) : /\ [asked[j] EXCEPT !.met = TRUE] \in Requests
                                 /\ [asked[j] EXCEPT !.met = TRUE].met
  BY <1>1, MarkedRequest
<1>3. m \in [1 .. Len(asked) -> Requests]
  BY <1>1, <1>2
<1>4. m \in Seq(Requests) /\ Len(m) = Len(asked)
  BY <1>1, <1>3, SequenceOf
<1>5. ASSUME m # <<>> PROVE m[Len(m)].met
  <2>1. Len(m) # 0
    BY <1>4, <1>5, EmptySeq
  <2>2. Len(m) \in 1 .. Len(asked)
    BY <1>1, <1>4, <2>1
  <2>3. m[Len(m)] = [asked[Len(m)] EXCEPT !.met = TRUE]
    BY <1>1, <2>2
  <2> QED
    BY <1>2, <2>2, <2>3
<1> QED
  BY <1>4, <1>5

\* The requests Left leaves: the last of them was the last before, or is marked.
LEMMA RequestsLeft ==
    ASSUME HomeTypes, NEW i \in DOMAIN asked, NEW c \in BOOLEAN
    PROVE  /\ i \in 1 .. Len(asked) /\ Len(asked) \in Nat
           /\ Left(i, c) \in Seq(Requests) /\ Len(Left(i, c)) = Len(asked) - 1
           /\ Left(i, c) # <<>> =>
                 \/ Left(i, c)[Len(Left(i, c))].met
                 \/ ~c /\ Left(i, c)[Len(Left(i, c))] = asked[Len(asked)]
<1> DEFINE n == Len(asked)
           m == [j \in DOMAIN asked |-> IF j < i \/ c THEN [asked[j] EXCEPT !.met = TRUE]
                                        ELSE asked[j]]
           L == Left(i, c)
<1>1. n \in Nat /\ asked \in [1 .. n -> Requests] /\ DOMAIN asked = 1 .. n
  BY LenProperties DEF HomeTypes
<1>2. \A j \in 1 .. n : [asked[j] EXCEPT !.met = TRUE] \in Requests
  BY <1>1, MarkedRequest
<1>3. m \in [1 .. n -> Requests]
  BY <1>1, <1>2
<1>4. m \in Seq(Requests) /\ Len(m) = n
  BY <1>1, <1>3, SequenceOf
<1>5. i \in 1 .. n /\ i \in 1 .. Len(m)
  BY <1>1, <1>4
<1>6. /\ \A j \in 1 .. n : j < i => m[j] = [asked[j] EXCEPT !.met = TRUE]
      /\ \A j \in 1 .. n : c => m[j] = [asked[j] EXCEPT !.met = TRUE]
      /\ \A j \in 1 .. n : ~(j < i) /\ ~c => m[j] = asked[j]
  BY <1>1
<1> HIDE DEF m
<1>7. L = RemoveAt(m, i)
  BY DEF Left, m
<1> HIDE DEF L
<1>8. L \in Seq(Requests) /\ Len(L) = n - 1
      /\ \A j \in 1 .. n - 1 : L[j] = IF j < i THEN m[j] ELSE m[j + 1]
  BY <1>4, <1>5, <1>7, Removed
<1>9. ASSUME L # <<>>
      PROVE  L[n - 1].met \/ (~c /\ L[n - 1] = asked[n])
  <2>1. n - 1 \in 1 .. n - 1
    <3>1. n - 1 # 0
      BY <1>8, <1>9, EmptySeq
    <3> QED
      BY <3>1, <1>1, <1>5
  <2>2. CASE i = n
    <3>1. L[n - 1] = m[n - 1]
      BY <1>8, <2>1, <2>2, <1>1
    <3>2. n - 1 \in 1 .. n /\ n - 1 < i
      BY <2>1, <2>2, <1>1
    <3>3. m[n - 1] = [asked[n - 1] EXCEPT !.met = TRUE]
      BY <1>6, <3>2
    <3> QED
      BY <3>1, <3>2, <3>3, <1>1, MarkedRequest
  <2>3. CASE i # n
    <3>1. i < n /\ ~(n - 1 < i)
      BY <2>3, <1>1, <1>5
    <3>2. L[n - 1] = m[n - 1 + 1]
      BY <3>1, <2>1, <1>8
    <3>3. n - 1 + 1 = n /\ n \in 1 .. n /\ ~(n < i)
      BY <1>1, <1>5, <3>1
    <3>4. CASE c
      <4>1. m[n] = [asked[n] EXCEPT !.met = TRUE]
        BY <1>6, <3>3, <3>4
      <4> QED
        BY <4>1, <3>2, <3>3, <1>1, MarkedRequest
    <3>5. CASE ~c
      BY <3>2, <3>3, <3>5, <1>6
    <3> QED
      BY <3>4, <3>5
  <2> QED
    BY <2>2, <2>3
<1> QED
  BY <1>1, <1>5, <1>8, <1>9 DEF L

\* A request sent last.
LEMMA Asking ==
    ASSUME NEW s \in Seq(Requests), NEW r \in Requests
    PROVE  /\ s \o <<r>> \in Seq(Requests) /\ s \o <<r>> # <<>>
           /\ (s \o <<r>>)[Len(s \o <<r>>)] = r
           /\ Append(s, r) = s \o <<r>>
<1>1. Append(s, r) = s \o <<r>>
  BY AppendIsConcat
<1>2. Append(s, r) \in Seq(Requests) /\ Append(s, r) # <<>>
      /\ Append(s, r)[Len(Append(s, r))] = r
  BY AppendProperties
<1> QED
  BY <1>1, <1>2

\* A select asks for its own sort and order.
LEMMA SelectInv ==
    ASSUME HomeInv, NEW s \in [sort : Sorts, order : Orders], NEW p \in Query, Select(s, p),
           p.text = NoText, inputs' \in 0 .. MaxInputs, rejects' \in 0 .. MaxRejects
    PROVE  HomeInv'
<1>a. HomeTypes
  BY DEF HomeInv, ListAgrees
<1> DEFINE q == SearchQuery(s, p)
           x == IF p.start # params.start THEN <<Request("start", q)>> ELSE <<>>
<1>1. q \in Query /\ q.sort = s.sort /\ q.order = s.order /\ q.text = typed
  BY <1>a DEF SearchQuery, Query, HomeTypes
<1>0. Request("search", q) \in Requests /\ Request("start", q) \in Requests
  BY <1>1 DEF Request, Requests
<1>2. PICK r \in Requests : r = Request("search", q) /\ r.kind = "search" /\ r.q = q
  BY <1>0 DEF Request
<1>3. x \in Seq(Requests)
  <2>1. <<Request("start", q)>> \in Seq(Requests)
    BY <1>0
  <2>2. <<>> \in Seq(Requests)
    OBVIOUS
  <2> QED
    BY <2>1, <2>2
<1>4. /\ sel' = s /\ params' = p /\ asked' = asked \o x \o <<r>>
      /\ UNCHANGED <<typed, current, listed, showVal, stuck>>
  BY <1>2 DEF Select
<1> HIDE DEF x
<1>5. asked \o x \in Seq(Requests)
  BY <1>a, <1>3, ConcatProperties DEF HomeTypes
<1>6. asked' \in Seq(Requests) /\ asked' # <<>> /\ asked'[Len(asked')] = r
  BY <1>2, <1>4, <1>5, Asking
<1>7. HomeTypes'
  BY <1>a, <1>4, <1>6 DEF HomeTypes
<1>8. r.q.start # 0 \/ r.q = [sort |-> sel'.sort, order |-> sel'.order, text |-> typed', start |-> 0]
  BY <1>1, <1>2, <1>4 DEF SearchQuery
<1>9. HomeFits(r)'
  BY <1>2, <1>8 DEF HomeFits, Shown
<1>10. HomeFits(asked[Len(asked)])'
  BY <1>6, <1>9
<1> QED
  BY <1>4, <1>6, <1>7, <1>10 DEF HomeInv, ListAgrees

\* What marks all requests and the list fits.
LEMMA MarkedInv ==
    ASSUME HomeTypes', params'.text \in {typed', NoText}, listed'.met,
           asked' # <<>> => asked'[Len(asked')].met
    PROVE  HomeInv'
BY DEF HomeInv, ListAgrees, HomeFits

\* A request that fits and is sent last.
LEMMA AskedInv ==
    ASSUME HomeTypes', params'.text \in {typed', NoText}, NEW r \in Requests,
           asked' = asked \o <<r>>, asked \in Seq(Requests), HomeFits(r)'
    PROVE  HomeInv'
<1>1. asked' # <<>> /\ asked'[Len(asked')] = r
  BY Asking
<1> QED
  BY <1>1 DEF HomeInv, ListAgrees

\* The pager.
LEMMA PagInv ==
    ASSUME HomeInv, NEW pg \in Nat \ {0}, PagChange(pg),
           inputs' \in 0 .. MaxInputs, rejects' \in 0 .. MaxRejects
    PROVE  HomeInv'
<1>a. HomeTypes /\ params.text \in {typed, NoText} /\ params \in Query /\ asked \in Seq(Requests)
  BY DEF HomeInv, ListAgrees, HomeTypes
<1>b. /\ showVal' = FALSE /\ current' = pg /\ sel' = sel /\ typed' = typed
      /\ pg - 1 \in Nat
  BY DEF PagChange
<1>1. CASE typed = NoText
  <2> DEFINE q == [params EXCEPT !.start = pg - 1]
  <2>1. q \in Query /\ q.text = typed /\ q.start = pg - 1
        /\ q = [sort |-> q.sort, order |-> q.order, text |-> typed, start |-> pg - 1]
    BY <1>a, <1>b, <1>1 DEF Query
  <2>2. asked' = Append(asked, Request("page", q)) /\ UNCHANGED <<params, listed, stuck>>
    BY <1>1 DEF PagChange
  <2>3. PICK r : r = Request("page", q)
    OBVIOUS
  <2>4. r.kind = "page" /\ r.q = q /\ r \in Requests
    BY <2>1, <2>3 DEF Request, Requests
  <2> HIDE DEF q
  <2>5. asked' = asked \o <<r>> /\ asked' \in Seq(Requests)
    BY <1>a, <2>2, <2>3, <2>4, Asking
  <2>6. HomeTypes'
    BY <1>a, <1>b, <2>2, <2>5 DEF HomeTypes
  <2>7. r.q.text = typed' /\ r.q.start = current' - 1
        /\ r.q = [sort |-> r.q.sort, order |-> r.q.order, text |-> typed', start |-> current' - 1]
    BY <1>b, <2>1, <2>4
  <2>8. HomeFits(r)'
    BY <1>b, <2>4, <2>7 DEF HomeFits, Shown
  <2> QED
    BY <1>a, <1>b, <2>2, <2>4, <2>5, <2>6, <2>8, AskedInv
<1>2. CASE typed # NoText
  <2>1. params' = [params EXCEPT !.start = pg - 1, !.text = typed] /\ typed \in Texts
    BY <1>a, <1>2 DEF PagChange, HomeTypes
  <2>2. params' \in Query /\ params'.text = typed /\ params'.start = pg - 1
    BY <1>a, <1>b, <2>1 DEF Query
  <2>3. CASE params.start # pg - 1
    <3>1. asked' = Append(asked, Request("start", SearchQuery(sel, params')))
          /\ UNCHANGED <<listed, stuck>>
      BY <1>2, <2>3 DEF PagChange
    <3>2. PICK r : /\ r = Request("start", SearchQuery(sel, params'))
      OBVIOUS
    <3>3. r.kind = "start" /\ r \in Requests
          /\ r.q = [sort |-> sel.sort, order |-> sel.order, text |-> typed, start |-> pg - 1]
      BY <1>a, <1>b, <2>2, <3>2 DEF Request, Requests, SearchQuery, Query, HomeTypes
    <3>4. asked' = asked \o <<r>> /\ asked' \in Seq(Requests)
      BY <1>a, <3>1, <3>2, <3>3, Asking
    <3>5. HomeTypes'
      BY <1>a, <1>b, <2>2, <3>1, <3>4 DEF HomeTypes
    <3>6. HomeFits(r)'
      BY <1>b, <3>3 DEF HomeFits, Shown
    <3> QED
      BY <1>a, <1>b, <2>2, <3>3, <3>4, <3>5, <3>6, AskedInv
  <2>4. CASE params.start = pg - 1
    <3>1. /\ listed' = [listed EXCEPT !.met = TRUE]
          /\ asked' = [i \in DOMAIN asked |-> [asked[i] EXCEPT !.met = TRUE]]
          /\ stuck' = TRUE
      BY <1>2, <2>4 DEF PagChange
    <3>2. listed' \in Requests /\ listed'.met
      BY <1>a, <3>1, MarkedRequest DEF HomeTypes
    <3>3. asked' \in Seq(Requests) /\ (asked' # <<>> => asked'[Len(asked')].met)
      BY <1>a, <3>1, AllMarked
    <3>4. HomeTypes'
      BY <1>a, <1>b, <2>2, <3>1, <3>2, <3>3 DEF HomeTypes
    <3> QED
      BY <1>b, <2>2, <3>2, <3>3, <3>4, MarkedInv
  <2> QED
    BY <2>3, <2>4
<1> QED
  BY <1>1, <1>2

\* The board, step by step.
LEMMA HomeStepInv ==
    ASSUME HomeInv, [HomeNext]_homeVars
    PROVE  HomeInv'
<1>a. HomeTypes /\ params.text \in {typed, NoText} /\ params \in Query /\ asked \in Seq(Requests)
  BY DEF HomeInv, ListAgrees, HomeTypes
<1>b. FirstQuery \in Query /\ FirstQuery.text = NoText
  BY HomeAssumption DEF FirstQuery, Query
<1>c. Input => inputs' \in 0 .. MaxInputs /\ rejects' \in 0 .. MaxRejects
  <2>1. inputs \in 0 .. MaxInputs /\ rejects \in 0 .. MaxRejects /\ MaxInputs \in Nat
    BY <1>a, HomeAssumption DEF HomeTypes
  <2>2. ASSUME Input PROVE inputs < MaxInputs /\ inputs' = inputs + 1 /\ rejects' = rejects
    BY <2>2 DEF Input
  <2> QED
    BY <2>1, <2>2
<1>1. ASSUME NEW v \in Sorts, HandleSortMenuChange(v) PROVE HomeInv'
  <2>1. [sel EXCEPT !.sort = v] \in [sort : Sorts, order : Orders]
    BY <1>a DEF HomeTypes
  <2>2. [FirstQuery EXCEPT !.sort = v] \in Query /\ [FirstQuery EXCEPT !.sort = v].text = NoText
    BY <1>b DEF Query
  <2>3. Input /\ Select([sel EXCEPT !.sort = v], [FirstQuery EXCEPT !.sort = v])
    BY <1>1 DEF HandleSortMenuChange
  <2> QED
    BY <1>c, <2>1, <2>2, <2>3, SelectInv
<1>2. ASSUME NEW v \in Orders, HandleOrderMenuChange(v) PROVE HomeInv'
  <2>1. [sel EXCEPT !.order = v] \in [sort : Sorts, order : Orders]
    BY <1>a DEF HomeTypes
  <2>2. [FirstQuery EXCEPT !.order = v] \in Query
        /\ [FirstQuery EXCEPT !.order = v].text = NoText
    BY <1>b DEF Query
  <2>3. Input /\ Select([sel EXCEPT !.order = v], [FirstQuery EXCEPT !.order = v])
    BY <1>2 DEF HandleOrderMenuChange
  <2> QED
    BY <1>c, <2>1, <2>2, <2>3, SelectInv
<1>3. ASSUME NEW t \in Texts, TypeText(t) PROVE HomeInv'
  <2>1. /\ Input /\ typed' = t
        /\ params' = [params EXCEPT !.text = t]
        /\ asked' = [i \in DOMAIN asked |-> [asked[i] EXCEPT !.met = TRUE]]
        /\ listed' = [listed EXCEPT !.met = TRUE]
        /\ UNCHANGED <<sel, current, showVal, stuck>>
    BY <1>3 DEF TypeText
  <2>2. params' \in Query /\ params'.text = t
    BY <1>a, <2>1 DEF Query
  <2>3. listed' \in Requests /\ listed'.met
    BY <1>a, <2>1, MarkedRequest DEF HomeTypes
  <2>4. asked' \in Seq(Requests) /\ (asked' # <<>> => asked'[Len(asked')].met)
    BY <1>a, <2>1, AllMarked
  <2>5. HomeTypes'
    BY <1>a, <1>c, <2>1, <2>2, <2>3, <2>4 DEF HomeTypes
  <2> QED
    BY <2>1, <2>2, <2>3, <2>4, <2>5, MarkedInv
<1>4. CASE BtnSearch
  <2>1. Input /\ asked' = Append(asked, Request("search", SearchQuery(sel, params)))
        /\ UNCHANGED <<sel, typed, params, current, listed, showVal, stuck>>
    BY <1>4 DEF BtnSearch
  <2>2. PICK r : r = Request("search", SearchQuery(sel, params))
    OBVIOUS
  <2>3. r.kind = "search" /\ r \in Requests
        /\ r.q = [sort |-> sel.sort, order |-> sel.order, text |-> typed, start |-> params.start]
    BY <1>a, <2>2 DEF Request, Requests, SearchQuery, Query, HomeTypes
  <2>4. asked' = asked \o <<r>> /\ asked' \in Seq(Requests)
    BY <1>a, <2>1, <2>2, <2>3, Asking
  <2>5. HomeTypes'
    BY <1>a, <1>c, <2>1, <2>4 DEF HomeTypes
  <2>6. r.q.start = params.start /\ (params.start = 0 => r.q = Shown(1))
    <3>1. 1 - 1 = 0
      OBVIOUS
    <3> QED
      BY <2>3, <3>1 DEF Shown
  <2>7. Shown(1)' = Shown(1)
    BY <2>1 DEF Shown
  <2>8. HomeFits(r)'
    BY <2>3, <2>6, <2>7 DEF HomeFits
  <2> QED
    BY <1>a, <2>1, <2>3, <2>4, <2>5, <2>8, AskedInv
<1>5. CASE HandlePrevPage
  <2>1. Input /\ PagChange(current - 1) /\ current - 1 \in Nat \ {0}
    BY <1>5, <1>a DEF HandlePrevPage, HomeTypes
  <2> QED
    BY <1>c, <2>1, PagInv
<1>6. CASE HandleNextPage
  <2>1. Input /\ PagChange(current + 1) /\ current + 1 \in Nat \ {0}
    BY <1>6, <1>a DEF HandleNextPage, HomeTypes
  <2> QED
    BY <1>c, <2>1, PagInv
<1>7. ASSUME NEW i \in DOMAIN asked, SearchAnswered(i) PROVE HomeInv'
  <2> DEFINE c == asked[i].kind = "search"
  <2>1. /\ listed' = asked[i] /\ asked' = Left(i, c)
        /\ current' = (IF c THEN 1 ELSE current)
        /\ showVal' = TRUE /\ stuck' = FALSE
        /\ UNCHANGED <<sel, typed, params, inputs, rejects>>
    BY <1>7 DEF SearchAnswered
  <2>2. c \in BOOLEAN
    OBVIOUS
  <2>3. /\ i \in 1 .. Len(asked) /\ Len(asked) \in Nat
        /\ asked' \in Seq(Requests) /\ Len(asked') = Len(asked) - 1
        /\ asked' # <<>> => \/ asked'[Len(asked')].met
                            \/ ~c /\ asked'[Len(asked')] = asked[Len(asked)]
    BY <1>a, <2>1, <2>2, RequestsLeft
  <2>4. asked # <<>> /\ asked[i] \in Requests
    BY <1>a, <2>3, ElementOfSeq, EmptySeq
  <2>5. HomeTypes'
    <3>1. current' \in Nat \ {0}
      BY <1>a, <2>1 DEF HomeTypes
    <3>2. listed' \in Requests /\ showVal' \in BOOLEAN /\ stuck' \in BOOLEAN
      BY <2>1, <2>4
    <3> HIDE DEF c
    <3> QED
      BY <1>a, <2>1, <2>3, <3>1, <3>2 DEF HomeTypes
  <2>6. HomeFits(asked[Len(asked)])
    BY <2>4 DEF HomeInv
  <2>7. ASSUME asked' # <<>> PROVE HomeFits(asked[Len(asked)])'
    <3>1. CASE asked'[Len(asked')].met
      BY <3>1 DEF HomeFits
    <3>2. CASE ~c /\ asked'[Len(asked')] = asked[Len(asked)]
      BY <2>1, <2>6, <3>2 DEF HomeFits, Shown
    <3> QED
      BY <2>3, <2>7, <3>1, <3>2
  <2>8. ASSUME asked' = <<>>
        PROVE  \/ listed'.q = [sort |-> sel'.sort, order |-> sel'.order, text |-> typed',
                               start |-> current' - 1]
               \/ listed'.met
               \/ listed'.kind = "search" /\ listed'.q.start # 0
               \/ listed'.kind = "page"
                  /\ <<listed'.q.sort, listed'.q.order>> # <<sel'.sort, sel'.order>>
    <3>1. i = Len(asked)
      BY <2>3, <2>8, EmptySeq
    <3>2. HomeFits(listed') /\ UNCHANGED <<sel, typed>>
      BY <2>1, <2>6, <3>1
    <3>3. c <=> listed'.kind = "search"
      BY <2>1
    <3> HIDE DEF c
    <3>4. CASE c
      <4>1. current' - 1 = 0 /\ 1 - 1 = 0
        BY <2>1, <3>4
      <4> QED
        BY <3>2, <3>3, <3>4, <4>1 DEF HomeFits, Shown
    <3>5. CASE ~c
      <4>1. current' = current
        BY <2>1, <3>5
      <4> QED
        BY <3>2, <3>3, <3>5, <4>1 DEF HomeFits, Shown
    <3> QED
      BY <3>4, <3>5
  <2> QED
    BY <1>a, <2>1, <2>5, <2>7, <2>8 DEF HomeInv, ListAgrees
<1>8. ASSUME NEW i \in DOMAIN asked, SearchRejected(i) PROVE HomeInv'
  <2>1. /\ rejects < MaxRejects /\ rejects' = rejects + 1
        /\ asked' = Left(i, FALSE)
        /\ listed' = [listed EXCEPT !.met = TRUE]
        /\ stuck' = TRUE
        /\ UNCHANGED <<sel, typed, params, current, showVal, inputs>>
    BY <1>8 DEF SearchRejected
  <2>2. /\ i \in 1 .. Len(asked) /\ Len(asked) \in Nat
        /\ asked' \in Seq(Requests)
        /\ asked' # <<>> => \/ asked'[Len(asked')].met
                            \/ asked'[Len(asked')] = asked[Len(asked)]
    BY <1>a, <2>1, RequestsLeft
  <2>3. listed' \in Requests /\ listed'.met
    BY <1>a, <2>1, MarkedRequest DEF HomeTypes
  <2>4. rejects' \in 0 .. MaxRejects
    BY <1>a, <2>1, HomeAssumption DEF HomeTypes
  <2>5. HomeTypes'
    BY <1>a, <2>1, <2>2, <2>3, <2>4 DEF HomeTypes
  <2>6. HomeFits(asked[Len(asked)])
    BY <2>2, EmptySeq DEF HomeInv
  <2>7. ASSUME asked' # <<>> PROVE HomeFits(asked[Len(asked)])'
    <3>1. CASE asked'[Len(asked')].met
      BY <3>1 DEF HomeFits
    <3>2. CASE asked'[Len(asked')] = asked[Len(asked)]
      BY <2>1, <2>6, <3>2 DEF HomeFits, Shown
    <3> QED
      BY <2>2, <2>7, <3>1, <3>2
  <2> QED
    BY <1>a, <2>1, <2>3, <2>5, <2>7 DEF HomeInv, ListAgrees
<1>9. CASE UNCHANGED homeVars
  BY <1>9 DEF homeVars, HomeInv, ListAgrees, HomeTypes, HomeFits, Shown
<1> QED
  BY <1>1, <1>2, <1>3, <1>4, <1>5, <1>6, <1>7, <1>8, <1>9 DEF HomeNext, HomeAnswer

\* The effects of the first render and defaultgetFomoList ask for what is shown.
LEMMA HomeInitInv ==
    ASSUME HomeInit
    PROVE  HomeInv
<1>1. FirstQuery \in Query /\ FirstQuery.text = NoText /\ NoText \in Texts
  BY HomeAssumption DEF FirstQuery, Query
<1>2. NoList \in Requests
  <2>1. [FirstQuery EXCEPT !.start = ListPages] \in Query
    BY <1>1, HomeAssumption DEF Query
  <2> QED
    BY <2>1 DEF NoList, Request, Requests
<1>3. Request("start", FirstQuery) \in Requests /\ Request("search", FirstQuery) \in Requests
      /\ Request("default", FirstQuery) \in Requests
  BY <1>1 DEF Request, Requests
<1>4. PICK a, b, d : /\ a = Request("start", FirstQuery) /\ b = Request("search", FirstQuery)
                     /\ d = Request("default", FirstQuery)
  OBVIOUS
<1>5. asked = <<a, b, d>> /\ asked \in Seq(Requests) /\ asked # <<>> /\ asked[Len(asked)] = d
  BY <1>3, <1>4 DEF HomeInit
<1>6. d.q = FirstQuery /\ d.kind = "default"
  BY <1>4 DEF Request
<1>7. MaxInputs \in Nat /\ MaxRejects \in Nat
  BY HomeAssumption
<1>8. HomeTypes
  <2>1. sel \in [sort : Sorts, order : Orders] /\ inputs \in 0 .. MaxInputs
        /\ rejects \in 0 .. MaxRejects /\ current \in Nat \ {0}
    BY <1>7, HomeAssumption DEF HomeInit
  <2>2. typed \in Texts /\ params \in Query /\ listed \in Requests
    BY <1>1, <1>2 DEF HomeInit
  <2>3. showVal \in BOOLEAN /\ stuck \in BOOLEAN
    BY DEF HomeInit
  <2> QED
    BY <1>5, <2>1, <2>2, <2>3 DEF HomeTypes
<1>9. HomeFits(d)
  BY <1>6 DEF HomeFits, Shown, HomeInit, FirstQuery
<1> QED
  BY <1>1, <1>5, <1>8, <1>9 DEF HomeInv, ListAgrees, HomeInit

-----------------------------------------------------------------------------
(* The comments of a project (CommentList): pages without gaps. *)

\* The paging, what loadData was made for, and the history.
ListPage == [current : Nat \ {0}, more : BOOLEAN, loading : BOOLEAN]
ListLoader == [project : Projects \cup {NoProject}, page : Nat \ {0}, more : BOOLEAN, none : BOOLEAN]
ListPast == [moved : BOOLEAN, partial : BOOLEAN, twice : BOOLEAN]

\* The values of the state; loadData was made when the page was turned last.
LstTypes ==
    /\ ListTypes
    /\ visits \in 1 .. MaxVisits
    /\ loader.page = page.current

\* Before another project is opened everything is about the first.
LstFirst ==
    ~past.moved =>
        /\ info \in {NoProject, FirstProject} /\ loader.project \in {NoProject, FirstProject}
        /\ \A l \in lookups : l[1] = FirstProject
        /\ \A r \in Reads : reading[r].project # NoProject =>
              reading[r].project = FirstProject /\ info = FirstProject
        /\ \A i \in DOMAIN list : list[i] = FirstProject
        /\ DOMAIN list # {} => info = FirstProject

\* What comes before number n is in the list.
Reached(n) == 0 .. (n - 1) \subseteq DOMAIN list

\* Pages that were full, and asked for once, leave no gap: the first comes first, and a page
\* is asked for when all before it is there.
LstFull ==
    ~past.moved /\ ~past.partial /\ ~past.twice =>
        /\ \A i \in DOMAIN list : Reached(i + 1)
        /\ DOMAIN list # {} => Reached(PageSize)
        /\ loader.project = NoProject => loader.page = 1
        /\ loader.more => Reached(PageSize * (loader.page - 1))
        /\ \A r, s \in Reads : reading[r].next /\ reading[s].next => r = s
        /\ \A r \in Reads : reading[r].next =>
              reading[r].start = PageSize * (loader.page - 1) /\ Reached(reading[r].start)
        /\ \A r \in Reads : ~reading[r].next => reading[r].start = 0

\* The inductive invariant of the list.
LstInv == LstTypes /\ LstFirst /\ LstFull

\* The list has no gaps, and is of the project shown.
LEMMA LstInvAgrees ==
    ASSUME LstInv
    PROVE  CommentListAgrees
<1>1. \A i \in DOMAIN list : i \in Nat
  BY DEF LstInv, LstTypes, ListTypes
<1>2. ASSUME ~past.moved, ~past.partial, ~past.twice, NEW i \in DOMAIN list
      PROVE  0 .. i \subseteq DOMAIN list
  <2>1. Reached(i + 1) /\ (i + 1) - 1 = i
    BY <1>1, <1>2 DEF LstInv, LstFull
  <2>2. 0 .. ((i + 1) - 1) \subseteq DOMAIN list
    BY <2>1 DEF Reached
  <2> QED
    BY <2>1, <2>2, Zenon
<1>3. ~past.moved => \A i \in DOMAIN list : list[i] = info
  BY DEF LstInv, LstFirst
<1> QED
  BY <1>2, <1>3 DEF LstInv, LstTypes, CommentListAgrees

\* A page that is not partly full is full or empty.
LEMMA FullOrEmpty ==
    ASSUME LstTypes, NEW rd \in Read, rd.project # NoProject,
           Cardinality(Found(rd)) \notin 1 .. (PageSize - 1)
    PROVE  Found(rd) = {} \/ Found(rd) = rd.start .. (rd.start + PageSize - 1)
<1> DEFINE n == chain[rd.project]
           a == rd.start
<1>1. n \in Nat /\ a \in Nat /\ PageSize \in Nat \ {0}
  BY ListAssumption DEF LstTypes, ListTypes, Read
<1>2. Found(rd) = {i \in a .. (a + PageSize - 1) : i < n}
  BY DEF Found
<1> HIDE DEF n, a
<1>3. CASE n <= a
  BY <1>1, <1>2, <1>3
<1>4. CASE n >= a + PageSize
  <2>1. Found(rd) = a .. (a + PageSize - 1)
    BY <1>1, <1>2, <1>4
  <2> QED
    BY <2>1 DEF a
<1>5. CASE a < n /\ n < a + PageSize
  <2>1. Found(rd) = a .. (n - 1)
    BY <1>1, <1>2, <1>5
  <2>2. Cardinality(a .. (n - 1)) = n - a
    BY <1>1, <1>5, FS_Interval
  <2> QED
    BY <1>1, <1>5, <2>1, <2>2
<1> QED
  BY <1>1, <1>3, <1>4, <1>5

\* Read r begins as n.
LEMMA CommentsAsked ==
    ASSUME LstTypes, NEW r \in Reads, NEW n \in Read, reading' = [reading EXCEPT ![r] = n]
    PROVE  /\ reading' \in [Reads -> Read] /\ reading'[r] = n
           /\ \A s \in Reads \ {r} : reading'[s] = reading[s]
BY DEF LstTypes, ListTypes

\* What changes neither the list nor what loadData captured, and no read of a next page, keeps
\* the list full.
LEMMA FullKept ==
    ASSUME LstTypes, LstFull, UNCHANGED <<list, loader>>,
           ~past'.moved => ~past.moved, ~past'.partial => ~past.partial,
           ~past'.twice => ~past.twice,
           \A s \in Reads : \/ reading'[s] = reading[s]
                            \/ ~reading'[s].next /\ reading'[s].start = 0
    PROVE  LstFull'
<1> SUFFICES ASSUME ~past'.moved, ~past'.partial, ~past'.twice
             PROVE  LstFull'
  BY DEF LstFull
<1>a. ~past.moved /\ ~past.partial /\ ~past.twice
  OBVIOUS
<1>1. \A n : Reached(n)' <=> Reached(n)
  BY DEF Reached
<1>2. /\ \A i \in DOMAIN list : Reached(i + 1)
      /\ DOMAIN list # {} => Reached(PageSize)
      /\ loader.project = NoProject => loader.page = 1
      /\ loader.more => Reached(PageSize * (loader.page - 1))
  BY <1>a DEF LstFull
<1>3. /\ \A r, s \in Reads : reading'[r].next /\ reading'[s].next => r = s
      /\ \A r \in Reads : reading'[r].next =>
              reading'[r].start = PageSize * (loader.page - 1) /\ Reached(reading'[r].start)
      /\ \A r \in Reads : ~reading'[r].next => reading'[r].start = 0
  BY <1>a DEF LstFull
<1> QED
  BY <1>1, <1>2, <1>3 DEF LstFull, Reached

\* A read of the first page starts: the effect on curFomoInfo, or a comment of the user.
LEMMA FirstPageAsked ==
    ASSUME LstInv, NEW p \in Projects, GetCommentsByIndex(p, 0, FALSE), info' = p,
           ~past.moved => p = FirstProject,
           lookups' \subseteq lookups, chain' \in [Projects -> 0 .. MaxComments],
           page' = [page EXCEPT !.loading = TRUE],
           UNCHANGED <<fomo_pid, list, loader, past, visits>>
    PROVE  LstInv'
<1>a. LstTypes /\ LstFirst /\ LstFull
  BY DEF LstInv
<1> DEFINE n == [project |-> p, start |-> 0, next |-> FALSE]
<1>b. n \in Read /\ n.project = p /\ n.start = 0 /\ ~n.next
  BY DEF Read
<1>c. PICK r \in Reads : reading' = [reading EXCEPT ![r] = n]
  BY DEF GetCommentsByIndex
<1> HIDE DEF n
<1>1. /\ reading' \in [Reads -> Read]
      /\ reading'[r].project = p /\ reading'[r].start = 0 /\ ~reading'[r].next
      /\ \A s \in Reads \ {r} : reading'[s] = reading[s]
  BY <1>a, <1>b, <1>c, CommentsAsked
<1>2. page' \in ListPage /\ page'.current = page.current
  BY <1>a DEF LstTypes, ListTypes, ListPage
<1>3. LstTypes'
  BY <1>a, <1>1, <1>2 DEF LstTypes, ListTypes, ListPage
<1>4. LstFirst'
  BY <1>a, <1>1 DEF LstFirst
<1>5. LstFull'
  BY <1>a, <1>1, FullKept
<1> QED
  BY <1>3, <1>4, <1>5 DEF LstInv

\* The page is turned: loadData is made anew.
LEMMA PageTurned ==
    ASSUME LstTypes, NEW more \in BOOLEAN, NEW none \in BOOLEAN, TurnPage(more, none)
    PROVE  /\ page' \in ListPage /\ loader' \in ListLoader /\ loader'.page = page'.current
           /\ loader'.project = info /\ loader'.page = loader.page + 1 /\ (loader'.more <=> more)
<1>1. page.current \in Nat \ {0} /\ loader.page = page.current /\ info \in Projects \cup {NoProject}
  BY DEF LstTypes, ListTypes
<1>2. page.current + 1 \in Nat \ {0}
  BY <1>1
<1> QED
  BY <1>1, <1>2 DEF TurnPage, ListPage, ListLoader

\* The user scrolls to the end.
LEMMA ScrollInv ==
    ASSUME LstInv, Scroll
    PROVE  LstInv'
<1>a. LstTypes /\ LstFirst /\ LstFull
  BY DEF LstInv
<1>1. /\ DOMAIN list # {} /\ loader.more
      /\ past' = [past EXCEPT !.twice = @ \/ \E r \in Reads : reading[r].next]
      /\ UNCHANGED <<fomo_pid, info, lookups, chain, list, visits, own, lost>>
  BY DEF Scroll
<1>2. PICK t \in BOOLEAN : t = (past.twice \/ \E r \in Reads : reading[r].next)
  OBVIOUS
<1>3. /\ past' \in ListPast /\ past'.moved = past.moved /\ past'.partial = past.partial
      /\ ~past'.twice => ~past.twice /\ \A r \in Reads : ~reading[r].next
  <2>1. past' = [past EXCEPT !.twice = t]
    BY <1>1, <1>2
  <2>2. t <=> past.twice \/ \E r \in Reads : reading[r].next
    BY <1>2
  <2> QED
    BY <1>a, <2>1, <2>2 DEF LstTypes, ListTypes, ListPast
<1>4. /\ loader.page \in Nat \ {0} /\ PageSize \in Nat \ {0} /\ reading \in [Reads -> Read]
      /\ page \in ListPage /\ loader \in ListLoader /\ info \in Projects \cup {NoProject}
      /\ loader.page = page.current
  BY <1>a, ListAssumption DEF LstTypes, ListTypes, ListPage, ListLoader
<1>5. CASE loader.project = NoProject /\ UNCHANGED reading
  <2>1. TurnPage(page.more, DOMAIN list = {})
    BY <1>5 DEF Scroll
  <2>2. page.more \in BOOLEAN /\ (DOMAIN list = {}) \in BOOLEAN
    BY <1>4 DEF ListPage
  <2>3. /\ page' \in ListPage /\ loader' \in ListLoader /\ loader'.page = page'.current
        /\ loader'.project = info /\ loader'.page = loader.page + 1
    BY <1>a, <2>1, <2>2, PageTurned
  <2>4. LstTypes'
    BY <1>a, <1>1, <1>3, <1>5, <2>3 DEF LstTypes, ListTypes, ListPage, ListLoader, ListPast
  <2>5. LstFirst'
    BY <1>a, <1>1, <1>3, <1>5, <2>3 DEF LstFirst
  <2>6. LstFull'
    <3> SUFFICES ASSUME ~past'.moved, ~past'.partial, ~past'.twice PROVE LstFull'
      BY DEF LstFull
    <3>1. ~past.moved /\ ~past.partial /\ ~past.twice /\ \A r \in Reads : ~reading[r].next
      BY <1>3
    <3>2. /\ loader.page = 1 /\ Reached(PageSize) /\ \A i \in DOMAIN list : Reached(i + 1)
          /\ \A r \in Reads : ~reading[r].next => reading[r].start = 0
      BY <1>a, <1>1, <1>5, <3>1 DEF LstFull
    <3>3. PageSize * (loader'.page - 1) = PageSize
      BY <1>4, <2>3, <3>2
    <3>4. info # NoProject
      BY <1>a, <1>1, <3>1, ListAssumption DEF LstFirst
    <3> QED
      BY <1>1, <1>5, <2>3, <3>1, <3>2, <3>3, <3>4 DEF LstFull, Reached
  <2> QED
    BY <2>4, <2>5, <2>6 DEF LstInv
<1>6. CASE loader.project # NoProject
  <2> DEFINE start == PageSize * (loader.page - 1)
  <2>1. /\ GetCommentsByIndex(loader.project, start, TRUE)
        /\ page' = [page EXCEPT !.loading = TRUE] /\ UNCHANGED loader
    BY <1>6 DEF Scroll
  <2>2. start \in Nat /\ loader.project \in Projects
    BY <1>4, <1>6 DEF ListLoader
  <2> DEFINE n == [project |-> loader.project, start |-> start, next |-> TRUE]
  <2>b. n \in Read /\ n.project = loader.project /\ n.start = start /\ n.next
    BY <2>2 DEF Read
  <2>3. PICK r \in Reads : reading' = [reading EXCEPT ![r] = n]
    BY <2>1 DEF GetCommentsByIndex
  <2> HIDE DEF n, start
  <2>4. /\ reading' \in [Reads -> Read]
        /\ reading'[r].project = loader.project /\ reading'[r].start = start /\ reading'[r].next
        /\ \A s \in Reads \ {r} : reading'[s] = reading[s]
    BY <1>a, <2>b, <2>3, CommentsAsked
  <2>5. page' \in ListPage /\ page'.current = page.current
    BY <1>4, <2>1 DEF ListPage
  <2>6. LstTypes'
    BY <1>a, <1>1, <1>3, <2>1, <2>4, <2>5 DEF LstTypes, ListTypes, ListPage, ListPast
  <2>7. LstFirst'
    BY <1>a, <1>1, <1>3, <1>6, <2>1, <2>4 DEF LstFirst
  <2>8. LstFull'
    <3> SUFFICES ASSUME ~past'.moved, ~past'.partial, ~past'.twice PROVE LstFull'
      BY DEF LstFull
    <3>1. ~past.moved /\ ~past.partial /\ ~past.twice /\ \A s \in Reads : ~reading[s].next
      BY <1>3
    <3>2. /\ \A i \in DOMAIN list : Reached(i + 1)
          /\ DOMAIN list # {} => Reached(PageSize)
          /\ Reached(start)
          /\ \A s \in Reads : ~reading[s].next => reading[s].start = 0
      BY <1>a, <1>1, <3>1 DEF LstFull, start
    <3>3. \A s \in Reads : reading'[s].next => s = r
      BY <2>4, <3>1
    <3>4. \A s \in Reads : reading'[s].next =>
              reading'[s].start = PageSize * (loader.page - 1) /\ Reached(reading'[s].start)
      BY <2>4, <3>2, <3>3 DEF start
    <3>5. \A s \in Reads : ~reading'[s].next => reading'[s].start = 0
      BY <2>4, <3>2
    <3>6. loader.more => Reached(PageSize * (loader.page - 1))
      BY <3>2 DEF start
    <3> QED
      BY <1>1, <1>6, <2>1, <3>2, <3>3, <3>4, <3>5, <3>6 DEF LstFull, Reached
  <2> QED
    BY <2>6, <2>7, <2>8 DEF LstInv
<1> QED
  BY <1>5, <1>6 DEF Scroll

\* A read is answered.
LEMMA ReadAnsweredInv ==
    ASSUME LstInv, NEW r \in Reads, ReadAnswered(r)
    PROVE  LstInv'
<1>a. LstTypes /\ LstFirst /\ LstFull
  BY DEF LstInv
<1> DEFINE rd == reading[r]
           found == Found(rd)
<1>1. /\ rd.project # NoProject
      /\ reading' = [reading EXCEPT ![r] = NoRead]
      /\ list' = Merged(rd)
      /\ IF rd.next THEN TurnPage(page.more /\ found # {}, DOMAIN list' = {})
         ELSE /\ page' = [page EXCEPT !.more = page.more /\ found # {}, !.loading = FALSE]
              /\ UNCHANGED loader
      /\ past' = [past EXCEPT !.partial = @ \/ Cardinality(found) \in 1..(PageSize - 1)]
      /\ UNCHANGED <<fomo_pid, info, lookups, chain, visits, scrolls, own, lost>>
  BY DEF ReadAnswered
<1>2. /\ rd \in Read /\ rd.start \in Nat /\ rd.project \in Projects
      /\ PageSize \in Nat \ {0} /\ loader.page \in Nat \ {0} /\ loader.page = page.current
      /\ page \in ListPage /\ past \in ListPast /\ reading \in [Reads -> Read]
  <2>1. rd \in Read
    BY <1>a DEF LstTypes, ListTypes
  <2> QED
    BY <1>a, <1>1, <2>1, ListAssumption DEF LstTypes, ListTypes, ListPage, ListPast, Read
<1>3. found \subseteq Nat
  <2>1. rd.start .. (rd.start + PageSize - 1) \subseteq Nat
    BY <1>2
  <2> QED
    BY <2>1 DEF Found
<1>4. /\ DOMAIN list' = DOMAIN list \cup found
      /\ \A i \in DOMAIN list' : list'[i] = IF i \in DOMAIN list THEN list[i] ELSE rd.project
  BY <1>1 DEF Merged
<1>5. PICK pt \in BOOLEAN : pt = (past.partial \/ Cardinality(found) \in 1..(PageSize - 1))
  OBVIOUS
<1>6. /\ past' \in ListPast /\ past'.moved = past.moved /\ past'.twice = past.twice
      /\ past'.partial <=> past.partial \/ Cardinality(found) \in 1..(PageSize - 1)
  <2>1. past' = [past EXCEPT !.partial = pt]
    BY <1>1, <1>5
  <2>2. pt <=> past.partial \/ Cardinality(found) \in 1..(PageSize - 1)
    BY <1>5
  <2> HIDE DEF found
  <2> QED
    BY <1>2, <2>1, <2>2 DEF ListPast
<1>7. found = {} \/ found = rd.start .. (rd.start + PageSize - 1) \/ past'.partial
  BY <1>a, <1>1, <1>2, <1>6, FullOrEmpty
<1> HIDE DEF found
<1>8. PICK more \in BOOLEAN : more = (page.more /\ found # {})
  BY <1>2 DEF ListPage
<1>b. more => found # {}
  BY <1>8
<1>9. /\ page' \in ListPage /\ loader' \in ListLoader /\ loader'.page = page'.current
      /\ loader' # loader => /\ rd.next /\ loader'.project = info
                             /\ loader'.page = loader.page + 1 /\ (loader'.more <=> more)
      /\ rd.next => /\ loader'.project = info /\ loader'.page = loader.page + 1
                    /\ (loader'.more <=> more)
  <2>1. CASE rd.next
    <3>1. TurnPage(more, DOMAIN list' = {}) /\ (DOMAIN list' = {}) \in BOOLEAN
      BY <1>1, <1>8, <2>1
    <3> QED
      BY <1>a, <2>1, <3>1, PageTurned
  <2>2. CASE ~rd.next
    <3>1. page' = [page EXCEPT !.more = more, !.loading = FALSE] /\ UNCHANGED loader
      BY <1>1, <1>8, <2>2
    <3>2. page' \in ListPage /\ page'.current = page.current
      BY <1>2, <3>1 DEF ListPage
    <3>3. loader \in ListLoader
      BY <1>a DEF LstTypes, ListTypes, ListLoader
    <3> QED
      BY <1>2, <2>2, <3>1, <3>2, <3>3
  <2> QED
    BY <2>1, <2>2
<1>10. /\ NoRead \in Read /\ NoRead.project = NoProject /\ ~NoRead.next /\ NoRead.start = 0
  BY DEF NoRead, Read
<1>11. /\ reading' \in [Reads -> Read] /\ reading'[r] = NoRead
       /\ \A s \in Reads \ {r} : reading'[s] = reading[s]
  BY <1>1, <1>2, <1>10
<1>12. LstTypes'
  <2>1. DOMAIN list' \subseteq Nat /\ \A i \in DOMAIN list' : list'[i] \in Projects
    BY <1>a, <1>2, <1>3, <1>4 DEF LstTypes, ListTypes
  <2> QED
    BY <1>a, <1>1, <1>6, <1>9, <1>11, <2>1 DEF LstTypes, ListTypes, ListPage, ListLoader, ListPast
<1>13. LstFirst'
  <2> SUFFICES ASSUME ~past'.moved PROVE LstFirst'
    BY DEF LstFirst
  <2>1. ~past.moved /\ rd.project = FirstProject /\ info = FirstProject
    BY <1>a, <1>1, <1>6 DEF LstFirst
  <2>2. \A i \in DOMAIN list' : list'[i] = FirstProject
    BY <1>a, <1>4, <2>1 DEF LstFirst
  <2>3. \A s \in Reads : reading'[s].project # NoProject =>
              reading'[s].project = FirstProject /\ info = FirstProject
    BY <1>a, <1>10, <1>11, <2>1 DEF LstFirst
  <2>4. loader'.project \in {NoProject, FirstProject}
    BY <1>a, <1>9, <2>1 DEF LstFirst
  <2> QED
    BY <1>a, <1>1, <2>1, <2>2, <2>3, <2>4 DEF LstFirst
<1>14. LstFull'
  <2> SUFFICES ASSUME ~past'.moved, ~past'.partial, ~past'.twice PROVE LstFull'
    BY DEF LstFull
  <2>1. ~past.moved /\ ~past.partial /\ ~past.twice
    BY <1>6
  <2>2. /\ \A i \in DOMAIN list : Reached(i + 1)
        /\ DOMAIN list # {} => Reached(PageSize)
        /\ loader.project = NoProject => loader.page = 1
        /\ loader.more => Reached(PageSize * (loader.page - 1))
        /\ \A q, s \in Reads : reading[q].next /\ reading[s].next => q = s
        /\ \A s \in Reads : reading[s].next =>
              reading[s].start = PageSize * (loader.page - 1) /\ Reached(reading[s].start)
        /\ \A s \in Reads : ~reading[s].next => reading[s].start = 0
    BY <1>a, <2>1 DEF LstFull
  <2>3. Reached(rd.start) \/ rd.start = 0
    BY <2>2
  <2>4. 0 .. (rd.start - 1) \subseteq DOMAIN list
    <3>1. CASE rd.start = 0
      BY <3>1
    <3>2. CASE Reached(rd.start)
      BY <3>2 DEF Reached
    <3> QED
      BY <2>3, <3>1, <3>2
  <2>5. \A i \in DOMAIN list : i \in Nat
    BY <1>a DEF LstTypes, ListTypes
  \* A full page is reached up to its end.
  <2>6. found # {} => 0 .. (rd.start + PageSize - 1) \subseteq DOMAIN list'
    <3> SUFFICES ASSUME found # {}, NEW i \in 0 .. (rd.start + PageSize - 1)
                 PROVE  i \in DOMAIN list'
      OBVIOUS
    <3>1. CASE i <= rd.start - 1
      BY <1>2, <1>4, <2>4, <3>1
    <3>2. CASE i >= rd.start
      BY <1>2, <1>4, <1>7, <3>2
    <3> QED
      BY <1>2, <3>1, <3>2
  <2>7. \A i \in DOMAIN list' : Reached(i + 1)'
    <3> SUFFICES ASSUME NEW i \in DOMAIN list', NEW j \in 0 .. ((i + 1) - 1)
                 PROVE  j \in DOMAIN list'
      BY DEF Reached
    <3>1. CASE i \in DOMAIN list
      BY <1>4, <2>2, <3>1 DEF Reached
    <3>2. CASE i \in found
      <4>1. i \in rd.start .. (rd.start + PageSize - 1)
        BY <1>7, <3>2
      <4>2. i \in Nat /\ j \in 0 .. (rd.start + PageSize - 1)
        BY <1>2, <4>1
      <4> QED
        BY <2>6, <3>2, <4>2
    <3> QED
      BY <1>4, <3>1, <3>2
  <2>8. DOMAIN list' # {} => Reached(PageSize)'
    <3>1. CASE DOMAIN list # {}
      BY <1>4, <2>2, <3>1 DEF Reached
    <3>2. CASE found # {}
      <4>1. 0 .. (PageSize - 1) \subseteq 0 .. (rd.start + PageSize - 1)
        BY <1>2
      <4> QED
        BY <2>6, <3>2, <4>1 DEF Reached
    <3> QED
      BY <1>4, <3>1, <3>2
  <2>9. (loader.project = NoProject => loader.page = 1)'
    <3>1. info # NoProject
      BY <1>a, <1>1, <2>1, ListAssumption DEF LstFirst
    <3> QED
      BY <1>9, <2>2, <3>1
  <2>10. (loader.more => Reached(PageSize * (loader.page - 1)))'
    <3>1. CASE rd.next
      <4>1. rd.start = PageSize * (loader.page - 1)
        BY <2>2, <3>1
      <4>2. loader'.page = loader.page + 1
        BY <1>9, <3>1
      <4>3. PageSize * (loader'.page - 1) = rd.start + PageSize
        BY <1>2, <4>1, <4>2
      <4>4. loader'.more => found # {}
        BY <1>9, <1>b, <3>1
      <4>5. loader'.more => 0 .. ((PageSize * (loader'.page - 1)) - 1) \subseteq DOMAIN list'
        BY <1>2, <2>6, <4>3, <4>4
      <4> QED
        BY <4>5 DEF Reached
    <3>2. CASE ~rd.next
      BY <1>4, <1>9, <2>2, <3>2 DEF Reached
    <3> QED
      BY <3>1, <3>2
  <2>11. \A s \in Reads : reading'[s].next => s # r /\ reading'[s] = reading[s] /\ ~rd.next
    BY <1>10, <1>11, <2>2
  <2>12. \A s \in Reads : reading'[s].next =>
              /\ reading'[s].start = PageSize * (loader'.page - 1)
              /\ Reached(reading[s].start)'
    BY <1>4, <1>9, <2>2, <2>11 DEF Reached
  <2>13. \A s \in Reads : ~reading'[s].next => reading'[s].start = 0
    BY <1>10, <1>11, <2>2
  <2> QED
    BY <2>2, <2>7, <2>8, <2>9, <2>10, <2>11, <2>12, <2>13 DEF LstFull, Reached
<1> QED
  BY <1>12, <1>13, <1>14 DEF LstInv

\* The list of comments, step by step.
LEMMA LstStepInv ==
    ASSUME LstInv, [ListNext]_listVars
    PROVE  LstInv'
<1>a. LstTypes /\ LstFirst /\ LstFull
  BY DEF LstInv
<1>1. ASSUME NEW p \in Projects, OpenProject(p) PROVE LstInv'
  <2>1. /\ visits < MaxVisits /\ visits' = visits + 1 /\ fomo_pid' = p
        /\ lookups' = lookups \cup {<<p, visits + 1>>}
        /\ page' = [page EXCEPT !.loading = TRUE]
        /\ past' = [past EXCEPT !.moved = TRUE]
        /\ UNCHANGED <<info, chain, list, loader, reading>>
    BY <1>1 DEF OpenProject
  <2>2. visits + 1 \in 0 .. MaxVisits /\ visits' \in 1 .. MaxVisits
    BY <1>a, <2>1, ListAssumption DEF LstTypes
  <2>3. page' \in ListPage /\ page'.current = page.current /\ past' \in ListPast /\ past'.moved
    BY <1>a, <2>1 DEF LstTypes, ListTypes, ListPage, ListPast
  <2>4. LstTypes'
    BY <1>a, <2>1, <2>2, <2>3 DEF LstTypes, ListTypes, ListPage, ListPast
  <2> QED
    BY <2>3, <2>4 DEF LstInv, LstFirst, LstFull
<1>2. ASSUME NEW p \in Projects, OthersComment(p) PROVE LstInv'
  <2>1. /\ chain[p] < MaxComments /\ chain' = [chain EXCEPT ![p] = @ + 1]
        /\ UNCHANGED <<fomo_pid, info, lookups, list, page, loader, reading, past, visits>>
    BY <1>2 DEF OthersComment
  <2>2. chain' \in [Projects -> 0 .. MaxComments]
    BY <1>a, <2>1, ListAssumption DEF LstTypes, ListTypes
  <2>3. LstTypes'
    BY <1>a, <2>1, <2>2 DEF LstTypes, ListTypes
  <2> QED
    BY <1>a, <2>1, <2>3, FullKept DEF LstInv, LstFirst
<1>3. ASSUME NEW l \in lookups, LookupAnswered(l) PROVE LstInv'
  <2>1. l[1] \in Projects /\ (~past.moved => l[1] = FirstProject)
    BY <1>a DEF LstTypes, ListTypes, LstFirst
  <2>2. /\ lookups' \subseteq lookups /\ info' = l[1] /\ GetCommentsByIndex(l[1], 0, FALSE)
        /\ page' = [page EXCEPT !.loading = TRUE]
        /\ UNCHANGED <<fomo_pid, chain, list, loader, past, visits>>
    BY <1>3 DEF LookupAnswered
  <2>3. chain' \in [Projects -> 0 .. MaxComments]
    BY <1>a, <2>2 DEF LstTypes, ListTypes
  <2> QED
    BY <2>1, <2>2, <2>3, FirstPageAsked
<1>4. ASSUME NEW l \in lookups, LookupRejected(l) PROVE LstInv'
  <2>1. /\ lookups' \subseteq lookups
        /\ UNCHANGED <<fomo_pid, info, chain, list, page, loader, reading, past, visits>>
    BY <1>4 DEF LookupRejected
  <2>2. LstTypes'
    BY <1>a, <2>1 DEF LstTypes, ListTypes
  <2> QED
    BY <1>a, <2>1, <2>2, FullKept DEF LstInv, LstFirst
<1>5. ASSUME NEW r \in Reads, ReadRejected(r) PROVE LstInv'
  <2>1. /\ reading' = [reading EXCEPT ![r] = NoRead]
        /\ past' = [past EXCEPT !.partial = TRUE]
        /\ UNCHANGED <<fomo_pid, info, lookups, chain, list, page, loader, visits>>
    BY <1>5 DEF ReadRejected
  <2>2. past' \in ListPast /\ past'.partial /\ past'.moved = past.moved
    BY <1>a, <2>1 DEF LstTypes, ListTypes, ListPast
  <2>3. /\ NoRead \in Read /\ NoRead.project = NoProject
        /\ reading' \in [Reads -> Read] /\ reading'[r] = NoRead
        /\ \A s \in Reads \ {r} : reading'[s] = reading[s]
    BY <1>a, <2>1 DEF LstTypes, ListTypes, NoRead, Read
  <2>4. LstTypes'
    BY <1>a, <2>1, <2>2, <2>3 DEF LstTypes, ListTypes, ListPast
  <2>5. LstFirst'
    BY <1>a, <2>1, <2>2, <2>3 DEF LstFirst
  <2> QED
    BY <2>2, <2>4, <2>5 DEF LstInv, LstFull
<1>6. CASE OwnComment
  <2>1. /\ info # NoProject /\ chain[info] < MaxComments
        /\ chain' = [chain EXCEPT ![info] = @ + 1]
        /\ GetCommentsByIndex(info, 0, FALSE)
        /\ page' = [page EXCEPT !.loading = TRUE]
        /\ UNCHANGED <<fomo_pid, info, lookups, list, loader, past, visits>>
    BY <1>6 DEF OwnComment
  <2>2. info \in Projects /\ (~past.moved => info = FirstProject)
    BY <1>a, <2>1 DEF LstTypes, ListTypes, LstFirst
  <2>3. chain' \in [Projects -> 0 .. MaxComments]
    BY <1>a, <2>1, <2>2, ListAssumption DEF LstTypes, ListTypes
  <2> QED
    BY <2>1, <2>2, <2>3, FirstPageAsked
<1>7. CASE UNCHANGED listVars
  <2>1. LstTypes'
    BY <1>a, <1>7 DEF listVars, LstTypes, ListTypes
  <2> QED
    BY <1>a, <1>7, <2>1, FullKept DEF listVars, LstInv, LstFirst
<1> QED
  BY <1>1, <1>2, <1>3, <1>4, <1>5, <1>6, <1>7, ScrollInv, ReadAnsweredInv DEF ListNext

\* The list is empty at first.
LEMMA LstInitInv ==
    ASSUME ListInit
    PROVE  LstInv
<1>1. /\ NoRead \in Read /\ NoRead.project = NoProject /\ ~NoRead.next /\ NoRead.start = 0
  BY DEF NoRead, Read
<1>2. MaxVisits \in Nat \ {0} /\ FirstProject \in Projects /\ PageSize \in Nat \ {0}
  BY ListAssumption
<1>3. DOMAIN list = {} /\ lookups \subseteq Projects \X (0 .. MaxVisits)
  BY <1>2 DEF ListInit
<1>4. reading \in [Reads -> Read] /\ \A r \in Reads : reading[r] = NoRead
  BY <1>1 DEF ListInit
<1>5. chain \in [Projects -> 0 .. MaxComments]
  BY ListAssumption DEF ListInit
<1>6. LstTypes
  BY <1>2, <1>3, <1>4, <1>5 DEF ListInit, LstTypes, ListTypes
<1>7. LstFirst
  BY <1>1, <1>2, <1>3, <1>4 DEF ListInit, LstFirst
<1>8. LstFull
  <2>1. PageSize * (loader.page - 1) = 0
    BY <1>2 DEF ListInit
  <2> QED
    BY <1>1, <1>3, <1>4, <2>1 DEF ListInit, LstFull, Reached
<1> QED
  BY <1>6, <1>7, <1>8 DEF LstInv

-----------------------------------------------------------------------------
(* A comment that is sent (CommentPost). *)

\* A picture is uploaded only for a comment that has one.
UploadsPictured == \A k \in Posts : posting[k].pc = "upload" => posting[k].pictured

\* The inductive invariant of the comments that are sent.
PostInv == PostsAgree /\ UploadsPictured

\* What a chain of BtnPostreply keeps to.
PostFine(p) ==
    /\ p \in Post
    /\ p.pc \in {"add", "points"} => /\ p.sent.content = p.written
                                     /\ p.pictured <=> p.sent.image # NoPicture
    /\ p.pc = "upload" => p.pictured

\* The invariant speaks of each chain by itself.
LEMMA PostInvParts ==
    PostInv <=> /\ PostTypes
                /\ \A k \in Posts : PostFine(posting[k])
  BY DEF PostInv, PostsAgree, PostTypes, UploadsPictured, PostFine

\* A chain that goes on, with the draft the page has then.
LEMMA PostMoves ==
    ASSUME PostInv, NEW k \in Posts, NEW p, PostFine(p), posting' = [posting EXCEPT ![k] = p],
           draft' \in [content : Contents, image : Pictures \cup {NoPicture},
                       file : BOOLEAN, initialized : BOOLEAN],
           ispostreply' \in BOOLEAN, userId' = userId
    PROVE  PostInv'
<1>1. posting \in [Posts -> Post] /\ p \in Post /\ userId \in BOOLEAN
  BY DEF PostInv, PostsAgree, PostTypes, PostFine
<1>2. PostTypes'
  BY <1>1 DEF PostTypes
<1>3. \A j \in Posts : posting'[j] = IF j = k THEN p ELSE posting[j]
  BY <1>1
<1>4. \A j \in Posts : PostFine(posting'[j])
  BY <1>3, PostInvParts
<1>5. \A j \in Posts : PostFine(posting[j])'
  BY <1>4 DEF PostFine
<1> QED
  BY <1>2, <1>5 DEF PostInv, PostsAgree, PostTypes, UploadsPictured, PostFine

\* A comment is sent, if somebody is connected.
LEMMA CommentSent ==
    ASSUME PostInv, NEW k \in Posts, NEW post \in Post, NEW comment \in Comment,
           ReqAddComment(k, post, comment),
           comment.content = post.written, post.pictured <=> comment.image # NoPicture
    PROVE  /\ ispostreply' \in BOOLEAN
           /\ \E p : PostFine(p) /\ posting' = [posting EXCEPT ![k] = p]
<1>1. posting \in [Posts -> Post] /\ ispostreply \in BOOLEAN
  BY DEF PostInv, PostsAgree, PostTypes
<1>2. CASE userId
  <2> DEFINE p == [post EXCEPT !.pc = "add", !.sent = comment]
  <2>1. PostFine(p)
    BY DEF PostFine, Post
  <2> QED
    BY <1>2, <2>1 DEF ReqAddComment
<1>3. CASE ~userId
  <2> DEFINE p == [posting[k] EXCEPT !.pc = "over"]
  <2>1. PostFine(p)
    BY <1>1 DEF PostFine, Post
  <2>2. posting' = [posting EXCEPT ![k] = p]
    BY <1>1, <1>3 DEF ReqAddComment
  <2> QED
    BY <1>1, <1>3, <2>1, <2>2 DEF ReqAddComment
<1> QED
  BY <1>2, <1>3

\* The chain that has not begun is a chain.
LEMMA NoPostTyped == NoPost \in Post
<1>1. NoComment \in Comment
  BY PostAssumption DEF NoComment, Comment
<1> QED
  BY <1>1, PostAssumption DEF NoPost, Post

\* Every step of the form and of its chains keeps the invariant.
LEMMA PostStepInv ==
    ASSUME PostInv, [PostNext]_postVars
    PROVE  PostInv'
<1> DEFINE Draft == [content : Contents, image : Pictures \cup {NoPicture},
                     file : BOOLEAN, initialized : BOOLEAN]
<1>a. /\ draft \in Draft /\ ispostreply \in BOOLEAN /\ userId \in BOOLEAN
      /\ posting \in [Posts -> Post]
      /\ \A k \in Posts : posting[k] \in Post /\ PostFine(posting[k])
  BY PostInvParts DEF PostTypes
<1>b. ASSUME UNCHANGED posting, draft' \in Draft, ispostreply' \in BOOLEAN, userId' \in BOOLEAN
      PROVE  PostInv'
  BY <1>a, <1>b DEF PostInv, PostsAgree, PostTypes, UploadsPictured
<1>1. ASSUME NEW c \in Contents, TypeContent(c)
      PROVE  PostInv'
  <2>1. draft' \in Draft
    BY <1>a, <1>1 DEF TypeContent
  <2> QED
    BY <1>a, <1>b, <1>1, <2>1 DEF TypeContent, Drafting
<1>2. CASE BtnPhoto
  <2>1. draft' \in Draft
    BY <1>a, <1>2 DEF BtnPhoto
  <2> QED
    BY <1>a, <1>b, <1>2, <2>1 DEF BtnPhoto, Drafting
<1>3. CASE Connects
  BY <1>a, <1>b, <1>3 DEF Connects
<1>4. ASSUME NEW k \in Posts, BtnPostreply(k)
      PROVE  PostInv'
  <2> DEFINE post == [NoPost EXCEPT !.pc = "upload", !.written = draft.content,
                                    !.pictured = draft.file]
             c == [content |-> draft.content, image |-> NoPicture]
  <2>1. NoPost \in Post
    BY NoPostTyped
  <2>2. draft.content \in Contents /\ draft.file \in BOOLEAN
    BY <1>a
  <2>3. post \in Post /\ c \in Comment
    BY <2>1, <2>2 DEF Post, Comment
  <2>4. /\ post.written = draft.content /\ post.pc = "upload"
        /\ post.pictured <=> draft.file
    BY <2>1, <2>2 DEF Post
  <2> HIDE DEF post
  <2>5. userId' = userId
    BY <1>4 DEF BtnPostreply
  <2>6. CASE draft.file
    <3>1. posting' = [posting EXCEPT ![k] = post] /\ draft' = draft /\ ispostreply' = ispostreply
      BY <1>4, <2>6 DEF BtnPostreply, post
    <3>2. PostFine(post)
      BY <2>3, <2>4, <2>6 DEF PostFine
    <3> QED
      BY <1>a, <2>5, <3>1, <3>2, PostMoves
  <2>7. CASE ~draft.file
    <3>1. draft' = [draft EXCEPT !.image = NoPicture] /\ ReqAddComment(k, post, c)
      BY <1>4, <2>7 DEF BtnPostreply, post
    <3>2. draft' \in Draft
      BY <1>a, <3>1
    <3>3. c.content = post.written /\ (post.pictured <=> c.image # NoPicture)
      BY <2>4, <2>7, <1>a
    <3> HIDE DEF c
    <3>4. ispostreply' \in BOOLEAN /\ \E p : PostFine(p) /\ posting' = [posting EXCEPT ![k] = p]
      BY <2>3, <3>1, <3>3, CommentSent
    <3> QED
      BY <2>5, <3>2, <3>4, PostMoves
  <2> QED
    BY <2>6, <2>7
<1>5. ASSUME NEW k \in Posts, UploadDone(k)
      PROVE  PostInv'
  <2>1. PICK i \in Pictures :
           /\ draft' = [draft EXCEPT !.content = posting[k].written, !.image = i,
                                     !.initialized = TRUE]
           /\ \/ ReqAddComment(k, posting[k], [content |-> posting[k].written, image |-> i])
              \/ /\ posting' = [posting EXCEPT ![k].pc = "over"]
                 /\ ispostreply' = ispostreply
    BY <1>5 DEF UploadDone
  <2>2. userId' = userId /\ posting[k].pc = "upload"
    BY <1>5 DEF UploadDone
  <2>3. posting[k].written \in Contents /\ posting[k].pictured
    BY <1>a, <2>2 DEF Post, PostFine
  <2>4. draft' \in Draft
    BY <1>a, <2>1, <2>3
  <2> DEFINE c == [content |-> posting[k].written, image |-> i]
  <2>5. c \in Comment /\ c.content = posting[k].written /\ c.image # NoPicture
    BY <2>3, PostAssumption DEF Comment
  <2> HIDE DEF c
  <2>6. CASE ReqAddComment(k, posting[k], c)
    <3>1. ispostreply' \in BOOLEAN /\ \E p : PostFine(p) /\ posting' = [posting EXCEPT ![k] = p]
      BY <1>a, <2>3, <2>5, <2>6, CommentSent
    <3> QED
      BY <2>2, <2>4, <3>1, PostMoves
  <2>7. CASE posting' = [posting EXCEPT ![k].pc = "over"] /\ ispostreply' = ispostreply
    <3>1. posting' = [posting EXCEPT ![k] = [posting[k] EXCEPT !.pc = "over"]]
      BY <1>a, <2>7
    <3>2. PostFine([posting[k] EXCEPT !.pc = "over"])
      BY <1>a DEF PostFine, Post
    <3> QED
      BY <1>a, <2>2, <2>4, <2>7, <3>1, <3>2, PostMoves
  <2> QED
    BY <2>1, <2>6, <2>7 DEF c
<1>6. ASSUME NEW k \in Posts, NEW pc \in {"over", "points"},
             posting' = [posting EXCEPT ![k].pc = pc], pc = "points" => posting[k].pc = "add",
             draft' \in Draft, ispostreply' \in BOOLEAN, userId' = userId
      PROVE  PostInv'
  <2>1. posting' = [posting EXCEPT ![k] = [posting[k] EXCEPT !.pc = pc]]
    BY <1>a, <1>6
  <2>2. PostFine([posting[k] EXCEPT !.pc = pc])
    BY <1>a, <1>6 DEF PostFine, Post
  <2> QED
    BY <1>a, <1>6, <2>1, <2>2, PostMoves
<1>7. ASSUME NEW k \in Posts, UploadFails(k) \/ CommentAnswered(k) \/ PostEnds(k)
      PROVE  PostInv'
  <2>1. draft' \in Draft /\ ispostreply' \in BOOLEAN /\ userId' = userId
    BY <1>a, <1>7 DEF UploadFails, CommentAnswered, PostEnds
  <2> QED
    BY <1>a, <1>6, <1>7, <2>1 DEF UploadFails, CommentAnswered, PostEnds
<1>8. CASE UNCHANGED postVars
  BY <1>a, <1>b, <1>8 DEF postVars
<1> QED
  BY <1>1, <1>2, <1>3, <1>4, <1>5, <1>7, <1>8 DEF PostNext

\* At first no chain has begun.
LEMMA PostInitInv ==
    ASSUME PostInit
    PROVE  PostInv
  BY NoPostTyped, PostAssumption
     DEF PostInit, PostInv, PostsAgree, PostTypes, UploadsPictured, NoPost

-----------------------------------------------------------------------------
(* The dialog that sends ICP (SendIcp). *)

\* What the dialog holds: the field shows its recipient or nothing; what can be sent was
\* checked; and what "Max" filled in but cannot be sent is more than it was checked against.
IcpFormFine ==
    /\ icpForm.shown \in {icpForm.to, Nobody}
    /\ icpCanSend => icpForm.to \in People /\ icpForm.amount <= icpForm.against
    /\ icpCanSend /\ ~icpBroken => icpForm.against # Unread
    /\ icpForm.against # Unread => icpKnown.checked # Unread
    /\ icpForm.max => icpForm.amount < MaxFunds
    /\ icpForm.max /\ icpForm.to \in People /\ icpForm.amount # 0 /\ ~icpCanSend /\ ~icpBroken =>
           icpForm.against # Unread /\ icpForm.amount > icpForm.against

\* While the account changes by this dialog only, all balances read for the check are those of
\* the start, since nothing can be sent before the first of them has arrived.
IcpUnmoved ==
    icpMoves = 0 =>
        /\ icpKnown.reads \subseteq {MaxFunds} /\ icpKnown.checked \in {Unread, MaxFunds}
        /\ icpForm.against \in {Unread, MaxFunds}
        /\ icpKnown.checked = Unread => icpFunds = MaxFunds /\ IcpInFlight = {}

\* A transfer in flight is of a dialog that could send.
IcpSendFine(s) ==
    /\ icpSends[s].form.to \in People
    /\ icpSends[s].form.shown \in {icpSends[s].form.to, Nobody}
    /\ icpSends[s].form.amount <= icpSends[s].form.against

IcpSendingFine == \A s \in IcpInFlight : IcpSendFine(s)

\* The inductive invariant of the dialog that sends ICP.
IcpInv ==
    /\ SendIcpTypes /\ icpMoves \in Nat
    /\ IcpOneAtATime
    /\ IcpFormFine /\ IcpUnmoved /\ IcpSendingFine

\* A click whose transfer is in flight has its form; any other has none.
LEMMA SendTypes ==
    ASSUME SendIcpTypes
    PROVE  /\ \A s \in IcpInFlight : icpSends[s] \in Sending
           /\ \A s \in Sends : icpSends[s] \in Sending => s \in IcpInFlight
           /\ NoSend.pc = "idle"
  BY DEF SendIcpTypes, Sending, Rereading, NoSend, IcpInFlight

\* One click goes on: those in flight are the others, and it if its transfer is.
LEMMA OneSend ==
    ASSUME SendIcpTypes, NEW s \in Sends, NEW r \in Sending \cup Rereading \cup {NoSend},
           icpSends' = [icpSends EXCEPT ![s] = r]
    PROVE  /\ icpSends' \in [Sends -> Sending \cup Rereading \cup {NoSend}]
           /\ r.pc = "transfer" => IcpInFlight' = IcpInFlight \cup {s}
           /\ r.pc # "transfer" => IcpInFlight' = IcpInFlight \ {s}
           /\ icpSends'[s] = r
           /\ \A q \in Sends \ {s} : icpSends'[q] = icpSends[q]
<1>1. icpSends \in [Sends -> Sending \cup Rereading \cup {NoSend}]
  BY DEF SendIcpTypes
<1>2. icpSends' \in [Sends -> Sending \cup Rereading \cup {NoSend}]
  BY <1>1
<1>3. icpSends'[s] = r /\ \A q \in Sends \ {s} : icpSends'[q] = icpSends[q]
  BY <1>1
<1> QED
  BY <1>2, <1>3 DEF IcpInFlight

\* A click that is over, or whose transfer is, leaves the others as they were.
LEMMA SendEnds ==
    ASSUME IcpInv, NEW s \in Sends, NEW r \in Rereading \cup {NoSend},
           icpSends' = [icpSends EXCEPT ![s] = r],
           \/ icpLoading' = FALSE /\ (icpLost' \/ (icpLost' = icpLost /\ s \in IcpInFlight))
           \/ icpLoading' = icpLoading /\ icpLost' = icpLost /\ s \notin IcpInFlight
    PROVE  /\ icpSends' \in [Sends -> Sending \cup Rereading \cup {NoSend}]
           /\ IcpInFlight' \subseteq IcpInFlight /\ IcpOneAtATime' /\ IcpSendingFine'
<1>1. r.pc # "transfer" /\ r \in Sending \cup Rereading \cup {NoSend}
  BY DEF Rereading, NoSend
<1>2. /\ icpSends' \in [Sends -> Sending \cup Rereading \cup {NoSend}]
      /\ IcpInFlight' = IcpInFlight \ {s}
      /\ \A q \in Sends \ {s} : icpSends'[q] = icpSends[q]
  BY <1>1, OneSend DEF IcpInv
<1>3. IcpSendingFine'
  BY <1>2 DEF IcpInv, IcpSendingFine, IcpSendFine, IcpInFlight
<1>4. IcpOneAtATime'
  BY <1>2 DEF IcpInv, IcpOneAtATime
<1> QED
  BY <1>2, <1>3, <1>4

\* What the dialog and its transfers keep to gives the property.
LEMMA IcpInvAgrees ==
    ASSUME IcpInv
    PROVE  SendIcpAgrees
<1>1. MaxFunds \in Nat
  BY SendIcpAssumption
<1>2. ASSUME NEW s \in IcpInFlight, icpSends[s].form.amount + IcpFee > icpSends[s].had,
             icpSends[s].form.against = icpSends[s].had
      PROVE  icpSends[s].form.amount = icpSends[s].had
  <2>1. icpSends[s] \in Sending
    BY <1>2, SendTypes DEF IcpInv
  <2>2. icpSends[s].form.amount \in Int /\ icpSends[s].had \in Int
    BY <1>1, <2>1 DEF Sending, IcpForm, Funds, Unread, IcpFee
  <2>3. icpSends[s].form.amount <= icpSends[s].had
    BY <1>2 DEF IcpInv, IcpSendingFine, IcpSendFine
  <2> QED
    BY <1>2, <2>2, <2>3 DEF IcpFee
<1>3. ASSUME icpForm.max, icpForm.to \in People, icpForm.amount # 0, ~icpCanSend, ~icpBroken,
             icpMoves = 0
      PROVE  FALSE
  <2>1. icpForm.amount > icpForm.against /\ icpForm.amount < MaxFunds
        /\ icpForm.against = MaxFunds
    BY <1>3 DEF IcpInv, IcpFormFine, IcpUnmoved
  <2>2. icpForm.amount \in Int
    BY <1>1 DEF IcpInv, SendIcpTypes, IcpForm, Unread, IcpFee
  <2> QED
    BY <1>1, <2>1, <2>2
<1>4. icpMoves = 0 \/ icpMoves > 0
  BY DEF IcpInv
<1> QED
  BY <1>2, <1>3, <1>4 DEF SendIcpAgrees, IcpInv, IcpRecipientShown, IcpShortExplained,
                          IcpSendingFine, IcpSendFine

\* The effect, on a form that shows its recipient and has no more than the balance from "Max".
LEMMA IcpEffectInv ==
    ASSUME IcpInv, NEW form \in IcpForm, IcpEffect(form, icpKnown.checked),
           form.shown \in {form.to, Nobody}, form.max => form.amount < MaxFunds,
           UNCHANGED <<icpFunds, icpKnown, icpSends, icpLoading, icpLost, icpMoves>>
    PROVE  IcpInv'
<1> DEFINE c == icpKnown.checked
           f == [form EXCEPT !.against = c]
<1>1. MaxFunds \in Nat /\ Nobody \notin People /\ Garbage \notin People
  BY SendIcpAssumption
<1>2. c \in Funds \cup {Unread}
  BY DEF IcpInv, SendIcpTypes, Known
<1>3. /\ f \in IcpForm /\ f.against = c /\ f.to = form.to /\ f.shown = form.shown
      /\ f.amount = form.amount /\ f.max = form.max
  BY <1>2 DEF IcpForm
<1>4. form.amount \in Int /\ c \in Int /\ Unread \in Int
  BY <1>1, <1>2 DEF IcpForm, Funds, Unread, IcpFee
<1>5. form.to \in People \/ form.to = Nobody \/ form.to = Garbage
  BY DEF IcpForm, Fields
<1>6. /\ icpForm' = f
      /\ icpCanSend' = (form.amount # 0 /\ form.to # Nobody /\ form.amount <= c
                        /\ form.to # Garbage)
      /\ icpBroken' = (form.amount # 0 /\ form.to # Nobody /\ c = Unread)
      /\ icpKnown' = icpKnown
  BY DEF IcpEffect
<1> HIDE DEF f
<1>7. SendIcpTypes'
  <2>1. icpCanSend' \in BOOLEAN /\ icpBroken' \in BOOLEAN
    BY <1>6
  <2> QED
    BY <1>3, <1>6, <2>1 DEF IcpInv, SendIcpTypes
<1>8. IcpFormFine'
  <2>1. icpForm'.shown \in {icpForm'.to, Nobody} /\ (icpForm'.max => icpForm'.amount < MaxFunds)
    BY <1>3, <1>6
  <2>2. icpCanSend' => icpForm'.to \in People /\ icpForm'.amount <= icpForm'.against
    BY <1>3, <1>5, <1>6
  <2>3. icpCanSend' /\ ~icpBroken' => icpForm'.against # Unread
    BY <1>3, <1>6
  <2>4. icpForm'.to \in People /\ icpForm'.amount # 0 /\ ~icpCanSend' /\ ~icpBroken' =>
            icpForm'.against # Unread /\ icpForm'.amount > icpForm'.against
    <3> SUFFICES ASSUME form.to \in People, form.amount # 0, ~icpCanSend', ~icpBroken'
                 PROVE  c # Unread /\ form.amount > c
      BY <1>3, <1>6
    <3>1. form.to # Nobody /\ form.to # Garbage
      BY <1>1
    <3>2. ~(form.amount <= c) /\ c # Unread
      BY <3>1, <1>6
    <3> QED
      BY <3>2, <1>4
  <2> QED
    BY <1>3, <1>6, <2>1, <2>2, <2>3, <2>4 DEF IcpFormFine
<1> QED
  BY <1>3, <1>6, <1>7, <1>8 DEF IcpInv, IcpUnmoved, IcpSendingFine, IcpSendFine, IcpOneAtATime,
                                IcpInFlight

\* Every step of the dialog, of its transfer and of the ledger keeps the invariant.
LEMMA IcpStepInv ==
    ASSUME IcpInv, [SendIcpNext]_icpVars
    PROVE  IcpInv'
<1>a. MaxFunds \in Nat /\ Nobody \notin People /\ Garbage \notin People
  BY SendIcpAssumption
<1>b. /\ icpForm \in IcpForm /\ icpKnown \in Known /\ icpFunds \in Funds
      /\ icpCanSend \in BOOLEAN /\ icpLoading \in BOOLEAN /\ icpBroken \in BOOLEAN
      /\ icpSends \in [Sends -> Sending \cup Rereading \cup {NoSend}] /\ icpLost \in BOOLEAN
      /\ icpForm.shown \in {icpForm.to, Nobody}
      /\ icpForm.max => icpForm.amount < MaxFunds
  BY DEF IcpInv, SendIcpTypes, IcpFormFine
<1>c. 0 \in (Unread - IcpFee) .. MaxFunds /\ Funds \subseteq (Unread - IcpFee) .. MaxFunds
      /\ 0 \in Funds
  BY <1>a DEF Unread, IcpFee, Funds
<1>1. CASE OpenSendIcp
  <2>1. /\ icpForm' = [icpForm EXCEPT !.open = TRUE, !.shown = Nobody]
        /\ UNCHANGED <<icpCanSend, icpSends, icpLoading, icpBroken, icpFunds, icpLost, icpMoves>>
        /\ \/ icpKnown' = icpKnown
           \/ /\ icpKnown.checked = Unread
              /\ icpKnown' = [icpKnown EXCEPT !.reads = @ \cup {icpFunds}]
    BY <1>1 DEF OpenSendIcp, UserOfIcp
  <2>2. /\ icpForm' \in IcpForm /\ icpForm'.shown = Nobody /\ icpForm'.to = icpForm.to
        /\ icpForm'.amount = icpForm.amount /\ icpForm'.against = icpForm.against
        /\ icpForm'.max = icpForm.max
    BY <1>b, <2>1 DEF IcpForm, Fields
  <2>3. /\ icpKnown' \in Known /\ icpKnown'.checked = icpKnown.checked
        /\ \/ icpKnown'.reads = icpKnown.reads
           \/ /\ icpKnown.checked = Unread
              /\ icpKnown'.reads = icpKnown.reads \cup {icpFunds}
    BY <1>b, <2>1 DEF Known
  <2>4. SendIcpTypes'
    BY <1>b, <2>1, <2>2, <2>3 DEF SendIcpTypes
  <2>5. IcpFormFine'
    BY <2>1, <2>2, <2>3 DEF IcpInv, IcpFormFine
  <2>6. IcpUnmoved'
    BY <2>1, <2>2, <2>3 DEF IcpInv, IcpUnmoved, IcpInFlight
  <2> QED
    BY <2>1, <2>4, <2>5, <2>6 DEF IcpInv, IcpSendingFine, IcpSendFine, IcpOneAtATime, IcpInFlight
<1>2. CASE CloseSendIcp
  <2> DEFINE f == [icpForm EXCEPT !.open = FALSE, !.amount = 0, !.shown = Nobody, !.max = FALSE]
  <2>1. f \in IcpForm /\ f.shown = Nobody /\ ~f.max
    BY <1>b, <1>c DEF IcpForm, Fields
  <2>2. IcpEffect(f, icpKnown.checked)
        /\ UNCHANGED <<icpFunds, icpKnown, icpSends, icpLoading, icpLost, icpMoves>>
    BY <1>2 DEF CloseSendIcp, UserOfIcp
  <2> HIDE DEF f
  <2> QED
    BY <2>1, <2>2, IcpEffectInv
<1>3. CASE TypeIcpAmount
  <2>1. PICK n \in Funds :
           IcpEffect([icpForm EXCEPT !.amount = n, !.max = FALSE], icpKnown.checked)
    BY <1>3 DEF TypeIcpAmount
  <2> DEFINE f == [icpForm EXCEPT !.amount = n, !.max = FALSE]
  <2>2. f \in IcpForm /\ f.shown = icpForm.shown /\ f.to = icpForm.to /\ ~f.max
    BY <1>b, <1>c DEF IcpForm
  <2>3. IcpEffect(f, icpKnown.checked)
        /\ UNCHANGED <<icpFunds, icpKnown, icpSends, icpLoading, icpLost, icpMoves>>
    BY <1>3, <2>1 DEF TypeIcpAmount, UserOfIcp
  <2> HIDE DEF f
  <2> QED
    BY <1>b, <2>2, <2>3, IcpEffectInv
<1>4. CASE TypeIcpRecipient
  <2>1. PICK p \in Fields : IcpEffect([icpForm EXCEPT !.to = p, !.shown = p], icpKnown.checked)
    BY <1>4 DEF TypeIcpRecipient
  <2> DEFINE f == [icpForm EXCEPT !.to = p, !.shown = p]
  <2>2. f \in IcpForm /\ f.shown = f.to /\ f.max = icpForm.max /\ f.amount = icpForm.amount
    BY <1>b DEF IcpForm
  <2>3. IcpEffect(f, icpKnown.checked)
        /\ UNCHANGED <<icpFunds, icpKnown, icpSends, icpLoading, icpLost, icpMoves>>
    BY <1>4, <2>1 DEF TypeIcpRecipient, UserOfIcp
  <2> HIDE DEF f
  <2> QED
    BY <1>b, <2>2, <2>3, IcpEffectInv
<1>5. CASE BtnMaxICP
  <2> DEFINE most == IF icpKnown.stored # Unread THEN icpKnown.stored ELSE icpKnown.checked
             f == [icpForm EXCEPT !.amount = most - IcpFee, !.max = TRUE]
  <2>1. most \in Funds \cup {Unread}
    BY <1>b DEF Known
  <2>2. UNCHANGED <<icpFunds, icpKnown, icpSends, icpLoading, icpLost, icpMoves>>
    BY <1>5 DEF BtnMaxICP, UserOfIcp
  <2>3. IF most = Unread THEN UNCHANGED <<icpForm, icpCanSend, icpBroken>>
        ELSE IcpEffect(f, icpKnown.checked)
    BY <1>5 DEF BtnMaxICP
  <2>4. CASE most = Unread
    BY <2>2, <2>3, <2>4 DEF IcpInv, SendIcpTypes, IcpFormFine, IcpUnmoved, IcpSendingFine,
                            IcpSendFine, IcpOneAtATime, IcpInFlight
  <2>5. CASE most # Unread
    <3>1. most \in 0 .. MaxFunds
      BY <2>1, <2>5 DEF Funds
    <3> HIDE DEF most
    <3>2. most - IcpFee \in (Unread - IcpFee) .. MaxFunds /\ most - IcpFee < MaxFunds
      BY <1>a, <3>1 DEF Unread, IcpFee
    <3>3. f \in IcpForm /\ f.shown = icpForm.shown /\ f.to = icpForm.to /\ f.amount < MaxFunds
      BY <1>b, <3>2 DEF IcpForm
    <3>4. IcpEffect(f, icpKnown.checked)
      BY <2>3, <2>5
    <3> HIDE DEF f
    <3> QED
      BY <1>b, <2>2, <3>3, <3>4, IcpEffectInv
  <2> QED
    BY <2>4, <2>5
<1>6. ASSUME NEW s \in Sends, BtnSetIcp(s)
      PROVE  IcpInv'
  <2> DEFINE r == [pc |-> "transfer", form |-> icpForm, had |-> icpFunds]
  <2>1. /\ ~icpBroken /\ icpCanSend /\ ~icpLoading
        /\ icpLoading' = TRUE
        /\ icpSends' = [icpSends EXCEPT ![s] = r]
        /\ UNCHANGED <<icpForm, icpCanSend, icpKnown, icpBroken, icpLost, icpFunds, icpMoves>>
    BY <1>6 DEF BtnSetIcp, UserOfIcp
  <2>2. r \in Sending /\ r.pc = "transfer" /\ r.form = icpForm
    BY <1>b DEF Sending
  <2> HIDE DEF r
  <2>3. /\ icpSends' \in [Sends -> Sending \cup Rereading \cup {NoSend}]
        /\ IcpInFlight' = IcpInFlight \cup {s} /\ icpSends'[s] = r
        /\ \A q \in Sends \ {s} : icpSends'[q] = icpSends[q]
    BY <2>1, <2>2, OneSend DEF IcpInv
  <2>4. SendIcpTypes'
    BY <1>b, <2>1, <2>3 DEF SendIcpTypes
  <2>5. IcpFormFine'
    BY <2>1 DEF IcpInv, IcpFormFine
  <2>6. IcpSendingFine'
    <3>1. IcpSendFine(s)'
      BY <2>1, <2>2, <2>3 DEF IcpInv, IcpFormFine, IcpSendFine
    <3>2. \A q \in IcpInFlight \ {s} : IcpSendFine(q)'
      BY <2>3 DEF IcpInv, IcpSendingFine, IcpSendFine, IcpInFlight
    <3> QED
      BY <2>3, <3>1, <3>2 DEF IcpSendingFine
  <2>7. icpKnown.checked # Unread
    BY <2>1 DEF IcpInv, IcpFormFine
  <2>8. IcpUnmoved'
    BY <2>1, <2>7 DEF IcpInv, IcpUnmoved
  <2>9. IcpOneAtATime'
    BY <2>1, <2>3 DEF IcpInv, IcpOneAtATime
  <2> QED
    BY <2>1, <2>4, <2>5, <2>6, <2>8, <2>9 DEF IcpInv
<1>7. ASSUME NEW s \in Sends, IcpSent(s)
      PROVE  IcpInv'
  <2> DEFINE left == icpFunds - icpSends[s].form.amount - IcpFee
             r == [pc |-> "balance", read |-> left]
  <2>1. /\ s \in IcpInFlight /\ icpSends[s].form.amount > 0 /\ left >= 0
        /\ icpFunds' = left
        /\ icpLoading' = FALSE
        /\ icpForm' = [icpForm EXCEPT !.open = FALSE, !.shown = Nobody]
        /\ icpSends' = [icpSends EXCEPT ![s] = r]
        /\ UNCHANGED <<icpCanSend, icpKnown, icpBroken, icpLost, icpMoves>>
    BY <1>7 DEF IcpSent, IcpInFlight
  <2>2. icpSends[s] \in Sending
    BY <2>1, SendTypes DEF IcpInv
  <2>3. icpSends[s].form.amount \in Int
    BY <1>a, <2>2 DEF Sending, IcpForm, Unread, IcpFee
  <2>4. left \in Funds
    BY <1>a, <1>b, <2>1, <2>3 DEF Funds, IcpFee
  <2> HIDE DEF left
  <2>5. r \in Rereading
    BY <2>4 DEF Rereading
  <2> HIDE DEF r
  <2>6. /\ icpForm' \in IcpForm /\ icpForm'.shown = Nobody /\ icpForm'.to = icpForm.to
        /\ icpForm'.amount = icpForm.amount /\ icpForm'.against = icpForm.against
        /\ icpForm'.max = icpForm.max
    BY <1>b, <2>1 DEF IcpForm, Fields
  <2>7. /\ icpSends' \in [Sends -> Sending \cup Rereading \cup {NoSend}]
        /\ IcpInFlight' \subseteq IcpInFlight /\ IcpOneAtATime' /\ IcpSendingFine'
    BY <2>1, <2>5, SendEnds
  <2>8. SendIcpTypes'
    BY <1>b, <2>1, <2>4, <2>6, <2>7 DEF SendIcpTypes
  <2>9. IcpFormFine'
    BY <2>1, <2>6 DEF IcpInv, IcpFormFine
  <2>10. IcpUnmoved'
    BY <2>1, <2>6 DEF IcpInv, IcpUnmoved
  <2> QED
    BY <2>1, <2>7, <2>8, <2>9, <2>10 DEF IcpInv
<1>8. ASSUME NEW s \in Sends, IcpRefused(s) \/ IcpNotStored(s)
      PROVE  IcpInv'
  <2>1. /\ icpLoading' = FALSE /\ icpSends' = [icpSends EXCEPT ![s] = NoSend]
        /\ UNCHANGED <<icpForm, icpCanSend, icpFunds, icpKnown, icpBroken, icpMoves>>
    BY <1>8 DEF IcpRefused, IcpNotStored
  <2>2. icpLost' \/ (icpLost' = icpLost /\ s \in IcpInFlight)
    <3>1. CASE IcpRefused(s)
      BY <3>1, Zenon DEF IcpRefused, IcpInFlight
    <3>2. CASE IcpNotStored(s)
      BY <3>2 DEF IcpNotStored
    <3> QED BY <1>8, <3>1, <3>2
  <2>3. NoSend \in Rereading \cup {NoSend}
    OBVIOUS
  <2>4. /\ icpSends' \in [Sends -> Sending \cup Rereading \cup {NoSend}]
        /\ IcpInFlight' \subseteq IcpInFlight /\ IcpOneAtATime' /\ IcpSendingFine'
    BY <2>1, <2>2, <2>3, SendEnds
  <2>5. icpLost' \in BOOLEAN
    BY <1>b, <1>8 DEF IcpRefused, IcpNotStored
  <2> QED
    BY <1>b, <2>1, <2>4, <2>5 DEF IcpInv, SendIcpTypes, IcpFormFine, IcpUnmoved
<1>9. CASE IcpBalanceReq
  <2>1. PICK b \in icpKnown.reads : icpKnown' = [icpKnown EXCEPT !.checked = b, !.reads = @ \ {b}]
    BY <1>9 DEF IcpBalanceReq
  <2>2. UNCHANGED <<icpForm, icpCanSend, icpFunds, icpSends, icpLoading, icpBroken, icpLost,
                    icpMoves>>
    BY <1>9 DEF IcpBalanceReq
  <2>3. b \in Funds /\ b # Unread
    BY <1>b DEF Known, Funds, Unread
  <2>4. icpKnown' \in Known /\ icpKnown'.checked = b /\ icpKnown'.reads \subseteq icpKnown.reads
    BY <1>b, <2>1, <2>3 DEF Known
  <2>5. SendIcpTypes'
    BY <1>b, <2>2, <2>4 DEF SendIcpTypes
  <2>6. IcpFormFine'
    BY <2>2, <2>3, <2>4 DEF IcpInv, IcpFormFine
  <2>7. IcpUnmoved'
    BY <2>2, <2>3, <2>4 DEF IcpInv, IcpUnmoved
  <2> QED
    BY <2>2, <2>5, <2>6, <2>7 DEF IcpInv, IcpSendingFine, IcpSendFine, IcpOneAtATime, IcpInFlight
<1>10. ASSUME icpKnown' \in Known, icpKnown'.checked = icpKnown.checked,
              icpKnown'.reads = icpKnown.reads, icpFunds' \in Funds, icpMoves' \in Nat,
              icpMoves' = 0 => icpMoves = 0 /\ icpFunds' = icpFunds,
              UNCHANGED <<icpForm, icpCanSend, icpBroken>>,
              icpSends' \in [Sends -> Sending \cup Rereading \cup {NoSend}],
              icpLoading' \in BOOLEAN, icpLost' \in BOOLEAN,
              IcpInFlight' \subseteq IcpInFlight, IcpOneAtATime', IcpSendingFine'
       PROVE  IcpInv'
  <2>1. SendIcpTypes'
    BY <1>b, <1>10 DEF SendIcpTypes
  <2>2. IcpFormFine'
    BY <1>10 DEF IcpInv, IcpFormFine
  <2>3. IcpUnmoved'
    BY <1>10 DEF IcpInv, IcpUnmoved
  <2> QED
    BY <1>10, <2>1, <2>2, <2>3 DEF IcpInv
<1>11. ASSUME NEW s \in Sends, IcpStored(s)
       PROVE  IcpInv'
  <2>1. /\ icpSends[s].pc = "balance" /\ icpSends' = [icpSends EXCEPT ![s] = NoSend]
        /\ icpKnown' = [icpKnown EXCEPT !.stored = icpSends[s].read]
        /\ UNCHANGED <<icpForm, icpCanSend, icpFunds, icpLoading, icpBroken, icpLost, icpMoves>>
    BY <1>11 DEF IcpStored
  <2>2. icpSends[s].read \in Funds /\ s \notin IcpInFlight
    BY <1>b, <2>1 DEF Sending, Rereading, NoSend, IcpInFlight
  <2>3. icpKnown' \in Known /\ icpKnown'.checked = icpKnown.checked
        /\ icpKnown'.reads = icpKnown.reads
    BY <1>b, <2>1, <2>2 DEF Known
  <2>4. /\ icpSends' \in [Sends -> Sending \cup Rereading \cup {NoSend}]
        /\ IcpInFlight' \subseteq IcpInFlight /\ IcpOneAtATime' /\ IcpSendingFine'
    BY <2>1, <2>2, SendEnds
  <2> QED
    BY <1>b, <1>10, <2>1, <2>3, <2>4 DEF IcpInv
<1>a1. icpSends' = icpSends /\ icpLoading' = icpLoading /\ icpLost' = icpLost =>
           IcpInFlight' \subseteq IcpInFlight /\ IcpOneAtATime' /\ IcpSendingFine'
  BY DEF IcpInv, IcpInFlight, IcpOneAtATime, IcpSendingFine, IcpSendFine
<1>12. CASE IcpMoves
  <2>1. PICK m \in Funds :
           /\ icpFunds' \in {m, icpFunds}
           /\ icpKnown' = [icpKnown EXCEPT !.stored = m]
    BY <1>12 DEF IcpMoves
  <2>2. /\ icpMoves' = icpMoves + 1
        /\ UNCHANGED <<icpForm, icpCanSend, icpSends, icpLoading, icpBroken, icpLost>>
    BY <1>12 DEF IcpMoves
  <2>3. icpKnown' \in Known /\ icpKnown'.checked = icpKnown.checked
        /\ icpKnown'.reads = icpKnown.reads /\ icpFunds' \in Funds
    BY <1>b, <2>1 DEF Known
  <2>4. icpMoves' \in Nat /\ icpMoves' # 0
    BY <2>2 DEF IcpInv
  <2> QED
    BY <1>a1, <1>b, <1>10, <2>2, <2>3, <2>4
<1>13. CASE UNCHANGED icpVars
  BY <1>a1, <1>b, <1>10, <1>13 DEF icpVars, IcpInv
<1> QED
  BY <1>1, <1>2, <1>3, <1>4, <1>5, <1>6, <1>7, <1>8, <1>9, <1>11, <1>12, <1>13 DEF SendIcpNext

\* At first the dialog is closed and the balance is unread.
LEMMA IcpInitInv ==
    ASSUME SendIcpInit
    PROVE  IcpInv
<1>1. MaxFunds \in Nat /\ 0 \in (Unread - IcpFee) .. MaxFunds /\ MaxFunds \in Funds
  BY SendIcpAssumption DEF Unread, IcpFee, Funds
<1>2. icpForm \in IcpForm /\ icpKnown \in Known
  BY <1>1 DEF SendIcpInit, IcpForm, Known, Fields
<1>3. SendIcpTypes
  BY <1>1, <1>2 DEF SendIcpInit, SendIcpTypes
<1>4. IcpInFlight = {}
  BY DEF SendIcpInit, IcpInFlight, NoSend
<1> QED
  BY <1>3, <1>4 DEF SendIcpInit, IcpInv, IcpFormFine, IcpUnmoved, IcpSendingFine, IcpOneAtATime

-----------------------------------------------------------------------------
(* The dialog that sends a token (SendToken). *)

\* What the dialog of a token holds: a token while it is open, the recipient its field shows
\* unless that is empty, and what can be sent was checked if it was entered in this opening.
TokFormFine ==
    /\ tokForm.open => tokForm.token \in HeldTokens
    /\ tokForm.shown \in {tokForm.to, NoPayee}
    /\ tokCanSend => tokForm.to \in Payees
    /\ tokCanSend /\ tokForm.entered => tokForm.amount <= tokHeld.list[tokForm.token]

\* A transfer in flight is of such a dialog.
TokSendFine(form) ==
    /\ form.token \in HeldTokens /\ form.to \in Payees
    /\ form.shown \in {form.to, NoPayee}
    /\ form.entered => form.amount <= tokHeld.list[form.token]

TokSendingFine == \A s \in TokInFlight : TokSendFine(tokSends[s].form)

\* The inductive invariant of the dialog that sends a token.
TokInv ==
    /\ SendTokenTypes
    /\ TokOneAtATime
    /\ TokFormFine /\ TokSendingFine

\* A click whose transfer is in flight has its form.
LEMMA TransferTypes ==
    ASSUME SendTokenTypes, NEW s \in TokInFlight
    PROVE  s \in Clicks /\ tokSends[s] \in Transfer /\ tokSends[s].form \in TokForm
<1>1. s \in Clicks /\ tokSends[s] \in Transfer
  BY DEF SendTokenTypes, TokInFlight, NoTransfer, Refreshing
<1> QED
  BY <1>1 DEF Transfer

\* A click that is over, or whose transfer is, leaves the others as they were.
LEMMA TransferEnds ==
    ASSUME TokInv, NEW s \in Clicks, NEW r \in {NoTransfer, Refreshing},
           tokSends' = [tokSends EXCEPT ![s] = r], tokHeld'.list = tokHeld.list,
           \/ tokLoading' = FALSE /\ (tokLost' \/ (tokLost' = tokLost /\ s \in TokInFlight))
           \/ tokLoading' = tokLoading /\ tokLost' = tokLost /\ s \notin TokInFlight
    PROVE  /\ tokSends' \in [Clicks -> Transfer \cup {NoTransfer, Refreshing}]
           /\ TokOneAtATime' /\ TokSendingFine'
<1>1. r.pc # "transfer" /\ tokSends \in [Clicks -> Transfer \cup {NoTransfer, Refreshing}]
  BY DEF NoTransfer, Refreshing, TokInv, SendTokenTypes
<1>2. /\ tokSends' \in [Clicks -> Transfer \cup {NoTransfer, Refreshing}]
      /\ tokSends'[s] = r /\ \A q \in Clicks \ {s} : tokSends'[q] = tokSends[q]
  BY <1>1
<1>3. TokInFlight' = TokInFlight \ {s}
  BY <1>1, <1>2 DEF TokInFlight
<1>4. TokSendingFine'
  BY <1>2, <1>3 DEF TokInv, TokSendingFine, TokSendFine, TokInFlight
<1>5. TokOneAtATime'
  BY <1>3 DEF TokInv, TokOneAtATime
<1> QED
  BY <1>2, <1>4, <1>5

\* What the dialog and its transfers keep to gives the property.
LEMMA TokInvAgrees ==
    ASSUME TokInv
    PROVE  SendTokenAgrees
<1>1. ASSUME NEW s \in TokInFlight
      PROVE  TokenShortExplained(tokSends[s].form)
  <2> DEFINE form == tokSends[s].form
  <2>1. form \in TokForm /\ TokSendFine(form)
    BY TransferTypes DEF TokInv, TokSendingFine
  <2> HIDE DEF form
  <2>2. form.amount \in Int /\ MaxHeld \in Nat /\ form.token \in HeldTokens
    BY <2>1, SendTokenAssumption DEF TokForm, TokFee, TokSendFine
  <2>3. tokHeld.list[form.token] \in Int
    BY <2>2 DEF TokInv, SendTokenTypes, Held
  <2>4. form.entered => form.amount <= tokHeld.list[form.token]
    BY <2>1 DEF TokSendFine
  <2>5. TokenShortExplained(form)
    BY <2>2, <2>3, <2>4 DEF TokenShortExplained, TokFee
  <2> QED
    BY <2>5 DEF form
<1> QED
  BY <1>1 DEF TokInv, TokSendingFine, TokSendFine, SendTokenAgrees, AmountCovered

\* The effect on what is typed while the dialog is open.
LEMMA TokEffectInv ==
    ASSUME TokInv, NEW form \in TokForm, TokEffect(form), form.token \in HeldTokens,
           form.shown \in {form.to, NoPayee},
           UNCHANGED <<tokHeld, tokUnits, tokSends, tokLoading, tokLost>>
    PROVE  TokInv'
<1>1. /\ tokForm' = form
      /\ tokCanSend' <=> /\ form.amount # 0 /\ form.to \in Payees
                         /\ form.amount <= tokHeld.list[form.token]
      /\ tokCanSend' \in BOOLEAN
  BY DEF TokEffect
<1>2. SendTokenTypes'
  BY <1>1 DEF TokInv, SendTokenTypes
<1>3. TokFormFine'
  BY <1>1 DEF TokFormFine
<1> QED
  BY <1>2, <1>3 DEF TokInv, TokSendingFine, TokSendFine, TokOneAtATime, TokInFlight

\* The dialog that sends a token, step by step.
LEMMA TokStepInv ==
    ASSUME TokInv, [SendTokenNext]_tokVars
    PROVE  TokInv'
<1>a. MaxHeld \in Nat /\ NoPayee \in Entries /\ 0 \in -TokFee .. MaxHeld
      /\ Held \subseteq -TokFee .. MaxHeld
  BY SendTokenAssumption DEF Entries, TokFee, Held
<1>b. /\ tokForm \in TokForm
      /\ tokCanSend \in BOOLEAN /\ tokLoading \in BOOLEAN
      /\ tokHeld \in [funds : [HeldTokens -> Held], list : [HeldTokens -> Held]]
      /\ tokUnits \in [of : HeldTokens \cup {NoHeld}, asked : SUBSET HeldTokens]
      /\ tokSends \in [Clicks -> Transfer \cup {NoTransfer, Refreshing}] /\ tokLost \in BOOLEAN
      /\ tokForm.shown \in {tokForm.to, NoPayee}
      /\ tokForm.open => tokForm.token \in HeldTokens
  BY DEF TokInv, SendTokenTypes, TokFormFine
<1>1. ASSUME NEW t \in HeldTokens, OpenSendToken(t) PROVE TokInv'
  <2>1. /\ tokForm' = [tokForm EXCEPT !.open = TRUE, !.token = t, !.shown = NoPayee,
                                      !.entered = FALSE]
        /\ tokUnits' = [tokUnits EXCEPT !.asked = @ \cup {t}]
        /\ UNCHANGED <<tokCanSend, tokHeld, tokSends, tokLoading, tokLost>>
    BY <1>1 DEF OpenSendToken
  <2>2. /\ tokForm' \in TokForm /\ tokForm'.token = t /\ tokForm'.shown = NoPayee
        /\ tokForm'.to = tokForm.to /\ ~tokForm'.entered
    BY <1>a, <1>b, <2>1 DEF TokForm
  <2>3. tokUnits' \in [of : HeldTokens \cup {NoHeld}, asked : SUBSET HeldTokens]
    BY <1>b, <2>1
  <2>4. SendTokenTypes'
    BY <1>b, <2>1, <2>2, <2>3 DEF SendTokenTypes
  <2>5. TokFormFine'
    BY <2>1, <2>2 DEF TokInv, TokFormFine
  <2> QED
    BY <2>1, <2>4, <2>5 DEF TokInv, TokSendingFine, TokSendFine, TokOneAtATime, TokInFlight
<1>2. CASE InitAnswered
  <2>1. PICK t \in tokUnits.asked : tokUnits' = [of |-> t, asked |-> tokUnits.asked \ {t}]
    BY <1>2 DEF InitAnswered
  <2>2. UNCHANGED <<tokForm, tokCanSend, tokHeld, tokSends, tokLoading, tokLost>>
    BY <1>2 DEF InitAnswered
  <2>3. tokUnits' \in [of : HeldTokens \cup {NoHeld}, asked : SUBSET HeldTokens]
    BY <1>b, <2>1
  <2> QED
    BY <1>b, <2>2, <2>3 DEF TokInv, SendTokenTypes, TokFormFine, TokSendingFine, TokSendFine,
                            TokOneAtATime, TokInFlight
<1>3. CASE CloseSendToken
  <2> DEFINE f == [tokForm EXCEPT !.open = FALSE, !.amount = 0, !.shown = NoPayee]
  <2>1. f \in TokForm /\ f.shown = NoPayee /\ f.token = tokForm.token
    BY <1>a, <1>b DEF TokForm
  <2>2. TokEffect(f) /\ tokForm.open /\ UNCHANGED <<tokHeld, tokUnits, tokSends, tokLoading, tokLost>>
    BY <1>3 DEF CloseSendToken, TokTyping
  <2> HIDE DEF f
  <2> QED
    BY <1>b, <2>1, <2>2, TokEffectInv
<1>4. CASE TypeTokAmount
  <2>1. PICK n \in Held : TokEffect([tokForm EXCEPT !.amount = n, !.entered = TRUE])
    BY <1>4 DEF TypeTokAmount
  <2> DEFINE f == [tokForm EXCEPT !.amount = n, !.entered = TRUE]
  <2>2. f \in TokForm /\ f.shown = tokForm.shown /\ f.to = tokForm.to /\ f.token = tokForm.token
    BY <1>a, <1>b DEF TokForm
  <2>3. TokEffect(f) /\ tokForm.open /\ UNCHANGED <<tokHeld, tokUnits, tokSends, tokLoading, tokLost>>
    BY <1>4, <2>1 DEF TypeTokAmount, TokTyping
  <2> HIDE DEF f
  <2> QED
    BY <1>b, <2>2, <2>3, TokEffectInv
<1>5. CASE TypeTokRecipient
  <2>1. PICK p \in Entries : TokEffect([tokForm EXCEPT !.to = p, !.shown = p])
    BY <1>5 DEF TypeTokRecipient
  <2> DEFINE f == [tokForm EXCEPT !.to = p, !.shown = p]
  <2>2. f \in TokForm /\ f.shown = f.to /\ f.token = tokForm.token
    BY <1>b DEF TokForm
  <2>3. TokEffect(f) /\ tokForm.open /\ UNCHANGED <<tokHeld, tokUnits, tokSends, tokLoading, tokLost>>
    BY <1>5, <2>1 DEF TypeTokRecipient, TokTyping
  <2> HIDE DEF f
  <2> QED
    BY <1>b, <2>2, <2>3, TokEffectInv
<1>6. CASE BtnMaxToken
  <2> DEFINE most == tokHeld.list[tokForm.token] - (IF tokUnits.of = NoHeld THEN 0 ELSE TokFee)
             f == [tokForm EXCEPT !.amount = most, !.entered = TRUE]
  <2>1. TokEffect(f) /\ tokForm.open /\ UNCHANGED <<tokHeld, tokUnits, tokSends, tokLoading, tokLost>>
    BY <1>6 DEF BtnMaxToken, TokTyping
  <2>2. tokHeld.list[tokForm.token] \in 0 .. MaxHeld
    BY <1>b, <2>1 DEF Held
  <2>3. most \in -TokFee .. MaxHeld
    BY <1>a, <2>2 DEF TokFee
  <2> HIDE DEF most
  <2>4. f \in TokForm /\ f.shown = tokForm.shown /\ f.to = tokForm.to /\ f.token = tokForm.token
    BY <1>b, <2>3 DEF TokForm
  <2> HIDE DEF f
  <2> QED
    BY <1>b, <2>1, <2>4, TokEffectInv
<1>7. ASSUME NEW s \in Clicks, BtnSetToken(s)
      PROVE  TokInv'
  <2> DEFINE r == [pc |-> "transfer", form |-> tokForm, units |-> tokUnits.of]
  <2>1. /\ tokForm.open /\ tokCanSend /\ ~tokLoading
        /\ tokLoading' = TRUE
        /\ tokSends' = [tokSends EXCEPT ![s] = r]
        /\ UNCHANGED <<tokForm, tokCanSend, tokHeld, tokUnits, tokLost>>
    BY <1>7 DEF BtnSetToken
  <2>2. r \in Transfer /\ r.pc = "transfer" /\ r.form = tokForm
    BY <1>b DEF Transfer
  <2> HIDE DEF r
  <2>3. /\ tokSends' \in [Clicks -> Transfer \cup {NoTransfer, Refreshing}]
        /\ tokSends'[s] = r /\ \A q \in Clicks \ {s} : tokSends'[q] = tokSends[q]
    BY <1>b, <2>1, <2>2
  <2>4. TokInFlight' = TokInFlight \cup {s}
    BY <2>2, <2>3 DEF TokInFlight
  <2>5. SendTokenTypes'
    BY <1>b, <2>1, <2>3 DEF SendTokenTypes
  <2>6. TokFormFine'
    BY <2>1 DEF TokInv, TokFormFine
  <2>7. TokSendingFine'
    <3>1. TokSendFine(tokSends[s].form)'
      BY <2>1, <2>2, <2>3 DEF TokInv, TokFormFine, TokSendFine
    <3>2. \A q \in TokInFlight \ {s} : TokSendFine(tokSends[q].form)'
      BY <2>1, <2>3 DEF TokInv, TokSendingFine, TokSendFine, TokInFlight
    <3> QED
      BY <2>4, <3>1, <3>2 DEF TokSendingFine
  <2>8. TokOneAtATime'
    BY <2>1, <2>4 DEF TokInv, TokOneAtATime
  <2> QED
    BY <2>5, <2>6, <2>7, <2>8 DEF TokInv
<1>8. ASSUME NEW s \in Clicks, TokenSent(s)
      PROVE  TokInv'
  <2> DEFINE form == tokSends[s].form
             left == tokHeld.funds[form.token] - form.amount - TokFee
  <2>1. /\ s \in TokInFlight /\ form.amount > 0 /\ left >= 0
        /\ tokHeld' = [tokHeld EXCEPT !.funds[form.token] = left]
        /\ tokLoading' = FALSE
        /\ tokForm' = [tokForm EXCEPT !.open = FALSE, !.shown = NoPayee]
        /\ tokSends' = [tokSends EXCEPT ![s] = Refreshing]
        /\ UNCHANGED <<tokCanSend, tokUnits, tokLost>>
    BY <1>8 DEF TokenSent, TokInFlight
  <2>2. form \in TokForm /\ form.token \in HeldTokens
    BY <2>1, TransferTypes DEF TokInv, TokSendingFine, TokSendFine
  <2>3. form.amount \in Int /\ tokHeld.funds[form.token] \in 0 .. MaxHeld
    BY <1>a, <1>b, <2>2 DEF TokForm, TokFee, Held
  <2>4. left \in Held
    BY <1>a, <2>1, <2>3 DEF Held, TokFee
  <2> HIDE DEF left, form
  <2>5. /\ tokHeld' \in [funds : [HeldTokens -> Held], list : [HeldTokens -> Held]]
        /\ tokHeld'.list = tokHeld.list
    BY <1>b, <2>1, <2>2, <2>4
  <2>6. /\ tokForm' \in TokForm /\ ~tokForm'.open /\ tokForm'.shown = NoPayee
        /\ tokForm'.to = tokForm.to /\ tokForm'.token = tokForm.token
        /\ tokForm'.amount = tokForm.amount /\ tokForm'.entered = tokForm.entered
    BY <1>a, <1>b, <2>1 DEF TokForm
  <2>7. /\ tokSends' \in [Clicks -> Transfer \cup {NoTransfer, Refreshing}]
        /\ TokOneAtATime' /\ TokSendingFine'
    BY <2>1, <2>5, TransferEnds
  <2>8. SendTokenTypes'
    BY <1>b, <2>1, <2>5, <2>6, <2>7 DEF SendTokenTypes
  <2>9. TokFormFine'
    BY <2>1, <2>5, <2>6 DEF TokInv, TokFormFine
  <2> QED
    BY <2>7, <2>8, <2>9 DEF TokInv
<1>9. ASSUME NEW s \in Clicks, TokenRefused(s) \/ TokenStored(s) \/ TokenNotStored(s)
      PROVE  TokInv'
  <2>1. /\ tokSends' = [tokSends EXCEPT ![s] = NoTransfer]
        /\ UNCHANGED <<tokForm, tokCanSend, tokHeld, tokUnits>>
    BY <1>9 DEF TokenRefused, TokenStored, TokenNotStored
  <2>2. \/ tokLoading' = FALSE
           /\ (tokLost' \/ (tokLost' = tokLost /\ s \in TokInFlight))
        \/ tokLoading' = tokLoading /\ tokLost' = tokLost /\ s \notin TokInFlight
    <3>1. CASE TokenRefused(s)
      BY <3>1, Zenon DEF TokenRefused, TokInFlight
    <3>2. CASE TokenStored(s)
      <4>1. tokSends[s].pc # "transfer"
        BY <3>2 DEF TokenStored, Refreshing
      <4> QED BY <3>2, <4>1 DEF TokenStored, TokInFlight
    <3>3. CASE TokenNotStored(s)
      BY <3>3, Zenon DEF TokenNotStored
    <3> QED BY <1>9, <3>1, <3>2, <3>3
  <2>3. /\ tokSends' \in [Clicks -> Transfer \cup {NoTransfer, Refreshing}]
        /\ TokOneAtATime' /\ TokSendingFine'
    <3>1. NoTransfer \in {NoTransfer, Refreshing} /\ tokHeld'.list = tokHeld.list
      BY <2>1
    <3> QED BY <2>1, <2>2, <3>1, TransferEnds, Zenon
  <2>4. tokLoading' \in BOOLEAN /\ tokLost' \in BOOLEAN
    BY <1>b, <1>9 DEF TokenRefused, TokenStored, TokenNotStored
  <2> QED
    BY <1>b, <2>1, <2>3, <2>4 DEF TokInv, SendTokenTypes, TokFormFine
<1>10. CASE UNCHANGED tokVars
  BY <1>10 DEF tokVars, TokInv, SendTokenTypes, TokFormFine, TokSendingFine, TokSendFine,
               TokOneAtATime, TokInFlight
<1> QED
  BY <1>1, <1>2, <1>3, <1>4, <1>5, <1>6, <1>7, <1>8, <1>9, <1>10 DEF SendTokenNext

\* It starts closed and empty.
LEMMA TokInitInv ==
    ASSUME SendTokenInit
    PROVE  TokInv
<1>1. /\ MaxHeld \in Nat /\ NoPayee \in Entries /\ 0 \in -TokFee .. MaxHeld
      /\ Holdings \in [HeldTokens -> Held]
  BY SendTokenAssumption DEF Entries, TokFee, Held
<1>2. tokForm \in TokForm
  BY <1>1 DEF SendTokenInit, TokForm
<1>3. tokHeld \in [funds : [HeldTokens -> Held], list : [HeldTokens -> Held]]
  BY <1>1 DEF SendTokenInit
<1>4. tokUnits \in [of : HeldTokens \cup {NoHeld}, asked : SUBSET HeldTokens]
  BY DEF SendTokenInit
<1>5. SendTokenTypes
  BY <1>2, <1>3, <1>4 DEF SendTokenInit, SendTokenTypes
<1>6. TokInFlight = {}
  BY DEF SendTokenInit, TokInFlight, NoTransfer
<1>7. TokOneAtATime
  BY <1>6 DEF SendTokenInit, TokOneAtATime
<1>8. TokSendingFine
  BY <1>6 DEF TokSendingFine
<1>9. TokFormFine
  BY DEF SendTokenInit, TokFormFine
<1> QED
  BY <1>5, <1>7, <1>8, <1>9 DEF TokInv

-----------------------------------------------------------------------------
(* The dialog that adds cycles (AddCycles). *)

\* What the dialog of cycles holds: a canister while it is open and nothing while it is
\* closed, and what can be added is what the field shows as far as that shows an amount.
CycFormFine ==
    /\ cycForm.open => cycForm.target \in CycleTargets
    /\ ~cycForm.open => cycForm.amount = 0
    /\ cycCanAdd => cycForm.amount # 0
    /\ cycForm.open /\ cycForm.amount # 0 => DisplayFits(cycForm)

\* A withdrawal in flight is of such a dialog.
CycAddingFine ==
    cycAdding.on => /\ cycAdding.form.target \in CycleTargets
                    /\ DisplayFits(cycAdding.form)

\* The inductive invariant of the dialog of cycles.
CycInv ==
    /\ AddCyclesTypes
    /\ cycKnown = [balance |-> cycKnown.balance, reads |-> cycKnown.reads, fee |-> cycKnown.fee]
    /\ cycLoading <=> cycAdding.on
    /\ CycFormFine /\ CycAddingFine

\* What the dialog and its withdrawal keep to gives the property.
LEMMA CycInvAgrees ==
    ASSUME CycInv
    PROVE  AddCyclesAgrees
<1>1. NoTarget \notin CycleTargets
  BY AddCyclesAssumption
<1> QED
  BY <1>1 DEF CycInv, CycFormFine, CycAddingFine, AddCyclesAgrees

\* The effect on the amount.
LEMMA CycEffectInv ==
    ASSUME CycInv, NEW form \in CycForm, CycEffect(form),
           form.open => form.target \in CycleTargets,
           ~form.open => form.amount = 0,
           form.open /\ form.amount # 0 => DisplayFits(form),
           AddCyclesTypes' <=> /\ cycForm' \in CycForm
                               /\ cycCanAdd' \in BOOLEAN /\ cycBroken' \in BOOLEAN,
           cycKnown' = [balance |-> cycKnown'.balance, reads |-> cycKnown'.reads,
                        fee |-> cycKnown'.fee],
           cycLoading' <=> cycAdding'.on,
           cycAdding'.on => cycAdding' = cycAdding
    PROVE  CycInv'
<1>1. CASE form.amount = cycForm.amount
  <2>1. cycForm' = form /\ cycCanAdd' = cycCanAdd /\ cycBroken' = cycBroken
    BY <1>1 DEF CycEffect
  <2>2. AddCyclesTypes'
    BY <2>1 DEF CycInv, AddCyclesTypes
  <2> QED
    BY <1>1, <2>1, <2>2 DEF CycInv, CycFormFine, CycAddingFine
<1>2. CASE form.amount # cycForm.amount
  <2>1. /\ cycForm' = form
        /\ cycCanAdd' => form.amount # 0
        /\ cycCanAdd' \in BOOLEAN /\ cycBroken' \in BOOLEAN
    BY <1>2 DEF CycEffect
  <2> QED
    BY <2>1 DEF CycInv, CycFormFine, CycAddingFine
<1> QED
  BY <1>1, <1>2

\* The dialog that adds cycles, step by step.
LEMMA CycStepInv ==
    ASSUME CycInv, [AddCyclesNext]_cycVars
    PROVE  CycInv'
<1>a. /\ MaxCycles \in Nat /\ Cycles \subseteq -CycFee .. MaxCycles /\ 0 \in Cycles
      /\ CycFee = 1 /\ NotRead = -1
  BY AddCyclesAssumption DEF Cycles, CycFee, NotRead
<1>b. /\ cycForm \in CycForm
      /\ cycCanAdd \in BOOLEAN /\ cycLoading \in BOOLEAN /\ cycBroken \in BOOLEAN
      /\ cycFunds \in Cycles
      /\ cycKnown.balance \in {NotRead} \cup Cycles /\ cycKnown.reads \subseteq Cycles
      /\ cycKnown.fee \in BOOLEAN
      /\ cycAdding \in Adding \cup {NoAdding}
      /\ cycKnown = [balance |-> cycKnown.balance, reads |-> cycKnown.reads,
                     fee |-> cycKnown.fee]
  BY DEF CycInv, AddCyclesTypes
<1>c. CycFormFine /\ CycAddingFine /\ (cycLoading <=> cycAdding.on)
  BY DEF CycInv
<1>1. ASSUME NEW t \in CycleTargets, OpenAddCyclesModal(t) PROVE CycInv'
  <2>1. /\ ~cycForm.open
        /\ cycForm' = [cycForm EXCEPT !.open = TRUE, !.target = t]
        /\ cycKnown' = [cycKnown EXCEPT !.reads = @ \cup {cycFunds}]
        /\ UNCHANGED <<cycCanAdd, cycBroken, cycFunds, cycAdding, cycLoading>>
    BY <1>1 DEF OpenAddCyclesModal, UserOfCycles
  <2>2. /\ cycForm' \in CycForm /\ cycForm'.open /\ cycForm'.target = t
        /\ cycForm'.amount = cycForm.amount
    BY <1>b, <2>1 DEF CycForm
  <2>3. cycForm'.amount = 0
    BY <1>c, <2>1, <2>2 DEF CycFormFine
  <2>4. /\ cycKnown'.balance = cycKnown.balance /\ cycKnown'.fee = cycKnown.fee
        /\ cycKnown'.reads \subseteq Cycles
        /\ cycKnown' = [balance |-> cycKnown'.balance, reads |-> cycKnown'.reads,
                        fee |-> cycKnown'.fee]
    BY <1>b, <2>1
  <2>5. AddCyclesTypes'
    BY <1>b, <2>1, <2>2, <2>4 DEF AddCyclesTypes
  <2>6. CycFormFine'
    BY <1>c, <2>1, <2>2, <2>3 DEF CycFormFine
  <2> QED
    BY <1>c, <2>1, <2>4, <2>5, <2>6 DEF CycInv, CycAddingFine
<1>d. ASSUME NEW f \in CycForm, CycEffect(f), UserOfCycles, UNCHANGED cycKnown,
             f.open => f.target \in CycleTargets,
             ~f.open => f.amount = 0,
             f.open /\ f.amount # 0 => DisplayFits(f)
      PROVE  CycInv'
  <2>1. UNCHANGED <<cycFunds, cycAdding, cycLoading, cycKnown>>
    BY <1>d DEF UserOfCycles
  <2>2. AddCyclesTypes' <=> /\ cycForm' \in CycForm
                            /\ cycCanAdd' \in BOOLEAN /\ cycBroken' \in BOOLEAN
    BY <1>b, <2>1 DEF AddCyclesTypes
  <2>3. cycKnown' = [balance |-> cycKnown'.balance, reads |-> cycKnown'.reads,
                     fee |-> cycKnown'.fee]
    BY <1>b, <2>1
  <2>4. (cycLoading' <=> cycAdding'.on) /\ (cycAdding'.on => cycAdding' = cycAdding)
    BY <1>c, <2>1
  <2> QED
    BY <1>d, <2>2, <2>3, <2>4, CycEffectInv
<1>2. CASE HandleAddCycles
  <2> DEFINE f == [cycForm EXCEPT !.open = FALSE, !.amount = 0]
  <2>1. f \in CycForm /\ ~f.open /\ f.amount = 0
    BY <1>a, <1>b DEF CycForm
  <2>2. CycEffect(f) /\ UserOfCycles /\ UNCHANGED cycKnown
    BY <1>2 DEF HandleAddCycles
  <2> HIDE DEF f
  <2> QED
    BY <1>d, <2>1, <2>2
<1>e. ASSUME cycKnown'.balance \in {NotRead} \cup Cycles, cycKnown'.reads \subseteq Cycles,
             cycKnown'.fee \in BOOLEAN,
             cycKnown' = [balance |-> cycKnown'.balance, reads |-> cycKnown'.reads,
                          fee |-> cycKnown'.fee],
             cycFunds' \in Cycles,
             UNCHANGED <<cycForm, cycCanAdd, cycAdding, cycLoading, cycBroken>>
      PROVE  CycInv'
  <2>1. AddCyclesTypes'
    BY <1>b, <1>e DEF AddCyclesTypes
  <2> QED
    BY <1>c, <1>e, <2>1 DEF CycInv, CycFormFine, CycAddingFine
<1>3. CASE Cyclesfee
  <2>1. cycKnown' = [cycKnown EXCEPT !.fee = TRUE]
        /\ UNCHANGED <<cycForm, cycCanAdd, cycFunds, cycAdding, cycLoading, cycBroken>>
    BY <1>3 DEF Cyclesfee
  <2>2. /\ cycKnown'.balance = cycKnown.balance /\ cycKnown'.reads = cycKnown.reads
        /\ cycKnown'.fee = TRUE
        /\ cycKnown' = [balance |-> cycKnown'.balance, reads |-> cycKnown'.reads,
                        fee |-> cycKnown'.fee]
    BY <1>b, <2>1
  <2> QED
    BY <1>b, <1>e, <2>1, <2>2
<1>4. CASE GetCuruserBalance
  <2>1. PICK b \in cycKnown.reads :
            cycKnown' = [cycKnown EXCEPT !.balance = b, !.reads = @ \ {b}]
    BY <1>4 DEF GetCuruserBalance
  <2>2. UNCHANGED <<cycForm, cycCanAdd, cycFunds, cycAdding, cycLoading, cycBroken>>
    BY <1>4 DEF GetCuruserBalance
  <2>3. /\ cycKnown'.balance = b /\ cycKnown'.reads \subseteq cycKnown.reads
        /\ cycKnown'.fee = cycKnown.fee
        /\ cycKnown' = [balance |-> cycKnown'.balance, reads |-> cycKnown'.reads,
                        fee |-> cycKnown'.fee]
    BY <1>b, <2>1
  <2> QED
    BY <1>b, <1>e, <2>1, <2>2, <2>3
<1>5. CASE InputAmountCycles
  <2>1. UserOfCycles /\ cycForm.open /\ UNCHANGED cycKnown
    BY <1>5 DEF InputAmountCycles
  <2>2. cycForm.target \in CycleTargets
    BY <1>c, <2>1 DEF CycFormFine
  <2>3. ASSUME NEW n \in Cycles, CycEffect([cycForm EXCEPT !.amount = n, !.display = n])
        PROVE  CycInv'
    <3> DEFINE f == [cycForm EXCEPT !.amount = n, !.display = n]
    <3>1. f \in CycForm /\ f.open = cycForm.open /\ f.target = cycForm.target
          /\ f.display = n /\ f.amount = n
      BY <1>a, <1>b DEF CycForm
    <3>2. CycEffect(f)
      BY <2>3
    <3> HIDE DEF f
    <3>3. DisplayFits(f)
      BY <3>1 DEF DisplayFits
    <3> QED
      BY <1>d, <2>1, <2>2, <3>1, <3>2, <3>3
  <2>4. ASSUME CycEffect([cycForm EXCEPT !.display = Blanks]) PROVE CycInv'
    <3> DEFINE f == [cycForm EXCEPT !.display = Blanks]
    <3>1. f \in CycForm /\ f.open = cycForm.open /\ f.target = cycForm.target
          /\ f.display = Blanks
      BY <1>b DEF CycForm
    <3>2. CycEffect(f)
      BY <2>4
    <3> HIDE DEF f
    <3>3. DisplayFits(f)
      BY <3>1 DEF DisplayFits
    <3> QED
      BY <1>d, <2>1, <2>2, <3>1, <3>2, <3>3
  <2> QED
    BY <1>5, <2>3, <2>4 DEF InputAmountCycles
<1>6. CASE BtnMaxCycles
  <2>1. UserOfCycles /\ cycForm.open /\ UNCHANGED cycKnown
    BY <1>6 DEF BtnMaxCycles
  <2>2. cycForm.target \in CycleTargets
    BY <1>c, <2>1 DEF CycFormFine
  <2>3. PICK n : /\ n = 0 \/ n = cycKnown.balance - CycFee
                 /\ n \in -CycFee .. MaxCycles
                 /\ \/ n = 0 /\ CycEffect([cycForm EXCEPT !.amount = n, !.display = n])
                    \/ CycEffect([cycForm EXCEPT !.amount = n, !.display = ShownMax(n)])
    <3>1. CASE cycKnown.balance \in {NotRead, 0}
      BY <1>6, <1>a, <3>1 DEF BtnMaxCycles
    <3>2. CASE cycKnown.balance \notin {NotRead, 0}
      <4>1. cycKnown.balance - CycFee \in -CycFee .. MaxCycles
        BY <1>a, <1>b, <3>2 DEF Cycles
      <4> QED
        BY <1>6, <3>2, <4>1 DEF BtnMaxCycles
    <3> QED
      BY <3>1, <3>2
  <2>4. PICK d \in {n, ShownMax(n)} :
            /\ CycEffect([cycForm EXCEPT !.amount = n, !.display = d])
            /\ n = 0 \/ d = ShownMax(n)
    BY <2>3
  <2> DEFINE f == [cycForm EXCEPT !.amount = n, !.display = d]
  <2>5. d \in {Blanks, Cut} \cup -CycFee .. MaxCycles
    BY <2>3 DEF ShownMax
  <2>6. f \in CycForm /\ f.open = cycForm.open /\ f.target = cycForm.target
        /\ f.display = d /\ f.amount = n
    BY <1>b, <2>3, <2>5 DEF CycForm
  <2>7. CycEffect(f)
    BY <2>4
  <2> HIDE DEF f
  <2>8. f.amount # 0 => DisplayFits(f)
    BY <2>4, <2>6 DEF DisplayFits, ShownMax
  <2> QED
    BY <1>d, <2>1, <2>2, <2>6, <2>7, <2>8
<1>7. CASE BtnBuyamount
  <2>1. /\ cycForm.open /\ cycCanAdd
        /\ cycLoading' = TRUE
        /\ cycAdding' = [on |-> TRUE, form |-> cycForm]
        /\ UNCHANGED <<cycForm, cycCanAdd, cycFunds, cycKnown, cycBroken>>
    BY <1>7 DEF BtnBuyamount
  <2>2. cycAdding' \in Adding /\ cycAdding'.on /\ cycAdding'.form = cycForm
    BY <1>b, <2>1 DEF Adding
  <2>3. AddCyclesTypes'
    BY <1>b, <2>1, <2>2 DEF AddCyclesTypes
  <2>4. CycFormFine' /\ CycAddingFine'
    BY <1>c, <2>1, <2>2 DEF CycFormFine, CycAddingFine
  <2>5. cycKnown' = [balance |-> cycKnown'.balance, reads |-> cycKnown'.reads,
                     fee |-> cycKnown'.fee]
    BY <1>b, <2>1
  <2> QED
    BY <2>1, <2>2, <2>3, <2>4, <2>5 DEF CycInv
<1>8. CASE CyclesAdded
  <2> DEFINE left == cycFunds - cycAdding.form.amount - CycFee
             f == [cycForm EXCEPT !.open = FALSE, !.amount = 0, !.display = 0]
  <2>1. /\ cycAdding.on /\ cycAdding.form.amount > 0 /\ left >= 0
        /\ cycFunds' = left
        /\ cycLoading' = FALSE
        /\ CycEffect(f)
        /\ cycKnown' = [cycKnown EXCEPT !.reads = @ \cup {left}]
        /\ cycAdding' = NoAdding
    BY <1>8 DEF CyclesAdded
  <2>2. cycAdding \in Adding
    BY <1>b, <2>1 DEF NoAdding
  <2>3. cycAdding.form.amount \in Int
    BY <1>a, <2>2 DEF Adding, CycForm
  <2>4. left \in Cycles
    BY <1>a, <1>b, <2>1, <2>3 DEF Cycles
  <2>5. f \in CycForm /\ ~f.open /\ f.amount = 0
    BY <1>a, <1>b DEF CycForm
  <2> HIDE DEF left, f
  <2>6. /\ cycKnown'.balance = cycKnown.balance /\ cycKnown'.fee = cycKnown.fee
        /\ cycKnown'.reads \subseteq Cycles
        /\ cycKnown' = [balance |-> cycKnown'.balance, reads |-> cycKnown'.reads,
                        fee |-> cycKnown'.fee]
    BY <1>b, <2>1, <2>4
  <2>7. ~cycAdding'.on /\ ~cycLoading' /\ cycLoading' \in BOOLEAN
        /\ cycAdding' \in Adding \cup {NoAdding}
    BY <2>1 DEF NoAdding
  <2>8. AddCyclesTypes' <=> /\ cycForm' \in CycForm
                            /\ cycCanAdd' \in BOOLEAN /\ cycBroken' \in BOOLEAN
    BY <1>b, <2>1, <2>4, <2>6, <2>7 DEF AddCyclesTypes
  <2> QED
    BY <2>1, <2>5, <2>6, <2>7, <2>8, CycEffectInv
<1>9. CASE CyclesRefused
  <2>1. /\ cycLoading' = FALSE /\ cycAdding' = NoAdding /\ ~cycAdding'.on
        /\ UNCHANGED <<cycForm, cycCanAdd, cycFunds, cycKnown, cycBroken>>
    BY <1>9 DEF CyclesRefused, NoAdding
  <2>2. AddCyclesTypes'
    BY <1>b, <2>1 DEF AddCyclesTypes
  <2> QED
    BY <2>1, <2>2, <1>c DEF CycInv, CycFormFine, CycAddingFine
<1>10. CASE CyclesMove
  BY <1>b, <1>e, <1>10 DEF CyclesMove
<1>11. CASE UNCHANGED cycVars
  BY <1>b, <1>e, <1>11 DEF cycVars
<1> QED
  BY <1>1, <1>2, <1>3, <1>4, <1>5, <1>6, <1>7, <1>8, <1>9, <1>10, <1>11 DEF AddCyclesNext

\* It starts closed and empty.
LEMMA CycInitInv ==
    ASSUME AddCyclesInit
    PROVE  CycInv
<1>1. MaxCycles \in Nat /\ MaxCycles \in Cycles /\ 0 \in -CycFee .. MaxCycles
  BY AddCyclesAssumption DEF Cycles, CycFee
<1>2. cycForm \in CycForm
  BY <1>1 DEF AddCyclesInit, CycForm
<1>3. AddCyclesTypes
  BY <1>1, <1>2 DEF AddCyclesInit, AddCyclesTypes
<1> QED
  BY <1>3 DEF AddCyclesInit, CycInv, CycFormFine, CycAddingFine, NoAdding

-----------------------------------------------------------------------------
(* The dialogs of the profile (ProfileEdit). *)

\* What a form of the profile holds: the name shown is the name to be saved once it was typed,
\* unless a picture put an earlier one back, and the picture shown is the file to be uploaded.
ProfFormKept(form) ==
    /\ form.typed /\ ~form.lost => form.name = form.shown
    /\ form.editImg # NoPhoto => form.img = form.editImg

\* A picture being read since the name was typed puts that name back; and the dialogs are open
\* inside each other, of somebody connected.
ProfFormFine ==
    /\ ProfFormKept(profForm)
    /\ \A r \in profReads :
          profForm.typed /\ ~profForm.lost /\ ~r.old => r.name = profForm.name
    /\ profForm.editing => profForm.dialog
    /\ profForm.dialog => profUser # NoAccount

\* A chain in flight holds such a form, is signed once it sets, and reads somebody's profile.
ProfSaveFine ==
    /\ profSave.pc # "idle" => ProfFormKept(profSave.form)
    /\ profSave.pc \in {"set", "read"} => profSave.signer \in Accounts
    /\ profSave.pc = "read" => profSave.reads \in Accounts

\* Unless somebody disconnected during one, a chain is of the account still connected, and what
\* is stored is behind only while a chain reads the profile it has set.
ProfHere ==
    ~profLeft =>
        /\ profSave.pc # "idle" => profSave.pc # "thrown" /\ profUser = profSave.by
        /\ profSave.pc \in {"set", "read"} => profSave.signer = profSave.by
        /\ profSave.pc = "read" => profSave.reads = profUser
        /\ profUser # NoAccount /\ profSave.pc # "read" =>
               profStored = profiles[profUser].name

\* The inductive invariant of the profile.
ProfInv == ProfileTypes /\ ProfFormFine /\ ProfSaveFine /\ ProfHere

\* What the dialogs and the chain keep to gives the property.
LEMMA ProfInvAgrees ==
    ASSUME ProfInv
    PROVE  ProfileAgrees
<1>1. SavedAsShown
  BY DEF ProfInv, ProfSaveFine, ProfFormKept, SavedAsShown
<1>2. profSave \in SaveChain \cup {NoSave}
  BY DEF ProfInv, ProfileTypes
<1>3. profSave.pc = "idle" => profSave.pc # "thrown"
  OBVIOUS
<1> QED
  BY <1>1, <1>3 DEF ProfInv, ProfHere, ProfileAgrees

\* A step of the dialogs alone.
LEMMA ProfFormStep ==
    ASSUME ProfInv, ProfFormFine', profForm' \in ProfForm,
           profReads' \subseteq [photo : Photos, name : Names, old : BOOLEAN],
           UNCHANGED <<profiles, profUser, profStored, profSave, profLeft>>
    PROVE  ProfInv'
<1>1. ProfileTypes'
  BY DEF ProfInv, ProfileTypes
<1> QED
  BY <1>1 DEF ProfInv, ProfSaveFine, ProfFormKept, ProfHere

\* Closing the dialog that edits keeps the form's promises.
LEMMA ProfClosed ==
    ASSUME NEW form \in ProfForm
    PROVE  /\ Closed(form) \in ProfForm
           /\ Closed(form).editing = FALSE /\ Closed(form).editImg = NoPhoto
           /\ Closed(form).dialog = form.dialog /\ Closed(form).name = form.name
           /\ Closed(form).shown = form.shown /\ Closed(form).img = form.img
           /\ Closed(form).typed = form.typed /\ Closed(form).lost = form.lost
BY DEF Closed, ProfForm, Picture

\* The dialogs of the profile and its chain, step by step.
LEMMA ProfStepInv ==
    ASSUME ProfInv, [ProfileNext]_profVars
    PROVE  ProfInv'
<1> DEFINE Pics == [photo : Photos, name : Names, old : BOOLEAN]
<1>a. /\ profiles \in [Accounts -> [name : Names, avatar : Picture]]
      /\ profUser \in Accounts \cup {NoAccount}
      /\ profStored \in Names
      /\ profForm \in ProfForm
      /\ profReads \subseteq Pics
      /\ profSave \in SaveChain \cup {NoSave}
      /\ profLeft \in BOOLEAN
  BY DEF ProfInv, ProfileTypes
<1>b. ProfFormFine /\ ProfSaveFine /\ ProfHere
  BY DEF ProfInv
<1>c. NoAccount \notin Accounts /\ NoPhoto \in Picture /\ Photos \subseteq Picture
  BY ProfileAssumption DEF Picture
<1>d. profSave.pc # "idle" => profSave \in SaveChain
  BY <1>a DEF NoSave
<1>1. CASE OpenUserEditInfoOpen
  <2>1. /\ profUser # NoAccount /\ ~profForm.dialog
        /\ profForm' = [profForm EXCEPT !.dialog = TRUE, !.name = profStored,
                                        !.typed = FALSE, !.lost = FALSE]
        /\ UNCHANGED <<profReads, profiles, profUser, profStored, profSave, profLeft>>
    BY <1>1 DEF OpenUserEditInfoOpen, Editing
  <2>2. /\ profForm' \in ProfForm /\ ~profForm'.typed /\ profForm'.dialog
        /\ profForm'.editImg = profForm.editImg /\ profForm'.img = profForm.img
    BY <1>a, <2>1 DEF ProfForm
  <2>3. ProfFormFine'
    BY <1>b, <2>1, <2>2 DEF ProfFormFine, ProfFormKept
  <2> QED
    BY <1>a, <2>1, <2>2, <2>3, ProfFormStep
<1>2. CASE BtnUSerEditInfo
  <2>1. /\ profForm.dialog
        /\ profForm' = [profForm EXCEPT !.editing = TRUE]
        /\ UNCHANGED <<profReads, profiles, profUser, profStored, profSave, profLeft>>
    BY <1>2 DEF BtnUSerEditInfo, Editing
  <2>2. /\ profForm' \in ProfForm /\ profForm'.dialog = profForm.dialog
        /\ profForm'.editImg = profForm.editImg /\ profForm'.img = profForm.img
        /\ profForm'.typed = profForm.typed /\ profForm'.lost = profForm.lost
        /\ profForm'.name = profForm.name /\ profForm'.shown = profForm.shown
    BY <1>a, <2>1 DEF ProfForm
  <2>3. ProfFormFine'
    BY <1>b, <2>1, <2>2 DEF ProfFormFine, ProfFormKept
  <2> QED
    BY <1>a, <2>1, <2>2, <2>3, ProfFormStep
<1>3. CASE OpenUserEditInfoClose
  <2>1. /\ profForm' = Closed(profForm)
        /\ UNCHANGED <<profReads, profiles, profUser, profStored, profSave, profLeft>>
    BY <1>3 DEF OpenUserEditInfoClose, Editing
  <2>2. ProfFormFine' /\ profForm' \in ProfForm
    BY <1>a, <1>b, <2>1, ProfClosed DEF ProfFormFine, ProfFormKept
  <2> QED
    BY <1>a, <2>1, <2>2, ProfFormStep
<1>4. CASE OpenWalletLoginSuccessClose
  <2>1. /\ ~profForm.editing
        /\ profForm' = [profForm EXCEPT !.dialog = FALSE]
        /\ UNCHANGED <<profReads, profiles, profUser, profStored, profSave, profLeft>>
    BY <1>4 DEF OpenWalletLoginSuccessClose, Editing
  <2>2. /\ profForm' \in ProfForm /\ ~profForm'.dialog /\ profForm'.editing = profForm.editing
        /\ profForm'.editImg = profForm.editImg /\ profForm'.img = profForm.img
        /\ profForm'.typed = profForm.typed /\ profForm'.lost = profForm.lost
        /\ profForm'.name = profForm.name /\ profForm'.shown = profForm.shown
    BY <1>a, <2>1 DEF ProfForm
  <2>3. ProfFormFine'
    BY <1>b, <2>1, <2>2 DEF ProfFormFine, ProfFormKept
  <2> QED
    BY <1>a, <2>1, <2>2, <2>3, ProfFormStep
<1>5. CASE EditNameChange
  <2>1. PICK n \in Names :
           profForm' = [profForm EXCEPT !.shown = n, !.name = n, !.typed = TRUE, !.lost = FALSE]
    BY <1>5 DEF EditNameChange
  <2>2. /\ profReads' = {[r EXCEPT !.old = TRUE] : r \in profReads}
        /\ UNCHANGED <<profiles, profUser, profStored, profSave, profLeft>>
    BY <1>5 DEF EditNameChange, Editing
  <2>3. /\ profForm' \in ProfForm /\ profForm'.dialog = profForm.dialog
        /\ profForm'.editImg = profForm.editImg /\ profForm'.img = profForm.img
        /\ profForm'.name = profForm'.shown /\ profForm'.editing = profForm.editing
    BY <1>a, <2>1 DEF ProfForm
  <2>4. profReads' \subseteq Pics /\ \A r \in profReads' : r.old
    BY <1>a, <2>2
  <2>5. ProfFormFine'
    BY <1>b, <2>2, <2>3, <2>4 DEF ProfFormFine, ProfFormKept
  <2> QED
    BY <2>2, <2>3, <2>4, <2>5, ProfFormStep
<1>6. CASE BtnProfilePhoto
  <2>1. PICK p \in Photos :
           profReads' = profReads \cup {[photo |-> p, name |-> profForm.name, old |-> FALSE]}
    BY <1>6 DEF BtnProfilePhoto
  <2>2. UNCHANGED <<profForm, profiles, profUser, profStored, profSave, profLeft>>
    BY <1>6 DEF BtnProfilePhoto, Editing
  <2>3. profForm.name \in Names
    BY <1>a DEF ProfForm
  <2>4. /\ profReads' \subseteq Pics
        /\ \A r \in profReads' : r \in profReads \/ r.name = profForm.name
    <3> DEFINE new == [photo |-> p, name |-> profForm.name, old |-> FALSE]
    <3>1. new \in Pics /\ new.name = profForm.name
      BY <2>3
    <3>2. profReads' = profReads \cup {new}
      BY <2>1
    <3> HIDE DEF new, Pics
    <3> QED
      BY <1>a, <3>1, <3>2
  <2>5. ProfFormFine'
    BY <1>b, <2>2, <2>4 DEF ProfFormFine, ProfFormKept
  <2> QED
    BY <1>a, <2>2, <2>4, <2>5, ProfFormStep
<1>7. CASE ProfilePhotoLoads
  <2>1. PICK r \in profReads :
           /\ profReads' = profReads \ {r}
           /\ profForm' = [profForm EXCEPT !.img = r.photo, !.editImg = r.photo,
                                           !.name = r.name, !.lost = @ \/ r.old]
    BY <1>7 DEF ProfilePhotoLoads
  <2>2. UNCHANGED <<profiles, profUser, profStored, profSave, profLeft>>
    BY <1>7 DEF ProfilePhotoLoads
  <2> DEFINE l == profForm.lost \/ r.old
  <2>3. /\ r.photo \in Photos /\ r.name \in Names /\ r.old \in BOOLEAN /\ l \in BOOLEAN
        /\ profForm' = [profForm EXCEPT !.img = r.photo, !.editImg = r.photo,
                                        !.name = r.name, !.lost = l]
        /\ ~l => ~profForm.lost /\ ~r.old
    BY <1>a, <2>1
  <2> HIDE DEF l
  <2>4. /\ profForm' \in ProfForm /\ profForm'.dialog = profForm.dialog
        /\ profForm'.editImg = r.photo /\ profForm'.img = r.photo
        /\ profForm'.typed = profForm.typed
        /\ profForm'.lost = l
        /\ profForm'.name = r.name /\ profForm'.shown = profForm.shown
        /\ profForm'.editing = profForm.editing
    BY <1>a, <1>c, <2>3 DEF ProfForm
  <2>5. profForm'.typed /\ ~profForm'.lost =>
            profForm.typed /\ ~profForm.lost /\ r.name = profForm.name
    BY <1>b, <2>3, <2>4 DEF ProfFormFine
  <2>6. ProfFormFine'
    BY <1>b, <2>1, <2>2, <2>4, <2>5 DEF ProfFormFine, ProfFormKept
  <2> QED
    BY <1>a, <2>1, <2>2, <2>4, <2>6, ProfFormStep
<1>8. CASE BtnDisconnectProfile
  <2>1. /\ profForm.dialog /\ ~profForm.editing /\ profUser # NoAccount
        /\ profUser' = NoAccount
        /\ profForm' = [profForm EXCEPT !.dialog = FALSE, !.editImg = NoPhoto]
        /\ profLeft' = (profLeft \/ profSave.pc # "idle")
        /\ UNCHANGED <<profiles, profStored, profReads, profSave>>
    BY <1>8 DEF BtnDisconnectProfile
  <2>2. /\ profForm' \in ProfForm /\ ~profForm'.dialog /\ profForm'.editing = profForm.editing
        /\ profForm'.editImg = NoPhoto /\ profForm'.img = profForm.img
        /\ profForm'.typed = profForm.typed /\ profForm'.lost = profForm.lost
        /\ profForm'.name = profForm.name /\ profForm'.shown = profForm.shown
    BY <1>a, <1>c, <2>1 DEF ProfForm
  <2>3. ProfileTypes'
    BY <1>a, <2>1, <2>2 DEF ProfileTypes
  <2>4. ProfFormFine'
    BY <1>b, <2>1, <2>2 DEF ProfFormFine, ProfFormKept
  <2>5. ProfSaveFine'
    BY <1>b, <2>1 DEF ProfSaveFine, ProfFormKept
  <2>6. ProfHere'
    BY <1>b, <2>1 DEF ProfHere
  <2> QED
    BY <2>3, <2>4, <2>5, <2>6 DEF ProfInv
<1>9. CASE GetUserInfo
  <2>1. /\ profUser = NoAccount
        /\ profUser' \in Accounts
        /\ profStored' = profiles[profUser'].name
        /\ profForm' = [profForm EXCEPT !.name = profStored', !.editImg = NoPhoto,
                                        !.typed = FALSE]
        /\ UNCHANGED <<profiles, profReads, profSave, profLeft>>
    BY <1>9 DEF GetUserInfo
  <2>2. profStored' \in Names
    BY <1>a, <2>1
  <2>3. /\ profForm' \in ProfForm /\ profForm'.dialog = profForm.dialog
        /\ profForm'.editImg = NoPhoto /\ profForm'.typed = FALSE
        /\ profForm'.editing = profForm.editing
    BY <1>a, <1>c, <2>1, <2>2 DEF ProfForm
  <2>4. ProfileTypes'
    BY <1>a, <2>1, <2>2, <2>3 DEF ProfileTypes
  <2>5. ProfFormFine'
    BY <1>b, <1>c, <2>1, <2>3 DEF ProfFormFine, ProfFormKept
  <2>6. ProfSaveFine'
    BY <1>b, <2>1 DEF ProfSaveFine, ProfFormKept
  <2>7. ~profLeft => profSave.pc = "idle"
    <3>1. ASSUME ~profLeft, profSave.pc # "idle" PROVE FALSE
      <4>1. profSave.by \in Accounts /\ profUser = profSave.by
        BY <1>b, <1>d, <3>1 DEF ProfHere, SaveChain
      <4> QED
        BY <1>c, <2>1, <4>1
    <3> QED
      BY <3>1
  <2>8. ProfHere'
    BY <2>1, <2>7 DEF ProfHere
  <2> QED
    BY <2>4, <2>5, <2>6, <2>8 DEF ProfInv
\* A step of the chain alone.
<1>e. ASSUME profSave' \in SaveChain \cup {NoSave}, ProfSaveFine', ProfHere',
             UNCHANGED <<profiles, profUser, profStored, profForm, profReads, profLeft>>
      PROVE  ProfInv'
  <2>1. ProfileTypes'
    BY <1>a, <1>e DEF ProfileTypes
  <2>2. ProfFormFine'
    BY <1>b, <1>e DEF ProfFormFine, ProfFormKept
  <2> QED
    BY <1>e, <2>1, <2>2 DEF ProfInv
<1>10. CASE SaveUserEditInfo
  <2>1. profForm.editing /\ profSave.pc = "idle"
        /\ UNCHANGED <<profiles, profUser, profStored, profForm, profReads, profLeft>>
    BY <1>10 DEF SaveUserEditInfo
  <2>2. profUser \in Accounts
    BY <1>a, <1>b, <2>1 DEF ProfFormFine
  <2>3. /\ profSave' \in SaveChain
        /\ profSave'.pc \in {"upload", "set"} /\ profSave'.by = profUser
        /\ profSave'.pc = "set" => profSave'.signer = profUser
        /\ profSave'.form = profForm
    <3>1. CASE profForm.img # NoPhoto
      <4>1. profSave' = [pc |-> "upload", by |-> profUser, signer |-> NoAccount,
                         reads |-> NoAccount, form |-> profForm]
        BY <1>10, <3>1 DEF SaveUserEditInfo
      <4> QED
        BY <1>a, <2>2, <4>1 DEF SaveChain
    <3>2. CASE profForm.img = NoPhoto
      <4>1. profSave' = [pc |-> "set", by |-> profUser, signer |-> profUser,
                         reads |-> NoAccount, form |-> profForm]
        BY <1>10, <3>2 DEF SaveUserEditInfo
      <4> QED
        BY <1>a, <2>2, <4>1 DEF SaveChain
    <3> QED
      BY <3>1, <3>2
  <2>4. ProfSaveFine'
    BY <1>b, <2>2, <2>3 DEF ProfSaveFine, ProfFormFine
  <2>5. ProfHere'
    BY <1>b, <2>1, <2>3 DEF ProfHere
  <2> QED
    BY <1>e, <2>1, <2>3, <2>4, <2>5
<1>11. CASE ProfileUploaded
  <2>1. profSave.pc = "upload"
        /\ UNCHANGED <<profiles, profUser, profStored, profForm, profReads, profLeft>>
    BY <1>11 DEF ProfileUploaded
  <2>2. PICK s \in {profSave.by, profUser} \ {NoAccount} :
           profSave' = [profSave EXCEPT !.pc = "set", !.signer = s]
    BY <1>11 DEF ProfileUploaded
  <2>3. profSave \in SaveChain /\ s \in Accounts
    BY <1>a, <1>d, <2>1, <2>2 DEF SaveChain
  <2>4. /\ profSave' \in SaveChain /\ profSave'.pc = "set" /\ profSave'.signer = s
        /\ profSave'.by = profSave.by /\ profSave'.form = profSave.form
    BY <2>2, <2>3 DEF SaveChain
  <2>5. ProfSaveFine'
    BY <1>b, <2>1, <2>3, <2>4 DEF ProfSaveFine
  <2>6. ~profLeft => s = profSave.by /\ profUser = profSave.by
    BY <1>b, <2>1, <2>2 DEF ProfHere
  <2>7. ProfHere'
    BY <1>b, <2>1, <2>4, <2>6 DEF ProfHere
  <2> QED
    BY <1>e, <2>1, <2>4, <2>5, <2>7
<1>12. CASE ProfileRefused
  <2>1. profSave.pc \in {"upload", "set"} /\ profSave' = NoSave
        /\ UNCHANGED <<profiles, profUser, profStored, profForm, profReads, profLeft>>
    BY <1>12 DEF ProfileRefused
  <2>2. profSave'.pc = "idle"
    BY <2>1 DEF NoSave
  <2>3. ProfSaveFine' /\ ProfHere'
    BY <1>b, <2>1, <2>2 DEF ProfSaveFine, ProfHere
  <2> QED
    BY <1>e, <2>1, <2>3
<1>13. CASE ProfileSet
  <2> DEFINE p == IF profUser = NoAccount THEN "thrown" ELSE "read"
             img == IF profSave.form.img # NoPhoto THEN profSave.form.img
                    ELSE profiles[profSave.signer].avatar
  <2>1. /\ profSave.pc = "set"
        /\ profiles' = [profiles EXCEPT ![profSave.signer] =
                           [name |-> profSave.form.name, avatar |-> img]]
        /\ profSave' = [profSave EXCEPT !.pc = p, !.reads = profUser]
        /\ UNCHANGED <<profUser, profStored, profForm, profReads, profLeft>>
    BY <1>13 DEF ProfileSet
  <2>2. profSave \in SaveChain /\ profSave.signer \in Accounts
    BY <1>b, <1>d, <2>1 DEF ProfSaveFine
  <2>3. profSave.form.name \in Names /\ img \in Picture
    BY <1>a, <2>2 DEF SaveChain, ProfForm
  <2> HIDE DEF img
  <2>4. profiles' \in [Accounts -> [name : Names, avatar : Picture]]
    BY <1>a, <2>1, <2>2, <2>3
  <2>5. p \in {"thrown", "read"} /\ (p = "read" <=> profUser # NoAccount)
    OBVIOUS
  <2> HIDE DEF p
  <2>6. /\ profSave' \in SaveChain /\ profSave'.pc = p /\ profSave'.reads = profUser
        /\ profSave'.by = profSave.by /\ profSave'.form = profSave.form
        /\ profSave'.signer = profSave.signer
    BY <1>a, <2>1, <2>2, <2>5 DEF SaveChain
  <2>7. ProfileTypes'
    BY <1>a, <2>1, <2>4, <2>6 DEF ProfileTypes
  <2>8. ProfFormFine'
    BY <1>b, <2>1 DEF ProfFormFine, ProfFormKept
  <2>9. ProfSaveFine'
    BY <1>a, <1>b, <2>1, <2>2, <2>5, <2>6 DEF ProfSaveFine
  <2>10. ~profLeft => /\ profUser = profSave.by /\ profUser # NoAccount
                      /\ profSave.signer = profSave.by
    BY <1>b, <1>c, <2>1, <2>2 DEF ProfHere, SaveChain
  <2>11. ProfHere'
    BY <2>1, <2>5, <2>6, <2>10 DEF ProfHere
  <2> QED
    BY <2>7, <2>8, <2>9, <2>11 DEF ProfInv
<1>14. CASE ProfileRead
  <2>1. /\ profSave.pc = "read"
        /\ profStored' = profiles[profSave.reads].name
        /\ profForm' = Closed(profForm)
        /\ profSave' = NoSave
        /\ UNCHANGED <<profiles, profUser, profReads, profLeft>>
    BY <1>14 DEF ProfileRead
  <2>2. profStored' \in Names
    BY <1>a, <1>b, <2>1 DEF ProfSaveFine
  <2>3. profSave'.pc = "idle"
    BY <2>1 DEF NoSave
  <2>4. ProfFormFine' /\ profForm' \in ProfForm
    BY <1>a, <1>b, <2>1, ProfClosed DEF ProfFormFine, ProfFormKept
  <2>5. ProfileTypes'
    BY <1>a, <2>1, <2>2, <2>4 DEF ProfileTypes
  <2>6. ProfSaveFine' /\ ProfHere'
    BY <1>b, <2>1, <2>3 DEF ProfSaveFine, ProfHere
  <2> QED
    BY <2>4, <2>5, <2>6 DEF ProfInv
<1>15. CASE UNCHANGED profVars
  BY <1>15 DEF profVars, ProfInv, ProfileTypes, ProfFormFine, ProfFormKept, ProfSaveFine, ProfHere
<1> QED
  BY <1>1, <1>2, <1>3, <1>4, <1>5, <1>6, <1>7, <1>8, <1>9, <1>10, <1>11, <1>12, <1>13, <1>14,
     <1>15 DEF ProfileNext

\* It starts with what is stored.
LEMMA ProfInitInv ==
    ASSUME ProfileInit
    PROVE  ProfInv
<1>1. /\ NoPhoto \in Picture /\ FirstNames \in [Accounts -> Names]
      /\ profUser \in Accounts /\ NoAccount \notin Accounts
  BY ProfileAssumption DEF ProfileInit, Picture
<1>2. profStored \in Names /\ profStored = profiles[profUser].name
      /\ profiles \in [Accounts -> [name : Names, avatar : Picture]]
  BY <1>1 DEF ProfileInit
<1>3. profForm \in ProfForm /\ ~profForm.typed /\ profForm.editImg = NoPhoto
      /\ ~profForm.editing /\ ~profForm.dialog
  BY <1>1, <1>2 DEF ProfileInit, ProfForm
<1>4. profReads = {} /\ profSave = NoSave /\ profLeft = FALSE /\ profSave.pc = "idle"
  BY DEF ProfileInit, NoSave
<1>5. ProfileTypes
  BY <1>1, <1>2, <1>3, <1>4 DEF ProfileTypes
<1> QED
  BY <1>2, <1>3, <1>4, <1>5 DEF ProfInv, ProfFormFine, ProfFormKept, ProfSaveFine, ProfHere

-----------------------------------------------------------------------------
(* The steps of what is being paid (StepDialogs). *)

\* A timer of a run: what it does, and for which status it was set.
StepTimer == [run : Runs, kind : TimerKinds, nth : 0 .. MaxStatus]

\* A run asks for the status only while it is polled; what is under way was asked for.
RunOk(n) ==
    /\ n \in Run /\ n.asked + n.reporting <= MaxStatus
    /\ n.pc \in {"idle", "waiting", "approve", "upload", "quote", "call", "profile"} => n.asked = 0
    /\ n.pc \in {"idle", "waiting", "approve", "upload", "quote", "call", "profile", "poll"} =>
           n.reporting = 0

\* A run that will still reset what it shows, or at least reads the profile; one that may have
\* marked a step, ticked the second, opened the box or set the button of a top-up loading.
Going(n) == n.pc \notin {"idle", "over", "profile"} \/ n.asked # 0 \/ n.reporting # 0
Busy(n) == Going(n) \/ n.pc = "profile"
Marking(n) == Going(n) /\ n.pc \notin {"waiting", "approve"}
Ticking(n) == n.reporting # 0 \/ n.pc = "stranded"
Boxing(n) == n.pc \in {"approve", "upload", "quote", "call", "poll", "stranded"}
Loading(n) == n.pc \in {"approve", "call", "stranded"}

\* The flags say more than that the approval spins.
HasMarks(s) == ~s.approving \/ s.approved \/ s.doing

\* The flags as a run shows them at pc.
ShownAt == {"waiting", "approve", "upload", "quote", "call", "poll", "report"}
ShownAs(s, pc) ==
    /\ s.approving <=> pc \in {"waiting", "approve"}
    /\ s.approved <=> pc \notin {"waiting", "approve"}
    /\ s.doing <=> pc \in {"quote", "call", "poll"}
    /\ s.done <=> pc = "report"

\* The values of the state; runs start in their order.
StTypes ==
    /\ stepPage \in {"trade", "create", "topup"}
    /\ steps \in Flags /\ stepBox \in BOOLEAN /\ stepLoads \in BOOLEAN
    /\ stepRuns \in [Runs -> Run] /\ \A r \in Runs : RunOk(stepRuns[r])
    /\ stepTimers \subseteq StepTimer
    /\ stepCloses \in Nat
    /\ \A q, r \in Runs : q < r /\ stepRuns[q].pc = "idle" => stepRuns[r].pc = "idle"

\* Every flag that is set has a run or a timer that will reset it.
StOpen == steps.open => stepTimers # {} \/ \E r \in Runs : Going(stepRuns[r])
\* The marks of the steps are reset by a timer, or by the run that has set them.
StMarks ==
    HasMarks(steps) => \/ \E t \in stepTimers : t.kind # "close"
                       \/ \E r \in Runs : Marking(stepRuns[r])
\* The second tick goes with a timer of its report, or its report is under way.
StDone ==
    steps.done => \/ \E t \in stepTimers : t.kind = "resetDone"
                  \/ \E r \in Runs : Ticking(stepRuns[r])
\* The box goes with a timer of its run, or its run goes on.
StBox ==
    stepBox => \/ \E t \in stepTimers : t.kind = "resetBox"
               \/ \E r \in Runs : Boxing(stepRuns[r])
\* The button of a top-up loads while a run of it is approved or called for, or left alone.
StLoads == stepLoads => stepPage = "topup" /\ \E r \in Runs : Loading(stepRuns[r])

\* A run that began clean began with blank flags.
StFrom == \A r \in Runs : stepRuns[r].clean => stepRuns[r].from = Blank

\* The last run began clean, and on the page of a trade nothing was closed.
Alone(r) ==
    /\ stepRuns[r].clean
    /\ \A q \in (r + 1) .. MaxRuns : stepRuns[q].pc = "idle"
    /\ stepPage = "trade" => stepCloses = 0

\* The flags are those of the run that is alone.
StShown ==
    \A r \in Runs : Alone(r) /\ stepRuns[r].pc \in ShownAt =>
        /\ stepTimers = {} /\ \A q \in Runs \ {r} : ~Busy(stepRuns[q])
        /\ ShownAs(steps, stepRuns[r].pc)

\* What is set will be reset.
StResets == StOpen /\ StMarks /\ StDone /\ StBox /\ StLoads

\* The inductive invariant of the steps.
StInv == StTypes /\ StResets /\ StFrom /\ StShown

\* Flags that say nothing are blank.
LEMMA FlagsBlank ==
    ASSUME NEW s \in Flags, ~s.open, ~HasMarks(s), ~s.done
    PROVE  s = Blank
<1>1. s.open = FALSE /\ s.approving = TRUE /\ s.approved = FALSE /\ s.doing = FALSE /\ s.done = FALSE
  BY DEF HasMarks, Flags
<1>2. s = [open |-> s.open, approving |-> s.approving, approved |-> s.approved, doing |-> s.doing,
           done |-> s.done]
  BY DEF Flags
<1> QED
  BY <1>1, <1>2 DEF Blank

\* When every run has ended and every timer has fired, nothing is left to reset.
LEMMA StepsSettled ==
    ASSUME StInv, stepTimers = {}, \A r \in Runs : Ended(r)
    PROVE  steps = Blank /\ ~stepBox /\ ~stepLoads
<1>1. \A r \in Runs : ~Going(stepRuns[r])
  BY DEF Ended, Going
<1>2. \A r \in Runs : /\ ~Marking(stepRuns[r]) /\ ~Ticking(stepRuns[r])
                      /\ ~Boxing(stepRuns[r]) /\ ~Loading(stepRuns[r])
  BY <1>1 DEF Going, Marking, Ticking, Boxing, Loading
<1>3. ~steps.open /\ ~HasMarks(steps) /\ ~steps.done /\ ~stepBox /\ ~stepLoads
  BY <1>1, <1>2 DEF StInv, StResets, StOpen, StMarks, StDone, StBox, StLoads
<1>4. steps \in Flags
  BY DEF StInv, StTypes
<1> QED
  BY <1>3, <1>4, FlagsBlank

\* The parts give what the dialogs promise.
LEMMA StInvAgrees ==
    ASSUME StInv
    PROVE  StepsAgree
<1>1. StepTypes
  BY DEF StInv, StTypes, StepTypes, StepTimer
<1>2. ASSUME NEW r \in Runs, Alone(r), stepRuns[r].pc \in ShownAt
      PROVE  LET pc == stepRuns[r].pc
             IN  /\ pc \in {"waiting", "approve"} => StepsPage.circles = <<Spins, Plain>>
                 /\ pc = "upload" => StepsPage.circles = <<Ticked, Plain>>
                 /\ pc \in {"quote", "call", "poll"} => StepsPage.circles = <<Ticked, Spins>>
                 /\ pc = "report" => StepsPage.circles = <<Ticked, Ticked>>
  <2> DEFINE pc == stepRuns[r].pc
  <2>1. ShownAs(steps, pc) /\ steps \in Flags
    BY <1>2 DEF StInv, StShown, StTypes
  <2>2. /\ pc \in {"waiting", "approve"} =>
              /\ steps.approving = TRUE /\ steps.approved = FALSE
              /\ steps.doing = FALSE /\ steps.done = FALSE
        /\ pc = "upload" =>
              /\ steps.approving = FALSE /\ steps.approved = TRUE
              /\ steps.doing = FALSE /\ steps.done = FALSE
        /\ pc \in {"quote", "call", "poll"} =>
              /\ steps.approving = FALSE /\ steps.approved = TRUE
              /\ steps.doing = TRUE /\ steps.done = FALSE
        /\ pc = "report" =>
              /\ steps.approving = FALSE /\ steps.approved = TRUE
              /\ steps.doing = FALSE /\ steps.done = TRUE
    BY <2>1 DEF ShownAs, Flags
  <2>3. StepsPage.circles = <<Circle(steps.approving, steps.approved), Circle(steps.doing, steps.done)>>
    BY DEF StepsPage, ApproveCircle, DoCircle
  <2> HIDE DEF pc
  <2> QED
    BY <2>2, <2>3 DEF Spins, Plain, Ticked, pc
<1>3. StepsShown
  BY <1>2 DEF StepsShown, Alone, ShownAt
<1>4. StFrom
  BY DEF StInv
<1>5. stepTimers = {} /\ (\A r \in Runs : Ended(r)) =>
           steps = Blank /\ ~StepsPage.box /\ ~StepsPage.loads
  BY StepsSettled DEF StepsPage
<1> QED
  BY <1>1, <1>3, <1>4, <1>5 DEF StepsAgree, StFrom

\* A run r that goes on as n, with what it does to the flags, the box and the timers.
LEMMA RunActs ==
    ASSUME StInv, NEW r \in Runs, Going(stepRuns[r]) \/ stepRuns[r].pc = "profile",
           NEW n \in Run, RunOk(n), n.pc # "idle",
           n.clean <=> stepRuns[r].clean, n.from = stepRuns[r].from,
           stepRuns' = [stepRuns EXCEPT ![r] = n],
           UNCHANGED <<stepPage, stepCloses>>,
           steps' \in Flags, stepBox' \in BOOLEAN, stepLoads' \in BOOLEAN,
           stepTimers \subseteq stepTimers', stepTimers' \subseteq StepTimer,
           \/ Going(n) \/ stepTimers' # {} \/ ~steps'.open
           \/ steps.open /\ ~Going(stepRuns[r]),
           \/ ~HasMarks(steps') \/ Marking(n) \/ (\E t \in stepTimers' : t.kind # "close")
           \/ HasMarks(steps) /\ ~Marking(stepRuns[r]),
           \/ ~steps'.done \/ Ticking(n) \/ (\E t \in stepTimers' : t.kind = "resetDone")
           \/ steps.done /\ ~Ticking(stepRuns[r]),
           \/ ~stepBox' \/ Boxing(n) \/ (\E t \in stepTimers' : t.kind = "resetBox")
           \/ stepBox /\ ~Boxing(stepRuns[r]),
           \/ ~stepLoads' \/ (stepPage = "topup" /\ Loading(n))
           \/ stepLoads /\ ~Loading(stepRuns[r]),
           n.pc \in ShownAt => stepRuns[r].pc \in ShownAt,
           n.pc \in ShownAt /\ stepTimers = {} /\ ShownAs(steps, stepRuns[r].pc) =>
               stepTimers' = {} /\ ShownAs(steps', n.pc)
    PROVE  StInv'
<1>a. StTypes /\ StOpen /\ StMarks /\ StDone /\ StBox /\ StLoads /\ StFrom /\ StShown
  BY DEF StInv, StResets
<1>1. /\ stepRuns' \in [Runs -> Run] /\ stepRuns'[r] = n
      /\ \A q \in Runs \ {r} : stepRuns'[q] = stepRuns[q]
  BY <1>a DEF StTypes
<1>2. stepRuns[r].pc # "idle" /\ Busy(stepRuns[r])
  BY <1>a DEF StTypes, RunOk, Going, Busy
<1>3. \A q \in Runs : stepRuns'[q].pc = "idle" <=> stepRuns[q].pc = "idle"
  BY <1>1, <1>2
<1>4. StTypes'
  <2>1. \A q \in Runs : RunOk(stepRuns'[q])
    BY <1>a, <1>1 DEF StTypes
  <2>2. \A p, q \in Runs : p < q /\ stepRuns'[p].pc = "idle" => stepRuns'[q].pc = "idle"
    BY <1>a, <1>3 DEF StTypes
  <2>3. stepPage' \in {"trade", "create", "topup"} /\ stepCloses' \in Nat
    BY <1>a DEF StTypes
  <2> QED
    BY <1>1, <2>1, <2>2, <2>3 DEF StTypes, RunOk
<1>5. StOpen'
  <2>1. stepTimers' = {} => stepTimers = {}
    OBVIOUS
  <2> QED
    BY <1>a, <1>1, <2>1 DEF StOpen
<1>6. StMarks'
  BY <1>a, <1>1 DEF StMarks
<1>7. StDone'
  BY <1>a, <1>1 DEF StDone
<1>8. StBox'
  BY <1>a, <1>1 DEF StBox
<1>9. StLoads'
  BY <1>a, <1>1 DEF StLoads
<1>10. StFrom'
  BY <1>a, <1>1 DEF StFrom
<1>11. StShown'
  <2> SUFFICES ASSUME NEW q \in Runs, Alone(q)', stepRuns'[q].pc \in ShownAt
               PROVE  /\ stepTimers' = {} /\ \A p \in Runs \ {q} : ~Busy(stepRuns'[p])
                      /\ ShownAs(steps', stepRuns'[q].pc)
    BY DEF StShown
  <2>1. Alone(q)
    <3>1. \A p \in (q + 1) .. MaxRuns : p \in Runs
      BY StepAssumption DEF Runs
    <3>2. stepRuns[q].clean
      BY <1>1 DEF Alone
    <3> QED
      BY <1>3, <3>1, <3>2 DEF Alone
  <2>2. stepRuns[q].pc \in ShownAt
    BY <1>1
  <2>3. /\ stepTimers = {} /\ \A p \in Runs \ {q} : ~Busy(stepRuns[p])
        /\ ShownAs(steps, stepRuns[q].pc)
    BY <1>a, <2>1, <2>2 DEF StShown
  <2>4. q = r
    BY <1>2, <2>3
  <2> QED
    BY <1>1, <2>3, <2>4
<1> QED
  BY <1>4, <1>5, <1>6, <1>7, <1>8, <1>9, <1>10, <1>11 DEF StInv, StResets

\* The places of a run.
Pcs == {"idle", "waiting", "approve", "upload", "quote", "call", "poll", "report", "profile",
        "over", "stranded"}

\* A run that only goes on to pc.
LEMMA RunGoes ==
    ASSUME StInv, NEW r \in Runs, NEW pc \in Pcs, Goes(r, pc)
    PROVE  \E n \in Run :
              /\ stepRuns' = [stepRuns EXCEPT ![r] = n]
              /\ n.pc = pc /\ n.asked = stepRuns[r].asked /\ n.reporting = stepRuns[r].reporting
              /\ n.clean <=> stepRuns[r].clean
              /\ n.from = stepRuns[r].from
<1> DEFINE n == [stepRuns[r] EXCEPT !.pc = pc]
<1>1. stepRuns \in [Runs -> Run] /\ stepRuns[r] \in Run
  BY DEF StInv, StTypes
<1>2. n \in Run
  BY <1>1 DEF Run, Pcs
<1>3. /\ n.pc = pc /\ n.asked = stepRuns[r].asked /\ n.reporting = stepRuns[r].reporting
      /\ n.clean <=> stepRuns[r].clean
      /\ n.from = stepRuns[r].from
  BY <1>1 DEF Run
<1>4. stepRuns' = [stepRuns EXCEPT ![r] = n]
  BY <1>1 DEF Goes
<1> HIDE DEF n
<1> QED
  BY <1>2, <1>3, <1>4

\* What is known of a run and of the flags.
LEMMA RunTypes ==
    ASSUME StInv, NEW r \in Runs
    PROVE  /\ stepRuns \in [Runs -> Run] /\ stepRuns[r] \in Run /\ RunOk(stepRuns[r])
           /\ steps \in Flags /\ stepBox \in BOOLEAN /\ stepLoads \in BOOLEAN
           /\ stepPage \in {"trade", "create", "topup"} /\ stepTimers \subseteq StepTimer
BY DEF StInv, StTypes

\* A timer that is started is one more.
LEMMA TimerAdded ==
    ASSUME StInv, NEW r \in Runs, NEW kind \in TimerKinds, Timer(r, kind)
    PROVE  /\ stepTimers \subseteq stepTimers' /\ stepTimers' \subseteq StepTimer
           /\ \E t \in stepTimers' : t.kind = kind
<1> DEFINE t == [run |-> r, kind |-> kind, nth |-> 0]
<1>1. t \in StepTimer /\ t.kind = kind
  BY StepAssumption DEF StepTimer
<1>2. stepTimers' = stepTimers \cup {t}
  BY DEF Timer
<1> HIDE DEF t
<1> QED
  BY <1>1, <1>2, RunTypes

\* The user connects: the box opens.
LEMMA WaitOverInv ==
    ASSUME StInv, NEW r \in Runs, WaitOver(r)
    PROVE  StInv'
<1>1. PICK n \in Run :
              /\ stepRuns' = [stepRuns EXCEPT ![r] = n]
              /\ n.pc = "approve"
              /\ n.asked = stepRuns[r].asked /\ n.reporting = stepRuns[r].reporting
              /\ n.clean <=> stepRuns[r].clean
              /\ n.from = stepRuns[r].from
  BY RunGoes DEF WaitOver, Pcs
<1>2. /\ stepRuns[r].pc = "waiting" /\ stepBox' = TRUE
      /\ UNCHANGED <<steps, stepLoads, stepTimers, stepCloses, stepPage>>
  BY DEF WaitOver, Box, NoTimer
<1>3. RunOk(n)
  BY <1>1, <1>2, RunTypes DEF RunOk
<1>4. /\ Going(stepRuns[r]) /\ Going(n) /\ ~Marking(stepRuns[r]) /\ ~Ticking(stepRuns[r])
      /\ Boxing(n) /\ ~Loading(stepRuns[r])
  BY <1>1, <1>2, RunTypes DEF Going, Marking, Ticking, Boxing, Loading, RunOk
<1>5. steps' \in Flags /\ steps' = steps
  BY <1>2, RunTypes
<1>6. /\ UNCHANGED <<stepPage, stepCloses>>
      /\ stepTimers \subseteq stepTimers' /\ stepTimers' \subseteq StepTimer
      /\ stepBox' \in BOOLEAN /\ stepLoads' \in BOOLEAN
  BY <1>2, RunTypes DEF StepTimer, TimerKinds
<1>7. /\ Going(n) \/ stepTimers' # {} \/ ~steps'.open
      /\ n.pc \in ShownAt => stepRuns[r].pc \in ShownAt
      /\ n.pc # "idle"
  BY <1>1, <1>2, <1>4, <1>5, RunTypes DEF ShownAt, RunOk
<1>8. \/ ~HasMarks(steps') \/ Marking(n) \/ (\E t \in stepTimers' : t.kind # "close")
      \/ HasMarks(steps) /\ ~Marking(stepRuns[r])
  BY <1>2, <1>4, <1>5 DEF HasMarks
<1>9. \/ ~steps'.done \/ Ticking(n) \/ (\E t \in stepTimers' : t.kind = "resetDone")
      \/ steps.done /\ ~Ticking(stepRuns[r])
  BY <1>2, <1>4, <1>5
<1>10. \/ ~stepBox' \/ Boxing(n) \/ (\E t \in stepTimers' : t.kind = "resetBox")
       \/ stepBox /\ ~Boxing(stepRuns[r])
  BY <1>2, <1>4, RunTypes
<1>11. \/ ~stepLoads' \/ (stepPage = "topup" /\ Loading(n))
       \/ stepLoads /\ ~Loading(stepRuns[r])
  BY <1>1, <1>2, <1>4, RunTypes DEF Loading, StInv, StResets, StLoads
<1>12. n.pc \in ShownAt /\ stepTimers = {} /\ ShownAs(steps, stepRuns[r].pc) =>
           stepTimers' = {} /\ ShownAs(steps', n.pc)
  BY <1>1, <1>2, <1>5 DEF ShownAs, ShownAt
<1> QED
  BY <1>1, <1>3, <1>4, <1>5, <1>6, <1>7, <1>8, <1>9, <1>10, <1>11, <1>12, RunActs

\* The approval is ticked, and the next step marked unless the picture comes first.
LEMMA StepApprovedInv ==
    ASSUME StInv, NEW r \in Runs, StepApproved(r)
    PROVE  StInv'
<1>1. PICK n \in Run :
              /\ stepRuns' = [stepRuns EXCEPT ![r] = n]
              /\ n.pc = (CASE stepPage = "trade" -> "quote" [] stepPage = "create" -> "upload"
                        [] stepPage = "topup" -> "call")
              /\ n.asked = stepRuns[r].asked /\ n.reporting = stepRuns[r].reporting
              /\ n.clean <=> stepRuns[r].clean
              /\ n.from = stepRuns[r].from
  BY RunGoes, RunTypes DEF StepApproved, Pcs
<1>2. /\ stepRuns[r].pc = "approve" /\ stepBox' = TRUE
      /\ steps' = [steps EXCEPT !.approving = FALSE, !.approved = TRUE,
                                !.doing = steps.doing \/ stepPage # "create"]
      /\ UNCHANGED <<stepLoads, stepTimers, stepCloses, stepPage>>
  BY DEF StepApproved, Box, NoTimer
<1>a. \/ stepPage = "trade" /\ n.pc = "quote"
      \/ stepPage = "create" /\ n.pc = "upload"
      \/ stepPage = "topup" /\ n.pc = "call"
  BY <1>1, RunTypes
<1>3. RunOk(n)
  BY <1>1, <1>2, <1>a, RunTypes DEF RunOk
<1>4. /\ Going(stepRuns[r]) /\ Going(n) /\ Marking(n) /\ ~Ticking(stepRuns[r])
      /\ Boxing(n)
  BY <1>1, <1>2, <1>a, RunTypes DEF Going, Marking, Ticking, Boxing, Loading, RunOk
<1>5. /\ steps' \in Flags
      /\ steps'.approving <=> FALSE
      /\ steps'.approved <=> TRUE
      /\ steps'.doing <=> steps.doing \/ stepPage # "create"
      /\ steps'.done <=> steps.done
  <2>1. steps \in Flags
    BY RunTypes
  <2>2. PICK b \in BOOLEAN : b = (steps.doing \/ stepPage # "create")
    OBVIOUS
  <2>3. b <=> steps.doing \/ stepPage # "create"
    BY <2>2
  <2>4. steps' = [steps EXCEPT !.approving = FALSE, !.approved = TRUE, !.doing = b]
    BY <1>2, <2>2
  <2> HIDE <1>2, <2>2
  <2> QED
    BY <2>1, <2>3, <2>4 DEF Flags
<1>6. /\ UNCHANGED <<stepPage, stepCloses>>
      /\ stepTimers \subseteq stepTimers' /\ stepTimers' \subseteq StepTimer
      /\ stepBox' \in BOOLEAN /\ stepLoads' \in BOOLEAN
  BY <1>2, RunTypes DEF StepTimer, TimerKinds
<1>7. /\ Going(n) \/ stepTimers' # {} \/ ~steps'.open
      /\ n.pc \in ShownAt => stepRuns[r].pc \in ShownAt
      /\ n.pc # "idle"
  BY <1>1, <1>2, <1>a, <1>4, <1>5, RunTypes DEF ShownAt, RunOk
<1>8. \/ ~HasMarks(steps') \/ Marking(n) \/ (\E t \in stepTimers' : t.kind # "close")
      \/ HasMarks(steps) /\ ~Marking(stepRuns[r])
  BY <1>2, <1>a, <1>4, <1>5 DEF HasMarks
<1>9. \/ ~steps'.done \/ Ticking(n) \/ (\E t \in stepTimers' : t.kind = "resetDone")
      \/ steps.done /\ ~Ticking(stepRuns[r])
  BY <1>2, <1>a, <1>4, <1>5
<1>10. \/ ~stepBox' \/ Boxing(n) \/ (\E t \in stepTimers' : t.kind = "resetBox")
       \/ stepBox /\ ~Boxing(stepRuns[r])
  BY <1>2, <1>a, <1>4, RunTypes
<1>11. \/ ~stepLoads' \/ (stepPage = "topup" /\ Loading(n))
       \/ stepLoads /\ ~Loading(stepRuns[r])
  BY <1>1, <1>2, <1>a, <1>4, RunTypes DEF Loading, StInv, StResets, StLoads
<1>12. n.pc \in ShownAt /\ stepTimers = {} /\ ShownAs(steps, stepRuns[r].pc) =>
           stepTimers' = {} /\ ShownAs(steps', n.pc)
  BY <1>1, <1>2, <1>a, <1>5 DEF ShownAs, ShownAt
<1> QED
  BY <1>1, <1>3, <1>4, <1>5, <1>6, <1>7, <1>8, <1>9, <1>10, <1>11, <1>12, RunActs

\* The dialog will be closed by a timer.
LEMMA StepApproveFailsInv ==
    ASSUME StInv, NEW r \in Runs, StepApproveFails(r)
    PROVE  StInv'
<1>1. PICK n \in Run :
              /\ stepRuns' = [stepRuns EXCEPT ![r] = n]
              /\ n.pc = "over"
              /\ n.asked = stepRuns[r].asked /\ n.reporting = stepRuns[r].reporting
              /\ n.clean <=> stepRuns[r].clean
              /\ n.from = stepRuns[r].from
  BY RunGoes DEF StepApproveFails, Pcs
<1>2. /\ stepRuns[r].pc = "approve" /\ ~stepBox' /\ stepBox' \in BOOLEAN
      /\ ~stepLoads' /\ stepLoads' \in BOOLEAN
      /\ Timer(r, "close")
      /\ UNCHANGED <<steps, stepCloses, stepPage>>
  BY DEF StepApproveFails, BoxAndButton
<1>t. stepTimers \subseteq stepTimers' /\ stepTimers' \subseteq StepTimer /\ stepTimers' # {}
  BY <1>2, TimerAdded DEF TimerKinds
<1>3. RunOk(n)
  BY <1>1, <1>2, RunTypes DEF RunOk
<1>4. /\ Going(stepRuns[r]) /\ ~Marking(stepRuns[r]) /\ ~Ticking(stepRuns[r])
  BY <1>1, <1>2, RunTypes DEF Going, Marking, Ticking, Boxing, Loading, RunOk
<1>5. steps' \in Flags /\ steps' = steps
  BY <1>2, RunTypes
<1>6. /\ UNCHANGED <<stepPage, stepCloses>>
      /\ stepTimers \subseteq stepTimers' /\ stepTimers' \subseteq StepTimer
      /\ stepBox' \in BOOLEAN /\ stepLoads' \in BOOLEAN
  BY <1>2, <1>t, RunTypes
<1>7. /\ Going(n) \/ stepTimers' # {} \/ ~steps'.open
      /\ n.pc \in ShownAt => stepRuns[r].pc \in ShownAt
      /\ n.pc # "idle"
  BY <1>1, <1>2, <1>t, <1>4, <1>5, RunTypes DEF ShownAt, RunOk
<1>8. \/ ~HasMarks(steps') \/ Marking(n) \/ (\E t \in stepTimers' : t.kind # "close")
      \/ HasMarks(steps) /\ ~Marking(stepRuns[r])
  BY <1>2, <1>4, <1>5 DEF HasMarks
<1>9. \/ ~steps'.done \/ Ticking(n) \/ (\E t \in stepTimers' : t.kind = "resetDone")
      \/ steps.done /\ ~Ticking(stepRuns[r])
  BY <1>2, <1>4, <1>5
<1>10. \/ ~stepBox' \/ Boxing(n) \/ (\E t \in stepTimers' : t.kind = "resetBox")
       \/ stepBox /\ ~Boxing(stepRuns[r])
  BY <1>2, <1>4, RunTypes
<1>11. \/ ~stepLoads' \/ (stepPage = "topup" /\ Loading(n))
       \/ stepLoads /\ ~Loading(stepRuns[r])
  BY <1>1, <1>2, <1>4, RunTypes DEF Loading, StInv, StResets, StLoads
<1>12. n.pc \in ShownAt /\ stepTimers = {} /\ ShownAs(steps, stepRuns[r].pc) =>
           stepTimers' = {} /\ ShownAs(steps', n.pc)
  BY <1>1, <1>2, <1>5 DEF ShownAs, ShownAt
<1> QED
  BY <1>1, <1>3, <1>4, <1>5, <1>6, <1>7, <1>8, <1>9, <1>10, <1>11, <1>12, RunActs

\* The second step of a project is marked.
LEMMA StepUploadedInv ==
    ASSUME StInv, NEW r \in Runs, StepUploaded(r)
    PROVE  StInv'
<1>1. PICK n \in Run :
              /\ stepRuns' = [stepRuns EXCEPT ![r] = n]
              /\ n.pc = "call"
              /\ n.asked = stepRuns[r].asked /\ n.reporting = stepRuns[r].reporting
              /\ n.clean <=> stepRuns[r].clean
              /\ n.from = stepRuns[r].from
  BY RunGoes DEF StepUploaded, Pcs
<1>2. /\ stepRuns[r].pc = "upload"
      /\ steps' = [steps EXCEPT !.doing = TRUE]
      /\ UNCHANGED <<stepBox, stepLoads, stepTimers, stepCloses, stepPage>>
  BY DEF StepUploaded, NoTimer
<1>3. RunOk(n)
  BY <1>1, <1>2, RunTypes DEF RunOk
<1>4. /\ Going(stepRuns[r]) /\ Going(n) /\ Marking(n) /\ ~Ticking(stepRuns[r])
      /\ Boxing(n) /\ ~Loading(stepRuns[r])
  BY <1>1, <1>2, RunTypes DEF Going, Marking, Ticking, Boxing, Loading, RunOk
<1>5. /\ steps' \in Flags
      /\ steps'.open <=> steps.open
      /\ steps'.approving <=> steps.approving
      /\ steps'.approved <=> steps.approved
      /\ steps'.doing <=> TRUE
      /\ steps'.done <=> steps.done
  <2>1. steps \in Flags
    BY RunTypes
  <2> QED
    BY <1>2, <2>1 DEF Flags, Blank
<1>6. /\ UNCHANGED <<stepPage, stepCloses>>
      /\ stepTimers \subseteq stepTimers' /\ stepTimers' \subseteq StepTimer
      /\ stepBox' \in BOOLEAN /\ stepLoads' \in BOOLEAN
  BY <1>2, RunTypes DEF StepTimer, TimerKinds
<1>7. /\ Going(n) \/ stepTimers' # {} \/ ~steps'.open
      /\ n.pc \in ShownAt => stepRuns[r].pc \in ShownAt
      /\ n.pc # "idle"
  BY <1>1, <1>2, <1>4, <1>5, RunTypes DEF ShownAt, RunOk
<1>8. \/ ~HasMarks(steps') \/ Marking(n) \/ (\E t \in stepTimers' : t.kind # "close")
      \/ HasMarks(steps) /\ ~Marking(stepRuns[r])
  BY <1>2, <1>4, <1>5 DEF HasMarks
<1>9. \/ ~steps'.done \/ Ticking(n) \/ (\E t \in stepTimers' : t.kind = "resetDone")
      \/ steps.done /\ ~Ticking(stepRuns[r])
  BY <1>2, <1>4, <1>5
<1>10. \/ ~stepBox' \/ Boxing(n) \/ (\E t \in stepTimers' : t.kind = "resetBox")
       \/ stepBox /\ ~Boxing(stepRuns[r])
  BY <1>2, <1>4, RunTypes
<1>11. \/ ~stepLoads' \/ (stepPage = "topup" /\ Loading(n))
       \/ stepLoads /\ ~Loading(stepRuns[r])
  BY <1>1, <1>2, <1>4, RunTypes DEF Loading, StInv, StResets, StLoads
<1>12. n.pc \in ShownAt /\ stepTimers = {} /\ ShownAs(steps, stepRuns[r].pc) =>
           stepTimers' = {} /\ ShownAs(steps', n.pc)
  BY <1>1, <1>2, <1>5 DEF ShownAs, ShownAt
<1> QED
  BY <1>1, <1>3, <1>4, <1>5, <1>6, <1>7, <1>8, <1>9, <1>10, <1>11, <1>12, RunActs

\* A failed upload resets all flags but the mark of an earlier success.
LEMMA StepUploadFailsInv ==
    ASSUME StInv, NEW r \in Runs, StepUploadFails(r)
    PROVE  StInv'
<1>1. PICK n \in Run :
              /\ stepRuns' = [stepRuns EXCEPT ![r] = n]
              /\ n.pc = "over"
              /\ n.asked = stepRuns[r].asked /\ n.reporting = stepRuns[r].reporting
              /\ n.clean <=> stepRuns[r].clean
              /\ n.from = stepRuns[r].from
  BY RunGoes DEF StepUploadFails, Pcs
<1>2. /\ stepRuns[r].pc = "upload" /\ stepBox' = FALSE
      /\ steps' = [Blank EXCEPT !.done = steps.done]
      /\ UNCHANGED <<stepLoads, stepTimers, stepCloses, stepPage>>
  BY DEF StepUploadFails, Box, NoTimer
<1>3. RunOk(n)
  BY <1>1, <1>2, RunTypes DEF RunOk
<1>4. /\ Going(stepRuns[r]) /\ ~Ticking(stepRuns[r]) /\ ~Loading(stepRuns[r])
  BY <1>1, <1>2, RunTypes DEF Going, Marking, Ticking, Boxing, Loading, RunOk
<1>5. /\ steps' \in Flags
      /\ steps'.open <=> FALSE
      /\ steps'.approving <=> TRUE
      /\ steps'.approved <=> FALSE
      /\ steps'.doing <=> FALSE
      /\ steps'.done <=> steps.done
  <2>1. steps \in Flags
    BY RunTypes
  <2> QED
    BY <1>2, <2>1 DEF Flags, Blank
<1>6. /\ UNCHANGED <<stepPage, stepCloses>>
      /\ stepTimers \subseteq stepTimers' /\ stepTimers' \subseteq StepTimer
      /\ stepBox' \in BOOLEAN /\ stepLoads' \in BOOLEAN
  BY <1>2, RunTypes DEF StepTimer, TimerKinds
<1>7. /\ Going(n) \/ stepTimers' # {} \/ ~steps'.open
      /\ n.pc \in ShownAt => stepRuns[r].pc \in ShownAt
      /\ n.pc # "idle"
  BY <1>1, <1>2, <1>4, <1>5, RunTypes DEF ShownAt, RunOk
<1>8. \/ ~HasMarks(steps') \/ Marking(n) \/ (\E t \in stepTimers' : t.kind # "close")
      \/ HasMarks(steps) /\ ~Marking(stepRuns[r])
  BY <1>2, <1>4, <1>5 DEF HasMarks
<1>9. \/ ~steps'.done \/ Ticking(n) \/ (\E t \in stepTimers' : t.kind = "resetDone")
      \/ steps.done /\ ~Ticking(stepRuns[r])
  BY <1>2, <1>4, <1>5
<1>10. \/ ~stepBox' \/ Boxing(n) \/ (\E t \in stepTimers' : t.kind = "resetBox")
       \/ stepBox /\ ~Boxing(stepRuns[r])
  BY <1>2, <1>4, RunTypes
<1>11. \/ ~stepLoads' \/ (stepPage = "topup" /\ Loading(n))
       \/ stepLoads /\ ~Loading(stepRuns[r])
  BY <1>1, <1>2, <1>4, RunTypes DEF Loading, StInv, StResets, StLoads
<1>12. n.pc \in ShownAt /\ stepTimers = {} /\ ShownAs(steps, stepRuns[r].pc) =>
           stepTimers' = {} /\ ShownAs(steps', n.pc)
  BY <1>1, <1>2, <1>5 DEF ShownAs, ShownAt
<1> QED
  BY <1>1, <1>3, <1>4, <1>5, <1>6, <1>7, <1>8, <1>9, <1>10, <1>11, <1>12, RunActs

\* The quote of a trade arrives.
LEMMA StepQuotedInv ==
    ASSUME StInv, NEW r \in Runs, StepQuoted(r)
    PROVE  StInv'
<1>1. PICK n \in Run :
              /\ stepRuns' = [stepRuns EXCEPT ![r] = n]
              /\ n.pc = "call"
              /\ n.asked = stepRuns[r].asked /\ n.reporting = stepRuns[r].reporting
              /\ n.clean <=> stepRuns[r].clean
              /\ n.from = stepRuns[r].from
  BY RunGoes DEF StepQuoted, Pcs
<1>2. /\ stepRuns[r].pc = "quote"
      /\ UNCHANGED <<steps, stepBox, stepLoads, stepTimers, stepCloses, stepPage>>
  BY DEF StepQuoted, NoTimer
<1>3. RunOk(n)
  BY <1>1, <1>2, RunTypes DEF RunOk
<1>4. /\ Going(stepRuns[r]) /\ Going(n) /\ Marking(n) /\ ~Ticking(stepRuns[r])
      /\ Boxing(n) /\ ~Loading(stepRuns[r])
  BY <1>1, <1>2, RunTypes DEF Going, Marking, Ticking, Boxing, Loading, RunOk
<1>5. steps' \in Flags /\ steps' = steps
  BY <1>2, RunTypes
<1>6. /\ UNCHANGED <<stepPage, stepCloses>>
      /\ stepTimers \subseteq stepTimers' /\ stepTimers' \subseteq StepTimer
      /\ stepBox' \in BOOLEAN /\ stepLoads' \in BOOLEAN
  BY <1>2, RunTypes DEF StepTimer, TimerKinds
<1>7. /\ Going(n) \/ stepTimers' # {} \/ ~steps'.open
      /\ n.pc \in ShownAt => stepRuns[r].pc \in ShownAt
      /\ n.pc # "idle"
  BY <1>1, <1>2, <1>4, <1>5, RunTypes DEF ShownAt, RunOk
<1>8. \/ ~HasMarks(steps') \/ Marking(n) \/ (\E t \in stepTimers' : t.kind # "close")
      \/ HasMarks(steps) /\ ~Marking(stepRuns[r])
  BY <1>2, <1>4, <1>5 DEF HasMarks
<1>9. \/ ~steps'.done \/ Ticking(n) \/ (\E t \in stepTimers' : t.kind = "resetDone")
      \/ steps.done /\ ~Ticking(stepRuns[r])
  BY <1>2, <1>4, <1>5
<1>10. \/ ~stepBox' \/ Boxing(n) \/ (\E t \in stepTimers' : t.kind = "resetBox")
       \/ stepBox /\ ~Boxing(stepRuns[r])
  BY <1>2, <1>4, RunTypes
<1>11. \/ ~stepLoads' \/ (stepPage = "topup" /\ Loading(n))
       \/ stepLoads /\ ~Loading(stepRuns[r])
  BY <1>1, <1>2, <1>4, RunTypes DEF Loading, StInv, StResets, StLoads
<1>12. n.pc \in ShownAt /\ stepTimers = {} /\ ShownAs(steps, stepRuns[r].pc) =>
           stepTimers' = {} /\ ShownAs(steps', n.pc)
  BY <1>1, <1>2, <1>5 DEF ShownAs, ShownAt
<1> QED
  BY <1>1, <1>3, <1>4, <1>5, <1>6, <1>7, <1>8, <1>9, <1>10, <1>11, <1>12, RunActs

\* A run whose quote is rejected stays where it is.
LEMMA StepQuoteRejectedInv ==
    ASSUME StInv, NEW r \in Runs, StepQuoteRejected(r)
    PROVE  StInv'
<1>1. PICK n \in Run :
              /\ stepRuns' = [stepRuns EXCEPT ![r] = n]
              /\ n.pc = "stranded"
              /\ n.asked = stepRuns[r].asked /\ n.reporting = stepRuns[r].reporting
              /\ n.clean <=> stepRuns[r].clean
              /\ n.from = stepRuns[r].from
  BY RunGoes DEF StepQuoteRejected, Pcs
<1>2. /\ stepRuns[r].pc = "quote"
      /\ \/ UNCHANGED <<steps, stepTimers>>
         \/ /\ steps' = [steps EXCEPT !.open = FALSE]
            /\ Timer(r, "resetDone")
      /\ UNCHANGED <<stepBox, stepLoads, stepCloses, stepPage>>
  BY DEF StepQuoteRejected
<1>t. stepTimers \subseteq stepTimers' /\ stepTimers' \subseteq StepTimer
  BY <1>2, TimerAdded, RunTypes DEF TimerKinds
<1>3. RunOk(n)
  BY <1>1, <1>2, RunTypes DEF RunOk
<1>4. /\ Going(stepRuns[r]) /\ Going(n) /\ Marking(n) /\ Ticking(n)
      /\ Boxing(n) /\ ~Loading(stepRuns[r])
  BY <1>1, <1>2, RunTypes DEF Going, Marking, Ticking, Boxing, Loading, RunOk
<1>5. steps' \in Flags
  <2>1. steps \in Flags
    BY RunTypes
  <2> QED
    BY <1>2, <2>1 DEF Flags
<1>6. /\ UNCHANGED <<stepPage, stepCloses>>
      /\ stepTimers \subseteq stepTimers' /\ stepTimers' \subseteq StepTimer
      /\ stepBox' \in BOOLEAN /\ stepLoads' \in BOOLEAN
  BY <1>2, <1>t, RunTypes
<1>7. /\ Going(n) \/ stepTimers' # {} \/ ~steps'.open
      /\ n.pc \in ShownAt => stepRuns[r].pc \in ShownAt
      /\ n.pc # "idle"
  BY <1>1, <1>2, <1>t, <1>4, <1>5, RunTypes DEF ShownAt, RunOk
<1>8. \/ ~HasMarks(steps') \/ Marking(n) \/ (\E t \in stepTimers' : t.kind # "close")
      \/ HasMarks(steps) /\ ~Marking(stepRuns[r])
  BY <1>2, <1>4, <1>5 DEF HasMarks
<1>9. \/ ~steps'.done \/ Ticking(n) \/ (\E t \in stepTimers' : t.kind = "resetDone")
      \/ steps.done /\ ~Ticking(stepRuns[r])
  BY <1>2, <1>4, <1>5
<1>10. \/ ~stepBox' \/ Boxing(n) \/ (\E t \in stepTimers' : t.kind = "resetBox")
       \/ stepBox /\ ~Boxing(stepRuns[r])
  BY <1>2, <1>4, RunTypes
<1>11. \/ ~stepLoads' \/ (stepPage = "topup" /\ Loading(n))
       \/ stepLoads /\ ~Loading(stepRuns[r])
  BY <1>1, <1>2, <1>4, RunTypes DEF Loading, StInv, StResets, StLoads
<1>12. n.pc \in ShownAt /\ stepTimers = {} /\ ShownAs(steps, stepRuns[r].pc) =>
           stepTimers' = {} /\ ShownAs(steps', n.pc)
  BY <1>1, <1>2, <1>5 DEF ShownAs, ShownAt
<1> QED
  BY <1>1, <1>3, <1>4, <1>5, <1>6, <1>7, <1>8, <1>9, <1>10, <1>11, <1>12, RunActs

\* The router takes a swap.
LEMMA StepAcceptedInv ==
    ASSUME StInv, NEW r \in Runs, StepAccepted(r)
    PROVE  StInv'
<1>1. PICK n \in Run :
              /\ stepRuns' = [stepRuns EXCEPT ![r] = n]
              /\ n.pc = "poll"
              /\ n.asked = stepRuns[r].asked /\ n.reporting = stepRuns[r].reporting
              /\ n.clean <=> stepRuns[r].clean
              /\ n.from = stepRuns[r].from
  BY RunGoes DEF StepAccepted, Pcs
<1>2. /\ stepRuns[r].pc = "call" /\ stepPage = "trade"
      /\ UNCHANGED <<steps, stepBox, stepLoads, stepTimers, stepCloses, stepPage>>
  BY DEF StepAccepted, NoTimer
<1>3. RunOk(n)
  BY <1>1, <1>2, RunTypes DEF RunOk
<1>4. /\ Going(stepRuns[r]) /\ Going(n) /\ Marking(n) /\ ~Ticking(stepRuns[r])
      /\ Boxing(n)
  BY <1>1, <1>2, RunTypes DEF Going, Marking, Ticking, Boxing, Loading, RunOk
<1>5. steps' \in Flags /\ steps' = steps
  BY <1>2, RunTypes
<1>6. /\ UNCHANGED <<stepPage, stepCloses>>
      /\ stepTimers \subseteq stepTimers' /\ stepTimers' \subseteq StepTimer
      /\ stepBox' \in BOOLEAN /\ stepLoads' \in BOOLEAN
  BY <1>2, RunTypes DEF StepTimer, TimerKinds
<1>7. /\ Going(n) \/ stepTimers' # {} \/ ~steps'.open
      /\ n.pc \in ShownAt => stepRuns[r].pc \in ShownAt
      /\ n.pc # "idle"
  BY <1>1, <1>2, <1>4, <1>5, RunTypes DEF ShownAt, RunOk
<1>8. \/ ~HasMarks(steps') \/ Marking(n) \/ (\E t \in stepTimers' : t.kind # "close")
      \/ HasMarks(steps) /\ ~Marking(stepRuns[r])
  BY <1>2, <1>4, <1>5 DEF HasMarks
<1>9. \/ ~steps'.done \/ Ticking(n) \/ (\E t \in stepTimers' : t.kind = "resetDone")
      \/ steps.done /\ ~Ticking(stepRuns[r])
  BY <1>2, <1>4, <1>5
<1>10. \/ ~stepBox' \/ Boxing(n) \/ (\E t \in stepTimers' : t.kind = "resetBox")
       \/ stepBox /\ ~Boxing(stepRuns[r])
  BY <1>2, <1>4, RunTypes
<1>11. \/ ~stepLoads' \/ (stepPage = "topup" /\ Loading(n))
       \/ stepLoads /\ ~Loading(stepRuns[r])
  BY <1>1, <1>2, <1>4, RunTypes DEF Loading, StInv, StResets, StLoads
<1>12. n.pc \in ShownAt /\ stepTimers = {} /\ ShownAs(steps, stepRuns[r].pc) =>
           stepTimers' = {} /\ ShownAs(steps', n.pc)
  BY <1>1, <1>2, <1>5 DEF ShownAs, ShownAt
<1> QED
  BY <1>1, <1>3, <1>4, <1>5, <1>6, <1>7, <1>8, <1>9, <1>10, <1>11, <1>12, RunActs

\* The second step is ticked, and a timer will reset all flags.
LEMMA StepDoneInv ==
    ASSUME StInv, NEW r \in Runs, StepDone(r)
    PROVE  StInv'
<1>1. PICK n \in Run :
              /\ stepRuns' = [stepRuns EXCEPT ![r] = n]
              /\ n.pc \in {"over", "profile"}
              /\ n.asked = stepRuns[r].asked /\ n.reporting = stepRuns[r].reporting
              /\ n.clean <=> stepRuns[r].clean
              /\ n.from = stepRuns[r].from
  BY RunGoes DEF StepDone, Pcs
<1>2. /\ stepRuns[r].pc = "call" /\ ~stepBox' /\ stepBox' \in BOOLEAN
      /\ ~stepLoads' /\ stepLoads' \in BOOLEAN
      /\ steps' = [steps EXCEPT !.doing = FALSE, !.done = TRUE]
      /\ Timer(r, "resetDone")
      /\ UNCHANGED <<stepCloses, stepPage>>
  BY DEF StepDone, BoxAndButton
<1>t. stepTimers \subseteq stepTimers' /\ stepTimers' \subseteq StepTimer /\ stepTimers' # {}
  BY <1>2, TimerAdded DEF TimerKinds
<1>a. \E t \in stepTimers' : t.kind = "resetDone" /\ t.kind # "close"
  BY <1>2, TimerAdded DEF TimerKinds
<1>3. RunOk(n)
  BY <1>1, <1>2, <1>a, RunTypes DEF RunOk
<1>4. Going(stepRuns[r]) /\ ~Ticking(stepRuns[r])
  BY <1>1, <1>2, <1>a, RunTypes DEF Going, Marking, Ticking, Boxing, Loading, RunOk
<1>5. /\ steps' \in Flags
      /\ steps'.open <=> steps.open
      /\ steps'.approving <=> steps.approving
      /\ steps'.approved <=> steps.approved
      /\ steps'.doing <=> FALSE
      /\ steps'.done <=> TRUE
  <2>1. steps \in Flags
    BY RunTypes
  <2> QED
    BY <1>2, <2>1 DEF Flags, Blank
<1>6. /\ UNCHANGED <<stepPage, stepCloses>>
      /\ stepTimers \subseteq stepTimers' /\ stepTimers' \subseteq StepTimer
      /\ stepBox' \in BOOLEAN /\ stepLoads' \in BOOLEAN
  BY <1>2, <1>t, RunTypes
<1>7. /\ Going(n) \/ stepTimers' # {} \/ ~steps'.open
      /\ n.pc \in ShownAt => stepRuns[r].pc \in ShownAt
      /\ n.pc # "idle"
  BY <1>1, <1>2, <1>a, <1>t, <1>4, <1>5, RunTypes DEF ShownAt, RunOk
<1>8. \/ ~HasMarks(steps') \/ Marking(n) \/ (\E t \in stepTimers' : t.kind # "close")
      \/ HasMarks(steps) /\ ~Marking(stepRuns[r])
  BY <1>2, <1>a, <1>4, <1>5 DEF HasMarks
<1>9. \/ ~steps'.done \/ Ticking(n) \/ (\E t \in stepTimers' : t.kind = "resetDone")
      \/ steps.done /\ ~Ticking(stepRuns[r])
  BY <1>2, <1>a, <1>4, <1>5
<1>10. \/ ~stepBox' \/ Boxing(n) \/ (\E t \in stepTimers' : t.kind = "resetBox")
       \/ stepBox /\ ~Boxing(stepRuns[r])
  BY <1>2, <1>a, <1>4, RunTypes
<1>11. \/ ~stepLoads' \/ (stepPage = "topup" /\ Loading(n))
       \/ stepLoads /\ ~Loading(stepRuns[r])
  BY <1>1, <1>2, <1>a, <1>4, RunTypes DEF Loading, StInv, StResets, StLoads
<1>12. n.pc \in ShownAt /\ stepTimers = {} /\ ShownAs(steps, stepRuns[r].pc) =>
           stepTimers' = {} /\ ShownAs(steps', n.pc)
  BY <1>1, <1>2, <1>a, <1>5 DEF ShownAs, ShownAt
<1> QED
  BY <1>1, <1>3, <1>4, <1>5, <1>6, <1>7, <1>8, <1>9, <1>10, <1>11, <1>12, RunActs

\* An approval that is never answered leaves all that is shown to the user.
LEMMA StepApproveSilentInv ==
    ASSUME StInv, NEW r \in Runs, StepApproveSilent(r)
    PROVE  StInv'
<1>1. PICK n \in Run :
              /\ stepRuns' = [stepRuns EXCEPT ![r] = n]
              /\ n.pc = "stranded"
              /\ n.asked = stepRuns[r].asked /\ n.reporting = stepRuns[r].reporting
              /\ n.clean <=> stepRuns[r].clean
              /\ n.from = stepRuns[r].from
  BY RunGoes DEF StepApproveSilent, Pcs
<1>2. /\ stepRuns[r].pc = "approve"
      /\ UNCHANGED <<steps, stepBox, stepLoads, stepTimers, stepCloses, stepPage>>
  BY DEF StepApproveSilent, NoTimer
<1>3. RunOk(n) /\ n.pc # "idle" /\ n.pc \notin ShownAt
  BY <1>1, <1>2, RunTypes DEF RunOk, ShownAt
<1>4. /\ Going(stepRuns[r])
      /\ Going(n) /\ Marking(n) /\ Ticking(n) /\ Boxing(n) /\ Loading(n)
  BY <1>1, <1>2 DEF Going, Marking, Ticking, Boxing, Loading
<1>5. /\ steps' \in Flags /\ stepBox' \in BOOLEAN /\ stepLoads' \in BOOLEAN
      /\ stepTimers \subseteq stepTimers' /\ stepTimers' \subseteq StepTimer
      /\ UNCHANGED <<stepPage, stepCloses>>
  BY <1>2, RunTypes
<1>6. \/ ~stepLoads' \/ (stepPage = "topup" /\ Loading(n))
      \/ stepLoads /\ ~Loading(stepRuns[r])
  BY <1>2, <1>4, RunTypes DEF StInv, StResets, StLoads
<1> QED
  BY <1>1, <1>3, <1>4, <1>5, <1>6, RunActs

\* The profile is read: what is shown is left as it is.
LEMMA StepRereadInv ==
    ASSUME StInv, NEW r \in Runs, StepReread(r)
    PROVE  StInv'
<1>1. PICK n \in Run :
              /\ stepRuns' = [stepRuns EXCEPT ![r] = n]
              /\ n.pc = "over"
              /\ n.asked = stepRuns[r].asked /\ n.reporting = stepRuns[r].reporting
              /\ n.clean <=> stepRuns[r].clean
              /\ n.from = stepRuns[r].from
  BY RunGoes DEF StepReread, Pcs
<1>2. /\ stepRuns[r].pc = "profile"
      /\ UNCHANGED <<steps, stepBox, stepLoads, stepTimers, stepCloses, stepPage>>
  BY DEF StepReread, NoTimer
<1>3. RunOk(n) /\ n.pc # "idle" /\ n.pc \notin ShownAt
  BY <1>1, <1>2, RunTypes DEF RunOk, ShownAt
<1>4. /\ ~Going(stepRuns[r]) /\ ~Marking(stepRuns[r]) /\ ~Ticking(stepRuns[r])
      /\ ~Boxing(stepRuns[r]) /\ ~Loading(stepRuns[r])
  BY <1>2, RunTypes DEF Going, Marking, Ticking, Boxing, Loading, RunOk
<1>5. /\ steps' \in Flags /\ stepBox' \in BOOLEAN /\ stepLoads' \in BOOLEAN
      /\ stepTimers \subseteq stepTimers' /\ stepTimers' \subseteq StepTimer
      /\ UNCHANGED <<stepPage, stepCloses>>
      /\ (steps'.open => steps.open) /\ (steps'.done => steps.done)
      /\ (HasMarks(steps') => HasMarks(steps))
  BY <1>2, RunTypes
<1>6. stepBox' = stepBox /\ stepLoads' = stepLoads
  BY <1>2
<1>7. /\ \/ ~HasMarks(steps') \/ Marking(n) \/ (\E t \in stepTimers' : t.kind # "close")
         \/ HasMarks(steps) /\ ~Marking(stepRuns[r])
      /\ \/ ~steps'.done \/ Ticking(n) \/ (\E t \in stepTimers' : t.kind = "resetDone")
         \/ steps.done /\ ~Ticking(stepRuns[r])
  BY <1>4, <1>5
<1>8. /\ \/ ~stepBox' \/ Boxing(n) \/ (\E t \in stepTimers' : t.kind = "resetBox")
         \/ stepBox /\ ~Boxing(stepRuns[r])
      /\ \/ ~stepLoads' \/ (stepPage = "topup" /\ Loading(n))
         \/ stepLoads /\ ~Loading(stepRuns[r])
  BY <1>4, <1>6, RunTypes
<1>9. \/ Going(n) \/ stepTimers' # {} \/ ~steps'.open
      \/ steps.open /\ ~Going(stepRuns[r])
  BY <1>4, <1>5
<1> QED
  BY <1>1, <1>2, <1>3, <1>5, <1>7, <1>8, <1>9, RunActs

\* The profile cannot be read: the second step is cleared, and a timer resets the others.
LEMMA StepRereadFailsInv ==
    ASSUME StInv, NEW r \in Runs, StepRereadFails(r)
    PROVE  StInv'
<1>1. PICK n \in Run :
              /\ stepRuns' = [stepRuns EXCEPT ![r] = n]
              /\ n.pc = "over"
              /\ n.asked = stepRuns[r].asked /\ n.reporting = stepRuns[r].reporting
              /\ n.clean <=> stepRuns[r].clean
              /\ n.from = stepRuns[r].from
  BY RunGoes DEF StepRereadFails, Pcs
<1>2. /\ stepRuns[r].pc = "profile" /\ ~stepBox' /\ stepBox' \in BOOLEAN
      /\ ~stepLoads' /\ stepLoads' \in BOOLEAN
      /\ steps' = [steps EXCEPT !.done = FALSE]
      /\ Timer(r, "reset")
      /\ UNCHANGED <<stepCloses, stepPage>>
  BY DEF StepRereadFails, BoxAndButton
<1>3. RunOk(n) /\ n.pc # "idle" /\ n.pc \notin ShownAt
  BY <1>1, <1>2, RunTypes DEF RunOk, ShownAt
<1>4. /\ stepTimers \subseteq stepTimers' /\ stepTimers' \subseteq StepTimer
      /\ stepTimers' # {} /\ \E t \in stepTimers' : t.kind # "close"
  BY <1>2, TimerAdded DEF TimerKinds
<1>5. steps' \in Flags /\ ~steps'.done
  BY <1>2, RunTypes DEF Flags
<1> QED
  BY <1>1, <1>2, <1>3, <1>4, <1>5, RunActs

\* The second step is cleared, and a timer will reset the other flags.
LEMMA StepRefusedInv ==
    ASSUME StInv, NEW r \in Runs, StepRefused(r)
    PROVE  StInv'
<1>1. PICK n \in Run :
              /\ stepRuns' = [stepRuns EXCEPT ![r] = n]
              /\ n.pc = "over"
              /\ n.asked = stepRuns[r].asked /\ n.reporting = stepRuns[r].reporting
              /\ n.clean <=> stepRuns[r].clean
              /\ n.from = stepRuns[r].from
  BY RunGoes DEF StepRefused, Pcs
<1>2. PICK d \in {steps.doing, FALSE} :
          /\ stepRuns[r].pc = "call" /\ ~stepBox' /\ stepBox' \in BOOLEAN
          /\ ~stepLoads' /\ stepLoads' \in BOOLEAN
          /\ steps' = [steps EXCEPT !.doing = d, !.done = FALSE]
          /\ Timer(r, "reset")
          /\ UNCHANGED <<stepCloses, stepPage>>
  BY DEF StepRefused, BoxAndButton
<1>t. stepTimers \subseteq stepTimers' /\ stepTimers' \subseteq StepTimer /\ stepTimers' # {}
  BY <1>2, TimerAdded DEF TimerKinds
<1>a. \E t \in stepTimers' : t.kind # "close"
  BY <1>2, TimerAdded DEF TimerKinds
<1>3. RunOk(n)
  BY <1>1, <1>2, <1>a, RunTypes DEF RunOk
<1>4. Going(stepRuns[r]) /\ ~Ticking(stepRuns[r])
  BY <1>1, <1>2, <1>a, RunTypes DEF Going, Marking, Ticking, Boxing, Loading, RunOk
<1>5. steps' \in Flags /\ ~steps'.done
  <2>1. steps \in Flags
    BY RunTypes
  <2>2. d \in BOOLEAN
    BY <2>1 DEF Flags
  <2> QED
    BY <1>2, <2>1, <2>2 DEF Flags
<1>6. /\ UNCHANGED <<stepPage, stepCloses>>
      /\ stepTimers \subseteq stepTimers' /\ stepTimers' \subseteq StepTimer
      /\ stepBox' \in BOOLEAN /\ stepLoads' \in BOOLEAN
  BY <1>2, <1>t, RunTypes
<1>7. /\ Going(n) \/ stepTimers' # {} \/ ~steps'.open
      /\ n.pc \in ShownAt => stepRuns[r].pc \in ShownAt
      /\ n.pc # "idle"
  BY <1>1, <1>2, <1>a, <1>t, <1>4, <1>5, RunTypes DEF ShownAt, RunOk
<1>8. \/ ~HasMarks(steps') \/ Marking(n) \/ (\E t \in stepTimers' : t.kind # "close")
      \/ HasMarks(steps) /\ ~Marking(stepRuns[r])
  BY <1>2, <1>a, <1>4, <1>5 DEF HasMarks
<1>9. \/ ~steps'.done \/ Ticking(n) \/ (\E t \in stepTimers' : t.kind = "resetDone")
      \/ steps.done /\ ~Ticking(stepRuns[r])
  BY <1>2, <1>a, <1>4, <1>5
<1>10. \/ ~stepBox' \/ Boxing(n) \/ (\E t \in stepTimers' : t.kind = "resetBox")
       \/ stepBox /\ ~Boxing(stepRuns[r])
  BY <1>2, <1>a, <1>4, RunTypes
<1>11. \/ ~stepLoads' \/ (stepPage = "topup" /\ Loading(n))
       \/ stepLoads /\ ~Loading(stepRuns[r])
  BY <1>1, <1>2, <1>a, <1>4, RunTypes DEF Loading, StInv, StResets, StLoads
<1>12. n.pc \in ShownAt /\ stepTimers = {} /\ ShownAs(steps, stepRuns[r].pc) =>
           stepTimers' = {} /\ ShownAs(steps', n.pc)
  BY <1>1, <1>2, <1>a, <1>5 DEF ShownAs, ShownAt
<1> QED
  BY <1>1, <1>3, <1>4, <1>5, <1>6, <1>7, <1>8, <1>9, <1>10, <1>11, <1>12, RunActs

\* The poll asks again.
LEMMA StepAsksInv ==
    ASSUME StInv, NEW r \in Runs, StepAsks(r)
    PROVE  StInv'
<1> DEFINE n == [stepRuns[r] EXCEPT !.asked = @ + 1]
<1>0. stepRuns \in [Runs -> Run] /\ stepRuns[r] \in Run /\ RunOk(stepRuns[r])
  BY RunTypes
<1>1. /\ n \in Run /\ stepRuns' = [stepRuns EXCEPT ![r] = n]
      /\ n.pc = stepRuns[r].pc /\ n.asked = stepRuns[r].asked + 1
      /\ n.reporting = stepRuns[r].reporting
      /\ n.clean <=> stepRuns[r].clean
      /\ n.from = stepRuns[r].from
  <2>1. stepRuns' = [stepRuns EXCEPT ![r] = n]
    BY <1>0 DEF StepAsks
  <2>2. MaxStatus \in Nat
    BY StepAssumption
  <2>3. stepRuns[r].asked \in 0 .. MaxStatus /\ stepRuns[r].reporting \in 0 .. MaxStatus
    BY <1>0 DEF Run
  <2>4. stepRuns[r].asked + 1 \in 0 .. MaxStatus
    BY <1>0, <2>2, <2>3 DEF StepAsks, RunOk, Run
  <2>5. n \in Run
    BY <1>0, <2>2, <2>3, <2>4 DEF Run
  <2> QED
    BY <1>0, <2>1, <2>5 DEF Run
<1> HIDE DEF n
<1>2. /\ stepRuns[r].pc = "poll" /\ stepRuns[r].asked < MaxStatus
      /\ UNCHANGED <<steps, stepBox, stepLoads, stepTimers, stepCloses, stepPage>>
  BY DEF StepAsks, NoTimer
<1>3. RunOk(n)
  BY <1>0, <1>1, <1>2, RunTypes, StepAssumption DEF RunOk, Run
<1>4. /\ Going(stepRuns[r]) /\ Going(n) /\ Marking(n) /\ ~Ticking(stepRuns[r])
      /\ Boxing(n) /\ ~Loading(stepRuns[r])
  BY <1>0, <1>1, <1>2, RunTypes DEF Going, Marking, Ticking, Boxing, Loading, RunOk, Run
<1>5. steps' \in Flags /\ steps' = steps
  BY <1>2, RunTypes
<1>6. /\ UNCHANGED <<stepPage, stepCloses>>
      /\ stepTimers \subseteq stepTimers' /\ stepTimers' \subseteq StepTimer
      /\ stepBox' \in BOOLEAN /\ stepLoads' \in BOOLEAN
  BY <1>2, RunTypes DEF StepTimer, TimerKinds
<1>7. /\ Going(n) \/ stepTimers' # {} \/ ~steps'.open
      /\ n.pc \in ShownAt => stepRuns[r].pc \in ShownAt
      /\ n.pc # "idle"
  BY <1>0, <1>1, <1>2, <1>4, <1>5, RunTypes DEF ShownAt, RunOk
<1>8. \/ ~HasMarks(steps') \/ Marking(n) \/ (\E t \in stepTimers' : t.kind # "close")
      \/ HasMarks(steps) /\ ~Marking(stepRuns[r])
  BY <1>2, <1>4, <1>5 DEF HasMarks
<1>9. \/ ~steps'.done \/ Ticking(n) \/ (\E t \in stepTimers' : t.kind = "resetDone")
      \/ steps.done /\ ~Ticking(stepRuns[r])
  BY <1>2, <1>4, <1>5
<1>10. \/ ~stepBox' \/ Boxing(n) \/ (\E t \in stepTimers' : t.kind = "resetBox")
       \/ stepBox /\ ~Boxing(stepRuns[r])
  BY <1>2, <1>4, RunTypes
<1>11. \/ ~stepLoads' \/ (stepPage = "topup" /\ Loading(n))
       \/ stepLoads /\ ~Loading(stepRuns[r])
  BY <1>0, <1>1, <1>2, <1>4, RunTypes DEF Loading, StInv, StResets, StLoads
<1>12. n.pc \in ShownAt /\ stepTimers = {} /\ ShownAs(steps, stepRuns[r].pc) =>
           stepTimers' = {} /\ ShownAs(steps', n.pc)
  BY <1>0, <1>1, <1>2, <1>5 DEF ShownAs, ShownAt
<1> QED
  BY <1>1, <1>3, <1>4, <1>5, <1>6, <1>7, <1>8, <1>9, <1>10, <1>11, <1>12, RunActs

\* A trade is not done yet.
LEMMA StepPendingInv ==
    ASSUME StInv, NEW r \in Runs, StepPending(r)
    PROVE  StInv'
<1> DEFINE n == [stepRuns[r] EXCEPT !.asked = @ - 1]
<1>0. stepRuns \in [Runs -> Run] /\ stepRuns[r] \in Run /\ RunOk(stepRuns[r])
  BY RunTypes
<1>1. /\ n \in Run /\ stepRuns' = [stepRuns EXCEPT ![r] = n]
      /\ n.pc = stepRuns[r].pc /\ n.asked = stepRuns[r].asked - 1
      /\ n.reporting = stepRuns[r].reporting
      /\ n.clean <=> stepRuns[r].clean
      /\ n.from = stepRuns[r].from
  <2>1. stepRuns' = [stepRuns EXCEPT ![r] = n]
    BY <1>0 DEF StepPending
  <2>2. MaxStatus \in Nat
    BY StepAssumption
  <2>3. stepRuns[r].asked \in 0 .. MaxStatus /\ stepRuns[r].reporting \in 0 .. MaxStatus
    BY <1>0 DEF Run
  <2>4. stepRuns[r].asked - 1 \in 0 .. MaxStatus
    BY <1>0, <2>2, <2>3 DEF StepPending, RunOk, Run
  <2>5. n \in Run
    BY <1>0, <2>2, <2>3, <2>4 DEF Run
  <2> QED
    BY <1>0, <2>1, <2>5 DEF Run
<1> HIDE DEF n
<1>2. /\ stepRuns[r].pc = "poll" /\ stepRuns[r].asked > 0
      /\ UNCHANGED <<steps, stepBox, stepLoads, stepTimers, stepCloses, stepPage>>
  BY DEF StepPending, NoTimer
<1>3. RunOk(n)
  BY <1>0, <1>1, <1>2, RunTypes, StepAssumption DEF RunOk, Run
<1>4. /\ Going(stepRuns[r]) /\ Going(n) /\ Marking(n) /\ ~Ticking(stepRuns[r])
      /\ Boxing(n) /\ ~Loading(stepRuns[r])
  BY <1>0, <1>1, <1>2, RunTypes DEF Going, Marking, Ticking, Boxing, Loading, RunOk, Run
<1>5. steps' \in Flags /\ steps' = steps
  BY <1>2, RunTypes
<1>6. /\ UNCHANGED <<stepPage, stepCloses>>
      /\ stepTimers \subseteq stepTimers' /\ stepTimers' \subseteq StepTimer
      /\ stepBox' \in BOOLEAN /\ stepLoads' \in BOOLEAN
  BY <1>2, RunTypes DEF StepTimer, TimerKinds
<1>7. /\ Going(n) \/ stepTimers' # {} \/ ~steps'.open
      /\ n.pc \in ShownAt => stepRuns[r].pc \in ShownAt
      /\ n.pc # "idle"
  BY <1>0, <1>1, <1>2, <1>4, <1>5, RunTypes DEF ShownAt, RunOk
<1>8. \/ ~HasMarks(steps') \/ Marking(n) \/ (\E t \in stepTimers' : t.kind # "close")
      \/ HasMarks(steps) /\ ~Marking(stepRuns[r])
  BY <1>2, <1>4, <1>5 DEF HasMarks
<1>9. \/ ~steps'.done \/ Ticking(n) \/ (\E t \in stepTimers' : t.kind = "resetDone")
      \/ steps.done /\ ~Ticking(stepRuns[r])
  BY <1>2, <1>4, <1>5
<1>10. \/ ~stepBox' \/ Boxing(n) \/ (\E t \in stepTimers' : t.kind = "resetBox")
       \/ stepBox /\ ~Boxing(stepRuns[r])
  BY <1>2, <1>4, RunTypes
<1>11. \/ ~stepLoads' \/ (stepPage = "topup" /\ Loading(n))
       \/ stepLoads /\ ~Loading(stepRuns[r])
  BY <1>0, <1>1, <1>2, <1>4, RunTypes DEF Loading, StInv, StResets, StLoads
<1>12. n.pc \in ShownAt /\ stepTimers = {} /\ ShownAs(steps, stepRuns[r].pc) =>
           stepTimers' = {} /\ ShownAs(steps', n.pc)
  BY <1>0, <1>1, <1>2, <1>5 DEF ShownAs, ShownAt
<1> QED
  BY <1>1, <1>3, <1>4, <1>5, <1>6, <1>7, <1>8, <1>9, <1>10, <1>11, <1>12, RunActs

\* The second step of a trade is ticked, and the trade reported.
LEMMA StepSucceededInv ==
    ASSUME StInv, NEW r \in Runs, StepSucceeded(r)
    PROVE  StInv'
<1> DEFINE n == [stepRuns[r] EXCEPT !.pc = "report", !.asked = @ - 1, !.reporting = @ + 1]
<1>0. stepRuns \in [Runs -> Run] /\ stepRuns[r] \in Run /\ RunOk(stepRuns[r])
  BY RunTypes
<1>1. /\ n \in Run /\ stepRuns' = [stepRuns EXCEPT ![r] = n]
      /\ n.pc = "report" /\ n.asked = stepRuns[r].asked - 1
      /\ n.reporting = stepRuns[r].reporting + 1
      /\ n.clean <=> stepRuns[r].clean
      /\ n.from = stepRuns[r].from
  <2>1. stepRuns' = [stepRuns EXCEPT ![r] = n]
    BY <1>0 DEF StepSucceeded
  <2>2. MaxStatus \in Nat
    BY StepAssumption
  <2>3. stepRuns[r].asked \in 0 .. MaxStatus /\ stepRuns[r].reporting \in 0 .. MaxStatus
    BY <1>0 DEF Run
  <2>4. /\ stepRuns[r].asked - 1 \in 0 .. MaxStatus
        /\ stepRuns[r].reporting + 1 \in 0 .. MaxStatus
    BY <1>0, <2>2, <2>3 DEF StepSucceeded, RunOk, Run
  <2>5. n \in Run
    BY <1>0, <2>2, <2>3, <2>4 DEF Run
  <2> QED
    BY <1>0, <2>1, <2>5 DEF Run
<1> HIDE DEF n
<1>2. /\ stepRuns[r].pc \in {"poll", "report"} /\ stepRuns[r].asked > 0
      /\ stepBox' = FALSE
      /\ steps' = [steps EXCEPT !.doing = FALSE, !.done = TRUE]
      /\ UNCHANGED <<stepLoads, stepTimers, stepCloses, stepPage>>
  BY DEF StepSucceeded, Box, NoTimer
<1>3. RunOk(n)
  BY <1>0, <1>1, <1>2, RunTypes, StepAssumption DEF RunOk, Run
<1>4. /\ Going(stepRuns[r]) /\ Going(n) /\ Marking(n) /\ Ticking(n)
      /\ ~Loading(stepRuns[r])
  BY <1>0, <1>1, <1>2, RunTypes DEF Going, Marking, Ticking, Boxing, Loading, RunOk, Run
<1>5. /\ steps' \in Flags
      /\ steps'.open <=> steps.open
      /\ steps'.approving <=> steps.approving
      /\ steps'.approved <=> steps.approved
      /\ steps'.doing <=> FALSE
      /\ steps'.done <=> TRUE
  <2>1. steps \in Flags
    BY RunTypes
  <2> QED
    BY <1>2, <2>1 DEF Flags, Blank
<1>6. /\ UNCHANGED <<stepPage, stepCloses>>
      /\ stepTimers \subseteq stepTimers' /\ stepTimers' \subseteq StepTimer
      /\ stepBox' \in BOOLEAN /\ stepLoads' \in BOOLEAN
  BY <1>2, RunTypes DEF StepTimer, TimerKinds
<1>7. /\ Going(n) \/ stepTimers' # {} \/ ~steps'.open
      /\ n.pc \in ShownAt => stepRuns[r].pc \in ShownAt
      /\ n.pc # "idle"
  BY <1>0, <1>1, <1>2, <1>4, <1>5, RunTypes DEF ShownAt, RunOk
<1>8. \/ ~HasMarks(steps') \/ Marking(n) \/ (\E t \in stepTimers' : t.kind # "close")
      \/ HasMarks(steps) /\ ~Marking(stepRuns[r])
  BY <1>2, <1>4, <1>5 DEF HasMarks
<1>9. \/ ~steps'.done \/ Ticking(n) \/ (\E t \in stepTimers' : t.kind = "resetDone")
      \/ steps.done /\ ~Ticking(stepRuns[r])
  BY <1>2, <1>4, <1>5
<1>10. \/ ~stepBox' \/ Boxing(n) \/ (\E t \in stepTimers' : t.kind = "resetBox")
       \/ stepBox /\ ~Boxing(stepRuns[r])
  BY <1>2, <1>4, RunTypes
<1>11. \/ ~stepLoads' \/ (stepPage = "topup" /\ Loading(n))
       \/ stepLoads /\ ~Loading(stepRuns[r])
  BY <1>0, <1>1, <1>2, <1>4, RunTypes DEF Loading, StInv, StResets, StLoads
<1>12. n.pc \in ShownAt /\ stepTimers = {} /\ ShownAs(steps, stepRuns[r].pc) =>
           stepTimers' = {} /\ ShownAs(steps', n.pc)
  BY <1>0, <1>1, <1>2, <1>5 DEF ShownAs, ShownAt
<1> QED
  BY <1>1, <1>3, <1>4, <1>5, <1>6, <1>7, <1>8, <1>9, <1>10, <1>11, <1>12, RunActs

\* A late success ticks the second step again.
LEMMA StepSucceededLateInv ==
    ASSUME StInv, NEW r \in Runs, StepSucceededLate(r)
    PROVE  StInv'
<1> DEFINE n == [stepRuns[r] EXCEPT !.asked = @ - 1, !.reporting = @ + 1]
<1>0. stepRuns \in [Runs -> Run] /\ stepRuns[r] \in Run /\ RunOk(stepRuns[r])
  BY RunTypes
<1>1. /\ n \in Run /\ stepRuns' = [stepRuns EXCEPT ![r] = n]
      /\ n.pc = stepRuns[r].pc /\ n.asked = stepRuns[r].asked - 1
      /\ n.reporting = stepRuns[r].reporting + 1
      /\ n.clean <=> stepRuns[r].clean
      /\ n.from = stepRuns[r].from
  <2>1. stepRuns' = [stepRuns EXCEPT ![r] = n]
    BY <1>0 DEF StepSucceededLate
  <2>2. MaxStatus \in Nat
    BY StepAssumption
  <2>3. stepRuns[r].asked \in 0 .. MaxStatus /\ stepRuns[r].reporting \in 0 .. MaxStatus
    BY <1>0 DEF Run
  <2>4. /\ stepRuns[r].asked - 1 \in 0 .. MaxStatus
        /\ stepRuns[r].reporting + 1 \in 0 .. MaxStatus
    BY <1>0, <2>2, <2>3 DEF StepSucceededLate, RunOk, Run
  <2>5. n \in Run
    BY <1>0, <2>2, <2>3, <2>4 DEF Run
  <2> QED
    BY <1>0, <2>1, <2>5 DEF Run
<1> HIDE DEF n
<1>2. /\ stepRuns[r].pc \in {"over", "stranded"} /\ stepRuns[r].asked > 0
      /\ stepBox' = FALSE
      /\ steps' = [steps EXCEPT !.doing = FALSE, !.done = TRUE]
      /\ UNCHANGED <<stepLoads, stepTimers, stepCloses, stepPage>>
  BY DEF StepSucceededLate, Box, NoTimer
<1>3. RunOk(n)
  BY <1>0, <1>1, <1>2, RunTypes, StepAssumption DEF RunOk, Run
<1>4. /\ Going(stepRuns[r]) /\ Going(n) /\ Marking(n) /\ Ticking(n)
      /\ Loading(stepRuns[r]) => Loading(n)
  BY <1>0, <1>1, <1>2, RunTypes DEF Going, Marking, Ticking, Boxing, Loading, RunOk, Run
<1>5. /\ steps' \in Flags
      /\ steps'.open <=> steps.open
      /\ steps'.approving <=> steps.approving
      /\ steps'.approved <=> steps.approved
      /\ steps'.doing <=> FALSE
      /\ steps'.done <=> TRUE
  <2>1. steps \in Flags
    BY RunTypes
  <2> QED
    BY <1>2, <2>1 DEF Flags, Blank
<1>6. /\ UNCHANGED <<stepPage, stepCloses>>
      /\ stepTimers \subseteq stepTimers' /\ stepTimers' \subseteq StepTimer
      /\ stepBox' \in BOOLEAN /\ stepLoads' \in BOOLEAN
  BY <1>2, RunTypes DEF StepTimer, TimerKinds
<1>7. /\ Going(n) \/ stepTimers' # {} \/ ~steps'.open
      /\ n.pc \in ShownAt => stepRuns[r].pc \in ShownAt
      /\ n.pc # "idle"
  BY <1>0, <1>1, <1>2, <1>4, <1>5, RunTypes DEF ShownAt, RunOk
<1>8. \/ ~HasMarks(steps') \/ Marking(n) \/ (\E t \in stepTimers' : t.kind # "close")
      \/ HasMarks(steps) /\ ~Marking(stepRuns[r])
  BY <1>2, <1>4, <1>5 DEF HasMarks
<1>9. \/ ~steps'.done \/ Ticking(n) \/ (\E t \in stepTimers' : t.kind = "resetDone")
      \/ steps.done /\ ~Ticking(stepRuns[r])
  BY <1>2, <1>4, <1>5
<1>10. \/ ~stepBox' \/ Boxing(n) \/ (\E t \in stepTimers' : t.kind = "resetBox")
       \/ stepBox /\ ~Boxing(stepRuns[r])
  BY <1>2, <1>4, RunTypes
<1>11. \/ ~stepLoads' \/ (stepPage = "topup" /\ Loading(n))
       \/ stepLoads /\ ~Loading(stepRuns[r])
  BY <1>0, <1>1, <1>2, <1>4, RunTypes DEF Loading, StInv, StResets, StLoads
<1>12. n.pc \in ShownAt /\ stepTimers = {} /\ ShownAs(steps, stepRuns[r].pc) =>
           stepTimers' = {} /\ ShownAs(steps', n.pc)
  BY <1>0, <1>1, <1>2, <1>5 DEF ShownAs, ShownAt
<1> QED
  BY <1>1, <1>3, <1>4, <1>5, <1>6, <1>7, <1>8, <1>9, <1>10, <1>11, <1>12, RunActs

\* The button of a failed trade is freed by timers.
LEMMA StepFailedInv ==
    ASSUME StInv, NEW r \in Runs, StepFailed(r)
    PROVE  StInv'
<1> DEFINE n == [stepRuns[r] EXCEPT !.asked = 0, !.pc = "over"]
<1>0. stepRuns \in [Runs -> Run] /\ stepRuns[r] \in Run /\ RunOk(stepRuns[r])
  BY RunTypes
<1>1. /\ n \in Run /\ stepRuns' = [stepRuns EXCEPT ![r] = n]
      /\ n.pc = "over" /\ n.asked = 0
      /\ n.reporting = stepRuns[r].reporting
      /\ n.clean <=> stepRuns[r].clean
      /\ n.from = stepRuns[r].from
  <2>1. stepRuns' = [stepRuns EXCEPT ![r] = n]
    BY <1>0 DEF StepFailed
  <2>2. MaxStatus \in Nat
    BY StepAssumption
  <2>3. stepRuns[r].asked \in 0 .. MaxStatus /\ stepRuns[r].reporting \in 0 .. MaxStatus
    BY <1>0 DEF Run
  <2>4. 0 \in 0 .. MaxStatus
    BY <1>0, <2>2, <2>3 DEF StepFailed, RunOk, Run
  <2>5. n \in Run
    BY <1>0, <2>2, <2>3, <2>4 DEF Run
  <2> QED
    BY <1>0, <2>1, <2>5 DEF Run
<1> HIDE DEF n
<1>2. /\ stepRuns[r].pc = "poll" /\ stepRuns[r].asked > 0
      /\ steps' = [steps EXCEPT !.done = FALSE]
      /\ stepTimers' = stepTimers \cup
             {[run |-> r, kind |-> "resetBox", nth |-> k] : k \in 1 .. stepRuns[r].asked}
      /\ UNCHANGED <<stepBox, stepLoads, stepCloses, stepPage>>
  BY DEF StepFailed
<1>b. stepRuns[r].asked \in Nat /\ stepRuns[r].asked <= MaxStatus /\ MaxStatus \in Nat
  BY <1>0, StepAssumption DEF Run
<1>c. \A k \in 1 .. stepRuns[r].asked : [run |-> r, kind |-> "resetBox", nth |-> k] \in StepTimer
  BY <1>b DEF StepTimer, TimerKinds
<1>a. \E t \in stepTimers' : t.kind = "resetBox" /\ t.kind # "close"
  <2>1. 1 \in 1 .. stepRuns[r].asked
    BY <1>2, <1>b
  <2>2. [run |-> r, kind |-> "resetBox", nth |-> 1] \in stepTimers'
    BY <1>2, <2>1
  <2> QED
    BY <2>2
<1>3. RunOk(n)
  BY <1>0, <1>1, <1>2, <1>a, RunTypes, StepAssumption DEF RunOk, Run
<1>4. /\ Going(stepRuns[r]) /\ ~Ticking(stepRuns[r])
      /\ ~Loading(stepRuns[r])
  BY <1>0, <1>1, <1>2, <1>a, RunTypes DEF Going, Marking, Ticking, Boxing, Loading, RunOk, Run
<1>5. /\ steps' \in Flags
      /\ steps'.open <=> steps.open
      /\ steps'.approving <=> steps.approving
      /\ steps'.approved <=> steps.approved
      /\ steps'.doing <=> steps.doing
      /\ steps'.done <=> FALSE
  <2>1. steps \in Flags
    BY RunTypes
  <2> QED
    BY <1>2, <2>1 DEF Flags, Blank
<1>6. /\ UNCHANGED <<stepPage, stepCloses>>
      /\ stepTimers \subseteq stepTimers' /\ stepTimers' \subseteq StepTimer
      /\ stepBox' \in BOOLEAN /\ stepLoads' \in BOOLEAN
  BY <1>2, <1>c, RunTypes
<1>7. /\ Going(n) \/ stepTimers' # {} \/ ~steps'.open
      /\ n.pc \in ShownAt => stepRuns[r].pc \in ShownAt
      /\ n.pc # "idle"
  BY <1>0, <1>1, <1>2, <1>a, <1>4, <1>5, RunTypes DEF ShownAt, RunOk
<1>8. \/ ~HasMarks(steps') \/ Marking(n) \/ (\E t \in stepTimers' : t.kind # "close")
      \/ HasMarks(steps) /\ ~Marking(stepRuns[r])
  BY <1>2, <1>a, <1>4, <1>5 DEF HasMarks
<1>9. \/ ~steps'.done \/ Ticking(n) \/ (\E t \in stepTimers' : t.kind = "resetDone")
      \/ steps.done /\ ~Ticking(stepRuns[r])
  BY <1>2, <1>a, <1>4, <1>5
<1>10. \/ ~stepBox' \/ Boxing(n) \/ (\E t \in stepTimers' : t.kind = "resetBox")
       \/ stepBox /\ ~Boxing(stepRuns[r])
  BY <1>2, <1>a, <1>4, RunTypes
<1>11. \/ ~stepLoads' \/ (stepPage = "topup" /\ Loading(n))
       \/ stepLoads /\ ~Loading(stepRuns[r])
  BY <1>0, <1>1, <1>2, <1>a, <1>4, RunTypes DEF Loading, StInv, StResets, StLoads
<1>12. n.pc \in ShownAt /\ stepTimers = {} /\ ShownAs(steps, stepRuns[r].pc) =>
           stepTimers' = {} /\ ShownAs(steps', n.pc)
  BY <1>0, <1>1, <1>2, <1>a, <1>5 DEF ShownAs, ShownAt
<1> QED
  BY <1>1, <1>3, <1>4, <1>5, <1>6, <1>7, <1>8, <1>9, <1>10, <1>11, <1>12, RunActs

\* A trade that is reported ends its run by a timer; a rejected report resets nothing.
LEMMA StepReportedInv ==
    ASSUME StInv, NEW r \in Runs, StepReported(r)
    PROVE  StInv'
<1> DEFINE left == stepRuns[r].reporting - 1
           t == [run |-> r, kind |-> "resetDone", nth |-> left]
           m == [stepRuns[r] EXCEPT !.reporting = left]
           n1 == [m EXCEPT !.pc = IF m.pc = "report" THEN "over" ELSE m.pc]
           n2 == [m EXCEPT !.pc = "stranded"]
<1>0. /\ stepRuns \in [Runs -> Run] /\ stepRuns[r] \in Run /\ RunOk(stepRuns[r])
      /\ stepRuns[r].reporting > 0
  BY RunTypes DEF StepReported
<1>1. left \in 0 .. MaxStatus /\ stepRuns[r].pc \in {"report", "over", "stranded"}
  BY <1>0, StepAssumption DEF RunOk, Run
<1>2. \/ stepRuns' = [stepRuns EXCEPT ![r] = n1] /\ stepTimers' = stepTimers \cup {t}
      \/ stepRuns' = [stepRuns EXCEPT ![r] = n2] /\ UNCHANGED stepTimers
  <2> DEFINE next == [stepRuns EXCEPT ![r].reporting = left]
  <2>1. m \in Run
    BY <1>0, <1>1 DEF Run
  <2>2. next = [stepRuns EXCEPT ![r] = m]
    BY <1>0
  <2>3. next \in [Runs -> Run] /\ next[r] = m
    BY <1>0, <2>1, <2>2
  <2>4. \/ /\ stepRuns' = [next EXCEPT ![r].pc = IF next[r].pc = "report" THEN "over" ELSE next[r].pc]
           /\ stepTimers' = stepTimers \cup {t}
        \/ stepRuns' = [next EXCEPT ![r].pc = "stranded"] /\ UNCHANGED stepTimers
    BY DEF StepReported
  <2>5. \A n : [[stepRuns EXCEPT ![r] = m] EXCEPT ![r] = n] = [stepRuns EXCEPT ![r] = n]
    BY <1>0
  <2> HIDE DEF next, m, t, left
  <2>6. \/ stepRuns' = [next EXCEPT ![r] = n1] /\ stepTimers' = stepTimers \cup {t}
        \/ stepRuns' = [next EXCEPT ![r] = n2] /\ UNCHANGED stepTimers
    BY <2>3, <2>4
  <2> QED
    BY <2>2, <2>5, <2>6
<1>3. PICK n \in Run :
        /\ stepRuns' = [stepRuns EXCEPT ![r] = n]
        /\ n.asked = stepRuns[r].asked /\ n.reporting = left
        /\ n.clean <=> stepRuns[r].clean
        /\ n.from = stepRuns[r].from
        /\ \/ n.pc = "stranded" /\ UNCHANGED stepTimers
           \/ /\ stepTimers' = stepTimers \cup {t}
              /\ n.pc = IF stepRuns[r].pc = "report" THEN "over" ELSE stepRuns[r].pc
  <2>1. n1 \in Run /\ n2 \in Run
    BY <1>0, <1>1 DEF Run
  <2>2. /\ n1.asked = stepRuns[r].asked /\ n1.reporting = left
        /\ n1.clean <=> stepRuns[r].clean
        /\ n1.from = stepRuns[r].from
        /\ n1.pc = IF stepRuns[r].pc = "report" THEN "over" ELSE stepRuns[r].pc
    BY <1>0 DEF Run
  <2>3. /\ n2.asked = stepRuns[r].asked /\ n2.reporting = left
        /\ n2.clean <=> stepRuns[r].clean
        /\ n2.from = stepRuns[r].from
        /\ n2.pc = "stranded"
    BY <1>0 DEF Run
  <2> HIDE DEF n1, n2, t, left
  <2> QED
    BY <1>2, <2>1, <2>2, <2>3
<1>4. UNCHANGED <<steps, stepBox, stepLoads, stepCloses, stepPage>>
  BY DEF StepReported
<1>5. t \in StepTimer /\ t.kind = "resetDone" /\ t.kind # "close"
  BY <1>1 DEF StepTimer, TimerKinds
<1>6. RunOk(n)
  BY <1>0, <1>1, <1>3, StepAssumption DEF RunOk, Run
<1>7. /\ n.pc \in {"over", "stranded"}
      /\ n.pc = "over" => stepRuns[r].pc # "stranded"
      /\ n.pc = "over" => stepTimers' = stepTimers \cup {t}
  BY <1>1, <1>3
<1>8. /\ Going(stepRuns[r]) /\ (Loading(stepRuns[r]) => Loading(n))
      /\ n.pc = "stranded" => Going(n) /\ Marking(n) /\ Ticking(n) /\ Boxing(n)
      /\ n.pc = "over" => ~Boxing(stepRuns[r])
  BY <1>0, <1>1, <1>7 DEF Going, Marking, Ticking, Boxing, Loading, Run
<1>9. /\ stepTimers \subseteq stepTimers' /\ stepTimers' \subseteq StepTimer
      /\ steps' \in Flags /\ stepBox' \in BOOLEAN /\ stepLoads' \in BOOLEAN
  BY <1>3, <1>4, <1>5, RunTypes
<1>10. n.pc = "over" => t \in stepTimers'
  BY <1>7
<1>11. n.pc \notin ShownAt /\ n.pc # "idle"
  BY <1>7 DEF ShownAt
<1>12. /\ Going(n) \/ stepTimers' # {}
       /\ Marking(n) \/ (\E u \in stepTimers' : u.kind # "close")
       /\ Ticking(n) \/ (\E u \in stepTimers' : u.kind = "resetDone")
  BY <1>5, <1>7, <1>8, <1>10
<1>13. Boxing(n) \/ ~Boxing(stepRuns[r])
  BY <1>7, <1>8
<1>14. \/ ~stepLoads' \/ (stepPage = "topup" /\ Loading(n))
       \/ stepLoads /\ ~Loading(stepRuns[r])
  BY <1>4, <1>8, RunTypes DEF StInv, StResets, StLoads
<1> HIDE DEF t, left, n1, n2
<1> QED
  BY <1>3, <1>4, <1>6, <1>8, <1>9, <1>11, <1>12, <1>13, <1>14, RunActs

\* A run that starts is the last one; the dialog opens.
LEMMA StartRunInv ==
    ASSUME StInv, NEW r \in Runs, StartRun(r)
    PROVE  StInv'
<1>a. StTypes /\ StOpen /\ StMarks /\ StDone /\ StBox /\ StLoads /\ StFrom /\ StShown
  BY DEF StInv, StResets
<1>b. PICK c \in BOOLEAN : c = (stepTimers = {} /\ \A q \in Runs : Ended(q))
  OBVIOUS
<1>c. c => stepTimers = {} /\ \A q \in Runs : Ended(q)
  BY <1>b
<1>d. PICK pc \in {"approve", "waiting"} :
          /\ stepRuns' = [stepRuns EXCEPT ![r] = [NoRun EXCEPT !.pc = pc, !.from = steps, !.clean = c]]
          /\ IF pc = "approve" THEN BoxAndButton(TRUE) ELSE UNCHANGED <<stepBox, stepLoads>>
  BY <1>b DEF StartRun
<1> DEFINE n == [NoRun EXCEPT !.pc = pc, !.from = steps, !.clean = c]
<1>1. /\ n \in Run /\ n.pc = pc /\ n.asked = 0 /\ n.reporting = 0 /\ n.from = steps
      /\ n.clean <=> c
  <2>1. NoRun \in Run /\ NoRun.asked = 0 /\ NoRun.reporting = 0
    BY StepAssumption DEF NoRun, Run, Blank, Flags
  <2>2. steps \in Flags
    BY <1>a DEF StTypes
  <2> QED
    BY <2>1, <2>2 DEF Run
<1>2. /\ stepRuns' \in [Runs -> Run] /\ stepRuns'[r] = n
      /\ \A q \in Runs \ {r} : stepRuns'[q] = stepRuns[q]
  BY <1>a, <1>d, <1>1 DEF StTypes
<1> HIDE DEF n
<1>3. /\ stepRuns[r].pc = "idle" /\ \A q \in 1 .. (r - 1) : stepRuns[q].pc # "idle"
      /\ steps' = [steps EXCEPT !.open = TRUE]
      /\ UNCHANGED <<stepTimers, stepCloses, stepPage>>
  BY DEF StartRun, NoTimer
<1>4. RunOk(n)
  BY <1>1, StepAssumption DEF RunOk
<1>5. /\ ~Marking(stepRuns[r]) /\ ~Ticking(stepRuns[r]) /\ ~Boxing(stepRuns[r])
      /\ ~Loading(stepRuns[r]) /\ Going(n)
      /\ pc = "approve" => Boxing(n) /\ Loading(n)
  BY <1>a, <1>1, <1>3 DEF StTypes, RunOk, Going, Marking, Ticking, Boxing, Loading
<1>6. /\ steps' \in Flags
      /\ HasMarks(steps') <=> HasMarks(steps)
      /\ steps'.done <=> steps.done
      /\ steps'.approving <=> steps.approving
      /\ steps'.approved <=> steps.approved
      /\ steps'.doing <=> steps.doing
  BY <1>a, <1>3 DEF StTypes, Flags, HasMarks
<1>7. /\ stepBox' \in BOOLEAN /\ stepLoads' \in BOOLEAN
      /\ stepBox' => stepBox \/ pc = "approve"
      /\ stepLoads' => stepLoads \/ (pc = "approve" /\ stepPage = "topup")
  BY <1>a, <1>d DEF BoxAndButton, StTypes
<1>8. /\ Runs \subseteq Int
      /\ \A q \in Runs : q < r => q \in 1 .. (r - 1)
  BY StepAssumption DEF Runs
<1>9. StTypes'
  <2>1. \A q \in Runs : RunOk(stepRuns'[q])
    BY <1>a, <1>2, <1>4 DEF StTypes
  <2>2. ASSUME NEW p \in Runs, NEW q \in Runs, p < q, stepRuns'[p].pc = "idle"
        PROVE  stepRuns'[q].pc = "idle"
    <3>1. p # r
      BY <1>1, <1>2, <2>2
    <3>2. stepRuns[p].pc = "idle"
      BY <1>2, <2>2, <3>1
    <3>3. stepRuns[q].pc = "idle"
      BY <1>a, <2>2, <3>2 DEF StTypes
    <3>4. q # r
      BY <1>3, <1>8, <2>2, <3>2
    <3> QED
      BY <1>2, <3>3, <3>4
  <2>3. stepPage' \in {"trade", "create", "topup"} /\ stepCloses' \in Nat /\ stepTimers' \subseteq StepTimer
    BY <1>a, <1>3 DEF StTypes
  <2> QED
    BY <1>2, <1>6, <1>7, <2>1, <2>2, <2>3 DEF StTypes, RunOk
<1>10. StOpen'
  BY <1>2, <1>5 DEF StOpen
<1>11. StMarks'
  BY <1>a, <1>2, <1>3, <1>5, <1>6 DEF StMarks
<1>12. StDone'
  BY <1>a, <1>2, <1>3, <1>5, <1>6 DEF StDone
<1>13. StBox'
  BY <1>a, <1>2, <1>3, <1>5, <1>7 DEF StBox
<1>14. StLoads'
  BY <1>a, <1>2, <1>3, <1>5, <1>7 DEF StLoads
<1>15. c => steps = Blank
  BY <1>c, StepsSettled
<1>16. StFrom'
  BY <1>a, <1>1, <1>2, <1>15 DEF StFrom
<1>17. StShown'
  <2> SUFFICES ASSUME NEW q \in Runs, Alone(q)', stepRuns'[q].pc \in ShownAt
               PROVE  /\ stepTimers' = {} /\ \A p \in Runs \ {q} : ~Busy(stepRuns'[p])
                      /\ ShownAs(steps', stepRuns'[q].pc)
    BY DEF StShown
  <2>1. q = r
    <3>1. CASE q < r
      <4>1. r \in (q + 1) .. MaxRuns
        BY <1>8, <3>1, StepAssumption DEF Runs
      <4>2. stepRuns'[r].pc = "idle"
        BY <4>1 DEF Alone
      <4> QED
        BY <1>1, <1>2, <4>2
    <3>2. CASE r < q
      <4>1. stepRuns[q].pc = "idle"
        BY <1>a, <1>3, <3>2 DEF StTypes
      <4>2. q # r
        BY <1>8, <3>2
      <4> QED
        BY <1>2, <4>1, <4>2 DEF ShownAt
    <3> QED
      BY <1>8, <3>1, <3>2
  <2>2. stepTimers = {} /\ (\A p \in Runs : Ended(p)) /\ steps = Blank
    BY <1>1, <1>2, <1>c, <1>15, <2>1 DEF Alone
  <2>3. \A p \in Runs \ {q} : ~Busy(stepRuns'[p])
    BY <1>2, <2>1, <2>2 DEF Ended, Going, Busy
  <2>4. ShownAs(steps', pc)
    BY <1>6, <2>2 DEF ShownAs, Blank
  <2> QED
    BY <1>1, <1>2, <1>3, <2>1, <2>2, <2>3, <2>4
<1> QED
  BY <1>9, <1>10, <1>11, <1>12, <1>13, <1>14, <1>16, <1>17 DEF StInv, StResets

\* A timer that fires takes back what no run or other timer would, and no more: while a run is
\* shown there is none.
LEMMA StepTimerFiresInv ==
    ASSUME StInv, StepTimerFires
    PROVE  StInv'
<1>a. StTypes /\ StOpen /\ StMarks /\ StDone /\ StBox /\ StLoads /\ StFrom /\ StShown
  BY DEF StInv, StResets
<1>b. PICK t \in stepTimers :
          /\ stepTimers' = stepTimers \ {t}
          /\ StepResets(t.kind)
          /\ IF t.kind = "resetBox" THEN Box(FALSE) ELSE UNCHANGED <<stepBox, stepLoads>>
  BY DEF StepTimerFires
<1>1. UNCHANGED <<stepRuns, stepCloses, stepPage>>
  BY DEF StepTimerFires
<1>2. \/ t.kind = "close" /\ steps' = [steps EXCEPT !.open = FALSE]
      \/ t.kind = "resetDone" /\ steps' = Blank
      \/ t.kind \in {"reset", "resetBox"} /\ steps' = [Blank EXCEPT !.done = steps.done]
  <2>1. t.kind \in TimerKinds
    BY <1>a DEF StTypes, StepTimer
  <2> QED
    BY <1>b, <2>1 DEF StepResets, TimerKinds
<1>3. steps \in Flags
  BY <1>a DEF StTypes
<1>4. steps' \in Flags /\ ~steps'.open
  <2>1. Blank \in Flags /\ ~Blank.open
    BY DEF Flags, Blank
  <2>2. CASE steps' = [steps EXCEPT !.open = FALSE]
    BY <1>3, <2>2 DEF Flags
  <2>3. CASE steps' = [Blank EXCEPT !.done = steps.done]
    BY <1>3, <2>1, <2>3 DEF Flags
  <2> QED
    BY <1>2, <2>1, <2>2, <2>3
<1>5. HasMarks(steps') => HasMarks(steps) /\ t.kind = "close"
  BY <1>2, <1>3 DEF Flags, Blank, HasMarks
<1>6. steps'.done => steps.done /\ t.kind # "resetDone"
  BY <1>2, <1>3 DEF Flags, Blank
<1>7. /\ stepBox' \in BOOLEAN /\ stepLoads' = stepLoads
      /\ stepBox' => stepBox /\ t.kind # "resetBox"
  BY <1>a, <1>b DEF Box, StTypes
<1>8. StTypes'
  BY <1>a, <1>b, <1>1, <1>4, <1>7 DEF StTypes, RunOk
<1>9. StOpen'
  BY <1>4 DEF StOpen
<1>10. StMarks'
  BY <1>a, <1>b, <1>1, <1>5 DEF StMarks
<1>11. StDone'
  BY <1>a, <1>b, <1>1, <1>6 DEF StDone
<1>12. StBox'
  BY <1>a, <1>b, <1>1, <1>7 DEF StBox
<1>13. StLoads'
  BY <1>a, <1>1, <1>7 DEF StLoads
<1>14. StFrom'
  BY <1>a, <1>1 DEF StFrom
<1>15. StShown'
  <2>1. \A r \in Runs : ~(Alone(r) /\ stepRuns[r].pc \in ShownAt)
    BY <1>a DEF StShown
  <2>2. \A r \in Runs : ~(Alone(r)' /\ stepRuns'[r].pc \in ShownAt)
    BY <1>1, <2>1 DEF Alone
  <2> QED
    BY <2>2 DEF StShown
<1> QED
  BY <1>8, <1>9, <1>10, <1>11, <1>12, <1>13, <1>14, <1>15 DEF StInv, StResets

\* What the user closes or opens leaves the circles of a run alone, but on the page of a trade.
LEMMA UserKeepsShown ==
    ASSUME StInv, StepUser, NEW s \in Flags, steps' = s,
           stepPage # "trade" => /\ s.approving <=> steps.approving
                                 /\ s.approved <=> steps.approved
                                 /\ s.doing <=> steps.doing
                                 /\ s.done <=> steps.done
    PROVE  StShown'
<1> SUFFICES ASSUME NEW q \in Runs, Alone(q)', stepRuns'[q].pc \in ShownAt
             PROVE  /\ stepTimers' = {} /\ \A p \in Runs \ {q} : ~Busy(stepRuns'[p])
                    /\ ShownAs(steps', stepRuns'[q].pc)
  BY DEF StShown
<1>1. /\ UNCHANGED <<stepRuns, stepTimers, stepPage>>
      /\ stepCloses' = stepCloses + 1
      /\ stepCloses \in Nat
  BY DEF StepUser, StInv, StTypes
<1>2. stepPage # "trade"
  BY <1>1 DEF Alone
<1>3. Alone(q)
  BY <1>1, <1>2 DEF Alone
<1>4. /\ stepTimers = {} /\ \A p \in Runs \ {q} : ~Busy(stepRuns[p])
      /\ ShownAs(steps, stepRuns[q].pc)
  BY <1>1, <1>3 DEF StInv, StShown
<1>5. ShownAs(s, stepRuns[q].pc)
  BY <1>2, <1>4 DEF ShownAs
<1> QED
  BY <1>1, <1>4, <1>5

\* Closing the dialog marks nothing.
LEMMA CloseStepInv ==
    ASSUME StInv, CloseStep
    PROVE  StInv'
<1>a. StTypes /\ StOpen /\ StMarks /\ StDone /\ StBox /\ StLoads /\ StFrom
  BY DEF StInv, StResets
<1>1. /\ UNCHANGED <<stepRuns, stepTimers, stepPage, stepBox, stepLoads>>
      /\ stepCloses' = stepCloses + 1
      /\ steps' = IF stepPage = "trade" THEN Blank ELSE [steps EXCEPT !.open = FALSE]
      /\ StepUser
  BY DEF CloseStep, StepUser
<1>2. steps \in Flags
  BY <1>a DEF StTypes
<1> DEFINE s == IF stepPage = "trade" THEN Blank ELSE [steps EXCEPT !.open = FALSE]
<1>3. /\ s \in Flags /\ ~s.open
      /\ HasMarks(s) => HasMarks(steps)
      /\ s.done => steps.done
      /\ stepPage # "trade" => /\ s.approving <=> steps.approving
                               /\ s.approved <=> steps.approved
                               /\ s.doing <=> steps.doing
                               /\ s.done <=> steps.done
  BY <1>2 DEF Flags, Blank, HasMarks
<1>4. steps' = s
  BY <1>1
<1> HIDE DEF s
<1>5. StShown'
  BY <1>1, <1>3, <1>4, UserKeepsShown
<1>6. StTypes'
  <2>1. stepCloses' \in Nat
    BY <1>a, <1>1 DEF StTypes
  <2>2. stepBox' \in BOOLEAN
    BY <1>a, <1>1 DEF StTypes
  <2>3. steps' \in Flags
    BY <1>3, <1>4
  <2> QED
    BY <1>a, <1>1, <2>1, <2>2, <2>3 DEF StTypes, RunOk
<1>7. StOpen' /\ StMarks' /\ StDone'
  BY <1>a, <1>1, <1>3, <1>4 DEF StOpen, StMarks, StDone
<1>8. StBox' /\ StLoads' /\ StFrom'
  BY <1>a, <1>1 DEF StBox, StLoads, StFrom
<1> QED
  BY <1>5, <1>6, <1>7, <1>8 DEF StInv, StResets

\* While the box is open a run goes on or a timer is left, so the dialog may open again.
LEMMA ViewProgressInv ==
    ASSUME StInv, ViewProgress
    PROVE  StInv'
<1>a. StTypes /\ StOpen /\ StMarks /\ StDone /\ StBox /\ StLoads /\ StFrom
  BY DEF StInv, StResets
<1>1. /\ UNCHANGED <<stepRuns, stepTimers, stepPage, stepLoads>>
      /\ stepCloses' = stepCloses + 1
      /\ stepBox /\ StepUser
      /\ \/ steps' = [steps EXCEPT !.open = TRUE] /\ stepBox' = stepBox
         \/ stepBox' = FALSE /\ steps' = steps
  BY DEF ViewProgress, StepUser, Box
<1>2. steps \in Flags /\ stepBox \in BOOLEAN
  BY <1>a DEF StTypes
<1>3. PICK s \in Flags :
         /\ steps' = s
         /\ s.approving <=> steps.approving
         /\ s.approved <=> steps.approved
         /\ s.doing <=> steps.doing
         /\ s.done <=> steps.done
         /\ HasMarks(s) <=> HasMarks(steps)
  BY <1>1, <1>2 DEF Flags, HasMarks
<1>4. StShown'
  BY <1>1, <1>3, UserKeepsShown
<1>5. StTypes'
  <2>1. stepCloses' \in Nat
    BY <1>a, <1>1 DEF StTypes
  <2>2. stepBox' \in BOOLEAN
    BY <1>a, <1>1 DEF StTypes
  <2>3. steps' \in Flags
    BY <1>3
  <2> QED
    BY <1>a, <1>1, <2>1, <2>2, <2>3 DEF StTypes, RunOk
<1>6. StOpen'
  <2>1. stepTimers # {} \/ \E r \in Runs : Boxing(stepRuns[r])
    BY <1>a, <1>1 DEF StBox
  <2>2. stepTimers # {} \/ \E r \in Runs : Going(stepRuns[r])
    BY <2>1 DEF Boxing, Going
  <2> QED
    BY <1>1, <2>2 DEF StOpen
<1>7. StMarks' /\ StDone'
  BY <1>a, <1>1, <1>3 DEF StMarks, StDone
<1>8. StBox' /\ StLoads' /\ StFrom'
  BY <1>a, <1>1 DEF StBox, StLoads, StFrom
<1> QED
  BY <1>4, <1>5, <1>6, <1>7, <1>8 DEF StInv, StResets

\* Every step of the dialogs keeps the invariant.
LEMMA StStepInv ==
    ASSUME StInv, [StepNext]_stepVars
    PROVE  StInv'
<1>1. ASSUME NEW r \in Runs,
             \/ StartRun(r) \/ WaitOver(r)
             \/ StepApproved(r) \/ StepApproveFails(r) \/ StepApproveSilent(r)
             \/ StepUploaded(r) \/ StepUploadFails(r) \/ StepQuoted(r) \/ StepQuoteRejected(r)
             \/ StepAccepted(r) \/ StepDone(r) \/ StepReread(r) \/ StepRereadFails(r)
             \/ StepRefused(r)
             \/ StepAsks(r) \/ StepPending(r) \/ StepSucceeded(r) \/ StepSucceededLate(r)
             \/ StepReported(r) \/ StepFailed(r)
      PROVE  StInv'
  BY <1>1, StartRunInv, WaitOverInv, StepApprovedInv, StepApproveFailsInv,
     StepApproveSilentInv, StepRereadInv, StepRereadFailsInv, StepUploadedInv,
     StepUploadFailsInv, StepQuotedInv, StepQuoteRejectedInv, StepAcceptedInv, StepDoneInv,
     StepRefusedInv, StepAsksInv, StepPendingInv, StepSucceededInv, StepSucceededLateInv,
     StepReportedInv, StepFailedInv
<1>2. CASE UNCHANGED stepVars
  BY <1>2 DEF StInv, StTypes, StResets, StOpen, StMarks, StDone, StBox, StLoads, StFrom, StShown,
     Alone, stepVars, RunOk
<1> QED
  BY <1>1, <1>2, StepTimerFiresInv, CloseStepInv, ViewProgressInv DEF StepNext

\* At first no run has begun and nothing is set.
LEMMA StInitInv ==
    ASSUME StepInit
    PROVE  StInv
<1>1. /\ stepPage \in {"trade", "create", "topup"} /\ steps = Blank /\ stepBox = FALSE
      /\ stepLoads = FALSE /\ stepTimers = {} /\ stepCloses = 0
      /\ stepRuns = [r \in Runs |-> NoRun]
  BY DEF StepInit
<1>2. Blank \in Flags /\ ~Blank.open /\ ~HasMarks(Blank) /\ ~Blank.done
  BY DEF Blank, Flags, HasMarks
<1>3. /\ NoRun \in Run /\ RunOk(NoRun) /\ NoRun.from = Blank
      /\ NoRun.pc = "idle"
  BY <1>2, StepAssumption DEF NoRun, RunOk, Run
<1>4. StTypes
  BY <1>1, <1>2, <1>3 DEF StTypes
<1>5. StResets
  BY <1>1, <1>2 DEF StResets, StOpen, StMarks, StDone, StBox, StLoads
<1>6. StFrom
  BY <1>1, <1>3 DEF StFrom
<1>7. StShown
  BY <1>1, <1>3 DEF StShown, ShownAt
<1> QED
  BY <1>4, <1>5, <1>6, <1>7 DEF StInv

-----------------------------------------------------------------------------
(* What was traded and created last (ContextFeed). *)

\* A trade and a creation that came no later than others.
NotAfter(x, y) == x.trade <= y.trade /\ x.created <= y.created

\* What was announced since the page was loaded, or stored then.
Heard(x) == \A k \in {"trade", "created"} : <<k, x[k]>> \in ctxPast.told \/ x[k] = ctxPast.stored[k]

\* The values of the state, the history included.
CtxTypes ==
    /\ ctxPage \in {"header", "home"}
    /\ ctxMarket \in Context /\ ctxSeen \in Context /\ ctxStored \in Context /\ ctxShown \in Context
    /\ ctxReadings \in [Readings -> Reading]
    /\ ctxShake \in [buy : BOOLEAN, create : BOOLEAN]
    /\ ctxPast \in [stored : Context, told : SUBSET ({"trade", "created"} \X Nat), twice : BOOLEAN,
                    back : BOOLEAN, own : BOOLEAN, overlap : BOOLEAN]

\* What has been read is of the market's past; there is one trade and one creation at least.
CtxOrdered ==
    /\ ctxMarket.trade >= 1 /\ ctxMarket.created >= 1
    /\ NotAfter(ctxSeen, ctxMarket) /\ NotAfter(ctxShown, ctxMarket)
    /\ \A r \in Readings : ctxReadings[r].pc = "images" =>
          NotAfter(ctxReadings[r].got, ctxMarket) /\ ctxReadings[r].got.trade >= 1

\* The pending timeout stops the first button that shakes.
CtxTimed ==
    /\ ctxTimer = IF ctxShake.buy THEN "buy" ELSE IF ctxShake.create THEN "create" ELSE "none"
    /\ ctxShake.buy \/ ctxShake.create => ctxShown # NoContext

\* What the closures have seen, the storage holds and the header shows was heard of.
CtxHeard ==
    /\ Heard(ctxSeen) /\ Heard(ctxStored)
    /\ \A r \in Readings : ctxReadings[r].own => Heard(ctxReadings[r].seen)
    /\ ctxShown # NoContext => Heard(ctxShown)

\* Without an overlap one reading is under way, and it answers no less than was shown.
CtxAlone ==
    ~ctxPast.overlap =>
        /\ \A r, q \in InFlight : r = q
        /\ ~ctxPast.back
        /\ \A r \in Readings : ctxReadings[r].pc = "images" => NotAfter(ctxShown, ctxReadings[r].got)

\* Without a trade of the user either, the first closure has seen all that was announced.
CtxOnce ==
    ~ctxPast.overlap /\ ~ctxPast.own =>
        /\ ~ctxPast.twice
        /\ \A r \in InFlight : ~ctxReadings[r].own
        /\ \A r \in Readings : ctxReadings[r].pc = "images" => NotAfter(ctxSeen, ctxReadings[r].got)
        /\ \A k \in {"trade", "created"}, n \in Nat : <<k, n>> \in ctxPast.told => n <= ctxSeen[k]

\* The inductive invariant of the header.
CtxInv == CtxTypes /\ CtxOrdered /\ CtxTimed /\ CtxHeard /\ CtxAlone /\ CtxOnce

\* The parts give what the header promises.
LEMMA CtxInvAgrees ==
    ASSUME CtxInv
    PROVE  ContextAgrees
<1>1. ctxTimer \in {"none", "buy", "create"}
  BY DEF CtxInv, CtxTimed
<1>2. ContextTypes
  BY <1>1 DEF CtxInv, CtxTypes, ContextTypes
<1>3. /\ Shakes("buy") \/ Shakes("create") => ctxTimer # "none"
      /\ ctxTimer # "none" => Shakes(ctxTimer)
  <2>1. ctxShake["buy"] = ctxShake.buy /\ ctxShake["create"] = ctxShake.create
    BY DEF CtxInv, CtxTypes
  <2> QED
    BY <2>1 DEF CtxInv, CtxTimed, Shakes
<1>4. ctxShown # NoContext =>
           \A k \in {"trade", "created"} :
               <<k, ctxShown[k]>> \in ctxPast.told \/ ctxShown[k] = ctxPast.stored[k]
  BY DEF CtxInv, CtxHeard, Heard
<1>5. /\ ctxPast.back => ctxPast.overlap
      /\ ctxPast.twice => ctxPast.overlap \/ ctxPast.own
  BY DEF CtxInv, CtxTypes, CtxAlone, CtxOnce
<1> QED
  BY <1>2, <1>3, <1>4, <1>5 DEF ContextAgrees

\* The arithmetic of what came before what.
LEMMA NotAfterFacts ==
    /\ \A x \in Context : NotAfter(x, x) /\ x.trade \in Nat /\ x.created \in Nat
    /\ \A x, y, z \in Context : NotAfter(x, y) /\ NotAfter(y, z) => NotAfter(x, z)
    /\ NoContext \in Context /\ \A x \in Context : NotAfter(NoContext, x)
    /\ \A x, y \in Context : NotAfter(x, y) => \A k \in {"trade", "created"} : x[k] <= y[k]
    /\ \A x \in Context, k \in {"trade", "created"} : x[k] \in Nat
<1> MaxTrades \in Nat /\ MaxCreations \in Nat
  BY ContextAssumption
<1>1. \A x \in Context : NotAfter(x, x) /\ x.trade \in Nat /\ x.created \in Nat
  BY DEF Context, NotAfter
<1>2. \A x, y, z \in Context : NotAfter(x, y) /\ NotAfter(y, z) => NotAfter(x, z)
  BY <1>1 DEF NotAfter
<1>3. NoContext \in Context /\ \A x \in Context : NotAfter(NoContext, x)
  BY <1>1 DEF NotAfter, NoContext, Context
<1>4. \A x \in Context : x["trade"] = x.trade /\ x["created"] = x.created
  BY DEF Context
<1> QED
  BY <1>1, <1>2, <1>3, <1>4 DEF NotAfter

\* The effect of the buttons sets the timeout for the first of them.
LEMMA ShakeSet ==
    ASSUME CtxTypes, CtxTimed, NEW b \in BOOLEAN, NEW c \in BOOLEAN, ShakeEffect(b, c)
    PROVE  /\ ctxShake' \in [buy : BOOLEAN, create : BOOLEAN]
           /\ (ctxShake'.buy <=> b) /\ (ctxShake'.create <=> c)
           /\ ctxTimer' = IF ctxShake'.buy THEN "buy"
                          ELSE IF ctxShake'.create THEN "create" ELSE "none"
<1>1. /\ ctxShake' = [buy |-> b, create |-> c]
      /\ ctxTimer' = IF ctxShake' = ctxShake THEN ctxTimer
                     ELSE IF b THEN "buy" ELSE IF c THEN "create" ELSE "none"
  BY DEF ShakeEffect
<1>2. /\ ctxShake' \in [buy : BOOLEAN, create : BOOLEAN]
      /\ (ctxShake'.buy <=> b) /\ (ctxShake'.create <=> c)
  BY <1>1
<1>3. CASE ctxShake' = ctxShake
  BY <1>1, <1>3, <1>2 DEF CtxTimed
<1>4. CASE ctxShake' # ctxShake
  BY <1>1, <1>2, <1>4
<1> QED
  BY <1>2, <1>3, <1>4

\* A reading that goes on as n.
LEMMA ReadingSet ==
    ASSUME CtxTypes, NEW r \in Readings, NEW n \in Reading,
           ctxReadings' = [ctxReadings EXCEPT ![r] = n]
    PROVE  /\ ctxReadings' \in [Readings -> Reading] /\ ctxReadings'[r] = n
           /\ \A q \in Readings \ {r} : ctxReadings'[q] = ctxReadings[q]
           /\ \A q \in InFlight' : q # r => q \in InFlight
           /\ r \in InFlight' => n.pc \in {"asked", "images"}
           /\ InFlight' \subseteq Readings
<1>1. /\ ctxReadings' \in [Readings -> Reading] /\ ctxReadings'[r] = n
      /\ \A q \in Readings \ {r} : ctxReadings'[q] = ctxReadings[q]
  BY DEF CtxTypes
<1> QED
  BY <1>1 DEF InFlight

\* A reading starts.
LEMMA StartsInv ==
    ASSUME CtxInv, NEW mine \in BOOLEAN, Starts(mine)
    PROVE  CtxInv'
<1>a. CtxTypes /\ CtxOrdered /\ CtxTimed /\ CtxHeard /\ CtxAlone /\ CtxOnce
  BY DEF CtxInv
<1>1. PICK r \in NextReading :
          ctxReadings' = [ctxReadings EXCEPT ![r] =
              [pc |-> "asked", got |-> NoContext, own |-> mine,
               seen |-> IF mine THEN ctxStored ELSE NoContext]]
  BY DEF Starts
<1>2. /\ ctxPast' = [ctxPast EXCEPT !.overlap = @ \/ InFlight # {}, !.own = @ \/ mine]
      /\ UNCHANGED <<ctxPage, ctxMarket, ctxSeen, ctxStored, ctxShown, ctxShake, ctxTimer>>
  BY DEF Starts
<1>3. r \in Readings
  BY DEF NextReading
<1> DEFINE n == [pc |-> "asked", got |-> NoContext, own |-> mine,
                 seen |-> IF mine THEN ctxStored ELSE NoContext]
<1>4. /\ n \in Reading /\ n.pc = "asked" /\ (n.own <=> mine) /\ (mine => n.seen = ctxStored)
  BY <1>a, NotAfterFacts DEF CtxTypes, Reading
<1>5. ctxReadings' = [ctxReadings EXCEPT ![r] = n]
  BY <1>1
<1> HIDE DEF n
<1>6. /\ ctxReadings' \in [Readings -> Reading] /\ ctxReadings'[r] = n
      /\ \A q \in Readings \ {r} : ctxReadings'[q] = ctxReadings[q]
      /\ \A q \in InFlight' : q # r => q \in InFlight
      /\ InFlight' \subseteq Readings
  BY <1>a, <1>3, <1>4, <1>5, ReadingSet
<1>7. PICK o \in BOOLEAN, w \in BOOLEAN : o = (ctxPast.overlap \/ InFlight # {}) /\ w = (ctxPast.own \/ mine)
  OBVIOUS
<1>8. ctxPast' = [ctxPast EXCEPT !.overlap = o, !.own = w]
  BY <1>2, <1>7
<1>b. (o <=> ctxPast.overlap \/ InFlight # {}) /\ (w <=> ctxPast.own \/ mine)
  BY <1>7
<1>9. /\ ctxPast' \in [stored : Context, told : SUBSET ({"trade", "created"} \X Nat),
                       twice : BOOLEAN, back : BOOLEAN, own : BOOLEAN, overlap : BOOLEAN]
      /\ ctxPast'.stored = ctxPast.stored /\ ctxPast'.told = ctxPast.told
      /\ ctxPast'.twice = ctxPast.twice /\ ctxPast'.back = ctxPast.back
      /\ (ctxPast'.overlap <=> o) /\ (ctxPast'.own <=> w)
  BY <1>a, <1>8 DEF CtxTypes
<1>10. CtxTypes'
  BY <1>a, <1>2, <1>6, <1>9 DEF CtxTypes
<1>11. \A q \in Readings : ctxReadings'[q].pc = "images" => ctxReadings'[q] = ctxReadings[q]
  BY <1>4, <1>6
<1>12. CtxOrdered'
  BY <1>a, <1>2, <1>11 DEF CtxOrdered, NotAfter
<1>13. CtxTimed'
  BY <1>a, <1>2 DEF CtxTimed
<1>14. CtxHeard'
  <2>2. Heard(ctxSeen)' /\ Heard(ctxStored)' /\ (ctxShown' # NoContext => Heard(ctxShown)')
    BY <1>a, <1>2, <1>9 DEF CtxHeard, Heard
  <2>3. \A q \in Readings : ctxReadings'[q].own => Heard(ctxReadings'[q].seen)
    BY <1>a, <1>4, <1>6 DEF CtxHeard
  <2>4. \A q \in Readings : ctxReadings'[q].own => Heard(ctxReadings[q].seen)'
    BY <1>9, <2>3 DEF Heard
  <2> QED
    BY <2>2, <2>4 DEF CtxHeard, NoContext
<1>15. ASSUME ~ctxPast'.overlap
       PROVE  ~ctxPast.overlap /\ InFlight = {} /\ \A q \in InFlight' : q = r
  BY <1>6, <1>b, <1>9, <1>15
<1>16. CtxAlone'
  BY <1>a, <1>2, <1>9, <1>11, <1>15 DEF CtxAlone, NotAfter
<1>17. CtxOnce'
  <2>1. ASSUME ~ctxPast'.overlap, ~ctxPast'.own
        PROVE  ~ctxPast.overlap /\ ~ctxPast.own /\ ~mine
    BY <1>b, <1>9, <1>15, <2>1
  <2>2. ASSUME ~ctxPast'.overlap, ~ctxPast'.own
        PROVE  \A q \in InFlight' : ~ctxReadings'[q].own
    BY <1>4, <1>6, <1>15, <2>1, <2>2
  <2> QED
    BY <1>a, <1>2, <1>9, <1>11, <2>1, <2>2 DEF CtxOnce, NotAfter
<1> QED
  BY <1>10, <1>12, <1>13, <1>14, <1>16, <1>17 DEF CtxInv

\* A reading that ends without an answer, or has its answer but not yet the images.
LEMMA ReadingGoesOn ==
    ASSUME CtxInv, NEW r \in Readings, NEW n \in Reading, r \in InFlight,
           ctxReadings' = [ctxReadings EXCEPT ![r] = n],
           n.own = ctxReadings[r].own, n.seen = ctxReadings[r].seen,
           \/ n.pc = "over"
           \/ n.pc = "images" /\ n.got = ctxMarket,
           UNCHANGED <<ctxPage, ctxMarket, ctxSeen, ctxStored, ctxShown, ctxShake, ctxTimer, ctxPast>>
    PROVE  CtxInv'
<1>a. CtxTypes /\ CtxOrdered /\ CtxTimed /\ CtxHeard /\ CtxAlone /\ CtxOnce
  BY DEF CtxInv
<1>1. /\ ctxReadings' \in [Readings -> Reading] /\ ctxReadings'[r] = n
      /\ \A q \in Readings \ {r} : ctxReadings'[q] = ctxReadings[q]
      /\ InFlight' \subseteq InFlight
      /\ InFlight \subseteq Readings
  <2>1. /\ ctxReadings' \in [Readings -> Reading] /\ ctxReadings'[r] = n
        /\ \A q \in Readings \ {r} : ctxReadings'[q] = ctxReadings[q]
        /\ \A q \in InFlight' : q # r => q \in InFlight
    BY <1>a, ReadingSet
  <2> QED
    BY <2>1 DEF InFlight
<1>2. CtxTypes'
  BY <1>a, <1>1 DEF CtxTypes
<1>3. /\ ctxMarket \in Context /\ NotAfter(ctxMarket, ctxMarket)
  BY <1>a, NotAfterFacts DEF CtxTypes
<1>4. CtxOrdered'
  BY <1>a, <1>1, <1>3 DEF CtxOrdered, NotAfter
<1>5. CtxTimed'
  BY <1>a DEF CtxTimed
<1>6. CtxHeard'
  BY <1>a, <1>1 DEF CtxHeard, Heard
<1>7. CtxAlone'
  BY <1>a, <1>1 DEF CtxAlone, CtxOrdered, NotAfter
<1>8. CtxOnce'
  BY <1>a, <1>1 DEF CtxOnce, CtxOrdered, NotAfter
<1> QED
  BY <1>2, <1>4, <1>5, <1>6, <1>7, <1>8 DEF CtxInv

\* A reading is shown.
LEMMA ContextShownInv ==
    ASSUME CtxInv, ContextShown
    PROVE  CtxInv'
<1>a. CtxTypes /\ CtxOrdered /\ CtxTimed /\ CtxHeard /\ CtxAlone /\ CtxOnce
  BY DEF CtxInv
<1> DEFINE keys == {"trade", "created"}
           got(r) == ctxReadings[r].got
           seen(r) == IF ctxReadings[r].own THEN ctxReadings[r].seen ELSE ctxSeen
           news(r) == {k \in keys : got(r)[k] # seen(r)[k]}
<1>1. PICK r \in Readings :
            /\ ctxReadings[r].pc = "images"
            /\ ctxReadings' = [ctxReadings EXCEPT ![r].pc = "over"]
            /\ ctxSeen' = IF ctxReadings[r].own THEN ctxSeen ELSE got(r)
            /\ ctxStored' = IF ctxPage = "header"
                            THEN [k \in {"trade", "created"} |->
                                     IF k \in news(r) THEN got(r)[k] ELSE ctxStored[k]]
                            ELSE ctxStored
            /\ ShakeEffect("trade" \in news(r), "created" \in news(r))
            /\ ctxShown' = got(r)
            /\ ctxPast' = [ctxPast EXCEPT
                   !.told = @ \cup {<<k, got(r)[k]>> : k \in news(r)},
                   !.twice = @ \/ \E k \in news(r) : <<k, got(r)[k]>> \in ctxPast.told,
                   !.back = @ \/ got(r).trade < ctxShown.trade \/ got(r).created < ctxShown.created]
            /\ UNCHANGED <<ctxPage, ctxMarket>>
  BY DEF ContextShown
<1> DEFINE n == [ctxReadings[r] EXCEPT !.pc = "over"]
<1>2. /\ ctxReadings[r] \in Reading /\ n \in Reading /\ n.pc = "over"
      /\ n.own = ctxReadings[r].own /\ n.seen = ctxReadings[r].seen
      /\ got(r) \in Context /\ seen(r) \in Context
      /\ ctxReadings' = [ctxReadings EXCEPT ![r] = n]
  BY <1>a, <1>1 DEF CtxTypes, Reading
<1> HIDE DEF n
<1>3. /\ ctxReadings' \in [Readings -> Reading] /\ ctxReadings'[r] = n
      /\ \A q \in Readings \ {r} : ctxReadings'[q] = ctxReadings[q]
      /\ \A q \in InFlight' : q # r /\ q \in InFlight
      /\ InFlight' \subseteq Readings
  <2>1. /\ ctxReadings' \in [Readings -> Reading] /\ ctxReadings'[r] = n
        /\ \A q \in Readings \ {r} : ctxReadings'[q] = ctxReadings[q]
        /\ \A q \in InFlight' : q # r => q \in InFlight
        /\ r \in InFlight' => n.pc \in {"asked", "images"}
        /\ InFlight' \subseteq Readings
    BY <1>a, <1>2, ReadingSet
  <2> QED
    BY <1>2, <2>1
<1>4. r \in InFlight
  BY <1>1 DEF InFlight
\* The answer: g where s was seen, of which the keys in ks are news.
<1>5. PICK g \in Context, s \in Context, ks \in SUBSET keys :
            /\ g = got(r) /\ s = seen(r) /\ ks = {k \in keys : g[k] # s[k]}
            /\ ks = news(r)
  BY <1>2
<1>6. /\ g.trade >= 1 /\ NotAfter(g, ctxMarket)
      /\ g = ctxReadings[r].got
  BY <1>a, <1>1, <1>5 DEF CtxOrdered
<1>7. /\ ctxSeen' = IF ctxReadings[r].own THEN ctxSeen ELSE g
      /\ ctxStored' = IF ctxPage = "header"
                      THEN [k \in {"trade", "created"} |-> IF k \in ks THEN g[k] ELSE ctxStored[k]]
                      ELSE ctxStored
      /\ ShakeEffect("trade" \in ks, "created" \in ks)
      /\ ctxShown' = g
      /\ s = IF ctxReadings[r].own THEN ctxReadings[r].seen ELSE ctxSeen
  BY <1>1, <1>5
<1>8. ctxPast' = [ctxPast EXCEPT
                   !.told = @ \cup {<<k, g[k]>> : k \in ks},
                   !.twice = @ \/ \E k \in ks : <<k, g[k]>> \in ctxPast.told,
                   !.back = @ \/ g.trade < ctxShown.trade \/ g.created < ctxShown.created]
  BY <1>1, <1>5
<1>9. UNCHANGED <<ctxPage, ctxMarket>>
  BY <1>1
<1> HIDE DEF got, seen, news
<1>10. \A k \in keys : g[k] \in Nat /\ s[k] \in Nat /\ ctxSeen[k] \in Nat
  BY <1>a, NotAfterFacts DEF CtxTypes
<1> DEFINE ts == {<<k, g[k]>> : k \in ks}
<1>11. /\ ts \subseteq keys \X Nat
       /\ \A k \in keys, m \in Nat : <<k, m>> \in ts <=> k \in ks /\ m = g[k]
  BY <1>5, <1>10
<1>12. PICK tw \in BOOLEAN, bk \in BOOLEAN :
            /\ tw = (ctxPast.twice \/ \E k \in ks : <<k, g[k]>> \in ctxPast.told)
            /\ bk = (ctxPast.back \/ g.trade < ctxShown.trade \/ g.created < ctxShown.created)
  OBVIOUS
<1>13. ctxPast' = [ctxPast EXCEPT !.told = @ \cup ts, !.twice = tw, !.back = bk]
  BY <1>8, <1>12
<1> HIDE DEF ts
<1>14. /\ ctxPast' \in [stored : Context, told : SUBSET ({"trade", "created"} \X Nat),
                        twice : BOOLEAN, back : BOOLEAN, own : BOOLEAN, overlap : BOOLEAN]
       /\ ctxPast'.stored = ctxPast.stored /\ ctxPast'.told = ctxPast.told \cup ts
       /\ ctxPast'.twice = tw /\ ctxPast'.back = bk
       /\ (ctxPast'.overlap <=> ctxPast.overlap) /\ (ctxPast'.own <=> ctxPast.own)
  <2>1. ctxPast.told \cup ts \in SUBSET ({"trade", "created"} \X Nat)
    BY <1>a, <1>11 DEF CtxTypes
  <2> QED
    BY <1>a, <1>13, <2>1 DEF CtxTypes
<1>15. /\ ctxShake' \in [buy : BOOLEAN, create : BOOLEAN]
       /\ ctxTimer' = IF ctxShake'.buy THEN "buy"
                      ELSE IF ctxShake'.create THEN "create" ELSE "none"
  <2>1. ("trade" \in ks) \in BOOLEAN /\ ("created" \in ks) \in BOOLEAN
    OBVIOUS
  <2> QED
    BY <1>a, <1>7, <2>1, ShakeSet, Zenon
<1>16. CtxTypes'
  <2>1. ctxStored' \in Context /\ ctxSeen' \in Context
    <3>1. ctxStored \in Context /\ ctxSeen \in Context
      BY <1>a DEF CtxTypes
    <3>2. [k \in {"trade", "created"} |-> IF k \in ks THEN g[k] ELSE ctxStored[k]] \in Context
      BY <3>1, ContextAssumption DEF Context
    <3> QED
      BY <1>7, <3>1, <3>2
  <2> QED
    BY <1>a, <1>3, <1>7, <1>9, <1>14, <1>15, <2>1 DEF CtxTypes
<1>17. \A q \in Readings : ctxReadings'[q].pc = "images" => q # r /\ ctxReadings'[q] = ctxReadings[q]
  BY <1>2, <1>3
<1>18. CtxOrdered'
  <2>1. NotAfter(ctxSeen', ctxMarket) /\ NotAfter(ctxShown', ctxMarket)
    BY <1>a, <1>6, <1>7 DEF CtxOrdered, NotAfter
  <2> QED
    BY <1>a, <1>9, <1>17, <2>1 DEF CtxOrdered, NotAfter
<1>19. CtxTimed'
  <2>1. g # NoContext
    BY <1>6 DEF NoContext
  <2> QED
    BY <1>7, <1>15, <2>1 DEF CtxTimed, NoContext
<1>20. /\ \A k \in ks : <<k, g[k]>> \in ctxPast'.told
       /\ \A k \in keys \ ks : g[k] = s[k]
  BY <1>5, <1>10, <1>11, <1>14
<1>21. ASSUME NEW x, Heard(x) PROVE Heard(x)'
  BY <1>14, <1>21 DEF Heard
<1>22. CtxHeard'
  <2>1. Heard(s)
    BY <1>a, <1>7 DEF CtxHeard
  <2>2. \A k \in keys : <<k, g[k]>> \in ctxPast'.told \/ g[k] = ctxPast'.stored[k]
    BY <1>14, <1>20, <2>1 DEF Heard
  <2>3. \A k \in keys : \/ <<k, ctxSeen[k]>> \in ctxPast'.told
                        \/ ctxSeen[k] = ctxPast'.stored[k]
    BY <1>a, <1>14 DEF CtxHeard, Heard
  <2>4. \A k \in keys : ctxStored'[k] \in {g[k], ctxStored[k]}
    BY <1>7
  <2>5. \A k \in keys : \/ <<k, ctxStored'[k]>> \in ctxPast'.told
                        \/ ctxStored'[k] = ctxPast'.stored[k]
    BY <1>a, <1>14, <2>2, <2>4 DEF CtxHeard, Heard
  <2>6. \A q \in Readings : ctxReadings'[q].own = ctxReadings[q].own
                            /\ ctxReadings'[q].seen = ctxReadings[q].seen
    BY <1>2, <1>3
  <2>7. ASSUME NEW q \in Readings, ctxReadings'[q].own
        PROVE  \A k \in keys : \/ <<k, ctxReadings'[q].seen[k]>> \in ctxPast'.told
                               \/ ctxReadings'[q].seen[k] = ctxPast'.stored[k]
    <3>1. Heard(ctxReadings[q].seen)
      BY <1>a, <2>6, <2>7 DEF CtxHeard
    <3>2. \A k \in keys : \/ <<k, ctxReadings[q].seen[k]>> \in ctxPast.told
                          \/ ctxReadings[q].seen[k] = ctxPast.stored[k]
      BY <3>1 DEF Heard
    <3> QED
      BY <1>14, <2>6, <3>2
  <2> QED
    BY <1>7, <2>2, <2>3, <2>5, <2>7 DEF CtxHeard, Heard
<1>23. CtxAlone'
  <2> SUFFICES ASSUME ~ctxPast'.overlap
               PROVE  /\ \A p, q \in InFlight' : p = q
                      /\ ~ctxPast'.back
                      /\ \A q \in Readings : ctxReadings'[q].pc = "images" =>
                            NotAfter(ctxShown, ctxReadings[q].got)'
    BY DEF CtxAlone, NotAfter
  <2>1. ~ctxPast.overlap
    BY <1>14
  <2>2. \A q \in InFlight : q = r
    BY <1>a, <1>4, <2>1 DEF CtxAlone
  <2>3. InFlight' = {}
    BY <1>3, <2>2
  <2>4. \A q \in Readings : ctxReadings'[q].pc # "images"
    BY <2>3 DEF InFlight
  <2>5. NotAfter(ctxShown, g) /\ ~ctxPast.back
    BY <1>a, <1>1, <1>6, <2>1 DEF CtxAlone
  <2>6. ~bk
    <3>1. ctxShown.trade \in Nat /\ ctxShown.created \in Nat /\ g.trade \in Nat /\ g.created \in Nat
      BY <1>a, NotAfterFacts DEF CtxTypes
    <3>2. ~(g.trade < ctxShown.trade) /\ ~(g.created < ctxShown.created)
      BY <2>5, <3>1 DEF NotAfter
    <3> QED
      BY <1>12, <2>5, <3>2
  <2> QED
    BY <1>14, <2>3, <2>4, <2>6
<1>24. CtxOnce'
  <2> SUFFICES ASSUME ~ctxPast'.overlap, ~ctxPast'.own
               PROVE  /\ ~ctxPast'.twice
                      /\ \A q \in InFlight' : ~ctxReadings'[q].own
                      /\ \A q \in Readings : ctxReadings'[q].pc = "images" =>
                            NotAfter(ctxSeen, ctxReadings[q].got)'
                      /\ \A k \in keys, m \in Nat : <<k, m>> \in ctxPast'.told => m <= ctxSeen'[k]
    BY DEF CtxOnce, NotAfter
  <2>1. ~ctxPast.overlap /\ ~ctxPast.own
    BY <1>14
  <2>2. \A q \in InFlight : q = r
    BY <1>a, <1>4, <2>1 DEF CtxAlone
  <2>3. InFlight' = {} /\ \A q \in Readings : ctxReadings'[q].pc # "images"
    BY <1>3, <2>2 DEF InFlight
  <2>4. /\ ~ctxReadings[r].own /\ ~ctxPast.twice /\ NotAfter(ctxSeen, g)
        /\ \A k \in keys, m \in Nat : <<k, m>> \in ctxPast.told => m <= ctxSeen[k]
    BY <1>a, <1>1, <1>4, <1>6, <2>1 DEF CtxOnce
  <2>5. s = ctxSeen /\ ctxSeen' = g
    BY <1>7, <2>4
  <2>6. \A k \in keys : ctxSeen[k] <= g[k]
    BY <1>a, <2>4, NotAfterFacts DEF CtxTypes
  <2>7. \A k \in ks : ctxSeen[k] < g[k]
    BY <1>5, <1>10, <2>5, <2>6
  <2>8. \A k \in ks : <<k, g[k]>> \notin ctxPast.told
    <3> SUFFICES ASSUME NEW k \in ks, <<k, g[k]>> \in ctxPast.told PROVE FALSE
      OBVIOUS
    <3>1. k \in keys /\ g[k] \in Nat /\ ctxSeen[k] \in Nat
      BY <1>5, <1>10
    <3>2. g[k] <= ctxSeen[k]
      BY <2>4, <3>1
    <3> QED
      BY <2>7, <3>1, <3>2
  <2>9. ~tw
    BY <1>12, <2>4, <2>8
  <2>10. ASSUME NEW k \in keys, NEW m \in Nat, <<k, m>> \in ctxPast'.told PROVE m <= g[k]
    <3>1. CASE <<k, m>> \in ctxPast.told
      <4>1. m <= ctxSeen[k] /\ ctxSeen[k] \in Nat /\ g[k] \in Nat /\ ctxSeen[k] <= g[k]
        BY <1>10, <2>4, <2>6, <3>1
      <4> QED
        BY <4>1
    <3>2. CASE <<k, m>> \in ts
      BY <1>10, <1>11, <3>2
    <3> QED
      BY <1>14, <2>10, <3>1, <3>2
  <2> QED
    BY <1>14, <2>3, <2>5, <2>9, <2>10
<1> QED
  BY <1>16, <1>18, <1>19, <1>22, <1>23, <1>24 DEF CtxInv

\* The context, step by step.
LEMMA CtxStepInv ==
    ASSUME CtxInv, [ContextNext]_ctxVars
    PROVE  CtxInv'
<1>a. CtxTypes /\ CtxOrdered /\ CtxTimed /\ CtxHeard /\ CtxAlone /\ CtxOnce
  BY DEF CtxInv
<1>1. CASE MarketMoves
  <2>1. /\ ctxMarket' \in {[ctxMarket EXCEPT !.trade = @ + 1], [ctxMarket EXCEPT !.created = @ + 1]}
        /\ ctxMarket' \in Context
        /\ UNCHANGED <<ctxPage, ctxReadings, ctxSeen, ctxStored, ctxShown, ctxShake, ctxTimer,
                       ctxPast>>
    BY <1>1 DEF MarketMoves
  <2>2. InFlight' = InFlight
    BY <2>1 DEF InFlight
  <2>3. CtxTypes'
    BY <1>a, <2>1 DEF CtxTypes
  <2>4. ctxMarket.trade \in Nat /\ ctxMarket.created \in Nat /\ ctxMarket \in Context
    BY <1>a, NotAfterFacts DEF CtxTypes
  <2>5. NotAfter(ctxMarket, ctxMarket') /\ ctxMarket'.trade >= 1 /\ ctxMarket'.created >= 1
    <3>1. ctxMarket.trade >= 1 /\ ctxMarket.created >= 1
      BY <1>a DEF CtxOrdered
    <3>2. CASE ctxMarket' = [ctxMarket EXCEPT !.trade = @ + 1]
      BY <2>4, <3>1, <3>2 DEF NotAfter, Context
    <3>3. CASE ctxMarket' = [ctxMarket EXCEPT !.created = @ + 1]
      BY <2>4, <3>1, <3>3 DEF NotAfter, Context
    <3> QED
      BY <2>1, <3>2, <3>3
  <2>6. \A x \in Context : NotAfter(x, ctxMarket) => NotAfter(x, ctxMarket')
    BY <2>1, <2>4, <2>5, NotAfterFacts
  <2>7. \A r \in Readings : ctxReadings[r].got \in Context
    BY <1>a DEF CtxTypes, Reading
  <2>8. CtxOrdered'
    <3>1. NotAfter(ctxSeen, ctxMarket') /\ NotAfter(ctxShown, ctxMarket')
      BY <1>a, <2>6 DEF CtxOrdered, CtxTypes
    <3>2. \A r \in Readings : ctxReadings[r].pc = "images" =>
             NotAfter(ctxReadings[r].got, ctxMarket') /\ ctxReadings[r].got.trade >= 1
      BY <1>a, <2>6, <2>7 DEF CtxOrdered
    <3> QED
      BY <2>1, <2>5, <3>1, <3>2 DEF CtxOrdered, NotAfter
  <2>9. CtxTimed' /\ CtxHeard' /\ CtxAlone' /\ CtxOnce'
    BY <1>a, <2>1, <2>2 DEF CtxTimed, CtxHeard, Heard, CtxAlone, CtxOnce, NotAfter
  <2> QED
    BY <2>3, <2>8, <2>9 DEF CtxInv
<1>2. CASE PollContext
  BY <1>2, StartsInv DEF PollContext
<1>3. CASE OwnTrade
  BY <1>3, StartsInv DEF OwnTrade
<1>4. CASE ContextRead
  <2>1. PICK r \in Readings :
          /\ ctxReadings[r].pc = "asked"
          /\ ctxReadings' = [ctxReadings EXCEPT ![r].pc = "images", ![r].got = ctxMarket]
    BY <1>4 DEF ContextRead
  <2> DEFINE n == [ctxReadings[r] EXCEPT !.pc = "images", !.got = ctxMarket]
  <2>2. ctxReadings[r] \in Reading /\ ctxMarket \in Context
    BY <1>a DEF CtxTypes
  <2>3. /\ n \in Reading /\ n.pc = "images" /\ n.got = ctxMarket
        /\ n.own = ctxReadings[r].own /\ n.seen = ctxReadings[r].seen
    BY <2>2 DEF Reading
  <2>4. ctxReadings' = [ctxReadings EXCEPT ![r] = n]
    BY <1>a, <2>1 DEF CtxTypes
  <2> HIDE DEF n
  <2>5. r \in InFlight
    BY <2>1 DEF InFlight
  <2> QED
    BY <1>4, <2>3, <2>4, <2>5, ReadingGoesOn DEF ContextRead
<1>5. CASE ReadingFails
  <2>1. PICK r \in InFlight : ctxReadings' = [ctxReadings EXCEPT ![r].pc = "over"]
    BY <1>5 DEF ReadingFails
  <2> DEFINE n == [ctxReadings[r] EXCEPT !.pc = "over"]
  <2>2. r \in Readings /\ ctxReadings[r] \in Reading
    BY <1>a DEF CtxTypes, InFlight
  <2>3. /\ n \in Reading /\ n.pc = "over"
        /\ n.own = ctxReadings[r].own /\ n.seen = ctxReadings[r].seen
    BY <2>2 DEF Reading
  <2>4. ctxReadings' = [ctxReadings EXCEPT ![r] = n]
    BY <1>a, <2>1, <2>2 DEF CtxTypes
  <2> HIDE DEF n
  <2> QED
    BY <1>5, <2>2, <2>3, <2>4, ReadingGoesOn DEF ReadingFails
<1>6. CASE ContextShown
  BY <1>6, ContextShownInv
<1>7. CASE ShakeStops
  <2>1. /\ \/ ctxTimer = "buy" /\ ShakeEffect(FALSE, ctxShake.create)
           \/ ctxTimer = "create" /\ ShakeEffect(ctxShake.buy, FALSE)
        /\ UNCHANGED <<ctxPage, ctxMarket, ctxReadings, ctxSeen, ctxStored, ctxShown, ctxPast>>
    BY <1>7 DEF ShakeStops
  <2>2. /\ ctxShake' \in [buy : BOOLEAN, create : BOOLEAN]
        /\ ctxTimer' = IF ctxShake'.buy THEN "buy"
                       ELSE IF ctxShake'.create THEN "create" ELSE "none"
        /\ ctxShake'.buy \/ ctxShake'.create => ctxShake.buy \/ ctxShake.create
    <3>1. ctxShake.buy \in BOOLEAN /\ ctxShake.create \in BOOLEAN
      BY <1>a DEF CtxTypes
    <3>2. PICK b \in BOOLEAN, c \in BOOLEAN :
               ShakeEffect(b, c) /\ (b => ctxShake.buy) /\ (c => ctxShake.create)
      BY <2>1, <3>1
    <3> QED
      BY <1>a, <3>2, ShakeSet
  <2>3. InFlight' = InFlight
    BY <2>1 DEF InFlight
  <2>4. CtxTypes'
    BY <1>a, <2>1, <2>2 DEF CtxTypes
  <2>5. CtxTimed'
    BY <1>a, <2>1, <2>2 DEF CtxTimed
  <2>6. CtxOrdered' /\ CtxHeard' /\ CtxAlone' /\ CtxOnce'
    BY <1>a, <2>1, <2>3 DEF CtxOrdered, CtxHeard, Heard, CtxAlone, CtxOnce, NotAfter
  <2> QED
    BY <2>4, <2>5, <2>6 DEF CtxInv
<1>8. CASE UNCHANGED ctxVars
  <2>1. InFlight' = InFlight
    BY <1>8 DEF ctxVars, InFlight
  <2> QED
    BY <1>a, <1>8, <2>1
    DEF ctxVars, CtxInv, CtxTypes, CtxOrdered, CtxTimed, CtxHeard, Heard, CtxAlone, CtxOnce, NotAfter
<1> QED
  BY <1>1, <1>2, <1>3, <1>4, <1>5, <1>6, <1>7, <1>8 DEF ContextNext

\* What the storage holds when the page is loaded was seen and heard of; the readings of the
\* start have not seen an answer.
LEMMA CtxInitInv ==
    ASSUME ContextInit
    PROVE  CtxInv
<1>1. ctxMarket \in Context /\ ctxMarket.trade = 1 /\ ctxMarket.created = 1
  BY ContextAssumption DEF ContextInit, Context
<1>2. /\ ctxStored \in Context /\ ctxSeen = ctxStored /\ NotAfter(ctxSeen, ctxMarket)
      /\ ctxShown = NoContext /\ NotAfter(ctxShown, ctxMarket) /\ NoContext \in Context
  BY <1>1, NotAfterFacts DEF ContextInit
<1>3. /\ ctxReadings \in [Readings -> Reading]
      /\ \A r \in Readings : /\ ~ctxReadings[r].own
                             /\ ctxReadings[r].pc # "images"
                             /\ r > 1 /\ ctxPage = "home" => ctxReadings[r].pc = "idle"
  <2>1. NoReading \in Reading /\ ~NoReading.own
    BY <1>2 DEF NoReading, Reading
  <2>2. \A pc \in {"asked", "idle"} : LET n == [NoReading EXCEPT !.pc = pc]
                                      IN  n \in Reading /\ ~n.own /\ n.pc = pc
    BY <2>1 DEF Reading
  <2>3. ctxReadings = [r \in Readings |->
           [NoReading EXCEPT !.pc = IF r <= (IF ctxPage = "header" THEN 2 ELSE 1)
                                    THEN "asked" ELSE "idle"]]
    BY DEF ContextInit
  <2>4. ASSUME NEW r \in Readings
        PROVE  \E pc \in {"asked", "idle"} : /\ ctxReadings[r] = [NoReading EXCEPT !.pc = pc]
                                             /\ r > 1 /\ ctxPage = "home" => pc = "idle"
    <3>1. r \in Int
      BY DEF Readings
    <3>2. CASE r <= (IF ctxPage = "header" THEN 2 ELSE 1)
      <4>1. ~(r > 1 /\ ctxPage = "home")
        BY <3>1, <3>2
      <4> QED
        BY <2>3, <3>2, <4>1
    <3>3. CASE ~(r <= (IF ctxPage = "header" THEN 2 ELSE 1))
      BY <2>3, <3>3
    <3> QED
      BY <3>2, <3>3
  <2>5. ctxReadings \in [Readings -> Reading]
    <3>1. \A r \in Readings : ctxReadings[r] \in Reading
      BY <2>2, <2>4
    <3> QED
      BY <2>3, <3>1
  <2> QED
    BY <2>2, <2>4, <2>5
<1>4. /\ ctxPast.stored = ctxStored /\ ctxPast.told = {} /\ ~ctxPast.twice /\ ~ctxPast.back
      /\ (ctxPast.overlap <=> ctxPage = "header")
      /\ ctxPast \in [stored : Context, told : SUBSET ({"trade", "created"} \X Nat),
                      twice : BOOLEAN, back : BOOLEAN, own : BOOLEAN, overlap : BOOLEAN]
  BY <1>2 DEF ContextInit
<1>5. CtxTypes
  BY <1>1, <1>2, <1>3, <1>4 DEF ContextInit, CtxTypes
<1>6. CtxOrdered
  BY <1>1, <1>2, <1>3 DEF CtxOrdered
<1>7. CtxTimed
  BY DEF ContextInit, CtxTimed
<1>8. CtxHeard
  BY <1>2, <1>3, <1>4 DEF CtxHeard, Heard
<1>9. ASSUME ~ctxPast.overlap PROVE \A r \in InFlight : r = 1
  <2>1. ctxPage = "home"
    BY <1>4, <1>9 DEF ContextInit
  <2> QED
    BY <1>3, <2>1 DEF InFlight, Readings
<1>10. CtxAlone
  BY <1>3, <1>4, <1>9 DEF CtxAlone
<1>11. CtxOnce
  BY <1>3, <1>4 DEF CtxOnce, InFlight
<1> QED
  BY <1>5, <1>6, <1>7, <1>8, <1>10, <1>11 DEF CtxInv

-----------------------------------------------------------------------------
(* The card of the god of wells (BoardCards). *)

\* The values of what the card of the god of wells is made of.
GodTypes ==
    /\ god \in 0 .. MaxGods
    /\ godPolls \in [Polls -> GodPoll]
    /\ godCard \in [GodParts \cup {"project"} -> 0 .. MaxGods]
    /\ godSeen \in 0 .. MaxGods
    /\ godShakes \in [on : BOOLEAN, timer : BOOLEAN]
    /\ godPast \in [failed : SUBSET GodParts, overlap : BOOLEAN]

\* Readings that have not overlapped were one at a time, and the parts to come are of the
\* project the card names; a part that is not to come is of that project, or has failed.
GodAlone ==
    ~godPast.overlap =>
        /\ \A p, q \in GodReading : p = q
        /\ \A p \in Polls : godPolls[p].parts # {} => godPolls[p].project = godCard["project"]
        /\ \A k \in GodParts \ godPast.failed :
              godCard[k] = godCard["project"] \/ \E p \in Polls : k \in godPolls[p].parts

\* The inductive invariant of the card.
GodInv ==
    /\ GodTypes
    /\ \A p \in Polls : godPolls[p].pc \in {"idle", "asked"} => godPolls[p].parts = {}
    /\ GodAlone
    /\ godShakes.on => godShakes.timer

\* The readings give what the card shows.
LEMMA GodInvAgrees ==
    ASSUME GodInv
    PROVE  GodCardAgrees
<1>1. ASSUME GodReading = {}, ~godPast.overlap, NEW k \in GodParts \ godPast.failed
      PROVE  GodShown(k) = godCard["project"]
  <2>1. \A p \in Polls : godPolls[p].parts = {}
    BY <1>1 DEF GodReading
  <2>2. godCard[k] = godCard["project"]
    BY <1>1, <2>1 DEF GodInv, GodAlone
  <2> QED
    BY <2>2 DEF GodShown
<1> QED
  BY <1>1 DEF GodInv, GodCardAgrees

\* A reading p that goes on as n: what the others hold stays.
LEMMA GodPollSet ==
    ASSUME GodTypes, NEW p \in Polls, NEW n \in GodPoll, godPolls' = [godPolls EXCEPT ![p] = n]
    PROVE  /\ godPolls' \in [Polls -> GodPoll] /\ godPolls'[p] = n
           /\ \A q \in Polls \ {p} : godPolls'[q] = godPolls[q]
           /\ \A q \in Polls : q # p => (q \in GodReading' <=> q \in GodReading)
           /\ p \in GodReading' <=> n.pc = "asked" \/ n.parts # {}
           /\ \A q \in GodReading' : q \in Polls
<1>1. /\ godPolls' \in [Polls -> GodPoll] /\ godPolls'[p] = n
      /\ \A q \in Polls \ {p} : godPolls'[q] = godPolls[q]
  BY DEF GodTypes
<1> QED
  BY <1>1 DEF GodReading

\* The card of the god of wells, step by step.
LEMMA GodStepInv ==
    ASSUME GodInv, [GodNext]_godVars
    PROVE  GodInv'
<1>a. /\ GodTypes /\ GodAlone /\ MaxGods \in Nat /\ MaxGodPolls \in Nat \ {0}
      /\ god \in 0 .. MaxGods /\ godPolls \in [Polls -> GodPoll]
      /\ godCard \in [GodParts \cup {"project"} -> 0 .. MaxGods]
      /\ godShakes \in [on : BOOLEAN, timer : BOOLEAN]
      /\ godPast \in [failed : SUBSET GodParts, overlap : BOOLEAN]
      /\ \A p \in Polls : godPolls[p].pc \in {"idle", "asked"} => godPolls[p].parts = {}
      /\ godShakes.on => godShakes.timer
  BY CardsAssumption DEF GodInv, GodTypes
<1>b. Done \in GodPoll /\ Done.pc = "read" /\ Done.parts = {}
  BY <1>a DEF Done, NoPoll, GodPoll
<1>1. CASE GodChanges
  <2>1. /\ god' \in 0 .. MaxGods
        /\ UNCHANGED <<godPolls, godCard, godSeen, godShakes, godPast>>
    BY <1>1, <1>a DEF GodChanges
  <2>2. GodReading' = GodReading
    BY <2>1 DEF GodReading
  <2> QED
    BY <1>a, <2>1, <2>2 DEF GodInv, GodTypes, GodAlone
<1>2. CASE PollGod
  <2>1. PICK p \in Polls :
          /\ godPolls[p].pc = "idle"
          /\ godPolls' = [godPolls EXCEPT ![p].pc = "asked", ![p].project = god]
    BY <1>2 DEF PollGod
  <2>2. /\ godPast' = [godPast EXCEPT !.overlap = @ \/ GodReading # {}]
        /\ UNCHANGED <<god, godCard, godSeen, godShakes>>
    BY <1>2 DEF PollGod
  <2> DEFINE n == [godPolls[p] EXCEPT !.pc = "asked", !.project = god]
  <2>3. n \in GodPoll /\ n.pc = "asked" /\ n.parts = {} /\ n.parts = godPolls[p].parts
    <3>1. godPolls[p] \in GodPoll /\ godPolls[p].parts = {} /\ god \in 0 .. MaxGods
      BY <1>a, <2>1
    <3> QED
      BY <3>1 DEF GodPoll
  <2>4. godPolls' = [godPolls EXCEPT ![p] = n]
    BY <1>a, <2>1
  <2> HIDE DEF n
  <2>5. /\ godPolls' \in [Polls -> GodPoll] /\ godPolls'[p] = n
        /\ \A q \in Polls \ {p} : godPolls'[q] = godPolls[q]
        /\ \A q \in Polls : q # p => (q \in GodReading' <=> q \in GodReading)
        /\ \A q \in GodReading' : q \in Polls
    BY <1>a, <2>3, <2>4, GodPollSet
  <2>6. /\ godPast' \in [failed : SUBSET GodParts, overlap : BOOLEAN]
        /\ godPast'.failed = godPast.failed
        /\ ~godPast'.overlap => ~godPast.overlap /\ GodReading = {}
    <3>1. (godPast.overlap \/ GodReading # {}) \in BOOLEAN
      OBVIOUS
    <3> QED
      BY <1>a, <2>2, <3>1
  <2>7. \A q \in Polls : godPolls'[q].parts = godPolls[q].parts
    BY <2>3, <2>5
  <2>8. ASSUME ~godPast'.overlap
        PROVE  /\ \A q, s \in GodReading' : q = s
               /\ \A q \in Polls : godPolls'[q].parts # {} =>
                     godPolls'[q].project = godCard'["project"]
               /\ \A k \in GodParts \ godPast'.failed :
                     godCard'[k] = godCard'["project"] \/ \E q \in Polls : k \in godPolls'[q].parts
    <3>1. ~godPast.overlap /\ GodReading = {}
      BY <2>6, <2>8
    <3>2. \A q \in GodReading' : q = p
      BY <2>5, <3>1
    <3>3. \A q \in Polls : godPolls'[q].parts = {}
      BY <2>7, <3>1 DEF GodReading
    <3>4. \A k \in GodParts \ godPast'.failed : godCard'[k] = godCard'["project"]
      BY <1>a, <2>2, <2>6, <2>7, <3>1, <3>3 DEF GodAlone
    <3> QED
      BY <3>2, <3>3, <3>4
  <2>9. GodTypes'
    BY <1>a, <2>2, <2>5, <2>6 DEF GodTypes
  <2>10. \A q \in Polls : godPolls'[q].pc \in {"idle", "asked"} => godPolls'[q].parts = {}
    BY <1>a, <2>3, <2>5
  <2> QED
    BY <1>a, <2>2, <2>8, <2>9, <2>10 DEF GodInv, GodAlone
\* A reading that is over without an answer to show.
<1>c. ASSUME NEW p \in Polls, godPolls[p].pc = "asked", godPolls' = [godPolls EXCEPT ![p] = Done],
             UNCHANGED <<god, godCard, godSeen, godShakes, godPast>>
      PROVE  GodInv'
  <2>1. /\ godPolls' \in [Polls -> GodPoll] /\ godPolls'[p] = Done
        /\ \A q \in Polls \ {p} : godPolls'[q] = godPolls[q]
        /\ GodReading' \subseteq GodReading
    BY <1>a, <1>b, <1>c, GodPollSet
  <2>2. \A q \in Polls : godPolls'[q].parts = godPolls[q].parts
    BY <1>a, <1>b, <1>c, <2>1
  <2>3. GodTypes'
    BY <1>a, <1>c, <2>1 DEF GodTypes
  <2>4. \A q \in Polls : godPolls'[q].pc \in {"idle", "asked"} => godPolls'[q].parts = {}
    BY <1>a, <1>b, <2>1
  <2>5. \A q \in Polls : godPolls'[q].parts # {} => godPolls'[q].project = godPolls[q].project
    BY <1>b, <2>1
  <2>6. GodAlone'
    BY <1>a, <1>c, <2>1, <2>2, <2>5 DEF GodAlone
  <2> QED
    BY <1>a, <1>c, <2>3, <2>4, <2>6 DEF GodInv
<1>3. ASSUME NEW p \in Polls, GodRead(p) PROVE GodInv'
  <2>1. godPolls[p].pc = "asked" /\ UNCHANGED <<god, godPast>>
    BY <1>3 DEF GodRead
  <2>2. PICK g \in godPolls[p].project .. god :
          IF g = 0
          THEN /\ godPolls' = [godPolls EXCEPT ![p] = Done]
               /\ UNCHANGED <<godCard, godSeen, godShakes>>
          ELSE /\ godPolls' = [godPolls EXCEPT ![p] = [pc |-> "read", project |-> g,
                                                       parts |-> GodParts]]
               /\ godCard' = [godCard EXCEPT !["project"] = g]
               /\ godSeen' = IF p = 1 THEN godSeen ELSE g
               /\ godShakes' = IF p = 1 \/ godShakes.on = (g # godSeen) THEN godShakes
                               ELSE [on |-> g # godSeen, timer |-> g # godSeen]
    BY <1>3 DEF GodRead
  <2>3. CASE g = 0
    BY <1>c, <2>1, <2>2, <2>3
  <2>4. CASE g # 0
    <3> DEFINE n == [pc |-> "read", project |-> g, parts |-> GodParts]
    <3>1. g \in 0 .. MaxGods
      <4>1. godPolls[p].project \in 0 .. MaxGods
        BY <1>a DEF GodPoll
      <4> QED
        BY <1>a, <4>1
    <3>2. n \in GodPoll /\ n.pc = "read" /\ n.project = g /\ n.parts = GodParts
      BY <3>1 DEF GodPoll
    <3>3. /\ godPolls' = [godPolls EXCEPT ![p] = n]
          /\ godCard' = [godCard EXCEPT !["project"] = g]
          /\ godSeen' \in {godSeen, g}
      BY <2>2, <2>4
    <3>4. godShakes' = godShakes \/ godShakes' = [on |-> g # godSeen, timer |-> g # godSeen]
      BY <2>2, <2>4
    <3> HIDE DEF n
    <3>5. godShakes' \in [on : BOOLEAN, timer : BOOLEAN] /\ (godShakes'.on => godShakes'.timer)
      <4>1. PICK b \in BOOLEAN : b = (g # godSeen)
        OBVIOUS
      <4>2. godShakes' = godShakes \/ godShakes' = [on |-> b, timer |-> b]
        BY <3>4, <4>1
      <4> QED
        BY <1>a, <4>2
    <3>6. /\ godCard' \in [GodParts \cup {"project"} -> 0 .. MaxGods]
          /\ godCard'["project"] = g
      BY <1>a, <3>1, <3>3 DEF GodParts
    <3>7. /\ godPolls' \in [Polls -> GodPoll] /\ godPolls'[p] = n
          /\ \A q \in Polls \ {p} : godPolls'[q] = godPolls[q]
          /\ \A q \in Polls : q # p => (q \in GodReading' <=> q \in GodReading)
          /\ \A q \in GodReading' : q \in Polls
      BY <1>a, <3>2, <3>3, GodPollSet
    <3>8. GodTypes'
      BY <1>a, <2>1, <3>1, <3>3, <3>5, <3>6, <3>7 DEF GodTypes
    <3>9. \A q \in Polls : godPolls'[q].pc \in {"idle", "asked"} => godPolls'[q].parts = {}
      BY <1>a, <3>2, <3>7
    <3>10. p \in GodReading
      BY <2>1 DEF GodReading
    <3>11. ASSUME ~godPast.overlap
           PROVE  /\ \A q, s \in GodReading' : q = s
                  /\ \A q \in Polls : godPolls'[q].parts # {} => q = p
      <4>1. \A q \in GodReading : q = p
        BY <1>a, <3>10, <3>11 DEF GodAlone
      <4>2. \A q \in GodReading' : q = p
        BY <3>7, <4>1
      <4>3. \A q \in Polls : godPolls'[q].parts # {} => q \in GodReading'
        BY DEF GodReading
      <4> QED
        BY <4>2, <4>3
    <3>12. GodAlone'
      BY <2>1, <3>2, <3>6, <3>7, <3>11 DEF GodAlone
    <3> QED
      BY <3>5, <3>8, <3>9, <3>12 DEF GodInv
  <2> QED
    BY <2>3, <2>4
<1>4. ASSUME NEW p \in Polls, GodReadFails(p) PROVE GodInv'
  BY <1>4, <1>c DEF GodReadFails
<1>5. ASSUME NEW p \in Polls, NEW k \in GodParts, GodPartRead(p, k) PROVE GodInv'
  <2>1. k \in godPolls[p].parts /\ UNCHANGED <<god, godSeen, godShakes>>
    BY <1>5 DEF GodPartRead
  <2>2. godPolls[p].pc = "read"
    BY <1>a, <2>1 DEF GodPoll
  <2>3. PICK n \in GodPoll : /\ godPolls' = [godPolls EXCEPT ![p] = n]
                             /\ n.pc = "read" /\ n.parts = godPolls[p].parts \ {k}
                             /\ n.parts # {} => n.project = godPolls[p].project
    <3>1. CASE godPolls[p].parts = {k}
      <4>1. godPolls' = [godPolls EXCEPT ![p] = Done]
        BY <1>5, <1>a, <3>1 DEF GodPartRead
      <4> QED
        BY <1>b, <3>1, <4>1
    <3>2. CASE godPolls[p].parts # {k}
      <4> DEFINE n == [godPolls[p] EXCEPT !.parts = godPolls[p].parts \ {k}]
      <4>1. godPolls' = [godPolls EXCEPT ![p] = n]
        <5>1. godPolls' = [godPolls EXCEPT ![p] = IF godPolls[p].parts = {k} THEN Done ELSE n]
          BY <1>5 DEF GodPartRead
        <5> QED
          BY <3>2, <5>1
      <4>2. n \in GodPoll /\ n.pc = "read" /\ n.parts = godPolls[p].parts \ {k}
            /\ n.project = godPolls[p].project
        BY <1>a, <2>2 DEF GodPoll
      <4> HIDE DEF n
      <4> QED
        BY <4>1, <4>2
    <3> QED
      BY <3>1, <3>2
  <2>4. \/ /\ godCard' = [godCard EXCEPT ![k] = godPolls[p].project]
           /\ godPast' = [godPast EXCEPT !.failed = @ \ {k}]
        \/ /\ godCard' = godCard
           /\ godPast' = [godPast EXCEPT !.failed = @ \cup {k}]
    BY <1>5 DEF GodPartRead
  <2>5. godPolls[p].project \in 0 .. MaxGods /\ k # "project"
    BY <1>a DEF GodPoll, GodParts
  <2>6. /\ godPast' \in [failed : SUBSET GodParts, overlap : BOOLEAN]
        /\ godPast'.overlap = godPast.overlap
        /\ \A j \in GodParts \ godPast'.failed : j = k \/ j \in GodParts \ godPast.failed
        /\ godCard' \in [GodParts \cup {"project"} -> 0 .. MaxGods]
        /\ godCard'["project"] = godCard["project"]
        /\ \A j \in GodParts \ {k} : godCard'[j] = godCard[j]
        /\ k \notin godPast'.failed => godCard'[k] = godPolls[p].project
    BY <1>a, <2>4, <2>5
  <2>7. /\ godPolls' \in [Polls -> GodPoll] /\ godPolls'[p] = n
        /\ \A q \in Polls \ {p} : godPolls'[q] = godPolls[q]
        /\ GodReading' \subseteq GodReading
    <3>1. /\ godPolls' \in [Polls -> GodPoll] /\ godPolls'[p] = n
          /\ \A q \in Polls \ {p} : godPolls'[q] = godPolls[q]
          /\ \A q \in Polls : q # p => (q \in GodReading' <=> q \in GodReading)
          /\ \A q \in GodReading' : q \in Polls
      BY <1>a, <2>3, GodPollSet
    <3>2. p \in GodReading
      BY <2>1 DEF GodReading
    <3> QED
      BY <3>1, <3>2
  <2>8. GodTypes'
    BY <1>a, <2>1, <2>6, <2>7 DEF GodTypes
  <2>9. \A q \in Polls : godPolls'[q].pc \in {"idle", "asked"} => godPolls'[q].parts = {}
    BY <1>a, <2>3, <2>7
  <2>10. ASSUME ~godPast.overlap
         PROVE  /\ \A q \in Polls : godPolls'[q].parts # {} =>
                     godPolls'[q].project = godCard["project"]
                /\ \A j \in GodParts \ godPast'.failed :
                     godCard'[j] = godCard["project"] \/ \E q \in Polls : j \in godPolls'[q].parts
    <3>1. godPolls[p].project = godCard["project"]
      BY <1>a, <2>1, <2>10 DEF GodAlone
    <3>2. ASSUME NEW q \in Polls, godPolls'[q].parts # {}
          PROVE  godPolls'[q].project = godCard["project"]
      BY <1>a, <2>3, <2>7, <2>10, <3>1, <3>2 DEF GodAlone
    <3>3. ASSUME NEW j \in GodParts \ godPast'.failed, j # k
          PROVE  godCard'[j] = godCard["project"] \/ \E q \in Polls : j \in godPolls'[q].parts
      <4>1. godCard[j] = godCard["project"] \/ \E q \in Polls : j \in godPolls[q].parts
        BY <1>a, <2>6, <2>10, <3>3 DEF GodAlone
      <4>2. ASSUME NEW q \in Polls, j \in godPolls[q].parts PROVE j \in godPolls'[q].parts
        BY <2>3, <2>7, <3>3, <4>2
      <4> QED
        BY <2>6, <3>3, <4>1, <4>2
    <3> QED
      BY <2>6, <3>1, <3>2, <3>3
  <2>11. GodAlone'
    BY <1>a, <2>6, <2>7, <2>10 DEF GodAlone
  <2> QED
    BY <1>a, <2>1, <2>8, <2>9, <2>11 DEF GodInv
<1>6. CASE GodShakeStops
  <2>1. /\ godShakes' \in [on : BOOLEAN, timer : BOOLEAN] /\ ~godShakes'.on
        /\ UNCHANGED <<god, godPolls, godCard, godSeen, godPast>>
    BY <1>6 DEF GodShakeStops
  <2>2. GodReading' = GodReading
    BY <2>1 DEF GodReading
  <2> QED
    BY <1>a, <2>1, <2>2 DEF GodInv, GodTypes, GodAlone
<1>7. CASE UNCHANGED godVars
  <2>1. GodReading' = GodReading
    BY <1>7 DEF godVars, GodReading
  <2> QED
    BY <1>7, <2>1 DEF godVars, GodInv, GodTypes, GodAlone
<1> QED
  BY <1>1, <1>2, <1>3, <1>4, <1>5, <1>6, <1>7 DEF GodNext

\* The first reading is asked for.
LEMMA GodInitInv ==
    ASSUME GodInit
    PROVE  GodInv
<1>1. MaxGods \in Nat /\ MaxGodPolls \in Nat \ {0} /\ god \in 0 .. MaxGods
  BY CardsAssumption DEF GodInit
<1>2. NoPoll \in GodPoll /\ NoPoll.parts = {} /\ NoPoll.pc = "idle"
      /\ [NoPoll EXCEPT !.pc = "asked", !.project = god] \in GodPoll
      /\ [NoPoll EXCEPT !.pc = "asked", !.project = god].parts = {}
  <2>1. NoPoll \in GodPoll /\ NoPoll.parts = {} /\ NoPoll.pc = "idle"
    BY <1>1 DEF NoPoll, GodPoll
  <2>2. [NoPoll EXCEPT !.pc = "asked", !.project = god] \in GodPoll
        /\ [NoPoll EXCEPT !.pc = "asked", !.project = god].parts = NoPoll.parts
    BY <1>1, <2>1 DEF GodPoll
  <2> QED
    BY <2>1, <2>2
<1>3. \A p \in Polls : godPolls[p] = IF p = 1 THEN [NoPoll EXCEPT !.pc = "asked", !.project = god]
                                     ELSE NoPoll
  BY DEF GodInit
<1>4. godPolls \in [Polls -> GodPoll]
  BY <1>2 DEF GodInit
<1>5. \A p \in Polls : godPolls[p].parts = {} /\ (p # 1 => godPolls[p].pc = "idle")
  BY <1>2, <1>3
<1>6. \A p \in GodReading : p = 1
  BY <1>5 DEF GodReading
<1>7. /\ godCard \in [GodParts \cup {"project"} -> 0 .. MaxGods]
      /\ \A k \in GodParts \cup {"project"} : godCard[k] = 0
  BY <1>1 DEF GodInit
<1>8. GodTypes
  BY <1>1, <1>4, <1>7 DEF GodInit, GodTypes
<1>9. GodAlone
  BY <1>5, <1>6, <1>7 DEF GodAlone
<1> QED
  BY <1>5, <1>8, <1>9 DEF GodInit, GodInv

-----------------------------------------------------------------------------
(* The rows of the board (BoardCards). *)

\* The values of what the rows of the board are made of.
RowTypes ==
    /\ rowList \in 0 .. MaxChains
    /\ rowChains \in [Chains -> Chain]
    /\ rowNames \in [named : SUBSET Users, low : SUBSET Rows, replied : SUBSET Rows,
                     of : 0 .. MaxChains]
    /\ rowPast \in [overlap : BOOLEAN, unnamed : SUBSET Users, unreplied : SUBSET Rows]

\* Chain n has the replies of a row and the name of its creator, unless rp tells that their
\* last reading failed.
GotOrFailed(n, row, rp) ==
    /\ row \in n.replied <=> row \notin rp.unreplied
    /\ Creator[row] \in n.named <=> Creator[row] \notin rp.unnamed

\* What chain c has read is what the rows show, as far as it has come.
ChainShown(c) ==
    /\ \A i \in 1 .. 2 :
          i < rowChains[c].at => GotOrFailed(rowChains[c], rowChains[c].list[i], rowPast)
    /\ rowChains[c].at > 1 => rowNames.replied = rowChains[c].replied
    /\ rowChains[c].pc = "over" =>
          /\ rowChains[c].at = 3
          /\ rowNames.named = rowChains[c].named /\ rowNames.low = rowChains[c].low

\* Chains that have not overlapped were one at a time, the last one that of the list shown.
RowInv ==
    /\ RowTypes
    /\ rowList # 0 => rowChains[rowList].pc # "idle"
    /\ ~rowPast.overlap =>
          /\ \A c \in Chains : rowChains[c].pc = "on" => c = rowList
          /\ rowList # 0 => ChainShown(rowList)

\* When no chain is running, the last one has shown its rows.
LEMMA RowInvAgrees ==
    ASSUME RowInv
    PROVE  RowsAgree
<1>1. ASSUME ChainsOn = {}, rowList # 0, ~rowPast.overlap, NEW i \in 1 .. 2
      PROVE  LET row == rowChains[rowList].list[i]
             IN  /\ RowShown(row).named <=> Creator[row] \notin rowPast.unnamed
                 /\ RowShown(row).replied <=> row \notin rowPast.unreplied
                 /\ RowShown(row).low <=> row \in rowChains[rowList].low
  <2>1. rowList \in Chains /\ rowChains[rowList].pc # "on" /\ rowChains[rowList] \in Chain
    BY <1>1, CardsAssumption DEF RowInv, RowTypes, Chains, ChainsOn
  <2>2. rowChains[rowList].pc = "over"
    BY <1>1, <2>1 DEF RowInv, Chain
  <2>3. /\ rowChains[rowList].at = 3 /\ rowNames.replied = rowChains[rowList].replied
        /\ rowNames.named = rowChains[rowList].named /\ rowNames.low = rowChains[rowList].low
        /\ GotOrFailed(rowChains[rowList], rowChains[rowList].list[i], rowPast)
    BY <1>1, <2>2 DEF RowInv, ChainShown
  <2> QED
    BY <2>3 DEF RowShown, GotOrFailed
<1> QED
  BY <1>1 DEF RowsAgree

\* A chain that has not started.
LEMMA NoChainType ==
    /\ NoChain \in Chain /\ NoChain.pc = "idle" /\ NoChain.at = 1
    /\ \A l \in Lists : LET n == [NoChain EXCEPT !.pc = "on", !.list = l]
                        IN  n \in Chain /\ n.pc = "on" /\ n.at = 1
<1>1. (CHOOSE l \in Lists : TRUE) \in Rows \X Rows /\ \A l \in Lists : l \in Rows \X Rows
  BY CardsAssumption
<1>2. NoChain \in Chain /\ NoChain.pc = "idle" /\ NoChain.at = 1
  BY <1>1 DEF NoChain, Chain
<1> QED
  BY <1>1, <1>2 DEF Chain

\* The rows of the board, step by step.
LEMMA RowStepInv ==
    ASSUME RowInv, [RowsNext]_rowVars
    PROVE  RowInv'
<1>a. /\ RowTypes /\ MaxChains \in Nat \ {0}
      /\ rowList \in 0 .. MaxChains /\ rowChains \in [Chains -> Chain]
      /\ rowNames \in [named : SUBSET Users, low : SUBSET Rows, replied : SUBSET Rows,
                       of : 0 .. MaxChains]
      /\ rowPast \in [overlap : BOOLEAN, unnamed : SUBSET Users, unreplied : SUBSET Rows]
      /\ rowList # 0 => rowList \in Chains /\ rowChains[rowList].pc # "idle"
  BY CardsAssumption DEF RowInv, RowTypes, Chains
<1>1. CASE ListAnswered
  <2>1. PICK c \in Chains, l \in Lists :
          /\ rowChains[c].pc = "idle"
          /\ rowChains' = [rowChains EXCEPT ![c] = [NoChain EXCEPT !.pc = "on", !.list = l]]
          /\ rowList' = c
    BY <1>1 DEF ListAnswered
  <2>2. /\ rowPast' = [overlap |-> rowPast.overlap \/ ChainsOn # {}, unnamed |-> {},
                      unreplied |-> {}]
        /\ UNCHANGED rowNames
    BY <1>1 DEF ListAnswered
  <2>3. PICK n \in Chain : /\ rowChains' = [rowChains EXCEPT ![c] = n]
                           /\ n.pc = "on" /\ n.at = 1
    BY <2>1, NoChainType
  <2>4. /\ rowChains' \in [Chains -> Chain] /\ rowChains'[c] = n
        /\ \A d \in Chains \ {c} : rowChains'[d] = rowChains[d]
    BY <1>a, <2>3
  <2>5. PICK b \in BOOLEAN : b <=> (rowPast.overlap \/ ChainsOn # {})
    BY <1>a
  <2>6. /\ rowPast' \in [overlap : BOOLEAN, unnamed : SUBSET Users, unreplied : SUBSET Rows]
        /\ ~rowPast'.overlap => ChainsOn = {}
    <3>1. rowPast' = [overlap |-> b, unnamed |-> {}, unreplied |-> {}]
      BY <1>a, <2>2, <2>5
    <3> QED
      BY <2>5, <3>1
  <2>7. RowTypes'
    <3>1. rowList' \in 0 .. MaxChains
      BY <1>a, <2>1 DEF Chains
    <3> QED
      BY <1>a, <2>2, <2>4, <2>6, <3>1 DEF RowTypes
  <2>8. ASSUME ~rowPast'.overlap
        PROVE  \A d \in Chains : rowChains'[d].pc = "on" => d = rowList'
    <3>1. \A d \in Chains : rowChains[d].pc # "on"
      BY <2>6, <2>8 DEF ChainsOn
    <3> QED
      BY <2>1, <2>4, <3>1
  <2>9. ChainShown(c)'
    <3>1. rowChains'[c].at = 1 /\ rowChains'[c].pc = "on"
      BY <2>3, <2>4
    <3> QED
      BY <3>1 DEF ChainShown
  <2>10. (rowList # 0 => ChainShown(rowList))'
    BY <2>1, <2>9 DEF ChainShown
  <2> QED
    BY <2>1, <2>3, <2>4, <2>7, <2>8, <2>10 DEF RowInv
<1>2. ASSUME NEW c \in Chains, RowRead(c) PROVE RowInv'
  <2> DEFINE begun == rowChains[c]
             row == begun.list[begun.at]
             user == Creator[row]
  <2>1. begun.pc = "on" /\ begun.at <= 2 /\ UNCHANGED rowList
    BY <1>2 DEF RowRead
  <2>2. PICK named \in BOOLEAN, replied \in BOOLEAN, low \in BOOLEAN :
              /\ rowChains' = [rowChains EXCEPT ![c] =
                     [begun EXCEPT !.at = @ + 1, !.named = Having(@, user, named),
                                   !.low = Having(@, row, low),
                                   !.replied = Having(@, row, replied)]]
              /\ rowPast' = [rowPast EXCEPT !.unnamed = Having(@, user, ~named),
                                            !.unreplied = Having(@, row, ~replied)]
              /\ rowNames' = [rowNames EXCEPT !.replied = Having(begun.replied, row, replied)]
    BY <1>2 DEF RowRead
  <2>3. begun \in Chain /\ begun.at \in {1, 2} /\ row \in Rows /\ user \in Users
    <3>1. begun \in Chain
      BY <1>a
    <3>2. begun.at \in 1 .. 3 /\ begun.list \in Rows \X Rows
      BY <3>1 DEF Chain
    <3> QED
      BY <2>1, <3>1, <3>2, CardsAssumption
  <2> DEFINE ns == Having(begun.named, user, named)
             rs == Having(begun.replied, row, replied)
             ls == Having(begun.low, row, low)
             n == [begun EXCEPT !.at = begun.at + 1, !.named = ns, !.low = ls, !.replied = rs]
  <2>a. ns \subseteq Users /\ rs \subseteq Rows /\ ls \subseteq Rows
    BY <2>3 DEF Chain, Having
  <2>4. rowChains' = [rowChains EXCEPT ![c] = n]
    BY <2>2
  <2>5. /\ n \in Chain /\ n.pc = "on" /\ n.at = begun.at + 1 /\ n.list = begun.list
        /\ n.named = ns /\ n.replied = rs
    <3>1. begun.at + 1 \in 1 .. 3
      BY <2>3
    <3> HIDE DEF ns, ls, rs
    <3> QED
      BY <2>1, <2>3, <2>a, <3>1 DEF Chain
  <2>b. /\ rowPast.unnamed \in SUBSET Users /\ rowPast.unreplied \in SUBSET Rows
        /\ rowPast.overlap \in BOOLEAN
    BY <1>a
  <2>6. /\ rowPast' \in [overlap : BOOLEAN, unnamed : SUBSET Users, unreplied : SUBSET Rows]
        /\ rowPast'.overlap = rowPast.overlap
        /\ rowPast'.unnamed = Having(rowPast.unnamed, user, ~named)
        /\ rowPast'.unreplied = Having(rowPast.unreplied, row, ~replied)
    <3> DEFINE un == Having(rowPast.unnamed, user, ~named)
               ur == Having(rowPast.unreplied, row, ~replied)
    <3>a. un \in SUBSET Users
      BY <2>3, <2>b DEF Having
    <3>b. ur \in SUBSET Rows
      BY <2>3, <2>b DEF Having
    <3>1. un \subseteq Users /\ ur \subseteq Rows
      BY <3>a, <3>b
    <3>2. rowPast' = [rowPast EXCEPT !.unnamed = un, !.unreplied = ur]
      BY <2>2
    <3> HIDE DEF un, ur
    <3>3. /\ rowPast' \in [overlap : BOOLEAN, unnamed : SUBSET Users, unreplied : SUBSET Rows]
          /\ rowPast'.overlap = rowPast.overlap
          /\ rowPast'.unnamed = un /\ rowPast'.unreplied = ur
      BY <1>a, <3>1, <3>2
    <3> QED
      BY <3>3 DEF un, ur
  <2>7. /\ rowNames' \in [named : SUBSET Users, low : SUBSET Rows, replied : SUBSET Rows,
                          of : 0 .. MaxChains]
        /\ rowNames'.replied = rs
    <3>1. rowNames' = [rowNames EXCEPT !.replied = rs]
      BY <2>2
    <3> HIDE DEF rs
    <3> QED
      BY <1>a, <2>a, <3>1
  <2>c. ASSUME NEW other \in Rows, other = row \/ GotOrFailed(begun, other, rowPast)
        PROVE  GotOrFailed(n, other, rowPast')
    <3> HIDE DEF n, row
    <3>0. begun.named \in SUBSET Users /\ begun.replied \in SUBSET Rows
      BY <2>3 DEF Chain
    <3> HIDE DEF begun, user
    <3>a. \A y : y \in rs <=> (IF y = row THEN replied ELSE y \in begun.replied)
      BY <2>3, <3>0 DEF Having
    <3>b. \A y : y \in ns <=> (IF y = user THEN named ELSE y \in begun.named)
      BY <2>3, <3>0 DEF Having
    <3>c. \A y : y \in rowPast'.unreplied <=>
                      (IF y = row THEN ~replied ELSE y \in rowPast.unreplied)
      BY <2>3, <2>6, <2>b DEF Having
    <3>d. \A y : y \in rowPast'.unnamed <=>
                      (IF y = user THEN ~named ELSE y \in rowPast.unnamed)
      BY <2>3, <2>6, <2>b DEF Having
    <3> DEFINE maker == Creator[other]
    <3>1. /\ other \in rs <=> (IF other = row THEN replied ELSE other \in begun.replied)
          /\ maker \in ns <=> (IF maker = user THEN named ELSE maker \in begun.named)
      BY <3>a, <3>b
    <3>2. /\ other \in rowPast'.unreplied <=>
                (IF other = row THEN ~replied ELSE other \in rowPast.unreplied)
          /\ maker \in rowPast'.unnamed <=>
                (IF maker = user THEN ~named ELSE maker \in rowPast.unnamed)
      BY <3>c, <3>d
    <3>e. other = row => maker = user
      BY DEF user
    <3>3. n.named = ns /\ n.replied = rs
      BY <2>5
    <3> HIDE DEF ns, rs, begun
    <3>4. CASE other = row
      BY <3>1, <3>2, <3>3, <3>4, <3>e DEF GotOrFailed
    <3>5. CASE other # row /\ Creator[other] = user
      BY <2>c, <3>1, <3>2, <3>3, <3>5 DEF GotOrFailed
    <3>6. CASE other # row /\ Creator[other] # user
      BY <2>c, <3>1, <3>2, <3>3, <3>6 DEF GotOrFailed
    <3> QED
      BY <3>4, <3>5, <3>6
  <2> HIDE DEF n, ns, rs
  <2>8. /\ rowChains' \in [Chains -> Chain] /\ rowChains'[c] = n
        /\ \A d \in Chains \ {c} : rowChains'[d] = rowChains[d]
    BY <1>a, <2>4, <2>5
  <2>9. RowTypes'
    BY <1>a, <2>1, <2>6, <2>7, <2>8 DEF RowTypes
  <2>10. rowList' # 0 => rowChains'[rowList'].pc # "idle"
    BY <1>a, <2>1, <2>5, <2>8
  <2>11. ASSUME ~rowPast.overlap
         PROVE  /\ \A d \in Chains : rowChains'[d].pc = "on" => d = rowList
                /\ c = rowList
    BY <1>2, <2>1, <2>8, <2>11 DEF RowInv
  <2>12. ASSUME ~rowPast.overlap
         PROVE  ChainShown(c)'
    <3>1. ChainShown(c) /\ c # 0
      BY <2>11, <2>12, <1>a DEF RowInv, Chains
    <3>2. ASSUME NEW i \in 1 .. 2, i < n.at
          PROVE  GotOrFailed(n, n.list[i], rowPast')
      <4>1. n.list[i] = begun.list[i] /\ begun.list[i] \in Rows
        BY <2>3, <2>5 DEF Chain
      <4>2. i # begun.at => i < begun.at
        BY <2>3, <2>5, <3>2
      <4>3. begun.list[i] = row \/ GotOrFailed(begun, begun.list[i], rowPast)
        BY <3>1, <4>2 DEF ChainShown
      <4>4. GotOrFailed(n, begun.list[i], rowPast')
        BY <2>c, <4>1, <4>3
      <4> QED
        BY <4>1, <4>4
    <3>3. rowNames'.replied = n.replied /\ n.pc = "on"
      BY <2>5, <2>7
    <3> QED
      BY <2>8, <3>2, <3>3 DEF ChainShown
  <2>13. ASSUME ~rowPast'.overlap, rowList' # 0
         PROVE  ChainShown(rowList)'
    BY <2>1, <2>6, <2>11, <2>12, <2>13 DEF ChainShown
  <2> QED
    BY <2>1, <2>6, <2>9, <2>10, <2>11, <2>13 DEF RowInv
<1>3. ASSUME NEW c \in Chains, ChainEnds(c) PROVE RowInv'
  <2>1. /\ rowChains[c].pc = "on" /\ rowChains[c].at = 3
        /\ rowChains' = [rowChains EXCEPT ![c].pc = "over"]
        /\ rowNames' = [rowNames EXCEPT !.named = rowChains[c].named, !.low = rowChains[c].low,
                                        !.of = c]
        /\ UNCHANGED <<rowList, rowPast>>
    BY <1>3 DEF ChainEnds
  <2> DEFINE n == [rowChains[c] EXCEPT !.pc = "over"]
  <2>2. rowChains[c] \in Chain /\ rowChains' = [rowChains EXCEPT ![c] = n]
    BY <1>a, <2>1
  <2>3. /\ n \in Chain /\ n.pc = "over" /\ n.at = 3 /\ n.list = rowChains[c].list
        /\ n.named = rowChains[c].named /\ n.replied = rowChains[c].replied
        /\ n.low = rowChains[c].low
    BY <2>1, <2>2 DEF Chain
  <2> HIDE DEF n
  <2>4. /\ rowChains' \in [Chains -> Chain] /\ rowChains'[c] = n
        /\ \A d \in Chains \ {c} : rowChains'[d] = rowChains[d]
    BY <1>a, <2>2, <2>3
  <2>5. /\ rowNames' \in [named : SUBSET Users, low : SUBSET Rows, replied : SUBSET Rows,
                          of : 0 .. MaxChains]
        /\ rowNames'.named = n.named /\ rowNames'.low = n.low
        /\ rowNames'.replied = rowNames.replied
    <3>1. rowChains[c].named \in SUBSET Users /\ rowChains[c].low \in SUBSET Rows
      BY <2>2 DEF Chain
    <3>2. c \in 0 .. MaxChains
      BY <1>a DEF Chains
    <3> QED
      BY <1>a, <2>1, <2>3, <3>1, <3>2
  <2>6. RowTypes'
    BY <1>a, <2>1, <2>4, <2>5 DEF RowTypes
  <2>7. rowList' # 0 => rowChains'[rowList'].pc # "idle"
    BY <1>a, <2>1, <2>3, <2>4
  <2>8. ASSUME ~rowPast.overlap
        PROVE  /\ \A d \in Chains : rowChains'[d].pc = "on" => d = rowList
               /\ ChainShown(rowList)'
    <3>1. c = rowList /\ c # 0 /\ ChainShown(c)
      BY <1>a, <2>1, <2>8 DEF RowInv, Chains
    <3>2. \A d \in Chains : rowChains'[d].pc = "on" => d = rowList
      BY <1>a, <2>3, <2>4, <2>8 DEF RowInv
    <3>3. /\ \A i \in 1 .. 2 : i < n.at => GotOrFailed(n, n.list[i], rowPast')
          /\ rowNames'.replied = n.replied
      BY <2>1, <2>3, <2>5, <3>1 DEF ChainShown, GotOrFailed
    <3> QED
      BY <2>1, <2>3, <2>4, <2>5, <3>1, <3>2, <3>3 DEF ChainShown
  <2>9. (rowList # 0 => ChainShown(rowList))' \/ rowPast'.overlap
    BY <2>1, <2>8 DEF ChainShown
  <2> QED
    BY <2>1, <2>6, <2>7, <2>8, <2>9 DEF RowInv
<1>4. CASE UNCHANGED rowVars
  <2>1. ChainShown(rowList)' <=> ChainShown(rowList)
    BY <1>4 DEF rowVars, ChainShown
  <2> QED
    BY <1>a, <1>4, <2>1 DEF rowVars, RowInv, RowTypes
<1> QED
  BY <1>1, <1>2, <1>3, <1>4 DEF RowsNext

\* No list is shown at first.
LEMMA RowInitInv ==
    ASSUME RowsInit
    PROVE  RowInv
<1>1. rowChains \in [Chains -> Chain] /\ \A c \in Chains : rowChains[c].pc = "idle"
  BY NoChainType DEF RowsInit
<1>2. RowTypes
  BY <1>1, CardsAssumption DEF RowsInit, RowTypes
<1> QED
  BY <1>1, <1>2 DEF RowsInit, RowInv

-----------------------------------------------------------------------------
(* The coins on the page of a user (UserPage). *)

\* The readings of the coins start in order and one at a time, and each turns the page at most
\* once; the page loads from the first on while one is asked for, and for good only after a
\* call was rejected.
CoinsInOrder ==
    /\ \A r, q \in CoinReads : q < r /\ coinReads[q].pc = "idle" => coinReads[r].pc = "idle"
    /\ \A r, q \in Asked : r = q
    /\ \A r \in CoinReads : coinReads[r].pc \in {"idle", "asked"} => coinPaging.page <= r
    /\ coinProfile = "asked" => coinPaging.loading /\ Asked = {}
    /\ Asked # {} => coinPaging.loading
    /\ coinPaging.loading => Asked # {} \/ coinProfile = "asked" \/ coinFaults > 0

\* Coins shown were created, and a chain that runs alone has just the coins shown; when none
\* runs and none has thrown, those have their replies, and the name its last reading gave.
CoinsNamed ==
    /\ coinItems \subseteq coinMade
    /\ \A r \in CoinReads : coinReads[r].got \subseteq coinItems
    /\ ~coinOverlap =>
           /\ \A r, q \in CoinReads : coinReads[r].pc = "names" /\ coinReads[q].pc = "names" => r = q
           /\ \A r \in CoinReads : coinReads[r].pc = "names" =>
                  coinReads[r].got = coinItems /\ (coinReads[r].named <=> ~coinUnnamed)
           /\ (\A r \in CoinReads : coinReads[r].pc \notin {"names", "thrown"}) =>
                  coinNames.replied = coinItems /\ (coinNames.named <=> ~coinUnnamed)

\* The inductive invariant of the coins of a user.
CoinInv == UserPageTypes /\ coinFaults \in Nat /\ CoinsInOrder /\ CoinsNamed

\* The order of the readings and the coins of the chains give the property.
LEMMA CoinInvAgrees ==
    ASSUME CoinInv
    PROVE  UserPageAgrees
<1>1. ASSUME \A r \in CoinReads : coinReads[r].pc \in {"idle", "over"}, ~coinOverlap,
             NEW c \in Coins
      PROVE  /\ CoinCard(c).shown <=> CoinCard(c).replied
             /\ CoinCard(c).shown => (CoinCard(c).named <=> ~coinUnnamed)
  <2>1. coinNames.replied = coinItems /\ (coinNames.named <=> ~coinUnnamed)
    BY <1>1 DEF CoinInv, CoinsNamed
  <2> QED
    BY <2>1 DEF CoinCard
<1>2. UserPageTypes /\ CoinsInOrder /\ \A r \in CoinReads : coinReads[r].got \subseteq coinItems
  BY DEF CoinInv, CoinsNamed
<1>3. (\A r \in CoinReads : coinReads[r].pc \in {"idle", "over"}) /\ ~coinOverlap =>
          \A c \in Coins : /\ CoinCard(c).shown <=> CoinCard(c).replied
                           /\ CoinCard(c).shown => (CoinCard(c).named <=> ~coinUnnamed)
  BY <1>1
<1>4. /\ \A r, q \in Asked : r = q
      /\ coinPaging.loading => Asked # {} \/ coinProfile = "asked" \/ coinFaults > 0
  BY <1>2 DEF CoinsInOrder
<1> QED
  BY <1>2, <1>3, <1>4, Zenon DEF UserPageAgrees

\* A reading that is asked for.
LEMMA CoinsAsked ==
    ASSUME CoinInv, AsksCoins, Asked = {},
           coinPaging' \in [page : 1 .. (MaxReadCoins + 1), loading : BOOLEAN],
           coinPaging'.loading, coinPaging'.page = coinPaging.page,
           coinProfile' \in {"shown", "failed"},
           UNCHANGED <<coinMade, coinItems, coinNames, coinFaults, coinOverlap, coinUnnamed>>
    PROVE  CoinInv'
<1>1. PICK r \in CoinReads : /\ coinReads[r].pc = "idle"
                             /\ \A q \in 1 .. (r - 1) : coinReads[q].pc # "idle"
                             /\ coinReads' = [coinReads EXCEPT ![r].pc = "asked"]
  BY DEF AsksCoins
<1>2. /\ coinReads \in [CoinReads -> CoinRead] /\ MaxReadCoins \in Nat
      /\ coinPaging \in [page : 1 .. (MaxReadCoins + 1), loading : BOOLEAN]
  BY UserPageAssumption DEF CoinInv, UserPageTypes
<1>3. /\ coinReads' \in [CoinReads -> CoinRead]
      /\ coinReads'[r].pc = "asked" /\ coinReads'[r].got = coinReads[r].got
      /\ \A q \in CoinReads \ {r} : coinReads'[q] = coinReads[q]
  BY <1>1, <1>2 DEF CoinRead
<1>4. Asked' = {r}
  BY <1>3 DEF Asked
<1>5. UserPageTypes'
  BY <1>2, <1>3 DEF CoinInv, UserPageTypes
<1>6. CoinsInOrder'
  <2>1. ASSUME NEW s \in CoinReads, NEW q \in CoinReads, q < s, coinReads'[q].pc = "idle"
        PROVE  coinReads'[s].pc = "idle"
    <3>1. q # r /\ coinReads[q].pc = "idle" /\ q \in Int /\ s \in Int /\ r \in Int
      BY <1>2, <1>3, <2>1 DEF CoinReads
    <3>2. s # r
      BY <1>1, <2>1, <3>1 DEF CoinReads
    <3> QED
      BY <1>3, <2>1, <3>1, <3>2 DEF CoinInv, CoinsInOrder
  <2>2. ASSUME NEW s \in CoinReads, coinReads'[s].pc \in {"idle", "asked"}
        PROVE  coinPaging'.page <= s
    BY <1>1, <1>3, <2>2 DEF CoinInv, CoinsInOrder
  <2> QED
    BY <1>4, <2>1, <2>2 DEF CoinsInOrder
<1>7. CoinsNamed'
  BY <1>1, <1>3 DEF CoinInv, CoinsNamed
<1> QED
  BY <1>5, <1>6, <1>7 DEF CoinInv

\* The page of a user, step by step.
LEMMA CoinStepInv ==
    ASSUME CoinInv, [UserPageNext]_coinVars
    PROVE  CoinInv'
<1>a. /\ coinReads \in [CoinReads -> CoinRead] /\ MaxReadCoins \in Nat
      /\ coinPaging \in [page : 1 .. (MaxReadCoins + 1), loading : BOOLEAN]
      /\ coinMade \subseteq Coins /\ coinItems \subseteq Coins
      /\ coinNames \in [named : BOOLEAN, replied : SUBSET Coins]
      /\ coinUnnamed \in BOOLEAN /\ coinOverlap \in BOOLEAN /\ coinFaults \in Nat
      /\ UserPageTypes /\ CoinsInOrder /\ CoinsNamed
  BY UserPageAssumption DEF CoinInv, UserPageTypes
<1>b. CoinFault => coinFaults' \in Nat /\ coinFaults' > 0
  BY <1>a DEF CoinFault
<1>1. CASE ProfileShown
  <2>1. /\ coinProfile = "asked" /\ coinProfile' = "shown" /\ AsksCoins
        /\ UNCHANGED <<coinMade, coinItems, coinPaging, coinNames, coinFaults, coinOverlap, coinUnnamed>>
    BY <1>1 DEF ProfileShown
  <2>2. Asked = {} /\ coinPaging.loading
    BY <1>a, <2>1 DEF CoinsInOrder
  <2>3. coinPaging' \in [page : 1 .. (MaxReadCoins + 1), loading : BOOLEAN]
    BY <1>a, <2>1
  <2> QED
    BY <2>1, <2>2, <2>3, CoinsAsked
<1>2. CASE ProfileMissing
  <2>1. /\ CoinFault /\ coinProfile' = "failed"
        /\ UNCHANGED <<coinMade, coinItems, coinPaging, coinReads, coinNames, coinOverlap, coinUnnamed>>
    BY <1>2 DEF ProfileMissing
  <2>2. Asked' = Asked
    BY <2>1 DEF Asked
  <2> QED
    BY <1>a, <1>b, <2>1, <2>2 DEF CoinInv, UserPageTypes, CoinsInOrder, CoinsNamed
<1>3. CASE CoinCreated
  <2>1. PICK c \in Coins \ coinMade : coinMade' = coinMade \cup {c}
    BY <1>3 DEF CoinCreated
  <2>2. UNCHANGED <<coinProfile, coinItems, coinPaging, coinReads, coinNames, coinFaults,
                    coinOverlap, coinUnnamed>>
    BY <1>3 DEF CoinCreated
  <2>3. Asked' = Asked
    BY <2>2 DEF Asked
  <2> QED
    BY <1>a, <2>1, <2>2, <2>3 DEF CoinInv, UserPageTypes, CoinsInOrder, CoinsNamed
<1>4. CASE ScrollCoins
  <2>1. /\ ~coinPaging.loading /\ AsksCoins
        /\ coinPaging' = [coinPaging EXCEPT !.loading = TRUE]
        /\ UNCHANGED <<coinProfile, coinMade, coinItems, coinNames, coinFaults, coinOverlap, coinUnnamed>>
    BY <1>4 DEF ScrollCoins
  <2>2. Asked = {} /\ coinProfile \in {"shown", "failed"}
    BY <1>a, <2>1 DEF CoinsInOrder, UserPageTypes
  <2>3. /\ coinPaging' \in [page : 1 .. (MaxReadCoins + 1), loading : BOOLEAN]
        /\ coinPaging'.loading /\ coinPaging'.page = coinPaging.page
    BY <1>a, <2>1
  <2> QED
    BY <2>1, <2>2, <2>3, CoinsAsked

<1>5. ASSUME NEW r \in CoinReads, CoinsRead(r) PROVE CoinInv'
  <2>1. coinReads[r].pc = "asked" /\ r \in 1 .. MaxReadCoins
        /\ UNCHANGED <<coinProfile, coinMade, coinNames, coinFaults>>
    BY <1>5 DEF CoinsRead, CoinReads
  <2>2. /\ r \in Asked /\ coinPaging.page <= r /\ coinProfile # "asked"
        /\ \A q \in CoinReads : coinReads[q].pc = "asked" => q = r
    BY <1>a, <2>1 DEF CoinsInOrder, Asked
  <2>3. PICK n \in CoinRead, p \in 1 .. (MaxReadCoins + 1) :
            /\ coinReads' = [coinReads EXCEPT ![r] = n]
            /\ n.pc \in {"over", "names"}
            /\ coinPaging' = [page |-> p, loading |-> FALSE]
            /\ p = coinPaging.page \/ p = coinPaging.page + 1
            /\ \/ /\ coinMade = {} /\ n.pc = "over" /\ n.got = coinReads[r].got
                  /\ UNCHANGED <<coinItems, coinOverlap, coinUnnamed>>
               \/ /\ n.pc = "names" /\ n.got = coinMade
                  /\ n.named = FALSE /\ coinUnnamed' = TRUE
                  /\ coinItems' = coinItems \cup coinMade
                  /\ coinOverlap' = (coinOverlap \/ \E q \in CoinReads : coinReads[q].pc = "names")
    <3>1. CASE coinMade = {}
      <4>1. [coinReads[r] EXCEPT !.pc = "over"] \in CoinRead
            /\ [coinReads[r] EXCEPT !.pc = "over"].got = coinReads[r].got
            /\ [coinReads[r] EXCEPT !.pc = "over"].pc = "over"
        BY <1>a DEF CoinRead
      <4>2. coinReads' = [coinReads EXCEPT ![r] = [coinReads[r] EXCEPT !.pc = "over"]]
            /\ coinPaging' = [coinPaging EXCEPT !.loading = FALSE]
            /\ UNCHANGED <<coinItems, coinOverlap, coinUnnamed>>
        BY <1>5, <1>a, <3>1 DEF CoinsRead
      <4>3. coinPaging' = [page |-> coinPaging.page, loading |-> FALSE]
            /\ coinPaging.page \in 1 .. (MaxReadCoins + 1)
        BY <1>a, <4>2
      <4> QED
        BY <3>1, <4>1, <4>2, <4>3
    <3>2. CASE coinMade # {}
      <4> DEFINE n == [pc |-> "names", got |-> coinMade, left |-> coinMade, named |-> FALSE]
      <4>1. n \in CoinRead /\ n.pc = "names" /\ n.got = coinMade /\ n.named = FALSE
        BY <1>a DEF CoinRead
      <4>2. /\ coinReads' = [coinReads EXCEPT ![r] = n]
            /\ coinPaging' = [page |-> coinPaging.page + 1, loading |-> FALSE]
            /\ coinItems' = coinItems \cup coinMade
            /\ coinOverlap' = (coinOverlap \/ \E q \in CoinReads : coinReads[q].pc = "names")
            /\ coinUnnamed' = TRUE
        BY <1>5, <3>2 DEF CoinsRead
      <4>3. coinPaging.page + 1 \in 1 .. (MaxReadCoins + 1)
        BY <1>a, <2>1, <2>2
      <4> HIDE DEF n
      <4> QED
        BY <4>1, <4>2, <4>3
    <3> QED
      BY <3>1, <3>2
  <2>4. /\ coinReads' \in [CoinReads -> CoinRead] /\ coinReads'[r] = n
        /\ \A q \in CoinReads \ {r} : coinReads'[q] = coinReads[q]
    BY <1>a, <2>3
  <2>5. Asked' = {} /\ ~coinPaging'.loading /\ coinPaging'.page = p
    BY <2>2, <2>3, <2>4 DEF Asked
  <2>6. /\ coinItems' \subseteq coinMade /\ coinItems \subseteq coinItems'
        /\ coinOverlap' \in BOOLEAN /\ coinUnnamed' \in BOOLEAN
    BY <1>a, <2>3 DEF CoinsNamed
  <2>7. UserPageTypes'
    BY <1>a, <2>1, <2>3, <2>4, <2>6 DEF UserPageTypes
  <2>8. CoinsInOrder'
    <3>1. ASSUME NEW s \in CoinReads, NEW q \in CoinReads, q < s, coinReads'[q].pc = "idle"
          PROVE  coinReads'[s].pc = "idle"
      <4>1. q # r /\ coinReads[q].pc = "idle"
        BY <2>3, <2>4, <3>1
      <4>2. coinReads[s].pc = "idle"
        BY <1>a, <3>1, <4>1 DEF CoinsInOrder
      <4> QED
        BY <2>1, <2>4, <4>2
    <3>2. ASSUME NEW s \in CoinReads, coinReads'[s].pc \in {"idle", "asked"} PROVE p <= s
      <4>1. s # r /\ coinReads[s].pc = "idle"
        BY <2>2, <2>3, <2>4, <3>2
      <4>2. s \in Int /\ r \in Int /\ coinPaging.page \in Int
        BY <1>a DEF CoinReads
      <4>3. ~(s < r)
        BY <1>a, <2>1, <4>1 DEF CoinsInOrder
      <4> QED
        BY <2>2, <2>3, <4>1, <4>2, <4>3
    <3> QED
      BY <2>1, <2>2, <2>5, <3>1, <3>2 DEF CoinsInOrder
  <2>9. CoinsNamed'
    <3>1. ASSUME NEW s \in CoinReads PROVE coinReads'[s].got \subseteq coinItems'
      BY <1>a, <2>3, <2>4, <2>6 DEF CoinsNamed
    <3>2. CASE n.pc = "over"
      <4>1. coinMade = {} /\ UNCHANGED <<coinItems, coinOverlap, coinMade, coinNames, coinUnnamed>>
        BY <2>1, <2>3, <3>2
      <4>2. \A s \in CoinReads : coinReads'[s].pc = "names" =>
               s # r /\ coinReads[s].pc = "names" /\ coinReads'[s] = coinReads[s]
        BY <2>4, <3>2
      <4>3. ASSUME ~coinOverlap, \A s \in CoinReads : coinReads'[s].pc \notin {"names", "thrown"}
            PROVE  coinNames.replied = coinItems /\ (coinNames.named <=> ~coinUnnamed)
        <5>1. \A s \in CoinReads : coinReads[s].pc \notin {"names", "thrown"}
          BY <2>1, <2>4, <4>3
        <5> QED
          BY <1>a, <4>3, <5>1 DEF CoinsNamed
      <4> QED
        BY <1>a, <2>6, <3>1, <4>1, <4>2, <4>3 DEF CoinsNamed
    <3>3. CASE n.pc = "names"
      <4>1. ASSUME ~coinOverlap' PROVE \A q \in CoinReads : coinReads[q].pc # "names"
        BY <2>3, <3>3, <4>1
      <4>2. n.got = coinItems'
        BY <1>a, <2>3, <3>3 DEF CoinsNamed
      <4>3. ASSUME ~coinOverlap', NEW s \in CoinReads, coinReads'[s].pc = "names"
            PROVE  /\ s = r /\ coinReads'[s].got = coinItems'
                   /\ coinReads'[s].named <=> ~coinUnnamed'
        <5>1. s = r
          BY <2>4, <4>1, <4>3
        <5>2. n.named = FALSE /\ coinUnnamed' = TRUE
          BY <2>3, <3>3
        <5> QED
          BY <2>4, <4>2, <5>1, <5>2
      <4>4. coinReads'[r].pc = "names"
        BY <2>4, <3>3
      <4>5. coinItems' \subseteq coinMade' /\ coinMade' = coinMade
        BY <2>1, <2>6
      <4> QED
        BY <3>1, <4>3, <4>4, <4>5, Zenon DEF CoinsNamed
    <3> QED
      BY <2>3, <3>2, <3>3
  <2> QED
    BY <1>a, <2>1, <2>7, <2>8, <2>9 DEF CoinInv
\* A reading or a chain that goes on or ends, and asks for nothing.
<1>c. ASSUME NEW r \in CoinReads, NEW n \in CoinRead, n.got = coinReads[r].got,
             coinReads' = [coinReads EXCEPT ![r] = n],
             n.pc \notin {"idle", "asked"},
             coinReads[r].pc \in {"asked", "names"},
             n.pc = "names" => coinReads[r].pc = "names",
             coinReads[r].pc = "asked" => n.pc = "thrown" /\ coinFaults' > 0,
             coinFaults' \in Nat, coinFaults' >= coinFaults, coinUnnamed' \in BOOLEAN,
             n.pc = "over" => /\ coinReads[r].pc = "names" /\ n.named = coinReads[r].named
                              /\ coinNames' = [named |-> n.named, replied |-> n.got],
             n.pc # "over" => coinNames' = coinNames,
             n.pc = "names" => (n.named <=> ~coinUnnamed'),
             n.pc # "names" => coinUnnamed' = coinUnnamed,
             UNCHANGED <<coinProfile, coinMade, coinItems, coinPaging, coinOverlap>>
      PROVE  CoinInv'
  <2>1. /\ coinReads' \in [CoinReads -> CoinRead] /\ coinReads'[r] = n
        /\ \A q \in CoinReads \ {r} : coinReads'[q] = coinReads[q]
    BY <1>a, <1>c
  <2>2. Asked' \subseteq Asked /\ (Asked # {} => Asked' # {} \/ coinFaults' > 0)
    BY <1>c, <2>1 DEF Asked
  <2>3. UserPageTypes'
    <3>1. n.got \in SUBSET Coins /\ n.named \in BOOLEAN
      BY DEF CoinRead
    <3>2. coinNames' \in [named : BOOLEAN, replied : SUBSET Coins]
      BY <1>a, <1>c, <3>1
    <3> QED
      BY <1>a, <1>c, <2>1, <3>2 DEF UserPageTypes
  <2>4. CoinsInOrder'
    <3>1. ASSUME NEW s \in CoinReads, NEW q \in CoinReads, q < s, coinReads'[q].pc = "idle"
          PROVE  coinReads'[s].pc = "idle"
      <4>1. coinReads[q].pc = "idle"
        BY <1>c, <2>1, <3>1
      <4>2. coinReads[s].pc = "idle"
        BY <1>a, <3>1, <4>1 DEF CoinsInOrder
      <4> QED
        BY <1>c, <2>1, <4>2
    <3>2. \A s \in CoinReads : coinReads'[s].pc \in {"idle", "asked"} => coinPaging'.page <= s
      BY <1>a, <1>c, <2>1 DEF CoinsInOrder
    <3>3. coinFaults > 0 => coinFaults' > 0
      BY <1>a, <1>c
    <3> QED
      BY <1>a, <1>c, <2>2, <3>1, <3>2, <3>3 DEF CoinsInOrder
  <2>5. CoinsNamed'
    <3>1. \A s \in CoinReads : coinReads'[s].got = coinReads[s].got
      BY <1>c, <2>1
    <3>2. \A s \in CoinReads : coinReads'[s].pc = "names" => coinReads[s].pc = "names"
      BY <1>c, <2>1
    <3>3. ASSUME ~coinOverlap, \A s \in CoinReads : coinReads'[s].pc \notin {"names", "thrown"}
          PROVE  coinNames'.replied = coinItems /\ (coinNames'.named <=> ~coinUnnamed')
      <4>1. n.pc = "over"
        <5>1. n.pc \in {"idle", "asked", "names", "over", "thrown"}
          BY DEF CoinRead
        <5> QED
          BY <1>c, <2>1, <3>3, <5>1
      <4>2. n.got = coinItems /\ (coinReads[r].named <=> ~coinUnnamed)
        BY <1>a, <1>c, <3>3, <4>1 DEF CoinsNamed
      <4>3. /\ coinNames'.replied = n.got /\ coinNames'.named = coinReads[r].named
            /\ coinUnnamed' = coinUnnamed
        BY <1>c, <4>1
      <4> QED
        BY <4>2, <4>3
    <3>4. ASSUME ~coinOverlap, NEW s \in CoinReads, coinReads'[s].pc = "names"
          PROVE  coinReads'[s].got = coinItems /\ (coinReads'[s].named <=> ~coinUnnamed')
      <4>1. coinReads'[s].got = coinItems /\ coinReads[s].pc = "names"
        BY <1>a, <3>1, <3>2, <3>4 DEF CoinsNamed
      <4>2. CASE s = r
        BY <1>c, <2>1, <3>4, <4>1, <4>2
      <4>3. CASE s # r
        <5>1. coinReads[r].pc # "names"
          BY <1>a, <3>4, <4>1, <4>3 DEF CoinsNamed
        <5>2. coinUnnamed' = coinUnnamed /\ coinReads'[s] = coinReads[s]
          BY <1>c, <2>1, <4>3, <5>1
        <5> QED
          BY <1>a, <3>4, <4>1, <5>2 DEF CoinsNamed
      <4> QED
        BY <4>2, <4>3
    <3> QED
      BY <1>a, <1>c, <3>1, <3>2, <3>3, <3>4 DEF CoinsNamed
  <2> QED
    BY <1>c, <2>3, <2>4, <2>5 DEF CoinInv
<1>6. ASSUME NEW r \in CoinReads, CoinsRejected(r) PROVE CoinInv'
  <2> DEFINE n == [coinReads[r] EXCEPT !.pc = "thrown"]
  <2>1. /\ CoinFault /\ coinReads[r].pc = "asked"
        /\ coinReads' = [coinReads EXCEPT ![r] = n]
        /\ UNCHANGED <<coinProfile, coinMade, coinItems, coinPaging, coinNames, coinOverlap, coinUnnamed>>
    BY <1>6, <1>a DEF CoinsRejected
  <2>2. n \in CoinRead /\ n.pc = "thrown" /\ n.got = coinReads[r].got
    BY <1>a DEF CoinRead
  <2>3. coinFaults' > 0 /\ coinFaults' \in Nat /\ coinFaults' >= coinFaults
    BY <1>a, <2>1 DEF CoinFault
  <2> HIDE DEF n
  <2> QED
    BY <1>a, <1>c, <2>1, <2>2, <2>3
<1>7. ASSUME NEW r \in CoinReads, NameRead(r) PROVE CoinInv'
  <2>1. /\ coinReads[r].pc = "names"
        /\ UNCHANGED <<coinProfile, coinMade, coinItems, coinPaging, coinNames, coinFaults,
                       coinOverlap>>
    BY <1>7 DEF NameRead
  <2>2. PICK c \in coinReads[r].left, named \in BOOLEAN :
          /\ coinReads' = [coinReads EXCEPT ![r].left = @ \ {c}, ![r].named = named]
          /\ coinUnnamed' = ~named
    BY <1>7 DEF NameRead
  <2> DEFINE n == [coinReads[r] EXCEPT !.left = @ \ {c}, !.named = named]
  <2>3. /\ n \in CoinRead /\ n.got = coinReads[r].got /\ n.pc = "names"
        /\ n.named = named
    BY <1>a, <2>1 DEF CoinRead
  <2>4. coinReads' = [coinReads EXCEPT ![r] = n]
    BY <1>a, <2>2
  <2>5. coinFaults' \in Nat /\ coinFaults' >= coinFaults
    BY <1>a, <2>1
  <2>6. coinUnnamed' \in BOOLEAN /\ (n.named <=> ~coinUnnamed')
    BY <2>2, <2>3
  <2> HIDE DEF n
  <2> QED
    BY <1>a, <1>c, <2>1, <2>3, <2>4, <2>5, <2>6
<1>8. ASSUME NEW r \in CoinReads, NamesShown(r) PROVE CoinInv'
  <2> DEFINE n == [coinReads[r] EXCEPT !.pc = "over"]
  <2>1. /\ coinReads[r].pc = "names"
        /\ coinReads' = [coinReads EXCEPT ![r] = n]
        /\ coinNames' = [named |-> coinReads[r].named, replied |-> coinReads[r].got]
        /\ UNCHANGED <<coinProfile, coinMade, coinItems, coinPaging, coinFaults, coinOverlap,
                       coinUnnamed>>
    BY <1>8, <1>a DEF NamesShown
  <2>2. /\ n \in CoinRead /\ n.pc = "over" /\ n.got = coinReads[r].got
        /\ n.named = coinReads[r].named
    BY <1>a DEF CoinRead
  <2>3. coinFaults' \in Nat /\ coinFaults' >= coinFaults
    BY <1>a, <2>1
  <2> HIDE DEF n
  <2> QED
    BY <1>a, <1>c, <2>1, <2>2, <2>3
<1>10. ASSUME NEW r \in CoinReads, RepliesRejected(r) PROVE CoinInv'
  <2> DEFINE n == [coinReads[r] EXCEPT !.pc = "thrown"]
  <2>1. /\ CoinFault /\ coinReads[r].pc = "names"
        /\ coinReads' = [coinReads EXCEPT ![r] = n]
        /\ UNCHANGED <<coinProfile, coinMade, coinItems, coinPaging, coinNames, coinOverlap, coinUnnamed>>
    BY <1>10, <1>a DEF RepliesRejected
  <2>2. n \in CoinRead /\ n.pc = "thrown" /\ n.got = coinReads[r].got
    BY <1>a DEF CoinRead
  <2>3. coinFaults' > 0 /\ coinFaults' \in Nat /\ coinFaults' >= coinFaults
    BY <1>a, <2>1 DEF CoinFault
  <2> HIDE DEF n
  <2> QED
    BY <1>a, <1>c, <2>1, <2>2, <2>3
<1>9. CASE UNCHANGED coinVars
  <2>1. Asked' = Asked
    BY <1>9 DEF coinVars, Asked
  <2> QED
    BY <1>9, <2>1 DEF coinVars, CoinInv, UserPageTypes, CoinsInOrder, CoinsNamed
<1> QED
  BY <1>1, <1>2, <1>3, <1>4, <1>5, <1>6, <1>7, <1>8, <1>9, <1>10 DEF UserPageNext

\* It starts with nothing read.
LEMMA CoinInitInv ==
    ASSUME UserPageInit
    PROVE  CoinInv
<1>1. MaxReadCoins \in Nat \ {0} /\ NoCoinRead \in CoinRead
  BY UserPageAssumption DEF NoCoinRead, CoinRead
<1>2. coinReads \in [CoinReads -> CoinRead]
      /\ \A r \in CoinReads : coinReads[r].pc = "idle" /\ coinReads[r].got = {}
  BY <1>1 DEF UserPageInit, NoCoinRead
<1>3. coinPaging \in [page : 1 .. (MaxReadCoins + 1), loading : BOOLEAN]
      /\ coinPaging.page = 1 /\ coinPaging.loading
  BY <1>1 DEF UserPageInit
<1>4. UserPageTypes
  BY <1>2, <1>3 DEF UserPageInit, UserPageTypes
<1>5. Asked = {}
  BY <1>2 DEF Asked
<1>6. CoinsInOrder
  BY <1>1, <1>2, <1>3, <1>5 DEF UserPageInit, CoinsInOrder, CoinReads
<1>7. CoinsNamed
  BY <1>2 DEF UserPageInit, CoinsNamed
<1> QED
  BY <1>4, <1>6, <1>7 DEF CoinInv, UserPageInit

-----------------------------------------------------------------------------
(* The page of a project (ProjectPage). *)

\* The history of the page, and the task under way.
PgPast == [nowhere : BOOLEAN, failed : BOOLEAN, late : BOOLEAN]
PgTask == [pc : {"none", "swap", "poll", "give"}, of : SomeWell, address : SomeWell]

\* The values of the state; lookups, readings and tasks are of projects.
PgTypes ==
    /\ pgKind \in ReadKinds
    /\ pgAddress \in Wells /\ pgShown \in SomeWell /\ pgCard \in SomeWell /\ pgLocked \in SomeWell
    /\ pgLow \subseteq {"fomo", "token", "pool"} /\ pgIcon \in BOOLEAN
    /\ pgBatches \in [Batches -> Batch]
    /\ \A b \in Batches : pgBatches[b].pc \in {"asked", "reading"} => pgBatches[b].of \in Wells
    /\ pgTask \in PgTask
    /\ pgTask.pc # "none" => pgTask.of \in Wells /\ pgTask.address \in Wells
    /\ pgWells \in [filled : SUBSET Wells, given : SUBSET Wells]
    /\ pgPast \in PgPast

\* Batches start in their order.
PgOrder ==
    \A d, e \in Batches : d < e /\ pgBatches[d].pc = "idle" => pgBatches[e].pc = "idle"

\* No lookup was rejected and no answer came late.
Clean == ~pgPast.late /\ ~pgPast.nowhere

\* What is still to come for the address: a lookup of it; a lookup or a reading of it; what
\* shows that it was given away, or comes late.
LookedUp(b) == pgBatches[b].pc = "asked" /\ pgBatches[b].of = pgAddress
Coming(b) == pgBatches[b].pc \in {"asked", "reading"} /\ pgBatches[b].of = pgAddress
Owing(b) ==
    \/ pgBatches[b].pc = "asked" /\ pgBatches[b].of = pgAddress
    \/ pgBatches[b].pc = "reading" /\ (pgBatches[b].of # pgAddress \/ pgBatches[b].given)

\* The page shows its address, or the lookup of it is to come.
PgShownOrComing == Clean => pgShown = pgAddress \/ \E b \in Batches : LookedUp(b)

\* The card shows the address, or a reading of it is to come.
PgCardOrComing ==
    Clean /\ pgKind # "owners" /\ (pgKind = "cycles" \/ ~pgPast.failed) =>
        pgCard = pgAddress \/ \E b \in Batches : Coming(b)

\* What is marked as low is so for the project on the card.
PgLowOfCard ==
    pgKind = "cycles" /\ ~pgPast.failed /\ pgCard # NoWell => pgLow = Marked(LowCycles[pgCard])

\* The icon says whether the project was given away, or an answer that will say so is to come.
PgIconOrComing ==
    Clean /\ ~pgPast.failed /\ pgKind = "owners" =>
        /\ pgIcon => pgAddress \in pgWells.given \/ \E b \in Batches : LookedUp(b)
        /\ pgAddress \in pgWells.given => pgIcon \/ \E b \in Batches : Owing(b)

\* What a reading was told is so.
PgGiven == \A b \in Batches : pgBatches[b].pc = "reading" /\ pgBatches[b].given =>
                                  pgBatches[b].of \in pgWells.given

\* What is locked is the address, unless an answer came late.
PgLock == ~pgPast.late => pgLocked \in {pgAddress, NoWell}

\* What the page shows, or will show.
PgParts == PgShownOrComing /\ PgCardOrComing /\ PgLowOfCard /\ PgIconOrComing /\ PgGiven /\ PgLock

\* The inductive invariant of the page of a project.
PgInv == PgTypes /\ PgOrder /\ PgParts

\* When nothing is to come, the page shows its address.
LEMMA PgInvAgrees ==
    ASSUME PgInv
    PROVE  ProjectPageAgrees
<1>a. PgTypes /\ PgShownOrComing /\ PgCardOrComing /\ PgLowOfCard /\ PgIconOrComing /\ PgLock
  BY DEF PgInv, PgParts
<1>1. ProjectTypes
  BY <1>a DEF PgTypes, PgTask, ProjectTypes
<1>2. ASSUME Settled, ~pgPast.late, ~pgPast.nowhere
      PROVE  /\ pgShown = pgAddress
             /\ pgKind = "cycles" => Overview.of = pgShown
             /\ pgKind = "cycles" /\ ~pgPast.failed => Overview.low = Marked(LowCycles[pgShown])
             /\ pgKind = "pool" /\ ~pgPast.failed => WellText = pgShown
             /\ pgKind = "balance" /\ ~pgPast.failed => Balance = pgShown
             /\ pgKind = "owners" /\ ~pgPast.failed => (MayGive <=> pgShown \notin pgWells.given)
  <2>1. \A b \in Batches : ~LookedUp(b) /\ ~Coming(b) /\ ~Owing(b)
    BY <1>2 DEF Settled, LookedUp, Coming, Owing
  <2>2. pgShown = pgAddress /\ pgAddress \in Wells /\ pgAddress # NoWell
    BY <1>a, <1>2, <2>1, ProjectPageAssumption DEF PgShownOrComing, Clean, PgTypes
  <2>3. pgKind \in {"cycles", "pool", "balance"} /\ (pgKind = "cycles" \/ ~pgPast.failed) =>
            pgCard = pgAddress
    BY <1>a, <1>2, <2>1 DEF PgCardOrComing, Clean
  <2>4. pgKind = "owners" /\ ~pgPast.failed => (pgIcon <=> pgShown \in pgWells.given)
    BY <1>a, <1>2, <2>1, <2>2 DEF PgIconOrComing, Clean
  <2>5. pgKind = "cycles" /\ ~pgPast.failed => pgLow = Marked(LowCycles[pgShown])
    BY <1>a, <2>2, <2>3 DEF PgLowOfCard
  <2> QED
    BY <2>2, <2>3, <2>4, <2>5 DEF Overview, MayGive, WellText, Balance
<1> QED
  BY <1>1, <1>2, <1>a DEF ProjectPageAgrees, PgLock

\* The lookups and readings made of a project.
LEMMA BatchFacts ==
    /\ NoBatch \in Batch /\ BatchOver \in Batch
    /\ NoBatch.pc = "idle" /\ BatchOver.pc = "over"
    /\ \A w \in Wells : /\ Lookup(w) \in Batch
                        /\ Lookup(w).pc = "asked" /\ Lookup(w).of = w
<1>1. NoBatch \in Batch /\ NoBatch.pc = "idle"
  BY DEF NoBatch, Batch, SomeWell
<1>2. BatchOver \in Batch /\ BatchOver.pc = "over"
  BY <1>1 DEF BatchOver, Batch
<1>3. \A w \in Wells : Lookup(w) \in Batch /\ Lookup(w).pc = "asked" /\ Lookup(w).of = w
  BY <1>1 DEF Lookup, Batch, SomeWell
<1> QED
  BY <1>1, <1>2, <1>3

\* A reading of the kind followed, or nothing.
LEMMA ReadingOfFacts ==
    ASSUME NEW w \in Wells, NEW kinds
    PROVE  /\ ReadingOf(w, kinds) \in Batch
           /\ ReadingOf(w, kinds).pc \in {"reading", "over"}
           /\ ReadingOf(w, kinds).pc = "reading" =>
                 /\ ReadingOf(w, kinds).of = w
                 /\ ReadingOf(w, kinds).given <=> w \in pgWells.given
           /\ pgKind \in kinds => ReadingOf(w, kinds).pc = "reading"
<1>1. (w \in pgWells.filled) \in BOOLEAN /\ (w \in pgWells.given) \in BOOLEAN
  OBVIOUS
<1>2. CASE pgKind \in kinds
  <2> DEFINE r == [pc |-> "reading", of |-> w, filled |-> w \in pgWells.filled,
                   given |-> w \in pgWells.given]
  <2>1. ReadingOf(w, kinds) = r
    BY <1>2 DEF ReadingOf
  <2>2. r \in Batch /\ r.pc = "reading" /\ r.of = w /\ (r.given <=> w \in pgWells.given)
    <3> DEFINE f == w \in pgWells.filled
               g == w \in pgWells.given
    <3>1. f \in BOOLEAN /\ g \in BOOLEAN
      BY <1>1
    <3> HIDE DEF f, g
    <3>2. [pc |-> "reading", of |-> w, filled |-> f, given |-> g] \in Batch
      BY <3>1 DEF Batch, SomeWell
    <3> QED
      BY <3>2 DEF f, g
  <2> QED
    BY <2>1, <2>2
<1>3. CASE pgKind \notin kinds
  BY <1>3, BatchFacts DEF ReadingOf
<1> QED
  BY <1>2, <1>3

\* What was to come stays to come when the batches that have started are kept.
LEMMA BatchesKept ==
    ASSUME \A b \in Batches : pgBatches[b].pc # "idle" => pgBatches'[b] = pgBatches[b],
           pgAddress' = pgAddress
    PROVE  /\ \A b \in Batches : /\ LookedUp(b) => LookedUp(b)'
                                 /\ Coming(b) => Coming(b)'
                                 /\ Owing(b) => Owing(b)'
BY DEF LookedUp, Coming, Owing

\* Nothing that decides what is to come has changed.
LEMMA PartsKept ==
    ASSUME PgInv, UNCHANGED <<pgKind, pgAddress, pgShown, pgCard, pgLow, pgBatches, pgPast>>,
           pgWells'.given = pgWells.given, pgIcon' = pgIcon,
           pgLocked' \in {pgLocked, NoWell}
    PROVE  PgParts'
<1>1. \A b \in Batches : /\ LookedUp(b)' <=> LookedUp(b)
                         /\ Coming(b)' <=> Coming(b)
                         /\ Owing(b)' <=> Owing(b)
  BY DEF LookedUp, Coming, Owing
<1>2. PgShownOrComing'
  BY <1>1 DEF PgInv, PgParts, PgShownOrComing, Clean
<1>3. PgCardOrComing'
  BY <1>1 DEF PgInv, PgParts, PgCardOrComing, Clean
<1>4. PgLowOfCard' /\ PgGiven' /\ PgLock'
  BY DEF PgInv, PgParts, PgLowOfCard, PgGiven, PgLock, Marked
<1>5. PgIconOrComing'
  BY <1>1 DEF PgInv, PgParts, PgIconOrComing, Clean
<1> QED
  BY <1>2, <1>3, <1>4, <1>5 DEF PgParts

\* Batch b of those that have not started starts as n.
LEMMA BatchStarts ==
    ASSUME PgTypes, PgOrder, NEW b \in Batches, NextBatch(b), NEW n \in Batch, n.pc # "idle",
           n.pc \in {"asked", "reading"} => n.of \in Wells,
           pgBatches' = [pgBatches EXCEPT ![b] = n]
    PROVE  /\ pgBatches' \in [Batches -> Batch] /\ pgBatches'[b] = n
           /\ \A d \in Batches \ {b} : pgBatches'[d] = pgBatches[d]
           /\ pgBatches[b].pc = "idle"
           /\ \A d \in Batches : pgBatches[d].pc # "idle" => pgBatches'[d] = pgBatches[d]
           /\ \A d \in Batches : pgBatches'[d].pc \in {"asked", "reading"} =>
                                     pgBatches'[d].of \in Wells
           /\ PgOrder'
<1>1. /\ pgBatches' \in [Batches -> Batch] /\ pgBatches'[b] = n
      /\ \A d \in Batches \ {b} : pgBatches'[d] = pgBatches[d]
      /\ pgBatches[b].pc = "idle"
  BY DEF PgTypes, NextBatch
<1>2. \A d \in Batches : pgBatches[d].pc # "idle" => pgBatches'[d] = pgBatches[d]
  BY <1>1
<1>3. \A d \in Batches : pgBatches'[d].pc \in {"asked", "reading"} => pgBatches'[d].of \in Wells
  BY <1>1 DEF PgTypes
<1>4. ASSUME NEW d \in Batches, NEW e \in Batches, d < e, pgBatches'[d].pc = "idle"
      PROVE  pgBatches'[e].pc = "idle"
  <2>1. d # b /\ pgBatches[d].pc = "idle" /\ pgBatches[e].pc = "idle"
    BY <1>1, <1>4 DEF PgOrder
  <2>2. d \in Int /\ b \in Int /\ e \in Int /\ d >= 1
    BY DEF Batches
  <2>3. ~(d < b)
    BY <2>1, <2>2 DEF NextBatch
  <2>4. e # b
    BY <1>4, <2>1, <2>2, <2>3
  <2> QED
    BY <1>1, <2>1, <2>4
<1> QED
  BY <1>1, <1>2, <1>3, <1>4 DEF PgOrder

\* Batch b, which has started, goes on as n.
LEMMA BatchGoesOn ==
    ASSUME PgTypes, PgOrder, NEW b \in Batches, pgBatches[b].pc # "idle", NEW n \in Batch,
           n.pc # "idle", n.pc \in {"asked", "reading"} => n.of \in Wells,
           pgBatches' = [pgBatches EXCEPT ![b] = n], pgAddress' = pgAddress
    PROVE  /\ pgBatches' \in [Batches -> Batch] /\ pgBatches'[b] = n
           /\ \A d \in Batches \ {b} : pgBatches'[d] = pgBatches[d]
           /\ \A d \in Batches : pgBatches'[d].pc \in {"asked", "reading"} =>
                                     pgBatches'[d].of \in Wells
           /\ PgOrder'
           /\ \A d \in Batches \ {b} : /\ LookedUp(d)' <=> LookedUp(d)
                                       /\ Coming(d)' <=> Coming(d)
                                       /\ Owing(d)' <=> Owing(d)
<1>1. /\ pgBatches' \in [Batches -> Batch] /\ pgBatches'[b] = n
      /\ \A d \in Batches \ {b} : pgBatches'[d] = pgBatches[d]
  BY DEF PgTypes
<1>2. \A d \in Batches : pgBatches'[d].pc \in {"asked", "reading"} => pgBatches'[d].of \in Wells
  BY <1>1 DEF PgTypes
<1>3. PgOrder'
  BY <1>1 DEF PgOrder
<1>4. \A d \in Batches \ {b} : /\ LookedUp(d)' <=> LookedUp(d)
                               /\ Coming(d)' <=> Coming(d)
                               /\ Owing(d)' <=> Owing(d)
  BY <1>1 DEF LookedUp, Coming, Owing
<1> QED
  BY <1>1, <1>2, <1>3, <1>4

\* The address changes.
LEMMA OpenWellInv ==
    ASSUME PgInv, OpenWell
    PROVE  PgInv'
<1>a. PgTypes /\ PgOrder /\ PgShownOrComing /\ PgCardOrComing /\ PgLowOfCard /\ PgIconOrComing
      /\ PgGiven
  BY DEF PgInv, PgParts
<1>1. PICK w \in Wells \ {pgAddress}, b \in Batches :
          /\ NextBatch(b)
          /\ pgAddress' = w
          /\ pgBatches' = [pgBatches EXCEPT ![b] = Lookup(w)]
  BY DEF OpenWell
<1>2. /\ pgLocked' = NoWell
      /\ pgCard' = IF pgKind = "balance" THEN NoWell ELSE pgCard
      /\ UNCHANGED <<pgKind, pgShown, pgLow, pgIcon, pgTask, pgWells, pgFaults, pgPast>>
  BY DEF OpenWell
<1>3. /\ pgBatches' \in [Batches -> Batch] /\ pgBatches'[b] = Lookup(w)
      /\ \A d \in Batches \ {b} : pgBatches'[d] = pgBatches[d]
      /\ \A d \in Batches : pgBatches'[d].pc \in {"asked", "reading"} => pgBatches'[d].of \in Wells
      /\ PgOrder'
  BY <1>a, <1>1, BatchStarts, BatchFacts
<1>4. PgTypes'
  BY <1>a, <1>1, <1>2, <1>3 DEF PgTypes, SomeWell
<1>5. LookedUp(b)' /\ Coming(b)' /\ Owing(b)'
  BY <1>1, <1>3, BatchFacts DEF LookedUp, Coming, Owing
<1>6. PgShownOrComing' /\ PgCardOrComing' /\ PgIconOrComing'
  BY <1>1, <1>5 DEF PgShownOrComing, PgCardOrComing, PgIconOrComing
<1>7. PgLowOfCard'
  BY <1>a, <1>2 DEF PgLowOfCard, Marked
<1>8. PgGiven'
  BY <1>a, <1>2, <1>3, BatchFacts DEF PgGiven
<1>9. PgLock'
  BY <1>2 DEF PgLock
<1> QED
  BY <1>3, <1>4, <1>6, <1>7, <1>8, <1>9 DEF PgInv, PgParts

\* A lookup is answered.
LEMMA WellFoundInv ==
    ASSUME PgInv, NEW b \in Batches, WellFound(b)
    PROVE  PgInv'
<1>a. PgTypes /\ PgOrder /\ PgShownOrComing /\ PgCardOrComing /\ PgLowOfCard /\ PgIconOrComing
      /\ PgGiven /\ PgLock /\ pgPast \in PgPast /\ pgKind \in ReadKinds
  BY DEF PgInv, PgParts, PgTypes
<1> DEFINE w == pgBatches[b].of
           n == ReadingOf(w, ReadKinds)
<1>1. /\ pgBatches[b].pc = "asked"
      /\ pgShown' = w /\ pgIcon' = FALSE
      /\ pgBatches' = [pgBatches EXCEPT ![b] = n]
      /\ pgPast' = [pgPast EXCEPT !.late = Late(b)]
      /\ UNCHANGED <<pgKind, pgAddress, pgCard, pgLow, pgLocked, pgTask, pgWells, pgFaults>>
  BY DEF WellFound
<1>2. PICK l \in BOOLEAN : l = Late(b)
  BY DEF Late
<1>3. /\ pgPast' \in PgPast /\ (pgPast'.late <=> pgPast.late \/ w # pgAddress)
      /\ pgPast'.nowhere = pgPast.nowhere /\ pgPast'.failed = pgPast.failed
  <2>1. pgPast' = [pgPast EXCEPT !.late = l] /\ (l <=> pgPast.late \/ w # pgAddress)
    BY <1>1, <1>2 DEF Late
  <2> QED
    BY <1>a, <2>1 DEF PgPast
<1>4. /\ w \in Wells /\ n \in Batch /\ n.pc = "reading" /\ n.of = w
      /\ (n.given <=> w \in pgWells.given)
  BY <1>a, <1>1, ReadingOfFacts DEF PgTypes
<1> HIDE DEF n
<1>5. /\ pgBatches' \in [Batches -> Batch] /\ pgBatches'[b] = n
      /\ \A d \in Batches \ {b} : pgBatches'[d] = pgBatches[d]
      /\ \A d \in Batches : pgBatches'[d].pc \in {"asked", "reading"} => pgBatches'[d].of \in Wells
      /\ PgOrder'
      /\ \A d \in Batches \ {b} : /\ LookedUp(d)' <=> LookedUp(d)
                                  /\ Coming(d)' <=> Coming(d)
                                  /\ Owing(d)' <=> Owing(d)
  BY <1>a, <1>1, <1>4, BatchGoesOn
<1>6. PgTypes'
  BY <1>a, <1>1, <1>3, <1>4, <1>5 DEF PgTypes, SomeWell
<1>7. Coming(b)' <=> w = pgAddress
  BY <1>1, <1>4, <1>5 DEF Coming
<1>8. PgShownOrComing' /\ PgLock'
  BY <1>a, <1>1, <1>3 DEF PgShownOrComing, PgLock, Clean
<1>9. PgCardOrComing'
  BY <1>1, <1>3, <1>7 DEF PgCardOrComing, Clean
<1>10. PgLowOfCard'
  BY <1>a, <1>1, <1>3 DEF PgLowOfCard, Marked
<1>11. PgIconOrComing'
  <2>1. pgAddress \in pgWells.given /\ w = pgAddress => Owing(b)'
    BY <1>1, <1>4, <1>5 DEF Owing
  <2> QED
    BY <1>1, <1>3, <2>1 DEF PgIconOrComing, Clean
<1>12. PgGiven'
  BY <1>a, <1>1, <1>4, <1>5 DEF PgGiven
<1> QED
  BY <1>5, <1>6, <1>8, <1>9, <1>10, <1>11, <1>12 DEF PgInv, PgParts

\* A lookup or a reading is rejected.
LEMMA PageRefusedInv ==
    ASSUME PgInv, NEW b \in Batches, LookupRefused(b) \/ KindRefused(b)
    PROVE  PgInv'
<1>a. PgTypes /\ PgOrder /\ PgShownOrComing /\ PgCardOrComing /\ PgLowOfCard /\ PgIconOrComing
      /\ PgGiven /\ PgLock /\ pgPast \in PgPast
  BY DEF PgInv, PgParts, PgTypes
<1>1. /\ pgBatches[b].pc # "idle"
      /\ pgBatches' = [pgBatches EXCEPT ![b] = BatchOver]
      /\ UNCHANGED <<pgKind, pgAddress, pgShown, pgCard, pgLow, pgIcon, pgLocked, pgTask, pgWells>>
  BY DEF LookupRefused, KindRefused
<1>2. /\ pgPast' \in PgPast /\ pgPast'.late = pgPast.late
      /\ pgPast.nowhere => pgPast'.nowhere
      /\ pgPast.failed => pgPast'.failed
      /\ \/ pgPast'.nowhere
         \/ pgPast'.failed /\ pgKind # "cycles" /\ pgBatches[b].pc = "reading"
  <2>1. \/ pgPast' = [pgPast EXCEPT !.nowhere = TRUE]
        \/ /\ pgPast' = [pgPast EXCEPT !.failed = TRUE]
           /\ pgKind # "cycles" /\ pgBatches[b].pc = "reading"
    BY DEF LookupRefused, KindRefused
  <2> QED
    BY <1>a, <2>1 DEF PgPast
<1>3. /\ pgBatches' \in [Batches -> Batch] /\ pgBatches'[b] = BatchOver
      /\ \A d \in Batches \ {b} : pgBatches'[d] = pgBatches[d]
      /\ \A d \in Batches : pgBatches'[d].pc \in {"asked", "reading"} => pgBatches'[d].of \in Wells
      /\ PgOrder'
      /\ \A d \in Batches \ {b} : /\ LookedUp(d)' <=> LookedUp(d)
                                  /\ Coming(d)' <=> Coming(d)
                                  /\ Owing(d)' <=> Owing(d)
  BY <1>a, <1>1, BatchGoesOn, BatchFacts
<1>4. PgTypes'
  BY <1>a, <1>1, <1>2, <1>3 DEF PgTypes
<1>5. PgShownOrComing'
  <2>1. pgPast'.nowhere \/ ~LookedUp(b)
    BY <1>2 DEF LookedUp
  <2> QED
    BY <1>a, <1>1, <1>2, <1>3, <2>1 DEF PgShownOrComing, Clean
<1>6. PgCardOrComing'
  BY <1>2, <1>1 DEF PgCardOrComing, Clean
<1>7. PgLowOfCard'
  BY <1>a, <1>1, <1>2 DEF PgLowOfCard, Marked
<1>8. PgIconOrComing'
  BY <1>2 DEF PgIconOrComing, Clean
<1>9. PgGiven' /\ PgLock'
  BY <1>a, <1>1, <1>2, <1>3, BatchFacts DEF PgGiven, PgLock
<1> QED
  BY <1>3, <1>4, <1>5, <1>6, <1>7, <1>8, <1>9 DEF PgInv, PgParts

\* What a reading of the cycles of w marks as low.
CyclesMarked(w, unread, kept, late) ==
    LET low == LowCycles[w]
    IN  /\ pgPast.failed \/ kept \subseteq Marked(low)
        /\ pgLow' = IF low \cup unread = {} THEN {} ELSE Marked(low \cup unread) \cup kept
        /\ pgPast' = [pgPast EXCEPT !.late = late, !.failed = @ \/ unread # {}]

\* A reading of kind k is answered.
LEMMA PageReadInv ==
    ASSUME PgInv, NEW b \in Batches,
           CyclesShown(b) \/ PoolShown(b) \/ OwnersShown(b) \/ BalanceShown(b)
    PROVE  PgInv'
<1>a. PgTypes /\ PgOrder /\ PgShownOrComing /\ PgCardOrComing /\ PgLowOfCard /\ PgIconOrComing
      /\ PgGiven /\ PgLock /\ pgPast \in PgPast /\ pgIcon \in BOOLEAN
  BY DEF PgInv, PgParts, PgTypes
<1> DEFINE w == pgBatches[b].of
<1>1. /\ pgBatches[b].pc = "reading" /\ Finishes(b, pgKind)
      /\ pgBatches' = [pgBatches EXCEPT ![b] = BatchOver]
      /\ pgCard' = IF pgKind = "owners" THEN pgCard ELSE w
      /\ UNCHANGED <<pgKind, pgAddress, pgShown, pgTask, pgWells>>
  BY DEF CyclesShown, PoolShown, OwnersShown, BalanceShown, Finishes
<1>2. PICK l \in BOOLEAN : l = Late(b)
  BY DEF Late
<1>3. l <=> pgPast.late \/ w # pgAddress
  BY <1>2 DEF Late
<1>4. \/ /\ pgKind = "cycles" /\ UNCHANGED <<pgIcon, pgLocked>>
         /\ \E unread, kept \in SUBSET {"fomo", "token", "pool"} : CyclesMarked(w, unread, kept, l)
      \/ /\ pgKind # "cycles" /\ UNCHANGED pgLow
         /\ pgPast' = [pgPast EXCEPT !.late = l]
         /\ pgLocked' \in {pgLocked, w}
         /\ pgKind = "owners" =>
               \E given \in {pgBatches[b].given, w \in pgWells.given} : pgIcon' = (pgIcon \/ given)
         /\ pgKind # "owners" => UNCHANGED pgIcon
  <2>1. CASE CyclesShown(b)
    BY <1>2, <2>1 DEF CyclesShown, CyclesMarked, Finishes
  <2>2. CASE PoolShown(b)
    BY <1>2, <2>2 DEF PoolShown, Finishes
  <2>3. CASE OwnersShown(b)
    BY <1>2, <2>3 DEF OwnersShown, Finishes
  <2>4. CASE BalanceShown(b)
    BY <1>2, <2>4 DEF BalanceShown, Finishes
  <2> QED
    BY <2>1, <2>2, <2>3, <2>4
<1>5. w \in Wells /\ LowCycles[w] \subseteq {"fomo", "token", "pool"}
  BY <1>a, <1>1, ProjectPageAssumption DEF PgTypes
<1>6. /\ pgBatches' \in [Batches -> Batch] /\ pgBatches'[b] = BatchOver
      /\ \A d \in Batches \ {b} : pgBatches'[d] = pgBatches[d]
      /\ \A d \in Batches : pgBatches'[d].pc \in {"asked", "reading"} => pgBatches'[d].of \in Wells
      /\ PgOrder'
      /\ \A d \in Batches \ {b} : /\ LookedUp(d)' <=> LookedUp(d)
                                  /\ Coming(d)' <=> Coming(d)
                                  /\ Owing(d)' <=> Owing(d)
  BY <1>a, <1>1, BatchGoesOn, BatchFacts
<1>7. /\ pgPast' \in PgPast /\ (pgPast'.late <=> l) /\ pgPast'.nowhere = pgPast.nowhere
      /\ pgPast.failed => pgPast'.failed
      /\ pgLow' \subseteq {"fomo", "token", "pool"}
      /\ pgKind = "cycles" /\ ~pgPast'.failed => pgLow' = Marked(LowCycles[w])
      /\ pgKind # "cycles" => pgPast'.failed = pgPast.failed
  <2>1. CASE /\ pgKind = "cycles"
             /\ \E unread, kept \in SUBSET {"fomo", "token", "pool"} :
                    CyclesMarked(w, unread, kept, l)
    <3>a. PICK unread \in SUBSET {"fomo", "token", "pool"}, kept \in SUBSET {"fomo", "token", "pool"} :
               CyclesMarked(w, unread, kept, l)
      BY <2>1
    <3> DEFINE lows == LowCycles[w] \cup unread
    <3>1. /\ pgPast.failed \/ kept \subseteq Marked(LowCycles[w])
          /\ pgLow' = IF lows = {} THEN {} ELSE Marked(lows) \cup kept
          /\ pgPast' = [pgPast EXCEPT !.late = l, !.failed = @ \/ unread # {}]
      BY <3>a DEF CyclesMarked
    <3>2. PICK f \in BOOLEAN : f = (pgPast.failed \/ unread # {})
      OBVIOUS
    <3>3. pgPast' = [pgPast EXCEPT !.late = l, !.failed = f]
      BY <3>1, <3>2
    <3>4. f <=> pgPast.failed \/ unread # {}
      BY <3>2
    <3>5. /\ pgPast' \in PgPast /\ (pgPast'.late <=> l) /\ pgPast'.nowhere = pgPast.nowhere
          /\ pgPast'.failed <=> f
      BY <1>a, <3>3 DEF PgPast
    <3>6. pgLow' \subseteq {"fomo", "token", "pool"}
      <4>1. lows \subseteq {"fomo", "token", "pool"}
        BY <1>5
      <4>2. Marked(lows) \subseteq {"fomo", "token", "pool"}
        BY <4>1 DEF Marked
      <4> QED
        BY <3>1, <4>2
    <3>7. ASSUME ~f PROVE pgLow' = Marked(LowCycles[w])
      <4>1. lows = LowCycles[w] /\ kept \subseteq Marked(LowCycles[w])
        BY <3>1, <3>4, <3>7
      <4>2. CASE lows = {}
        BY <3>1, <4>1, <4>2 DEF Marked
      <4>3. CASE lows # {}
        BY <3>1, <4>1, <4>3
      <4> QED
        BY <4>2, <4>3
    <3> QED
      BY <2>1, <3>4, <3>5, <3>6, <3>7
  <2>2. CASE pgKind # "cycles" /\ UNCHANGED pgLow /\ pgPast' = [pgPast EXCEPT !.late = l]
    BY <1>a, <2>2 DEF PgPast, PgTypes
  <2> QED
    BY <1>4, <2>1, <2>2
<1>8. pgLocked' \in {pgLocked, w}
  BY <1>4
<1>9. /\ pgIcon' \in BOOLEAN /\ (pgIcon => pgIcon')
      /\ pgIcon' /\ ~pgIcon => w \in pgWells.given
      /\ pgKind = "owners" /\ pgBatches[b].given => pgIcon'
  <2>1. CASE pgKind = "owners" /\ \E given \in {pgBatches[b].given, w \in pgWells.given} :
                                      pgIcon' = (pgIcon \/ given)
    <3>1. PICK given \in {pgBatches[b].given, w \in pgWells.given} : pgIcon' = (pgIcon \/ given)
      BY <2>1
    <3>2. pgBatches[b].given => w \in pgWells.given
      BY <1>a, <1>1 DEF PgGiven
    <3>3. pgIcon' \in BOOLEAN /\ (pgIcon' <=> pgIcon \/ given)
      BY <3>1
    <3>4. (given => w \in pgWells.given) /\ (pgBatches[b].given => given)
      BY <3>1, <3>2
    <3> QED
      BY <3>3, <3>4
  <2>2. CASE pgKind # "owners" /\ UNCHANGED pgIcon
    BY <1>a, <2>2
  <2> QED
    BY <1>4, <2>1, <2>2
<1>10. PgTypes'
  BY <1>a, <1>1, <1>5, <1>6, <1>7, <1>8, <1>9 DEF PgTypes, SomeWell
<1>11. ~LookedUp(b)
  BY <1>1 DEF LookedUp
<1>12. PgShownOrComing'
  BY <1>a, <1>1, <1>3, <1>6, <1>7, <1>11 DEF PgShownOrComing, Clean
<1>13. PgCardOrComing'
  BY <1>1, <1>3, <1>7 DEF PgCardOrComing, Clean
<1>14. PgLowOfCard'
  BY <1>1, <1>7 DEF PgLowOfCard, Marked
<1>15. PgIconOrComing'
  <2> SUFFICES ASSUME Clean', ~pgPast'.failed, pgKind' = "owners"
               PROVE  /\ pgIcon' => \/ (pgAddress \in pgWells.given)'
                                    \/ \E d \in Batches : LookedUp(d)'
                      /\ (pgAddress \in pgWells.given)' =>
                              pgIcon' \/ \E d \in Batches : Owing(d)'
    BY DEF PgIconOrComing
  <2>1. Clean /\ ~pgPast.failed /\ pgKind = "owners" /\ w = pgAddress
    BY <1>1, <1>3, <1>7 DEF Clean
  <2>2. Owing(b) => pgIcon'
    BY <1>1, <1>9, <2>1 DEF Owing
  <2> QED
    BY <1>a, <1>1, <1>6, <1>9, <1>11, <2>1, <2>2 DEF PgIconOrComing
<1>16. PgGiven' /\ PgLock'
  BY <1>a, <1>1, <1>3, <1>6, <1>7, <1>8, BatchFacts DEF PgGiven, PgLock
<1> QED
  BY <1>6, <1>10, <1>12, <1>13, <1>14, <1>15, <1>16 DEF PgInv, PgParts

\* A trade is over: a reading for the project of its click, and a lookup of the address then.
LEMMA TradeRereadInv ==
    ASSUME PgInv, TradeReread
    PROVE  PgInv'
<1>a. PgTypes /\ PgOrder /\ PgShownOrComing /\ PgCardOrComing /\ PgLowOfCard /\ PgIconOrComing
      /\ PgGiven /\ PgLock /\ pgBatches \in [Batches -> Batch]
  BY DEF PgInv, PgParts, PgTypes
<1> DEFINE n == ReadingOf(pgTask.of, {"pool", "balance"})
           m == Lookup(pgTask.address)
<1>1. PICK b \in Batches :
          /\ NextBatch(b) /\ b < MaxBatches
          /\ pgBatches' = [pgBatches EXCEPT ![b] = n, ![b + 1] = m]
  BY DEF TradeReread
<1>2. /\ pgTask.pc = "poll" /\ pgTask' = NoTask
      /\ UNCHANGED <<pgKind, pgAddress, pgShown, pgCard, pgLow, pgIcon, pgLocked, pgWells, pgFaults,
                     pgPast>>
  BY DEF TradeReread
<1>3. /\ n \in Batch /\ m \in Batch /\ n.pc \in {"reading", "over"} /\ m.pc = "asked"
      /\ n.pc = "reading" => n.of \in Wells
      /\ n.pc = "reading" /\ n.given => n.of \in pgWells.given
      /\ m.of \in Wells
  <2>1. pgTask.of \in Wells /\ pgTask.address \in Wells
    BY <1>a, <1>2 DEF PgTypes
  <2> QED
    BY <2>1, ReadingOfFacts, BatchFacts
<1> HIDE DEF n, m
<1>4. b \in Int /\ b + 1 \in Batches /\ b < b + 1 /\ MaxBatches \in Nat
  BY <1>1, ProjectPageAssumption DEF Batches
<1>5. pgBatches[b].pc = "idle" /\ pgBatches[b + 1].pc = "idle"
  BY <1>a, <1>1, <1>4 DEF NextBatch, PgOrder
<1>6. /\ pgBatches' \in [Batches -> Batch] /\ pgBatches'[b] = n /\ pgBatches'[b + 1] = m
      /\ \A d \in Batches \ {b, b + 1} : pgBatches'[d] = pgBatches[d]
  BY <1>a, <1>1, <1>3, <1>4
<1>7. /\ \A d \in Batches : pgBatches[d].pc # "idle" => pgBatches'[d] = pgBatches[d]
      /\ \A d \in Batches : pgBatches'[d].pc \in {"asked", "reading"} => pgBatches'[d].of \in Wells
  BY <1>a, <1>3, <1>5, <1>6 DEF PgTypes
<1>8. PgOrder'
  <2> SUFFICES ASSUME NEW d \in Batches, NEW e \in Batches, d < e, pgBatches'[d].pc = "idle"
               PROVE  pgBatches'[e].pc = "idle"
    BY DEF PgOrder
  <2>1. d # b /\ d # b + 1 /\ pgBatches[d].pc = "idle" /\ pgBatches[e].pc = "idle"
    BY <1>a, <1>3, <1>6, <1>7 DEF PgOrder
  <2>2. d \in Int /\ e \in Int /\ d >= 1
    BY DEF Batches
  <2>3. ~(d < b)
    BY <1>1, <1>4, <2>1, <2>2 DEF NextBatch
  <2>4. e # b /\ e # b + 1
    BY <1>4, <2>1, <2>2, <2>3
  <2> QED
    BY <1>6, <2>1, <2>4
<1>9. PgTypes'
  BY <1>a, <1>2, <1>6, <1>7 DEF PgTypes, NoTask, PgTask, SomeWell
<1>10. \A d \in Batches : /\ LookedUp(d) => LookedUp(d)'
                          /\ Coming(d) => Coming(d)'
                          /\ Owing(d) => Owing(d)'
  BY <1>2, <1>7, BatchesKept
<1>11. PgShownOrComing'
  BY <1>a, <1>2, <1>10 DEF PgShownOrComing, Clean
<1>12. PgCardOrComing'
  BY <1>a, <1>2, <1>10 DEF PgCardOrComing, Clean
<1>13. PgLowOfCard' /\ PgLock'
  BY <1>a, <1>2 DEF PgLowOfCard, Marked, PgLock
<1>14. PgIconOrComing'
  BY <1>a, <1>2, <1>10 DEF PgIconOrComing, Clean
<1>15. PgGiven'
  BY <1>a, <1>2, <1>3, <1>6 DEF PgGiven
<1> QED
  BY <1>8, <1>9, <1>11, <1>12, <1>13, <1>14, <1>15 DEF PgInv, PgParts

\* A transfer of the ownership is over: the icons are read again.
LEMMA OwnershipEndsInv ==
    ASSUME PgInv, OwnershipEnds
    PROVE  PgInv'
<1>a. PgTypes /\ PgOrder /\ PgShownOrComing /\ PgCardOrComing /\ PgLowOfCard /\ PgIconOrComing
      /\ PgGiven /\ PgLock /\ pgBatches \in [Batches -> Batch]
      /\ pgWells \in [filled : SUBSET Wells, given : SUBSET Wells]
  BY DEF PgInv, PgParts, PgTypes
<1> DEFINE w == pgTask.of
           r == ReadingOf(w, {"owners"})
<1>1. /\ pgTask.pc = "give" /\ pgIcon' = FALSE /\ pgTask' = NoTask
      /\ UNCHANGED <<pgKind, pgAddress, pgShown, pgCard, pgLow, pgLocked, pgFaults, pgPast>>
  BY DEF OwnershipEnds
<1>2. PICK done \in BOOLEAN, b \in Batches :
          LET given == IF done THEN pgWells.given \cup {w} ELSE pgWells.given
          IN  /\ NextBatch(b)
              /\ pgWells' = [pgWells EXCEPT !.given = given]
              /\ pgBatches' = [pgBatches EXCEPT ![b] = [r EXCEPT
                     !.given = pgKind = "owners" /\ w \in given]]
  BY DEF OwnershipEnds
<1> DEFINE given == IF done THEN pgWells.given \cup {w} ELSE pgWells.given
<1>3. w \in Wells
  BY <1>a, <1>1 DEF PgTypes
<1>4. PICK g \in BOOLEAN : g = (pgKind = "owners" /\ w \in given)
  OBVIOUS
<1>5. g <=> pgKind = "owners" /\ w \in given
  BY <1>4
<1> DEFINE n == [r EXCEPT !.given = g]
<1>6. NextBatch(b) /\ pgBatches' = [pgBatches EXCEPT ![b] = n]
  BY <1>2, <1>4
<1>7. /\ pgWells' \in [filled : SUBSET Wells, given : SUBSET Wells] /\ pgWells'.given = given
      /\ pgWells.given \subseteq given /\ \A v \in given : v \in pgWells.given \/ v = w
  <2>1. given \in SUBSET Wells
    BY <1>a, <1>3
  <2>2. pgWells.given \subseteq given /\ \A v \in given : v \in pgWells.given \/ v = w
    OBVIOUS
  <2>3. pgWells' = [pgWells EXCEPT !.given = given]
    BY <1>2
  <2> HIDE DEF given
  <2> QED
    BY <1>a, <2>1, <2>2, <2>3
<1> HIDE DEF given
<1>8. /\ n \in Batch /\ n.pc \in {"reading", "over"}
      /\ n.pc = "reading" => n.of = w
      /\ pgKind = "owners" => n.pc = "reading"
      /\ n.given <=> g
  <2>1. /\ r \in Batch /\ r.pc \in {"reading", "over"} /\ (r.pc = "reading" => r.of = w)
        /\ pgKind = "owners" => r.pc = "reading"
    BY <1>3, ReadingOfFacts
  <2> HIDE DEF r
  <2> QED
    BY <2>1 DEF Batch
<1> HIDE DEF n
<1>9. /\ pgBatches' \in [Batches -> Batch] /\ pgBatches'[b] = n
      /\ \A d \in Batches \ {b} : pgBatches'[d] = pgBatches[d]
      /\ \A d \in Batches : pgBatches[d].pc # "idle" => pgBatches'[d] = pgBatches[d]
      /\ \A d \in Batches : pgBatches'[d].pc \in {"asked", "reading"} => pgBatches'[d].of \in Wells
      /\ PgOrder'
  <2>1. /\ n.pc # "idle" /\ n \in Batch
        /\ n.pc \in {"asked", "reading"} => n.of \in Wells
    BY <1>3, <1>8
  <2> QED
    BY <1>a, <1>6, <2>1, BatchStarts
<1>10. PgTypes'
  BY <1>a, <1>1, <1>7, <1>9 DEF PgTypes, NoTask, PgTask, SomeWell
<1>11. \A d \in Batches : /\ LookedUp(d) => LookedUp(d)'
                          /\ Coming(d) => Coming(d)'
                          /\ Owing(d) => Owing(d)'
  BY <1>1, <1>9, BatchesKept
<1>12. PgShownOrComing'
  BY <1>a, <1>1, <1>11 DEF PgShownOrComing, Clean
<1>13. PgCardOrComing'
  BY <1>a, <1>1, <1>11 DEF PgCardOrComing, Clean
<1>14. PgLowOfCard' /\ PgLock'
  BY <1>a, <1>1 DEF PgLowOfCard, Marked, PgLock
<1>15. PgIconOrComing'
  <2> SUFFICES ASSUME pgKind = "owners", pgAddress \in given PROVE Owing(b)'
    BY <1>1, <1>7 DEF PgIconOrComing
  <2>1. w = pgAddress => g
    BY <1>5
  <2> QED
    BY <1>1, <1>8, <1>9, <2>1 DEF Owing
<1>16. PgGiven'
  BY <1>a, <1>5, <1>7, <1>8, <1>9 DEF PgGiven
<1> QED
  BY <1>9, <1>10, <1>12, <1>13, <1>14, <1>15, <1>16 DEF PgInv, PgParts

\* The page of a project, step by step.
LEMMA PgStepInv ==
    ASSUME PgInv, [ProjectNext]_pgVars
    PROVE  PgInv'
<1>a. PgTypes /\ PgOrder
  BY DEF PgInv
<1>1. CASE StartTask
  <2>1. /\ pgShown # NoWell
        /\ UNCHANGED <<pgKind, pgAddress, pgShown, pgCard, pgLow, pgIcon, pgLocked, pgBatches,
                       pgWells, pgFaults, pgPast>>
    BY <1>1 DEF StartTask
  <2>2. PICK pc \in {"swap", "give"} : pgTask' = [pc |-> pc, of |-> pgShown, address |-> pgAddress]
    BY <1>1 DEF StartTask
  <2>3. PgTypes'
    BY <1>a, <2>1, <2>2 DEF PgTypes, PgTask, SomeWell
  <2>4. PgOrder'
    BY <1>a, <2>1 DEF PgOrder
  <2> QED
    BY <2>1, <2>3, <2>4, PartsKept DEF PgInv
<1>2. CASE TradeTaken
  <2>1. /\ pgTask.pc = "swap" /\ pgTask' = [pgTask EXCEPT !.pc = "poll"]
        /\ pgLocked' = NoWell
        /\ UNCHANGED <<pgKind, pgAddress, pgShown, pgCard, pgLow, pgIcon, pgBatches, pgFaults,
                       pgPast>>
    BY <1>2 DEF TradeTaken
  <2>a. PICK filled \in {pgWells.filled, pgWells.filled \cup {pgTask.of}} :
            pgWells' = [pgWells EXCEPT !.filled = filled]
    BY <1>2 DEF TradeTaken
  <2>2. /\ pgTask' \in PgTask /\ pgTask'.of = pgTask.of /\ pgTask'.address = pgTask.address
        /\ pgTask.of \in Wells /\ pgTask.address \in Wells
    BY <1>a, <2>1 DEF PgTypes, PgTask
  <2>3. /\ pgWells' \in [filled : SUBSET Wells, given : SUBSET Wells]
        /\ pgWells'.given = pgWells.given
    BY <1>a, <2>a, <2>2 DEF PgTypes
  <2>4. PgTypes'
    BY <1>a, <2>1, <2>2, <2>3 DEF PgTypes, SomeWell
  <2>5. PgOrder'
    BY <1>a, <2>1 DEF PgOrder
  <2> QED
    BY <2>1, <2>3, <2>4, <2>5, PartsKept DEF PgInv
<1>3. CASE TaskFails
  <2>1. /\ pgTask' = NoTask
        /\ UNCHANGED <<pgKind, pgAddress, pgShown, pgCard, pgLow, pgIcon, pgLocked, pgBatches,
                       pgWells, pgFaults, pgPast>>
    BY <1>3 DEF TaskFails
  <2>2. PgTypes'
    BY <1>a, <2>1 DEF PgTypes, PgTask, NoTask, SomeWell
  <2>3. PgOrder'
    BY <1>a, <2>1 DEF PgOrder
  <2> QED
    BY <2>1, <2>2, <2>3, PartsKept DEF PgInv
<1>4. ASSUME NEW b \in Batches,
             \/ WellFound(b) \/ LookupRefused(b) \/ CyclesShown(b) \/ PoolShown(b)
             \/ OwnersShown(b) \/ BalanceShown(b) \/ KindRefused(b)
      PROVE  PgInv'
  BY <1>4, WellFoundInv, PageRefusedInv, PageReadInv
<1>5. CASE UNCHANGED pgVars
  <2>1. PgTypes'
    BY <1>a, <1>5 DEF pgVars, PgTypes
  <2>2. PgOrder'
    BY <1>a, <1>5 DEF pgVars, PgOrder
  <2> QED
    BY <1>5, <2>1, <2>2, PartsKept DEF pgVars, PgInv
<1> QED
  BY <1>1, <1>2, <1>3, <1>4, <1>5, OpenWellInv, TradeRereadInv, OwnershipEndsInv DEF ProjectNext

\* The address is looked up, twice.
LEMMA PgInitInv ==
    ASSUME ProjectInit
    PROVE  PgInv
<1>1. FirstWell \in Wells /\ MaxBatches \in Nat \ {0, 1} /\ pgAddress = FirstWell
  BY ProjectPageAssumption DEF ProjectInit
<1>2. /\ pgBatches \in [Batches -> Batch]
      /\ \A b \in Batches : pgBatches[b] = IF b <= 2 THEN Lookup(FirstWell) ELSE NoBatch
  BY <1>1, BatchFacts DEF ProjectInit
<1>3. \A b \in Batches : /\ b <= 2 => pgBatches[b].pc = "asked" /\ pgBatches[b].of = FirstWell
                         /\ ~(b <= 2) => pgBatches[b].pc = "idle"
  BY <1>1, <1>2, BatchFacts
<1>4. 1 \in Batches /\ 1 <= 2 /\ \A d \in Batches : d \in Int
  BY <1>1 DEF Batches
<1>5. LookedUp(1) /\ Coming(1)
  BY <1>1, <1>3, <1>4 DEF LookedUp, Coming
<1>6. pgWells \in [filled : SUBSET Wells, given : SUBSET Wells]
  <2>1. (IF pgKind = "pool" THEN SUBSET Wells ELSE {Wells}) \subseteq SUBSET Wells
    OBVIOUS
  <2>2. (IF pgKind = "owners" THEN SUBSET Wells ELSE {{}}) \subseteq SUBSET Wells
    OBVIOUS
  <2> QED
    BY <2>1, <2>2 DEF ProjectInit
<1>7. PgTypes
  <2>1. \A b \in Batches : pgBatches[b].pc \in {"asked", "reading"} => pgBatches[b].of \in Wells
    BY <1>1, <1>3
  <2> QED
    BY <1>1, <1>2, <1>6, <2>1 DEF ProjectInit, PgTypes, PgTask, NoTask, PgPast, SomeWell
<1>8. PgOrder
  <2> SUFFICES ASSUME NEW d \in Batches, NEW e \in Batches, d < e, pgBatches[d].pc = "idle"
               PROVE  pgBatches[e].pc = "idle"
    BY DEF PgOrder
  <2>1. ~(d <= 2) /\ ~(e <= 2)
    BY <1>3, <1>4
  <2> QED
    BY <1>3, <2>1
<1>9. PgShownOrComing /\ PgCardOrComing
  BY <1>4, <1>5 DEF PgShownOrComing, PgCardOrComing
<1>10. PgLowOfCard /\ PgLock
  BY <1>1 DEF ProjectInit, PgLowOfCard, PgLock
<1>11. PgIconOrComing
  <2>1. Owing(1)
    BY <1>1, <1>3, <1>4 DEF Owing
  <2> QED
    BY <1>4, <1>5, <2>1 DEF PgIconOrComing
<1>12. PgGiven
  <2>1. \A b \in Batches : pgBatches[b].pc # "reading"
    BY <1>3
  <2> QED
    BY <2>1 DEF PgGiven
<1> QED
  BY <1>7, <1>8, <1>9, <1>10, <1>11, <1>12 DEF PgInv, PgParts

-----------------------------------------------------------------------------
(* The pages: their parts side by side. *)

\* A step of the pages is a step of each part, or leaves it as it was: only the part that the
\* behaviour exercises changes.
LEMMA PartsStep ==
    ASSUME [Next]_vars
    PROVE  /\ [HomeNext]_homeVars /\ [ListNext]_listVars /\ [PostNext]_postVars
           /\ [QuoteNext]_quoteVars /\ [SendIcpNext]_icpVars /\ [SendTokenNext]_tokVars
           /\ [AddCyclesNext]_cycVars /\ [ProfileNext]_profVars /\ [StepNext]_stepVars
           /\ [ContextNext]_ctxVars /\ [GodNext]_godVars /\ [RowsNext]_rowVars
           /\ [UserPageNext]_coinVars /\ [ProjectNext]_pgVars
<1>1. CASE UNCHANGED vars
  BY <1>1 DEF vars
<1>2. CASE Next
  BY <1>2 DEF Next, Only
<1> QED
  BY <1>1, <1>2

\* The list of the board is what was asked for last (ListAgrees of HomeList).
THEOREM BoardListsWhatWasAsked == Spec => []ListAgrees
<1>1. Init => HomeInv
  BY HomeInitInv DEF Init
<1>2. HomeInv /\ [Next]_vars => HomeInv'
  BY PartsStep, HomeStepInv
<1>3. HomeInv => ListAgrees
  BY DEF HomeInv
<1> QED
  BY <1>1, <1>2, <1>3, PTL DEF Spec

\* Once every quote is answered the amount shown is that of the form, unless an earlier quote
\* was answered after a later one, the last one was rejected, or another project was opened;
\* only a rejected quote leaves the spinner turning (switchIcp, debounceSwitchIcp and its
\* effect).
THEOREM QuotesAsAsked == Spec => []QuoteAgrees
<1>1. Init => QuoteInv
  BY QuoteInitInv DEF Init
<1>2. QuoteInv /\ [Next]_vars => QuoteInv'
  BY PartsStep, QuoteStepInv
<1>3. QuoteInv => QuoteAgrees
  BY DEF QuoteInv
<1> QED
  BY <1>1, <1>2, <1>3, PTL DEF Spec

\* The comments shown are of the project shown and leave no gap, and what is sent is what was
\* written when the button was clicked, but for the reasons CommentListAgrees and PostsAgree
\* name (getCommentsByIndex, loadData; BtnPostreply, ReqAddComment).
THEOREM CommentsAlwaysAgree == Spec => []CommentsAgree
<1>1. Init => LstInv /\ PostInv
  BY LstInitInv, PostInitInv DEF Init
<1>2. LstInv /\ PostInv /\ [Next]_vars => LstInv' /\ PostInv'
  BY PartsStep, LstStepInv, PostStepInv
<1>3. LstInv /\ PostInv => CommentsAgree
  BY LstInvAgrees DEF PostInv, CommentsAgree
<1> QED
  BY <1>1, <1>2, <1>3, PTL DEF Spec

\* The dialogs that send ICP, a token or cycles send what they show and let through only what
\* can be paid, once at a time, and the dialog of the profile saves what it shows, but for the
\* reasons each of them names: the balance that could not be read after a transfer and the
\* zeros "Max" leaves out among them (btnseticp, btnMax, btnBuyamount, editUserInfo).
THEOREM DialogsAlwaysAgree == Spec => []DialogsAgree
<1> DEFINE Dialogs == IcpInv /\ TokInv /\ CycInv /\ ProfInv
<1>1. Init => Dialogs
  BY IcpInitInv, TokInitInv, CycInitInv, ProfInitInv DEF Init
<1>2. Dialogs /\ [Next]_vars => Dialogs'
  BY PartsStep, IcpStepInv, TokStepInv, CycStepInv, ProfStepInv
<1>3. Dialogs => DialogsAgree
  BY IcpInvAgrees, TokInvAgrees, CycInvAgrees, ProfInvAgrees DEF DialogsAgree
<1> QED
  BY <1>1, <1>2, <1>3, PTL DEF Spec

\* A run shows its own steps if those before had ended and their timers had fired, and when
\* all runs have ended, the reading of the profile after a top-up included, the dialog is
\* closed, its flags are reset and the button is free, but for the approvals that are never
\* answered and the reports and quotes that are caught nowhere (execute, getswapTokenToToken,
\* StepCreateFomo, gettopup_points).
THEOREM StepsAlwaysAgree == Spec => []StepsAgree
<1>1. Init => StInv
  BY StInitInv DEF Init
<1>2. StInv /\ [Next]_vars => StInv'
  BY PartsStep, StStepInv
<1>3. StInv => StepsAgree
  BY StInvAgrees
<1> QED
  BY <1>1, <1>2, <1>3, PTL DEF Spec

\* What the header, the board and the pages of a user and of a project read again and again
\* is shown as it was answered, and blank where the last reading was rejected, but for the
\* overlaps and rejections each of them names
\* (getFomContext, defaultgetFomoList, updateFomoUserNames, GertSearch_fomos,
\* search_fomosReq).
THEOREM FeedsAlwaysAgree == Spec => []FeedsAgree
<1> DEFINE Feeds == CtxInv /\ GodInv /\ RowInv /\ CoinInv /\ PgInv
<1>1. Init => Feeds
  BY CtxInitInv, GodInitInv, RowInitInv, CoinInitInv, PgInitInv DEF Init
<1>2. Feeds /\ [Next]_vars => Feeds'
  BY PartsStep, CtxStepInv, GodStepInv, RowStepInv, CoinStepInv, PgStepInv
<1>3. GodInv /\ RowInv => CardsAgree
  BY GodInvAgrees, RowInvAgrees DEF CardsAgree, CardsTypes, GodInv, GodTypes, RowInv, RowTypes
<1>4. Feeds => FeedsAgree
  BY <1>3, CtxInvAgrees, CoinInvAgrees, PgInvAgrees DEF FeedsAgree
<1> QED
  BY <1>1, <1>2, <1>4, PTL DEF Spec

=============================================================================
