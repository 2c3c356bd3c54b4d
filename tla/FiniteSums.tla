----------------------------- MODULE FiniteSums -----------------------------
(***************************************************************************)
(* Sums over finite sets, as MapThenSumSet of the community modules        *)
(* defines them: what an entry more or a larger entry does to a sum.       *)
(*                                                                         *)
(* The sum takes the elements in the order of CHOOSE; that the order does  *)
(* not matter is shown for a smallest set for which it would: the subsets  *)
(* of a finite set are well-founded under inclusion.                       *)
(***************************************************************************)
EXTENDS Integers, FiniteSets, FiniteSetsExt, FiniteSetTheorems, TLAPS

\* Among sets of elements of a finite set there is a smallest.
LEMMA SmallestSet ==
    ASSUME NEW S, IsFiniteSet(S), NEW Bad, Bad \subseteq SUBSET S, Bad # {}
    PROVE  \E T \in Bad : IsFiniteSet(T) /\ \A U \in Bad : U \subseteq T => U = T
<1>1. Bad \subseteq FiniteSubsetsOf(S)
  BY FS_FiniteSubsetsOfFinite
<1>2. PICK T \in Bad : \A U \in Bad : ~(<<U, T>> \in StrictSubsetOrdering(S))
  BY <1>1, FS_StrictSubsetOrderingWellFounded, WFMin
<1>3. \A U \in Bad : U \subseteq T => U = T
  BY <1>2 DEF StrictSubsetOrdering
<1>4. IsFiniteSet(T)
  BY FS_Subset
<1> QED BY <1>3, <1>4

\* The amounts of the entries of a for a set of indices.
Sum(a, S) == MapThenSumSet(LAMBDA i : a[i], S)

SumStep(a, g, s) ==
    IF s = {} THEN 0 ELSE LET x == CHOOSE x \in s : TRUE IN a[x] + g[s \ {x}]

\* The function that MapThenSumSet computes the sums of the subsets of S by.
Sums(a, S, g) == g = [s \in SUBSET S |-> SumStep(a, g, s)]

\* There is one: a function that is right about the smaller sets makes one that is right
\* about the next larger.
LEMMA SumsExist ==
    ASSUME NEW S, IsFiniteSet(S), NEW a
    PROVE  \E g : Sums(a, S, g)
<1> DEFINE RightUpTo(n, g) ==
               /\ g = [s \in SUBSET S |-> g[s]]
               /\ \A s \in SUBSET S : Cardinality(s) <= n => g[s] = SumStep(a, g, s)
           Bad == {T \in SUBSET S : ~ \E g : RightUpTo(Cardinality(T), g)}
<1>1. \A s \in SUBSET S : IsFiniteSet(s) /\ Cardinality(s) \in Nat
                          /\ Cardinality(s) <= Cardinality(S)
  BY FS_Subset, FS_CardinalityType
<1>2. Bad = {}
  <2> SUFFICES ASSUME Bad # {} PROVE FALSE
    OBVIOUS
  <2>1. PICK T \in Bad : \A U \in Bad : U \subseteq T => U = T
    <3> HIDE DEF Bad
    <3>1. Bad \subseteq SUBSET S
      BY DEF Bad
    <3> QED BY <3>1, SmallestSet
  <2>2. T # {}
    <3> SUFFICES ASSUME T = {} PROVE FALSE
      OBVIOUS
    <3> DEFINE g == [s \in SUBSET S |-> 0]
    <3>1. \A s \in SUBSET S : Cardinality(s) <= Cardinality(T) => s = {}
      BY <1>1, FS_EmptySet
    <3>2. RightUpTo(Cardinality(T), g)
      BY <3>1 DEF SumStep
    <3> QED BY <3>2
  <2>3. PICK x \in T : TRUE
    BY <2>2
  <2> DEFINE U == T \ {x}
             n == Cardinality(U)
  <2>4. U \in SUBSET S /\ U \notin Bad /\ n \in Nat /\ Cardinality(T) = n + 1
    <3>1. U \in SUBSET S /\ U \subseteq T /\ U # T
      BY <2>3
    <3>2. U \notin Bad
      BY <2>1, <3>1
    <3>3. Cardinality(T) = n + 1 /\ n \in Nat
      <4>1. IsFiniteSet(T) /\ Cardinality(T) \in Nat /\ n \in Nat
        BY <1>1, <3>1
      <4>2. n = Cardinality(T) - 1
        BY <2>3, <4>1, FS_RemoveElement
      <4> QED BY <4>1, <4>2
    <3> QED BY <3>1, <3>2, <3>3
  <2>5. PICK g : RightUpTo(n, g)
    BY <2>4
  <2> DEFINE f == [s \in SUBSET S |-> SumStep(a, g, s)]
  <2>6. RightUpTo(n + 1, f)
    <3>1. f = [s \in SUBSET S |-> f[s]]
      OBVIOUS
    <3>2. ASSUME NEW s \in SUBSET S, Cardinality(s) <= n + 1
          PROVE  f[s] = SumStep(a, f, s)
      <4>1. CASE s = {}
        BY <4>1 DEF SumStep
      <4>2. CASE s # {}
        <5> DEFINE y == CHOOSE y \in s : TRUE
                   r == s \ {y}
        <5>1. y \in s
          BY <4>2
        <5>2. r \in SUBSET S /\ Cardinality(r) <= n
          <6>1. IsFiniteSet(s) /\ Cardinality(s) \in Nat
            BY <1>1
          <6>2. Cardinality(r) = Cardinality(s) - 1
            BY <5>1, <6>1, FS_RemoveElement
          <6> QED BY <2>4, <3>2, <6>1, <6>2
        <5>3. g[r] = SumStep(a, g, r)
          BY <2>5, <5>2
        <5>4. f[r] = g[r]
          BY <5>2, <5>3
        <5>5. f[s] = SumStep(a, g, s)
          OBVIOUS
        <5> HIDE DEF f
        <5> QED BY <4>2, <5>4, <5>5 DEF SumStep
      <4> QED BY <4>1, <4>2
    <3> QED BY <3>1, <3>2
  <2>7. T \notin Bad
    BY <2>4, <2>6
  <2> QED BY <2>1, <2>7
<1>3. PICK g : RightUpTo(Cardinality(S), g)
  BY <1>2
<1> QED BY <1>1, <1>3 DEF Sums

LEMMA SumIsOne ==
    ASSUME NEW S, IsFiniteSet(S), NEW a
    PROVE  \E g : Sums(a, S, g) /\ Sum(a, S) = g[S]
<1> DEFINE it == CHOOSE it : it = [s \in SUBSET S |->
                    IF s = {} THEN 0
                    ELSE LET x == CHOOSE x \in s : TRUE IN a[x] + it[s \ {x}]]
<1>1. Sum(a, S) = it[S]
  BY DEF Sum, MapThenSumSet, MapThenFoldSet
<1>2. PICK g : Sums(a, S, g)
  BY SumsExist
<1>3. Sums(a, S, it)
  BY <1>2 DEF Sums, SumStep
<1> HIDE DEF it
<1> QED BY <1>1, <1>3

\* Any element may be taken out first.
TakesAny(a, g, s) == g[s] \in Int /\ \A x \in s : g[s] = a[x] + g[s \ {x}]

LEMMA SumsTakeAny ==
    ASSUME NEW S, IsFiniteSet(S), NEW a, NEW g, Sums(a, S, g),
           \A i \in S : a[i] \in Int
    PROVE  \A s \in SUBSET S : TakesAny(a, g, s)
<1> DEFINE Good(s) == g[s] \in Int /\ \A x \in s : g[s] = a[x] + g[s \ {x}]
           Bad == {s \in SUBSET S : ~Good(s)}
<1>1. \A s \in SUBSET S : g[s] = SumStep(a, g, s)
  BY DEF Sums
<1>2. SUFFICES ASSUME Bad # {} PROVE FALSE
  BY DEF TakesAny
<1>3. PICK T \in Bad : \A U \in Bad : U \subseteq T => U = T
  <2> HIDE DEF Bad
  <2>1. Bad \subseteq SUBSET S
    BY DEF Bad
  <2> QED BY <1>2, <2>1, SmallestSet
<1>4. ASSUME NEW x \in T
      PROVE  T \ {x} \in SUBSET S /\ Good(T \ {x})
  <2>1. T \ {x} \in SUBSET S /\ T \ {x} \subseteq T /\ T \ {x} # T
    OBVIOUS
  <2>2. T \ {x} \notin Bad
    BY <1>3, <2>1
  <2> QED BY <2>1, <2>2
<1>5. T # {}
  <2>1. {} \in SUBSET S
    OBVIOUS
  <2>2. g[{}] = 0
    BY <1>1, <2>1 DEF SumStep
  <2>3. Good({})
    BY <2>2
  <2> QED BY <2>3
<1> DEFINE c == CHOOSE x \in T : TRUE
<1>6. c \in T /\ g[T] = a[c] + g[T \ {c}]
  BY <1>1, <1>5 DEF SumStep
<1> HIDE DEF c
<1>7. g[T] \in Int
  BY <1>4, <1>6
<1>8. ASSUME NEW x \in T, x # c
      PROVE  g[T] = a[x] + g[T \ {x}]
  <2> DEFINE U == (T \ {c}) \ {x}
  <2>1. g[T \ {c}] = a[x] + g[U]
    BY <1>4, <1>6, <1>8
  <2>2. g[T \ {x}] = a[c] + g[(T \ {x}) \ {c}]
    BY <1>4, <1>6, <1>8
  <2>3. g[T \ {x}] = a[c] + g[U]
    <3>1. (T \ {x}) \ {c} = U
      OBVIOUS
    <3> QED BY <2>2, <3>1
  <2>4. g[U] \in Int /\ a[x] \in Int /\ a[c] \in Int
    <3>1. U \in SUBSET S /\ U \subseteq T /\ U # T
      OBVIOUS
    <3>2. U \notin Bad
      BY <1>3, <3>1
    <3> QED BY <1>6, <3>1, <3>2
  <2>5. g[T] = a[c] + (a[x] + g[U])
    BY <1>6, <2>1
  <2>6. a[c] + (a[x] + g[U]) = a[x] + (a[c] + g[U])
    BY <2>4
  <2> QED BY <2>3, <2>5, <2>6
<1>9. Good(T)
  BY <1>6, <1>7, <1>8
<1> QED BY <1>3, <1>9

\* The sum of a set depends on nothing but the amounts in it.
LEMMA SumsAgree ==
    ASSUME NEW S, IsFiniteSet(S), NEW a, NEW g, Sums(a, S, g),
           NEW R, NEW b, NEW f, Sums(b, R, f), S \subseteq R,
           \A i \in S : a[i] = b[i]
    PROVE  \A s \in SUBSET S : g[s] = f[s]
<1> DEFINE Bad == {s \in SUBSET S : g[s] # f[s]}
<1>1. \A s \in SUBSET S : g[s] = SumStep(a, g, s) /\ f[s] = SumStep(b, f, s)
  BY DEF Sums
<1>2. SUFFICES ASSUME Bad # {} PROVE FALSE
  OBVIOUS
<1>3. PICK T \in Bad : \A U \in Bad : U \subseteq T => U = T
  <2> HIDE DEF Bad
  <2>1. Bad \subseteq SUBSET S
    BY DEF Bad
  <2> QED BY <1>2, <2>1, SmallestSet
<1>4. T # {}
  BY <1>1 DEF SumStep
<1> DEFINE c == CHOOSE x \in T : TRUE
<1>5. /\ c \in T
      /\ g[T] = a[c] + g[T \ {c}]
      /\ f[T] = b[c] + f[T \ {c}]
  BY <1>1, <1>4 DEF SumStep
<1> HIDE DEF c
<1>6. g[T \ {c}] = f[T \ {c}]
  <2>1. T \ {c} \in SUBSET S /\ T \ {c} \subseteq T /\ T \ {c} # T
    BY <1>5
  <2> QED BY <1>3, <2>1
<1> QED BY <1>3, <1>5, <1>6

LEMMA SumEmpty == \A a : Sum(a, {}) = 0
<1> SUFFICES ASSUME NEW a PROVE Sum(a, {}) = 0
  OBVIOUS
<1>1. PICK g : Sums(a, {}, g) /\ Sum(a, {}) = g[{}]
  BY SumIsOne, FS_EmptySet
<1> QED BY <1>1 DEF Sums, SumStep

LEMMA SumInt ==
    ASSUME NEW S, IsFiniteSet(S), NEW a, \A i \in S : a[i] \in Int
    PROVE  Sum(a, S) \in Int
<1>1. PICK g : Sums(a, S, g) /\ Sum(a, S) = g[S]
  BY SumIsOne
<1>2. TakesAny(a, g, S)
  BY <1>1, SumsTakeAny
<1> QED BY <1>1, <1>2 DEF TakesAny

LEMMA SumSame ==
    ASSUME NEW S, IsFiniteSet(S), NEW a, NEW b,
           \A i \in S : a[i] = b[i]
    PROVE  Sum(a, S) = Sum(b, S)
<1>1. PICK g : Sums(a, S, g) /\ Sum(a, S) = g[S]
  BY SumIsOne
<1>2. PICK f : Sums(b, S, f) /\ Sum(b, S) = f[S]
  BY SumIsOne
<1> QED BY <1>1, <1>2, SumsAgree

\* An element may be taken out of the sum.
LEMMA SumTake ==
    ASSUME NEW S, IsFiniteSet(S), NEW x \in S, NEW a, \A i \in S : a[i] \in Int
    PROVE  Sum(a, S) = a[x] + Sum(a, S \ {x})
<1>1. PICK g : Sums(a, S, g) /\ Sum(a, S) = g[S]
  BY SumIsOne
<1>2. TakesAny(a, g, S)
  BY <1>1, SumsTakeAny
<1>3. g[S] = a[x] + g[S \ {x}]
  BY <1>2 DEF TakesAny
<1>4. S \ {x} \subseteq S /\ IsFiniteSet(S \ {x})
  BY FS_Subset
<1>5. PICK f : Sums(a, S \ {x}, f) /\ Sum(a, S \ {x}) = f[S \ {x}]
  BY <1>4, SumIsOne
<1>6. f[S \ {x}] = g[S \ {x}]
  BY <1>1, <1>4, <1>5, SumsAgree
<1> QED BY <1>1, <1>3, <1>5, <1>6

\* One more element adds its amount.
LEMMA SumAdd ==
    ASSUME NEW S, IsFiniteSet(S), NEW x, x \notin S, NEW a,
           \A i \in S \cup {x} : a[i] \in Int
    PROVE  Sum(a, S \cup {x}) = Sum(a, S) + a[x]
<1>1. IsFiniteSet(S \cup {x}) /\ x \in S \cup {x} /\ (S \cup {x}) \ {x} = S
  BY FS_AddElement
<1>2. Sum(a, S \cup {x}) = a[x] + Sum(a, S)
  BY <1>1, SumTake
<1>3. Sum(a, S) \in Int /\ a[x] \in Int
  BY SumInt
<1> QED BY <1>2, <1>3

LEMMA SumZero ==
    ASSUME NEW S, IsFiniteSet(S), NEW a, \A i \in S : a[i] = 0
    PROVE  Sum(a, S) = 0
<1> DEFINE Bad == {T \in SUBSET S : Sum(a, T) # 0}
<1>1. SUFFICES ASSUME Bad # {} PROVE FALSE
  OBVIOUS
<1>2. PICK T \in Bad : IsFiniteSet(T) /\ \A U \in Bad : U \subseteq T => U = T
  <2> HIDE DEF Bad
  <2>1. Bad \subseteq SUBSET S
    BY DEF Bad
  <2> QED BY <1>1, <2>1, SmallestSet
<1>3. PICK x \in T : TRUE
  BY <1>2, SumEmpty
<1>4. T \ {x} \in SUBSET S /\ T \ {x} \subseteq T /\ T \ {x} # T
  BY <1>3
<1>5. Sum(a, T \ {x}) = 0
  BY <1>2, <1>4
<1>6. \A i \in T : a[i] \in Int
  OBVIOUS
<1>7. Sum(a, T) = a[x] + Sum(a, T \ {x})
  BY <1>2, <1>3, <1>6, SumTake
<1> QED BY <1>2, <1>3, <1>5, <1>7

\* A larger or smaller amount changes the sum by the difference.
LEMMA SumChanged ==
    ASSUME NEW S, IsFiniteSet(S), NEW x \in S, NEW a, NEW b,
           \A i \in S : a[i] \in Int /\ b[i] \in Int,
           \A i \in S \ {x} : b[i] = a[i]
    PROVE  Sum(b, S) = Sum(a, S) + (b[x] - a[x])
<1>1. IsFiniteSet(S \ {x}) /\ \A i \in S \ {x} : a[i] = b[i]
  BY FS_Subset
<1>2. Sum(a, S) = a[x] + Sum(a, S \ {x}) /\ Sum(b, S) = b[x] + Sum(b, S \ {x})
  BY SumTake
<1>3. Sum(a, S \ {x}) = Sum(b, S \ {x}) /\ Sum(a, S \ {x}) \in Int
  BY <1>1, SumSame, SumInt
<1> QED BY <1>2, <1>3

=============================================================================
