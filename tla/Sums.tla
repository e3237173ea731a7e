-------------------------------- MODULE Sums --------------------------------
(***************************************************************************)
(* Sums of integers over finite sets, SumFunction of the community module  *)
(* Functions.  It is defined by recursion on the subsets of the domain, so *)
(* that what it computes has to be established by induction; the induction *)
(* is that on finite sets, in the form that speaks of a set of sets.       *)
(***************************************************************************)
EXTENDS Integers, Functions, FiniteSetTheorems, WellFoundedInduction, TLAPS

(***************************************************************************)
(* Induction.                                                              *)
(***************************************************************************)

\* A family of sets that holds a subset of S as soon as it holds the subset
\* without each of its elements, holds S.
LEMMA SetInduction ==
  ASSUME NEW S, IsFiniteSet(S), NEW G,
         \A T \in SUBSET S : (\A y \in T : T \ {y} \in G) => T \in G
  PROVE  S \in G
<1> SUFFICES ASSUME S \notin G PROVE FALSE
  OBVIOUS
<1> DEFINE B == {T \in SUBSET S : T \notin G}
<1>1. B \subseteq FiniteSubsetsOf(S) /\ B # {}
  BY FS_FiniteSubsetsOfFinite
<1>2. IsWellFoundedOn(StrictSubsetOrdering(S), FiniteSubsetsOf(S))
  BY FS_StrictSubsetOrderingWellFounded
<1>3. PICK T \in B : \A U \in B : <<U, T>> \notin StrictSubsetOrdering(S)
  <2> HIDE DEF B
  <2> QED BY <1>1, <1>2, WFMin
<1>4. ASSUME NEW y \in T PROVE T \ {y} \in G
  <2>1. <<T \ {y}, T>> \in StrictSubsetOrdering(S)
    BY DEF StrictSubsetOrdering
  <2> QED BY <1>3, <2>1
<1> QED BY <1>4

\* A set of numbers that holds 0 and what follows each of its numbers holds
\* every number.
LEMMA NumberInduction ==
  ASSUME NEW G, 0 \in G, \A n \in Nat : n \in G => n + 1 \in G, NEW n \in Nat
  PROVE  n \in G
<1> SUFFICES ASSUME n \notin G PROVE FALSE
  OBVIOUS
<1> DEFINE D == {0 .. m : m \in {m \in 0 .. n : m \notin G}}
<1>1. D \subseteq FiniteSubsetsOf(0 .. n) /\ D # {}
  <2>1. IsFiniteSet(0 .. n)
    BY FS_Interval
  <2>2. D \subseteq SUBSET (0 .. n) /\ 0 .. n \in D
    OBVIOUS
  <2> QED BY <2>1, <2>2, FS_FiniteSubsetsOfFinite
<1>2. IsWellFoundedOn(StrictSubsetOrdering(0 .. n), FiniteSubsetsOf(0 .. n))
  BY FS_StrictSubsetOrderingWellFounded
<1>3. PICK T \in D : \A U \in D : <<U, T>> \notin StrictSubsetOrdering(0 .. n)
  <2> HIDE DEF D
  <2> QED BY <1>1, <1>2, WFMin
<1>4. PICK m \in 0 .. n : m \notin G /\ T = 0 .. m
  BY <1>3
<1>5. m - 1 \in 0 .. n /\ m - 1 \notin G
  BY <1>4
<1>6. 0 .. m - 1 \in D
  BY <1>5
<1>7. <<0 .. m - 1, 0 .. m>> \in StrictSubsetOrdering(0 .. n)
  BY <1>5 DEF StrictSubsetOrdering
<1> QED BY <1>3, <1>4, <1>6, <1>7

(***************************************************************************)
(* The recursion behind SumFunction.                                       *)
(***************************************************************************)

\* The element that the sum over s takes first.
Pick(s) == CHOOSE x \in s : TRUE

\* g has the sums of f over the subsets of S.
SumsOf(f, S, g) ==
  g = [s \in SUBSET S |-> IF s = {} THEN 0 ELSE f[Pick(s)] + g[s \ {Pick(s)}]]

\* A nonempty set without its first element is a smaller set.
LEMMA PickFacts ==
  ASSUME NEW S, NEW s \in SUBSET S, s # {}
  PROVE  Pick(s) \in s /\ s \ {Pick(s)} \in SUBSET S
BY DEF Pick

\* SumFunction is the value at its domain of what the recursion defines.
LEMMA SumUnfold ==
  ASSUME NEW f
  PROVE  SumFunction(f) = (CHOOSE g : SumsOf(f, DOMAIN f, g))[DOMAIN f]
BY DEF SumFunction, SumFunctionOnSet, FoldFunctionOnSet, MapThenFoldSet, SumsOf, Pick

\* The recursion defines sums over the subsets of a finite set.
LEMMA SumsExist ==
  ASSUME NEW S, IsFiniteSet(S), NEW f \in [S -> Int]
  PROVE  \E g \in [SUBSET S -> Int] : SumsOf(f, S, g)
<1> DEFINE D(n) == {s \in SUBSET S : Cardinality(s) <= n}
           V(g, s) == IF s = {} THEN 0 ELSE f[Pick(s)] + g[s \ {Pick(s)}]
           G == {n \in Nat : \E g \in [D(n) -> Int] : \A s \in D(n) : g[s] = V(g, s)}
<1>1. \A s \in SUBSET S : IsFiniteSet(s) /\ Cardinality(s) \in Nat
  BY FS_Subset, FS_CardinalityType
<1>2. \A s \in SUBSET S : s # {} =>
        /\ Pick(s) \in S /\ s \ {Pick(s)} \in SUBSET S
        /\ Cardinality(s \ {Pick(s)}) = Cardinality(s) - 1
  BY <1>1, PickFacts, FS_RemoveElement
<1>3. 0 \in G
  <2> DEFINE g == [s \in D(0) |-> 0]
  <2>1. \A s \in D(0) : s = {}
    BY <1>1, FS_EmptySet
  <2>2. g \in [D(0) -> Int] /\ \A s \in D(0) : g[s] = V(g, s)
    BY <2>1
  <2> QED BY <2>2
<1>4. ASSUME NEW n \in Nat, n \in G PROVE n + 1 \in G
  <2>1. PICK g \in [D(n) -> Int] : \A s \in D(n) : g[s] = V(g, s)
    BY <1>4
  <2> DEFINE h == [s \in D(n + 1) |-> V(g, s)]
  <2>2. \A s \in D(n + 1) : s # {} => s \ {Pick(s)} \in D(n)
    BY <1>1, <1>2
  <2>3. D(n) \subseteq D(n + 1)
    BY <1>1
  <2>4. \A s \in D(n) : h[s] = g[s]
    BY <2>1, <2>3
  <2>5. \A s \in D(n + 1) : V(g, s) \in Int
    BY <1>2, <2>1, <2>2
  <2>6. ASSUME NEW s \in D(n + 1) PROVE h[s] = V(h, s)
    <3>1. h[s] = V(g, s)
      OBVIOUS
    <3>2. s # {} => h[s \ {Pick(s)}] = g[s \ {Pick(s)}]
      BY <2>2, <2>4
    <3> QED BY <3>1, <3>2
  <2>7. h \in [D(n + 1) -> Int]
    BY <2>5
  <2>8. \E k \in [D(n + 1) -> Int] : \A s \in D(n + 1) : k[s] = V(k, s)
    <3> HIDE DEF h
    <3> QED BY <2>6, <2>7
  <2> HIDE DEF h, D, V
  <2> QED BY <2>8
<1>5. Cardinality(S) \in G
  <2> HIDE DEF G
  <2> QED BY <1>1, <1>3, <1>4, NumberInduction
<1>6. D(Cardinality(S)) = SUBSET S
  BY <1>1, FS_Subset
<1>7. PICK g \in [SUBSET S -> Int] : \A s \in SUBSET S : g[s] = V(g, s)
  BY <1>5, <1>6
<1>8. SumsOf(f, S, g)
  BY <1>7 DEF SumsOf
<1> QED BY <1>8

\* What SumFunction is: the value at S of a function with the recursion's
\* equation.
LEMMA SumFacts ==
  ASSUME NEW S, IsFiniteSet(S), NEW f \in [S -> Int]
  PROVE  \E g : /\ \A s \in SUBSET S :
                     g[s] = IF s = {} THEN 0 ELSE f[Pick(s)] + g[s \ {Pick(s)}]
                /\ SumFunction(f) = g[S]
<1> DEFINE g == CHOOSE g : SumsOf(f, S, g)
<1>1. SumsOf(f, S, g)
  BY SumsExist
<1>2. SumFunction(f) = g[S]
  BY SumUnfold
<1> HIDE DEF g
<1> QED BY <1>1, <1>2 DEF SumsOf

(***************************************************************************)
(* What proofs use.                                                        *)
(***************************************************************************)

\* A sum of integers is an integer.
LEMMA SumType ==
  ASSUME NEW S, IsFiniteSet(S), NEW f \in [S -> Int]
  PROVE  SumFunction(f) \in Int
<1>1. PICK g : /\ \A s \in SUBSET S :
                    g[s] = IF s = {} THEN 0 ELSE f[Pick(s)] + g[s \ {Pick(s)}]
               /\ SumFunction(f) = g[S]
  BY SumFacts
<1> DEFINE G == {s \in SUBSET S : g[s] \in Int}
<1>2. ASSUME NEW s \in SUBSET S, \A y \in s : s \ {y} \in G PROVE s \in G
  <2>1. CASE s = {}
    <3>1. g[s] = 0
      BY <1>1, <2>1
    <3> QED BY <3>1
  <2>2. CASE s # {}
    <3>1. Pick(s) \in s /\ Pick(s) \in S /\ g[s \ {Pick(s)}] \in Int
      BY <1>2, <2>2, PickFacts
    <3>2. g[s] = f[Pick(s)] + g[s \ {Pick(s)}]
      BY <1>1, <2>2
    <3> QED BY <3>1, <3>2
  <2> QED BY <2>1, <2>2
<1>3. S \in G
  <2> HIDE DEF G
  <2> QED BY <1>2, SetInduction
<1> QED BY <1>1, <1>3

\* A sum of zeros is zero.
LEMMA SumZero ==
  ASSUME NEW S, IsFiniteSet(S), NEW f \in [S -> Int], \A x \in S : f[x] = 0
  PROVE  SumFunction(f) = 0
<1>1. PICK g : /\ \A s \in SUBSET S :
                    g[s] = IF s = {} THEN 0 ELSE f[Pick(s)] + g[s \ {Pick(s)}]
               /\ SumFunction(f) = g[S]
  BY SumFacts
<1> DEFINE G == {s \in SUBSET S : g[s] = 0}
<1>2. ASSUME NEW s \in SUBSET S, \A y \in s : s \ {y} \in G PROVE s \in G
  <2>1. CASE s = {}
    <3>1. g[s] = 0
      BY <1>1, <2>1
    <3> QED BY <3>1
  <2>2. CASE s # {}
    <3>1. Pick(s) \in s /\ Pick(s) \in S /\ g[s \ {Pick(s)}] = 0
      BY <1>2, <2>2, PickFacts
    <3>2. g[s] = f[Pick(s)] + g[s \ {Pick(s)}]
      BY <1>1, <2>2
    <3> QED BY <3>1, <3>2
  <2> QED BY <2>1, <2>2
<1>3. S \in G
  <2> HIDE DEF G
  <2> QED BY <1>2, SetInduction
<1> QED BY <1>1, <1>3

\* A sum changes by what one of its terms changes.
LEMMA SumChange ==
  ASSUME NEW S, IsFiniteSet(S), NEW f \in [S -> Int], NEW h \in [S -> Int],
         NEW x \in S, \A y \in S \ {x} : h[y] = f[y]
  PROVE  SumFunction(h) = SumFunction(f) + (h[x] - f[x])
<1>1. PICK a : /\ \A s \in SUBSET S :
                    a[s] = IF s = {} THEN 0 ELSE f[Pick(s)] + a[s \ {Pick(s)}]
               /\ SumFunction(f) = a[S]
  BY SumFacts
<1>2. PICK b : /\ \A s \in SUBSET S :
                    b[s] = IF s = {} THEN 0 ELSE h[Pick(s)] + b[s \ {Pick(s)}]
               /\ SumFunction(h) = b[S]
  BY SumFacts
<1> DEFINE Gap(s) == IF x \in s THEN h[x] - f[x] ELSE 0
           G == {s \in SUBSET S : a[s] \in Int /\ b[s] = a[s] + Gap(s)}
<1>3. ASSUME NEW s \in SUBSET S, \A y \in s : s \ {y} \in G PROVE s \in G
  <2>1. CASE s = {}
    <3>1. a[s] = 0 /\ b[s] = 0
      BY <1>1, <1>2, <2>1
    <3> QED BY <2>1, <3>1
  <2>2. CASE s # {}
    <3>1. /\ Pick(s) \in s /\ Pick(s) \in S /\ s \ {Pick(s)} \in G
          /\ a[s] = f[Pick(s)] + a[s \ {Pick(s)}]
          /\ b[s] = h[Pick(s)] + b[s \ {Pick(s)}]
      BY <1>1, <1>2, <1>3, <2>2, PickFacts
    <3>2. CASE Pick(s) = x
      BY <3>1, <3>2
    <3>3. CASE Pick(s) # x
      BY <3>1, <3>3
    <3> QED BY <3>2, <3>3
  <2> QED BY <2>1, <2>2
<1>4. S \in G
  <2> HIDE DEF G
  <2> QED BY <1>3, SetInduction
<1> QED BY <1>1, <1>2, <1>4
\* A finite set D whose elements are labelled has as many elements with a label
\* of S as there are with each of them.
LEMMA SumParts ==
  ASSUME NEW S, IsFiniteSet(S), NEW D, IsFiniteSet(D), NEW l
  PROVE  SumFunction([x \in S |-> Cardinality({i \in D : l[i] = x})])
           = Cardinality({i \in D : l[i] \in S})
<1> DEFINE f == [x \in S |-> Cardinality({i \in D : l[i] = x})]
           Of(T) == {i \in D : l[i] \in T}
<1>1. \A E \in SUBSET D : IsFiniteSet(E) /\ Cardinality(E) \in Nat
  BY FS_Subset, FS_CardinalityType
<1>2. f \in [S -> Int] /\ \A x \in S : f[x] = Cardinality({i \in D : l[i] = x})
  <2>1. \A x \in S : {i \in D : l[i] = x} \in SUBSET D
    OBVIOUS
  <2> QED BY <1>1, <2>1
<1> HIDE DEF f
<1>3. PICK a : /\ \A s \in SUBSET S :
                    a[s] = IF s = {} THEN 0 ELSE f[Pick(s)] + a[s \ {Pick(s)}]
               /\ SumFunction(f) = a[S]
  BY <1>2, SumFacts
<1> DEFINE G == {s \in SUBSET S : a[s] = Cardinality(Of(s))}
<1>4. ASSUME NEW s \in SUBSET S, \A y \in s : s \ {y} \in G PROVE s \in G
  <2>1. CASE s = {}
    <3>1. Of(s) = {}
      BY <2>1
    <3>2. a[s] = 0 /\ Cardinality({}) = 0
      BY <1>3, <2>1, FS_EmptySet
    <3> QED BY <3>1, <3>2
  <2>2. CASE s # {}
    <3> DEFINE x == Pick(s)
               One == {i \in D : l[i] = x}
    <3>1. /\ x \in s /\ x \in S /\ s \ {x} \in G
          /\ a[s] = f[x] + a[s \ {x}]
      BY <1>3, <1>4, <2>2, PickFacts
    <3> HIDE DEF x
    <3>2. Of(s) = One \cup Of(s \ {x}) /\ One \cap Of(s \ {x}) = {}
      BY <3>1
    <3>3. One \in SUBSET D /\ Of(s \ {x}) \in SUBSET D
      OBVIOUS
    <3>4. f[x] = Cardinality(One) /\ a[s \ {x}] = Cardinality(Of(s \ {x}))
      BY <1>2, <3>1
    <3> HIDE DEF One, Of
    <3>5. IsFiniteSet(One) /\ IsFiniteSet(Of(s \ {x}))
      BY <1>1, <3>3
    <3>6. Cardinality(One \cup Of(s \ {x}))
            = Cardinality(One) + Cardinality(Of(s \ {x})) - Cardinality(One \cap Of(s \ {x}))
      BY <3>5, FS_Union
    <3>7. Cardinality(Of(s)) = Cardinality(One) + Cardinality(Of(s \ {x})) - Cardinality({})
      BY <3>2, <3>6
    <3>8. Cardinality({}) = 0
      BY FS_EmptySet
    <3>9. Cardinality(One) \in Nat /\ Cardinality(Of(s \ {x})) \in Nat
      BY <1>1, <3>3
    <3> QED BY <3>1, <3>4, <3>7, <3>8, <3>9
  <2> QED BY <2>1, <2>2
<1>5. S \in G
  <2> HIDE DEF G
  <2> QED BY <1>4, SetInduction
<1> QED BY <1>3, <1>5 DEF f
=============================================================================
