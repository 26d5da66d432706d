---------------------------- MODULE ReportsProofs ----------------------------
(***************************************************************************)
(* What sums over finite sets are, and with them: however posting          *)
(* interleaves with the reads of the reports, the statements agree with    *)
(* each other and a consolidation balances, for any chart, entries,        *)
(* companies, rates and number of calls.                                   *)
(***************************************************************************)
EXTENDS Reports, FiniteSetTheorems, SequenceTheorems, WellFoundedInduction, TLAPS

(***************************************************************************)
(* Finite sets                                                             *)
(***************************************************************************)

LEMMA SmallestNumber ==
  ASSUME NEW S \in SUBSET Nat, S # {}
  PROVE  \E x \in S : \A y \in S : x <= y
<1>1. PICK x \in S : \A y \in S : <<y, x>> \notin OpToRel(<, Nat)
  BY NatLessThanWellFounded, WFMin
<1>2. \A y \in S : ~(y < x)
  BY <1>1 DEF OpToRel
<1>3. QED
  BY <1>2

\* A set has fewer elements without one of them.
LEMMA OneLess ==
  ASSUME NEW S, IsFiniteSet(S), NEW x \in S
  PROVE  /\ IsFiniteSet(S \ {x})
         /\ Cardinality(S) \in Nat /\ Cardinality(S \ {x}) \in Nat
         /\ Cardinality(S \ {x}) = Cardinality(S) - 1
  BY FS_RemoveElement, FS_CardinalityType

\* What holds of a set whenever it holds of the set without one element, and
\* of no elements at all, holds of every finite set: F has the sets for which
\* it holds.
LEMMA ByElements ==
  ASSUME NEW S, IsFiniteSet(S), NEW F, {} \in F,
         \A T \in SUBSET S : T # {} /\ (\A x \in T : T \ {x} \in F) => T \in F
  PROVE  S \in F
<1> SUFFICES ASSUME S \notin F PROVE FALSE
  OBVIOUS
<1> DEFINE N == {Cardinality(T) : T \in (SUBSET S) \ F}
<1>1. \A T \in SUBSET S : IsFiniteSet(T) /\ Cardinality(T) \in Nat
  BY FS_Subset, FS_CardinalityType
<1>2. N \in SUBSET Nat /\ N # {}
  BY <1>1
<1>3. PICK n \in N : \A m \in N : n <= m
  BY <1>2, SmallestNumber
<1>4. PICK T \in (SUBSET S) \ F : Cardinality(T) = n
  OBVIOUS
<1>5. ASSUME NEW x \in T PROVE T \ {x} \in F
  <2>1. Cardinality(T) \in Nat /\ Cardinality(T \ {x}) = Cardinality(T) - 1
    BY <1>1, <1>5, OneLess
  <2>2. ~(n <= Cardinality(T \ {x}))
    BY <1>4, <2>1
  <2>3. QED
    BY <1>3, <2>2
<1>6. QED
  BY <1>4, <1>5

(***************************************************************************)
(* Sums over finite sets                                                   *)
(***************************************************************************)

\* The element SumOver takes next.
One(S) == CHOOSE x \in S : TRUE

\* g has the sums of f over the subsets of S.
Adds(g, f, S) ==
  g = [s \in SUBSET S |-> IF s = {} THEN 0 ELSE f[One(s)] + g[s \ {One(s)}]]

LEMMA OneIn == \A S : S # {} => One(S) \in S
  BY DEF One

LEMMA AddsOnce ==
  ASSUME NEW S, IsFiniteSet(S), NEW f, NEW g, NEW h, Adds(g, f, S), Adds(h, f, S)
  PROVE  g = h
<1> DEFINE F == {T \in SUBSET S : g[T] = h[T]}
<1>1. {} \in F
  BY DEF Adds
<1>2. ASSUME NEW T \in SUBSET S, T # {}, \A x \in T : T \ {x} \in F
      PROVE  T \in F
  <2>1. One(T) \in T /\ T \ {One(T)} \in SUBSET S
    BY <1>2, OneIn
  <2>2. /\ g[T] = f[One(T)] + g[T \ {One(T)}]
        /\ h[T] = f[One(T)] + h[T \ {One(T)}]
    BY <1>2 DEF Adds
  <2>3. QED
    BY <1>2, <2>1, <2>2
<1>3. ASSUME NEW T \in SUBSET S PROVE g[T] = h[T]
  <2>1. IsFiniteSet(T) /\ \A U \in SUBSET T : U \in SUBSET S
    BY FS_Subset
  <2> HIDE DEF F
  <2>2. T \in F
    BY <1>1, <1>2, <2>1, ByElements
  <2>3. QED
    BY <2>2 DEF F
<1>4. g = [s \in SUBSET S |-> g[s]] /\ h = [s \in SUBSET S |-> h[s]]
  BY DEF Adds
<1>5. QED
  BY <1>3, <1>4

LEMMA AddsPart ==
  ASSUME NEW S, NEW T \in SUBSET S, NEW f, NEW g, Adds(g, f, S)
  PROVE  Adds([s \in SUBSET T |-> g[s]], f, T)
<1> DEFINE h == [s \in SUBSET T |-> g[s]]
<1>1. ASSUME NEW s \in SUBSET T
      PROVE  h[s] = IF s = {} THEN 0 ELSE f[One(s)] + h[s \ {One(s)}]
  <2>1. s \in SUBSET S /\ s \ {One(s)} \in SUBSET T /\ s \ {One(s)} \in SUBSET S
    OBVIOUS
  <2>2. g[s] = IF s = {} THEN 0 ELSE f[One(s)] + g[s \ {One(s)}]
    BY <2>1 DEF Adds
  <2>3. QED
    BY <2>1, <2>2
<1>2. QED
  BY <1>1 DEF Adds

LEMMA AddsExist ==
  ASSUME NEW S, IsFiniteSet(S), NEW f
  PROVE  \E g : Adds(g, f, S)
<1> DEFINE F == {T \in SUBSET S : \E g : Adds(g, f, T)}
           G(T) == CHOOSE g : Adds(g, f, T)
<1>1. {} \in F
  <2>1. Adds([s \in SUBSET {} |-> 0], f, {})
    BY DEF Adds
  <2>2. QED
    BY <2>1
<1>2. ASSUME NEW T \in SUBSET S, T # {}, \A x \in T : T \ {x} \in F
      PROVE  T \in F
  <2> DEFINE Less(s) == s \ {One(s)}
             h == [s \in SUBSET T |-> IF s = {} THEN 0
                                      ELSE f[One(s)] + G(Less(s))[Less(s)]]
  <2>1. ASSUME NEW s \in SUBSET T, s # T PROVE \E g : Adds(g, f, s)
    <3>1. PICK x \in T : x \notin s
      BY <2>1
    <3> DEFINE U == T \ {x}
    <3>2. PICK g : Adds(g, f, U)
      BY <1>2, <3>1
    <3>3. s \in SUBSET U
      BY <3>1
    <3> HIDE DEF U, h, G, F
    <3>4. Adds([t \in SUBSET s |-> g[t]], f, s)
      BY <3>2, <3>3, AddsPart
    <3>5. QED
      BY <3>4
  <2>2. \A s \in SUBSET T : s # T => Adds(G(s), f, s)
    BY <2>1
  <2>3. ASSUME NEW s \in SUBSET T, s # T PROVE h[s] = G(s)[s]
    <3> DEFINE k == G(s)
    <3>a. Adds(k, f, s)
      BY <2>2, <2>3
    <3> HIDE DEF G
    <3>1. CASE s = {}
      <4>1. k[s] = 0
        BY <3>a, <3>1 DEF Adds
      <4>2. QED
        BY <3>1, <4>1
    <3>2. CASE s # {}
      <4>1. One(s) \in s /\ Less(s) \in SUBSET s /\ Less(s) \in SUBSET T /\ Less(s) # T
        BY <2>3, <3>2, OneIn
      <4>2. Adds(G(s), f, s) /\ Adds(G(Less(s)), f, Less(s))
        BY <2>2, <2>3, <4>1
      <4>3. Adds([t \in SUBSET Less(s) |-> G(s)[t]], f, Less(s))
        <5> DEFINE U == Less(s)
        <5>1. U \in SUBSET s /\ Adds(k, f, s)
          BY <3>a, <4>1
        <5> HIDE DEF U, k
        <5>2. Adds([t \in SUBSET U |-> k[t]], f, U)
          BY <5>1, AddsPart
        <5>3. QED
          BY <5>2 DEF U, k
      <4>4. IsFiniteSet(Less(s))
        BY <4>1, FS_Subset
      <4>5. G(Less(s)) = [t \in SUBSET Less(s) |-> G(s)[t]]
        BY <4>2, <4>3, <4>4, AddsOnce
      <4>6. G(s)[s] = f[One(s)] + G(s)[Less(s)]
        BY <3>2, <4>2 DEF Adds
      <4>7. G(Less(s))[Less(s)] = G(s)[Less(s)]
        BY <4>5
      <4>8. QED
        BY <3>2, <4>6, <4>7
    <3>3. QED
      BY <3>1, <3>2
  <2>4. ASSUME NEW s \in SUBSET T
        PROVE  h[s] = IF s = {} THEN 0 ELSE f[One(s)] + h[Less(s)]
    <3>1. CASE s = {}
      BY <3>1
    <3>2. CASE s # {}
      <4>1. Less(s) \in SUBSET T /\ Less(s) # T
        BY <3>2, OneIn
      <4>2. h[Less(s)] = G(Less(s))[Less(s)]
        BY <2>3, <4>1
      <4>3. QED
        BY <3>2, <4>2
    <3>3. QED
      BY <3>1, <3>2
  <2>5. Adds(h, f, T)
    <3> HIDE DEF G
    <3>1. h = [s \in SUBSET T |-> h[s]]
      OBVIOUS
    <3>2. QED
      BY <2>4, <3>1 DEF Adds
  <2>6. QED
    BY <2>5
<1>3. S \in F
  <2> HIDE DEF F
  <2>1. QED
    BY <1>1, <1>2, ByElements
<1>4. QED
  BY <1>3

LEMMA SumIsAdded ==
  ASSUME NEW S, IsFiniteSet(S), NEW f
  PROVE  \E g : Adds(g, f, S) /\ SumOver(f, S) = g[S]
<1> DEFINE G == CHOOSE g : Adds(g, f, S)
<1>1. SumOver(f, S) = G[S]
  BY Zenon DEF SumOver, MapThenSumSet, MapThenFoldSet, Adds, One
<1>2. Adds(G, f, S)
  BY AddsExist
<1>3. QED
  BY <1>1, <1>2

\* The one fact about the definition of SumOver that all others rest on.
LEMMA SumTakesOne ==
  ASSUME NEW S, IsFiniteSet(S), NEW f
  PROVE  SumOver(f, S) = IF S = {} THEN 0 ELSE f[One(S)] + SumOver(f, S \ {One(S)})
<1> DEFINE T == S \ {One(S)}
<1>1. IsFiniteSet(T) /\ T \in SUBSET S
  BY FS_Subset
<1>2. PICK g : Adds(g, f, S) /\ SumOver(f, S) = g[S]
  BY SumIsAdded
<1>3. PICK h : Adds(h, f, T) /\ SumOver(f, T) = h[T]
  BY <1>1, SumIsAdded
<1>4. h = [s \in SUBSET T |-> g[s]]
  <2> HIDE DEF T
  <2>1. Adds([s \in SUBSET T |-> g[s]], f, T)
    BY <1>1, <1>2, AddsPart
  <2>2. QED
    BY <1>1, <1>3, <2>1, AddsOnce
<1>5. g[S] = IF S = {} THEN 0 ELSE f[One(S)] + g[T]
  BY <1>2 DEF Adds
<1>6. QED
  BY <1>2, <1>3, <1>4, <1>5

LEMMA SumOfNone == \A f : SumOver(f, {}) = 0
  BY FS_EmptySet, SumTakesOne

LEMMA SumIsInt ==
  ASSUME NEW S, IsFiniteSet(S), NEW f, \A x \in S : f[x] \in Int
  PROVE  SumOver(f, S) \in Int
<1> DEFINE F == {T \in SUBSET S : SumOver(f, T) \in Int}
<1>1. {} \in F
  BY SumOfNone
<1>2. ASSUME NEW T \in SUBSET S, T # {}, \A x \in T : T \ {x} \in F
      PROVE  T \in F
  <2>1. One(T) \in T /\ IsFiniteSet(T)
    BY <1>2, OneIn, FS_Subset
  <2>2. SumOver(f, T) = f[One(T)] + SumOver(f, T \ {One(T)})
    BY <1>2, <2>1, SumTakesOne
  <2>3. QED
    BY <1>2, <2>1, <2>2
<1>3. S \in F
  <2> HIDE DEF F
  <2>1. QED
    BY <1>1, <1>2, ByElements
<1>4. QED
  BY <1>3

\* Any element may be taken next.
LEMMA SumWithout ==
  ASSUME NEW S, IsFiniteSet(S), NEW f, \A x \in S : f[x] \in Int
  PROVE  \A x \in S : SumOver(f, S) = f[x] + SumOver(f, S \ {x})
<1> DEFINE F == {T \in SUBSET S : \A x \in T : SumOver(f, T) = f[x] + SumOver(f, T \ {x})}
<1>1. {} \in F
  OBVIOUS
<1>2. ASSUME NEW T \in SUBSET S, T # {}, \A x \in T : T \ {x} \in F
      PROVE  \A x \in T : SumOver(f, T) = f[x] + SumOver(f, T \ {x})
  <2> TAKE x \in T
  <2> DEFINE y == One(T)
             rest == (T \ {x}) \ {y}
  <2>1. y \in T /\ IsFiniteSet(T) /\ f[x] \in Int /\ f[y] \in Int
    BY <1>2, OneIn, FS_Subset
  <2>2. SumOver(f, T) = f[y] + SumOver(f, T \ {y})
    BY <1>2, <2>1, SumTakesOne
  <2>3. CASE x = y
    BY <2>2, <2>3
  <2>4. CASE x # y
    <3>1. SumOver(f, T \ {y}) = f[x] + SumOver(f, (T \ {y}) \ {x})
      BY <1>2, <2>1, <2>4
    <3>2. SumOver(f, T \ {x}) = f[y] + SumOver(f, rest)
      BY <1>2, <2>1, <2>4
    <3>3. (T \ {y}) \ {x} = rest
      OBVIOUS
    <3>4. IsFiniteSet(rest) /\ \A z \in rest : f[z] \in Int
      BY <2>1, FS_Subset
    <3>5. SumOver(f, rest) \in Int
      BY <3>4, SumIsInt
    <3> DEFINE k == SumOver(f, rest)
    <3>6. /\ SumOver(f, T) = f[y] + (f[x] + k)
          /\ SumOver(f, T \ {x}) = f[y] + k
      BY <2>2, <3>1, <3>2, <3>3
    <3>7. k \in Int
      BY <3>5
    <3> HIDE DEF y, rest, k
    <3>8. QED
      BY <2>1, <3>6, <3>7
  <2>5. QED
    BY <2>3, <2>4
<1>3. S \in F
  <2> HIDE DEF F
  <2>1. ASSUME NEW T \in SUBSET S, T # {}, \A x \in T : T \ {x} \in F
        PROVE  T \in F
    BY <1>2, <2>1 DEF F
  <2>2. QED
    BY <1>1, <2>1, ByElements
<1>4. QED
  BY <1>3

\* g adds up like the sums of f.
AddsUp(g, f, S) ==
  /\ g[{}] = 0
  /\ \A T \in SUBSET S : T # {} => \E x \in T : g[T] = f[x] + g[T \ {x}]

\* Then it has the sums of f.
LEMMA SumIsOnly ==
  ASSUME NEW S, IsFiniteSet(S), NEW f, \A x \in S : f[x] \in Int, NEW g, AddsUp(g, f, S)
  PROVE  SumOver(f, S) = g[S]
<1> DEFINE F == {T \in SUBSET S : SumOver(f, T) = g[T]}
<1>1. {} \in F
  BY SumOfNone DEF AddsUp
<1>2. ASSUME NEW T \in SUBSET S, T # {}, \A x \in T : T \ {x} \in F
      PROVE  T \in F
  <2>1. PICK x \in T : g[T] = f[x] + g[T \ {x}]
    BY <1>2 DEF AddsUp
  <2>2. IsFiniteSet(T) /\ \A y \in T : f[y] \in Int
    BY FS_Subset
  <2>3. SumOver(f, T) = f[x] + SumOver(f, T \ {x})
    BY <2>2, SumWithout
  <2>4. QED
    BY <1>2, <2>1, <2>3
<1>3. S \in F
  <2> HIDE DEF F
  <2>1. QED
    BY <1>1, <1>2, ByElements
<1>4. QED
  BY <1>3

LEMMA SumSame ==
  ASSUME NEW S, IsFiniteSet(S), NEW f, NEW g, \A x \in S : f[x] \in Int /\ f[x] = g[x]
  PROVE  SumOver(f, S) = SumOver(g, S)
<1> DEFINE G == [T \in SUBSET S |-> SumOver(g, T)]
<1>1. G[{}] = 0
  BY SumOfNone
<1>2. ASSUME NEW T \in SUBSET S, T # {} PROVE \E x \in T : G[T] = f[x] + G[T \ {x}]
  <2>1. PICK x \in T : TRUE
    BY <1>2
  <2>2. IsFiniteSet(T) /\ \A y \in T : g[y] \in Int
    BY FS_Subset
  <2>3. SumOver(g, T) = g[x] + SumOver(g, T \ {x})
    BY <2>2, SumWithout
  <2>4. QED
    BY <2>3
<1>3. SumOver(f, S) = G[S]
  <2>1. AddsUp(G, f, S)
    <3> HIDE DEF G
    <3>1. QED
      BY <1>1, <1>2 DEF AddsUp
  <2>2. \A x \in S : f[x] \in Int
    OBVIOUS
  <2> HIDE DEF G
  <2>3. QED
    BY <2>1, <2>2, SumIsOnly
<1>4. QED
  BY <1>3

LEMMA SumPlus ==
  ASSUME NEW S, IsFiniteSet(S), NEW f, NEW g, NEW h,
         \A x \in S : f[x] \in Int /\ g[x] \in Int /\ h[x] = f[x] + g[x]
  PROVE  SumOver(h, S) = SumOver(f, S) + SumOver(g, S)
<1> DEFINE G == [T \in SUBSET S |-> SumOver(f, T) + SumOver(g, T)]
<1>1. G[{}] = 0
  BY SumOfNone
<1>2. ASSUME NEW T \in SUBSET S, T # {} PROVE \E x \in T : G[T] = h[x] + G[T \ {x}]
  <2>1. PICK x \in T : TRUE
    BY <1>2
  <2>2. /\ IsFiniteSet(T) /\ IsFiniteSet(T \ {x})
        /\ \A y \in T : f[y] \in Int /\ g[y] \in Int
    BY FS_Subset
  <2>3. /\ SumOver(f, T) = f[x] + SumOver(f, T \ {x}) /\ SumOver(f, T \ {x}) \in Int
        /\ SumOver(g, T) = g[x] + SumOver(g, T \ {x}) /\ SumOver(g, T \ {x}) \in Int
    BY <2>2, SumWithout, SumIsInt
  <2>4. f[x] \in Int /\ g[x] \in Int /\ h[x] = f[x] + g[x]
    OBVIOUS
  <2>5. SumOver(f, T) + SumOver(g, T) = h[x] + (SumOver(f, T \ {x}) + SumOver(g, T \ {x}))
    BY <2>3, <2>4
  <2>6. QED
    BY <2>5
<1>3. SumOver(h, S) = G[S]
  <2>1. AddsUp(G, h, S)
    <3> HIDE DEF G
    <3>1. QED
      BY <1>1, <1>2 DEF AddsUp
  <2>2. \A x \in S : h[x] \in Int
    OBVIOUS
  <2> HIDE DEF G
  <2>3. QED
    BY <2>1, <2>2, SumIsOnly
<1>4. QED
  BY <1>3

LEMMA SumTimes ==
  ASSUME NEW S, IsFiniteSet(S), NEW f, NEW h, NEW k \in Int,
         \A x \in S : f[x] \in Int /\ h[x] = k * f[x]
  PROVE  SumOver(h, S) = k * SumOver(f, S)
<1> DEFINE G == [T \in SUBSET S |-> k * SumOver(f, T)]
<1>1. G[{}] = 0
  BY SumOfNone
<1>2. ASSUME NEW T \in SUBSET S, T # {} PROVE \E x \in T : G[T] = h[x] + G[T \ {x}]
  <2>1. PICK x \in T : TRUE
    BY <1>2
  <2>2. IsFiniteSet(T) /\ IsFiniteSet(T \ {x}) /\ \A y \in T : f[y] \in Int
    BY FS_Subset
  <2>3. SumOver(f, T) = f[x] + SumOver(f, T \ {x}) /\ SumOver(f, T \ {x}) \in Int
    BY <2>2, SumWithout, SumIsInt
  <2>4. f[x] \in Int /\ h[x] = k * f[x]
    OBVIOUS
  <2>5. k * SumOver(f, T) = h[x] + k * SumOver(f, T \ {x})
    BY <2>3, <2>4
  <2>6. QED
    BY <2>5
<1>3. SumOver(h, S) = G[S]
  <2>1. AddsUp(G, h, S)
    <3> HIDE DEF G
    <3>1. QED
      BY <1>1, <1>2 DEF AddsUp
  <2>2. \A x \in S : h[x] \in Int
    OBVIOUS
  <2> HIDE DEF G
  <2>3. QED
    BY <2>1, <2>2, SumIsOnly
<1>4. QED
  BY <1>3

LEMMA SumAtMost ==
  ASSUME NEW S, IsFiniteSet(S), NEW f, NEW g,
         \A x \in S : f[x] \in Int /\ g[x] \in Int /\ f[x] <= g[x]
  PROVE  SumOver(f, S) <= SumOver(g, S)
<1> DEFINE F == {T \in SUBSET S : SumOver(f, T) <= SumOver(g, T)}
<1>1. {} \in F
  BY SumOfNone
<1>2. ASSUME NEW T \in SUBSET S, T # {}, \A x \in T : T \ {x} \in F
      PROVE  T \in F
  <2>1. PICK x \in T : TRUE
    BY <1>2
  <2>2. /\ IsFiniteSet(T) /\ IsFiniteSet(T \ {x})
        /\ \A y \in T : f[y] \in Int /\ g[y] \in Int
    BY FS_Subset
  <2>3. /\ SumOver(f, T) = f[x] + SumOver(f, T \ {x}) /\ SumOver(f, T \ {x}) \in Int
        /\ SumOver(g, T) = g[x] + SumOver(g, T \ {x}) /\ SumOver(g, T \ {x}) \in Int
    BY <2>2, SumWithout, SumIsInt
  <2>4. SumOver(f, T \ {x}) <= SumOver(g, T \ {x}) /\ f[x] \in Int /\ g[x] \in Int /\ f[x] <= g[x]
    BY <1>2
  <2>5. QED
    BY <2>3, <2>4
<1>3. S \in F
  <2> HIDE DEF F
  <2>1. QED
    BY <1>1, <1>2, ByElements
<1>4. QED
  BY <1>3

LEMMA SumOfSame ==
  ASSUME NEW S, IsFiniteSet(S), NEW f, NEW k \in Int, \A x \in S : f[x] = k
  PROVE  SumOver(f, S) = k * Cardinality(S)
<1> DEFINE G == [T \in SUBSET S |-> k * Cardinality(T)]
<1>1. G[{}] = 0
  BY FS_EmptySet
<1>2. ASSUME NEW T \in SUBSET S, T # {} PROVE \E x \in T : G[T] = f[x] + G[T \ {x}]
  <2>1. PICK x \in T : TRUE
    BY <1>2
  <2>2. /\ Cardinality(T) \in Nat /\ Cardinality(T \ {x}) = Cardinality(T) - 1
    BY OneLess, FS_Subset
  <2>3. k * Cardinality(T) = k + k * (Cardinality(T) - 1)
    BY <2>2
  <2>4. QED
    BY <2>2, <2>3
<1>3. SumOver(f, S) = G[S]
  <2>1. AddsUp(G, f, S)
    <3> HIDE DEF G
    <3>1. QED
      BY <1>1, <1>2 DEF AddsUp
  <2>2. \A x \in S : f[x] \in Int
    OBVIOUS
  <2> HIDE DEF G
  <2>3. QED
    BY <2>1, <2>2, SumIsOnly
<1>4. QED
  BY <1>3

LEMMA SumOfTwo ==
  ASSUME NEW S, NEW U, IsFiniteSet(S), IsFiniteSet(U), S \cap U = {}, NEW f,
         \A x \in S \cup U : f[x] \in Int
  PROVE  SumOver(f, S \cup U) = SumOver(f, S) + SumOver(f, U)
<1> DEFINE V == S \cup U
           G == [T \in SUBSET V |-> SumOver(f, T \cap S) + SumOver(f, T \cap U)]
<1>1. G[{}] = 0
  <2>1. {} \cap S = {} /\ {} \cap U = {} /\ {} \in SUBSET V
    OBVIOUS
  <2>2. G[{}] = SumOver(f, {}) + SumOver(f, {})
    BY <2>1, Zenon
  <2>3. QED
    BY <2>2, SumOfNone
<1>2. ASSUME NEW T \in SUBSET V, T # {} PROVE \E x \in T : G[T] = f[x] + G[T \ {x}]
  <2>1. PICK x \in T : TRUE
    BY <1>2
  <2> DEFINE A == T \cap S
             B == T \cap U
             C == T \ {x}
  <2>2. /\ IsFiniteSet(A) /\ IsFiniteSet(B) /\ IsFiniteSet(A \ {x}) /\ IsFiniteSet(B \ {x})
        /\ (\A y \in A : f[y] \in Int) /\ (\A y \in B : f[y] \in Int) /\ f[x] \in Int
    BY FS_Subset
  <2>3. SumOver(f, A) \in Int /\ SumOver(f, B) \in Int /\ SumOver(f, A \ {x}) \in Int /\ SumOver(f, B \ {x}) \in Int
    BY <2>2, SumIsInt
  <2>4. G[T] = SumOver(f, A) + SumOver(f, B) /\ G[C] = SumOver(f, A \ {x}) + SumOver(f, B \ {x})
    <3>1. C \cap S = A \ {x} /\ C \cap U = B \ {x} /\ C \in SUBSET V
      OBVIOUS
    <3>2. G[C] = SumOver(f, C \cap S) + SumOver(f, C \cap U)
      BY <3>1
    <3>3. QED
      BY <3>1, <3>2, Zenon
  <2>5. CASE x \in A
    <3>1. B \ {x} = B /\ SumOver(f, A) = f[x] + SumOver(f, A \ {x})
      BY <2>2, <2>5, SumWithout
    <3> DEFINE p == SumOver(f, A \ {x})
               q == SumOver(f, B)
    <3> HIDE DEF G, A, B, C
    <3>2. p \in Int /\ q \in Int /\ G[T] = (f[x] + p) + q /\ G[C] = p + q
      BY <2>3, <2>4, <3>1, Zenon
    <3> HIDE DEF p, q
    <3>3. G[T] = f[x] + G[C]
      BY <2>2, <3>2
    <3>4. QED
      BY <3>3 DEF C
  <2>6. CASE x \in B
    <3>1. A \ {x} = A /\ SumOver(f, B) = f[x] + SumOver(f, B \ {x})
      BY <2>2, <2>6, SumWithout
    <3> DEFINE p == SumOver(f, B \ {x})
               q == SumOver(f, A)
    <3> HIDE DEF G, A, B, C
    <3>2. p \in Int /\ q \in Int /\ G[T] = q + (f[x] + p) /\ G[C] = q + p
      BY <2>3, <2>4, <3>1, Zenon
    <3> HIDE DEF p, q
    <3>3. G[T] = f[x] + G[C]
      BY <2>2, <3>2
    <3>4. QED
      BY <3>3 DEF C
  <2>7. QED
    BY <2>5, <2>6
<1>3. AddsUp(G, f, V)
  <2> HIDE DEF G, V
  <2>1. QED
    BY <1>1, <1>2 DEF AddsUp
<1>4. IsFiniteSet(V) /\ \A x \in V : f[x] \in Int
  BY FS_Union
<1>5. SumOver(f, V) = G[V]
  <2> HIDE DEF G, V
  <2>1. QED
    BY <1>3, <1>4, SumIsOnly
<1>6. V \cap S = S /\ V \cap U = U /\ V \in SUBSET V
  OBVIOUS
<1>7. G[V] = SumOver(f, S) + SumOver(f, U)
  BY <1>6, Zenon
<1>8. QED
  BY <1>5, <1>7

\* The sum over the elements with a key.
KeySum(f, S, key, a) == SumOver(f, {x \in S : key[x] = a})

\* Summed key by key, or all at once.
LEMMA SumByKey ==
  ASSUME NEW S, IsFiniteSet(S), NEW A, IsFiniteSet(A), NEW f, NEW key, NEW g,
         \A x \in S : f[x] \in Int /\ key[x] \in A,
         \A a \in A : g[a] = KeySum(f, S, key, a)
  PROVE  SumOver(g, A) = SumOver(f, S)
<1> DEFINE Of(T) == {x \in S : key[x] \in T}
           G == [T \in SUBSET A |-> SumOver(f, Of(T))]
<1>1. G[{}] = 0
  <2>1. Of({}) = {}
    OBVIOUS
  <2>2. QED
    BY <2>1, SumOfNone
<1>2. \A a \in A : g[a] \in Int
  <2> TAKE a \in A
  <2> DEFINE T == {x \in S : key[x] = a}
  <2>1. IsFiniteSet(T) /\ \A x \in T : f[x] \in Int
    BY FS_Subset
  <2>2. SumOver(f, T) \in Int
    <3> HIDE DEF T
    <3>1. QED
      BY <2>1, SumIsInt
  <2>3. QED
    BY <2>2 DEF KeySum
<1>3. ASSUME NEW T \in SUBSET A, T # {} PROVE \E a \in T : G[T] = g[a] + G[T \ {a}]
  <2>1. PICK a \in T : TRUE
    BY <1>3
  <2> DEFINE X == {x \in S : key[x] = a}
             Y == Of(T \ {a})
  <2>2. Of(T) = X \cup Y /\ X \cap Y = {}
    OBVIOUS
  <2>3. /\ IsFiniteSet(X) /\ IsFiniteSet(Y)
        /\ \A x \in X \cup Y : f[x] \in Int
    BY FS_Subset
  <2>4. SumOver(f, X \cup Y) = SumOver(f, X) + SumOver(f, Y)
    <3> HIDE DEF X, Y
    <3>1. QED
      BY <2>2, <2>3, SumOfTwo
  <2>5. G[T] = SumOver(f, X \cup Y) /\ G[T \ {a}] = SumOver(f, Y) /\ g[a] = SumOver(f, X)
    <3>1. G[T] = SumOver(f, Of(T)) /\ G[T \ {a}] = SumOver(f, Y) /\ g[a] = SumOver(f, X)
      BY DEF KeySum
    <3>2. QED
      BY <2>2, <3>1, Zenon
  <2>6. G[T] = g[a] + G[T \ {a}]
    BY <2>4, <2>5
  <2>7. QED
    BY <2>6
<1>4. AddsUp(G, g, A)
  <2> HIDE DEF G
  <2>1. QED
    BY <1>1, <1>3 DEF AddsUp
<1>5. SumOver(g, A) = G[A]
  <2> HIDE DEF G
  <2>1. QED
    BY <1>2, <1>4, SumIsOnly
<1>6. Of(A) = S
  OBVIOUS
<1>7. G[A] = SumOver(f, S)
  BY <1>6, Zenon
<1>8. QED
  BY <1>5, <1>7

LEMMA SumIsNat ==
  ASSUME NEW S, IsFiniteSet(S), NEW f, \A x \in S : f[x] \in Nat
  PROVE  SumOver(f, S) \in Nat
<1> DEFINE zero == [x \in S |-> 0]
<1>1. SumOver(zero, S) = 0 * Cardinality(S) /\ Cardinality(S) \in Nat
  <2>1. \A x \in S : zero[x] = 0
    OBVIOUS
  <2> HIDE DEF zero
  <2>2. QED
    BY <2>1, SumOfSame, FS_CardinalityType
<1>2. SumOver(zero, S) <= SumOver(f, S)
  <2>1. \A x \in S : zero[x] \in Int /\ f[x] \in Int /\ zero[x] <= f[x]
    OBVIOUS
  <2> HIDE DEF zero
  <2>2. QED
    BY <2>1, SumAtMost
<1>3. SumOver(f, S) \in Int
  <2>1. \A x \in S : f[x] \in Int
    OBVIOUS
  <2>2. QED
    BY <2>1, SumIsInt
<1>4. QED
  BY <1>1, <1>2, <1>3

\* Noughts add nothing.
LEMMA SumWithNoughts ==
  ASSUME NEW U, IsFiniteSet(U), NEW S \in SUBSET U, NEW f, NEW g,
         \A x \in S : f[x] \in Int /\ g[x] = f[x], \A x \in U \ S : g[x] = 0
  PROVE  SumOver(g, U) = SumOver(f, S)
<1> DEFINE rest == U \ S
<1>1. /\ IsFiniteSet(S) /\ IsFiniteSet(rest) /\ S \cup rest = U /\ S \cap rest = {}
      /\ (\A x \in S \cup rest : g[x] \in Int) /\ (\A x \in rest : g[x] = 0)
  BY FS_Subset
<1> HIDE DEF rest
<1>2. SumOver(g, S \cup rest) = SumOver(g, S) + SumOver(g, rest)
  BY <1>1, SumOfTwo
<1>3. SumOver(g, rest) = 0 * Cardinality(rest) /\ Cardinality(rest) \in Nat
  BY <1>1, SumOfSame, FS_CardinalityType
<1>4. \A x \in S : f[x] \in Int /\ f[x] = g[x]
  OBVIOUS
<1>5. SumOver(f, S) = SumOver(g, S) /\ SumOver(f, S) \in Int
  BY <1>1, <1>4, SumSame, SumIsInt
<1>6. SumOver(g, U) = SumOver(g, S) + SumOver(g, rest)
  BY <1>1, <1>2, Zenon
<1>7. QED
  BY <1>3, <1>5, <1>6

(***************************************************************************)
(* The lines of posted entries                                             *)
(***************************************************************************)

AccountOf == [l \in EntryLines |-> LineOf[l].account]
EntryOf == [l \in EntryLines |-> LineOf[l].entry]

\* What an account has been debited more than credited.
Signed(E, a) == Debits(E, a) - Credits(E, a)

LEMMA EntryIs ==
  \A e \in Entries : Entry[e].at \in Nat /\ Entry[e].of \in Companies
  BY ReportsAssumption

LEMMA LineIs ==
  \A l \in EntryLines : /\ AccountOf[l] \in Codes /\ AccountOf[l] = LineOf[l].account
                        /\ EntryOf[l] \in Entries /\ EntryOf[l] = LineOf[l].entry
                        /\ DebitOf[l] \in Nat /\ CreditOf[l] \in Nat
  BY ReportsAssumption DEF AccountOf, EntryOf, DebitOf, CreditOf

LEMMA EntriesFinite == \A E \in SUBSET Entries : IsFiniteSet(E)
  BY ReportsAssumption, FS_Subset

LEMMA LinesFinite == \A L \in SUBSET EntryLines : IsFiniteSet(L)
  BY ReportsAssumption, FS_Subset

LEMMA CodesFinite == \A A \in SUBSET Codes : IsFiniteSet(A)
  BY ReportsAssumption, FS_Subset

LEMMA SidesOfEntry ==
  ASSUME NEW e \in Entries, NEW a \in Codes
  PROVE  /\ DebitIn[e][a] = SumOver(DebitOf, LinesOn(e, a)) /\ DebitIn[e][a] \in Nat
         /\ CreditIn[e][a] = SumOver(CreditOf, LinesOn(e, a)) /\ CreditIn[e][a] \in Nat
<1>1. LinesOn(e, a) \in SUBSET EntryLines
  BY DEF LinesOn
<1>2. IsFiniteSet(LinesOn(e, a))
  BY <1>1, LinesFinite
<1>3. /\ \A l \in LinesOn(e, a) : DebitOf[l] \in Nat
      /\ \A l \in LinesOn(e, a) : CreditOf[l] \in Nat
  BY <1>1, LineIs
<1>4. SumOver(DebitOf, LinesOn(e, a)) \in Nat /\ SumOver(CreditOf, LinesOn(e, a)) \in Nat
  BY <1>2, <1>3, SumIsNat
<1>5. /\ DebitIn[e][a] = SumOver(DebitOf, LinesOn(e, a))
      /\ CreditIn[e][a] = SumOver(CreditOf, LinesOn(e, a))
  BY Zenon DEF DebitIn, CreditIn
<1>6. QED
  BY <1>4, <1>5

LEMMA AmountsAre ==
  ASSUME NEW E \in SUBSET Entries
  PROVE  \A a \in Codes : Debits(E, a) \in Nat /\ Credits(E, a) \in Nat
<1> TAKE a \in Codes
<1> DEFINE d == [e \in Entries |-> DebitIn[e][a]]
           k == [e \in Entries |-> CreditIn[e][a]]
<1>1. /\ IsFiniteSet(E)
      /\ \A e \in E : d[e] \in Nat
      /\ \A e \in E : k[e] \in Nat
  BY EntriesFinite, SidesOfEntry
<1>2. Debits(E, a) = SumOver(d, E) /\ Credits(E, a) = SumOver(k, E)
  BY DEF Debits, Credits
<1> HIDE DEF d, k
<1>3. QED
  BY <1>1, <1>2, SumIsNat

\* The sums of the entries are the sums of their lines.
LEMMA SumsOfLines ==
  ASSUME NEW E \in SUBSET Entries, NEW a \in Codes
  PROVE  /\ Debits(E, a) = KeySum(DebitOf, PostedLines(E), AccountOf, a)
         /\ Credits(E, a) = KeySum(CreditOf, PostedLines(E), AccountOf, a)
<1> DEFINE L == {l \in PostedLines(E) : AccountOf[l] = a}
           d == [e \in Entries |-> DebitIn[e][a]]
           k == [e \in Entries |-> CreditIn[e][a]]
<1>1. L \in SUBSET EntryLines /\ \A l \in L : EntryOf[l] \in E
  BY LineIs DEF PostedLines
<1>2. IsFiniteSet(L) /\ IsFiniteSet(E)
  BY <1>1, LinesFinite, EntriesFinite
<1>3. \A e \in E : {l \in L : EntryOf[l] = e} = LinesOn(e, a)
  BY LineIs DEF PostedLines, LinesOn
<1>4. /\ \A l \in L : DebitOf[l] \in Int /\ EntryOf[l] \in E
      /\ \A l \in L : CreditOf[l] \in Int /\ EntryOf[l] \in E
  BY <1>1, LineIs
<1>5. \A e \in E : /\ d[e] = SumOver(DebitOf, LinesOn(e, a))
                   /\ k[e] = SumOver(CreditOf, LinesOn(e, a))
  BY SidesOfEntry
<1>6. /\ Debits(E, a) = SumOver(d, E) /\ Credits(E, a) = SumOver(k, E)
      /\ KeySum(DebitOf, PostedLines(E), AccountOf, a) = SumOver(DebitOf, L)
      /\ KeySum(CreditOf, PostedLines(E), AccountOf, a) = SumOver(CreditOf, L)
  BY DEF Debits, Credits, KeySum
<1> HIDE DEF L, d, k
<1>7. /\ \A e \in E : d[e] = KeySum(DebitOf, L, EntryOf, e)
      /\ \A e \in E : k[e] = KeySum(CreditOf, L, EntryOf, e)
  BY <1>3, <1>5, Zenon DEF KeySum
<1>8. SumOver(d, E) = SumOver(DebitOf, L)
  BY <1>2, <1>4, <1>7, SumByKey
<1>9. SumOver(k, E) = SumOver(CreditOf, L)
  BY <1>2, <1>4, <1>7, SumByKey
<1>10. QED
  BY <1>6, <1>8, <1>9

\* Over all the accounts with lines, the debits and the credits are off balance
\* by what the entries are.
LEMMA TwoSides ==
  ASSUME NEW E \in SUBSET Entries, NEW A \in SUBSET Codes, CodesOfLines(E) \subseteq A,
         NEW d, NEW k, \A a \in A : d[a] = Debits(E, a) /\ k[a] = Credits(E, a)
  PROVE  /\ SumOver(d, A) - SumOver(k, A) = Imbalance(E)
         /\ SumOver(d, A) \in Int /\ SumOver(k, A) \in Int /\ Imbalance(E) \in Int
<1> DEFINE L == PostedLines(E)
<1>1. L \in SUBSET EntryLines /\ \A l \in L : AccountOf[l] \in A
  BY LineIs DEF PostedLines, CodesOfLines
<1>2. IsFiniteSet(L) /\ IsFiniteSet(A)
  BY <1>1, LinesFinite, CodesFinite
<1>3. /\ \A l \in L : DebitOf[l] \in Int /\ AccountOf[l] \in A
      /\ \A l \in L : CreditOf[l] \in Int /\ AccountOf[l] \in A
  BY <1>1, LineIs
<1>4. /\ \A a \in A : d[a] = KeySum(DebitOf, L, AccountOf, a)
      /\ \A a \in A : k[a] = KeySum(CreditOf, L, AccountOf, a)
  BY SumsOfLines
<1>5. Imbalance(E) = SumOver(DebitOf, L) - SumOver(CreditOf, L)
  BY DEF Imbalance
<1> HIDE DEF L
<1>6. SumOver(d, A) = SumOver(DebitOf, L)
  BY <1>2, <1>3, <1>4, SumByKey
<1>7. SumOver(k, A) = SumOver(CreditOf, L)
  BY <1>2, <1>3, <1>4, SumByKey
<1>8. SumOver(DebitOf, L) \in Int /\ SumOver(CreditOf, L) \in Int
  BY <1>2, <1>3, SumIsInt
<1>9. QED
  BY <1>5, <1>6, <1>7, <1>8

\* The accounts of lines are accounts.
LEMMA CodesAre == \A E : CodesOfLines(E) \in SUBSET Codes
  BY LineIs DEF CodesOfLines, PostedLines

LEMMA ImbalanceIs == \A E \in SUBSET Entries : Imbalance(E) \in Int
<1> SUFFICES ASSUME NEW E \in SUBSET Entries PROVE Imbalance(E) \in Int
  OBVIOUS
<1> DEFINE d == [a \in Codes |-> Debits(E, a)]
           k == [a \in Codes |-> Credits(E, a)]
<1>1. \A a \in Codes : d[a] = Debits(E, a) /\ k[a] = Credits(E, a)
  OBVIOUS
<1> HIDE DEF d, k
<1>2. QED
  BY <1>1, CodesAre, TwoSides

LEMMA SignedSum ==
  ASSUME NEW E \in SUBSET Entries, NEW A \in SUBSET Codes, CodesOfLines(E) \subseteq A,
         NEW s, \A a \in A : s[a] = Signed(E, a)
  PROVE  SumOver(s, A) = Imbalance(E)
<1> DEFINE d == [a \in A |-> Debits(E, a)]
           k == [a \in A |-> Credits(E, a)]
<1>1. IsFiniteSet(A)
  BY CodesFinite
<1>2. \A a \in A : d[a] = Debits(E, a) /\ k[a] = Credits(E, a)
  OBVIOUS
<1>3. \A a \in A : Debits(E, a) \in Nat /\ Credits(E, a) \in Nat
  BY AmountsAre
<1>4. \A a \in A : s[a] \in Int /\ k[a] \in Int /\ d[a] = s[a] + k[a]
  BY <1>2, <1>3 DEF Signed
<1> HIDE DEF d, k
<1>5. /\ SumOver(d, A) - SumOver(k, A) = Imbalance(E)
      /\ SumOver(d, A) \in Int /\ SumOver(k, A) \in Int
  BY <1>2, TwoSides
<1>6. SumOver(d, A) = SumOver(s, A) + SumOver(k, A)
  BY <1>1, <1>4, SumPlus
<1>7. SumOver(s, A) \in Int
  BY <1>1, <1>4, SumIsInt
<1>8. QED
  BY <1>5, <1>6, <1>7

LEMMA RowIs ==
  ASSUME NEW E \in SUBSET Entries, NEW a \in Codes
  PROVE  /\ Signed(E, a) \in Int /\ Row(E, a).balance \in Nat
         /\ Row(E, a).balanceType \in {"Debit", "Credit"}
         /\ Row(E, a).balanceType = "Debit" => Row(E, a).balance = Signed(E, a)
         /\ Row(E, a).balanceType = "Credit" => Row(E, a).balance = -Signed(E, a)
<1> DEFINE d == Debits(E, a)
           k == Credits(E, a)
<1>1. d \in Nat /\ k \in Nat
  BY AmountsAre
<1>2. CASE TypeOf[a] \in {"Asset", "Expense"}
  <2>1. /\ Row(E, a).balance = Abs(d - k)
        /\ Row(E, a).balanceType = IF d - k >= 0 THEN "Debit" ELSE "Credit"
    BY <1>2 DEF Row
  <2> HIDE DEF d, k
  <2>2. QED
    BY <1>1, <2>1 DEF Abs, Signed, d, k
<1>3. CASE TypeOf[a] \notin {"Asset", "Expense"}
  <2>1. /\ Row(E, a).balance = Abs(k - d)
        /\ Row(E, a).balanceType = IF k - d >= 0 THEN "Credit" ELSE "Debit"
    BY <1>1, <1>3 DEF Row
  <2> HIDE DEF d, k
  <2>2. QED
    BY <1>1, <2>1 DEF Abs, Signed, d, k
<1>4. QED
  BY <1>2, <1>3

(***************************************************************************)
(* The trial balance and the balance sheet                                 *)
(***************************************************************************)

\* rows is the trial balance of the entries E for the accounts A.
RowsOf(E, A) == [a \in A |-> Row(E, a)]

\* A trial balance that knows every account with lines is off balance by what
\* the entries are.
LEMMA RowsBalance ==
  ASSUME NEW E \in SUBSET Entries, NEW A \in SUBSET Codes, CodesOfLines(E) \subseteq A
  PROVE  /\ GrandTotal(RowsOf(E, A), "Debit") - GrandTotal(RowsOf(E, A), "Credit") = Imbalance(E)
         /\ IsBalanced(RowsOf(E, A)) = (Imbalance(E) = 0)
<1> DEFINE rows == RowsOf(E, A)
           s == [a \in A |-> Signed(E, a)]
           b == [a \in A |-> Row(E, a).balance]
           D == {a \in A : Row(E, a).balanceType = "Debit"}
           C == {a \in A : Row(E, a).balanceType = "Credit"}
<1>1. /\ GrandTotal(rows, "Debit") = SumOver(b, D)
      /\ GrandTotal(rows, "Credit") = SumOver(b, C)
  <2>1. DOMAIN rows = A /\ \A a \in A : rows[a] = Row(E, a)
    BY DEF RowsOf
  <2>2. /\ [a \in DOMAIN rows |-> rows[a].balance] = b
        /\ {a \in DOMAIN rows : rows[a].balanceType = "Debit"} = D
        /\ {a \in DOMAIN rows : rows[a].balanceType = "Credit"} = C
    BY <2>1
  <2>3. QED
    BY <2>2, Zenon DEF GrandTotal
<1>2. /\ D \cup C = A /\ D \cap C = {} /\ IsFiniteSet(A) /\ IsFiniteSet(D) /\ IsFiniteSet(C)
      /\ \A a \in A : s[a] \in Int
      /\ \A a \in D : s[a] \in Int /\ s[a] = b[a]
      /\ \A a \in C : s[a] \in Int /\ b[a] = (-1) * s[a]
  <2>1. \A a \in A : Row(E, a).balanceType \in {"Debit", "Credit"}
    BY RowIs
  <2>2. IsFiniteSet(A) /\ IsFiniteSet(D) /\ IsFiniteSet(C)
    BY CodesFinite
  <2>3. \A a \in A : /\ Signed(E, a) \in Int
                     /\ Row(E, a).balanceType = "Debit" => Row(E, a).balance = Signed(E, a)
                     /\ Row(E, a).balanceType = "Credit" => Row(E, a).balance = -Signed(E, a)
    BY RowIs
  <2>4. QED
    BY <2>1, <2>2, <2>3
<1>3. SumOver(s, A) = Imbalance(E)
  <2>1. \A a \in A : s[a] = Signed(E, a)
    OBVIOUS
  <2> HIDE DEF s
  <2>2. QED
    BY <2>1, SignedSum
<1> HIDE DEF rows, s, b, D, C
<1>4. SumOver(s, D \cup C) = SumOver(s, D) + SumOver(s, C)
  BY <1>2, SumOfTwo
<1>5. SumOver(s, D) = SumOver(b, D)
  BY <1>2, SumSame
<1>6. SumOver(b, C) = (-1) * SumOver(s, C)
  BY <1>2, SumTimes
<1>7. SumOver(s, D) \in Int /\ SumOver(s, C) \in Int
  BY <1>2, SumIsInt
<1>8. SumOver(s, A) = SumOver(s, D) + SumOver(s, C)
  BY <1>2, <1>4, Zenon
<1>9. GrandTotal(rows, "Debit") - GrandTotal(rows, "Credit") = Imbalance(E)
  BY <1>1, <1>3, <1>5, <1>6, <1>7, <1>8
<1>10. GrandTotal(rows, "Debit") \in Int /\ GrandTotal(rows, "Credit") \in Int
  BY <1>1, <1>5, <1>6, <1>7
<1>11. IsBalanced(rows) = (Imbalance(E) = 0)
  BY <1>9, <1>10 DEF IsBalanced
<1>12. QED
  BY <1>9, <1>11 DEF rows

OfType(A, type) == {a \in A : TypeOf[a] = type}

\* The accounts are of five types.
LEMMA FiveTypes ==
  ASSUME NEW A \in SUBSET Codes, NEW f, \A a \in A : f[a] \in Int
  PROVE  /\ \A type : SumOver(f, OfType(A, type)) \in Int
         /\ SumOver(f, A) = SumOver(f, OfType(A, "Asset")) + SumOver(f, OfType(A, "Expense"))
                          + SumOver(f, OfType(A, "Liability")) + SumOver(f, OfType(A, "Equity"))
                          + SumOver(f, OfType(A, "Revenue"))
<1> DEFINE T1 == OfType(A, "Asset")
           T2 == OfType(A, "Expense")
           T3 == OfType(A, "Liability")
           T4 == OfType(A, "Equity")
           T5 == OfType(A, "Revenue")
<1>1. ASSUME NEW type
      PROVE  /\ IsFiniteSet(OfType(A, type)) /\ OfType(A, type) \subseteq A
             /\ SumOver(f, OfType(A, type)) \in Int
  <2>1. OfType(A, type) \subseteq A /\ IsFiniteSet(OfType(A, type))
    BY CodesFinite DEF OfType
  <2>2. QED
    BY <2>1, SumIsInt
<1>2. /\ T1 \cap T2 = {} /\ (T1 \cup T2) \cap T3 = {} /\ (T1 \cup T2 \cup T3) \cap T4 = {}
      /\ (T1 \cup T2 \cup T3 \cup T4) \cap T5 = {}
      /\ T1 \cup T2 \cup T3 \cup T4 \cup T5 = A
  BY ReportsAssumption DEF OfType
<1>3. /\ IsFiniteSet(T1) /\ IsFiniteSet(T2) /\ IsFiniteSet(T3) /\ IsFiniteSet(T4) /\ IsFiniteSet(T5)
      /\ T1 \subseteq A /\ T2 \subseteq A /\ T3 \subseteq A /\ T4 \subseteq A /\ T5 \subseteq A
  BY <1>1
<1> HIDE DEF T1, T2, T3, T4, T5
<1>4. /\ IsFiniteSet(T1 \cup T2) /\ IsFiniteSet(T1 \cup T2 \cup T3)
      /\ IsFiniteSet(T1 \cup T2 \cup T3 \cup T4)
  BY <1>3, FS_Union
<1>5. SumOver(f, T1 \cup T2) = SumOver(f, T1) + SumOver(f, T2)
  BY <1>2, <1>3, SumOfTwo
<1>6. SumOver(f, T1 \cup T2 \cup T3) = SumOver(f, T1 \cup T2) + SumOver(f, T3)
  BY <1>2, <1>3, <1>4, SumOfTwo
<1>7. SumOver(f, T1 \cup T2 \cup T3 \cup T4) = SumOver(f, T1 \cup T2 \cup T3) + SumOver(f, T4)
  BY <1>2, <1>3, <1>4, SumOfTwo
<1>8. SumOver(f, T1 \cup T2 \cup T3 \cup T4 \cup T5) = SumOver(f, T1 \cup T2 \cup T3 \cup T4) + SumOver(f, T5)
  BY <1>2, <1>3, <1>4, SumOfTwo
<1>9. SumOver(f, A) = SumOver(f, T1) + SumOver(f, T2) + SumOver(f, T3) + SumOver(f, T4) + SumOver(f, T5)
  BY <1>2, <1>5, <1>6, <1>7, <1>8, Zenon
<1>10. QED
  BY <1>1, <1>9 DEF T1, T2, T3, T4, T5

LEMMA TotalsAre ==
  ASSUME NEW E, NEW A, NEW type
  PROVE  TotalOf(RowsOf(E, A), type) = SumOver([a \in A |-> Row(E, a).balance], OfType(A, type))
<1> DEFINE rows == RowsOf(E, A)
<1>1. DOMAIN rows = A /\ \A a \in A : rows[a] = Row(E, a)
  BY DEF RowsOf
<1>2. /\ [a \in DOMAIN rows |-> rows[a].balance] = [a \in A |-> Row(E, a).balance]
      /\ {a \in DOMAIN rows : TypeOf[a] = type} = OfType(A, type)
  BY <1>1 DEF OfType
<1>3. QED
  BY <1>2, Zenon DEF TotalOf

\* The balance sheet made of it is off balance by as much, as long as no account
\* has a contrary balance.
LEMMA SheetBalances ==
  ASSUME NEW E \in SUBSET Entries, NEW A \in SUBSET Codes, CodesOfLines(E) \subseteq A,
         \A a \in A : ~Contrary(RowsOf(E, A), a)
  PROVE  SheetOff(RowsOf(E, A)) = Imbalance(E)
<1> DEFINE rows == RowsOf(E, A)
           s == [a \in A |-> Signed(E, a)]
           b == [a \in A |-> Row(E, a).balance]
           B(type) == SumOver(b, OfType(A, type))
           S(type) == SumOver(s, OfType(A, type))
<1>1. \A a \in A : /\ s[a] \in Int /\ b[a] \in Int
                   /\ TypeOf[a] \in {"Asset", "Expense"} => s[a] = b[a]
                   /\ TypeOf[a] \notin {"Asset", "Expense"} => b[a] = (-1) * s[a]
  <2> TAKE a \in A
  <2>1. /\ Signed(E, a) \in Int /\ Row(E, a).balance \in Nat
        /\ Row(E, a).balanceType \in {"Debit", "Credit"}
        /\ Row(E, a).balanceType = "Debit" => Row(E, a).balance = Signed(E, a)
        /\ Row(E, a).balanceType = "Credit" => Row(E, a).balance = -Signed(E, a)
    BY RowIs
  <2>2. rows[a] = Row(E, a) /\ ~Contrary(rows, a)
    BY DEF RowsOf
  <2>3. \/ Row(E, a).balance = 0
        \/ Row(E, a).balanceType = IF TypeOf[a] \in {"Asset", "Expense"} THEN "Debit" ELSE "Credit"
    BY <2>2 DEF Contrary
  <2>4. s[a] = Signed(E, a) /\ b[a] = Row(E, a).balance
    OBVIOUS
  <2> HIDE DEF s, b, rows
  <2>5. QED
    BY <2>1, <2>3, <2>4
<1>2. ASSUME NEW type PROVE /\ IsFiniteSet(OfType(A, type))
                            /\ \A a \in OfType(A, type) : a \in A /\ TypeOf[a] = type
  BY CodesFinite DEF OfType
<1>3. \A a \in A : s[a] = Signed(E, a)
  OBVIOUS
<1> HIDE DEF s, b, rows
<1>4. ASSUME NEW type \in {"Asset", "Expense"} PROVE S(type) = B(type)
  <2>1. \A a \in OfType(A, type) : s[a] \in Int /\ s[a] = b[a]
    BY <1>1, <1>2
  <2>2. QED
    BY <1>2, <2>1, SumSame
<1>5. ASSUME NEW type \in {"Liability", "Equity", "Revenue"} PROVE B(type) = (-1) * S(type)
  <2>1. \A a \in OfType(A, type) : s[a] \in Int /\ b[a] = (-1) * s[a]
    BY <1>1, <1>2
  <2>2. QED
    BY <1>2, <2>1, SumTimes
<1>6. SumOver(s, A) = Imbalance(E)
  BY <1>3, SignedSum
<1>7. /\ \A type : S(type) \in Int
      /\ SumOver(s, A) = S("Asset") + S("Expense") + S("Liability") + S("Equity") + S("Revenue")
  BY <1>1, FiveTypes
<1>8. \A type : TotalOf(rows, type) = B(type)
  BY TotalsAre DEF rows, b
<1> HIDE DEF S, B
<1>9. SheetOff(rows) = Imbalance(E)
  BY <1>4, <1>5, <1>6, <1>7, <1>8 DEF SheetOff, TotalEquity, NetIncome
<1>10. QED
  BY <1>9 DEF rows

\* Accounts without lines do not change the income.
LEMMA IncomeOfAny ==
  ASSUME NEW E \in SUBSET Entries, NEW A \in SUBSET Codes, CodesOfLines(E) \subseteq A
  PROVE  /\ NetIncome(RowsOf(E, A)) = NetIncome(RowsOf(E, Codes))
         /\ NetIncome(RowsOf(E, A)) \in Int
<1>1. ASSUME NEW type
      PROVE  /\ TotalOf(RowsOf(E, A), type) = TotalOf(RowsOf(E, Codes), type)
             /\ TotalOf(RowsOf(E, A), type) \in Int
  <2> DEFINE b == [a \in A |-> Row(E, a).balance]
             k == [a \in Codes |-> Row(E, a).balance]
             T == OfType(A, type)
             U == OfType(Codes, type)
  <2>1. IsFiniteSet(U) /\ T \in SUBSET U
    BY CodesFinite DEF OfType
  <2>2. \A a \in T : b[a] \in Int /\ k[a] = b[a]
    <3>1. \A a \in A : Row(E, a).balance \in Nat
      BY RowIs
    <3>2. QED
      BY <3>1 DEF OfType
  <2>3. \A a \in U \ T : k[a] = 0
    <3> TAKE a \in U \ T
    <3>1. a \in Codes \ A
      BY DEF OfType
    <3>2. {l \in PostedLines(E) : AccountOf[l] = a} = {}
      BY <3>1, LineIs DEF CodesOfLines, PostedLines
    <3>3. /\ Debits(E, a) = KeySum(DebitOf, PostedLines(E), AccountOf, a)
          /\ Credits(E, a) = KeySum(CreditOf, PostedLines(E), AccountOf, a)
      BY <3>1, SumsOfLines
    <3>4. Debits(E, a) = 0 /\ Credits(E, a) = 0
      BY <3>2, <3>3, SumOfNone, Zenon DEF KeySum
    <3>5. Row(E, a).balance = 0
      BY <3>4 DEF Row, Abs
    <3>6. QED
      BY <3>1, <3>5
  <2> HIDE DEF b, k, T, U
  <2>4. SumOver(k, U) = SumOver(b, T)
    BY <2>1, <2>2, <2>3, SumWithNoughts
  <2>5. SumOver(b, T) \in Int
    BY <2>1, <2>2, FS_Subset, SumIsInt
  <2>6. TotalOf(RowsOf(E, A), type) = SumOver(b, T) /\ TotalOf(RowsOf(E, Codes), type) = SumOver(k, U)
    BY TotalsAre DEF b, k, T, U
  <2>7. QED
    BY <2>4, <2>5, <2>6
<1>2. QED
  BY <1>1 DEF NetIncome

(***************************************************************************)
(* The base of the zakat                                                   *)
(***************************************************************************)

LEMMA NetCreditsCancel ==
  ASSUME NEW E \in SUBSET Entries
  PROVE  /\ \A type : NetCredit(E, type) \in Int
         /\ Imbalance(E) \in Int
         /\ NetCredit(E, "Asset") + NetCredit(E, "Expense") + NetCredit(E, "Liability")
              + NetCredit(E, "Equity") + NetCredit(E, "Revenue") = -Imbalance(E)
<1> DEFINE d == [a \in Codes |-> Debits(E, a)]
           k == [a \in Codes |-> Credits(E, a)]
<1>1. \A a \in Codes : d[a] \in Int /\ k[a] \in Int
  <2>1. \A a \in Codes : Debits(E, a) \in Nat /\ Credits(E, a) \in Nat
    BY AmountsAre
  <2>2. QED
    BY <2>1
<1>2. /\ SumOver(d, Codes) - SumOver(k, Codes) = Imbalance(E) /\ Imbalance(E) \in Int
      /\ SumOver(d, Codes) \in Int /\ SumOver(k, Codes) \in Int
  <2>1. \A a \in Codes : d[a] = Debits(E, a) /\ k[a] = Credits(E, a)
    OBVIOUS
  <2>2. CodesOfLines(E) \subseteq Codes
    BY CodesAre
  <2> HIDE DEF d, k
  <2>3. QED
    BY <2>1, <2>2, TwoSides
<1>3. ASSUME NEW type
      PROVE  NetCredit(E, type) = SumOver(k, OfType(Codes, type)) - SumOver(d, OfType(Codes, type))
  <2> DEFINE S == OfType(Codes, type)
             dS == [a \in S |-> Debits(E, a)]
             kS == [a \in S |-> Credits(E, a)]
  <2>1. S = {a \in Codes : TypeOf[a] = type} /\ IsFiniteSet(S) /\ S \subseteq Codes
    BY CodesFinite DEF OfType
  <2>2. NetCredit(E, type) = SumOver(kS, S) - SumOver(dS, S)
    BY DEF NetCredit, OfType
  <2>3. \A a \in S : dS[a] \in Int /\ dS[a] = d[a] /\ kS[a] \in Int /\ kS[a] = k[a]
    BY <1>1, <2>1
  <2> HIDE DEF S, dS, kS, d, k
  <2>4. SumOver(kS, S) = SumOver(k, S)
    BY <2>1, <2>3, SumSame
  <2>5. SumOver(dS, S) = SumOver(d, S)
    BY <2>1, <2>3, SumSame
  <2>6. QED
    BY <2>2, <2>4, <2>5 DEF S
<1> HIDE DEF d, k
<1>4. /\ \A type : SumOver(d, OfType(Codes, type)) \in Int
      /\ SumOver(d, Codes) = SumOver(d, OfType(Codes, "Asset")) + SumOver(d, OfType(Codes, "Expense"))
                          + SumOver(d, OfType(Codes, "Liability")) + SumOver(d, OfType(Codes, "Equity"))
                          + SumOver(d, OfType(Codes, "Revenue"))
  BY <1>1, FiveTypes
<1>5. /\ \A type : SumOver(k, OfType(Codes, type)) \in Int
      /\ SumOver(k, Codes) = SumOver(k, OfType(Codes, "Asset")) + SumOver(k, OfType(Codes, "Expense"))
                          + SumOver(k, OfType(Codes, "Liability")) + SumOver(k, OfType(Codes, "Equity"))
                          + SumOver(k, OfType(Codes, "Revenue"))
  BY <1>1, FiveTypes
<1>6. \A type : NetCredit(E, type) \in Int
  BY <1>3, <1>4, <1>5
<1> DEFINE D(type) == SumOver(d, OfType(Codes, type))
           K(type) == SumOver(k, OfType(Codes, type))
<1>7. /\ \A type : D(type) \in Int /\ K(type) \in Int /\ NetCredit(E, type) = K(type) - D(type)
      /\ SumOver(d, Codes) = D("Asset") + D("Expense") + D("Liability") + D("Equity") + D("Revenue")
      /\ SumOver(k, Codes) = K("Asset") + K("Expense") + K("Liability") + K("Equity") + K("Revenue")
  BY <1>3, <1>4, <1>5, Zenon
<1> HIDE DEF D, K
<1>8. QED
  BY <1>2, <1>6, <1>7

LEMMA NetCreditOfTwo ==
  ASSUME NEW E \in SUBSET Entries, NEW F \in SUBSET Entries, E \cap F = {}, NEW type
  PROVE  NetCredit(E \cup F, type) = NetCredit(E, type) + NetCredit(F, type)
<1> DEFINE S == {a \in Codes : TypeOf[a] = type}
           U == E \cup F
           d(T) == [a \in S |-> Debits(T, a)]
           k(T) == [a \in S |-> Credits(T, a)]
<1>1. IsFiniteSet(E) /\ IsFiniteSet(F)
  BY EntriesFinite
<1>2. ASSUME NEW a \in S
      PROVE  /\ Debits(U, a) = Debits(E, a) + Debits(F, a)
             /\ Credits(U, a) = Credits(E, a) + Credits(F, a)
  <2> DEFINE f == [e \in Entries |-> DebitIn[e][a]]
             g == [e \in Entries |-> CreditIn[e][a]]
  <2>1. /\ \A e \in E \cup F : f[e] \in Int
        /\ \A e \in E \cup F : g[e] \in Int
    BY SidesOfEntry
  <2>2. \A T : Debits(T, a) = SumOver(f, T) /\ Credits(T, a) = SumOver(g, T)
    BY DEF Debits, Credits
  <2> HIDE DEF f, g
  <2>3. SumOver(f, E \cup F) = SumOver(f, E) + SumOver(f, F)
    BY <1>1, <2>1, SumOfTwo
  <2>4. SumOver(g, E \cup F) = SumOver(g, E) + SumOver(g, F)
    BY <1>1, <2>1, SumOfTwo
  <2>5. QED
    BY <2>2, <2>3, <2>4
<1>3. IsFiniteSet(S) /\ U \in SUBSET Entries
  BY CodesFinite
<1>4. ASSUME NEW T \in SUBSET Entries
      PROVE  /\ NetCredit(T, type) = SumOver(k(T), S) - SumOver(d(T), S)
             /\ SumOver(k(T), S) \in Int /\ SumOver(d(T), S) \in Int
             /\ \A a \in S : d(T)[a] = Debits(T, a) /\ d(T)[a] \in Int
             /\ \A a \in S : k(T)[a] = Credits(T, a) /\ k(T)[a] \in Int
  <2>1. NetCredit(T, type) = SumOver(k(T), S) - SumOver(d(T), S)
    BY DEF NetCredit
  <2>2. /\ \A a \in S : d(T)[a] = Debits(T, a) /\ d(T)[a] \in Int
        /\ \A a \in S : k(T)[a] = Credits(T, a) /\ k(T)[a] \in Int
    <3>1. \A a \in Codes : Debits(T, a) \in Nat /\ Credits(T, a) \in Nat
      BY AmountsAre
    <3>2. QED
      BY <3>1
  <2> HIDE DEF d, k, S
  <2>3. SumOver(k(T), S) \in Int /\ SumOver(d(T), S) \in Int
    BY <1>3, <2>2, SumIsInt
  <2>4. QED
    BY <2>1, <2>2, <2>3
<1> HIDE DEF d, k, S
<1>5. SumOver(d(U), S) = SumOver(d(E), S) + SumOver(d(F), S)
  <2>1. \A a \in S : d(E)[a] \in Int /\ d(F)[a] \in Int /\ d(U)[a] = d(E)[a] + d(F)[a]
    BY <1>2, <1>3, <1>4
  <2>2. QED
    BY <1>3, <2>1, SumPlus
<1>6. SumOver(k(U), S) = SumOver(k(E), S) + SumOver(k(F), S)
  <2>1. \A a \in S : k(E)[a] \in Int /\ k(F)[a] \in Int /\ k(U)[a] = k(E)[a] + k(F)[a]
    BY <1>2, <1>3, <1>4
  <2>2. QED
    BY <1>3, <2>1, SumPlus
<1>7. QED
  BY <1>3, <1>4, <1>5, <1>6

LEMMA WithinIs ==
  ASSUME journal \in SUBSET Entries
  PROVE  \A k, range : Within(k, range) \in SUBSET Entries /\ Within(k, range) \subseteq journal
  BY DEF Within

LEMMA RestIsEarned ==
  ASSUME NEW a \in Int, NEW l \in Int, NEW q \in Int, NEW e \in Int, NEW r \in Int,
         NEW earlierE \in Int, NEW earlierR \in Int, NEW off \in Int,
         a + (e + earlierE) + l + q + (r + earlierR) = -off
  PROVE  q + l + r + e = (-a) - (earlierR + earlierE) - off
  OBVIOUS

\* The base made of the four aggregates is the net assets less the income from
\* before the period and less what the entries are off balance by.
LEMMA BaseIsEarned ==
  ASSUME journal \in SUBSET Entries, NEW range \in [from: Nat, to: Nat], NEW sums,
         \A type \in {"Revenue", "Expense", "Equity", "Liability"} :
           sums[type] = NetCredit(Within(Parent, Since(type, range)), type)
  PROVE  ZakatBase(sums) = Max({0, NetAssets(range) - EarlierIncome(range) - Imbalance(Until(range))})
<1> DEFINE T == Until(range)
           R == Within(Parent, range)
           Y == {e \in Until(range) : Entry[e].at < range.from}
<1>1. T = R \cup Y /\ R \cap Y = {}
  BY EntryIs DEF Within, Until
<1>2. T \in SUBSET Entries /\ R \in SUBSET Entries /\ Y \in SUBSET Entries
  BY DEF Within, Until
<1>3. /\ sums["Revenue"] = NetCredit(R, "Revenue") /\ sums["Expense"] = NetCredit(R, "Expense")
      /\ sums["Equity"] = NetCredit(T, "Equity") /\ sums["Liability"] = NetCredit(T, "Liability")
  <2>1. Since("Revenue", range) = range /\ Since("Expense", range) = range
    BY DEF Since
  <2>2. /\ Since("Equity", range) = [from |-> 0, to |-> range.to]
        /\ Since("Liability", range) = [from |-> 0, to |-> range.to]
    BY DEF Since
  <2>3. Within(Parent, [from |-> 0, to |-> range.to]) = T
    BY EntryIs DEF Within, Until
  <2> HIDE DEF T
  <2>4. QED
    BY <2>1, <2>2, <2>3
<1>4. /\ NetAssets(range) = -NetCredit(T, "Asset")
      /\ EarlierIncome(range) = NetCredit(Y, "Revenue") + NetCredit(Y, "Expense")
  BY DEF NetAssets, EarlierIncome
<1> HIDE DEF T, R, Y
<1>5. \A type : NetCredit(R \cup Y, type) = NetCredit(R, type) + NetCredit(Y, type)
  BY <1>1, <1>2, NetCreditOfTwo
<1>6. \A type : NetCredit(T, type) = NetCredit(R, type) + NetCredit(Y, type)
  BY <1>1, <1>5, Zenon
<1>7. /\ \A type : /\ NetCredit(T, type) \in Int /\ NetCredit(R, type) \in Int
                   /\ NetCredit(Y, type) \in Int
      /\ NetCredit(T, "Asset") + NetCredit(T, "Expense") + NetCredit(T, "Liability")
           + NetCredit(T, "Equity") + NetCredit(T, "Revenue") = -Imbalance(T)
      /\ Imbalance(T) \in Int
  BY <1>2, NetCreditsCancel
<1>8. sums["Equity"] + sums["Liability"] + sums["Revenue"] + sums["Expense"]
        = NetAssets(range) - EarlierIncome(range) - Imbalance(T)
  <2> DEFINE t(type) == NetCredit(T, type)
             r(type) == NetCredit(R, type)
             y(type) == NetCredit(Y, type)
  <2>1. \A type : t(type) \in Int /\ r(type) \in Int /\ y(type) \in Int /\ t(type) = r(type) + y(type)
    BY <1>6, <1>7
  <2>2. /\ t("Asset") + t("Expense") + t("Liability") + t("Equity") + t("Revenue") = -Imbalance(T)
        /\ sums["Revenue"] = r("Revenue") /\ sums["Expense"] = r("Expense")
        /\ sums["Equity"] = t("Equity") /\ sums["Liability"] = t("Liability")
        /\ NetAssets(range) = -t("Asset") /\ EarlierIncome(range) = y("Revenue") + y("Expense")
    BY <1>3, <1>4, <1>7
  <2> HIDE DEF t, r, y
  <2>3. PICK ta, te, tl, tq, tr, re, rr, ye, yr \in Int :
          /\ ta = t("Asset") /\ te = t("Expense") /\ tl = t("Liability") /\ tq = t("Equity")
          /\ tr = t("Revenue") /\ re = r("Expense") /\ rr = r("Revenue")
          /\ ye = y("Expense") /\ yr = y("Revenue") /\ te = re + ye /\ tr = rr + yr
    BY <2>1
  <2>4. ta + (re + ye) + tl + tq + (rr + yr) = -Imbalance(T)
    BY <2>2, <2>3
  <2>5. tq + tl + rr + re = (-ta) - (yr + ye) - Imbalance(T)
    BY <1>7, <2>4, RestIsEarned
  <2>6. QED
    BY <2>2, <2>3, <2>5
<1>9. QED
  BY <1>8, Zenon DEF ZakatBase, T

(***************************************************************************)
(* Trial balances that are added up                                        *)
(***************************************************************************)

DebitSide(tb) == SumOver([a \in DOMAIN tb |-> tb[a].debit], DOMAIN tb)
CreditSide(tb) == SumOver([a \in DOMAIN tb |-> tb[a].credit], DOMAIN tb)

\* A trial balance of sums, whose debits exceed its credits by off.
TbOff(tb, off) ==
  /\ DOMAIN tb \in SUBSET Codes
  /\ tb \in [DOMAIN tb -> [debit: Nat, credit: Nat]]
  /\ DebitSide(tb) \in Int /\ CreditSide(tb) \in Int
  /\ DebitSide(tb) - CreditSide(tb) = off

LEMMA EmptyTbIs == TbOff([a \in {} |-> Zero], 0)
<1> DEFINE tb == [a \in {} |-> Zero]
<1>1. DOMAIN tb = {} /\ tb \in [{} -> [debit: Nat, credit: Nat]]
  OBVIOUS
<1>2. DebitSide(tb) = 0 /\ CreditSide(tb) = 0
  <2> HIDE DEF tb
  <2>1. DebitSide(tb) = SumOver([a \in DOMAIN tb |-> tb[a].debit], {})
    BY <1>1, Zenon DEF DebitSide
  <2>2. CreditSide(tb) = SumOver([a \in DOMAIN tb |-> tb[a].credit], {})
    BY <1>1, Zenon DEF CreditSide
  <2>3. QED
    BY <2>1, <2>2, SumOfNone
<1> HIDE DEF tb
<1>3. TbOff(tb, 0)
  BY <1>1, <1>2 DEF TbOff
<1>4. QED
  BY <1>3 DEF tb

\* The sides of a trial balance, however they are written.
LEMMA SidesAre ==
  ASSUME NEW tb, NEW D \in SUBSET Codes, DOMAIN tb = D, NEW d, NEW k,
         \A a \in D : d[a] = tb[a].debit /\ d[a] \in Int /\ k[a] = tb[a].credit /\ k[a] \in Int
  PROVE  DebitSide(tb) = SumOver(d, D) /\ CreditSide(tb) = SumOver(k, D)
<1> DEFINE f == [a \in D |-> tb[a].debit]
           g == [a \in D |-> tb[a].credit]
<1>1. DebitSide(tb) = SumOver(f, D) /\ CreditSide(tb) = SumOver(g, D)
  BY Zenon DEF DebitSide, CreditSide
<1>2. \A a \in D : d[a] \in Int /\ d[a] = f[a]
  OBVIOUS
<1>3. \A a \in D : k[a] \in Int /\ k[a] = g[a]
  OBVIOUS
<1>4. IsFiniteSet(D)
  BY CodesFinite
<1> HIDE DEF f, g
<1>5. SumOver(d, D) = SumOver(f, D)
  BY <1>2, <1>4, SumSame
<1>6. SumOver(k, D) = SumOver(g, D)
  BY <1>3, <1>4, SumSame
<1>7. QED
  BY <1>1, <1>5, <1>6

LEMMA TenantTbIs ==
  ASSUME journal \in SUBSET Entries, NEW k, NEW range
  PROVE  TbOff(TenantTb(k, range), Imbalance(Within(k, range)))
<1> DEFINE E == Within(k, range)
           D == CodesOfLines(E)
           tb == TenantTb(k, range)
           d == [a \in D |-> Debits(E, a)]
           c == [a \in D |-> Credits(E, a)]
<1>1. E \in SUBSET Entries /\ D \in SUBSET Codes
  BY CodesAre DEF Within
<1>2. tb = [a \in D |-> [debit |-> Debits(E, a), credit |-> Credits(E, a)]]
  BY DEF TenantTb
<1>3. \A a \in D : Debits(E, a) \in Nat /\ Credits(E, a) \in Nat
  BY <1>1, AmountsAre
<1> HIDE DEF E, D, tb
<1>4. DOMAIN tb = D /\ tb \in [D -> [debit: Nat, credit: Nat]]
  BY <1>2, <1>3
<1>5. /\ \A a \in D : d[a] = tb[a].debit /\ d[a] \in Int /\ c[a] = tb[a].credit /\ c[a] \in Int
      /\ \A a \in D : d[a] = Debits(E, a) /\ c[a] = Credits(E, a)
  BY <1>2, <1>3
<1> HIDE DEF d, c
<1>6. DebitSide(tb) = SumOver(d, D) /\ CreditSide(tb) = SumOver(c, D)
  BY <1>1, <1>4, <1>5, SidesAre
<1>7. /\ SumOver(d, D) - SumOver(c, D) = Imbalance(E)
      /\ SumOver(d, D) \in Int /\ SumOver(c, D) \in Int
  <2>1. CodesOfLines(E) \subseteq D
    BY DEF D
  <2>2. \A a \in D : d[a] = Debits(E, a) /\ c[a] = Credits(E, a)
    BY <1>5
  <2>3. E \in SUBSET Entries /\ D \in SUBSET Codes
    BY <1>1
  <2>4. QED
    BY <2>1, <2>2, <2>3, TwoSides
<1>8. QED
  BY <1>1, <1>4, <1>6, <1>7, Zenon DEF TbOff, tb, E

LEMMA TimesDifference ==
  ASSUME NEW r \in Nat, NEW p \in Int, NEW q \in Int
  PROVE  r * p - r * q = r * (p - q) /\ r * p \in Int /\ r * q \in Int
  OBVIOUS

LEMMA TranslatedIs ==
  ASSUME NEW tb, NEW off, TbOff(tb, off), NEW r \in Nat
  PROVE  TbOff(Translated(tb, r), r * off)
<1> DEFINE D == DOMAIN tb
           tr == Translated(tb, r)
           d == [a \in D |-> tb[a].debit]
           k == [a \in D |-> tb[a].credit]
           dr == [a \in D |-> r * tb[a].debit]
           kr == [a \in D |-> r * tb[a].credit]
<1>1. /\ D \in SUBSET Codes /\ IsFiniteSet(D)
      /\ DebitSide(tb) \in Int /\ CreditSide(tb) \in Int /\ DebitSide(tb) - CreditSide(tb) = off
      /\ \A a \in D : tb[a].debit \in Nat /\ tb[a].credit \in Nat
  BY CodesFinite DEF TbOff
<1>2. tr = [a \in D |-> [debit |-> tb[a].debit * r, credit |-> tb[a].credit * r]]
  BY DEF Translated
<1>3. \A a \in D : /\ tb[a].debit * r = r * tb[a].debit /\ r * tb[a].debit \in Nat
                   /\ tb[a].credit * r = r * tb[a].credit /\ r * tb[a].credit \in Nat
  BY <1>1
<1> HIDE DEF tr
<1>4. /\ DOMAIN tr = D /\ tr \in [D -> [debit: Nat, credit: Nat]]
      /\ \A a \in D : tr[a].debit = r * tb[a].debit /\ tr[a].credit = r * tb[a].credit
  BY <1>2, <1>3
<1>5. /\ \A a \in D : d[a] = tb[a].debit /\ d[a] \in Int /\ k[a] = tb[a].credit /\ k[a] \in Int
      /\ \A a \in D : dr[a] = tr[a].debit /\ dr[a] \in Int /\ kr[a] = tr[a].credit /\ kr[a] \in Int
      /\ \A a \in D : d[a] \in Int /\ dr[a] = r * d[a]
      /\ \A a \in D : k[a] \in Int /\ kr[a] = r * k[a]
  BY <1>1, <1>3, <1>4
<1> HIDE DEF d, k, dr, kr, D
<1>6. DebitSide(tr) = SumOver(dr, D) /\ CreditSide(tr) = SumOver(kr, D)
  <2>1. D \in SUBSET Codes /\ DOMAIN tr = D
    BY <1>1, <1>4
  <2>2. \A a \in D : dr[a] = tr[a].debit /\ dr[a] \in Int /\ kr[a] = tr[a].credit /\ kr[a] \in Int
    BY <1>5
  <2>3. QED
    BY <2>1, <2>2, SidesAre
<1>7. DebitSide(tb) = SumOver(d, D) /\ CreditSide(tb) = SumOver(k, D)
  BY <1>1, <1>5, SidesAre DEF D
<1>8. SumOver(dr, D) = r * SumOver(d, D)
  BY <1>1, <1>5, SumTimes
<1>9. SumOver(kr, D) = r * SumOver(k, D)
  BY <1>1, <1>5, SumTimes
<1>10. /\ DebitSide(tr) \in Int /\ CreditSide(tr) \in Int
       /\ DebitSide(tr) - CreditSide(tr) = r * off
  BY <1>1, <1>6, <1>7, <1>8, <1>9, TimesDifference
<1>11. QED
  BY <1>1, <1>4, <1>10 DEF TbOff, tr

LEMMA PlusIs ==
  ASSUME NEW tb, NEW tc, NEW off, NEW more, TbOff(tb, off), TbOff(tc, more)
  PROVE  TbOff(Plus(tb, tc), off + more)
<1> DEFINE B == DOMAIN tb
           C == DOMAIN tc
           U == B \cup C
           sum == Plus(tb, tc)
           db == [a \in B |-> tb[a].debit]
           kb == [a \in B |-> tb[a].credit]
           dc == [a \in C |-> tc[a].debit]
           kc == [a \in C |-> tc[a].credit]
           DB == [a \in U |-> At(tb, a).debit]
           KB == [a \in U |-> At(tb, a).credit]
           DC == [a \in U |-> At(tc, a).debit]
           KC == [a \in U |-> At(tc, a).credit]
           d == [a \in U |-> At(tb, a).debit + At(tc, a).debit]
           k == [a \in U |-> At(tb, a).credit + At(tc, a).credit]
<1>1. /\ B \in SUBSET Codes /\ C \in SUBSET Codes /\ U \in SUBSET Codes
      /\ IsFiniteSet(B) /\ IsFiniteSet(C) /\ IsFiniteSet(U)
      /\ DebitSide(tb) \in Int /\ CreditSide(tb) \in Int /\ DebitSide(tb) - CreditSide(tb) = off
      /\ DebitSide(tc) \in Int /\ CreditSide(tc) \in Int /\ DebitSide(tc) - CreditSide(tc) = more
      /\ \A a \in B : tb[a].debit \in Nat /\ tb[a].credit \in Nat
      /\ \A a \in C : tc[a].debit \in Nat /\ tc[a].credit \in Nat
  BY CodesFinite DEF TbOff
<1>2. /\ \A a \in B : At(tb, a) = tb[a]
      /\ \A a \in C : At(tc, a) = tc[a]
      /\ \A a \in U \ B : At(tb, a).debit = 0 /\ At(tb, a).credit = 0
      /\ \A a \in U \ C : At(tc, a).debit = 0 /\ At(tc, a).credit = 0
  BY DEF At, Zero
<1>3. \A a \in U : /\ At(tb, a).debit \in Nat /\ At(tb, a).credit \in Nat
                   /\ At(tc, a).debit \in Nat /\ At(tc, a).credit \in Nat
  BY <1>1, <1>2
<1>4. sum = [a \in U |-> [debit |-> At(tb, a).debit + At(tc, a).debit,
                          credit |-> At(tb, a).credit + At(tc, a).credit]]
  BY DEF Plus
<1> HIDE DEF sum
<1>5. /\ DOMAIN sum = U /\ sum \in [U -> [debit: Nat, credit: Nat]]
      /\ \A a \in U : /\ sum[a].debit = At(tb, a).debit + At(tc, a).debit
                      /\ sum[a].credit = At(tb, a).credit + At(tc, a).credit
  BY <1>3, <1>4
<1>6. /\ \A a \in B : db[a] = tb[a].debit /\ db[a] \in Int /\ kb[a] = tb[a].credit /\ kb[a] \in Int
      /\ \A a \in C : dc[a] = tc[a].debit /\ dc[a] \in Int /\ kc[a] = tc[a].credit /\ kc[a] \in Int
      /\ \A a \in U : d[a] = sum[a].debit /\ d[a] \in Int /\ k[a] = sum[a].credit /\ k[a] \in Int
  BY <1>1, <1>3, <1>5
<1>7. /\ \A a \in B : db[a] \in Int /\ DB[a] = db[a]
      /\ \A a \in B : kb[a] \in Int /\ KB[a] = kb[a]
      /\ \A a \in C : dc[a] \in Int /\ DC[a] = dc[a]
      /\ \A a \in C : kc[a] \in Int /\ KC[a] = kc[a]
      /\ \A a \in U \ B : DB[a] = 0
      /\ \A a \in U \ B : KB[a] = 0
      /\ \A a \in U \ C : DC[a] = 0
      /\ \A a \in U \ C : KC[a] = 0
  BY <1>1, <1>2
<1>8. /\ \A a \in U : DB[a] \in Int /\ DC[a] \in Int /\ d[a] = DB[a] + DC[a]
      /\ \A a \in U : KB[a] \in Int /\ KC[a] \in Int /\ k[a] = KB[a] + KC[a]
  BY <1>3
<1>9. B \in SUBSET U /\ C \in SUBSET U /\ DOMAIN tb = B /\ DOMAIN tc = C
  OBVIOUS
<1> HIDE DEF B, C, U, db, kb, dc, kc, DB, KB, DC, KC, d, k
<1>10. DebitSide(tb) = SumOver(db, B) /\ CreditSide(tb) = SumOver(kb, B)
  <2>1. B \in SUBSET Codes /\ DOMAIN tb = B
    BY <1>1, <1>9
  <2>2. \A a \in B : db[a] = tb[a].debit /\ db[a] \in Int /\ kb[a] = tb[a].credit /\ kb[a] \in Int
    BY <1>6
  <2>3. QED
    BY <2>1, <2>2, SidesAre
<1>11. DebitSide(tc) = SumOver(dc, C) /\ CreditSide(tc) = SumOver(kc, C)
  <2>1. C \in SUBSET Codes /\ DOMAIN tc = C
    BY <1>1, <1>9
  <2>2. \A a \in C : dc[a] = tc[a].debit /\ dc[a] \in Int /\ kc[a] = tc[a].credit /\ kc[a] \in Int
    BY <1>6
  <2>3. QED
    BY <2>1, <2>2, SidesAre
<1>12. DebitSide(sum) = SumOver(d, U) /\ CreditSide(sum) = SumOver(k, U)
  <2>1. U \in SUBSET Codes /\ DOMAIN sum = U
    BY <1>1, <1>5
  <2>2. \A a \in U : d[a] = sum[a].debit /\ d[a] \in Int /\ k[a] = sum[a].credit /\ k[a] \in Int
    BY <1>6
  <2>3. QED
    BY <2>1, <2>2, SidesAre
<1>13. SumOver(DB, U) = SumOver(db, B)
  BY <1>1, <1>7, <1>9, SumWithNoughts
<1>14. SumOver(KB, U) = SumOver(kb, B)
  BY <1>1, <1>7, <1>9, SumWithNoughts
<1>15. SumOver(DC, U) = SumOver(dc, C)
  BY <1>1, <1>7, <1>9, SumWithNoughts
<1>16. SumOver(KC, U) = SumOver(kc, C)
  BY <1>1, <1>7, <1>9, SumWithNoughts
<1>17. SumOver(d, U) = SumOver(DB, U) + SumOver(DC, U)
  BY <1>1, <1>8, SumPlus
<1>18. SumOver(k, U) = SumOver(KB, U) + SumOver(KC, U)
  BY <1>1, <1>8, SumPlus
<1>19. /\ DebitSide(sum) \in Int /\ CreditSide(sum) \in Int
       /\ DebitSide(sum) - CreditSide(sum) = off + more
  BY <1>1, <1>10, <1>11, <1>12, <1>13, <1>14, <1>15, <1>16, <1>17, <1>18
<1>20. QED
  BY <1>1, <1>5, <1>19 DEF TbOff, sum

LEMMA QuotientIs ==
  ASSUME NEW n \in Nat, NEW d \in Nat, d > 0
  PROVE  /\ n \div d \in Nat /\ d * (n \div d) <= n /\ n < d * (n \div d) + d
  OBVIOUS

LEMMA ToCentsIs ==
  ASSUME NEW x \in Nat
  PROVE  /\ ToCents(x) \in Nat /\ (2 * RateUnit) * ToCents(x) \in Nat
         /\ (2 * RateUnit) * ToCents(x) <= 2 * x + RateUnit
         /\ 2 * x - RateUnit <= (2 * RateUnit) * ToCents(x)
<1> DEFINE n == 2 * x + RateUnit
           d == 2 * RateUnit
<1>1. RateUnit \in Nat /\ RateUnit > 0 /\ n \in Nat /\ d \in Nat /\ d > 0
  BY ReportsAssumption
<1>2. ToCents(x) = n \div d
  BY DEF ToCents
<1> HIDE DEF n, d
<1>3. n \div d \in Nat /\ d * (n \div d) <= n /\ n < d * (n \div d) + d
  BY <1>1, QuotientIs
<1> DEFINE k == d * (n \div d)
<1>4. k \in Nat
  BY <1>1, <1>3
<1>5. k <= n /\ n < k + d
  BY <1>3
<1> HIDE DEF k
<1>6. k <= 2 * x + RateUnit /\ 2 * x - RateUnit <= k
  BY <1>1, <1>4, <1>5 DEF n, d
<1>7. QED
  BY <1>2, <1>3, <1>4, <1>6 DEF k, d

\* Rounding moves a sum by half a cent for each amount.
LEMMA RoundedSum ==
  ASSUME NEW D \in SUBSET Codes, NEW x, NEW q,
         \A a \in D : x[a] \in Nat /\ q[a] = ToCents(x[a])
  PROVE  /\ SumOver(x, D) \in Int /\ SumOver(q, D) \in Int
         /\ (2 * RateUnit) * SumOver(q, D) <= 2 * SumOver(x, D) + RateUnit * Cardinality(D)
         /\ 2 * SumOver(x, D) - RateUnit * Cardinality(D) <= (2 * RateUnit) * SumOver(q, D)
<1> DEFINE twice == [a \in D |-> 2 * x[a]]
           scaled == [a \in D |-> (2 * RateUnit) * q[a]]
           unit == [a \in D |-> RateUnit]
           less == [a \in D |-> 2 * x[a] - RateUnit]
           more == [a \in D |-> 2 * x[a] + RateUnit]
<1>1. IsFiniteSet(D) /\ RateUnit \in Int /\ 2 * RateUnit \in Int /\ Cardinality(D) \in Nat
  BY CodesFinite, FS_CardinalityType, ReportsAssumption
<1>2. \A a \in D : /\ q[a] \in Nat /\ x[a] \in Nat /\ (2 * RateUnit) * q[a] \in Nat
                   /\ (2 * RateUnit) * q[a] <= 2 * x[a] + RateUnit
                   /\ 2 * x[a] - RateUnit <= (2 * RateUnit) * q[a]
  BY ToCentsIs
<1>3. /\ \A a \in D : x[a] \in Int /\ twice[a] = 2 * x[a]
      /\ \A a \in D : q[a] \in Int /\ scaled[a] = (2 * RateUnit) * q[a]
      /\ \A a \in D : unit[a] = RateUnit
      /\ \A a \in D : twice[a] \in Int /\ unit[a] \in Int /\ more[a] = twice[a] + unit[a]
      /\ \A a \in D : less[a] \in Int /\ unit[a] \in Int /\ twice[a] = less[a] + unit[a]
      /\ \A a \in D : less[a] \in Int /\ scaled[a] \in Int /\ less[a] <= scaled[a]
      /\ \A a \in D : scaled[a] \in Int /\ more[a] \in Int /\ scaled[a] <= more[a]
  BY <1>1, <1>2
<1> HIDE DEF twice, scaled, unit, less, more
<1>4. SumOver(twice, D) = 2 * SumOver(x, D)
  BY <1>1, <1>3, SumTimes
<1>5. SumOver(scaled, D) = (2 * RateUnit) * SumOver(q, D)
  BY <1>1, <1>3, SumTimes
<1>6. SumOver(unit, D) = RateUnit * Cardinality(D)
  BY <1>1, <1>3, SumOfSame
<1>7. SumOver(more, D) = SumOver(twice, D) + SumOver(unit, D)
  BY <1>1, <1>3, SumPlus
<1>8. SumOver(twice, D) = SumOver(less, D) + SumOver(unit, D)
  BY <1>1, <1>3, SumPlus
<1>9. SumOver(less, D) <= SumOver(scaled, D)
  BY <1>1, <1>3, SumAtMost
<1>10. SumOver(scaled, D) <= SumOver(more, D)
  BY <1>1, <1>3, SumAtMost
<1>11. /\ SumOver(x, D) \in Int /\ SumOver(q, D) \in Int /\ SumOver(less, D) \in Int
       /\ SumOver(more, D) \in Int /\ SumOver(scaled, D) \in Int /\ SumOver(unit, D) \in Int
       /\ SumOver(twice, D) \in Int
  <2>1. /\ \A a \in D : more[a] \in Int
        /\ \A a \in D : less[a] \in Int
        /\ \A a \in D : unit[a] \in Int
        /\ \A a \in D : twice[a] \in Int
        /\ \A a \in D : scaled[a] \in Int
        /\ \A a \in D : x[a] \in Int
        /\ \A a \in D : q[a] \in Int
    BY <1>1, <1>3
  <2>2. QED
    BY <1>1, <2>1, SumIsInt
<1>12. QED
  BY <1>4, <1>5, <1>6, <1>7, <1>8, <1>9, <1>10, <1>11

\* Two sums that are within u of others when doubled.
LEMMA RoundedOff ==
  ASSUME NEW r \in Int, NEW p \in Int, NEW q \in Int, NEW x \in Int, NEW y \in Int, NEW u \in Int,
         (2 * r) * p <= 2 * x + u, 2 * x - u <= (2 * r) * p,
         (2 * r) * q <= 2 * y + u, 2 * y - u <= (2 * r) * q
  PROVE  Abs(r * (p - q) - (x - y)) <= u
<1> DEFINE P == r * p
           Q == r * q
<1>1. P \in Int /\ Q \in Int /\ (2 * r) * p = 2 * P /\ (2 * r) * q = 2 * Q /\ r * (p - q) = P - Q
  OBVIOUS
<1> HIDE DEF P, Q
<1>2. 2 * P <= 2 * x + u /\ 2 * x - u <= 2 * P /\ 2 * Q <= 2 * y + u /\ 2 * y - u <= 2 * Q
  BY <1>1
<1>3. (P - Q) - (x - y) <= u /\ -((P - Q) - (x - y)) <= u
  BY <1>1, <1>2
<1>4. Abs((P - Q) - (x - y)) <= u
  BY <1>3 DEF Abs
<1>5. QED
  BY <1>1, <1>4

\* Rounding its amounts moves the difference of the sides of a trial balance by
\* no more than a cent for each code.
LEMMA RoundedIs ==
  ASSUME NEW tb, NEW off, TbOff(tb, off), NEW rows, DOMAIN rows = DOMAIN tb,
         \A a \in DOMAIN tb : /\ rows[a].debit = ToCents(tb[a].debit)
                              /\ rows[a].credit = ToCents(tb[a].credit)
  PROVE  Abs(RateUnit * (DebitSide(rows) - CreditSide(rows)) - off)
           <= RateUnit * Cardinality(DOMAIN rows)
<1> DEFINE D == DOMAIN tb
           d == [a \in D |-> tb[a].debit]
           k == [a \in D |-> tb[a].credit]
           rd == [a \in D |-> rows[a].debit]
           rk == [a \in D |-> rows[a].credit]
           n == Cardinality(D)
<1>1. /\ D \in SUBSET Codes /\ IsFiniteSet(D) /\ n \in Nat
      /\ DebitSide(tb) - CreditSide(tb) = off
      /\ \A a \in D : tb[a].debit \in Nat /\ tb[a].credit \in Nat
  BY CodesFinite, FS_CardinalityType DEF TbOff
<1>2. \A a \in D : /\ ToCents(tb[a].debit) \in Nat /\ ToCents(tb[a].credit) \in Nat
  BY <1>1, ToCentsIs
<1>3. /\ \A a \in D : d[a] = tb[a].debit /\ d[a] \in Int /\ k[a] = tb[a].credit /\ k[a] \in Int
      /\ \A a \in D : rd[a] = rows[a].debit /\ rd[a] \in Int /\ rk[a] = rows[a].credit /\ rk[a] \in Int
      /\ \A a \in D : d[a] \in Nat /\ rd[a] = ToCents(d[a])
      /\ \A a \in D : k[a] \in Nat /\ rk[a] = ToCents(k[a])
  BY <1>1, <1>2
<1>4. DOMAIN rows = D /\ DOMAIN tb = D
  OBVIOUS
<1> HIDE DEF D, d, k, rd, rk
<1>5. DebitSide(tb) = SumOver(d, D) /\ CreditSide(tb) = SumOver(k, D)
  BY <1>1, <1>3, <1>4, SidesAre
<1>6. DebitSide(rows) = SumOver(rd, D) /\ CreditSide(rows) = SumOver(rk, D)
  <2>1. \A a \in D : rd[a] = rows[a].debit /\ rd[a] \in Int /\ rk[a] = rows[a].credit /\ rk[a] \in Int
    BY <1>3
  <2>2. D \in SUBSET Codes /\ DOMAIN rows = D
    BY <1>1, <1>4
  <2>3. QED
    BY <2>1, <2>2, SidesAre
<1>7. /\ SumOver(d, D) \in Int /\ SumOver(rd, D) \in Int
      /\ (2 * RateUnit) * SumOver(rd, D) <= 2 * SumOver(d, D) + RateUnit * n
      /\ 2 * SumOver(d, D) - RateUnit * n <= (2 * RateUnit) * SumOver(rd, D)
  BY <1>1, <1>3, RoundedSum
<1>8. /\ SumOver(k, D) \in Int /\ SumOver(rk, D) \in Int
      /\ (2 * RateUnit) * SumOver(rk, D) <= 2 * SumOver(k, D) + RateUnit * n
      /\ 2 * SumOver(k, D) - RateUnit * n <= (2 * RateUnit) * SumOver(rk, D)
  BY <1>1, <1>3, RoundedSum
<1> DEFINE p == SumOver(rd, D)
           q == SumOver(rk, D)
           x == SumOver(d, D)
           y == SumOver(k, D)
           u == RateUnit * n
<1>9. /\ p \in Int /\ q \in Int /\ x \in Int /\ y \in Int /\ u \in Int /\ RateUnit \in Int
      /\ (2 * RateUnit) * p <= 2 * x + u /\ 2 * x - u <= (2 * RateUnit) * p
      /\ (2 * RateUnit) * q <= 2 * y + u /\ 2 * y - u <= (2 * RateUnit) * q
  BY <1>1, <1>7, <1>8, ReportsAssumption
<1>10. x - y = off
  BY <1>1, <1>5
<1>11. DebitSide(rows) - CreditSide(rows) = p - q /\ RateUnit * Cardinality(DOMAIN rows) = u
  BY <1>4, <1>6
<1> HIDE DEF p, q, x, y, u
<1>12. Abs(RateUnit * (p - q) - (x - y)) <= u
  BY <1>9, RoundedOff
<1>13. QED
  BY <1>10, <1>11, <1>12

(***************************************************************************)
(* The calls: what they have read agrees with the ledger until something   *)
(* is posted                                                               *)
(***************************************************************************)

Labels ==
  {"idle", "done", "failed", "lines", "income", "accounts", "setting", "Revenue", "Expense",
   "Equity", "Liability", "base", "children", "rate"}

ReportsTyped ==
  /\ opened \in [Companies -> SUBSET Codes]
  /\ journal \in SUBSET Entries
  /\ \A e \in journal : CodesOfLines({e}) \subseteq opened[Entry[e].of]
  /\ rate \in [Foreign -> Rates \cup {NoRate}]
  /\ pc \in [Calls -> Labels]
  /\ found = [c \in ReportCalls |-> found[c]]
  /\ report = [c \in ReportCalls |-> report[c]]

\* The parent's entries of a range in the journal J.
InRange(J, range) ==
  {e \in J : Entry[e].of = Parent /\ Entry[e].at \in range.from..range.to}

\* A has the codes of all lines of the parent.
KnowsLines(J, A) ==
  \A e \in J : Entry[e].of = Parent => CodesOfLines({e}) \subseteq A

\* The first statement of the dashboard.
MonthIncome(J, now) == NetIncome(RowsOf(InRange(J, Statements(now)[1]), Codes))

LedgerRead(c) ==
  pc[c] = "lines" =>
    \E range \in Ranges, A \in SUBSET Codes :
      found[c] = [kind |-> "ledger", range |-> range, accounts |-> A]

Kpis(now, n, m, A) ==
  [kind |-> "kpis", now |-> now, number |-> n, month |-> m, accounts |-> A]

MonthKnown(J, now, n, m, A) == KnowsLines(J, A) /\ (n > 1 => m = MonthIncome(J, now))

KpisRead(c) ==
  pc[c] \in {"income", "accounts"} =>
    \E now, n, m, A :
      /\ n \in 1..Len(Statements(now)) /\ A \in SUBSET Codes /\ found[c] = Kpis(now, n, m, A)
      /\ c \notin stale => MonthKnown(journal, now, n, m, A)

\* The aggregates an estimate has made by now.
Made ==
  [setting |-> {}, Revenue |-> {}, Expense |-> {"Revenue"}, Equity |-> {"Revenue", "Expense"},
   Liability |-> {"Revenue", "Expense", "Equity"},
   base |-> {"Revenue", "Expense", "Equity", "Liability"}]

ZakatRead(c) ==
  pc[c] \in DOMAIN Made =>
    \E range \in Ranges : \E sums :
      /\ found[c] = [kind |-> "zakat", range |-> range, sums |-> sums]
      /\ DOMAIN sums = Made[pc[c]]
      /\ c \notin stale =>
           \A type \in Made[pc[c]] :
             sums[type] = NetCredit(InRange(journal, Since(type, range)), type)

Group(range, left, tb, off, k, tc, more) ==
  [kind |-> "group", range |-> range, left |-> left, tb |-> tb, off |-> off,
   child |-> k, childTb |-> tc, childOff |-> more]

GroupRead(c) ==
  pc[c] \in {"children", "rate"} =>
    \E range, left, tb, off, k, tc, more :
      /\ found[c] = Group(range, left, tb, off, k, tc, more)
      /\ TbOff(tb, off) /\ TbOff(tc, more)

\* What StatementsAgree and ConsolidationBalances say of one answer.
AnswerAgrees(r, outdated) ==
  /\ r.kind = "ledger" /\ r.unseen = {} =>
       /\ GrandTotal(r.rows, "Debit") - GrandTotal(r.rows, "Credit") = r.off
       /\ IsBalanced(r.rows) = (r.off = 0)
       /\ (\A a \in DOMAIN r.rows : ~Contrary(r.rows, a)) => SheetOff(r.rows) = r.off
  /\ r.kind = "zakat" /\ ~outdated => r.base = Max({0, r.earned})
  /\ r.kind = "kpis" /\ ~outdated /\ r.same => r.month = r.chart
  /\ r.kind = "group" =>
       Abs(RateUnit * (DebitSide(r.rows) - CreditSide(r.rows)) - r.off)
         <= RateUnit * Cardinality(DOMAIN r.rows)

CallInv(c) ==
  /\ pc[c] \in {"idle", "done", "failed"} => found[c] = Nothing
  /\ LedgerRead(c) /\ KpisRead(c) /\ ZakatRead(c) /\ GroupRead(c)
  /\ (report[c] # Nothing) = (pc[c] = "done")
  /\ AnswerAgrees(report[c], c \in stale)

ReportsInv == ReportsTyped /\ \A c \in ReportCalls : CallInv(c)

ReportsView == <<reportVars, pc, stale>>

LEMMA ReportsInvImplies ==
  ASSUME ReportsInv
  PROVE  ReportsTypeOK /\ StatementsAgree /\ ConsolidationBalances
<1>1. ReportsTypeOK
  <2>1. \A c \in ReportCalls : (found[c] # Nothing) = InFlight(c)
    <3> TAKE c \in ReportCalls
    <3>1. pc[c] \in Labels /\ CallInv(c)
      BY ReportsAssumption DEF ReportsInv, ReportsTyped
    <3>2. CASE pc[c] \in {"idle", "done", "failed"}
      BY <3>1, <3>2 DEF CallInv, InFlight, Ended
    <3>3. CASE pc[c] \notin {"idle", "done", "failed"}
      <4>1. found[c].kind \in {"ledger", "kpis", "zakat", "group"}
        <5>1. CASE pc[c] = "lines"
          <6>1. LedgerRead(c)
            BY <3>1 DEF CallInv
          <6>2. PICK range, A : found[c] = [kind |-> "ledger", range |-> range, accounts |-> A]
            BY <5>1, <6>1 DEF LedgerRead
          <6>3. QED
            BY <6>2
        <5>2. CASE pc[c] \in {"income", "accounts"}
          <6>1. KpisRead(c)
            BY <3>1 DEF CallInv
          <6>2. PICK now, n, m, A : found[c] = Kpis(now, n, m, A)
            BY <5>2, <6>1 DEF KpisRead
          <6>3. QED
            BY <6>2 DEF Kpis
        <5>3. CASE pc[c] \in DOMAIN Made
          <6>1. ZakatRead(c)
            BY <3>1 DEF CallInv
          <6>2. PICK range, sums : found[c] = [kind |-> "zakat", range |-> range, sums |-> sums]
            BY <5>3, <6>1 DEF ZakatRead
          <6>3. QED
            BY <6>2
        <5>4. CASE pc[c] \in {"children", "rate"}
          <6>1. GroupRead(c)
            BY <3>1 DEF CallInv
          <6>2. PICK range, left, tb, off, k, tc, more :
                   found[c] = Group(range, left, tb, off, k, tc, more)
            BY <5>4, <6>1 DEF GroupRead
          <6>3. QED
            BY <6>2 DEF Group
        <5>5. QED
          BY <3>1, <3>3, <5>1, <5>2, <5>3, <5>4 DEF Labels, Made
      <4>2. Nothing.kind = "none"
        BY DEF Nothing
      <4>3. QED
        BY <3>3, <4>1, <4>2 DEF InFlight, Ended
    <3>4. QED
      BY <3>2, <3>3
  <2>2. \A e \in journal : CodesOfLines({e}) \subseteq opened[Entry[e].of]
    BY DEF ReportsInv, ReportsTyped
  <2>3. \A c \in ReportCalls : (report[c] # Nothing) = (pc[c] = "done")
    BY DEF ReportsInv, CallInv
  <2>4. QED
    BY <2>1, <2>2, <2>3 DEF ReportsInv, ReportsTyped, ReportsTypeOK
<1>2. ASSUME NEW c \in ReportCalls PROVE AnswerAgrees(report[c], c \in stale)
  BY DEF ReportsInv, CallInv
<1>3. StatementsAgree
  BY <1>2 DEF StatementsAgree, AnswerAgrees
<1>4. ConsolidationBalances
  BY <1>2 DEF ConsolidationBalances, AnswerAgrees, DebitSide, CreditSide
<1>5. QED
  BY <1>1, <1>3, <1>4

LEMMA NothingAgrees == \A outdated : AnswerAgrees(Nothing, outdated)
  BY DEF AnswerAgrees, Nothing

LEMMA ReportsInitInv == RequestsInit /\ ReportsInit => ReportsInv
<1> SUFFICES ASSUME RequestsInit, ReportsInit PROVE ReportsInv
  OBVIOUS
<1>1. ReportsTyped
  <2>1. opened \in [Companies -> SUBSET Codes]
    BY DEF ReportsInit
  <2>2. QED
    BY <2>1, ReportsAssumption DEF RequestsInit, ReportsInit, ReportsTyped, Labels
<1>2. ASSUME NEW c \in ReportCalls PROVE CallInv(c)
  <2>1. pc[c] = "idle" /\ found[c] = Nothing /\ report[c] = Nothing
    BY ReportsAssumption DEF RequestsInit, ReportsInit
  <2>2. QED
    BY <2>1, NothingAgrees DEF CallInv, LedgerRead, KpisRead, ZakatRead, GroupRead, Made
<1>3. QED
  BY <1>1, <1>2 DEF ReportsInv

\* A call that does not move stays right while the ledger stands still.
LEMMA CallKeeps ==
  ASSUME NEW d \in ReportCalls, CallInv(d), journal' = journal, stale' = stale,
         pc'[d] = pc[d], found'[d] = found[d], report'[d] = report[d]
  PROVE  CallInv(d)'
<1>1. (LedgerRead(d) /\ KpisRead(d))'
  BY DEF CallInv, LedgerRead, KpisRead
<1>2. ZakatRead(d)'
  <2>1. ASSUME pc[d] \in DOMAIN Made
        PROVE  \E range \in Ranges : \E sums :
                 /\ found[d] = [kind |-> "zakat", range |-> range, sums |-> sums]
                 /\ DOMAIN sums = Made[pc[d]]
                 /\ d \notin stale =>
                      \A type \in Made[pc[d]] :
                        sums[type] = NetCredit(InRange(journal, Since(type, range)), type)
    BY <2>1 DEF CallInv, ZakatRead
  <2>2. QED
    BY <2>1, Zenon DEF ZakatRead
<1>3. GroupRead(d)'
  BY DEF CallInv, GroupRead
<1>4. AnswerAgrees(report[d], d \in stale)'
  BY DEF CallInv, AnswerAgrees
<1>5. QED
  BY <1>1, <1>2, <1>3, <1>4 DEF CallInv

\* When an entry is posted, every call in flight is outdated.
LEMMA CallIsOutdated ==
  ASSUME NEW d \in ReportCalls, CallInv(d), stale \subseteq stale', InFlight(d) => d \in stale',
         pc' = pc, found' = found, report' = report
  PROVE  CallInv(d)'
<1>1. (LedgerRead(d) /\ GroupRead(d))'
  BY DEF CallInv, LedgerRead, GroupRead
<1>2. KpisRead(d)'
  BY DEF CallInv, KpisRead, InFlight, Ended
<1>3. ZakatRead(d)'
  <2>1. pc[d] \in DOMAIN Made => InFlight(d)
    BY DEF Made, InFlight, Ended
  <2>2. QED
    BY <2>1 DEF CallInv, ZakatRead
<1>4. AnswerAgrees(report[d], d \in stale)'
  BY DEF CallInv, AnswerAgrees
<1>5. QED
  BY <1>1, <1>2, <1>3, <1>4 DEF CallInv

\* A call moves while the ledger stands still.
LEMMA CallMoves ==
  ASSUME ReportsInv, NEW c \in ReportCalls, NEW l \in Labels, Goto(c, l), NEW f, NEW r,
         found' = [found EXCEPT ![c] = f], report' = [report EXCEPT ![c] = r],
         UNCHANGED <<opened, journal, rate, stale>>, CallInv(c)'
  PROVE  ReportsInv'
<1>1. ReportsTyped'
  BY ReportsAssumption DEF ReportsInv, ReportsTyped, Goto
<1>2. ASSUME NEW d \in ReportCalls, d # c PROVE CallInv(d)'
  <2>1. pc'[d] = pc[d] /\ found'[d] = found[d] /\ report'[d] = report[d]
    BY <1>2, ReportsAssumption DEF ReportsInv, ReportsTyped, Goto
  <2>2. CallInv(d)
    BY DEF ReportsInv
  <2>3. QED
    BY <2>1, <2>2, CallKeeps
<1>3. QED
  BY <1>1, <1>2 DEF ReportsInv

\* It reads on.
LEMMA CallReads ==
  ASSUME ReportsInv, NEW c \in ReportCalls, NEW l \in Labels \ {"idle", "done", "failed"},
         Goto(c, l), NEW f, found' = [found EXCEPT ![c] = f], report' = report,
         pc[c] # "done", UNCHANGED <<opened, journal, rate, stale>>,
         LedgerRead(c)', KpisRead(c)', ZakatRead(c)', GroupRead(c)'
  PROVE  ReportsInv'
<1>1. report' = [report EXCEPT ![c] = report[c]] /\ report'[c] = Nothing /\ pc'[c] = l
  BY ReportsAssumption DEF ReportsInv, ReportsTyped, CallInv, Goto
<1>2. AnswerAgrees(report[c], c \in stale)'
  BY <1>1, NothingAgrees
<1>3. CallInv(c)'
  BY <1>1, <1>2 DEF CallInv
<1>4. QED
  BY <1>1, <1>3, CallMoves

\* It fails.
LEMMA CallFails ==
  ASSUME ReportsInv, NEW c \in ReportCalls, Goto(c, "failed"), pc[c] # "done",
         found' = [found EXCEPT ![c] = Nothing], report' = report,
         UNCHANGED <<opened, journal, rate, stale>>
  PROVE  ReportsInv'
<1>1. /\ report' = [report EXCEPT ![c] = report[c]] /\ report'[c] = Nothing
      /\ pc'[c] = "failed" /\ found'[c] = Nothing
  BY ReportsAssumption DEF ReportsInv, ReportsTyped, CallInv, Goto
<1>2. AnswerAgrees(report[c], c \in stale)'
  BY <1>1, NothingAgrees
<1>3. CallInv(c)'
  BY <1>1, <1>2 DEF CallInv, LedgerRead, KpisRead, ZakatRead, GroupRead, Made
<1>4. "failed" \in Labels
  BY DEF Labels
<1>5. QED
  BY <1>1, <1>3, <1>4, CallMoves

\* It answers.
LEMMA CallAnswers ==
  ASSUME ReportsInv, NEW c \in ReportCalls, Goto(c, "done"), NEW r, r # Nothing,
         AnswerAgrees(r, c \in stale), found' = [found EXCEPT ![c] = Nothing],
         report' = [report EXCEPT ![c] = r], UNCHANGED <<opened, journal, rate, stale>>
  PROVE  ReportsInv'
<1>1. pc'[c] = "done" /\ found'[c] = Nothing /\ report'[c] = r
  BY ReportsAssumption DEF ReportsInv, ReportsTyped, Goto
<1>2. AnswerAgrees(report[c], c \in stale)'
  BY <1>1
<1>3. CallInv(c)'
  BY <1>1, <1>2 DEF CallInv, LedgerRead, KpisRead, ZakatRead, GroupRead, Made
<1>4. "done" \in Labels
  BY DEF Labels
<1>5. QED
  BY <1>1, <1>3, <1>4, CallMoves

LEMMA WithinParent == \A range : Within(Parent, range) = InRange(journal, range)
  BY DEF Within, InRange

LEMMA LinesKnown ==
  ASSUME NEW J, NEW A, KnowsLines(J, A), NEW range
  PROVE  CodesOfLines(InRange(J, range)) \subseteq A
<1> SUFFICES ASSUME NEW l \in PostedLines(InRange(J, range)) PROVE LineOf[l].account \in A
  BY DEF CodesOfLines
<1>1. /\ LineOf[l].entry \in J /\ Entry[LineOf[l].entry].of = Parent
      /\ l \in PostedLines({LineOf[l].entry})
  BY DEF InRange, PostedLines
<1>2. QED
  BY <1>1 DEF KnowsLines, CodesOfLines

LEMMA StatementsAre ==
  ASSUME NEW now
  PROVE  Len(Statements(now)) \in Nat /\ Len(Statements(now)) > 1
<1> DEFINE first == <<[from |-> Last(Months).from, to |-> now], [from |-> 0, to |-> Latest]>>
           n == Len(Months)
<1>1. Months \in Seq([from: Nat, to: Nat]) /\ n \in Nat
  BY ReportsAssumption
<1>2. Statements(now) = first \o Months /\ Len(first) = 2
  BY DEF Statements
<1>3. \E S : first \in Seq(S) /\ Months \in Seq(S)
  <2> DEFINE S == {first[1], first[2]} \cup [from: Nat, to: Nat]
  <2>1. first \in Seq(S)
    <3> DEFINE a == first[1]
               b == first[2]
    <3>1. first = <<a, b>> /\ a \in S /\ b \in S
      OBVIOUS
    <3> HIDE DEF first, a, b, S
    <3>2. QED
      BY <3>1
  <2>2. Months \in Seq(S)
    BY <1>1, SeqMonotonic
  <2>3. QED
    BY <2>1, <2>2
<1> HIDE DEF first
<1>4. PICK S : first \in Seq(S) /\ Months \in Seq(S)
  BY <1>3
<1>5. Len(first \o Months) = Len(first) + Len(Months)
  BY <1>4, ConcatProperties
<1>6. Len(Statements(now)) = 2 + n
  BY <1>2, <1>5
<1>7. n >= 0 /\ n # 0
  BY ReportsAssumption, <1>1, EmptySeq
<1>8. QED
  BY <1>1, <1>6

(***************************************************************************)
(* One lemma for each step                                                 *)
(***************************************************************************)

\* A call that is reading has its place of work and no answer yet.
LEMMA Reading ==
  ASSUME ReportsInv, NEW c \in ReportCalls
  PROVE  /\ pc[c] \in Labels /\ DOMAIN pc = Calls /\ c \in Calls
         /\ DOMAIN found = ReportCalls /\ DOMAIN report = ReportCalls
         /\ journal \in SUBSET Entries /\ opened[Parent] \in SUBSET Codes
         /\ KnowsLines(journal, opened[Parent])
         /\ LedgerRead(c) /\ KpisRead(c) /\ ZakatRead(c) /\ GroupRead(c)
<1>1. c \in Calls /\ Parent \in Companies
  BY ReportsAssumption DEF Companies
<1>2. ReportsTyped /\ CallInv(c)
  BY DEF ReportsInv
<1>3. KnowsLines(journal, opened[Parent])
  BY <1>2 DEF ReportsTyped, KnowsLines
<1>4. QED
  BY <1>1, <1>2, <1>3 DEF ReportsTyped, CallInv

LEMMA ReadAccountsInv ==
  ASSUME ReportsInv, NEW c \in ReportCalls, ReadAccounts(c)
  PROVE  ReportsInv'
<1>1. PICK range \in Ranges :
        found' = [found EXCEPT ![c] = [kind |-> "ledger", range |-> range,
                                       accounts |-> opened[Parent]]]
  BY DEF ReadAccounts
<1>2. Goto(c, "lines") /\ report' = report /\ UNCHANGED <<opened, journal, rate, stale>>
      /\ pc[c] # "done" /\ "lines" \in Labels \ {"idle", "done", "failed"}
  BY DEF ReadAccounts, Labels
<1>3. pc'[c] = "lines" /\ opened[Parent] \in SUBSET Codes
      /\ found'[c] = [kind |-> "ledger", range |-> range, accounts |-> opened[Parent]]
  BY <1>1, <1>2, Reading DEF Goto
<1>4. LedgerRead(c)' /\ KpisRead(c)' /\ ZakatRead(c)' /\ GroupRead(c)'
  BY <1>3 DEF LedgerRead, KpisRead, ZakatRead, GroupRead, Made
<1>5. QED
  BY <1>1, <1>2, <1>4, CallReads

LEMMA SumLinesInv ==
  ASSUME ReportsInv, NEW c \in ReportCalls, SumLines(c)
  PROVE  ReportsInv'
<1>1. PICK range \in Ranges, A \in SUBSET Codes :
        found[c] = [kind |-> "ledger", range |-> range, accounts |-> A]
  BY Reading DEF SumLines, LedgerRead
<1> DEFINE E == Within(Parent, range)
           r == [kind |-> "ledger", rows |-> RowsOf(E, A), unseen |-> CodesOfLines(E) \ A,
                 off |-> Imbalance(E)]
<1>2. /\ Goto(c, "done") /\ found' = [found EXCEPT ![c] = Nothing]
      /\ report' = [report EXCEPT ![c] = r] /\ UNCHANGED <<opened, journal, rate, stale>>
  BY <1>1 DEF SumLines, RowsOf
<1>3. E \in SUBSET Entries
  BY Reading, WithinIs
<1>4. r # Nothing /\ AnswerAgrees(r, c \in stale)
  <2>1. CodesOfLines(E) \subseteq A =>
          /\ GrandTotal(RowsOf(E, A), "Debit") - GrandTotal(RowsOf(E, A), "Credit") = Imbalance(E)
          /\ IsBalanced(RowsOf(E, A)) = (Imbalance(E) = 0)
    BY <1>3, RowsBalance
  <2>2. CodesOfLines(E) \subseteq A /\ (\A a \in A : ~Contrary(RowsOf(E, A), a)) =>
          SheetOff(RowsOf(E, A)) = Imbalance(E)
    BY <1>3, SheetBalances
  <2>3. DOMAIN RowsOf(E, A) = A
    BY DEF RowsOf
  <2> HIDE DEF E
  <2>4. /\ r.kind = "ledger" /\ r.rows = RowsOf(E, A) /\ r.off = Imbalance(E)
        /\ r.unseen = {} => CodesOfLines(E) \subseteq A
    OBVIOUS
  <2> HIDE DEF r
  <2>5. AnswerAgrees(r, c \in stale)
    BY <2>1, <2>2, <2>3, <2>4 DEF AnswerAgrees
  <2>6. QED
    BY <2>4, <2>5 DEF Nothing
<1> HIDE DEF r
<1>5. QED
  BY <1>2, <1>4, CallAnswers

LEMMA ReadDashboardInv ==
  ASSUME ReportsInv, NEW c \in ReportCalls, ReadDashboard(c)
  PROVE  ReportsInv'
<1> DEFINE A == opened[Parent]
           f(now) == Kpis(now, 1, 0, A)
<1>1. PICK now \in Nows : found' = [found EXCEPT ![c] = f(now)]
  BY DEF ReadDashboard, Kpis
<1>2. /\ Goto(c, "income") /\ report' = report /\ UNCHANGED <<opened, journal, rate, stale>>
      /\ pc[c] # "done" /\ "income" \in Labels \ {"idle", "done", "failed"}
  BY DEF ReadDashboard, Labels
<1>3. pc'[c] = "income" /\ found'[c] = f(now) /\ A \in SUBSET Codes
      /\ KnowsLines(journal, A) /\ journal' = journal
  BY <1>1, <1>2, Reading DEF Goto
<1>4. KpisRead(c)'
  <2>1. 1 \in 1..Len(Statements(now))
    BY StatementsAre
  <2>2. MonthKnown(journal', now, 1, 0, A)
    BY <1>3 DEF MonthKnown
  <2>3. PICK n, m : n = 1 /\ m = 0
    OBVIOUS
  <2>4. /\ n \in 1..Len(Statements(now)) /\ found'[c] = Kpis(now, n, m, A)
        /\ MonthKnown(journal', now, n, m, A)
    BY <1>3, <2>1, <2>2, <2>3
  <2> HIDE DEF A
  <2>5. QED
    BY <1>3, <2>4 DEF KpisRead
<1>5. LedgerRead(c)' /\ ZakatRead(c)' /\ GroupRead(c)'
  BY <1>3 DEF LedgerRead, ZakatRead, GroupRead, Made
<1> HIDE DEF f
<1>6. QED
  BY <1>1, <1>2, <1>4, <1>5, CallReads

LEMMA AccountsAgain ==
  ASSUME NEW now, NEW n, NEW m, NEW B, NEW A
  PROVE  [Kpis(now, n, m, B) EXCEPT !.accounts = A] = Kpis(now, n, m, A)
  BY DEF Kpis

LEMMA ReadAccountsAgainInv ==
  ASSUME ReportsInv, NEW c \in ReportCalls, ReadAccountsAgain(c)
  PROVE  ReportsInv'
<1>1. pc[c] = "accounts" /\ KpisRead(c)
  BY Reading DEF ReadAccountsAgain
<1>2. PICK now, n, m, B :
        /\ n \in 1..Len(Statements(now)) /\ B \in SUBSET Codes /\ found[c] = Kpis(now, n, m, B)
        /\ c \notin stale => MonthKnown(journal, now, n, m, B)
  BY <1>1 DEF KpisRead
<1> DEFINE A == opened[Parent]
           f == Kpis(now, n, m, A)
<1>3. found' = [found EXCEPT ![c] = f]
  <2>1. found' = [found EXCEPT ![c].accounts = A]
    BY DEF ReadAccountsAgain
  <2>2. [found[c] EXCEPT !.accounts = A] = f
    BY <1>2, AccountsAgain
  <2> HIDE DEF f
  <2>3. QED
    BY <2>1, <2>2
<1>4. /\ Goto(c, "income") /\ report' = report /\ UNCHANGED <<opened, journal, rate, stale>>
      /\ pc[c] # "done" /\ "income" \in Labels \ {"idle", "done", "failed"}
  BY <1>1 DEF ReadAccountsAgain, Labels
<1>5. pc'[c] = "income" /\ found'[c] = f /\ A \in SUBSET Codes /\ KnowsLines(journal', A)
      /\ journal' = journal /\ stale' = stale
  BY <1>3, <1>4, Reading DEF Goto
<1>6. KpisRead(c)'
  <2>1. c \notin stale' => MonthKnown(journal', now, n, m, A)
    BY <1>2, <1>5 DEF MonthKnown
  <2> HIDE DEF A
  <2>2. QED
    BY <1>2, <1>5, <2>1 DEF KpisRead
<1>7. LedgerRead(c)' /\ ZakatRead(c)' /\ GroupRead(c)'
  BY <1>5 DEF LedgerRead, ZakatRead, GroupRead, Made
<1> HIDE DEF f
<1>8. QED
  BY <1>3, <1>4, <1>6, <1>7, CallReads

NextStatement(g, month) == [g EXCEPT !.number = g.number + 1, !.month = month]

LEMMA NextStatementIs ==
  ASSUME NEW now, NEW n, NEW m, NEW A, NEW month
  PROVE  NextStatement(Kpis(now, n, m, A), month) = Kpis(now, n + 1, month, A)
<1>1. PICK g : g = Kpis(now, n, m, A)
  OBVIOUS
<1>2. PICK k : k = n + 1
  OBVIOUS
<1>3. PICK h : h = [g EXCEPT !.number = k]
  OBVIOUS
<1>4. h = Kpis(now, k, m, A)
  BY <1>1, <1>3 DEF Kpis
<1>5. [h EXCEPT !.month = month] = Kpis(now, k, month, A)
  BY <1>4 DEF Kpis
<1>6. [g EXCEPT !.number = k, !.month = month] = [h EXCEPT !.month = month]
  BY <1>3, Zenon
<1>7. g.number = n
  BY <1>1 DEF Kpis
<1>8. QED
  BY <1>1, <1>2, <1>5, <1>6, <1>7 DEF NextStatement

LEMMA SumIncomeInv ==
  ASSUME ReportsInv, NEW c \in ReportCalls, SumIncome(c)
  PROVE  ReportsInv'
<1>1. pc[c] = "income" /\ KpisRead(c) /\ journal \in SUBSET Entries
  BY Reading DEF SumIncome
<1>2. PICK now, n, m, A :
        /\ n \in 1..Len(Statements(now)) /\ A \in SUBSET Codes /\ found[c] = Kpis(now, n, m, A)
        /\ c \notin stale => KnowsLines(journal, A) /\ (n > 1 => m = MonthIncome(journal, now))
  BY <1>1 DEF KpisRead, MonthKnown
<1> DEFINE all == Statements(now)
           E == InRange(journal, all[n])
           income == NetIncome(RowsOf(E, A))
           month == IF n = 1 THEN income ELSE m
           same == InRange(journal, all[1]) = E
           f == Kpis(now, n + 1, month, A)
           r == [kind |-> "kpis", month |-> month, chart |-> income, same |-> same]
<1>3. /\ found[c].now = now /\ found[c].number = n /\ found[c].month = m
      /\ found[c].accounts = A
      /\ Within(Parent, all[n]) = E /\ Within(Parent, all[1]) = InRange(journal, all[1])
      /\ NetIncome([a \in A |-> Row(E, a)]) = income
  BY <1>2, WithinParent DEF RowsOf, Kpis
<1>4. c \notin stale => /\ income = NetIncome(RowsOf(E, Codes))
                        /\ n = 1 => income = MonthIncome(journal, now)
  <2> SUFFICES ASSUME c \notin stale
               PROVE  /\ income = NetIncome(RowsOf(E, Codes))
                      /\ n = 1 => income = MonthIncome(journal, now)
    OBVIOUS
  <2>1. CodesOfLines(E) \subseteq A /\ E \in SUBSET Entries
    BY <1>1, <1>2, LinesKnown DEF InRange
  <2>2. income = NetIncome(RowsOf(E, Codes))
    <3> HIDE DEF E
    <3>1. QED
      BY <1>2, <2>1, IncomeOfAny
  <2>3. QED
    BY <2>2 DEF MonthIncome
<1>5. UNCHANGED <<opened, journal, rate, stale>>
  BY DEF SumIncome
<1>6. /\ n < Len(all) => /\ found' = [found EXCEPT ![c].number = @ + 1, ![c].month = month]
                         /\ Goto(c, "accounts") /\ report' = report
      /\ ~(n < Len(all)) => /\ found' = [found EXCEPT ![c] = Nothing]
                            /\ Goto(c, "done") /\ report' = [report EXCEPT ![c] = r]
  <2> HIDE DEF E, income
  <2>1. QED
    BY <1>3 DEF SumIncome
<1>7. CASE n < Len(all)
  <2>1. found' = [found EXCEPT ![c] = f]
    <3> HIDE DEF month
    <3>1. found' = [found EXCEPT ![c].number = @ + 1, ![c].month = month]
      BY <1>6, <1>7
    <3>2. [found[c] EXCEPT !.number = found[c].number + 1, !.month = month] = f
      <4> HIDE DEF f
      <4>1. NextStatement(found[c], month) = Kpis(now, n + 1, month, A)
        BY <1>2, NextStatementIs
      <4>2. QED
        BY <4>1, Zenon DEF NextStatement, f
    <3>3. DOMAIN found = ReportCalls
      BY Reading
    <3> HIDE DEF f
    <3>4. QED
      BY <3>1, <3>2, <3>3
  <2>2. /\ Goto(c, "accounts") /\ report' = report /\ pc[c] # "done"
        /\ "accounts" \in Labels \ {"idle", "done", "failed"}
    BY <1>1, <1>6, <1>7 DEF Labels
  <2>3. pc'[c] = "accounts" /\ found'[c] = f /\ journal' = journal /\ stale' = stale
    BY <1>5, <2>1, <2>2, Reading DEF Goto
  <2>4. KpisRead(c)'
    <3>1. n + 1 \in 1..Len(all)
      BY <1>2, <1>7, StatementsAre
    <3>2. c \notin stale => month = MonthIncome(journal, now)
      BY <1>2, <1>4
    <3> HIDE DEF month, all
    <3>3. c \notin stale' => MonthKnown(journal', now, n + 1, month, A)
      BY <1>2, <2>3, <3>2 DEF MonthKnown
    <3>4. PICK n1 : n1 = n + 1
      OBVIOUS
    <3>5. /\ n1 \in 1..Len(all) /\ found'[c] = Kpis(now, n1, month, A)
          /\ c \notin stale' => MonthKnown(journal', now, n1, month, A)
      BY <2>3, <3>1, <3>3, <3>4
    <3>6. QED
      BY <1>2, <3>5 DEF KpisRead, all
  <2>5. LedgerRead(c)' /\ ZakatRead(c)' /\ GroupRead(c)'
    BY <2>3 DEF LedgerRead, ZakatRead, GroupRead, Made
  <2> HIDE DEF f
  <2>6. QED
    BY <1>5, <2>1, <2>2, <2>4, <2>5, CallReads
<1>8. CASE ~(n < Len(all))
  <2>1. n > 1
    BY <1>2, <1>8, StatementsAre
  <2>2. c \notin stale /\ same => month = income
    <3> SUFFICES ASSUME c \notin stale, same PROVE m = income
      BY <2>1
    <3>1. m = NetIncome(RowsOf(InRange(journal, all[1]), Codes))
      BY <1>2, <2>1 DEF MonthIncome
    <3>2. income = NetIncome(RowsOf(E, Codes))
      BY <1>4
    <3>3. InRange(journal, all[1]) = E
      OBVIOUS
    <3> HIDE DEF E, income, all
    <3>4. QED
      BY <3>1, <3>2, <3>3
  <2>3. r # Nothing /\ AnswerAgrees(r, c \in stale)
    <3>1. r.kind = "kpis" /\ r.same = same /\ r.month = month /\ r.chart = income
      OBVIOUS
    <3> HIDE DEF r, same, month, income
    <3>2. QED
      BY <2>2, <3>1 DEF AnswerAgrees, Nothing
  <2> HIDE DEF r
  <2>4. QED
    BY <1>5, <1>6, <1>8, <2>3, CallAnswers
<1>9. QED
  BY <1>7, <1>8

LEMMA ReadSettingInv ==
  ASSUME ReportsInv, NEW c \in ReportCalls, ReadSetting(c)
  PROVE  ReportsInv'
<1> DEFINE none == [type \in {} |-> 0]
           l == IF setting THEN "Revenue" ELSE "setting"
<1>1. PICK range \in Ranges :
        found' = [found EXCEPT ![c] = [kind |-> "zakat", range |-> range, sums |-> none]]
  BY DEF ReadSetting
<1>2. Goto(c, l) /\ report' = report /\ UNCHANGED <<opened, journal, rate, stale>>
      /\ pc[c] # "done" /\ l \in Labels \ {"idle", "done", "failed"} /\ l \in {"setting", "Revenue"}
  BY DEF ReadSetting, Labels
<1>3. DOMAIN none = {}
  OBVIOUS
<1> HIDE DEF none, l
<1>4. pc'[c] = l /\ found'[c] = [kind |-> "zakat", range |-> range, sums |-> none]
  BY <1>1, <1>2, Reading DEF Goto
<1>5. l \in DOMAIN Made /\ Made[l] = {}
  BY <1>2 DEF Made
<1>6. ZakatRead(c)'
  BY <1>3, <1>4, <1>5 DEF ZakatRead
<1>7. LedgerRead(c)' /\ KpisRead(c)' /\ GroupRead(c)'
  BY <1>2, <1>4 DEF LedgerRead, KpisRead, GroupRead
<1>8. QED
  BY <1>1, <1>2, <1>6, <1>7, CallReads

LEMMA CreateSettingInv ==
  ASSUME ReportsInv, NEW c \in ReportCalls, CreateSetting(c)
  PROVE  ReportsInv'
<1>1. /\ pc[c] = "setting" /\ pc[c] # "done" /\ report' = report
      /\ UNCHANGED <<opened, journal, rate, stale>>
  BY DEF CreateSetting
<1>2. CASE setting
  <2>1. found' = [found EXCEPT ![c] = Nothing] /\ Goto(c, "failed")
    BY <1>2 DEF CreateSetting
  <2>2. QED
    BY <1>1, <2>1, CallFails
<1>3. CASE ~setting
  <2>1. found' = found /\ Goto(c, "Revenue")
    BY <1>3 DEF CreateSetting
  <2>2. PICK f : f = found[c]
    OBVIOUS
  <2>3. found = [d \in ReportCalls |-> found[d]]
    BY DEF ReportsInv, ReportsTyped
  <2>4. found' = [found EXCEPT ![c] = f]
    BY <2>1, <2>2, <2>3
  <2>5. "Revenue" \in Labels \ {"idle", "done", "failed"}
    BY DEF Labels
  <2>6. pc'[c] = "Revenue" /\ found'[c] = found[c] /\ journal' = journal
    BY <1>1, <2>1, Reading DEF Goto
  <2>7. ZakatRead(c)'
    <3>1. /\ "setting" \in DOMAIN Made /\ Made["setting"] = {}
          /\ "Revenue" \in DOMAIN Made /\ Made["Revenue"] = {}
      BY DEF Made
    <3>2. ZakatRead(c)
      BY Reading
    <3>3. PICK range \in Ranges : \E sums :
            found[c] = [kind |-> "zakat", range |-> range, sums |-> sums] /\ DOMAIN sums = {}
      BY <1>1, <3>1, <3>2 DEF ZakatRead
    <3>4. PICK sums :
            found[c] = [kind |-> "zakat", range |-> range, sums |-> sums] /\ DOMAIN sums = {}
      BY <3>3
    <3>5. QED
      BY <2>6, <3>1, <3>4 DEF ZakatRead
  <2>8. LedgerRead(c)' /\ KpisRead(c)' /\ GroupRead(c)'
    BY <2>6 DEF LedgerRead, KpisRead, GroupRead
  <2>9. QED
    BY <1>1, <2>1, <2>4, <2>5, <2>7, <2>8, CallReads
<1>4. QED
  BY <1>2, <1>3

LEMMA MadeAfter ==
  ASSUME NEW p \in DOMAIN After
  PROVE  /\ p \in DOMAIN Made /\ After[p] \in DOMAIN Made
         /\ Made[After[p]] = Made[p] \cup {p} /\ p \notin Made[p]
         /\ After[p] \in Labels \ {"idle", "done", "failed", "lines", "income", "accounts",
                                   "children", "rate"}
         /\ p # "done"
<1>1. p \in {"Revenue", "Expense", "Equity", "Liability"}
  BY DEF After
<1>2. CASE p = "Revenue"
  BY <1>2 DEF After, Made, Labels
<1>3. CASE p = "Expense"
  BY <1>3 DEF After, Made, Labels
<1>4. CASE p = "Equity"
  BY <1>4 DEF After, Made, Labels
<1>5. CASE p = "Liability"
  BY <1>5 DEF After, Made, Labels
<1>6. QED
  BY <1>1, <1>2, <1>3, <1>4, <1>5

LEMMA AggregateInv ==
  ASSUME ReportsInv, NEW c \in ReportCalls, Aggregate(c)
  PROVE  ReportsInv'
<1> DEFINE p == pc[c]
           l == After[p]
<1>1. p \in DOMAIN After /\ ZakatRead(c)
  BY Reading DEF Aggregate
<1>2. /\ p \in DOMAIN Made /\ l \in DOMAIN Made /\ Made[l] = Made[p] \cup {p} /\ p \notin Made[p]
      /\ l \in Labels \ {"idle", "done", "failed", "lines", "income", "accounts",
                         "children", "rate"}
      /\ p # "done"
  BY <1>1, MadeAfter
<1>3. PICK range \in Ranges : \E sums :
        /\ found[c] = [kind |-> "zakat", range |-> range, sums |-> sums]
        /\ DOMAIN sums = Made[p]
        /\ c \notin stale =>
             \A type \in Made[p] :
               sums[type] = NetCredit(InRange(journal, Since(type, range)), type)
  BY <1>1, <1>2 DEF ZakatRead
<1>4. PICK sums :
        /\ found[c] = [kind |-> "zakat", range |-> range, sums |-> sums]
        /\ DOMAIN sums = Made[p]
        /\ c \notin stale =>
             \A type \in Made[p] :
               sums[type] = NetCredit(InRange(journal, Since(type, range)), type)
  BY <1>3
<1> DEFINE E == Within(Parent, Since(p, range))
           more == [type \in Made[p] \cup {p} |->
                      IF type = p THEN NetCredit(E, type) ELSE sums[type]]
           f == [kind |-> "zakat", range |-> range, sums |-> more]
<1>5. /\ Goto(c, l) /\ report' = report /\ UNCHANGED <<opened, journal, rate, stale>>
      /\ journal' = journal /\ stale' = stale
  BY DEF Aggregate
<1>6. found' = [found EXCEPT ![c] = f]
  <2>1. found[c].range = range /\ found[c].sums = sums /\ DOMAIN found[c].sums = Made[p]
    BY <1>4
  <2>2. found' = [found EXCEPT ![c].sums =
                    [type \in DOMAIN found[c].sums \cup {p} |->
                       IF type = p THEN NetCredit(Within(Parent, Since(p, found[c].range)), type)
                                   ELSE found[c].sums[type]]]
    BY DEF Aggregate
  <2> HIDE DEF p
  <2>3. found' = [found EXCEPT ![c].sums = more]
    BY <2>1, <2>2
  <2> HIDE DEF more
  <2>4. [found[c] EXCEPT !.sums = more] = f
    BY <1>4
  <2> HIDE DEF f
  <2>5. QED
    BY <2>3, <2>4
<1>7. pc'[c] = l /\ found'[c] = f
  BY <1>5, <1>6, Reading DEF Goto
<1>8. ZakatRead(c)'
  <2>1. DOMAIN more = Made[l]
    BY <1>2
  <2>2. c \notin stale =>
          \A type \in Made[l] :
            more[type] = NetCredit(InRange(journal, Since(type, range)), type)
    <3> SUFFICES ASSUME c \notin stale, NEW type \in Made[l]
                 PROVE  more[type] = NetCredit(InRange(journal, Since(type, range)), type)
      OBVIOUS
    <3>1. CASE type = p
      BY <1>2, <3>1, WithinParent
    <3>2. CASE type # p
      BY <1>2, <1>4, <3>2
    <3>3. QED
      BY <3>1, <3>2
  <2>3. found'[c] = [kind |-> "zakat", range |-> range, sums |-> more]
    BY <1>7
  <2> HIDE DEF more, f, l, p
  <2>4. QED
    BY <1>5, <1>7, <2>1, <2>2, <2>3 DEF ZakatRead
<1>9. LedgerRead(c)' /\ KpisRead(c)' /\ GroupRead(c)'
  BY <1>2, <1>7 DEF LedgerRead, KpisRead, GroupRead
<1> HIDE DEF f, l
<1>10. QED
  BY <1>2, <1>5, <1>6, <1>8, <1>9, CallReads

LEMMA EstimateInv ==
  ASSUME ReportsInv, NEW c \in ReportCalls, Estimate(c)
  PROVE  ReportsInv'
<1>1. pc[c] = "base" /\ ZakatRead(c) /\ journal \in SUBSET Entries
  BY Reading DEF Estimate
<1>2. "base" \in DOMAIN Made /\ Made["base"] = {"Revenue", "Expense", "Equity", "Liability"}
  BY DEF Made
<1>3. PICK range \in Ranges : \E sums :
        /\ found[c] = [kind |-> "zakat", range |-> range, sums |-> sums]
        /\ c \notin stale =>
             \A type \in Made["base"] :
               sums[type] = NetCredit(InRange(journal, Since(type, range)), type)
  BY <1>1, <1>2 DEF ZakatRead
<1>4. PICK sums :
        /\ found[c] = [kind |-> "zakat", range |-> range, sums |-> sums]
        /\ c \notin stale =>
             \A type \in Made["base"] :
               sums[type] = NetCredit(InRange(journal, Since(type, range)), type)
  BY <1>3
<1> DEFINE base == ZakatBase(sums)
           earned == NetAssets(range) - EarlierIncome(range) - Imbalance(Until(range))
           r == [kind |-> "zakat", base |-> base, earned |-> earned]
<1>5. c \notin stale => base = Max({0, earned})
  <2> SUFFICES ASSUME c \notin stale PROVE base = Max({0, earned})
    OBVIOUS
  <2>1. range \in [from: Nat, to: Nat]
    BY ReportsAssumption
  <2>2. \A type \in {"Revenue", "Expense", "Equity", "Liability"} :
          sums[type] = NetCredit(Within(Parent, Since(type, range)), type)
    BY <1>2, <1>4, WithinParent
  <2>3. QED
    BY <1>1, <2>1, <2>2, BaseIsEarned
<1>6. /\ Goto(c, "done") /\ found' = [found EXCEPT ![c] = Nothing]
      /\ UNCHANGED <<opened, journal, rate, stale>>
  BY DEF Estimate
<1>7. report' = [report EXCEPT ![c] = r]
  <2>1. found[c].range = range /\ found[c].sums = sums
    BY <1>4
  <2>2. QED
    BY <2>1 DEF Estimate
<1>8. r # Nothing /\ AnswerAgrees(r, c \in stale)
  <2> HIDE DEF base, earned
  <2>1. r.kind = "zakat" /\ r.base = base /\ r.earned = earned
    OBVIOUS
  <2> HIDE DEF r
  <2>2. QED
    BY <1>5, <2>1 DEF AnswerAgrees, Nothing
<1> HIDE DEF r
<1>9. QED
  BY <1>6, <1>7, <1>8, CallAnswers

LEMMA ReadParentInv ==
  ASSUME ReportsInv, NEW c \in ReportCalls, ReadParent(c)
  PROVE  ReportsInv'
<1> DEFINE tb(range) == Translated(TenantTb(Parent, range), RateUnit)
           off(range) == RateUnit * Imbalance(Within(Parent, range))
           none == [a \in {} |-> Zero]
           f(range) == Group(range, Children, tb(range), off(range), Parent, none, 0)
<1>1. PICK range \in Ranges : found' = [found EXCEPT ![c] = f(range)]
  BY DEF ReadParent, Group
<1>2. Goto(c, "children") /\ report' = report /\ UNCHANGED <<opened, journal, rate, stale>>
      /\ pc[c] # "done" /\ "children" \in Labels \ {"idle", "done", "failed"}
  BY DEF ReadParent, Labels
<1>3. TbOff(tb(range), off(range)) /\ TbOff(none, 0)
  <2>1. journal \in SUBSET Entries /\ RateUnit \in Nat
    BY Reading, ReportsAssumption
  <2>2. TbOff(TenantTb(Parent, range), Imbalance(Within(Parent, range)))
    BY <2>1, TenantTbIs
  <2>3. QED
    BY <2>1, <2>2, TranslatedIs, EmptyTbIs
<1> HIDE DEF tb, off, none
<1>4. pc'[c] = "children" /\ found'[c] = f(range)
  BY <1>1, <1>2, Reading DEF Goto
<1>5. GroupRead(c)'
  <2>1. PICK zero : zero = 0
    OBVIOUS
  <2>2. /\ found'[c] = Group(range, Children, tb(range), off(range), Parent, none, zero)
        /\ TbOff(tb(range), off(range)) /\ TbOff(none, zero)
    BY <1>3, <1>4, <2>1
  <2>3. QED
    BY <2>2 DEF GroupRead
<1>6. LedgerRead(c)' /\ KpisRead(c)' /\ ZakatRead(c)'
  BY <1>4 DEF LedgerRead, KpisRead, ZakatRead, Made
<1> HIDE DEF f
<1>7. QED
  BY <1>1, <1>2, <1>5, <1>6, CallReads

NextChild(g, left, k, tc, more) ==
  [g EXCEPT !.left = left, !.child = k, !.childTb = tc, !.childOff = more]

LEMMA NextChildIs ==
  ASSUME NEW range, NEW left, NEW tb, NEW off, NEW k, NEW tc, NEW more,
         NEW left1, NEW k1, NEW tc1, NEW more1
  PROVE  NextChild(Group(range, left, tb, off, k, tc, more), left1, k1, tc1, more1)
           = Group(range, left1, tb, off, k1, tc1, more1)
<1>1. PICK g : g = Group(range, left, tb, off, k, tc, more)
  OBVIOUS
<1>2. PICK h : h = [g EXCEPT !.left = left1]
  OBVIOUS
<1>3. h = Group(range, left1, tb, off, k, tc, more)
  BY <1>1, <1>2 DEF Group
<1>4. PICK i : i = [h EXCEPT !.child = k1]
  OBVIOUS
<1>5. i = Group(range, left1, tb, off, k1, tc, more)
  BY <1>3, <1>4 DEF Group
<1>6. PICK j : j = [i EXCEPT !.childTb = tc1]
  OBVIOUS
<1>7. j = Group(range, left1, tb, off, k1, tc1, more)
  BY <1>5, <1>6 DEF Group
<1>8. [j EXCEPT !.childOff = more1] = Group(range, left1, tb, off, k1, tc1, more1)
  BY <1>7 DEF Group
<1>9. NextChild(g, left1, k1, tc1, more1) = [j EXCEPT !.childOff = more1]
  BY <1>2, <1>4, <1>6, Zenon DEF NextChild
<1>10. QED
  BY <1>1, <1>8, <1>9

LEMMA ReadChildInv ==
  ASSUME ReportsInv, NEW c \in ReportCalls, ReadChild(c)
  PROVE  ReportsInv'
<1>1. pc[c] = "children" /\ GroupRead(c) /\ journal \in SUBSET Entries
  BY Reading DEF ReadChild
<1>2. PICK range, left, tb, off, k, tc, more :
        found[c] = Group(range, left, tb, off, k, tc, more) /\ TbOff(tb, off)
  BY <1>1 DEF GroupRead
<1>3. found[c].left = left /\ found[c].range = range
  BY <1>2 DEF Group
<1>4. PICK k1 \in left :
        found' = [found EXCEPT ![c].left = found[c].left \ {k1}, ![c].child = k1,
                               ![c].childTb = TenantTb(k1, range),
                               ![c].childOff = Imbalance(Within(k1, range))]
  BY <1>3 DEF ReadChild
<1> DEFINE left1 == left \ {k1}
           tc1 == TenantTb(k1, range)
           more1 == Imbalance(Within(k1, range))
           f == Group(range, left1, tb, off, k1, tc1, more1)
<1>5. TbOff(tc1, more1)
  BY <1>1, TenantTbIs
<1>6. found' = [found EXCEPT ![c] = f]
  <2> HIDE DEF tc1, more1
  <2>1. found' = [found EXCEPT ![c].left = left1, ![c].child = k1, ![c].childTb = tc1,
                               ![c].childOff = more1]
    BY <1>3, <1>4 DEF tc1, more1
  <2> HIDE DEF left1, f
  <2>2. NextChild(found[c], left1, k1, tc1, more1) = f
    BY <1>2, NextChildIs DEF f
  <2>3. DOMAIN found = ReportCalls
    BY Reading
  <2>4. QED
    BY <2>1, <2>2, <2>3 DEF NextChild
<1> HIDE DEF f, left1, tc1, more1
<1>7. Goto(c, "rate") /\ report' = report /\ UNCHANGED <<opened, journal, rate, stale>>
      /\ pc[c] # "done" /\ "rate" \in Labels \ {"idle", "done", "failed"}
  BY DEF ReadChild, Labels
<1>8. pc'[c] = "rate" /\ found'[c] = Group(range, left1, tb, off, k1, tc1, more1)
  BY <1>6, <1>7, Reading DEF Goto, f
<1>9. GroupRead(c)'
  BY <1>2, <1>5, <1>8 DEF GroupRead
<1>10. LedgerRead(c)' /\ KpisRead(c)' /\ ZakatRead(c)'
  BY <1>8 DEF LedgerRead, KpisRead, ZakatRead, Made
<1>11. QED
  BY <1>6, <1>7, <1>9, <1>10, CallReads

ChildAdded(g, tb, off) == [g EXCEPT !.tb = tb, !.off = off]

LEMMA ChildAddedIs ==
  ASSUME NEW range, NEW left, NEW tb, NEW off, NEW k, NEW tc, NEW more, NEW tb1, NEW off1
  PROVE  ChildAdded(Group(range, left, tb, off, k, tc, more), tb1, off1)
           = Group(range, left, tb1, off1, k, tc, more)
<1>1. PICK g : g = Group(range, left, tb, off, k, tc, more)
  OBVIOUS
<1>2. PICK h : h = [g EXCEPT !.tb = tb1]
  OBVIOUS
<1>3. h = Group(range, left, tb1, off, k, tc, more)
  BY <1>1, <1>2 DEF Group
<1>4. [h EXCEPT !.off = off1] = Group(range, left, tb1, off1, k, tc, more)
  BY <1>3 DEF Group
<1>5. ChildAdded(g, tb1, off1) = [h EXCEPT !.off = off1]
  BY <1>2, Zenon DEF ChildAdded
<1>6. QED
  BY <1>1, <1>4, <1>5

LEMMA AddChildInv ==
  ASSUME ReportsInv, NEW c \in ReportCalls, AddChild(c)
  PROVE  ReportsInv'
<1>1. pc[c] = "rate" /\ GroupRead(c) /\ rate \in [Foreign -> Rates \cup {NoRate}]
  BY Reading DEF AddChild, ReportsInv, ReportsTyped
<1>2. PICK range, left, tb, off, k, tc, more :
        /\ found[c] = Group(range, left, tb, off, k, tc, more)
        /\ TbOff(tb, off) /\ TbOff(tc, more)
  BY <1>1 DEF GroupRead
<1>3. /\ found[c].tb = tb /\ found[c].off = off /\ found[c].child = k /\ found[c].childTb = tc
      /\ found[c].childOff = more
  BY <1>2 DEF Group
<1> DEFINE r == IF k \in Foreign /\ rate[k] # NoRate THEN rate[k] ELSE RateUnit
           sum == Plus(tb, Translated(tc, r))
           off1 == off + r * more
           f == Group(range, left, sum, off1, k, tc, more)
<1>4. TbOff(sum, off1)
  <2>1. r \in Nat
    BY <1>1, ReportsAssumption
  <2> HIDE DEF r
  <2>2. TbOff(Translated(tc, r), r * more)
    BY <1>2, <2>1, TranslatedIs
  <2>3. QED
    BY <1>2, <2>2, PlusIs
<1>5. found' = [found EXCEPT ![c] = f]
  <2>1. found' = [found EXCEPT ![c].tb = sum, ![c].off = off1]
    BY <1>3 DEF AddChild
  <2> HIDE DEF sum, off1, f
  <2>2. ChildAdded(found[c], sum, off1) = f
    BY <1>2, ChildAddedIs DEF f
  <2>3. DOMAIN found = ReportCalls
    BY Reading
  <2>4. QED
    BY <2>1, <2>2, <2>3 DEF ChildAdded
<1> HIDE DEF f, sum, off1
<1>6. Goto(c, "children") /\ report' = report /\ UNCHANGED <<opened, journal, rate, stale>>
      /\ pc[c] # "done" /\ "children" \in Labels \ {"idle", "done", "failed"}
  BY <1>1 DEF AddChild, Labels
<1>7. pc'[c] = "children" /\ found'[c] = Group(range, left, sum, off1, k, tc, more)
  BY <1>5, <1>6, Reading DEF Goto, f
<1>8. GroupRead(c)'
  BY <1>2, <1>4, <1>7 DEF GroupRead
<1>9. LedgerRead(c)' /\ KpisRead(c)' /\ ZakatRead(c)'
  BY <1>7 DEF LedgerRead, KpisRead, ZakatRead, Made
<1>10. QED
  BY <1>5, <1>6, <1>8, <1>9, CallReads

LEMMA ConsolidateInv ==
  ASSUME ReportsInv, NEW c \in ReportCalls, Consolidate(c)
  PROVE  ReportsInv'
<1>1. pc[c] = "children" /\ GroupRead(c)
  BY Reading DEF Consolidate
<1>2. PICK range, left, tb, off, k, tc, more :
        found[c] = Group(range, left, tb, off, k, tc, more) /\ TbOff(tb, off)
  BY <1>1 DEF GroupRead
<1> DEFINE rows == [a \in DOMAIN tb |-> [debit |-> ToCents(tb[a].debit),
                                         credit |-> ToCents(tb[a].credit)]]
           r == [kind |-> "group", off |-> off, rows |-> rows]
<1>3. Abs(RateUnit * (DebitSide(rows) - CreditSide(rows)) - off)
        <= RateUnit * Cardinality(DOMAIN rows)
  <2>1. /\ DOMAIN rows = DOMAIN tb
        /\ \A a \in DOMAIN tb : /\ rows[a].debit = ToCents(tb[a].debit)
                                /\ rows[a].credit = ToCents(tb[a].credit)
    OBVIOUS
  <2> HIDE DEF rows
  <2>2. QED
    BY <1>2, <2>1, RoundedIs
<1>4. /\ Goto(c, "done") /\ found' = [found EXCEPT ![c] = Nothing]
      /\ UNCHANGED <<opened, journal, rate, stale>>
  BY DEF Consolidate
<1>5. report' = [report EXCEPT ![c] = r]
  <2>1. found[c].tb = tb /\ found[c].off = off
    BY <1>2 DEF Group
  <2>2. QED
    BY <2>1 DEF Consolidate
<1> HIDE DEF rows
<1>6. r # Nothing /\ AnswerAgrees(r, c \in stale)
  <2>1. r.kind = "group" /\ r.rows = rows /\ r.off = off
    OBVIOUS
  <2> HIDE DEF r
  <2>2. QED
    BY <1>3, <2>1 DEF AnswerAgrees, Nothing
<1> HIDE DEF r
<1>7. QED
  BY <1>4, <1>5, <1>6, CallAnswers

LEMMA FailInv ==
  ASSUME ReportsInv, NEW c \in ReportCalls, RefuseChild(c) \/ AbortReport(c)
  PROVE  ReportsInv'
<1>1. pc[c] # "done"
  BY DEF RefuseChild, AbortReport, InFlight, Ended
<1>2. /\ Goto(c, "failed") /\ found' = [found EXCEPT ![c] = Nothing] /\ report' = report
      /\ UNCHANGED <<opened, journal, rate, stale>>
  BY DEF RefuseChild, AbortReport
<1>3. QED
  BY <1>1, <1>2, CallFails

\* Nobody's call moves.
LEMMA NoCallMoves ==
  ASSUME ReportsInv, ReportsTyped', UNCHANGED <<journal, found, report, pc, stale>>
  PROVE  ReportsInv'
<1>1. ASSUME NEW d \in ReportCalls PROVE CallInv(d)'
  BY CallKeeps DEF ReportsInv
<1>2. QED
  BY <1>1 DEF ReportsInv

LEMMA OpenAccountInv ==
  ASSUME ReportsInv, NEW k \in Companies, NEW a \in Codes, OpenAccount(k, a)
  PROVE  ReportsInv'
<1>1. ReportsTyped'
  <2>1. ReportsTyped /\ opened \in [Companies -> SUBSET Codes]
    BY DEF ReportsInv, ReportsTyped
  <2>2. \A j \in Companies : opened[j] \subseteq opened'[j]
    BY <2>1 DEF OpenAccount
  <2>3. opened' \in [Companies -> SUBSET Codes]
    BY <2>1 DEF OpenAccount
  <2>4. ASSUME NEW e \in journal
        PROVE  CodesOfLines({e}) \subseteq opened'[Entry[e].of]
    <3>1. e \in Entries /\ Entry[e].of \in Companies
      BY <2>1, EntryIs DEF ReportsTyped
    <3>2. QED
      BY <2>1, <2>2, <3>1 DEF ReportsTyped
  <2>5. QED
    BY <2>1, <2>3, <2>4 DEF OpenAccount, ReportsTyped
<1>2. QED
  BY <1>1, NoCallMoves DEF OpenAccount

LEMMA SettingsInv ==
  ASSUME ReportsInv,
         \/ \E k \in Foreign, r \in Rates : SetPeriodExchangeRate(k, r)
         \/ CreateSettingElsewhere
  PROVE  ReportsInv'
<1>1. UNCHANGED <<opened, journal, found, report, pc, stale>>
  BY DEF SetPeriodExchangeRate, CreateSettingElsewhere
<1>2. rate' \in [Foreign -> Rates \cup {NoRate}]
  BY DEF ReportsInv, ReportsTyped, SetPeriodExchangeRate, CreateSettingElsewhere
<1>3. ReportsTyped'
  BY <1>1, <1>2 DEF ReportsInv, ReportsTyped
<1>4. QED
  BY <1>1, <1>3, NoCallMoves

LEMMA PostJournalEntryInv ==
  ASSUME ReportsInv, NEW e \in Entries, PostJournalEntry(e)
  PROVE  ReportsInv'
<1>1. ReportsTyped'
  BY DEF ReportsInv, ReportsTyped, PostJournalEntry
<1>2. ASSUME NEW d \in ReportCalls PROVE CallInv(d)'
  <2>1. /\ stale \subseteq stale' /\ (InFlight(d) => d \in stale')
        /\ pc' = pc /\ found' = found /\ report' = report
    BY DEF PostJournalEntry
  <2>2. QED
    BY <2>1, CallIsOutdated DEF ReportsInv
<1>3. QED
  BY <1>1, <1>2 DEF ReportsInv

LEMMA ReportsInductive == ReportsInv /\ [ReportsNext]_ReportsView => ReportsInv'
<1> SUFFICES ASSUME ReportsInv, [ReportsNext]_ReportsView PROVE ReportsInv'
  OBVIOUS
<1>1. ASSUME NEW c \in ReportCalls, ReadAccounts(c) PROVE ReportsInv'
  BY <1>1, ReadAccountsInv
<1>2. ASSUME NEW c \in ReportCalls, ReadDashboard(c) PROVE ReportsInv'
  BY <1>2, ReadDashboardInv
<1>3. ASSUME NEW c \in ReportCalls, ReadSetting(c) PROVE ReportsInv'
  BY <1>3, ReadSettingInv
<1>4. ASSUME NEW c \in ReportCalls, ReadParent(c) PROVE ReportsInv'
  BY <1>4, ReadParentInv
<1>5. ASSUME NEW c \in ReportCalls, ReportStep(c) PROVE ReportsInv'
  <2>1. CASE SumLines(c)
    BY <2>1, SumLinesInv
  <2>2. CASE SumIncome(c)
    BY <2>2, SumIncomeInv
  <2>3. CASE ReadAccountsAgain(c)
    BY <2>3, ReadAccountsAgainInv
  <2>4. CASE CreateSetting(c)
    BY <2>4, CreateSettingInv
  <2>5. CASE Aggregate(c)
    BY <2>5, AggregateInv
  <2>6. CASE Estimate(c)
    BY <2>6, EstimateInv
  <2>7. CASE ReadChild(c)
    BY <2>7, ReadChildInv
  <2>8. CASE AddChild(c)
    BY <2>8, AddChildInv
  <2>9. CASE RefuseChild(c)
    BY <2>9, FailInv
  <2>10. CASE Consolidate(c)
    BY <2>10, ConsolidateInv
  <2>11. QED
    BY <1>5, <2>1, <2>2, <2>3, <2>4, <2>5, <2>6, <2>7, <2>8, <2>9, <2>10 DEF ReportStep
<1>6. ASSUME NEW c \in ReportCalls, AbortReport(c) PROVE ReportsInv'
  BY <1>6, FailInv
<1>7. ASSUME NEW k \in Companies, NEW a \in Codes, OpenAccount(k, a) PROVE ReportsInv'
  BY <1>7, OpenAccountInv
<1>8. ASSUME NEW e \in Entries, PostJournalEntry(e) PROVE ReportsInv'
  BY <1>8, PostJournalEntryInv
<1>9. ASSUME \/ \E k \in Foreign, r \in Rates : SetPeriodExchangeRate(k, r)
             \/ CreateSettingElsewhere
      PROVE  ReportsInv'
  BY <1>9, SettingsInv
<1>10. ASSUME UNCHANGED ReportsView PROVE ReportsInv'
  <2>1. UNCHANGED <<opened, journal, rate, found, report, pc, stale>>
    BY <1>10 DEF ReportsView, reportVars
  <2>2. ReportsTyped'
    BY <2>1 DEF ReportsInv, ReportsTyped
  <2>3. QED
    BY <2>1, <2>2, NoCallMoves
<1>11. QED
  BY <1>1, <1>2, <1>3, <1>4, <1>5, <1>6, <1>7, <1>8, <1>9, <1>10 DEF ReportsNext

LEMMA ReportsInvariant == ReportsSpec => []ReportsInv
<1>1. RequestsInit /\ ReportsInit => ReportsInv
  BY ReportsInitInv
<1>2. ReportsInv /\ [ReportsNext]_<<reportVars, pc, stale>> => ReportsInv'
  BY ReportsInductive DEF ReportsView
<1>3. QED
  BY <1>1, <1>2, PTL DEF ReportsSpec

\* The accounts of the companies, the journal and the rates keep their types,
\* posted lines are on open accounts, and a call holds what it has read just
\* while it is in flight and has an answer just when it is done.
THEOREM ReportsTypeCorrect == ReportsSpec => []ReportsTypeOK
<1>1. ReportsInv => ReportsTypeOK
  BY ReportsInvImplies
<1>2. QED
  BY <1>1, ReportsInvariant, PTL

\* However posting interleaves with the reads of the reports, and however far
\* rounding left the posted entries off balance: a trial balance that knows every
\* account with lines differs between its columns by just what its entries are
\* off by, and so do the sides of the balance sheet made of it unless a balance
\* is contrary; an undisturbed zakat base is the net assets less the income from
\* before the period and less that difference; and an undisturbed dashboard shows
\* one profit of this month when both figures are of the same entries.
THEOREM StatementsStayInAgreement == ReportsSpec => []StatementsAgree
<1>1. ReportsInv => StatementsAgree
  BY ReportsInvImplies
<1>2. QED
  BY <1>1, ReportsInvariant, PTL

\* However reads, posting and rates interleave, the two sides of a consolidated
\* trial balance differ by what the entries read are off balance by at the rates
\* used for them, and by no more than another cent for each code.
THEOREM ConsolidationsBalance == ReportsSpec => []ConsolidationBalances
<1>1. ReportsInv => ConsolidationBalances
  BY ReportsInvImplies
<1>2. QED
  BY <1>1, ReportsInvariant, PTL
=============================================================================
