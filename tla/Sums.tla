-------------------------------- MODULE Sums --------------------------------
(***************************************************************************)
(* Facts about SumFunctionOnSet(f, S), the sum of f over a finite set S,   *)
(* and about finite sets, that the proofs about balances and books need.   *)
(* An induction is stated with the set of the subsets that have the        *)
(* property, as no prover takes a theorem that has an operator for a       *)
(* parameter.                                                              *)
(***************************************************************************)
EXTENDS Functions, FiniteSetTheorems, WellFoundedInduction, TLAPS

\* A non-empty set of subsets of a finite set has a smallest one.
LEMMA SmallestSubset ==
    ASSUME NEW S, IsFiniteSet(S), NEW Q, Q \subseteq SUBSET S, Q # {}
    PROVE  \E T \in Q : \A U \in Q : U \subseteq T => U = T
<1>1. IsWellFoundedOn(StrictSubsetOrdering(S), SUBSET S)
  BY FS_StrictSubsetOrderingWellFounded, FS_FiniteSubsetsOfFinite
<1>2. PICK T \in Q : \A U \in Q : ~(<<U, T>> \in StrictSubsetOrdering(S))
  BY <1>1, WFMin
<1>3. \A U \in Q : U \subseteq T => U = T
  BY <1>2 DEF StrictSubsetOrdering
<1> QED
  BY <1>3

\* Induction: P is the set of the subsets that have the property.
LEMMA SubsetInduction ==
    ASSUME NEW S, IsFiniteSet(S), NEW P,
           \A T \in SUBSET S : (\A x \in T : T \ {x} \in P) => T \in P
    PROVE  S \in P
<1> SUFFICES ASSUME S \notin P PROVE FALSE
  OBVIOUS
<1> DEFINE Q == {T \in SUBSET S : T \notin P}
<1>1. S \in Q
  OBVIOUS
<1>2. PICK T \in Q : \A U \in Q : U \subseteq T => U = T
  <2> HIDE DEF Q
  <2>1. Q \subseteq SUBSET S
    BY DEF Q
  <2> QED
    BY <1>1, <2>1, SmallestSubset
<1>3. PICK x \in T : T \ {x} \notin P
  BY <1>2
<1>4. T \ {x} \in Q /\ T \ {x} \subseteq T /\ T \ {x} # T
  BY <1>3
<1> QED
  BY <1>2, <1>4

-----------------------------------------------------------------------------
(* The fold is the recursive function its definition chooses. *)

Any(T) == CHOOSE x \in T : TRUE
Rest(T) == T \ {Any(T)}
IsSumOf(g, f, S) ==
    g = [T \in SUBSET S |-> IF T = {} THEN 0 ELSE f[Any(T)] + g[Rest(T)]]

LEMMA SumIsChosen ==
    ASSUME NEW f, NEW S
    PROVE  SumFunctionOnSet(f, S) = (CHOOSE g : IsSumOf(g, f, S))[S]
BY Zenon DEF SumFunctionOnSet, FoldFunctionOnSet, MapThenFoldSet, IsSumOf, Any, Rest

LEMMA RestIsSmaller == ASSUME NEW T, T # {} PROVE Any(T) \in T /\ Rest(T) \subseteq T /\ Any(T) \notin Rest(T)
BY DEF Any, Rest

\* Two such functions agree wherever both are defined.
LEMMA SumsAgree ==
    ASSUME NEW f, NEW S, NEW R, IsFiniteSet(S), S \subseteq R,
           NEW g, NEW h, IsSumOf(g, f, S), IsSumOf(h, f, R)
    PROVE  g[S] = h[S]
<1> DEFINE P == {T \in SUBSET S : g[T] = h[T]}
<1>1. ASSUME NEW T \in SUBSET S, \A x \in T : T \ {x} \in P
      PROVE  T \in P
  <2>1. g[T] = IF T = {} THEN 0 ELSE f[Any(T)] + g[Rest(T)]
    BY DEF IsSumOf
  <2>2. h[T] = IF T = {} THEN 0 ELSE f[Any(T)] + h[Rest(T)]
    <3>1. T \in SUBSET R
      OBVIOUS
    <3> QED
      BY <3>1 DEF IsSumOf
  <2>3. T # {} => g[Rest(T)] = h[Rest(T)]
    BY <1>1, RestIsSmaller DEF Rest
  <2> QED
    BY <2>1, <2>2, <2>3
<1> HIDE DEF P
<1>2. S \in P
  BY <1>1, SubsetInduction
<1> QED
  BY <1>2 DEF P

LEMMA SumExists ==
    ASSUME NEW f, NEW S, IsFiniteSet(S)
    PROVE  \E g : IsSumOf(g, f, S)
<1> DEFINE P == {T \in SUBSET S : \E g : IsSumOf(g, f, T)}
           G(T) == CHOOSE g : IsSumOf(g, f, T)
<1>1. ASSUME NEW T \in SUBSET S, \A x \in T : T \ {x} \in P
      PROVE  T \in P
  <2> DEFINE g == [U \in SUBSET T |-> IF U = {} THEN 0 ELSE f[Any(U)] + G(Rest(U))[Rest(U)]]
  <2>1. ASSUME NEW U \in SUBSET T, U # T PROVE IsSumOf(G(U), f, U)
    <3>1. PICK x \in T : U \subseteq T \ {x}
      BY <2>1
    <3>2. PICK h : IsSumOf(h, f, T \ {x})
      BY <1>1
    <3>3. IsSumOf([V \in SUBSET U |-> h[V]], f, U)
      <4> DEFINE k == [V \in SUBSET U |-> h[V]]
      <4>1. ASSUME NEW V \in SUBSET U
            PROVE  k[V] = IF V = {} THEN 0 ELSE f[Any(V)] + k[Rest(V)]
        <5>1. V \in SUBSET (T \ {x})
          BY <3>1
        <5>2. k[V] = h[V] /\ h[V] = IF V = {} THEN 0 ELSE f[Any(V)] + h[Rest(V)]
          BY <3>2, <5>1 DEF IsSumOf
        <5>3. V # {} => k[Rest(V)] = h[Rest(V)]
          BY RestIsSmaller
        <5> QED
          BY <5>2, <5>3
      <4>2. k = [V \in SUBSET U |-> k[V]]
        OBVIOUS
      <4>3. IsSumOf(k, f, U)
        <5> HIDE DEF k
        <5> QED
          BY <4>1, <4>2 DEF IsSumOf
      <4> QED
        BY <4>3
    <3> QED
      BY <3>3
  <2>2. ASSUME NEW U \in SUBSET T, U # T PROVE g[U] = G(U)[U]
    <3>1. IsSumOf(G(U), f, U)
      BY <2>1, <2>2
    <3>2. G(U)[U] = IF U = {} THEN 0 ELSE f[Any(U)] + G(U)[Rest(U)]
      <4> HIDE DEF G
      <4> QED
        BY <3>1 DEF IsSumOf
    <3>3. U # {} => G(U)[Rest(U)] = G(Rest(U))[Rest(U)]
      <4>1. ASSUME U # {} PROVE G(U)[Rest(U)] = G(Rest(U))[Rest(U)]
        <5>1. Rest(U) \subseteq U /\ Rest(U) # T /\ Rest(U) \in SUBSET T
          BY <4>1, RestIsSmaller
        <5>2. IsSumOf(G(Rest(U)), f, Rest(U))
          BY <2>1, <5>1
        <5>3. IsFiniteSet(Rest(U))
          BY <5>1, FS_Subset
        <5> HIDE DEF G
        <5> QED
          BY <3>1, <5>1, <5>2, <5>3, SumsAgree
      <4> QED
        BY <4>1
    <3> HIDE DEF G
    <3> QED
      BY <3>2, <3>3
  <2>3. \A U \in SUBSET T : U # {} => g[Rest(U)] = G(Rest(U))[Rest(U)]
    <3>1. ASSUME NEW U \in SUBSET T, U # {} PROVE Rest(U) \in SUBSET T /\ Rest(U) # T
      BY <3>1, RestIsSmaller
    <3> HIDE DEF G, g
    <3> QED
      BY <2>2, <3>1
  <2>4. IsSumOf(g, f, T)
    <3>1. \A U \in SUBSET T : g[U] = IF U = {} THEN 0 ELSE f[Any(U)] + g[Rest(U)]
      <4> HIDE DEF G
      <4> QED
        BY <2>3
    <3>2. g = [U \in SUBSET T |-> g[U]]
      OBVIOUS
    <3> HIDE DEF g
    <3> QED
      BY <3>1, <3>2 DEF IsSumOf
  <2> QED
    BY <2>4
<1> HIDE DEF P
<1>2. S \in P
  BY <1>1, SubsetInduction
<1> QED
  BY <1>2 DEF P

-----------------------------------------------------------------------------
(* The sum as one computes it. *)

LEMMA SumEmpty == ASSUME NEW f PROVE SumFunctionOnSet(f, {}) = 0
<1>1. PICK g : g = (CHOOSE h : IsSumOf(h, f, {}))
  OBVIOUS
<1>2. IsSumOf(g, f, {})
  BY <1>1, SumExists, FS_EmptySet
<1> QED
  BY <1>1, <1>2, SumIsChosen DEF IsSumOf

LEMMA SumOfAny ==
    ASSUME NEW f, NEW S, IsFiniteSet(S), S # {}
    PROVE  SumFunctionOnSet(f, S) = f[Any(S)] + SumFunctionOnSet(f, Rest(S))
<1>1. PICK g : g = (CHOOSE h : IsSumOf(h, f, S))
  OBVIOUS
<1>2. PICK k : k = (CHOOSE h : IsSumOf(h, f, Rest(S)))
  OBVIOUS
<1>3. IsFiniteSet(Rest(S)) /\ Rest(S) \subseteq S
  BY RestIsSmaller, FS_Subset
<1>4. IsSumOf(g, f, S) /\ IsSumOf(k, f, Rest(S))
  BY <1>1, <1>2, <1>3, SumExists
<1>5. g[S] = f[Any(S)] + g[Rest(S)]
  BY <1>4 DEF IsSumOf
<1>6. k[Rest(S)] = g[Rest(S)]
  BY <1>3, <1>4, SumsAgree
<1> QED
  BY <1>1, <1>2, <1>5, <1>6, SumIsChosen

\* A sum of integers is an integer.
LEMMA SumInt ==
    ASSUME NEW f, NEW S, IsFiniteSet(S), \A x \in S : f[x] \in Int
    PROVE  SumFunctionOnSet(f, S) \in Int
<1> DEFINE P == {T \in SUBSET S : SumFunctionOnSet(f, T) \in Int}
<1>1. ASSUME NEW T \in SUBSET S, \A x \in T : T \ {x} \in P
      PROVE  T \in P
  <2>1. CASE T = {}
    BY <2>1, SumEmpty
  <2>2. CASE T # {}
    <3>1. Any(T) \in T /\ IsFiniteSet(T)
      BY <2>2, RestIsSmaller, FS_Subset
    <3>2. SumFunctionOnSet(f, Rest(T)) \in Int /\ f[Any(T)] \in Int
      BY <1>1, <3>1 DEF Rest
    <3> QED
      BY <2>2, <3>1, <3>2, SumOfAny
  <2> QED
    BY <2>1, <2>2
<1> HIDE DEF P
<1>2. S \in P
  BY <1>1, SubsetInduction
<1> QED
  BY <1>2 DEF P

\* Any element may be taken out of a sum.
LEMMA SumRemove ==
    ASSUME NEW f, NEW S, IsFiniteSet(S), \A x \in S : f[x] \in Int, NEW x \in S
    PROVE  SumFunctionOnSet(f, S) = f[x] + SumFunctionOnSet(f, S \ {x})
<1> DEFINE Good(T) == \A y \in T : SumFunctionOnSet(f, T) = f[y] + SumFunctionOnSet(f, T \ {y})
           P == {T \in SUBSET S : Good(T)}
<1>1. ASSUME NEW T \in SUBSET S, \A y \in T : T \ {y} \in P
      PROVE  T \in P
  <2> SUFFICES ASSUME NEW y \in T
               PROVE  SumFunctionOnSet(f, T) = f[y] + SumFunctionOnSet(f, T \ {y})
    OBVIOUS
  <2> DEFINE a == Any(T)
  <2>1. a \in T /\ f[a] \in Int /\ f[y] \in Int /\ IsFiniteSet(T)
    BY RestIsSmaller, FS_Subset
  <2>2. SumFunctionOnSet(f, T) = f[a] + SumFunctionOnSet(f, T \ {a})
    BY <2>1, SumOfAny DEF Rest
  <2>3. ASSUME y # a
        PROVE  SumFunctionOnSet(f, T) = f[y] + SumFunctionOnSet(f, T \ {y})
    <3> DEFINE U == T \ {a, y}
    <3>1. U = (T \ {y}) \ {a} /\ U = (T \ {a}) \ {y}
      OBVIOUS
    <3>2. SumFunctionOnSet(f, T \ {a}) = f[y] + SumFunctionOnSet(f, U)
      BY <1>1, <2>1, <2>3, <3>1
    <3>3. SumFunctionOnSet(f, T \ {y}) = f[a] + SumFunctionOnSet(f, U)
      BY <1>1, <2>1, <2>3, <3>1
    <3>4. SumFunctionOnSet(f, U) \in Int
      BY <2>1, SumInt, FS_Subset
    <3> HIDE DEF U, a
    <3> QED
      BY <2>1, <2>2, <3>2, <3>3, <3>4
  <2> QED
    BY <2>2, <2>3
<1> HIDE DEF P
<1>2. S \in P
  BY <1>1, SubsetInduction
<1> QED
  BY <1>2 DEF P

LEMMA SumAdd ==
    ASSUME NEW f, NEW S, IsFiniteSet(S), NEW x, x \notin S, f[x] \in Int,
           \A y \in S : f[y] \in Int
    PROVE  SumFunctionOnSet(f, S \cup {x}) = SumFunctionOnSet(f, S) + f[x]
<1>1. IsFiniteSet(S \cup {x}) /\ (S \cup {x}) \ {x} = S
  BY FS_AddElement
<1>2. SumFunctionOnSet(f, S \cup {x}) = f[x] + SumFunctionOnSet(f, (S \cup {x}) \ {x})
  BY <1>1, SumRemove
<1>3. SumFunctionOnSet(f, S) \in Int
  BY SumInt
<1>4. SumFunctionOnSet(f, S \cup {x}) = f[x] + SumFunctionOnSet(f, S)
  BY <1>1, <1>2
<1> QED
  BY <1>3, <1>4

\* What a sum depends on.
LEMMA SumSame ==
    ASSUME NEW f, NEW g, NEW S, IsFiniteSet(S), \A x \in S : f[x] = g[x]
    PROVE  SumFunctionOnSet(f, S) = SumFunctionOnSet(g, S)
<1> DEFINE P == {T \in SUBSET S : SumFunctionOnSet(f, T) = SumFunctionOnSet(g, T)}
<1>1. ASSUME NEW T \in SUBSET S, \A x \in T : T \ {x} \in P
      PROVE  T \in P
  <2>1. CASE T = {}
    BY <2>1, SumEmpty
  <2>2. CASE T # {}
    <3>1. Any(T) \in T /\ IsFiniteSet(T)
      BY <2>2, RestIsSmaller, FS_Subset
    <3>2. SumFunctionOnSet(f, Rest(T)) = SumFunctionOnSet(g, Rest(T)) /\ f[Any(T)] = g[Any(T)]
      BY <1>1, <3>1 DEF Rest
    <3> QED
      BY <2>2, <3>1, <3>2, SumOfAny
  <2> QED
    BY <2>1, <2>2
<1> HIDE DEF P
<1>2. S \in P
  BY <1>1, SubsetInduction
<1> QED
  BY <1>2 DEF P

LEMMA SumZero ==
    ASSUME NEW f, NEW S, IsFiniteSet(S), \A x \in S : f[x] = 0
    PROVE  SumFunctionOnSet(f, S) = 0
<1> DEFINE P == {T \in SUBSET S : SumFunctionOnSet(f, T) = 0}
<1>1. ASSUME NEW T \in SUBSET S, \A x \in T : T \ {x} \in P
      PROVE  T \in P
  <2>1. CASE T = {}
    BY <2>1, SumEmpty
  <2>2. CASE T # {}
    <3>1. Any(T) \in T /\ IsFiniteSet(T)
      BY <2>2, RestIsSmaller, FS_Subset
    <3>2. SumFunctionOnSet(f, Rest(T)) = 0 /\ f[Any(T)] = 0
      BY <1>1, <3>1 DEF Rest
    <3> QED
      BY <2>2, <3>1, <3>2, SumOfAny
  <2> QED
    BY <2>1, <2>2
<1> HIDE DEF P
<1>2. S \in P
  BY <1>1, SubsetInduction
<1> QED
  BY <1>2 DEF P

\* One value changes.
LEMMA SumChange ==
    ASSUME NEW f, NEW g, NEW S, IsFiniteSet(S), NEW x \in S,
           \A y \in S : f[y] \in Int /\ g[y] \in Int,
           \A y \in S : y # x => g[y] = f[y]
    PROVE  SumFunctionOnSet(g, S) = SumFunctionOnSet(f, S) - f[x] + g[x]
<1> DEFINE R == S \ {x}
<1>1. IsFiniteSet(R)
  BY FS_Subset
<1>2. SumFunctionOnSet(f, R) = SumFunctionOnSet(g, R) /\ SumFunctionOnSet(f, R) \in Int
  BY <1>1, SumSame, SumInt
<1>3. SumFunctionOnSet(f, S) = f[x] + SumFunctionOnSet(f, R)
  BY SumRemove
<1>4. SumFunctionOnSet(g, S) = g[x] + SumFunctionOnSet(g, R)
  BY SumRemove
<1> HIDE DEF R
<1> QED
  BY <1>2, <1>3, <1>4

\* Values that exceed others by at most h sum to at most h more for each.
LEMMA SumExceeds ==
    ASSUME NEW f, NEW g, NEW S, IsFiniteSet(S), NEW h \in Int,
           \A x \in S : f[x] \in Int /\ g[x] \in Int /\ f[x] <= g[x] + h
    PROVE  SumFunctionOnSet(f, S) <= SumFunctionOnSet(g, S) + h * Cardinality(S)
<1> DEFINE P == {T \in SUBSET S :
                   SumFunctionOnSet(f, T) <= SumFunctionOnSet(g, T) + h * Cardinality(T)}
<1>1. ASSUME NEW T \in SUBSET S, \A x \in T : T \ {x} \in P
      PROVE  T \in P
  <2>1. CASE T = {}
    BY <2>1, SumEmpty, FS_EmptySet
  <2>2. CASE T # {}
    <3>1. PICK a \in T : TRUE
      BY <2>2
    <3> DEFINE U == T \ {a}
    <3>2. /\ IsFiniteSet(T) /\ IsFiniteSet(U) /\ Cardinality(U) \in Nat
          /\ Cardinality(T) = Cardinality(U) + 1
      <4>1. IsFiniteSet(T)
        BY FS_Subset
      <4>2. IsFiniteSet(U) /\ Cardinality(U) = Cardinality(T) - 1
        BY <4>1, FS_RemoveElement
      <4>3. Cardinality(T) \in Nat /\ Cardinality(U) \in Nat
        BY <4>1, <4>2, FS_CardinalityType
      <4> QED
        BY <4>1, <4>2, <4>3
    <3>3. SumFunctionOnSet(f, U) <= SumFunctionOnSet(g, U) + h * Cardinality(U)
      BY <1>1
    <3>4. /\ SumFunctionOnSet(f, T) = f[a] + SumFunctionOnSet(f, U)
          /\ SumFunctionOnSet(g, T) = g[a] + SumFunctionOnSet(g, U)
      BY <3>2, SumRemove
    <3>5. SumFunctionOnSet(f, U) \in Int /\ SumFunctionOnSet(g, U) \in Int
      BY <3>2, SumInt
    <3>6. f[a] \in Int /\ g[a] \in Int /\ f[a] <= g[a] + h
      OBVIOUS
    <3>7. h * Cardinality(U) \in Int /\ h * (Cardinality(U) + 1) = h * Cardinality(U) + h
      <4>1. PICK c : c = Cardinality(U)
        OBVIOUS
      <4>2. c \in Nat /\ h \in Int
        BY <3>2, <4>1
      <4>3. h * c \in Int /\ h * (c + 1) = h * c + h
        BY ONLY <4>2
      <4> QED
        BY <4>1, <4>3
    <3> HIDE DEF U
    <3>8. SumFunctionOnSet(f, T) <= SumFunctionOnSet(g, T) + h * Cardinality(T)
      <4>1. PICK c : c = h * Cardinality(U)
        OBVIOUS
      <4>2. h * Cardinality(T) = c + h /\ c \in Int
        BY <3>2, <3>7, <4>1
      <4> QED
        BY <3>3, <3>4, <3>5, <3>6, <4>1, <4>2
    <3> QED
      BY <3>8
  <2> QED
    BY <2>1, <2>2
<1> HIDE DEF P
<1>2. S \in P
  BY <1>1, SubsetInduction
<1> QED
  BY <1>2 DEF P

\* A sum of natural numbers is one, and at least each of them.
LEMMA SumNat ==
    ASSUME NEW f, NEW S, IsFiniteSet(S), \A x \in S : f[x] \in Nat
    PROVE  /\ SumFunctionOnSet(f, S) \in Nat
           /\ \A x \in S : f[x] <= SumFunctionOnSet(f, S)
<1> DEFINE P == {T \in SUBSET S : SumFunctionOnSet(f, T) \in Nat}
<1>1. ASSUME NEW T \in SUBSET S, \A x \in T : T \ {x} \in P
      PROVE  T \in P
  <2>1. CASE T = {}
    BY <2>1, SumEmpty
  <2>2. CASE T # {}
    <3>1. Any(T) \in T /\ IsFiniteSet(T)
      BY <2>2, RestIsSmaller, FS_Subset
    <3>2. SumFunctionOnSet(f, Rest(T)) \in Nat /\ f[Any(T)] \in Nat
      BY <1>1, <3>1 DEF Rest
    <3> QED
      BY <2>2, <3>1, <3>2, SumOfAny
  <2> QED
    BY <2>1, <2>2
<1>2. \A T \in SUBSET S : SumFunctionOnSet(f, T) \in Nat
  <2> SUFFICES ASSUME NEW T \in SUBSET S PROVE SumFunctionOnSet(f, T) \in Nat
    OBVIOUS
  <2>1. IsFiniteSet(T)
    BY FS_Subset
  <2> HIDE DEF P
  <2>2. T \in P
    BY <1>1, <2>1, SubsetInduction
  <2> QED
    BY <2>2 DEF P
<1>3. ASSUME NEW x \in S PROVE f[x] <= SumFunctionOnSet(f, S)
  <2>1. SumFunctionOnSet(f, S \ {x}) \in Nat /\ SumFunctionOnSet(f, S) = f[x] + SumFunctionOnSet(f, S \ {x})
    BY <1>2, SumRemove
  <2> QED
    BY <2>1
<1> QED
  BY <1>2, <1>3

\* Leaving terms out makes a sum of natural numbers no larger.
LEMMA SumSubset ==
    ASSUME NEW f, NEW S, IsFiniteSet(S), \A x \in S : f[x] \in Nat, NEW R \in SUBSET S
    PROVE  SumFunctionOnSet(f, R) <= SumFunctionOnSet(f, S)
<1> DEFINE P == {T \in SUBSET S : SumFunctionOnSet(f, R \cap T) <= SumFunctionOnSet(f, T)}
<1>1. ASSUME NEW T \in SUBSET S, \A x \in T : T \ {x} \in P
      PROVE  T \in P
  <2>1. CASE T = {}
    BY <2>1, SumEmpty
  <2>2. CASE T # {}
    <3>1. PICK a \in T : TRUE
      BY <2>2
    <3> DEFINE U == T \ {a}
    <3>2. IsFiniteSet(T) /\ IsFiniteSet(U) /\ IsFiniteSet(R \cap T) /\ IsFiniteSet(R \cap U)
      BY FS_Subset
    <3>3. SumFunctionOnSet(f, R \cap U) <= SumFunctionOnSet(f, U)
      BY <1>1
    <3>4. SumFunctionOnSet(f, T) = f[a] + SumFunctionOnSet(f, U)
      BY <3>2, SumRemove
    <3>5. f[a] \in Nat /\ SumFunctionOnSet(f, U) \in Nat /\ SumFunctionOnSet(f, R \cap U) \in Nat
      BY <3>2, SumNat
    <3>6. \/ R \cap T = R \cap U
          \/ SumFunctionOnSet(f, R \cap T) = f[a] + SumFunctionOnSet(f, R \cap U)
      <4>1. CASE a \in R
        <5>1. a \in R \cap T /\ (R \cap T) \ {a} = R \cap U
          BY <4>1
        <5> QED
          BY <3>2, <5>1, SumRemove
      <4>2. CASE a \notin R
        BY <4>2
      <4> QED
        BY <4>1, <4>2
    <3> HIDE DEF U
    <3> QED
      BY <3>3, <3>4, <3>5, <3>6
  <2> QED
    BY <2>1, <2>2
<1> HIDE DEF P
<1>2. S \in P
  BY <1>1, SubsetInduction
<1>3. R \cap S = R
  OBVIOUS
<1> QED
  BY <1>2, <1>3 DEF P

\* A sum over two parts.
LEMMA SumSplit ==
    ASSUME NEW f, NEW S, IsFiniteSet(S), \A x \in S : f[x] \in Int, NEW R \in SUBSET S
    PROVE  /\ SumFunctionOnSet(f, S) = SumFunctionOnSet(f, R) + SumFunctionOnSet(f, S \ R)
           /\ SumFunctionOnSet(f, R) \in Int /\ SumFunctionOnSet(f, S \ R) \in Int
<1> DEFINE Good(T) == SumFunctionOnSet(f, T)
                        = SumFunctionOnSet(f, R \cap T) + SumFunctionOnSet(f, T \ R)
           P == {T \in SUBSET S : Good(T)}
<1>1. \A T \in SUBSET S : IsFiniteSet(T) /\ SumFunctionOnSet(f, T) \in Int
  <2> SUFFICES ASSUME NEW T \in SUBSET S
               PROVE  IsFiniteSet(T) /\ SumFunctionOnSet(f, T) \in Int
    OBVIOUS
  <2>1. IsFiniteSet(T)
    BY FS_Subset
  <2> QED
    BY <2>1, SumInt
<1>2. ASSUME NEW T \in SUBSET S, \A x \in T : T \ {x} \in P
      PROVE  T \in P
  <2>1. CASE T = {}
    BY <2>1, SumEmpty
  <2>2. CASE T # {}
    <3>1. PICK a \in T : TRUE
      BY <2>2
    <3> DEFINE U == T \ {a}
    <3>2. Good(U) /\ SumFunctionOnSet(f, T) = f[a] + SumFunctionOnSet(f, U)
      BY <1>1, <1>2, SumRemove
    <3>3. f[a] \in Int /\ SumFunctionOnSet(f, R \cap U) \in Int /\ SumFunctionOnSet(f, U \ R) \in Int
      BY <1>1
    <3>4. SumFunctionOnSet(f, T)
            = f[a] + SumFunctionOnSet(f, R \cap U) + SumFunctionOnSet(f, U \ R)
      BY <3>2, <3>3
    <3>5. CASE a \in R
      <4>1. a \in R \cap T /\ (R \cap T) \ {a} = R \cap U /\ T \ R = U \ R /\ R \cap T \in SUBSET S
        BY <3>5
      <4>2. SumFunctionOnSet(f, R \cap T) = f[a] + SumFunctionOnSet(f, R \cap U)
        BY <1>1, <4>1, SumRemove
      <4>3. SumFunctionOnSet(f, T \ R) = SumFunctionOnSet(f, U \ R)
        BY <4>1
      <4>4. Good(T)
        BY <3>4, <4>2, <4>3
      <4> QED
        BY <4>4
    <3>6. CASE a \notin R
      <4>1. a \in T \ R /\ (T \ R) \ {a} = U \ R /\ R \cap T = R \cap U /\ T \ R \in SUBSET S
        BY <3>6
      <4>2. SumFunctionOnSet(f, T \ R) = f[a] + SumFunctionOnSet(f, U \ R)
        BY <1>1, <4>1, SumRemove
      <4>3. SumFunctionOnSet(f, R \cap T) = SumFunctionOnSet(f, R \cap U)
        BY <4>1
      <4>4. Good(T)
        <5>1. PICK p \in Int, q \in Int : p = SumFunctionOnSet(f, R \cap U) /\ q = SumFunctionOnSet(f, U \ R)
          BY <3>3
        <5>2. f[a] + p + q = p + (f[a] + q)
          BY <3>3, <5>1
        <5> QED
          BY <3>4, <4>2, <4>3, <5>1, <5>2
      <4> QED
        BY <4>4
    <3> QED
      BY <3>5, <3>6
  <2> QED
    BY <2>1, <2>2
<1> HIDE DEF P
<1>3. S \in P
  BY <1>2, SubsetInduction
<1>4. R \cap S = R
  OBVIOUS
<1> QED
  BY <1>1, <1>3, <1>4 DEF P

\* A sum of equal values.
LEMMA SumConstant ==
    ASSUME NEW f, NEW S, IsFiniteSet(S), NEW c \in Int, \A x \in S : f[x] = c
    PROVE  SumFunctionOnSet(f, S) = c * Cardinality(S)
<1> DEFINE zero == [x \in S |-> 0]
           minus == -c
<1>1. SumFunctionOnSet(zero, S) = 0
  BY SumZero
<1>2. SumFunctionOnSet(f, S) <= SumFunctionOnSet(zero, S) + c * Cardinality(S)
  BY SumExceeds
<1>3. SumFunctionOnSet(zero, S) <= SumFunctionOnSet(f, S) + minus * Cardinality(S)
  <2>1. minus \in Int /\ \A x \in S : f[x] \in Int /\ zero[x] \in Int /\ zero[x] <= f[x] + minus
    OBVIOUS
  <2> HIDE DEF minus, zero
  <2> QED
    BY <2>1, SumExceeds
<1>4. SumFunctionOnSet(f, S) \in Int
  BY SumInt
<1>5. PICK n : n = Cardinality(S)
  OBVIOUS
<1>6. n \in Nat
  BY <1>5, FS_CardinalityType
<1>7. c * n \in Int /\ minus * n = -(c * n)
  BY ONLY <1>6, c \in Int
<1> HIDE DEF zero, minus
<1> QED
  BY <1>1, <1>2, <1>3, <1>4, <1>5, <1>7

\* A sum of values that are equal on a subset and zero elsewhere.
LEMMA SumOnSubset ==
    ASSUME NEW f, NEW S, IsFiniteSet(S), NEW R \in SUBSET S, NEW c \in Int,
           \A x \in R : f[x] = c, \A x \in S \ R : f[x] = 0
    PROVE  SumFunctionOnSet(f, S) = c * Cardinality(R)
<1>1. IsFiniteSet(R) /\ IsFiniteSet(S \ R)
  BY FS_Subset
<1>2. \A x \in S : f[x] \in Int
  OBVIOUS
<1>3. /\ SumFunctionOnSet(f, S) = SumFunctionOnSet(f, R) + SumFunctionOnSet(f, S \ R)
      /\ SumFunctionOnSet(f, R) \in Int /\ SumFunctionOnSet(f, S \ R) \in Int
  BY <1>2, SumSplit, Zenon
<1>4. SumFunctionOnSet(f, R) = c * Cardinality(R)
  BY <1>1, SumConstant
<1>5. SumFunctionOnSet(f, S \ R) = 0
  BY <1>1, SumZero
<1>6. \A n \in Int : n + 0 = n
  OBVIOUS
<1> QED
  BY <1>3, <1>4, <1>5, <1>6
=============================================================================
