----------------------------- MODULE SetLemmas ------------------------------
(***************************************************************************)
(* Finite sets: induction over their subsets, the largest element of a set *)
(* of numbers, and what SumFunctionOnSet and SumFunction compute.  The     *)
(* solvency of the Ethereum contract and what the providers are paid in    *)
(* either shop are stated with them.                                       *)
(*                                                                         *)
(* An induction takes its hypothesis as a set of subsets, so that it can   *)
(* be cited without an operator.                                           *)
(***************************************************************************)
EXTENDS Integers, FiniteSets, FiniteSetsExt, Functions, FiniteSetTheorems, WellFoundedInduction, TLAPS

-----------------------------------------------------------------------------
(* Induction over finite sets                                              *)

(* From all proper subsets to the set.                                     *)
LEMMA StrongSetInduction ==
    ASSUME NEW S, IsFiniteSet(S), NEW P,
           \A T \in SUBSET S : (\A U \in SUBSET T : U # T => U \in P) => T \in P
    PROVE  S \in P
<1> DEFINE Bad == {T \in SUBSET S : T \notin P}
<1>1. SUFFICES ASSUME Bad # {} PROVE FALSE
  <2>1. S \notin Bad
    BY <1>1
  <2> QED
    BY <2>1
<1>2. PICK T \in Bad : \A U \in Bad : ~ (<<U, T>> \in StrictSubsetOrdering(S))
  <2>1. IsWellFoundedOn(StrictSubsetOrdering(S), SUBSET S)
    BY FS_StrictSubsetOrderingWellFounded, FS_FiniteSubsetsOfFinite
  <2>2. Bad \subseteq SUBSET S
    OBVIOUS
  <2> HIDE DEF Bad
  <2> QED
    BY <1>1, <2>1, <2>2, WFMin
<1>3. ASSUME NEW U \in SUBSET T, U # T PROVE U \in P
  <2>1. <<U, T>> \in StrictSubsetOrdering(S)
    BY <1>2, <1>3 DEF StrictSubsetOrdering
  <2> QED
    BY <1>2, <2>1
<1> QED
  BY <1>2, <1>3

(* From a set to the set with one more element.                            *)
LEMMA SetInduction ==
    ASSUME NEW S, IsFiniteSet(S), NEW P, {} \in P,
           \A T \in SUBSET S, x \in S : T \in P /\ x \notin T => T \cup {x} \in P
    PROVE  S \in P
<1>1. ASSUME NEW T \in SUBSET S, \A U \in SUBSET T : U # T => U \in P
      PROVE  T \in P
  <2>1. CASE T = {}
    BY <2>1
  <2>2. CASE T # {}
    <3>1. PICK x \in T : TRUE
      BY <2>2
    <3>2. T \ {x} \in P /\ x \notin T \ {x} /\ T = (T \ {x}) \cup {x}
      BY <1>1, <3>1
    <3> QED
      BY <3>1, <3>2
  <2> QED
    BY <2>1, <2>2
<1> QED
  BY <1>1, StrongSetInduction

LEMMA MaxFacts ==
    ASSUME NEW S, IsFiniteSet(S), S # {}, S \subseteq Int
    PROVE  Max(S) \in S /\ \A y \in S : Max(S) >= y
<1> DEFINE HasMax(T) == \E x \in T : \A y \in T : x >= y
           P == {T \in SUBSET S : T # {} => HasMax(T)}
<1>1. {} \in P
  OBVIOUS
<1>2. ASSUME NEW T \in SUBSET S, NEW x \in S, T \in P, x \notin T
      PROVE  T \cup {x} \in P
  <2>1. CASE T = {}
    <3>1. T \cup {x} = {x} /\ x >= x
      BY <2>1
    <3> QED
      BY <3>1
  <2>2. CASE T # {}
    <3>1. PICK z \in T : \A y \in T : z >= y
      BY <1>2, <2>2
    <3>2. x \in Int /\ z \in Int /\ \A y \in T : y \in Int
      OBVIOUS
    <3>3. CASE x >= z
      BY <3>1, <3>2, <3>3
    <3>4. CASE z >= x
      BY <3>1, <3>2, <3>4
    <3> QED
      BY <3>2, <3>3, <3>4
  <2> QED
    BY <2>1, <2>2
<1>3. S \in P
  <2> HIDE DEF P
  <2> QED
    BY <1>1, <1>2, SetInduction
<1>4. HasMax(S)
  BY <1>3
<1> QED
  BY <1>4 DEF Max

-----------------------------------------------------------------------------
(* The recursion the sum is defined by                                     *)

First(s) == CHOOSE x \in s : TRUE

IsSum(g, D, f) ==
    f = [s \in SUBSET D |-> IF s = {} THEN 0 ELSE g[First(s)] + f[s \ {First(s)}]]

LEMMA FirstIn == \A s : s # {} => First(s) \in s
BY DEF First

LEMMA SumUnique ==
    ASSUME NEW g, NEW D, NEW E, NEW f, NEW h, IsSum(g, D, f), IsSum(g, E, h),
           NEW S, IsFiniteSet(S), S \subseteq D, S \subseteq E
    PROVE  f[S] = h[S]
<1> DEFINE P == {T \in SUBSET S : f[T] = h[T]}
<1>1. ASSUME NEW T \in SUBSET S, \A U \in SUBSET T : U # T => U \in P
      PROVE  T \in P
  <2>1. /\ f[T] = IF T = {} THEN 0 ELSE g[First(T)] + f[T \ {First(T)}]
        /\ h[T] = IF T = {} THEN 0 ELSE g[First(T)] + h[T \ {First(T)}]
    <3>1. T \in SUBSET D /\ T \in SUBSET E
      OBVIOUS
    <3>2. f[T] = IF T = {} THEN 0 ELSE g[First(T)] + f[T \ {First(T)}]
      BY <3>1 DEF IsSum
    <3>3. h[T] = IF T = {} THEN 0 ELSE g[First(T)] + h[T \ {First(T)}]
      BY <3>1 DEF IsSum
    <3> QED
      BY <3>2, <3>3
  <2>2. CASE T = {}
    BY <2>1, <2>2
  <2>3. CASE T # {}
    <3>1. T \ {First(T)} \in SUBSET T /\ T \ {First(T)} # T
      BY <2>3, FirstIn
    <3>2. f[T \ {First(T)}] = h[T \ {First(T)}]
      BY <1>1, <3>1
    <3> QED
      BY <2>1, <2>3, <3>2
  <2> QED
    BY <2>2, <2>3
<1>2. S \in P
  <2> HIDE DEF P
  <2> QED
    BY <1>1, StrongSetInduction
<1> QED
  BY <1>2

LEMMA SumExists ==
    ASSUME NEW g, NEW D, IsFiniteSet(D)
    PROVE  \E f : IsSum(g, D, f)
<1> DEFINE P == {T \in SUBSET D : \E f : IsSum(g, T, f)}
<1>1. ASSUME NEW T \in SUBSET D, \A U \in SUBSET T : U # T => U \in P
      PROVE  T \in P
  <2> DEFINE H(U) == CHOOSE f : IsSum(g, U, f)
             Value(s) == IF s = {} THEN 0
                         ELSE g[First(s)] + H(s \ {First(s)})[s \ {First(s)}]
             F == [s \in SUBSET T |-> Value(s)]
  <2>1. ASSUME NEW U \in SUBSET T, U # T PROVE IsSum(g, U, H(U))
    BY <1>1, <2>1
  <2>2. ASSUME NEW s \in SUBSET T
        PROVE  F[s] = IF s = {} THEN 0 ELSE g[First(s)] + F[s \ {First(s)}]
    <3>1. CASE s = {}
      BY <3>1
    <3>2. CASE s # {}
      <4> DEFINE u == s \ {First(s)}
      <4>1. u \in SUBSET T /\ u # T /\ IsFiniteSet(u)
        BY <3>2, FirstIn, FS_Subset
      <4>2. H(u)[u] = Value(u)
        <5>1. IsSum(g, u, H(u))
          BY <2>1, <4>1
        <5>2. H(u)[u] = IF u = {} THEN 0 ELSE g[First(u)] + H(u)[u \ {First(u)}]
          <6>1. u \in SUBSET u
            OBVIOUS
          <6> HIDE DEF u, H
          <6> QED
            BY <5>1, <6>1 DEF IsSum
        <5>3. CASE u = {}
          BY <5>2, <5>3
        <5>4. CASE u # {}
          <6> DEFINE v == u \ {First(u)}
          <6>1. v \in SUBSET T /\ v # T /\ v \subseteq u /\ IsFiniteSet(v)
            BY <4>1, FS_Subset
          <6>2. IsSum(g, v, H(v))
            BY <2>1, <6>1
          <6>3. H(u)[v] = H(v)[v]
            <7> HIDE DEF u, v, H
            <7> QED
              BY <5>1, <6>1, <6>2, SumUnique
          <6> QED
            BY <5>2, <5>4, <6>3
        <5> QED
          BY <5>3, <5>4
      <4>3. F[s] = g[First(s)] + H(u)[u]
        BY <3>2
      <4>4. F[u] = Value(u)
        BY <4>1
      <4> QED
        BY <3>2, <4>2, <4>3, <4>4
    <3> QED
      BY <3>1, <3>2
  <2>3. IsSum(g, T, F)
    <3> HIDE DEF Value
    <3>1. F = [s \in SUBSET T |-> F[s]]
      OBVIOUS
    <3> HIDE DEF F
    <3> QED
      BY <2>2, <3>1 DEF IsSum
  <2> QED
    BY <2>3
<1>2. D \in P
  <2> HIDE DEF P
  <2> QED
    BY <1>1, StrongSetInduction
<1> QED
  BY <1>2

(* The sum over a part of D is the value there of the function on D.       *)
LEMMA SumValue ==
    ASSUME NEW g, NEW D, IsFiniteSet(D), NEW f, IsSum(g, D, f), NEW S \in SUBSET D
    PROVE  SumFunctionOnSet(g, S) = f[S]
<1> DEFINE h == CHOOSE k : IsSum(g, S, k)
<1>1. IsFiniteSet(S)
  BY FS_Subset
<1>2. IsSum(g, S, h)
  BY <1>1, SumExists
<1>3. SumFunctionOnSet(g, S) = h[S]
  BY <1>2 DEF SumFunctionOnSet, FoldFunctionOnSet, MapThenFoldSet, IsSum, First
<1>4. f[S] = h[S]
  <2> HIDE DEF h
  <2> QED
    BY <1>1, <1>2, SumUnique
<1> QED
  BY <1>3, <1>4

LEMMA SumEmpty == ASSUME NEW g PROVE SumFunctionOnSet(g, {}) = 0
<1>1. IsFiniteSet({})
  BY FS_EmptySet
<1>2. PICK f : IsSum(g, {}, f)
  BY <1>1, SumExists
<1>3. SumFunctionOnSet(g, {}) = f[{}]
  BY <1>1, <1>2, SumValue
<1>4. {} \in SUBSET {}
  OBVIOUS
<1> QED
  BY <1>2, <1>3, <1>4 DEF IsSum

LEMMA SumFirst ==
    ASSUME NEW g, NEW S, IsFiniteSet(S), S # {}
    PROVE  SumFunctionOnSet(g, S) = g[First(S)] + SumFunctionOnSet(g, S \ {First(S)})
<1>1. PICK f : IsSum(g, S, f)
  BY SumExists
<1>2. /\ SumFunctionOnSet(g, S) = f[S]
      /\ SumFunctionOnSet(g, S \ {First(S)}) = f[S \ {First(S)}]
  BY <1>1, SumValue
<1>3. S \in SUBSET S
  OBVIOUS
<1>4. f[S] = IF S = {} THEN 0 ELSE g[First(S)] + f[S \ {First(S)}]
  BY <1>1, <1>3 DEF IsSum
<1> QED
  BY <1>2, <1>4
-----------------------------------------------------------------------------
(* Sums of integers                                                        *)

LEMMA SumInt ==
    ASSUME NEW S, IsFiniteSet(S), NEW g, \A x \in S : g[x] \in Int
    PROVE  SumFunctionOnSet(g, S) \in Int
<1> DEFINE P == {T \in SUBSET S : SumFunctionOnSet(g, T) \in Int}
<1>1. ASSUME NEW T \in SUBSET S, \A U \in SUBSET T : U # T => U \in P
      PROVE  T \in P
  <2>1. CASE T = {}
    BY <2>1, SumEmpty
  <2>2. CASE T # {}
    <3>1. IsFiniteSet(T) /\ First(T) \in T
      BY <2>2, FirstIn, FS_Subset
    <3>2. SumFunctionOnSet(g, T \ {First(T)}) \in Int
      BY <1>1, <3>1
    <3> QED
      BY <2>2, <3>1, <3>2, SumFirst
  <2> QED
    BY <2>1, <2>2
<1>2. S \in P
  <2> HIDE DEF P
  <2> QED
    BY <1>1, StrongSetInduction
<1> QED
  BY <1>2

(* The elements may be taken in any order.                                 *)
LEMMA SumRemove ==
    ASSUME NEW S, IsFiniteSet(S), NEW g, \A x \in S : g[x] \in Int, NEW e \in S
    PROVE  SumFunctionOnSet(g, S) = g[e] + SumFunctionOnSet(g, S \ {e})
<1> DEFINE Sum(T) == SumFunctionOnSet(g, T)
           P == {T \in SUBSET S : \A x \in T : Sum(T) = g[x] + Sum(T \ {x})}
<1>1. ASSUME NEW T \in SUBSET S, \A U \in SUBSET T : U # T => U \in P
      PROVE  T \in P
  <2>1. ASSUME NEW x \in T PROVE Sum(T) = g[x] + Sum(T \ {x})
    <3> DEFINE y == First(T)
    <3>1. IsFiniteSet(T) /\ y \in T
      BY <2>1, FirstIn, FS_Subset
    <3>2. Sum(T) = g[y] + Sum(T \ {y})
      BY <2>1, <3>1, SumFirst
    <3>3. CASE x = y
      BY <3>2, <3>3
    <3>4. CASE x # y
      <4> HIDE DEF y, Sum
      <4>1. Sum(T \ {y}) = g[x] + Sum((T \ {y}) \ {x})
        BY <1>1, <2>1, <3>1, <3>4
      <4>2. Sum(T \ {x}) = g[y] + Sum((T \ {x}) \ {y})
        BY <1>1, <2>1, <3>1, <3>4
      <4>3. (T \ {y}) \ {x} = (T \ {x}) \ {y}
        OBVIOUS
      <4>4. Sum((T \ {x}) \ {y}) \in Int
        <5>1. IsFiniteSet((T \ {x}) \ {y})
          BY <3>1, FS_Subset
        <5> QED
          BY <5>1, SumInt DEF Sum
      <4>5. g[x] \in Int /\ g[y] \in Int
        BY <2>1, <3>1
      <4>6. Sum(T) = g[y] + (g[x] + Sum((T \ {x}) \ {y}))
        BY <3>2, <4>1, <4>3
      <4> QED
        BY <4>2, <4>4, <4>5, <4>6
    <3> QED
      BY <3>3, <3>4
  <2> HIDE DEF Sum
  <2> QED
    BY <2>1
<1>2. S \in P
  <2> HIDE DEF P
  <2> QED
    BY <1>1, StrongSetInduction
<1> QED
  BY <1>2

LEMMA SumAdd ==
    ASSUME NEW S, IsFiniteSet(S), NEW g, NEW e, e \notin S,
           \A x \in S \cup {e} : g[x] \in Int
    PROVE  SumFunctionOnSet(g, S \cup {e}) = g[e] + SumFunctionOnSet(g, S)
<1>1. IsFiniteSet(S \cup {e}) /\ e \in S \cup {e} /\ (S \cup {e}) \ {e} = S
  BY FS_AddElement
<1> QED
  BY <1>1, SumRemove

(* Two functions that differ by a multiple of a third.                     *)
LEMMA Distributes ==
    \A k, a, b \in Int : k * (a + b) = k * a + k * b
OBVIOUS

LEMMA SumLinear ==
    ASSUME NEW S, IsFiniteSet(S), NEW f, NEW g, NEW h, NEW k \in Int,
           \A x \in S : f[x] \in Int /\ g[x] \in Int /\ h[x] = f[x] + k * g[x]
    PROVE  SumFunctionOnSet(h, S) = SumFunctionOnSet(f, S) + k * SumFunctionOnSet(g, S)
<1> DEFINE F(T) == SumFunctionOnSet(f, T)
           G(T) == SumFunctionOnSet(g, T)
           H(T) == SumFunctionOnSet(h, T)
           P == {T \in SUBSET S : H(T) = F(T) + k * G(T)}
<1>1. {} \in P
  BY SumEmpty
<1>2. ASSUME NEW T \in SUBSET S, NEW x \in S, T \in P, x \notin T
      PROVE  T \cup {x} \in P
  <2>1. IsFiniteSet(T)
    BY FS_Subset
  <2>2. F(T) \in Int /\ G(T) \in Int /\ H(T) = F(T) + k * G(T)
    BY <1>2, <2>1, SumInt
  <2> DEFINE U == T \cup {x}
  <2>3. \A y \in U : f[y] \in Int /\ g[y] \in Int /\ h[y] \in Int
    <3>1. \A y \in U : y \in S
      OBVIOUS
    <3>2. \A a, b \in Int : a + k * b \in Int
      OBVIOUS
    <3> QED
      BY <3>1, <3>2
  <2>4. F(T \cup {x}) = f[x] + F(T)
    BY <1>2, <2>1, <2>3, SumAdd
  <2>5. G(T \cup {x}) = g[x] + G(T)
    BY <1>2, <2>1, <2>3, SumAdd
  <2>6. H(T \cup {x}) = h[x] + H(T)
    BY <1>2, <2>1, <2>3, SumAdd
  <2> HIDE DEF F, G, H
  <2>7. f[x] \in Int /\ g[x] \in Int /\ h[x] = f[x] + k * g[x]
    OBVIOUS
  <2>8. k * (g[x] + G(T)) = k * g[x] + k * G(T)
    BY <2>2, <2>7, Distributes
  <2>9. k * g[x] \in Int /\ k * G(T) \in Int
    BY <2>2, <2>7
  <2>10. H(T \cup {x}) = F(T \cup {x}) + k * G(T \cup {x})
    BY <2>2, <2>4, <2>5, <2>6, <2>7, <2>8, <2>9
  <2> QED
    BY <2>10
<1>3. S \in P
  <2> HIDE DEF P
  <2> QED
    BY <1>1, <1>2, SetInduction
<1> QED
  BY <1>3

LEMMA SumSame ==
    ASSUME NEW S, IsFiniteSet(S), NEW f, NEW g, \A x \in S : f[x] = g[x] /\ g[x] \in Int
    PROVE  SumFunctionOnSet(f, S) = SumFunctionOnSet(g, S)
<1>1. SumFunctionOnSet(f, S) = SumFunctionOnSet(g, S) + 0 * SumFunctionOnSet(g, S)
  <2>1. \A x \in S : f[x] = g[x] + 0 * g[x]
    OBVIOUS
  <2> QED
    BY <2>1, SumLinear
<1> QED
  BY <1>1, SumInt

LEMMA SumConstant ==
    ASSUME NEW S, IsFiniteSet(S), NEW g, NEW k \in Int, \A x \in S : g[x] = k
    PROVE  SumFunctionOnSet(g, S) = k * Cardinality(S)
<1> DEFINE P == {T \in SUBSET S : SumFunctionOnSet(g, T) = k * Cardinality(T)}
<1>1. {} \in P
  BY SumEmpty, FS_EmptySet
<1>2. ASSUME NEW T \in SUBSET S, NEW x \in S, T \in P, x \notin T
      PROVE  T \cup {x} \in P
  <2>1. IsFiniteSet(T)
    BY FS_Subset
  <2>2. SumFunctionOnSet(g, T \cup {x}) = g[x] + SumFunctionOnSet(g, T)
    BY <1>2, <2>1, SumAdd
  <2>3. Cardinality(T) \in Nat /\ Cardinality(T \cup {x}) = Cardinality(T) + 1
    BY <1>2, <2>1, FS_AddElement, FS_CardinalityType
  <2>4. k * (Cardinality(T) + 1) = k * Cardinality(T) + k * 1
    BY <2>3, Distributes
  <2> QED
    BY <1>2, <2>2, <2>3, <2>4
<1>3. S \in P
  <2> HIDE DEF P
  <2> QED
    BY <1>1, <1>2, SetInduction
<1> QED
  BY <1>3

LEMMA SumMonotone ==
    ASSUME NEW S, IsFiniteSet(S), NEW f, NEW g,
           \A x \in S : f[x] \in Int /\ g[x] \in Int /\ f[x] <= g[x]
    PROVE  SumFunctionOnSet(f, S) <= SumFunctionOnSet(g, S)
<1> DEFINE F(T) == SumFunctionOnSet(f, T)
           G(T) == SumFunctionOnSet(g, T)
           P == {T \in SUBSET S : F(T) <= G(T)}
<1>1. {} \in P
  BY SumEmpty
<1>2. ASSUME NEW T \in SUBSET S, NEW x \in S, T \in P, x \notin T
      PROVE  T \cup {x} \in P
  <2>1. IsFiniteSet(T)
    BY FS_Subset
  <2>2. F(T) \in Int /\ G(T) \in Int /\ F(T) <= G(T)
    BY <1>2, <2>1, SumInt
  <2>3. F(T \cup {x}) = f[x] + F(T)
    BY <1>2, <2>1, SumAdd
  <2>4. G(T \cup {x}) = g[x] + G(T)
    BY <1>2, <2>1, SumAdd
  <2> HIDE DEF F, G
  <2>5. F(T \cup {x}) <= G(T \cup {x})
    BY <2>2, <2>3, <2>4
  <2> QED
    BY <2>5
<1>3. S \in P
  <2> HIDE DEF P
  <2> QED
    BY <1>1, <1>2, SetInduction
<1> QED
  BY <1>3

LEMMA SumNat ==
    ASSUME NEW S, IsFiniteSet(S), NEW g, \A x \in S : g[x] \in Nat
    PROVE  SumFunctionOnSet(g, S) \in Nat
<1> DEFINE zero == [x \in S |-> 0]
<1>1. SumFunctionOnSet(zero, S) = 0 * Cardinality(S)
  BY SumConstant
<1>2. Cardinality(S) \in Nat
  BY FS_CardinalityType
<1>3. SumFunctionOnSet(zero, S) <= SumFunctionOnSet(g, S)
  <2>1. \A x \in S : zero[x] \in Int /\ g[x] \in Int /\ zero[x] <= g[x]
    OBVIOUS
  <2> HIDE DEF zero
  <2> QED
    BY <2>1, SumMonotone
<1>4. SumFunctionOnSet(g, S) \in Int
  BY SumInt
<1> HIDE DEF zero
<1> QED
  BY <1>1, <1>2, <1>3, <1>4

(* No summand exceeds the sum.                                             *)
LEMMA SumBounds ==
    ASSUME NEW S, IsFiniteSet(S), NEW g, \A x \in S : g[x] \in Nat, NEW e \in S
    PROVE  g[e] <= SumFunctionOnSet(g, S)
<1>1. SumFunctionOnSet(g, S) = g[e] + SumFunctionOnSet(g, S \ {e})
  BY SumRemove
<1>2. SumFunctionOnSet(g, S \ {e}) \in Nat
  BY SumNat, FS_RemoveElement
<1> QED
  BY <1>1, <1>2

(* Fewer and smaller summands.                                             *)
LEMMA SumSubset ==
    ASSUME NEW S, IsFiniteSet(S), NEW f, NEW g, NEW T \in SUBSET S,
           \A x \in S : g[x] \in Nat, \A x \in T : f[x] \in Int /\ f[x] <= g[x]
    PROVE  SumFunctionOnSet(f, T) <= SumFunctionOnSet(g, S)
<1> DEFINE P == {U \in SUBSET S : SumFunctionOnSet(f, U \cap T) <= SumFunctionOnSet(g, U)}
<1>1. {} \in P
  <2>1. {} \cap T = {}
    OBVIOUS
  <2> QED
    BY <2>1, SumEmpty
<1>2. ASSUME NEW U \in SUBSET S, NEW x \in S, U \in P, x \notin U
      PROVE  U \cup {x} \in P
  <2>1. IsFiniteSet(U) /\ IsFiniteSet(U \cap T)
    BY FS_Subset
  <2>2. /\ SumFunctionOnSet(g, U) \in Int /\ SumFunctionOnSet(f, U \cap T) \in Int
        /\ SumFunctionOnSet(f, U \cap T) <= SumFunctionOnSet(g, U)
    BY <1>2, <2>1, SumInt
  <2>3. SumFunctionOnSet(g, U \cup {x}) = g[x] + SumFunctionOnSet(g, U)
    <3>1. \A y \in U \cup {x} : g[y] \in Int
      OBVIOUS
    <3> QED
      BY <1>2, <2>1, <3>1, SumAdd
  <2>4. g[x] \in Nat
    OBVIOUS
  <2>5. CASE x \in T
    <3>1. (U \cup {x}) \cap T = (U \cap T) \cup {x}
      BY <2>5
    <3>2. SumFunctionOnSet(f, (U \cap T) \cup {x}) = f[x] + SumFunctionOnSet(f, U \cap T)
      <4>1. \A y \in (U \cap T) \cup {x} : f[y] \in Int
        BY <2>5
      <4> QED
        BY <1>2, <2>1, <4>1, SumAdd
    <3>3. f[x] \in Int /\ f[x] <= g[x]
      BY <2>5
    <3>4. SumFunctionOnSet(f, (U \cup {x}) \cap T) <= SumFunctionOnSet(g, U \cup {x})
      BY <2>2, <2>3, <2>4, <3>1, <3>2, <3>3
    <3> QED
      BY <3>4
  <2>6. CASE x \notin T
    <3>1. (U \cup {x}) \cap T = U \cap T
      BY <2>6
    <3>2. SumFunctionOnSet(f, (U \cup {x}) \cap T) <= SumFunctionOnSet(g, U \cup {x})
      <4>1. SumFunctionOnSet(f, (U \cup {x}) \cap T) = SumFunctionOnSet(f, U \cap T)
        BY <3>1
      <4> QED
        BY <2>2, <2>3, <2>4, <4>1
    <3> QED
      BY <3>2
  <2> QED
    BY <2>5, <2>6
<1>3. S \in P
  <2> HIDE DEF P
  <2> QED
    BY <1>1, <1>2, SetInduction
<1>4. S \cap T = T
  OBVIOUS
<1> QED
  BY <1>3, <1>4

-----------------------------------------------------------------------------
(* Sums of functions over their domains                                    *)

(* One value changes.                                                      *)
LEMMA SumChange ==
    ASSUME NEW S, IsFiniteSet(S), NEW f \in [S -> Int], NEW e \in S, NEW v \in Int
    PROVE  /\ SumFunction([f EXCEPT ![e] = v]) = SumFunction(f) - f[e] + v
           /\ SumFunction(f) \in Int
<1> DEFINE h == [f EXCEPT ![e] = v]
<1>1. DOMAIN f = S /\ DOMAIN h = S /\ h[e] = v /\ \A x \in S : h[x] \in Int
  OBVIOUS
<1>2. \A x \in S \ {e} : h[x] = f[x] /\ f[x] \in Int
  OBVIOUS
<1> HIDE DEF h
<1>3. SumFunctionOnSet(h, S \ {e}) = SumFunctionOnSet(f, S \ {e})
  BY <1>2, SumSame, FS_RemoveElement
<1>4. /\ SumFunctionOnSet(h, S) = h[e] + SumFunctionOnSet(h, S \ {e})
      /\ SumFunctionOnSet(f, S) = f[e] + SumFunctionOnSet(f, S \ {e})
  BY <1>1, SumRemove
<1>5. SumFunctionOnSet(f, S \ {e}) \in Int /\ SumFunctionOnSet(f, S) \in Int
  BY SumInt, FS_RemoveElement
<1>6. /\ SumFunction(h) = SumFunctionOnSet(h, S)
      /\ SumFunction(f) = SumFunctionOnSet(f, S)
  BY <1>1 DEF SumFunction
<1>7. f[e] \in Int
  OBVIOUS
<1>8. SumFunction(h) = SumFunction(f) - f[e] + v
  BY <1>1, <1>3, <1>4, <1>5, <1>6, <1>7
<1> QED
  BY <1>5, <1>6, <1>8 DEF h

(* Counting the places of a table by what stands in them.                  *)
LEMMA SumOfCounts ==
    ASSUME NEW S, IsFiniteSet(S), NEW D, IsFiniteSet(D), NEW l \in [D -> S]
    PROVE  SumFunction([a \in S |-> Cardinality({i \in D : l[i] = a})]) = Cardinality(D)
<1> DEFINE Places(T) == {i \in D : l[i] \in T}
           count == [a \in S |-> Cardinality({i \in D : l[i] = a})]
           P == {T \in SUBSET S : SumFunctionOnSet(count, T) = Cardinality(Places(T))}
<1>1. \A a \in S : count[a] = Cardinality(Places({a}))
  <2>1. \A a \in S : Places({a}) = {i \in D : l[i] = a}
    OBVIOUS
  <2> QED
    BY <2>1
<1>2. \A T : IsFiniteSet(Places(T)) /\ Cardinality(Places(T)) \in Nat
  BY FS_Subset, FS_CardinalityType
<1>3. \A T : T = {} => Places(T) = {}
  OBVIOUS
<1>4. \A T, x : Places(T \cup {x}) = Places(T) \cup Places({x})
  OBVIOUS
<1>5. \A T, x : x \notin T => Places(T) \cap Places({x}) = {}
  OBVIOUS
<1>6. Places(S) = D
  OBVIOUS
<1>7. SumFunction(count) = SumFunctionOnSet(count, S)
  BY DEF SumFunction
<1> HIDE DEF count, Places
<1>8. {} \in P
  BY <1>3, SumEmpty, FS_EmptySet
<1>9. ASSUME NEW T \in SUBSET S, NEW x \in S, T \in P, x \notin T
      PROVE  T \cup {x} \in P
  <2>1. IsFiniteSet(T)
    BY FS_Subset
  <2>2. SumFunctionOnSet(count, T \cup {x}) = count[x] + SumFunctionOnSet(count, T)
    <3>1. \A y \in S : count[y] \in Int
      <4>1. \A y \in S : count[y] \in Nat
        BY <1>1, <1>2
      <4> QED
        BY <4>1
    <3>2. \A y \in T \cup {x} : y \in S
      OBVIOUS
    <3> QED
      BY <1>9, <2>1, <3>1, <3>2, SumAdd
  <2>3. Cardinality(Places(T \cup {x})) =
            Cardinality(Places(T)) + Cardinality(Places({x})) - Cardinality({})
    <3>1. IsFiniteSet(Places(T)) /\ IsFiniteSet(Places({x}))
      BY <1>2
    <3>2. Places(T) \cap Places({x}) = {}
      BY <1>5, <1>9
    <3>3. Cardinality(Places(T) \cup Places({x})) =
              Cardinality(Places(T)) + Cardinality(Places({x}))
                - Cardinality(Places(T) \cap Places({x}))
      BY <3>1, FS_Union
    <3> QED
      BY <1>4, <3>2, <3>3
  <2> QED
    BY <1>1, <1>2, <1>9, <2>2, <2>3, FS_EmptySet
<1>10. S \in P
  <2> HIDE DEF P
  <2> QED
    BY <1>8, <1>9, SetInduction
<1> QED
  BY <1>6, <1>7, <1>10 DEF count
=============================================================================
