------------------------------ MODULE SumProofs ------------------------------
(***************************************************************************)
(* Facts about sums over finite sets (SumFunctionOnSet of the Functions    *)
(* module) that the proofs about money and scores cite.  Induction over a  *)
(* finite set is stated here for a set of good subsets, and rests on the   *)
(* well-foundedness of strict inclusion.                                   *)
(***************************************************************************)
EXTENDS Integers, Functions, FiniteSetTheorems, TLAPS

(* Strong induction: a property that every subset inherits from its proper  *)
(* subsets, given as the set of the subsets that have it, holds of all.     *)
LEMMA SubsetInduction ==
    ASSUME NEW S, IsFiniteSet(S), NEW Good,
           \A T \in SUBSET S : (\A U \in SUBSET T : U # T => U \in Good) => T \in Good
    PROVE  \A T \in SUBSET S : T \in Good
<1> DEFINE Bad == {T \in SUBSET S : T \notin Good}
           R == StrictSubsetOrdering(S)
<1>1. SUFFICES ASSUME Bad # {} PROVE FALSE
  OBVIOUS
<1>2. IsWellFoundedOn(R, SUBSET S)
  BY FS_StrictSubsetOrderingWellFounded, FS_FiniteSubsetsOfFinite
<1>3. Bad \subseteq SUBSET S
  OBVIOUS
<1>4. PICK T \in Bad : \A U \in Bad : ~(<<U, T>> \in R)
  <2> HIDE DEF Bad, R
  <2> QED
    BY <1>1, <1>2, <1>3, WFMin
<1>5. \A U \in SUBSET T : U # T => U \in Good
  BY <1>4 DEF StrictSubsetOrdering
<1> QED
  BY <1>4, <1>5

(* Induction up to a bound, in the same form.                               *)
LEMMA UpToInduction ==
    ASSUME NEW N \in Nat, NEW Good, 0 \in Good,
           \A n \in 0..(N - 1) : n \in Good => n + 1 \in Good
    PROVE  \A n \in 0..N : n \in Good
<1> DEFINE Bad == {n \in 0..N : n \notin Good}
           R == OpToRel(<, Nat)
<1>1. SUFFICES ASSUME Bad # {} PROVE FALSE
  OBVIOUS
<1>2. IsWellFoundedOn(R, Nat)
  BY NatLessThanWellFounded
<1>3. Bad \subseteq Nat
  OBVIOUS
<1>4. PICK n \in Bad : \A m \in Bad : ~(<<m, n>> \in R)
  <2> HIDE DEF Bad, R
  <2> QED
    BY <1>1, <1>2, <1>3, WFMin
<1>5. \A m \in Bad : ~(m < n)
  BY <1>3, <1>4 DEF OpToRel
<1>6. n \in 0..N /\ n \notin Good
  OBVIOUS
<1> HIDE DEF R
<1>7. n - 1 \in 0..(N - 1) /\ n - 1 \in 0..N /\ n - 1 < n /\ (n - 1) + 1 = n
  BY <1>6
<1>8. n - 1 \in Good
  BY <1>5, <1>7
<1> QED
  BY <1>6, <1>7, <1>8

-----------------------------------------------------------------------------
(* The element the fold takes next, and the recursive function it defines.  *)
Pick(T) == CHOOSE x \in T : TRUE

IsPartialSum(g, f, S) ==
    g = [T \in SUBSET S |-> IF T = {} THEN 0 ELSE f[Pick(T)] + g[T \ {Pick(T)}]]

PartialSum(f, S) == CHOOSE g : IsPartialSum(g, f, S)

LEMMA PickIn == \A T : T # {} => Pick(T) \in T
BY DEF Pick

LEMMA SumIsPartialSum ==
    ASSUME NEW f, NEW S
    PROVE  SumFunctionOnSet(f, S) = PartialSum(f, S)[S]
BY DEF SumFunctionOnSet, FoldFunctionOnSet, MapThenFoldSet, PartialSum, IsPartialSum, Pick

LEMMA PartialSumValues ==
    ASSUME NEW f, NEW S, NEW g, IsPartialSum(g, f, S)
    PROVE  /\ g[{}] = 0
           /\ \A T \in SUBSET S : T # {} => g[T] = f[Pick(T)] + g[T \ {Pick(T)}]
BY DEF IsPartialSum

(* Two such functions agree wherever both are defined.                      *)
LEMMA PartialSumsAgree ==
    ASSUME NEW f, NEW S, IsFiniteSet(S), NEW V \in SUBSET S,
           NEW g, IsPartialSum(g, f, S), NEW h, IsPartialSum(h, f, V)
    PROVE  \A T \in SUBSET V : g[T] = h[T]
<1> DEFINE Good == {T \in SUBSET V : g[T] = h[T]}
<1>1. IsFiniteSet(V)
  BY FS_Subset
<1>2. ASSUME NEW T \in SUBSET V, \A U \in SUBSET T : U # T => U \in Good
      PROVE  T \in Good
  <2>1. CASE T = {}
    BY <2>1 DEF IsPartialSum
  <2>2. CASE T # {}
    <3>1. Pick(T) \in T
      BY <2>2, PickIn
    <3>2. T \ {Pick(T)} \in Good
      BY <1>2, <3>1
    <3>3. g[T] = f[Pick(T)] + g[T \ {Pick(T)}] /\ h[T] = f[Pick(T)] + h[T \ {Pick(T)}]
      BY <2>2 DEF IsPartialSum
    <3> QED
      BY <3>2, <3>3
  <2> QED
    BY <2>1, <2>2
<1>3. \A T \in SUBSET V : T \in Good
  <2> HIDE DEF Good
  <2> QED
    BY <1>1, <1>2, SubsetInduction
<1> QED
  BY <1>3

LEMMA PartialSumExists ==
    ASSUME NEW f, NEW S, IsFiniteSet(S)
    PROVE  IsPartialSum(PartialSum(f, S), f, S)
<1> DEFINE Good == {T \in SUBSET S : \E g : IsPartialSum(g, f, T)}
           sum(T) == PartialSum(f, T)[T]
<1>1. ASSUME NEW T \in SUBSET S, \A U \in SUBSET T : U # T => U \in Good
      PROVE  T \in Good
  <2> DEFINE g == [U \in SUBSET T |-> IF U = {} THEN 0 ELSE f[Pick(U)] + sum(U \ {Pick(U)})]
  <2>1. ASSUME NEW U \in SUBSET T, U # T
        PROVE  /\ IsPartialSum(PartialSum(f, U), f, U)
               /\ IsFiniteSet(U)
    <3>1. \E h : IsPartialSum(h, f, U)
      BY <1>1, <2>1
    <3>2. IsPartialSum(PartialSum(f, U), f, U)
      BY <3>1 DEF PartialSum
    <3> QED
      BY <3>2, FS_Subset
  <2>2. ASSUME NEW U \in SUBSET T, U # T
        PROVE  g[U] = sum(U)
    <3>1. CASE U = {}
      BY <3>1, <2>1, <2>2, PartialSumValues
    <3>2. CASE U # {}
      <4> DEFINE W == U \ {Pick(U)}
      <4>1. Pick(U) \in U
        BY <3>2, PickIn
      <4>2. W \in SUBSET U /\ W \in SUBSET T /\ W # T
        BY <4>1
      <4>3. sum(U) = f[Pick(U)] + PartialSum(f, U)[W]
        BY <2>1, <2>2, <3>2 DEF IsPartialSum
      <4>4. PartialSum(f, U)[W] = sum(W)
        <5>1. IsPartialSum(PartialSum(f, U), f, U) /\ IsFiniteSet(U)
          BY <2>1, <2>2
        <5>2. IsPartialSum(PartialSum(f, W), f, W)
          BY <2>1, <4>2
        <5> HIDE DEF W
        <5>3. \A X \in SUBSET W : PartialSum(f, U)[X] = PartialSum(f, W)[X]
          BY <4>2, <5>1, <5>2, PartialSumsAgree
        <5> QED
          BY <5>3
      <4> QED
        BY <3>2, <4>3, <4>4
    <3> QED
      BY <3>1, <3>2
  <2>3. ASSUME NEW U \in SUBSET T, U # {}
        PROVE  g[U] = f[Pick(U)] + g[U \ {Pick(U)}]
    <3>1. Pick(U) \in U
      BY <2>3, PickIn
    <3>2. U \ {Pick(U)} \in SUBSET T /\ U \ {Pick(U)} # T
      BY <3>1
    <3>3. g[U \ {Pick(U)}] = sum(U \ {Pick(U)})
      BY <2>2, <3>2
    <3>4. g[U] = f[Pick(U)] + sum(U \ {Pick(U)})
      BY <2>3
    <3> QED
      BY <3>3, <3>4
  <2>4. IsPartialSum(g, f, T)
    <3>1. \A U \in SUBSET T : g[U] = IF U = {} THEN 0 ELSE f[Pick(U)] + g[U \ {Pick(U)}]
      BY <2>3
    <3>2. g = [U \in SUBSET T |-> g[U]]
      OBVIOUS
    <3> HIDE DEF g
    <3> QED
      BY <3>1, <3>2 DEF IsPartialSum
  <2> HIDE DEF g
  <2> QED
    BY <2>4
<1>2. \A T \in SUBSET S : T \in Good
  <2> HIDE DEF Good
  <2> QED
    BY <1>1, SubsetInduction
<1>3. \E g : IsPartialSum(g, f, S)
  BY <1>2
<1> QED
  BY <1>3 DEF PartialSum

-----------------------------------------------------------------------------
LEMMA SumEmpty ==
    ASSUME NEW f
    PROVE  SumFunctionOnSet(f, {}) = 0
<1>1. IsFiniteSet({})
  BY FS_EmptySet
<1>2. PartialSum(f, {})[{}] = 0
  BY <1>1, PartialSumExists, PartialSumValues
<1> QED
  BY <1>2, SumIsPartialSum

LEMMA SumPick ==
    ASSUME NEW f, NEW S, IsFiniteSet(S), S # {}
    PROVE  /\ Pick(S) \in S
           /\ SumFunctionOnSet(f, S) = f[Pick(S)] + SumFunctionOnSet(f, S \ {Pick(S)})
<1> DEFINE T == S \ {Pick(S)}
<1>1. Pick(S) \in S
  BY PickIn
<1>2. IsFiniteSet(T) /\ T \in SUBSET S
  BY FS_RemoveElement
<1>3. PartialSum(f, S)[S] = f[Pick(S)] + PartialSum(f, S)[T]
  <2>1. IsPartialSum(PartialSum(f, S), f, S) /\ S \in SUBSET S
    BY PartialSumExists
  <2> QED
    BY <2>1, PartialSumValues
<1>4. PartialSum(f, S)[T] = PartialSum(f, T)[T]
  <2>1. IsPartialSum(PartialSum(f, S), f, S) /\ IsPartialSum(PartialSum(f, T), f, T)
    BY <1>2, PartialSumExists
  <2> HIDE DEF T
  <2> QED
    BY <1>2, <2>1, PartialSumsAgree
<1> QED
  BY <1>1, <1>3, <1>4, SumIsPartialSum

-----------------------------------------------------------------------------
(* Only the values on the set count.                                        *)
LEMMA SumSame ==
    ASSUME NEW S, IsFiniteSet(S), NEW f, NEW g, \A x \in S : f[x] = g[x]
    PROVE  SumFunctionOnSet(f, S) = SumFunctionOnSet(g, S)
<1> DEFINE Good == {T \in SUBSET S : SumFunctionOnSet(f, T) = SumFunctionOnSet(g, T)}
<1>1. ASSUME NEW T \in SUBSET S, \A U \in SUBSET T : U # T => U \in Good
      PROVE  T \in Good
  <2>1. CASE T = {}
    BY <2>1, SumEmpty
  <2>2. CASE T # {}
    <3>1. IsFiniteSet(T)
      BY FS_Subset
    <3>2. /\ Pick(T) \in T
          /\ SumFunctionOnSet(f, T) = f[Pick(T)] + SumFunctionOnSet(f, T \ {Pick(T)})
          /\ SumFunctionOnSet(g, T) = g[Pick(T)] + SumFunctionOnSet(g, T \ {Pick(T)})
      BY <2>2, <3>1, SumPick
    <3>3. T \ {Pick(T)} \in Good
      BY <1>1, <3>2
    <3> QED
      BY <3>2, <3>3
  <2> QED
    BY <2>1, <2>2
<1>2. \A T \in SUBSET S : T \in Good
  <2> HIDE DEF Good
  <2> QED
    BY <1>1, SubsetInduction
<1> QED
  BY <1>2

LEMMA SumInt ==
    ASSUME NEW S, IsFiniteSet(S), NEW f, \A x \in S : f[x] \in Int
    PROVE  SumFunctionOnSet(f, S) \in Int
<1> DEFINE Good == {T \in SUBSET S : SumFunctionOnSet(f, T) \in Int}
<1>1. ASSUME NEW T \in SUBSET S, \A U \in SUBSET T : U # T => U \in Good
      PROVE  T \in Good
  <2>1. CASE T = {}
    BY <2>1, SumEmpty
  <2>2. CASE T # {}
    <3>1. IsFiniteSet(T)
      BY FS_Subset
    <3>2. /\ Pick(T) \in T
          /\ SumFunctionOnSet(f, T) = f[Pick(T)] + SumFunctionOnSet(f, T \ {Pick(T)})
      BY <2>2, <3>1, SumPick
    <3>3. T \ {Pick(T)} \in Good
      BY <1>1, <3>2
    <3> QED
      BY <3>2, <3>3
  <2> QED
    BY <2>1, <2>2
<1>2. \A T \in SUBSET S : T \in Good
  <2> HIDE DEF Good
  <2> QED
    BY <1>1, SubsetInduction
<1> QED
  BY <1>2

(* A sum is the value at any of its elements and the sum of the rest.       *)
LEMMA SumRemove ==
    ASSUME NEW S, IsFiniteSet(S), NEW f, \A x \in S : f[x] \in Int, NEW y \in S
    PROVE  SumFunctionOnSet(f, S) = f[y] + SumFunctionOnSet(f, S \ {y})
<1> DEFINE Good == {T \in SUBSET S : \A x \in T :
                      SumFunctionOnSet(f, T) = f[x] + SumFunctionOnSet(f, T \ {x})}
<1>1. ASSUME NEW T \in SUBSET S, \A U \in SUBSET T : U # T => U \in Good, NEW x \in T
      PROVE  SumFunctionOnSet(f, T) = f[x] + SumFunctionOnSet(f, T \ {x})
  <2> DEFINE p == Pick(T)
             rest == (T \ {x}) \ {p}
  <2>1. IsFiniteSet(T)
    BY FS_Subset
  <2>2. p \in T /\ SumFunctionOnSet(f, T) = f[p] + SumFunctionOnSet(f, T \ {p})
    BY <2>1, SumPick
  <2>3. CASE x = p
    BY <2>2, <2>3
  <2>4. CASE x # p
    <3>1. T \ {p} \in Good /\ T \ {x} \in Good
      BY <1>1, <2>2
    <3>2. (T \ {p}) \ {x} = rest
      OBVIOUS
    <3>3. SumFunctionOnSet(f, T \ {p}) = f[x] + SumFunctionOnSet(f, rest)
      BY <2>4, <3>1, <3>2
    <3>4. SumFunctionOnSet(f, T \ {x}) = f[p] + SumFunctionOnSet(f, rest)
      BY <2>2, <2>4, <3>1
    <3>5. IsFiniteSet(rest) /\ rest \in SUBSET S
      BY FS_Subset
    <3>6. SumFunctionOnSet(f, rest) \in Int
      <4> HIDE DEF rest
      <4> QED
        BY <3>5, SumInt
    <3>7. f[x] \in Int /\ f[p] \in Int
      BY <2>2
    <3> QED
      BY <2>2, <3>3, <3>4, <3>6, <3>7
  <2> QED
    BY <2>3, <2>4
<1>2. \A T \in SUBSET S : (\A U \in SUBSET T : U # T => U \in Good) => T \in Good
  BY <1>1
<1>3. \A T \in SUBSET S : T \in Good
  <2> HIDE DEF Good
  <2> QED
    BY <1>2, SubsetInduction
<1> QED
  BY <1>3

LEMMA SumAdd ==
    ASSUME NEW S, IsFiniteSet(S), NEW f, \A x \in S : f[x] \in Int,
           NEW y, y \notin S, f[y] \in Int
    PROVE  SumFunctionOnSet(f, S \cup {y}) = SumFunctionOnSet(f, S) + f[y]
<1> DEFINE T == S \cup {y}
<1>1. IsFiniteSet(T) /\ y \in T /\ \A x \in T : f[x] \in Int
  BY FS_AddElement
<1>2. T \ {y} = S
  OBVIOUS
<1>3. SumFunctionOnSet(f, T) = f[y] + SumFunctionOnSet(f, T \ {y})
  <2> HIDE DEF T
  <2> QED
    BY <1>1, SumRemove
<1>4. SumFunctionOnSet(f, S) \in Int
  BY SumInt
<1> HIDE DEF T
<1>5. SumFunctionOnSet(f, T) = f[y] + SumFunctionOnSet(f, S)
  BY <1>2, <1>3, Zenon
<1>6. SumFunctionOnSet(f, T) = SumFunctionOnSet(f, S) + f[y]
  BY <1>4, <1>5
<1> QED
  BY <1>6 DEF T

(* Induction one element at a time.                                         *)
LEMMA AddingInduction ==
    ASSUME NEW S, IsFiniteSet(S), NEW Good, {} \in Good,
           \A T \in SUBSET S : \A x \in S \ T : T \in Good => T \cup {x} \in Good
    PROVE  S \in Good
<1>1. ASSUME NEW T \in SUBSET S, \A U \in SUBSET T : U # T => U \in Good
      PROVE  T \in Good
  <2>1. CASE T = {}
    BY <2>1
  <2>2. CASE T # {}
    <3>1. PICK x \in T : TRUE
      BY <2>2
    <3>2. T \ {x} \in Good
      BY <1>1
    <3>3. (T \ {x}) \cup {x} \in Good
      BY <3>2
    <3>4. (T \ {x}) \cup {x} = T
      OBVIOUS
    <3> QED
      BY <3>3, <3>4
  <2> QED
    BY <2>1, <2>2
<1> QED
  BY <1>1, SubsetInduction

LEMMA SumNat ==
    ASSUME NEW S, IsFiniteSet(S), NEW f, \A x \in S : f[x] \in Nat
    PROVE  SumFunctionOnSet(f, S) \in Nat
<1> DEFINE Good == {T \in SUBSET S : SumFunctionOnSet(f, T) \in Nat}
<1>1. {} \in Good
  BY SumEmpty
<1>2. ASSUME NEW T \in SUBSET S, NEW x \in S \ T, T \in Good
      PROVE  T \cup {x} \in Good
  <2>1. IsFiniteSet(T)
    BY FS_Subset
  <2>2. SumFunctionOnSet(f, T \cup {x}) = SumFunctionOnSet(f, T) + f[x]
    BY <2>1, SumAdd
  <2> QED
    BY <1>2, <2>2
<1>3. S \in Good
  <2> HIDE DEF Good
  <2> QED
    BY <1>1, <1>2, AddingInduction
<1> QED
  BY <1>3

(* A part of a set and the rest of it.                                      *)
LEMMA SumSplit ==
    ASSUME NEW S, IsFiniteSet(S), NEW f, \A x \in S : f[x] \in Int, NEW V \in SUBSET S
    PROVE  SumFunctionOnSet(f, S) = SumFunctionOnSet(f, V) + SumFunctionOnSet(f, S \ V)
<1> DEFINE Good == {T \in SUBSET V :
        SumFunctionOnSet(f, S) = SumFunctionOnSet(f, T) + SumFunctionOnSet(f, S \ T)}
<1>1. {} \in Good
  <2>1. S \ {} = S /\ SumFunctionOnSet(f, S) \in Int
    BY SumInt
  <2> QED
    BY <2>1, SumEmpty
<1>2. ASSUME NEW T \in SUBSET V, NEW x \in V \ T, T \in Good
      PROVE  T \cup {x} \in Good
  <2> DEFINE rest == S \ T
  <2>1. IsFiniteSet(T) /\ IsFiniteSet(rest) /\ IsFiniteSet(rest \ {x})
    BY FS_Subset, FS_RemoveElement
  <2>2. SumFunctionOnSet(f, T \cup {x}) = SumFunctionOnSet(f, T) + f[x]
    BY <2>1, SumAdd
  <2>3. SumFunctionOnSet(f, rest) = f[x] + SumFunctionOnSet(f, rest \ {x})
    <3>1. x \in rest /\ \A z \in rest : f[z] \in Int
      OBVIOUS
    <3> HIDE DEF rest
    <3> QED
      BY <2>1, <3>1, SumRemove
  <2>4. S \ (T \cup {x}) = rest \ {x}
    OBVIOUS
  <2>5. /\ SumFunctionOnSet(f, T) \in Int /\ f[x] \in Int
        /\ SumFunctionOnSet(f, rest \ {x}) \in Int
    <3>1. SumFunctionOnSet(f, T) \in Int /\ f[x] \in Int
      BY <2>1, SumInt
    <3>2. SumFunctionOnSet(f, rest \ {x}) \in Int
      <4>1. \A z \in rest \ {x} : f[z] \in Int
        OBVIOUS
      <4> HIDE DEF rest
      <4> QED
        BY <2>1, <4>1, SumInt
    <3> QED
      BY <3>1, <3>2
  <2>6. SumFunctionOnSet(f, S) = SumFunctionOnSet(f, T) + SumFunctionOnSet(f, rest)
    BY <1>2
  <2>7. T \cup {x} \in SUBSET V
    OBVIOUS
  <2>8. SumFunctionOnSet(f, S)
          = SumFunctionOnSet(f, T \cup {x}) + SumFunctionOnSet(f, S \ (T \cup {x}))
    <3> HIDE DEF rest
    <3> QED
      <4>1. SumFunctionOnSet(f, S \ (T \cup {x})) = SumFunctionOnSet(f, rest \ {x})
        BY <2>4, Zenon
      <4> QED
        BY <2>2, <2>3, <2>5, <2>6, <4>1
  <2> QED
    BY <2>7, <2>8
<1>3. V \in Good
  <2>1. IsFiniteSet(V)
    BY FS_Subset
  <2> HIDE DEF Good
  <2> QED
    BY <1>1, <1>2, <2>1, AddingInduction
<1> QED
  BY <1>3

(* Sums are monotone, in the values                                         *)
LEMMA SumMonotone ==
    ASSUME NEW S, IsFiniteSet(S), NEW f, NEW g,
           \A x \in S : f[x] \in Int /\ g[x] \in Int /\ f[x] <= g[x]
    PROVE  SumFunctionOnSet(f, S) <= SumFunctionOnSet(g, S)
<1> DEFINE Good == {T \in SUBSET S : SumFunctionOnSet(f, T) <= SumFunctionOnSet(g, T)}
<1>1. {} \in Good
  BY SumEmpty
<1>2. ASSUME NEW T \in SUBSET S, NEW x \in S \ T, T \in Good
      PROVE  T \cup {x} \in Good
  <2>1. IsFiniteSet(T)
    BY FS_Subset
  <2>2. /\ SumFunctionOnSet(f, T \cup {x}) = SumFunctionOnSet(f, T) + f[x]
        /\ SumFunctionOnSet(g, T \cup {x}) = SumFunctionOnSet(g, T) + g[x]
        /\ SumFunctionOnSet(f, T) \in Int /\ SumFunctionOnSet(g, T) \in Int
    BY <2>1, SumAdd, SumInt
  <2> QED
    BY <1>2, <2>2
<1>3. S \in Good
  <2> HIDE DEF Good
  <2> QED
    BY <1>1, <1>2, AddingInduction
<1> QED
  BY <1>3

(* and, for natural values, in the set.                                     *)
LEMMA SumOfPart ==
    ASSUME NEW S, IsFiniteSet(S), NEW f, \A x \in S : f[x] \in Nat, NEW V \in SUBSET S
    PROVE  SumFunctionOnSet(f, V) <= SumFunctionOnSet(f, S)
<1>1. IsFiniteSet(V) /\ IsFiniteSet(S \ V)
  BY FS_Subset
<1>2. SumFunctionOnSet(f, V) \in Nat /\ SumFunctionOnSet(f, S \ V) \in Nat
  BY <1>1, SumNat
<1>3. SumFunctionOnSet(f, S) = SumFunctionOnSet(f, V) + SumFunctionOnSet(f, S \ V)
  BY SumSplit
<1> QED
  BY <1>2, <1>3

LEMMA SumSingleton ==
    ASSUME NEW f, NEW x, f[x] \in Int
    PROVE  SumFunctionOnSet(f, {x}) = f[x]
<1>1. SumFunctionOnSet(f, {} \cup {x}) = SumFunctionOnSet(f, {}) + f[x]
  BY FS_EmptySet, SumAdd
<1>2. {} \cup {x} = {x}
  OBVIOUS
<1>3. SumFunctionOnSet(f, {x}) = SumFunctionOnSet(f, {}) + f[x]
  BY <1>1, <1>2
<1> QED
  BY <1>3, SumEmpty

(* No value exceeds the sum.                                                *)
LEMMA SumMember ==
    ASSUME NEW S, IsFiniteSet(S), NEW f, \A x \in S : f[x] \in Nat, NEW y \in S
    PROVE  f[y] <= SumFunctionOnSet(f, S)
<1>1. {y} \in SUBSET S
  OBVIOUS
<1>2. SumFunctionOnSet(f, {y}) = f[y]
  BY SumSingleton
<1>3. SumFunctionOnSet(f, {y}) <= SumFunctionOnSet(f, S)
  BY <1>1, SumOfPart
<1> QED
  BY <1>2, <1>3

-----------------------------------------------------------------------------
(* Sums are linear.                                                         *)
LEMMA SumTogether ==
    ASSUME NEW S, IsFiniteSet(S), NEW f, NEW g, NEW h,
           \A x \in S : f[x] \in Int /\ g[x] \in Int /\ h[x] = f[x] + g[x]
    PROVE  SumFunctionOnSet(h, S) = SumFunctionOnSet(f, S) + SumFunctionOnSet(g, S)
<1> DEFINE Good == {T \in SUBSET S :
        SumFunctionOnSet(h, T) = SumFunctionOnSet(f, T) + SumFunctionOnSet(g, T)}
<1>1. {} \in Good
  BY SumEmpty
<1>2. ASSUME NEW T \in SUBSET S, NEW x \in S \ T, T \in Good
      PROVE  T \cup {x} \in Good
  <2>1. IsFiniteSet(T)
    BY FS_Subset
  <2>2. /\ SumFunctionOnSet(f, T \cup {x}) = SumFunctionOnSet(f, T) + f[x]
        /\ SumFunctionOnSet(g, T \cup {x}) = SumFunctionOnSet(g, T) + g[x]
        /\ SumFunctionOnSet(f, T) \in Int /\ SumFunctionOnSet(g, T) \in Int
    BY <2>1, SumAdd, SumInt
  <2>3. SumFunctionOnSet(h, T \cup {x}) = SumFunctionOnSet(h, T) + h[x]
    BY <2>1, SumAdd
  <2> QED
    BY <1>2, <2>2, <2>3
<1>3. S \in Good
  <2> HIDE DEF Good
  <2> QED
    BY <1>1, <1>2, AddingInduction
<1> QED
  BY <1>3

LEMMA SumTimes ==
    ASSUME NEW S, IsFiniteSet(S), NEW c \in Int, NEW f, NEW g,
           \A x \in S : f[x] \in Int /\ g[x] = c * f[x]
    PROVE  SumFunctionOnSet(g, S) = c * SumFunctionOnSet(f, S)
<1> DEFINE Good == {T \in SUBSET S : SumFunctionOnSet(g, T) = c * SumFunctionOnSet(f, T)}
<1>1. {} \in Good
  BY SumEmpty
<1>2. ASSUME NEW T \in SUBSET S, NEW x \in S \ T, T \in Good
      PROVE  T \cup {x} \in Good
  <2>1. IsFiniteSet(T)
    BY FS_Subset
  <2>2. /\ SumFunctionOnSet(f, T \cup {x}) = SumFunctionOnSet(f, T) + f[x]
        /\ SumFunctionOnSet(f, T) \in Int /\ f[x] \in Int
    BY <2>1, SumAdd, SumInt
  <2>3. SumFunctionOnSet(g, T \cup {x}) = SumFunctionOnSet(g, T) + g[x]
    BY <2>1, SumAdd
  <2>4. \A m, n \in Int : c * m + c * n = c * (m + n)
    OBVIOUS
  <2>5. c * SumFunctionOnSet(f, T) + c * f[x] = c * (SumFunctionOnSet(f, T) + f[x])
    BY <2>2, <2>4
  <2>6. SumFunctionOnSet(g, T) = c * SumFunctionOnSet(f, T) /\ g[x] = c * f[x]
    BY <1>2
  <2>7. SumFunctionOnSet(g, T \cup {x}) = c * SumFunctionOnSet(f, T \cup {x})
    BY <2>2, <2>3, <2>5, <2>6
  <2> QED
    BY <2>7
<1>3. S \in Good
  <2> HIDE DEF Good
  <2> QED
    BY <1>1, <1>2, AddingInduction
<1> QED
  BY <1>3

(* Ones count.                                                              *)
LEMMA SumOfOnes ==
    ASSUME NEW S, IsFiniteSet(S), NEW f, \A x \in S : f[x] = 1
    PROVE  SumFunctionOnSet(f, S) = Cardinality(S)
<1> DEFINE Good == {T \in SUBSET S : SumFunctionOnSet(f, T) = Cardinality(T)}
<1>1. {} \in Good
  BY SumEmpty, FS_EmptySet
<1>2. ASSUME NEW T \in SUBSET S, NEW x \in S \ T, T \in Good
      PROVE  T \cup {x} \in Good
  <2>1. IsFiniteSet(T)
    BY FS_Subset
  <2>2. SumFunctionOnSet(f, T \cup {x}) = SumFunctionOnSet(f, T) + f[x]
    BY <2>1, SumAdd
  <2>3. Cardinality(T \cup {x}) = Cardinality(T) + 1
    BY <2>1, FS_AddElement
  <2> QED
    BY <1>2, <2>2, <2>3
<1>3. S \in Good
  <2> HIDE DEF Good
  <2> QED
    BY <1>1, <1>2, AddingInduction
<1> QED
  BY <1>3

(* Renaming the elements one to one keeps the sum.                          *)
LEMMA SumRenamed ==
    ASSUME NEW S, IsFiniteSet(S), NEW f, NEW g, NEW h,
           \A x, y \in S : h[x] = h[y] => x = y,
           \A x \in S : f[x] \in Int /\ g[h[x]] = f[x]
    PROVE  SumFunctionOnSet(g, {h[x] : x \in S}) = SumFunctionOnSet(f, S)
<1> DEFINE Image(T) == {h[x] : x \in T}
           Good == {T \in SUBSET S : /\ IsFiniteSet(Image(T))
                                     /\ SumFunctionOnSet(g, Image(T)) = SumFunctionOnSet(f, T)}
<1>1. {} \in Good
  <2>1. Image({}) = {}
    OBVIOUS
  <2>2. IsFiniteSet(Image({})) /\ SumFunctionOnSet(g, Image({})) = 0
    <3> HIDE DEF Image
    <3> QED
      BY <2>1, SumEmpty, FS_EmptySet, Zenon
  <2> HIDE DEF Image
  <2> QED
    BY <2>2, SumEmpty
<1>2. ASSUME NEW T \in SUBSET S, NEW x \in S \ T, T \in Good
      PROVE  T \cup {x} \in Good
  <2>1. IsFiniteSet(T) /\ IsFiniteSet(Image(T))
    BY <1>2, FS_Subset
  <2>2. /\ h[x] \notin Image(T) /\ Image(T \cup {x}) = Image(T) \cup {h[x]}
        /\ \A z \in Image(T) : g[z] \in Int
        /\ g[h[x]] \in Int
    OBVIOUS
  <2>3. SumFunctionOnSet(f, T \cup {x}) = SumFunctionOnSet(f, T) + f[x]
    BY <2>1, SumAdd
  <2> HIDE DEF Image
  <2>4. /\ IsFiniteSet(Image(T) \cup {h[x]})
        /\ SumFunctionOnSet(g, Image(T) \cup {h[x]}) = SumFunctionOnSet(g, Image(T)) + g[h[x]]
    <3>1. IsFiniteSet(Image(T) \cup {h[x]})
      BY <2>1, FS_AddElement
    <3>2. ASSUME NEW V, NEW z, IsFiniteSet(V), \A y \in V : g[y] \in Int, z \notin V,
                 g[z] \in Int
          PROVE  SumFunctionOnSet(g, V \cup {z}) = SumFunctionOnSet(g, V) + g[z]
      BY <3>2, SumAdd
    <3> QED
      BY <2>1, <2>2, <3>1, <3>2
  <2>5. /\ IsFiniteSet(Image(T \cup {x}))
        /\ SumFunctionOnSet(g, Image(T \cup {x})) = SumFunctionOnSet(g, Image(T)) + g[h[x]]
    BY <2>2, <2>4, Zenon
  <2> QED
    BY <1>2, <2>3, <2>5
<1>3. S \in Good
  <2> HIDE DEF Good
  <2> QED
    BY <1>1, <1>2, AddingInduction
<1> QED
  BY <1>3

(* Summing part by part: g[a] is the sum over the elements that belong to a. *)
Belonging(S, owner, a) == {x \in S : owner[x] = a}

LEMMA SumByOwner ==
    ASSUME NEW S, IsFiniteSet(S), NEW A, IsFiniteSet(A), NEW owner, NEW f, NEW g,
           \A x \in S : owner[x] \in A /\ f[x] \in Int,
           \A a \in A : g[a] = SumFunctionOnSet(f, Belonging(S, owner, a))
    PROVE  SumFunctionOnSet(g, A) = SumFunctionOnSet(f, S)
<1> DEFINE Of(B) == {x \in S : owner[x] \in B}
           Good == {B \in SUBSET A : SumFunctionOnSet(g, B) = SumFunctionOnSet(f, Of(B))}
<1>1. {} \in Good
  <2>1. Of({}) = {}
    OBVIOUS
  <2>2. SumFunctionOnSet(f, Of({})) = 0
    <3> HIDE DEF Of
    <3> QED
      BY <2>1, SumEmpty, Zenon
  <2> HIDE DEF Of
  <2> QED
    BY <2>2, SumEmpty
<1>2. ASSUME NEW a \in A
      PROVE  g[a] \in Int
  <2>1. IsFiniteSet(Belonging(S, owner, a)) /\ Belonging(S, owner, a) \in SUBSET S
    BY FS_Subset DEF Belonging
  <2> QED
    BY <2>1, SumInt
<1>3. ASSUME NEW B \in SUBSET A, NEW a \in A \ B, B \in Good
      PROVE  B \cup {a} \in Good
  <2>1. IsFiniteSet(B) /\ IsFiniteSet(Of(B \cup {a}))
    BY FS_Subset
  <2>2. SumFunctionOnSet(g, B \cup {a}) = SumFunctionOnSet(g, B) + g[a]
    <3>1. /\ \A b \in B : g[b] \in Int
          /\ a \notin B /\ g[a] \in Int
      BY <1>2
    <3> HIDE DEF Of, Good
    <3> QED
      BY <2>1, <3>1, SumAdd
  <2>3. /\ Of(B) \in SUBSET Of(B \cup {a})
        /\ Of(B \cup {a}) \ Of(B) = Belonging(S, owner, a)
        /\ \A x \in Of(B \cup {a}) : f[x] \in Int
    BY DEF Belonging
  <2>4. SumFunctionOnSet(f, Of(B \cup {a}))
          = SumFunctionOnSet(f, Of(B)) + SumFunctionOnSet(f, Of(B \cup {a}) \ Of(B))
    <3> HIDE DEF Of
    <3> QED
      BY <2>1, <2>3, SumSplit
  <2>5. SumFunctionOnSet(f, Of(B \cup {a}) \ Of(B)) = g[a]
    <3> HIDE DEF Of
    <3> QED
      BY <2>3, Zenon
  <2> HIDE DEF Of
  <2> QED
    BY <1>3, <2>2, <2>4, <2>5
<1>4. A \in Good
  <2> HIDE DEF Good
  <2> QED
    BY <1>1, <1>3, AddingInduction
<1>5. Of(A) = S
  OBVIOUS
<1>6. SumFunctionOnSet(f, Of(A)) = SumFunctionOnSet(f, S)
  <2> HIDE DEF Of
  <2> QED
    BY <1>5, Zenon
<1> QED
  BY <1>4, <1>6

(* Changing one term of a sum.                                             *)
LEMMA SumChange ==
    ASSUME NEW S, IsFiniteSet(S), NEW f, NEW g, NEW y \in S,
           \A x \in S : f[x] \in Int /\ g[x] \in Int,
           \A x \in S : x # y => g[x] = f[x]
    PROVE  SumFunctionOnSet(g, S) = SumFunctionOnSet(f, S) - f[y] + g[y]
<1> DEFINE rest == S \ {y}
<1>1. IsFiniteSet(rest) /\ \A x \in rest : f[x] \in Int /\ g[x] = f[x]
  BY FS_Subset
<1>2. SumFunctionOnSet(g, S) = g[y] + SumFunctionOnSet(g, rest)
  BY SumRemove
<1>3. SumFunctionOnSet(f, S) = f[y] + SumFunctionOnSet(f, rest)
  BY SumRemove
<1> HIDE DEF rest
<1>4. SumFunctionOnSet(g, rest) = SumFunctionOnSet(f, rest)
  BY <1>1, SumSame
<1>5. SumFunctionOnSet(f, rest) \in Int /\ f[y] \in Int /\ g[y] \in Int
  BY <1>1, SumInt
<1> QED
  BY <1>2, <1>3, <1>4, <1>5

-----------------------------------------------------------------------------
(* The step of the inequality of Cauchy and Schwarz for a list and ones: n  *)
(* values that add up to a, whose squares add up to q, and one more.        *)
LEMMA SpreadStep ==
    ASSUME NEW n \in Nat, n > 0, NEW a \in Int, NEW q \in Int, NEW d \in Int, a * a <= n * q
    PROVE  /\ (n + 1) * (q + d * d) - (a + d) * (a + d) >= 0
           /\ (n + 1) * (q + d * d) - (a + d) * (a + d) = 0 => n * q = a * a /\ n * d = a
<1> DEFINE more == (n + 1) * (q + d * d) - (a + d) * (a + d)
           less == n * q - a * a
           gap == a - n * d
<1>1. n * more = (n + 1) * less + gap * gap
  OBVIOUS
<1>2. more \in Int /\ less \in Int /\ less >= 0 /\ gap \in Int
  OBVIOUS
<1>3. \A x \in Int : x * x >= 0 /\ (x * x = 0 => x = 0)
  OBVIOUS
<1>4. (less = 0 => n * q = a * a) /\ (gap = 0 => n * d = a)
  OBVIOUS
<1> HIDE DEF more, less, gap
<1>5. \A x, y \in Int : n * x = y => (y >= 0 => x >= 0) /\ (x = 0 => y = 0)
  OBVIOUS
<1>6. \A y \in Int : y >= 0 => (n + 1) * less + y >= 0
                           /\ ((n + 1) * less + y = 0 => less = 0 /\ y = 0)
  BY <1>2
<1>7. (n + 1) * less + gap * gap \in Int
  BY <1>2
<1>8. more >= 0 /\ (more = 0 => less = 0 /\ gap = 0)
  BY <1>1, <1>2, <1>3, <1>5, <1>6, <1>7
<1> QED
  BY <1>4, <1>8 DEF more

(* The square of a sum is at most so many times the sum of the squares, and *)
(* as much only if every value is the mean.                                 *)
LEMMA SumOfSquares ==
    ASSUME NEW S, IsFiniteSet(S), NEW f, NEW g, \A x \in S : f[x] \in Int /\ g[x] = f[x] * f[x]
    PROVE  LET n == Cardinality(S)
               a == SumFunctionOnSet(f, S)
               q == SumFunctionOnSet(g, S)
           IN /\ a * a <= n * q
              /\ n * q = a * a => \A x \in S : n * f[x] = a
<1> DEFINE size(T) == Cardinality(T)
           a(T) == SumFunctionOnSet(f, T)
           q(T) == SumFunctionOnSet(g, T)
           Fine(T) == /\ a(T) * a(T) <= size(T) * q(T)
                      /\ size(T) * q(T) = a(T) * a(T) => \A x \in T : size(T) * f[x] = a(T)
           Good == {T \in SUBSET S : Fine(T)}
<1>1. {} \in Good
  BY SumEmpty, FS_EmptySet
<1>2. ASSUME NEW T \in SUBSET S, NEW y \in S \ T, T \in Good
      PROVE  T \cup {y} \in Good
  <2> DEFINE U == T \cup {y}
  <2>1. IsFiniteSet(T) /\ IsFiniteSet(U)
    BY FS_Subset
  <2>2. /\ f[y] \in Int /\ g[y] = f[y] * f[y] /\ g[y] \in Int
        /\ \A x \in T : f[x] \in Int /\ g[x] \in Int
    OBVIOUS
  <2>3. a(U) = a(T) + f[y] /\ q(U) = q(T) + g[y]
    BY <2>1, <2>2, SumAdd
  <2>4. a(T) \in Int /\ q(T) \in Int
    BY <2>1, <2>2, SumInt
  <2>5. size(U) = size(T) + 1 /\ size(T) \in Nat /\ (size(T) = 0 <=> T = {})
    BY <2>1, FS_AddElement, FS_CardinalityType, FS_EmptySet
  <2> HIDE DEF size, a, q
  <2>6. Fine(T) /\ U \in SUBSET S
    BY <1>2
  <2>7. CASE T = {}
    <3>1. a(T) = 0 /\ q(T) = 0 /\ size(U) = 1 /\ U = {y}
      BY <2>5, <2>7, SumEmpty DEF a, q
    <3>2. a(U) = f[y] /\ q(U) = f[y] * f[y] /\ size(U) = 1
      BY <2>2, <2>3, <3>1
    <3> HIDE DEF U
    <3>3. \A z \in Int : z * z <= 1 * (z * z) /\ 1 * z = z
      OBVIOUS
    <3>4. Fine(U)
      BY <2>2, <3>1, <3>2, <3>3
    <3> QED
      BY <2>6, <3>4 DEF U
  <2>8. CASE T # {}
    <3> DEFINE n == size(T)
               m == a(T)
               r == q(T)
               d == f[y]
               more == (n + 1) * (r + d * d) - (m + d) * (m + d)
    <3>1. /\ n > 0 /\ n \in Nat /\ m \in Int /\ r \in Int /\ d \in Int /\ m * m <= n * r
          /\ size(U) = n + 1 /\ a(U) = m + d /\ q(U) = r + d * d
          /\ n * r = m * m => \A x \in T : n * f[x] = m
      BY <2>2, <2>3, <2>4, <2>5, <2>6, <2>8
    <3> HIDE DEF n, m, r, d
    <3>2. more >= 0 /\ (more = 0 => n * r = m * m /\ n * d = m)
      BY <3>1, SpreadStep
    <3>3. /\ a(U) * a(U) = (m + d) * (m + d) /\ size(U) * q(U) = (n + 1) * (r + d * d)
          /\ (m + d) * (m + d) \in Int /\ (n + 1) * (r + d * d) \in Int
      BY <3>1
    <3>4. a(U) * a(U) <= size(U) * q(U) /\ (size(U) * q(U) = a(U) * a(U) => more = 0)
      BY <3>2, <3>3
    <3> HIDE DEF more
    <3>5. ASSUME size(U) * q(U) = a(U) * a(U), NEW x \in U
          PROVE  size(U) * f[x] = a(U)
      <4>1. n * r = m * m /\ n * d = m
        BY <3>2, <3>4, <3>5
      <4>2. f[x] \in Int /\ n * f[x] = m
        BY <2>2, <3>1, <4>1 DEF d
      <4>3. \A v, w \in Int : n * v = n * w => v = w
        <5>1. \A v, w \in Int : n * (v - w) = n * v - n * w
          BY <3>1
        <5>2. \A v \in Int : n * v = 0 => v = 0
          BY <3>1
        <5> QED
          BY <3>1, <5>1, <5>2
      <4>4. f[x] = d
        BY <3>1, <4>1, <4>2, <4>3
      <4>5. (n + 1) * d = n * d + d
        BY <3>1
      <4> QED
        BY <3>1, <4>1, <4>4, <4>5
    <3>6. Fine(U)
      BY <3>4, <3>5
    <3> QED
      BY <2>6, <3>6
  <2> QED
    BY <2>7, <2>8
<1>3. S \in Good
  <2> HIDE DEF Good
  <2> QED
    BY <1>1, <1>2, AddingInduction
<1> QED
  BY <1>3

(* Values that are all the same.                                            *)
LEMMA SumOfSame ==
    ASSUME NEW S, IsFiniteSet(S), NEW f, NEW c \in Int, \A x \in S : f[x] = c
    PROVE  SumFunctionOnSet(f, S) = c * Cardinality(S)
<1> DEFINE one == [x \in S |-> 1]
<1>1. \A x \in S : one[x] = 1 /\ one[x] \in Int
  OBVIOUS
<1>2. \A x \in S : f[x] = c * one[x]
  OBVIOUS
<1> HIDE DEF one
<1>3. SumFunctionOnSet(one, S) = Cardinality(S)
  BY <1>1, SumOfOnes
<1>4. SumFunctionOnSet(f, S) = c * SumFunctionOnSet(one, S)
  BY <1>1, <1>2, SumTimes
<1> QED
  BY <1>3, <1>4

(* Natural values that add up to nothing are nothing.                       *)
LEMMA SumZero ==
    ASSUME NEW S, IsFiniteSet(S), NEW f, \A x \in S : f[x] \in Nat
    PROVE  SumFunctionOnSet(f, S) = 0 <=> \A x \in S : f[x] = 0
<1>1. ASSUME SumFunctionOnSet(f, S) = 0, NEW x \in S PROVE f[x] = 0
  BY <1>1, SumMember
<1>2. ASSUME \A x \in S : f[x] = 0 PROVE SumFunctionOnSet(f, S) = 0
  <2>1. SumFunctionOnSet(f, S) = 0 * SumFunctionOnSet(f, S)
    BY <1>2, SumTimes
  <2>2. SumFunctionOnSet(f, S) \in Int
    BY SumInt
  <2> QED
    BY <2>1, <2>2
<1> QED
  BY <1>1, <1>2

(* Values between two bounds add up to between so many times the bounds.    *)
LEMMA SumBetween ==
    ASSUME NEW S, IsFiniteSet(S), NEW f, NEW lo \in Int, NEW hi \in Int,
           \A x \in S : f[x] \in Int /\ lo <= f[x] /\ f[x] <= hi
    PROVE  /\ Cardinality(S) * lo <= SumFunctionOnSet(f, S)
           /\ SumFunctionOnSet(f, S) <= Cardinality(S) * hi
<1> DEFINE Good == {T \in SUBSET S : /\ Cardinality(T) * lo <= SumFunctionOnSet(f, T)
                                     /\ SumFunctionOnSet(f, T) <= Cardinality(T) * hi}
<1>1. {} \in Good
  BY SumEmpty, FS_EmptySet
<1>2. ASSUME NEW T \in SUBSET S, NEW y \in S \ T, T \in Good
      PROVE  T \cup {y} \in Good
  <2> DEFINE n == Cardinality(T)
             a == SumFunctionOnSet(f, T)
             m == Cardinality(T \cup {y})
             b == SumFunctionOnSet(f, T \cup {y})
             d == f[y]
  <2>1. IsFiniteSet(T)
    BY FS_Subset
  <2>2. m = n + 1 /\ n \in Nat
    BY <2>1, FS_AddElement, FS_CardinalityType
  <2>3. d \in Int /\ lo <= d /\ d <= hi /\ \A x \in T : f[x] \in Int
    OBVIOUS
  <2>4. b = a + d /\ a \in Int
    BY <2>1, <2>3, SumAdd, SumInt
  <2>5. n * lo <= a /\ a <= n * hi
    BY <1>2
  <2> HIDE DEF n, a, m, b, d
  <2>6. (n + 1) * lo = n * lo + lo /\ (n + 1) * hi = n * hi + hi
        /\ n * lo \in Int /\ n * hi \in Int
    BY <2>2
  <2>7. m * lo <= b /\ b <= m * hi
    BY <2>2, <2>3, <2>4, <2>5, <2>6
  <2> QED
    BY <2>7 DEF m, b
<1>3. S \in Good
  <2> HIDE DEF Good
  <2> QED
    BY <1>1, <1>2, AddingInduction
<1> QED
  BY <1>3

(* A finite set of integers, unless empty, has a least and a greatest.      *)
LEMMA ExtremesExist ==
    ASSUME NEW S, IsFiniteSet(S), S # {}, \A x \in S : x \in Int
    PROVE  /\ \E x \in S : \A y \in S : x <= y
           /\ \E x \in S : \A y \in S : x >= y
<1> DEFINE Fine(T) == /\ \E x \in T : \A y \in T : x <= y
                      /\ \E x \in T : \A y \in T : x >= y
           Good == {T \in SUBSET S : T # {} => Fine(T)}
<1>1. {} \in Good
  OBVIOUS
<1>2. ASSUME NEW T \in SUBSET S, NEW z \in S \ T, T \in Good
      PROVE  T \cup {z} \in Good
  <2>1. CASE T = {}
    <3>1. Fine({z})
      OBVIOUS
    <3> QED
      BY <2>1, <3>1
  <2>2. CASE T # {}
    <3>1. PICK lo \in T : \A y \in T : lo <= y
      BY <1>2, <2>2
    <3>2. PICK hi \in T : \A y \in T : hi >= y
      BY <1>2, <2>2
    <3>3. \E x \in T \cup {z} : \A y \in T \cup {z} : x <= y
      <4>1. CASE lo <= z
        BY <3>1, <4>1
      <4>2. CASE ~(lo <= z)
        <5>1. \A y \in T \cup {z} : z <= y
          BY <3>1, <4>2
        <5> QED
          BY <5>1
      <4> QED
        BY <4>1, <4>2
    <3>4. \E x \in T \cup {z} : \A y \in T \cup {z} : x >= y
      <4>1. CASE hi >= z
        BY <3>2, <4>1
      <4>2. CASE ~(hi >= z)
        <5>1. \A y \in T \cup {z} : z >= y
          BY <3>2, <4>2
        <5> QED
          BY <5>1
      <4> QED
        BY <4>1, <4>2
    <3> QED
      BY <3>3, <3>4
  <2> QED
    BY <2>1, <2>2
<1>3. S \in Good
  <2> HIDE DEF Good
  <2> QED
    BY <1>1, <1>2, AddingInduction
<1> QED
  BY <1>3
=============================================================================
