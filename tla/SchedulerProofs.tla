-------------------------- MODULE SchedulerProofs --------------------------
(***************************************************************************)
(* The two bounds of Scheduler for any number of paths, any weights and    *)
(* round-trip times.                                                       *)
(*                                                                         *)
(* What makes them inductive is a bound on the credit of every SET of      *)
(* paths (SubsetsBounded): choosing the path of highest credit can make    *)
(* one path owe or own more only at the expense of the sets around it.     *)
(* The first part proves what is needed of sums over a finite set.         *)
(***************************************************************************)
EXTENDS Scheduler, FiniteSetTheorems, WellFoundedInduction, TLAPS

(* A set of naturals that has a member has a least one. *)
LEMMA LeastMember ==
  ASSUME NEW S, S \subseteq Nat, S # {}
  PROVE  \E m \in S : \A k \in S : m <= k
<1> DEFINE R == OpToRel(<, Nat)
<1>1. IsWellFoundedOn(R, Nat)
  BY NatLessThanWellFounded
<1>2. \A x, y \in Nat : <<x, y>> \in R <=> x < y
  BY DEF OpToRel
<1> HIDE DEF R
<1>3. PICK m \in S : \A k \in S : ~ (<<k, m>> \in R)
  BY <1>1, WFMin
<1>4. ASSUME NEW k \in S PROVE m <= k
  <2>1. m \in Nat /\ k \in Nat
    OBVIOUS
  <2>2. ~ (k < m)
    BY <1>2, <1>3, <2>1
  <2> QED BY <2>1, <2>2
<1> QED BY <1>4

(* Induction over the subsets of a finite set: what holds of a set if it    *)
(* holds of the set without any one of its members holds of every subset.   *)
LEMMA SubsetInduction ==
  ASSUME NEW S, IsFiniteSet(S), NEW G,
         {} \in G,
         \A A \in SUBSET S : A # {} /\ (\A x \in A : A \ {x} \in G) => A \in G
  PROVE  SUBSET S \subseteq G
<1> DEFINE Sizes == {n \in Nat : \E A \in SUBSET S : Cardinality(A) = n /\ A \notin G}
<1> SUFFICES ASSUME NEW B \in SUBSET S, B \notin G PROVE FALSE
  OBVIOUS
<1>1. \A A \in SUBSET S : IsFiniteSet(A) /\ Cardinality(A) \in Nat
  BY FS_Subset, FS_CardinalityType
<1>3. Sizes \subseteq Nat /\ Cardinality(B) \in Sizes
  BY <1>1
<1>4. PICK n \in Sizes : \A k \in Sizes : n <= k
  <2> HIDE DEF Sizes
  <2> QED BY <1>3, LeastMember
<1>5. PICK A \in SUBSET S : Cardinality(A) = n /\ A \notin G
  OBVIOUS
<1>6. PICK x \in A : A \ {x} \notin G
  BY <1>5
<1>7. Cardinality(A \ {x}) = n - 1 /\ n - 1 \in Nat
  BY <1>1, <1>5, FS_RemoveElement
<1>8. n - 1 \in Sizes
  BY <1>6, <1>7
<1> HIDE DEF Sizes
<1> QED BY <1>3, <1>4, <1>7, <1>8

-----------------------------------------------------------------------------
Chosen(A) == CHOOSE x \in A : TRUE

(* The recursive definition that a sum of the community modules stands for. *)
Partial(g, f, A) == IF A = {} THEN 0 ELSE f[Chosen(A)] + g[A \ {Chosen(A)}]

Recursion(g, f, S) == [A \in SUBSET S |-> Partial(g, f, A)]

LEMMA SumIsRecursive ==
  ASSUME NEW f, NEW S
  PROVE  SumFunctionOnSet(f, S) = (CHOOSE g : g = Recursion(g, f, S))[S]
  BY DEF SumFunctionOnSet, FoldFunctionOnSet, MapThenFoldSet, Recursion, Partial, Chosen

LEMMA ChosenIsMember == \A A : A # {} => Chosen(A) \in A
  BY DEF Chosen

(* There is such a function: it is built up from the smaller sets.          *)
LEMMA RecursionExists ==
  ASSUME NEW S, IsFiniteSet(S), NEW f, \A x \in S : f[x] \in Int
  PROVE  \E g \in [SUBSET S -> Int] : g = Recursion(g, f, S)
<1> DEFINE Upto(n) == \E g \in [SUBSET S -> Int] : \A A \in SUBSET S :
                          Cardinality(A) <= n => g[A] = Partial(g, f, A)
           Missing == {n \in Nat : ~ Upto(n)}
<1>1. \A A \in SUBSET S : IsFiniteSet(A) /\ Cardinality(A) \in Nat /\ Cardinality(A) <= Cardinality(S)
  BY FS_Subset, FS_CardinalityType
<1>2. Upto(0)
  <2> DEFINE g == [A \in SUBSET S |-> 0]
  <2>1. g \in [SUBSET S -> Int]
    OBVIOUS
  <2>2. \A A \in SUBSET S : Cardinality(A) <= 0 => A = {}
    BY <1>1, FS_EmptySet
  <2> QED BY <2>1, <2>2 DEF Partial
<1>3. ASSUME NEW n \in Nat, Upto(n) PROVE Upto(n + 1)
  <2>1. PICK g \in [SUBSET S -> Int] : \A A \in SUBSET S :
            Cardinality(A) <= n => g[A] = Partial(g, f, A)
    BY <1>3
  <2> DEFINE h == [A \in SUBSET S |-> IF Cardinality(A) <= n THEN g[A] ELSE Partial(g, f, A)]
  <2>2. \A A \in SUBSET S : Partial(g, f, A) \in Int
    BY ChosenIsMember DEF Partial
  <2>3. h \in [SUBSET S -> Int]
    BY <2>2
  <2>4. ASSUME NEW A \in SUBSET S, Cardinality(A) <= n + 1 PROVE h[A] = Partial(h, f, A)
    <3>1. CASE A = {}
      <4>1. Cardinality(A) <= n
        BY <3>1, FS_EmptySet
      <4> QED BY <2>1, <3>1, <4>1 DEF Partial
    <3>2. CASE A # {}
      <4> DEFINE x == Chosen(A)
      <4>1. x \in A
        BY <3>2, ChosenIsMember
      <4>2. Cardinality(A \ {x}) = Cardinality(A) - 1
        BY <1>1, <4>1, FS_RemoveElement
      <4>3. A \ {x} \in SUBSET S /\ Cardinality(A \ {x}) <= n
        BY <1>1, <2>4, <4>2
      <4>4. h[A \ {x}] = g[A \ {x}]
        BY <4>3
      <4>5. h[A] = Partial(g, f, A)
        BY <2>1
      <4> QED BY <3>2, <4>4, <4>5 DEF Partial
    <3> QED BY <3>1, <3>2
  <2> HIDE DEF h
  <2> QED BY <2>3, <2>4
<1> HIDE DEF Upto
<1>4. Upto(Cardinality(S))
  <2> SUFFICES ASSUME ~ Upto(Cardinality(S)) PROVE FALSE
    OBVIOUS
  <2>1. Missing \subseteq Nat /\ Cardinality(S) \in Missing
    BY <1>1, FS_CardinalityType
  <2>3. PICK n \in Missing : \A k \in Missing : n <= k
    <3> HIDE DEF Missing
    <3> QED BY <2>1, LeastMember
  <2>4. n # 0 /\ n - 1 \in Nat /\ n - 1 < n
    BY <1>2
  <2>5. Upto(n - 1)
    BY <2>3, <2>4
  <2> QED BY <1>3, <2>4, <2>5
<1>5. PICK g \in [SUBSET S -> Int] : \A A \in SUBSET S :
          Cardinality(A) <= Cardinality(S) => g[A] = Partial(g, f, A)
  BY <1>4 DEF Upto
<1>6. \A A \in SUBSET S : g[A] = Partial(g, f, A)
  BY <1>1, <1>5
<1>7. g = [A \in SUBSET S |-> g[A]]
  OBVIOUS
<1> QED BY <1>6, <1>7 DEF Recursion

(* The recursion determines its function.                                   *)
LEMMA RecursionUnique ==
  ASSUME NEW S, IsFiniteSet(S), NEW T \in SUBSET S, NEW f, NEW g, NEW h,
         g = Recursion(g, f, S), h = Recursion(h, f, T)
  PROVE  \A A \in SUBSET T : h[A] = g[A]
<1> DEFINE Agreed == {A \in SUBSET T : h[A] = g[A]}
<1>1. ASSUME NEW A \in SUBSET T PROVE h[A] = Partial(h, f, A) /\ g[A] = Partial(g, f, A)
  <2>1. Recursion(h, f, T)[A] = Partial(h, f, A) /\ Recursion(g, f, S)[A] = Partial(g, f, A)
    BY DEF Recursion
  <2> QED BY <2>1
<1>2. {} \in Agreed
  BY <1>1 DEF Partial
<1>3. ASSUME NEW A \in SUBSET T, A # {}, \A x \in A : A \ {x} \in Agreed PROVE A \in Agreed
  BY <1>1, <1>3, ChosenIsMember DEF Partial
<1>4. IsFiniteSet(T)
  BY FS_Subset
<1> HIDE DEF Agreed
<1>5. SUBSET T \subseteq Agreed
  BY <1>2, <1>3, <1>4, SubsetInduction
<1> QED BY <1>5 DEF Agreed

Numeric(f, S) == IsFiniteSet(S) /\ \A x \in S : f[x] \in Int

LEMMA SumUnfolds ==
  ASSUME NEW S, NEW f, Numeric(f, S)
  PROVE  /\ SumFunctionOnSet(f, S) \in Int
         /\ SumFunctionOnSet(f, {}) = 0
         /\ S # {} => SumFunctionOnSet(f, S) = f[Chosen(S)] + SumFunctionOnSet(f, S \ {Chosen(S)})
<1> DEFINE Of(T) == CHOOSE g : g = Recursion(g, f, T)
<1>1. ASSUME NEW T \in SUBSET S
      PROVE  Of(T) = Recursion(Of(T), f, T) /\ SumFunctionOnSet(f, T) = Of(T)[T]
                /\ Of(T)[T] \in Int
  <2>1. IsFiniteSet(T)
    BY FS_Subset DEF Numeric
  <2>2. PICK g \in [SUBSET T -> Int] : g = Recursion(g, f, T)
    BY <2>1, RecursionExists DEF Numeric
  <2>3. Of(T) = Recursion(Of(T), f, T)
    BY <2>2
  <2>4. SumFunctionOnSet(f, T) = Of(T)[T]
    BY SumIsRecursive
  <2> HIDE DEF Of
  <2>5. \A A \in SUBSET T : Of(T)[A] = g[A]
    <3>1. T \in SUBSET T
      OBVIOUS
    <3> QED BY ONLY <2>1, <2>2, <2>3, <3>1, RecursionUnique
  <2>6. T \in SUBSET T
    OBVIOUS
  <2>7. Of(T)[T] = g[T]
    BY <2>5, <2>6
  <2>8. g[T] \in Int
    BY <2>2, <2>6
  <2> QED BY <2>3, <2>4, <2>7, <2>8
<1> HIDE DEF Of
<1>2. ASSUME NEW T \in SUBSET S PROVE Of(T)[T] = Of(S)[T]
  BY <1>1, RecursionUnique DEF Numeric
<1>3. ASSUME NEW T \in SUBSET S PROVE Of(S)[T] = Partial(Of(S), f, T)
  <2>1. Recursion(Of(S), f, S)[T] = Partial(Of(S), f, T)
    BY DEF Recursion
  <2> QED BY <1>1, <2>1
<1>4. SumFunctionOnSet(f, {}) = 0
  BY <1>1, <1>2, <1>3 DEF Partial
<1>5. ASSUME S # {}
      PROVE SumFunctionOnSet(f, S) = f[Chosen(S)] + SumFunctionOnSet(f, S \ {Chosen(S)})
  <2>1. S \ {Chosen(S)} \in SUBSET S
    OBVIOUS
  <2> QED BY <1>1, <1>2, <1>3, <1>5, <2>1 DEF Partial
<1> QED BY <1>1, <1>4, <1>5

(* Any member can be taken out of the sum first.                            *)
LEMMA SumRemove ==
  ASSUME NEW S, NEW f, Numeric(f, S), NEW x \in S
  PROVE  SumFunctionOnSet(f, S) = f[x] + SumFunctionOnSet(f, S \ {x})
<1> DEFINE Sum(T) == SumFunctionOnSet(f, T)
           Free == {A \in SUBSET S : \A y \in A : Sum(A) = f[y] + Sum(A \ {y})}
<1>1. ASSUME NEW A \in SUBSET S
      PROVE Numeric(f, A) /\ Sum(A) \in Int /\ (A # {} => Sum(A) = f[Chosen(A)] + Sum(A \ {Chosen(A)}))
  <2>1. Numeric(f, A)
    BY FS_Subset DEF Numeric
  <2> QED BY <2>1, SumUnfolds
<1> HIDE DEF Sum
<1>2. {} \in Free
  OBVIOUS
<1>3. ASSUME NEW A \in SUBSET S, A # {}, \A y \in A : A \ {y} \in Free PROVE A \in Free
  <2> SUFFICES ASSUME NEW y \in A PROVE Sum(A) = f[y] + Sum(A \ {y})
    OBVIOUS
  <2> DEFINE z == Chosen(A)
  <2>1. z \in A
    BY ChosenIsMember
  <2>2. Sum(A) = f[z] + Sum(A \ {z})
    BY <1>1, <1>3
  <2>3. CASE y = z
    BY <2>2, <2>3
  <2>4. CASE y # z
    <3>1. Sum(A \ {z}) = f[y] + Sum((A \ {z}) \ {y})
      BY <1>3, <2>1, <2>4
    <3>2. Sum(A \ {y}) = f[z] + Sum((A \ {z}) \ {y})
      <4>1. (A \ {z}) \ {y} = (A \ {y}) \ {z}
        OBVIOUS
      <4>2. Sum(A \ {y}) = f[z] + Sum((A \ {y}) \ {z})
        BY <1>3, <2>1, <2>4
      <4> QED BY <4>1, <4>2
    <3>3. f[y] \in Int /\ f[z] \in Int /\ Sum((A \ {z}) \ {y}) \in Int
      <4>1. (A \ {z}) \ {y} \in SUBSET S
        OBVIOUS
      <4> QED BY <1>1, <2>1, <4>1 DEF Numeric
    <3> HIDE DEF z
    <3> QED BY <2>2, <3>1, <3>2, <3>3
  <2> QED BY <2>3, <2>4
<1> HIDE DEF Free
<1>4. SUBSET S \subseteq Free
  BY <1>2, <1>3, SubsetInduction DEF Numeric
<1>5. \A y \in S : Sum(S) = f[y] + Sum(S \ {y})
  BY <1>4 DEF Free
<1> QED BY <1>5 DEF Sum

LEMMA NumericSubset ==
  ASSUME NEW S, NEW f, Numeric(f, S), NEW A \in SUBSET S
  PROVE  Numeric(f, A) /\ SumFunctionOnSet(f, A) \in Int /\ SumFunctionOnSet(f, {}) = 0
<1>1. Numeric(f, A)
  BY FS_Subset DEF Numeric
<1> QED BY <1>1, SumUnfolds

(* Sums of two functions, and of their sum.                                 *)
LEMMA SumOfSums ==
  ASSUME NEW S, NEW f, NEW g, NEW h, Numeric(f, S), Numeric(g, S),
         \A x \in S : h[x] = f[x] + g[x]
  PROVE  SumFunctionOnSet(h, S) = SumFunctionOnSet(f, S) + SumFunctionOnSet(g, S)
<1> DEFINE Sum(k, T) == SumFunctionOnSet(k, T)
           Added == {A \in SUBSET S : Sum(h, A) = Sum(f, A) + Sum(g, A)}
<1>0. Numeric(h, S)
  BY DEF Numeric
<1>1. {} \in Added
  BY <1>0, NumericSubset
<1>2. ASSUME NEW A \in SUBSET S, A # {}, \A y \in A : A \ {y} \in Added PROVE A \in Added
  <2>1. PICK y : y \in A
    BY <1>2
  <2>2. Sum(h, A \ {y}) = Sum(f, A \ {y}) + Sum(g, A \ {y})
    BY <1>2, <2>1
  <2>3. /\ Sum(f, A) = f[y] + Sum(f, A \ {y})
        /\ Sum(g, A) = g[y] + Sum(g, A \ {y})
        /\ Sum(h, A) = h[y] + Sum(h, A \ {y})
    BY <1>0, <2>1, NumericSubset, SumRemove
  <2>4. /\ Sum(f, A \ {y}) \in Int /\ Sum(g, A \ {y}) \in Int
        /\ f[y] \in Int /\ g[y] \in Int /\ h[y] = f[y] + g[y]
    <3>1. A \ {y} \in SUBSET S
      OBVIOUS
    <3> QED BY <2>1, <3>1, NumericSubset DEF Numeric
  <2> HIDE DEF Sum
  <2>5. Sum(h, A) = Sum(f, A) + Sum(g, A)
    BY <2>2, <2>3, <2>4
  <2> QED BY <2>5
<1> HIDE DEF Added
<1>3. SUBSET S \subseteq Added
  BY <1>1, <1>2, SubsetInduction DEF Numeric
<1> QED BY <1>3 DEF Added

(* The sum over a set that falls into two parts.                            *)
LEMMA SumSplits ==
  ASSUME NEW S, NEW f, Numeric(f, S), NEW B \in SUBSET S
  PROVE  SumFunctionOnSet(f, S) = SumFunctionOnSet(f, B) + SumFunctionOnSet(f, S \ B)
<1> DEFINE Sum(T) == SumFunctionOnSet(f, T)
           Split == {A \in SUBSET B : Sum(S) = Sum(A) + Sum(S \ A)}
<1>1. \A A \in SUBSET S : Sum(A) \in Int
  BY NumericSubset
<1>2. {} \in Split
  <2>1. Sum({}) = 0 /\ S \ {} = S
    BY NumericSubset
  <2> QED BY <1>1, <2>1
<1>3. ASSUME NEW A \in SUBSET B, A # {}, \A y \in A : A \ {y} \in Split PROVE A \in Split
  <2>1. PICK y : y \in A
    BY <1>3
  <2>2. Sum(S) = Sum(A \ {y}) + Sum(S \ (A \ {y}))
    BY <1>3, <2>1
  <2>3. S \ (A \ {y}) \in SUBSET S /\ y \in S \ (A \ {y}) /\ (S \ (A \ {y})) \ {y} = S \ A
    BY <2>1
  <2>4. Sum(A) = f[y] + Sum(A \ {y})
    BY <2>1, NumericSubset, SumRemove
  <2>5. Sum(S \ (A \ {y})) = f[y] + Sum(S \ A)
    <3>1. Sum(S \ (A \ {y})) = f[y] + Sum((S \ (A \ {y})) \ {y})
      BY <2>3, NumericSubset, SumRemove
    <3> QED BY <2>3, <3>1
  <2>6. Sum(A \ {y}) \in Int /\ Sum(S \ A) \in Int /\ f[y] \in Int
    <3>1. A \ {y} \in SUBSET S /\ S \ A \in SUBSET S
      OBVIOUS
    <3> QED BY <1>1, <2>1, <3>1 DEF Numeric
  <2> HIDE DEF Sum
  <2>7. Sum(S) = Sum(A) + Sum(S \ A)
    BY <2>2, <2>4, <2>5, <2>6
  <2> QED BY <2>7
<1>4. IsFiniteSet(B)
  BY FS_Subset DEF Numeric
<1> HIDE DEF Split
<1>5. SUBSET B \subseteq Split
  BY <1>2, <1>3, <1>4, SubsetInduction
<1> QED BY <1>5 DEF Split

(* A sum whose terms are at most m.                                         *)
LEMMA SumAtMost ==
  ASSUME NEW S, NEW f, Numeric(f, S), NEW m \in Int, \A x \in S : f[x] <= m
  PROVE  SumFunctionOnSet(f, S) <= Cardinality(S) * m
<1> DEFINE Sum(T) == SumFunctionOnSet(f, T)
           Low == {A \in SUBSET S : Sum(A) <= Cardinality(A) * m}
<1>1. \A A \in SUBSET S : Sum(A) \in Int /\ IsFiniteSet(A) /\ Cardinality(A) \in Nat
  BY NumericSubset, FS_CardinalityType DEF Numeric
<1>2. {} \in Low
  BY NumericSubset, FS_EmptySet
<1>3. ASSUME NEW A \in SUBSET S, A # {}, \A y \in A : A \ {y} \in Low PROVE A \in Low
  <2>1. PICK y : y \in A
    BY <1>3
  <2>2. Sum(A \ {y}) <= Cardinality(A \ {y}) * m
    BY <1>3, <2>1
  <2>3. Sum(A) = f[y] + Sum(A \ {y})
    BY <2>1, NumericSubset, SumRemove
  <2>4. Cardinality(A \ {y}) = Cardinality(A) - 1
    BY <1>1, <2>1, FS_RemoveElement
  <2>5. Sum(A \ {y}) \in Int /\ f[y] \in Int /\ f[y] <= m
    <3>1. A \ {y} \in SUBSET S
      OBVIOUS
    <3> QED BY <1>1, <2>1, <3>1 DEF Numeric
  <2>6. (Cardinality(A) - 1) * m + m = Cardinality(A) * m
    BY <1>1
  <2> HIDE DEF Sum
  <2>7. Sum(A) <= Cardinality(A) * m
    BY <1>1, <2>2, <2>3, <2>4, <2>5, <2>6
  <2> QED BY <2>7
<1> HIDE DEF Low
<1>4. SUBSET S \subseteq Low
  BY <1>2, <1>3, SubsetInduction DEF Numeric
<1> QED BY <1>4 DEF Low

LEMMA SumOfZeros ==
  ASSUME NEW S, NEW f, IsFiniteSet(S), \A x \in S : f[x] = 0
  PROVE  SumFunctionOnSet(f, S) = 0
<1>1. Numeric(f, S) /\ SumFunctionOnSet(f, S) \in Int
  BY NumericSubset DEF Numeric
<1>2. SumFunctionOnSet(f, S) = SumFunctionOnSet(f, S) + SumFunctionOnSet(f, S)
  BY <1>1, SumOfSums
<1>3. \A n \in Int : n = n + n => n = 0
  OBVIOUS
<1> QED BY ONLY <1>1, <1>2, <1>3

LEMMA SumOfEquals ==
  ASSUME NEW S, NEW f, NEW g, Numeric(f, S), \A x \in S : g[x] = f[x]
  PROVE  SumFunctionOnSet(g, S) = SumFunctionOnSet(f, S)
<1> DEFINE zero == [x \in S |-> 0]
<1>1. Numeric(zero, S) /\ SumFunctionOnSet(zero, S) = 0
  BY SumOfZeros DEF Numeric
<1>2. \A x \in S : g[x] = f[x] + zero[x]
  BY DEF Numeric
<1> HIDE DEF zero
<1>3. SumFunctionOnSet(g, S) = SumFunctionOnSet(f, S) + SumFunctionOnSet(zero, S)
  BY <1>1, <1>2, SumOfSums
<1> QED BY <1>1, <1>3, NumericSubset

(* A sum whose terms are all smaller is smaller.                            *)
LEMMA SumOrdered ==
  ASSUME NEW S, NEW f, NEW g, Numeric(f, S), Numeric(g, S), \A x \in S : f[x] <= g[x]
  PROVE  SumFunctionOnSet(f, S) <= SumFunctionOnSet(g, S)
<1> DEFINE rest == [x \in S |-> f[x] - g[x]]
<1>1. Numeric(rest, S) /\ \A x \in S : rest[x] <= 0
  BY DEF Numeric
<1>2. \A x \in S : f[x] = g[x] + rest[x]
  BY DEF Numeric
<1> HIDE DEF rest
<1>3. SumFunctionOnSet(f, S) = SumFunctionOnSet(g, S) + SumFunctionOnSet(rest, S)
  BY <1>1, <1>2, SumOfSums
<1>4. SumFunctionOnSet(rest, S) <= Cardinality(S) * 0
  BY <1>1, SumAtMost
<1>5. Cardinality(S) * 0 = 0
  BY FS_CardinalityType DEF Numeric
<1> QED BY <1>1, <1>3, <1>4, <1>5, NumericSubset

(* A part of a sum without negative terms is at most the sum.               *)
LEMMA SumOfPart ==
  ASSUME NEW S, NEW f, Numeric(f, S), \A x \in S : 0 <= f[x], NEW A \in SUBSET S
  PROVE  /\ 0 <= SumFunctionOnSet(f, A)
         /\ SumFunctionOnSet(f, A) <= SumFunctionOnSet(f, S)
<1>1. ASSUME NEW B \in SUBSET S PROVE 0 <= SumFunctionOnSet(f, B)
  <2> DEFINE zero == [x \in B |-> 0]
  <2>1. Numeric(f, B) /\ Numeric(zero, B) /\ SumFunctionOnSet(zero, B) = 0
    BY NumericSubset, SumOfZeros DEF Numeric
  <2>2. \A x \in B : zero[x] <= f[x]
    OBVIOUS
  <2> HIDE DEF zero
  <2> QED BY <2>1, <2>2, SumOrdered
<1>2. SumFunctionOnSet(f, S) = SumFunctionOnSet(f, A) + SumFunctionOnSet(f, S \ A)
  BY SumSplits
<1>3. S \ A \in SUBSET S
  OBVIOUS
<1> QED BY <1>1, <1>2, <1>3, NumericSubset

-----------------------------------------------------------------------------
(* The scheduler *)

Types ==
    /\ current \in [Paths -> Int] /\ healthy \subseteq Paths /\ rtt \in [Paths -> Nat]
    /\ watched \in Paths /\ waited \in Nat /\ calls \in Nat /\ served \in Nat

Number == Cardinality(Paths)

Sum(f, S) == SumFunctionOnSet(f, S)

(* Twice what k paths together owe or own at most.                          *)
Room(k) == FullTotal * (k * (2 * Number - k - 1))

SubsetsBounded ==
    \A S \in SUBSET Paths : -Room(Cardinality(S)) <= 2 * Sum(current, S)
                               /\ 2 * Sum(current, S) <= Room(Cardinality(S))

(* What the watched path was served beyond its share, it owes.              *)
Excess == served * Total(healthy) - calls * EffectiveWeight[watched]

SharesPaid ==
    watched \in healthy =>
        -MostCredit <= Excess + current[watched] /\ Excess + current[watched] <= MostCredit

(* The watched path has gained its weight in each call it waited.           *)
WaitPaid ==
    /\ waited * LeastWeight(watched) <= MostCredit + current[watched]
    /\ watched \notin healthy => waited = 0

IInv == Types /\ SubsetsBounded /\ SharesPaid /\ WaitPaid

(* Sums over paths, as a first-order fact about the scheduler's sets.       *)
LEMMA PathSets ==
  ASSUME NEW S \in SUBSET Paths
  PROVE  /\ IsFiniteSet(S) /\ Cardinality(S) \in Nat /\ Cardinality(S) <= Number
         /\ Number \in Nat
         /\ \A f \in [Paths -> Int] : Numeric(f, S) /\ Sum(f, S) \in Int
<1>1. IsFiniteSet(S) /\ Cardinality(S) \in Nat /\ Cardinality(S) <= Number /\ Number \in Nat
  BY SchedulerAssumption, FS_Subset, FS_CardinalityType DEF Number
<1>2. ASSUME NEW f \in [Paths -> Int] PROVE Numeric(f, S) /\ Sum(f, S) \in Int
  <2>1. Numeric(f, S)
    BY <1>1 DEF Numeric
  <2> QED BY <2>1, NumericSubset DEF Sum
<1> QED BY <1>1, <1>2

(* effectiveWeight: the penalty takes a fifth of the weight at most.        *)
LEMMA Weights ==
  ASSUME rtt \in [Paths -> Nat]
  PROVE  /\ EffectiveWeight \in [Paths -> Nat] /\ FullWeight \in [Paths -> Nat]
         /\ EffectiveWeight \in [Paths -> Int] /\ FullWeight \in [Paths -> Int]
         /\ \A p \in Paths : /\ LeastWeight(p) \in Nat
                             /\ LeastWeight(p) <= EffectiveWeight[p]
                             /\ EffectiveWeight[p] <= FullWeight[p]
<1>1. ASSUME NEW p \in Paths
      PROVE  /\ LeastWeight(p) \in Nat /\ EffectiveWeight[p] \in Nat /\ FullWeight[p] \in Nat
             /\ LeastWeight(p) <= EffectiveWeight[p] /\ EffectiveWeight[p] <= FullWeight[p]
  <2> DEFINE c == Configured(p)
             m == Penalty(rtt[p])
  <2>1. c \in Nat
    BY SchedulerAssumption DEF Configured
  <2>2. m \in Nat /\ m <= RTTLevels /\ RTTLevels \in Nat
    BY SchedulerAssumption DEF Penalty
  <2>3. /\ LeastWeight(p) = c * (4 * RTTLevels)
        /\ FullWeight[p] = c * (5 * RTTLevels)
        /\ EffectiveWeight[p] = c * (5 * RTTLevels - m)
    BY <2>1, <2>2 DEF LeastWeight, FullWeight, EffectiveWeight
  <2> HIDE DEF c, m
  <2>4. 5 * RTTLevels - m \in Nat /\ c * (5 * RTTLevels - m) = c * (5 * RTTLevels) - c * m
    BY <2>1, <2>2
  <2>5. c * m \in Nat /\ c * RTTLevels \in Nat
    BY <2>1, <2>2
  <2>6. c * m <= c * RTTLevels
    <3>1. RTTLevels - m \in Nat /\ c * (RTTLevels - m) = c * RTTLevels - c * m
      BY <2>1, <2>2
    <3>2. c * (RTTLevels - m) >= 0
      BY <2>1, <3>1
    <3> QED BY <2>5, <3>1, <3>2
  <2>7. c * (4 * RTTLevels) = 4 * (c * RTTLevels) /\ c * (5 * RTTLevels) = 5 * (c * RTTLevels)
    BY <2>1, <2>2
  <2>8. c * (5 * RTTLevels - m) \in Nat /\ c * (5 * RTTLevels) \in Nat /\ c * (4 * RTTLevels) \in Nat
    BY <2>4, <2>5, <2>6, <2>7
  <2> QED BY <2>3, <2>4, <2>5, <2>6, <2>7, <2>8
<1> QED BY <1>1 DEF EffectiveWeight, FullWeight

LEMMA Totals ==
  ASSUME rtt \in [Paths -> Nat], NEW S \in SUBSET Paths, NEW T \in SUBSET S
  PROVE  /\ Total(S) = Sum(EffectiveWeight, S)
         /\ {Total(S), Total(T), FullTotal} \subseteq Nat
         /\ Total(T) <= Total(S) /\ Total(S) <= FullTotal
<1>1. Numeric(EffectiveWeight, Paths) /\ Numeric(FullWeight, Paths) /\ Numeric(EffectiveWeight, S)
  BY Weights, PathSets
<1>2. \A p \in Paths : 0 <= EffectiveWeight[p] /\ EffectiveWeight[p] <= FullWeight[p]
  BY Weights
<1>3. Total(T) <= Total(S) /\ 0 <= Total(T)
  BY <1>1, <1>2, SumOfPart DEF Total
<1>4. Total(S) <= Total(Paths)
  BY <1>1, <1>2, SumOfPart DEF Total
<1>5. Total(Paths) <= FullTotal
  BY <1>1, <1>2, SumOrdered DEF Total, FullTotal
<1>6. Total(S) \in Int /\ Total(T) \in Int /\ Total(Paths) \in Int /\ FullTotal \in Int
  BY <1>1, NumericSubset DEF Total, FullTotal
<1> QED BY <1>3, <1>4, <1>5, <1>6 DEF Total, Sum

(* Room grows with the set, and vanishes for none.                          *)
LEMMA RoomGrows ==
  ASSUME NEW W \in Nat, NEW n \in Nat, NEW k \in Nat, NEW s \in Nat, k <= s, s <= n
  PROVE  W * (k * (2 * n - k - 1)) <= W * (s * (2 * n - s - 1))
<1> DEFINE a == s * (2 * n - s - 1) - k * (2 * n - k - 1)
<1>1. a = (s - k) * (2 * n - 1 - s - k)
  OBVIOUS
<1>2. a >= 0
  <2>1. CASE s = k
    BY <2>1
  <2>2. CASE s # k
    <3>1. s - k \in Nat /\ 2 * n - 1 - s - k \in Nat
      BY <2>2
    <3> HIDE DEF a
    <3> QED BY <1>1, <3>1
  <2> QED BY <2>1, <2>2
<1>3. a \in Int
  OBVIOUS
<1>4. W * (s * (2 * n - s - 1)) = W * (k * (2 * n - k - 1)) + W * a
  OBVIOUS
<1> HIDE DEF a
<1>5. W * a >= 0
  BY <1>2, <1>3
<1> QED BY <1>3, <1>4, <1>5

LEMMA RoomMonotone ==
  ASSUME rtt \in [Paths -> Nat], NEW S \in SUBSET Paths, NEW T \in SUBSET S
  PROVE  /\ Room(Cardinality(T)) \in Int /\ Room(Cardinality(S)) \in Int
         /\ 0 <= Room(Cardinality(T)) /\ Room(Cardinality(T)) <= Room(Cardinality(S))
<1>1. FullTotal \in Nat
  BY Totals
<1>2. Cardinality(T) <= Cardinality(S) /\ T \in SUBSET Paths
  BY PathSets, FS_Subset
<1>3. /\ Cardinality(T) \in Nat /\ Cardinality(S) \in Nat /\ Number \in Nat
      /\ Cardinality(S) <= Number /\ Cardinality(T) <= Number
  BY <1>2, PathSets
<1>4. Room(Cardinality(T)) <= Room(Cardinality(S))
  BY <1>1, <1>2, <1>3, RoomGrows DEF Room
<1>5. Room(0) <= Room(Cardinality(T)) /\ Room(0) = 0
  BY <1>1, <1>3, RoomGrows DEF Room
<1>6. Room(Cardinality(T)) \in Int /\ Room(Cardinality(S)) \in Int
  BY <1>1, <1>3 DEF Room
<1> QED BY <1>4, <1>5, <1>6

-----------------------------------------------------------------------------
(* One call of Next *)

(* The credit of a set of paths after the weights were added.               *)
LEMMA RaisedSum ==
  ASSUME Types, NEW S \in SUBSET Paths
  PROVE  /\ Raised \in [Paths -> Int]
         /\ Sum(Raised, S) = Sum(current, S \intersect healthy) + Total(S \intersect healthy)
<1> DEFINE A == S \intersect healthy
<1>1. EffectiveWeight \in [Paths -> Int] /\ current \in [Paths -> Int]
  BY Weights DEF Types
<1>2. Raised \in [Paths -> Int]
  BY <1>1 DEF Raised
<1>3. A \in SUBSET Paths /\ S \ A \in SUBSET Paths /\ A \in SUBSET S
  OBVIOUS
<1>4. \A x \in A : Raised[x] = current[x] + EffectiveWeight[x]
  BY DEF Raised
<1>5. Sum(Raised, A) = Sum(current, A) + Sum(EffectiveWeight, A)
  <2> HIDE DEF A
  <2> QED BY <1>1, <1>3, <1>4, PathSets, SumOfSums DEF Sum
<1>6. Sum(Raised, S \ A) = 0
  <2>1. \A x \in S \ A : Raised[x] = 0
    BY DEF Raised
  <2> HIDE DEF A
  <2> QED BY <1>3, <2>1, PathSets, SumOfZeros DEF Sum
<1>7. Sum(Raised, S) = Sum(Raised, A) + Sum(Raised, S \ A)
  <2> HIDE DEF A
  <2> QED BY <1>2, <1>3, PathSets, SumSplits DEF Sum
<1>8. Sum(Raised, A) \in Int
  BY <1>2, <1>3, PathSets
<1> QED BY <1>2, <1>5, <1>6, <1>7, <1>8 DEF Total, Sum

(* The chosen path pays for all.                                            *)
LEMMA ChargedSum ==
  ASSUME Types, NEW p \in Paths, Choose(p), NEW S \in SUBSET Paths
  PROVE  /\ current' \in [Paths -> Int]
         /\ p \notin S => Sum(current', S) = Sum(Raised, S)
         /\ p \in S => Sum(current', S) = Sum(Raised, S) - Total(healthy)
<1>1. Raised \in [Paths -> Int]
  BY RaisedSum
<1>2. Total(healthy) \in Int
  BY Totals DEF Types
<1>3. current' \in [Paths -> Int] /\ current'[p] = Raised[p] - Total(healthy)
         /\ \A q \in Paths \ {p} : current'[q] = Raised[q]
  BY <1>1, <1>2 DEF Choose, Charged
<1>4. ASSUME NEW A \in SUBSET Paths, p \notin A PROVE Sum(current', A) = Sum(Raised, A)
  <2>1. \A x \in A : current'[x] = Raised[x]
    BY <1>3, <1>4
  <2>2. Numeric(Raised, A)
    BY <1>1, PathSets
  <2> QED BY <2>1, <2>2, SumOfEquals DEF Sum
<1>5. ASSUME p \in S PROVE Sum(current', S) = Sum(Raised, S) - Total(healthy)
  <2>1. S \ {p} \in SUBSET Paths
    OBVIOUS
  <2>2. Sum(current', S \ {p}) = Sum(Raised, S \ {p})
    BY <1>4, <2>1
  <2>3. Sum(current', S) = current'[p] + Sum(current', S \ {p})
    BY <1>3, <1>5, PathSets, SumRemove DEF Sum
  <2>4. Sum(Raised, S) = Raised[p] + Sum(Raised, S \ {p})
    BY <1>1, <1>5, PathSets, SumRemove DEF Sum
  <2>5. Sum(Raised, S \ {p}) \in Int /\ Raised[p] \in Int
    BY <1>1, <2>1, PathSets
  <2> QED BY <1>2, <1>3, <2>2, <2>3, <2>4, <2>5
<1> QED BY <1>3, <1>4, <1>5

(* What the next two lemmas need of the numbers k paths, w, their bound W.  *)
LEMMA RoomAbove ==
  ASSUME NEW W \in Nat, NEW n \in Nat, NEW k \in Nat, NEW sum \in Int, NEW all \in Int,
         NEW top \in Int,
         all = sum + top, sum <= k * top,
         2 * all <= W * ((k + 1) * (2 * n - (k + 1) - 1)) + 2 * W
  PROVE  2 * sum <= W * (k * (2 * n - k - 1))
<1> DEFINE room == W * (k * (2 * n - k - 1))
           next == W * ((k + 1) * (2 * n - (k + 1) - 1))
<1>1. room \in Int /\ next \in Int
  OBVIOUS
<1>2. (k + 1) * room - k * (next + 2 * W) = W * (k * (k - 1))
  OBVIOUS
<1>3. k * (k - 1) >= 0 /\ k * (k - 1) \in Int
  <2>1. CASE k = 0
    BY <2>1
  <2>2. CASE k # 0
    <3>1. k - 1 \in Nat
      BY <2>2
    <3> QED BY <3>1
  <2> QED BY <2>1, <2>2
<1>4. W * (k * (k - 1)) >= 0
  <2> DEFINE a == k * (k - 1)
  <2> SUFFICES W * a >= 0
    OBVIOUS
  <2>1. a \in Nat
    BY <1>3
  <2> HIDE DEF a
  <2> QED BY <2>1
<1>5. (k + 1) * sum <= k * all
  <2>1. (k + 1) * sum = k * sum + sum /\ k * all = k * sum + k * top
    OBVIOUS
  <2> QED BY <2>1
<1> HIDE DEF room, next
<1>6. k * (2 * all) <= k * (next + 2 * W)
  <2> DEFINE d == next + 2 * W - 2 * all
  <2>1. d \in Nat
    BY <1>1 DEF next
  <2>2. k * (next + 2 * W) = k * (2 * all) + k * d
    BY <1>1
  <2> HIDE DEF d
  <2>3. k * d >= 0
    BY <2>1
  <2> QED BY <1>1, <2>1, <2>2, <2>3
<1>7. (k + 1) * (2 * sum) <= (k + 1) * room
  <2>1. (k + 1) * (2 * sum) = 2 * ((k + 1) * sum) /\ k * (2 * all) = 2 * (k * all)
    OBVIOUS
  <2> QED BY <1>1, <1>2, <1>4, <1>5, <1>6, <2>1
<1>8. 2 * sum <= room
  <2> SUFFICES ASSUME room < 2 * sum PROVE FALSE
    BY <1>1
  <2> DEFINE d == 2 * sum - room
  <2>1. d \in Nat /\ d >= 1
    BY <1>1
  <2>2. (k + 1) * (2 * sum) = (k + 1) * room + k * d + d
    BY <1>1
  <2> HIDE DEF d
  <2>3. k * d >= 0
    BY <2>1
  <2> QED BY <1>1, <1>7, <2>1, <2>2, <2>3
<1> QED BY <1>8 DEF room

LEMMA RoomBelow ==
  ASSUME NEW W \in Nat, NEW n \in Nat, NEW k \in Nat \ {0}, NEW b \in Nat \ {0},
         NEW sum \in Int, NEW less \in Int, NEW all \in Int,
         (1 + b) * sum >= b * less + all - b * W,
         2 * less >= -(W * ((k - 1) * (2 * n - (k - 1) - 1))),
         2 * all >= -(W * ((k + b) * (2 * n - (k + b) - 1)))
  PROVE  2 * sum >= -(W * (k * (2 * n - k - 1)))
<1> DEFINE room == W * (k * (2 * n - k - 1))
           lower == W * ((k - 1) * (2 * n - (k - 1) - 1))
           upper == W * ((k + b) * (2 * n - (k + b) - 1))
<1>1. room \in Int /\ lower \in Int /\ upper \in Int
  OBVIOUS
<1>2. (1 + b) * room = b * lower + upper + 2 * (b * W) + W * (b * (b - 1))
  OBVIOUS
<1>3. W * (b * (b - 1)) >= 0
  <2> DEFINE a == b * (b - 1)
  <2> SUFFICES W * a >= 0
    OBVIOUS
  <2>1. b - 1 \in Nat
    OBVIOUS
  <2>2. a \in Nat
    BY <2>1
  <2> HIDE DEF a
  <2> QED BY <2>2
<1>4. 2 * less >= -lower /\ 2 * all >= -upper
  OBVIOUS
<1> HIDE DEF room, lower, upper
<1>5. b * (2 * less) >= -(b * lower)
  <2> DEFINE d == 2 * less + lower
  <2>1. d \in Nat
    BY <1>1, <1>4
  <2>2. b * (2 * less) = b * d - b * lower
    BY <1>1
  <2> HIDE DEF d
  <2>3. b * d >= 0
    BY <2>1
  <2> QED BY <1>1, <2>1, <2>2, <2>3
<1>6. (1 + b) * (2 * sum) >= -((1 + b) * room)
  <2>1. (1 + b) * (2 * sum) = 2 * ((1 + b) * sum) /\ b * (2 * less) = 2 * (b * less)
    OBVIOUS
  <2> QED BY <1>1, <1>2, <1>3, <1>4, <1>5, <2>1
<1>7. 2 * sum >= -room
  <2> SUFFICES ASSUME 2 * sum < -room PROVE FALSE
    BY <1>1
  <2> DEFINE d == -room - 2 * sum
  <2>1. d \in Nat /\ d >= 1
    BY <1>1
  <2>2. (1 + b) * (2 * sum) = -((1 + b) * room) - d - b * d
    BY <1>1
  <2> HIDE DEF d
  <2>3. b * d >= 0
    BY <2>1
  <2> QED BY <1>1, <1>6, <2>1, <2>2, <2>3
<1> QED BY <1>7 DEF room

(* What the chosen path has is at least what any set of healthy paths has   *)
(* on average.                                                              *)
LEMMA ChosenIsHighest ==
  ASSUME Types, NEW p \in Paths, Choose(p), NEW A \in SUBSET healthy
  PROVE  /\ p \in healthy /\ Raised[p] \in Int /\ Sum(Raised, A) \in Int
         /\ Sum(Raised, A) <= Cardinality(A) * Raised[p]
         /\ Sum(Raised, A) = Sum(current, A) + Total(A)
<1>1. A \in SUBSET Paths /\ A \intersect healthy = A
  BY DEF Types
<1>2. Raised \in [Paths -> Int] /\ Sum(Raised, A) = Sum(current, A) + Total(A)
  BY <1>1, RaisedSum
<1>3. p \in healthy /\ \A q \in A : Raised[q] <= Raised[p]
  BY DEF Choose, Selectable
<1>4. Sum(Raised, A) <= Cardinality(A) * Raised[p]
  BY <1>1, <1>2, <1>3, PathSets, SumAtMost DEF Sum
<1> QED BY <1>1, <1>2, <1>3, <1>4, PathSets

LEMMA CreditAbove ==
  ASSUME IInv, NEW p \in Paths, Choose(p), NEW S \in SUBSET Paths
  PROVE  2 * Sum(current', S) <= Room(Cardinality(S))
<1> DEFINE A == S \intersect healthy
           k == Cardinality(A)
<1>1. Types /\ rtt \in [Paths -> Nat] /\ healthy \in SUBSET Paths /\ current \in [Paths -> Int]
  BY DEF IInv, Types
<1>2. A \in SUBSET healthy /\ A \in SUBSET S /\ A \in SUBSET Paths
  BY <1>1
<1>3. k \in Nat /\ Sum(current, A) \in Int /\ 2 * Sum(current, A) <= Room(k)
  BY <1>1, <1>2, PathSets DEF IInv, SubsetsBounded
<1>4. /\ Room(k) \in Int /\ Room(Cardinality(S)) \in Int
      /\ Room(k) <= Room(Cardinality(S))
  BY <1>1, <1>2, RoomMonotone
<1>5. Total(A) \in Nat /\ Total(healthy) \in Nat /\ Total(A) <= Total(healthy)
  BY <1>1, <1>2, Totals
<1>6. Sum(Raised, S) = Sum(current, A) + Total(A)
  BY <1>1, RaisedSum
<1>7. CASE p \in S
  <2>1. Sum(current', S) = Sum(Raised, S) - Total(healthy)
    BY <1>1, <1>7, ChargedSum
  <2> HIDE DEF A, k
  <2> QED BY <1>3, <1>4, <1>5, <1>6, <2>1
<1>8. CASE p \notin S
  <2> DEFINE B == A \union {p}
  <2>1. Sum(current', S) = Sum(Raised, S)
    BY <1>1, <1>8, ChargedSum
  <2>2. /\ p \in healthy /\ Raised[p] \in Int
        /\ Sum(Raised, A) \in Int /\ Sum(Raised, A) <= k * Raised[p]
        /\ Sum(Raised, A) = Sum(current, A) + Total(A)
    BY <1>1, <1>2, ChosenIsHighest
  <2>3. B \in SUBSET healthy /\ B \in SUBSET Paths /\ B \ {p} = A /\ p \in B
    BY <1>1, <1>8, <2>2
  <2>4. Cardinality(B) = k + 1
    BY <1>2, <1>8, PathSets, FS_AddElement
  <2>5. Raised \in [Paths -> Int] /\ Sum(Raised, B) \in Int /\ Sum(Raised, B) = Sum(current, B) + Total(B)
    BY <1>1, <2>3, ChosenIsHighest, RaisedSum
  <2>6. Sum(Raised, B) = Raised[p] + Sum(Raised, A)
    <3> HIDE DEF A, B, k
    <3>1. Sum(Raised, B) = Raised[p] + Sum(Raised, B \ {p})
      BY <2>3, <2>5, PathSets, SumRemove DEF Sum
    <3> QED BY <2>3, <3>1
  <2>7. Sum(current, B) \in Int /\ 2 * Sum(current, B) <= Room(k + 1)
    BY <1>1, <2>3, <2>4, PathSets DEF IInv, SubsetsBounded
  <2>8. Total(B) \in Nat /\ FullTotal \in Nat /\ Total(B) <= FullTotal
    BY <1>1, <2>3, Totals
  <2>9. Room(k + 1) \in Int
    BY <1>1, <2>3, <2>4, RoomMonotone
  <2>10. Number \in Nat
    BY PathSets
  <2> HIDE DEF A, B, k
  <2>11. 2 * Sum(Raised, B) <= Room(k + 1) + 2 * FullTotal
    BY <2>5, <2>7, <2>8, <2>9
  <2>12. 2 * Sum(Raised, A) <= Room(k)
    <3>1. Sum(Raised, B) = Sum(Raised, A) + Raised[p]
      BY <2>2, <2>6
    <3>2. 2 * Sum(Raised, B) <= FullTotal * ((k + 1) * (2 * Number - (k + 1) - 1)) + 2 * FullTotal
      BY <2>11 DEF Room
    <3>3. 2 * Sum(Raised, A) <= FullTotal * (k * (2 * Number - k - 1))
      BY <1>3, <2>2, <2>5, <2>8, <2>10, <3>1, <3>2, RoomAbove
    <3> QED BY <3>3 DEF Room
  <2> QED BY <1>4, <1>6, <2>1, <2>2, <2>12
<1> QED BY <1>7, <1>8

(* The arithmetic of the next lemma: top is at least the average of itself  *)
(* and b others, which have h + T - (top + (c + t)) together.               *)
LEMMA Averaged ==
  ASSUME NEW b \in Nat, NEW W \in Nat, NEW top \in Int, NEW c \in Int, NEW t \in Nat,
         NEW h \in Int, NEW T \in Nat,
         T <= W, b * top >= h + T - (top + (c + t))
  PROVE  (1 + b) * (top + (c + t) - T) >= b * c + h - b * W
<1> DEFINE d == W - T
<1>1. d \in Nat
  OBVIOUS
<1>2. b * W = b * T + b * d
  OBVIOUS
<1>3. (1 + b) * (top + (c + t) - T) = top + (c + t) - T + b * top + b * c + b * t - b * T
  OBVIOUS
<1> HIDE DEF d
<1>4. b * d >= 0 /\ b * t >= 0 /\ b * d \in Int
  BY <1>1
<1> QED BY <1>2, <1>3, <1>4

LEMMA CreditBelow ==
  ASSUME IInv, NEW p \in Paths, Choose(p), NEW S \in SUBSET Paths
  PROVE  -Room(Cardinality(S)) <= 2 * Sum(current', S)
<1> DEFINE A == S \intersect healthy
           D == healthy \ A
           k == Cardinality(A)
           b == Cardinality(D)
<1>1. Types /\ rtt \in [Paths -> Nat] /\ healthy \in SUBSET Paths /\ current \in [Paths -> Int]
  BY DEF IInv, Types
<1>2. /\ A \in SUBSET healthy /\ A \in SUBSET S /\ A \in SUBSET Paths
      /\ D \in SUBSET healthy /\ D \in SUBSET Paths
  BY <1>1
<1>3. k \in Nat /\ Sum(current, A) \in Int /\ -Room(k) <= 2 * Sum(current, A)
  BY <1>1, <1>2, PathSets DEF IInv, SubsetsBounded
<1>4. /\ Room(k) \in Int /\ Room(Cardinality(S)) \in Int
      /\ Room(k) <= Room(Cardinality(S))
  BY <1>1, <1>2, RoomMonotone
<1>5. Total(A) \in Nat /\ Total(healthy) \in Nat /\ Total(A) <= Total(healthy)
  BY <1>1, <1>2, Totals
<1>6. Sum(Raised, S) = Sum(current, A) + Total(A)
  BY <1>1, RaisedSum
<1>7. CASE p \notin S
  <2>1. Sum(current', S) = Sum(Raised, S)
    BY <1>1, <1>7, ChargedSum
  <2> HIDE DEF A, D, k, b
  <2> QED BY <1>3, <1>4, <1>5, <1>6, <2>1
<1>8. CASE p \in S
  <2>1. Sum(current', S) = Sum(Raised, S) - Total(healthy)
    BY <1>1, <1>8, ChargedSum
  <2>2. b \in Nat
    BY <1>2, PathSets
  <2>3. CASE b = 0
    <3>1. D = {}
      BY <1>2, <2>3, PathSets, FS_EmptySet
    <3>2. A = healthy
      BY <3>1
    <3> HIDE DEF A, D, k, b
    <3> QED BY <1>3, <1>4, <1>5, <1>6, <2>1, <3>2
  <2>4. CASE b # 0
    <3> DEFINE C == A \ {p}
    <3>1. p \in healthy /\ p \in A /\ Raised \in [Paths -> Int] /\ Raised[p] \in Int
      BY <1>1, <1>2, <1>8, ChosenIsHighest, RaisedSum
    <3>2. C \in SUBSET healthy /\ C \in SUBSET Paths /\ C \in SUBSET A
      BY <1>2
    <3>3. Sum(Raised, D) \in Int /\ Sum(Raised, D) <= b * Raised[p]
      BY <1>1, <1>2, ChosenIsHighest
    <3>4. Sum(Raised, C) \in Int /\ Sum(Raised, C) = Sum(current, C) + Total(C)
      BY <1>1, <3>2, ChosenIsHighest
    <3>5. Sum(Raised, A) \in Int /\ Sum(Raised, A) = Sum(current, A) + Total(A)
             /\ Sum(Raised, A) = Raised[p] + Sum(Raised, C)
      <4>1. Sum(Raised, A) = Raised[p] + Sum(Raised, C)
        BY <1>2, <3>1, PathSets, SumRemove DEF Sum
      <4> QED BY <1>1, <1>2, <4>1, ChosenIsHighest
    <3>6. Sum(Raised, healthy) \in Int /\ Sum(Raised, healthy) = Sum(current, healthy) + Total(healthy)
             /\ Sum(Raised, healthy) = Sum(Raised, A) + Sum(Raised, D)
      <4>1. Sum(Raised, healthy) = Sum(Raised, A) + Sum(Raised, D)
        BY <1>1, <1>2, <3>1, PathSets, SumSplits DEF Sum
      <4>2. healthy \in SUBSET healthy
        OBVIOUS
      <4> QED BY <1>1, <4>1, <4>2, ChosenIsHighest
    <3>7. Cardinality(C) = k - 1 /\ k # 0
      <4>1. IsFiniteSet(A) /\ A # {}
        BY <1>2, <3>1, PathSets
      <4> QED BY <3>1, <4>1, FS_RemoveElement, FS_EmptySet
    <3>8. Cardinality(healthy) = k + b
      <4>1. IsFiniteSet(A) /\ IsFiniteSet(D) /\ A \intersect D = {} /\ A \union D = healthy
        BY <1>1, <1>2, PathSets
      <4> HIDE DEF A, D
      <4>2. Cardinality(A \union D) = k + b - Cardinality(A \intersect D)
        BY <4>1, FS_Union
      <4>3. Cardinality(A \intersect D) = 0
        BY <4>1, FS_EmptySet
      <4>4. Cardinality(healthy) = k + b - Cardinality(A \intersect D)
        BY <4>1, <4>2
      <4> HIDE DEF k, b
      <4> QED BY <1>3, <2>2, <4>3, <4>4
    <3>9. /\ Sum(current, C) \in Int /\ -Room(k - 1) <= 2 * Sum(current, C)
          /\ Sum(current, healthy) \in Int /\ -Room(k + b) <= 2 * Sum(current, healthy)
      BY <1>1, <3>2, <3>7, <3>8, PathSets DEF IInv, SubsetsBounded
    <3>10. Total(C) \in Nat /\ FullTotal \in Nat /\ Total(healthy) <= FullTotal
      BY <1>1, <1>2, <3>2, Totals
    <3>11. Number \in Nat
      BY PathSets
    <3> HIDE DEF A, C, D, k, b
    <3>12. Sum(current', S) \in Int /\ Sum(current', S) = Sum(Raised, A) - Total(healthy)
      BY <1>5, <1>6, <2>1, <3>5
    <3>13. (1 + b) * Sum(current', S) >= b * Sum(current, C) + Sum(current, healthy) - b * FullTotal
      <4> DEFINE top == Raised[p]
                 c == Sum(current, C)
                 t == Total(C)
                 h == Sum(current, healthy)
                 T == Total(healthy)
      <4>1. top \in Int /\ c \in Int /\ t \in Nat /\ h \in Int /\ T \in Nat
        BY <1>5, <3>1, <3>9, <3>10
      <4>2. /\ Sum(Raised, C) = c + t /\ Sum(Raised, A) = top + Sum(Raised, C)
            /\ Sum(Raised, healthy) = h + T
        BY <3>4, <3>5, <3>6
      <4> HIDE DEF top, c, t, h, T
      <4>3. b * top >= h + T - (top + (c + t))
        <5>1. Sum(Raised, D) <= b * top
          BY <3>3 DEF top
        <5>2. b * top \in Int
          BY <2>2, <4>1
        <5> QED BY <3>3, <3>6, <4>1, <4>2, <5>1, <5>2
      <4>4. Sum(current', S) = top + (c + t) - T
        BY <3>12, <4>1, <4>2 DEF T
      <4>5. (1 + b) * (top + (c + t) - T) >= b * c + h - b * FullTotal
        BY <2>2, <3>10, <4>1, <4>3, Averaged DEF T
      <4> QED BY <4>4, <4>5 DEF c, h
    <3>14. 2 * Sum(current', S) >= -Room(k)
      <4>1. /\ 2 * Sum(current, C) >= -(FullTotal * ((k - 1) * (2 * Number - (k - 1) - 1)))
            /\ 2 * Sum(current, healthy) >= -(FullTotal * ((k + b) * (2 * Number - (k + b) - 1)))
        <5>1. Room(k - 1) \in Int /\ Room(k + b) \in Int
          BY <1>3, <2>2, <3>10, <3>11 DEF Room
        <5> QED BY <3>9, <5>1 DEF Room
      <4>2. k \in Nat \ {0} /\ b \in Nat \ {0}
        BY <1>3, <2>2, <2>4, <3>7
      <4>3. 2 * Sum(current', S) >= -(FullTotal * (k * (2 * Number - k - 1)))
        BY <3>9, <3>10, <3>11, <3>12, <3>13, <4>1, <4>2, RoomBelow
      <4> QED BY <4>3 DEF Room
    <3> QED BY <1>4, <3>12, <3>14
  <2> QED BY <2>3, <2>4
<1> QED BY <1>7, <1>8

-----------------------------------------------------------------------------
(* The invariant *)

(* The bound on sets, for the set of one path.                              *)
LEMMA CreditOfOne ==
  ASSUME Types, SubsetsBounded, NEW p \in Paths
  PROVE  /\ MostCredit \in Nat /\ current[p] \in Int
         /\ -MostCredit <= current[p] /\ current[p] <= MostCredit
<1>1. {p} \in SUBSET Paths /\ current \in [Paths -> Int] /\ {p} \ {p} = {}
  BY DEF Types
<1>2. Cardinality({p}) = 1
  BY FS_Singleton
<1>3. Numeric(current, {p}) /\ Sum(current, {}) = 0
  BY <1>1, PathSets, NumericSubset DEF Sum
<1>4. Sum(current, {p}) = current[p] + Sum(current, {p} \ {p})
  BY <1>3, SumRemove DEF Sum
<1>5. Sum(current, {p}) = current[p] /\ current[p] \in Int
  BY <1>1, <1>3, <1>4
<1>6. FullTotal \in Nat /\ Number \in Nat /\ 1 <= Number
  BY <1>1, <1>2, Totals, PathSets DEF Types
<1>7. Room(1) = 2 * MostCredit /\ MostCredit \in Nat
  <2>1. Number - 1 \in Nat
    BY <1>6
  <2>2. Room(1) = FullTotal * (1 * (2 * Number - 1 - 1)) /\ MostCredit = FullTotal * (Number - 1)
    BY DEF Room, MostCredit, Number
  <2> QED BY <1>6, <2>1, <2>2
<1>8. -Room(1) <= 2 * current[p] /\ 2 * current[p] <= Room(1)
  BY <1>1, <1>2, <1>5 DEF SubsetsBounded
<1> QED BY <1>5, <1>7, <1>8

(* Nothing owed and nothing owned is within bounds.                         *)
LEMMA NoCredit ==
  ASSUME rtt \in [Paths -> Nat], current = [p \in Paths |-> 0]
  PROVE  SubsetsBounded
<1> SUFFICES ASSUME NEW S \in SUBSET Paths
             PROVE  -Room(Cardinality(S)) <= 2 * Sum(current, S)
                       /\ 2 * Sum(current, S) <= Room(Cardinality(S))
  BY DEF SubsetsBounded
<1>1. Sum(current, S) = 0
  BY PathSets, SumOfZeros DEF Sum
<1>2. Room(Cardinality(S)) \in Int /\ 0 <= Room(Cardinality(S))
  BY RoomMonotone
<1> QED BY <1>1, <1>2

(* When a count begins, what the watched path has is all there is to pay.   *)
LEMMA Restarted ==
  ASSUME Types, SubsetsBounded, calls = 0, served = 0
  PROVE  SharesPaid
<1>1. Total(healthy) \in Nat /\ EffectiveWeight[watched] \in Nat
  BY Totals, Weights DEF Types
<1>2. Excess = 0
  BY <1>1 DEF Excess
<1>3. watched \in Paths
  BY DEF Types
<1> QED BY <1>2, <1>3, CreditOfOne DEF SharesPaid

LEMMA InitIInv == Init => IInv
<1> SUFFICES ASSUME Init PROVE IInv
  OBVIOUS
<1>1. Types
  BY DEF Init, Types
<1>2. SubsetsBounded
  BY <1>1, NoCredit DEF Init, Types
<1>3. SharesPaid
  BY <1>1, <1>2, Restarted DEF Init
<1>4. WaitPaid
  <2>1. LeastWeight(watched) \in Nat
    BY <1>1, Weights DEF Types
  <2>2. waited * LeastWeight(watched) = 0
    BY <2>1 DEF Init
  <2> QED BY <1>1, <1>2, <2>2, CreditOfOne DEF WaitPaid, Types, Init
<1> QED BY <1>1, <1>2, <1>3, <1>4 DEF IInv

(* The same of the next state.                                              *)
Bounded == \A p \in Paths : /\ MostCredit \in Nat /\ current[p] \in Int
                            /\ -MostCredit <= current[p] /\ current[p] <= MostCredit

LEMMA NextState ==
  /\ (rtt \in [Paths -> Nat])' /\ (current = [p \in Paths |-> 0])' => SubsetsBounded'
  /\ Types' /\ SubsetsBounded' => Bounded'
  /\ Types' /\ SubsetsBounded' /\ (calls = 0)' /\ (served = 0)' => SharesPaid'
<1>1. rtt \in [Paths -> Nat] /\ current = [p \in Paths |-> 0] => SubsetsBounded
  BY NoCredit
<1>2. Types /\ SubsetsBounded => Bounded
  BY CreditOfOne DEF Bounded
<1>3. Types /\ SubsetsBounded /\ calls = 0 /\ served = 0 => SharesPaid
  BY Restarted
<1> QED BY <1>1, <1>2, <1>3, PTL

LEMMA TypesStep == IInv /\ [Next]_vars => Types'
<1> SUFFICES ASSUME IInv, [Next]_vars PROVE Types'
  OBVIOUS
<1> USE DEF IInv, Types
<1>1. ASSUME NEW p \in Paths, Choose(p) PROVE Types'
  <2>1. {p} \in SUBSET Paths
    OBVIOUS
  <2>2. current' \in [Paths -> Int]
    BY <1>1, <2>1, ChargedSum
  <2>3. Count(p)
    BY <1>1 DEF Choose
  <2>4. waited' \in Nat
    BY <2>3 DEF Count
  <2>5. calls' \in Nat
    BY <2>3 DEF Count
  <2>6. served' \in Nat
    <3>1. (IF calls = Window THEN 0 ELSE served) \in Nat /\ (IF p = watched THEN 1 ELSE 0) \in Nat
      OBVIOUS
    <3> QED BY <2>3, <3>1 DEF Count
  <2> QED BY <1>1, <2>2, <2>3, <2>4, <2>5, <2>6 DEF Choose, Count
<1>2. ASSUME NEW p \in Paths, HealthChanges(p) PROVE Types'
  BY <1>2 DEF HealthChanges, Recount
<1>3. ASSUME NEW p \in Paths, RTTChanges(p) PROVE Types'
  <2>1. PICK level \in RTTs[p] : rtt' = [rtt EXCEPT ![p] = level]
    BY <1>3 DEF RTTChanges
  <2>2. level \in Nat
    BY SchedulerAssumption
  <2> QED BY <1>3, <2>1, <2>2 DEF RTTChanges, Recount
<1>4. ASSUME ChooseNone PROVE Types'
  BY <1>4, RaisedSum DEF ChooseNone, observer
<1>5. CASE UNCHANGED vars
  BY <1>5 DEF vars, observer
<1> QED BY <1>1, <1>2, <1>3, <1>4, <1>5 DEF Next

LEMMA SubsetsStep == IInv /\ [Next]_vars => SubsetsBounded'
<1> SUFFICES ASSUME IInv, [Next]_vars PROVE SubsetsBounded'
  OBVIOUS
<1>1. ASSUME NEW p \in Paths, Choose(p) PROVE SubsetsBounded'
  BY <1>1, CreditAbove, CreditBelow DEF SubsetsBounded, Room, Number, Sum, FullTotal, FullWeight, Configured
<1>2. ASSUME UNCHANGED current PROVE SubsetsBounded'
  BY <1>2 DEF IInv, SubsetsBounded, Room, Number, Sum, FullTotal, FullWeight, Configured
<1>3. ASSUME ChooseNone PROVE SubsetsBounded'
  <2>1. current' = [p \in Paths |-> 0] /\ rtt' \in [Paths -> Nat]
    BY <1>3 DEF ChooseNone, Raised, IInv, Types
  <2> QED BY <2>1, NextState
<1> QED BY <1>1, <1>2, <1>3 DEF Next, HealthChanges, RTTChanges, Recount, vars

LEMMA SharesStep == IInv /\ [Next]_vars => SharesPaid'
<1> SUFFICES ASSUME IInv, [Next]_vars PROVE SharesPaid'
  OBVIOUS
<1>1. ASSUME NEW p \in Paths, Choose(p) PROVE SharesPaid'
  <2> SUFFICES ASSUME watched \in healthy
               PROVE  -MostCredit <= (Excess + current[watched])'
                         /\ (Excess + current[watched])' <= MostCredit
    BY <1>1 DEF SharesPaid, Choose, Count, MostCredit, FullTotal, FullWeight, Configured
  <2> DEFINE T == Total(healthy)
             w == EffectiveWeight[watched]
  <2>1. Types /\ watched \in Paths /\ calls \in Nat /\ served \in Nat /\ Window \in Nat
    BY SchedulerAssumption DEF IInv, Types
  <2>2. T \in Nat /\ w \in Nat /\ current[watched] \in Int
    BY <2>1, Totals, Weights DEF Types
  <2>3. T' = T /\ w' = w /\ watched' = watched
    BY <1>1 DEF Choose, Count, Total, EffectiveWeight
  <2>4. current'[watched] = current[watched] + w - (IF p = watched THEN T ELSE 0)
    BY <1>1, <2>1, <2>2, RaisedSum DEF Choose, Charged, Raised, Types
  <2>5. /\ Excess = served * T - calls * w
        /\ Excess' = served' * T - calls' * w
    BY <2>3 DEF Excess
  <2>6. -MostCredit <= Excess + current[watched] /\ Excess + current[watched] <= MostCredit
    BY DEF IInv, SharesPaid
  <2>7. CASE calls = Window
    <3>1. calls' = 1 /\ served' = IF p = watched THEN 1 ELSE 0
      BY <1>1, <2>1, <2>7 DEF Choose, Count
    <3>2. Excess' + current'[watched] = current[watched]
      <4> HIDE DEF T, w
      <4>1. Excess' = (IF p = watched THEN T ELSE 0) - w
        BY <2>2, <2>5, <3>1
      <4> QED BY <2>2, <2>4, <4>1
    <3> QED BY <2>1, <2>3, <3>2, CreditOfOne DEF IInv
  <2>8. CASE calls # Window
    <3>1. calls' = calls + 1 /\ served' = served + (IF p = watched THEN 1 ELSE 0)
      BY <1>1, <2>8 DEF Choose, Count
    <3>2. Excess' + current'[watched] = Excess + current[watched]
      <4> HIDE DEF T, w
      <4>1. (calls + 1) * w = calls * w + w /\ (served + 1) * T = served * T + T
        BY <2>1, <2>2
      <4>2. calls * w \in Int /\ served * T \in Int
        BY <2>1, <2>2
      <4> QED BY <2>1, <2>2, <2>4, <2>5, <3>1, <4>1, <4>2
    <3> QED BY <2>3, <2>6, <3>2
  <2> QED BY <2>7, <2>8
<1>2. ASSUME calls' = 0, served' = 0 PROVE SharesPaid'
  <2>1. Types' /\ SubsetsBounded'
    BY TypesStep, SubsetsStep
  <2> QED BY <1>2, <2>1, NextState
<1>3. ASSUME ChooseNone PROVE SharesPaid'
  BY <1>3 DEF ChooseNone, SharesPaid, observer
<1>4. CASE UNCHANGED vars
  BY <1>4 DEF vars, observer, IInv, SharesPaid, Excess, Total, EffectiveWeight, MostCredit,
        FullTotal, FullWeight, Configured
<1> QED BY <1>1, <1>2, <1>3, <1>4 DEF Next, HealthChanges, RTTChanges, Recount

LEMMA WaitStep == IInv /\ [Next]_vars => WaitPaid'
<1> SUFFICES ASSUME IInv, [Next]_vars PROVE WaitPaid'
  OBVIOUS
<1>1. /\ LeastWeight(watched) \in Nat /\ LeastWeight(watched) <= EffectiveWeight[watched]
      /\ EffectiveWeight[watched] \in Nat
      /\ Types /\ watched \in Paths /\ waited \in Nat /\ current[watched] \in Int
  BY Weights DEF IInv, Types
<1>2. watched' = watched /\ LeastWeight(watched)' = LeastWeight(watched) /\ MostCredit' = MostCredit
  BY DEF Next, vars, observer, Choose, Count, ChooseNone, HealthChanges, RTTChanges, Recount,
        LeastWeight, MostCredit, FullTotal, FullWeight, Configured
<1>3. MostCredit \in Nat /\ current'[watched] \in Int /\ -MostCredit <= current'[watched]
  <2>1. Bounded'
    BY TypesStep, SubsetsStep, NextState
  <2> QED BY <1>1, <1>2, <2>1 DEF Bounded
<1>4. ASSUME waited' = 0 PROVE WaitPaid'
  <2>1. waited' * LeastWeight(watched) = 0
    BY <1>1, <1>4
  <2> QED BY <1>2, <1>3, <1>4, <2>1 DEF WaitPaid
<1>5. ASSUME waited' = waited, current' = current, watched \in healthy <=> watched \in healthy'
      PROVE  WaitPaid'
  BY <1>2, <1>5 DEF WaitPaid, IInv
<1>6. ASSUME NEW p \in Paths, Choose(p), p # watched, watched \in healthy PROVE WaitPaid'
  <2>1. waited' = waited + 1
    BY <1>6 DEF Choose, Count
  <2>2. current'[watched] = current[watched] + EffectiveWeight[watched]
    BY <1>1, <1>6, RaisedSum DEF Choose, Charged, Raised, Types
  <2>3. (waited + 1) * LeastWeight(watched) = waited * LeastWeight(watched) + LeastWeight(watched)
          /\ waited * LeastWeight(watched) \in Int
    BY <1>1
  <2>4. waited * LeastWeight(watched) <= MostCredit + current[watched]
    BY DEF IInv, WaitPaid
  <2>5. waited' * LeastWeight(watched) <= MostCredit + current'[watched]
    BY <1>1, <1>3, <2>1, <2>2, <2>3, <2>4
  <2>6. healthy' = healthy
    BY <1>6 DEF Choose
  <2> QED BY <1>2, <1>6, <2>5, <2>6 DEF WaitPaid
<1>7. ASSUME NEW p \in Paths, Choose(p), p = watched \/ watched \notin healthy PROVE waited' = 0
  BY <1>7 DEF Choose, Count
<1>8. ASSUME ChooseNone PROVE waited' = 0
  BY <1>8 DEF ChooseNone, observer, IInv, WaitPaid
<1>9. ASSUME NEW p \in Paths, HealthChanges(p) PROVE WaitPaid'
  <2>1. CASE p = watched
    BY <1>4, <1>9, <2>1 DEF HealthChanges
  <2>2. CASE p # watched
    BY <1>5, <1>9, <2>2 DEF HealthChanges, Recount
  <2> QED BY <2>1, <2>2
<1> QED BY <1>4, <1>5, <1>6, <1>7, <1>8, <1>9 DEF Next, vars, observer, RTTChanges, Recount

-----------------------------------------------------------------------------
(* Scheduler.Next keeps the credit of every set of paths within bounds,     *)
(* and what the observers count is paid from it.                            *)
THEOREM Invariance == Spec => []IInv
<1>1. IInv /\ [Next]_vars => IInv'
  BY TypesStep, SubsetsStep, SharesStep, WaitStep DEF IInv
<1> QED BY InitIInv, <1>1, PTL DEF Spec

(* No credit of Scheduler.current drifts away however links flap, and a     *)
(* healthy link waits for a number of calls of Next that depends on the     *)
(* weights only.                                                            *)
THEOREM EveryLinkIsServed == Spec => []NobodyStarves
<1>1. IInv => NobodyStarves
  <2> SUFFICES ASSUME IInv PROVE NobodyStarves
    OBVIOUS
  <2>1. \A p \in Paths : -MostCredit <= current[p] /\ current[p] <= MostCredit
    BY CreditOfOne DEF IInv
  <2>2. /\ MostCredit \in Nat /\ current[watched] \in Int /\ current[watched] <= MostCredit
        /\ waited * LeastWeight(watched) <= MostCredit + current[watched]
    BY CreditOfOne DEF IInv, Types, WaitPaid
  <2>3. waited * LeastWeight(watched) \in Int
    BY Weights DEF IInv, Types
  <2>4. waited * LeastWeight(watched) <= 2 * MostCredit
    BY <2>2, <2>3
  <2> QED BY <2>1, <2>4 DEF NobodyStarves
<1> QED BY Invariance, <1>1, PTL

(* While health and RTTs stay as they are, the calls of Next that chose a   *)
(* healthy link differ from its weight's share by a bounded number.         *)
THEOREM SharesAreKept == Spec => []SharesFollowWeights
<1>1. IInv => SharesFollowWeights
  <2> SUFFICES ASSUME IInv, watched \in healthy
               PROVE  -2 * MostCredit <= Excess /\ Excess <= 2 * MostCredit
    BY DEF SharesFollowWeights, Excess
  <2>1. /\ MostCredit \in Nat /\ current[watched] \in Int
        /\ -MostCredit <= current[watched] /\ current[watched] <= MostCredit
    BY CreditOfOne DEF IInv, Types
  <2>2. -MostCredit <= Excess + current[watched] /\ Excess + current[watched] <= MostCredit
    BY DEF IInv, SharesPaid
  <2>3. Excess \in Int
    BY Weights, Totals DEF Excess, IInv, Types
  <2> QED BY <2>1, <2>2, <2>3
<1> QED BY Invariance, <1>1, PTL

=============================================================================
