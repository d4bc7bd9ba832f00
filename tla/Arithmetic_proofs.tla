------------------------- MODULE Arithmetic_proofs -------------------------
(***************************************************************************)
(* What the ledgers and the scheduler need of sums over a finite set,      *)
(* SumFunctionOnSet(f, S), and of powers of two.  The sum is a recursive   *)
(* function on SUBSET S that takes out one chosen element after the other, *)
(* so its equation, its type and its independence of the order are proved  *)
(* by induction on S: a smallest set that is an exception                  *)
(* (SmallestException) leads to a smaller one.  That 2^(n + 1) is twice    *)
(* 2^n is proved by counting subsets.                                      *)
(***************************************************************************)
EXTENDS Functions, Integers, FiniteSetTheorems, TLAPS

(* Among the subsets of a finite set that have a property, one is minimal. *)
LEMMA SmallestException ==
  ASSUME NEW S, IsFiniteSet(S), NEW Bad \in SUBSET (SUBSET S), Bad # {}
  PROVE  \E T \in Bad : \A U \in SUBSET T : U # T => U \notin Bad
<1>1. FiniteSubsetsOf(S) = SUBSET S
  BY FS_FiniteSubsetsOfFinite
<1>2. IsWellFoundedOn(StrictSubsetOrdering(S), FiniteSubsetsOf(S))
  BY FS_StrictSubsetOrderingWellFounded
<1>3. PICK T \in Bad : \A U \in Bad : <<U, T>> \notin StrictSubsetOrdering(S)
  BY <1>1, <1>2, WFMin
<1> QED
  BY <1>3 DEF StrictSubsetOrdering

(* g adds up f over every subset of S.                                     *)
First(T) == CHOOSE x \in T : TRUE

LEMMA FirstIsIn == ASSUME NEW T, T # {} PROVE First(T) \in T
BY DEF First

AddsUp(g, f, S) ==
  g = [T \in SUBSET S |->
         IF T = {} THEN 0 ELSE f[First(T)] + g[T \ {First(T)}]]

LEMMA SumDefined ==
  ASSUME NEW f, NEW S
  PROVE  SumFunctionOnSet(f, S) = (CHOOSE g : AddsUp(g, f, S))[S]
BY DEF SumFunctionOnSet, FoldFunctionOnSet, MapThenFoldSet, AddsUp, First

LEMMA AddsUpAt ==
  ASSUME NEW g, NEW f, NEW S, AddsUp(g, f, S), NEW T \in SUBSET S
  PROVE  g[T] = IF T = {} THEN 0 ELSE f[First(T)] + g[T \ {First(T)}]
BY DEF AddsUp

(* Two such functions agree where both are defined, also if they add up    *)
(* different values that agree there.                                      *)
LEMMA AddsUpUnique ==
  ASSUME NEW S, IsFiniteSet(S), NEW f, NEW e, NEW R \in SUBSET S, NEW g, NEW h,
         AddsUp(g, f, S), AddsUp(h, e, R), \A x \in R : f[x] = e[x]
  PROVE  \A T \in SUBSET R : g[T] = h[T]
<1> DEFINE Bad == {T \in SUBSET R : g[T] # h[T]}
<1> SUFFICES ASSUME Bad # {} PROVE FALSE
  OBVIOUS
<1>1. IsFiniteSet(R)
  BY FS_Subset
<1>0. Bad \in SUBSET (SUBSET R)
  OBVIOUS
<1>2. PICK T \in Bad : \A U \in SUBSET T : U # T => U \notin Bad
  <2> HIDE DEF Bad
  <2> QED BY <1>1, <1>0, SmallestException
<1>3. T # {}
  BY <1>2, AddsUpAt
<1>4. First(T) \in T /\ T \ {First(T)} \notin Bad
  BY <1>2, <1>3, FirstIsIn
<1>5. g[T \ {First(T)}] = h[T \ {First(T)}] /\ f[First(T)] = e[First(T)]
  BY <1>4
<1> QED
  BY <1>2, <1>3, <1>5, AddsUpAt

LEMMA AddsUpExists ==
  ASSUME NEW S, IsFiniteSet(S), NEW f
  PROVE  \E g : AddsUp(g, f, S)
<1> DEFINE Bad == {T \in SUBSET S : ~ \E g : AddsUp(g, f, T)}
<1> SUFFICES ASSUME Bad # {} PROVE FALSE
  OBVIOUS
<1>0. Bad \in SUBSET (SUBSET S)
  OBVIOUS
<1>1. PICK T \in Bad : \A U \in SUBSET T : U # T => U \notin Bad
  <2> HIDE DEF Bad
  <2> QED BY <1>0, SmallestException
<1> DEFINE G(U) == CHOOSE g : AddsUp(g, f, U)
           below(U) == G(U)[U]
           g == [U \in SUBSET T |->
                   IF U = {} THEN 0 ELSE f[First(U)] + below(U \ {First(U)})]
<1>2. ASSUME NEW U \in SUBSET T, U # T
      PROVE  AddsUp(G(U), f, U)
  BY <1>1, <1>2
<1>3. ASSUME NEW U \in SUBSET T, U # T
      PROVE  below(U) = g[U]
  <2>1. IsFiniteSet(U) /\ AddsUp(G(U), f, U)
    BY <1>2, <1>3, FS_Subset
  <2>2. CASE U = {}
    BY <2>1, <2>2, AddsUpAt
  <2>3. CASE U # {}
    <3> DEFINE V == U \ {First(U)}
    <3>1. First(U) \in U /\ V \in SUBSET U /\ V # T
      BY <1>3, <2>3, FirstIsIn
    <3>2. AddsUp(G(V), f, V)
      BY <1>2, <3>1
    <3> HIDE DEF G
    <3>3. G(U)[V] = G(V)[V]
      BY <2>1, <3>1, <3>2, AddsUpUnique
    <3>4. G(U)[U] = f[First(U)] + G(U)[V]
      BY <2>1, <2>3, AddsUpAt
    <3> QED
      BY <2>3, <3>3, <3>4
  <2> QED
    BY <2>2, <2>3
<1> HIDE DEF below
<1>4. \A U \in SUBSET T : U # {} => below(U \ {First(U)}) = g[U \ {First(U)}]
  BY <1>3, FirstIsIn
<1>5. AddsUp(g, f, T)
  BY <1>4 DEF AddsUp
<1> QED
  BY <1>1, <1>5

-----------------------------------------------------------------------------
(* The equation of the sum.                                                *)
LEMMA SumEmpty ==
  ASSUME NEW f
  PROVE  SumFunctionOnSet(f, {}) = 0
<1>1. AddsUp(CHOOSE g : AddsUp(g, f, {}), f, {})
  BY AddsUpExists, FS_EmptySet
<1> QED
  BY <1>1, AddsUpAt, SumDefined

LEMMA SumStep ==
  ASSUME NEW f, NEW S, IsFiniteSet(S), S # {}
  PROVE  SumFunctionOnSet(f, S) = f[First(S)] + SumFunctionOnSet(f, S \ {First(S)})
<1> DEFINE R == S \ {First(S)}
           G(T) == CHOOSE g : AddsUp(g, f, T)
<1>1. IsFiniteSet(R) /\ R \in SUBSET S
  BY FS_Subset
<1>2. AddsUp(G(S), f, S) /\ AddsUp(G(R), f, R)
  BY <1>1, AddsUpExists
<1>3. SumFunctionOnSet(f, S) = G(S)[S] /\ SumFunctionOnSet(f, R) = G(R)[R]
  BY SumDefined
<1> HIDE DEF G
<1>4. G(S)[R] = G(R)[R]
  BY <1>1, <1>2, AddsUpUnique
<1>5. G(S)[S] = f[First(S)] + G(S)[R]
  BY <1>2, AddsUpAt
<1> QED
  BY <1>3, <1>4, <1>5

LEMMA SumCongruent ==
  ASSUME NEW S, IsFiniteSet(S), NEW f, NEW e, \A x \in S : f[x] = e[x]
  PROVE  SumFunctionOnSet(f, S) = SumFunctionOnSet(e, S)
<1> DEFINE g == CHOOSE g : AddsUp(g, f, S)
           h == CHOOSE h : AddsUp(h, e, S)
<1>1. AddsUp(g, f, S) /\ AddsUp(h, e, S)
  BY AddsUpExists
<1>2. SumFunctionOnSet(f, S) = g[S] /\ SumFunctionOnSet(e, S) = h[S]
  BY SumDefined
<1> HIDE DEF g, h
<1>3. S \in SUBSET S
  OBVIOUS
<1>4. \A T \in SUBSET S : g[T] = h[T]
  BY <1>1, <1>3, AddsUpUnique
<1> QED
  BY <1>2, <1>3, <1>4

LEMMA SumInt ==
  ASSUME NEW S, IsFiniteSet(S), NEW f, \A x \in S : f[x] \in Int
  PROVE  SumFunctionOnSet(f, S) \in Int
<1> DEFINE Bad == {T \in SUBSET S : SumFunctionOnSet(f, T) \notin Int}
<1> SUFFICES ASSUME Bad # {} PROVE FALSE
  OBVIOUS
<1>1. Bad \in SUBSET (SUBSET S)
  OBVIOUS
<1>2. PICK T \in Bad : \A U \in SUBSET T : U # T => U \notin Bad
  <2> HIDE DEF Bad
  <2> QED BY <1>1, SmallestException
<1>3. T # {} /\ IsFiniteSet(T)
  <2>1. SumFunctionOnSet(f, {}) \in Int
    BY SumEmpty
  <2> QED
    BY <1>2, <2>1, FS_Subset
<1>4. First(T) \in T /\ T \ {First(T)} \notin Bad
  BY <1>2, <1>3, FirstIsIn
<1>5. f[First(T)] \in Int /\ SumFunctionOnSet(f, T \ {First(T)}) \in Int
  BY <1>4
<1> QED
  BY <1>2, <1>3, <1>5, SumStep

LEMMA SumNat ==
  ASSUME NEW S, IsFiniteSet(S), NEW f, \A x \in S : f[x] \in Nat
  PROVE  SumFunctionOnSet(f, S) \in Nat
<1> DEFINE Bad == {T \in SUBSET S : SumFunctionOnSet(f, T) \notin Nat}
<1> SUFFICES ASSUME Bad # {} PROVE FALSE
  OBVIOUS
<1>1. Bad \in SUBSET (SUBSET S)
  OBVIOUS
<1>2. PICK T \in Bad : \A U \in SUBSET T : U # T => U \notin Bad
  <2> HIDE DEF Bad
  <2> QED BY <1>1, SmallestException
<1>3. T # {} /\ IsFiniteSet(T)
  <2>1. SumFunctionOnSet(f, {}) \in Nat
    BY SumEmpty
  <2> QED
    BY <1>2, <2>1, FS_Subset
<1>4. First(T) \in T /\ T \ {First(T)} \notin Bad
  BY <1>2, <1>3, FirstIsIn
<1>5. f[First(T)] \in Nat /\ SumFunctionOnSet(f, T \ {First(T)}) \in Nat
  BY <1>4
<1> QED
  BY <1>2, <1>3, <1>5, SumStep

(* Any element may be taken out first.                                     *)
LEMMA SumRemove ==
  ASSUME NEW S, IsFiniteSet(S), NEW f, \A y \in S : f[y] \in Int, NEW x \in S
  PROVE  SumFunctionOnSet(f, S) = f[x] + SumFunctionOnSet(f, S \ {x})
<1> DEFINE Taken(T, y) == SumFunctionOnSet(f, T) = f[y] + SumFunctionOnSet(f, T \ {y})
           Bad == {T \in SUBSET S : \E y \in T : ~Taken(T, y)}
<1> SUFFICES ASSUME Bad # {} PROVE FALSE
  OBVIOUS
<1>1. Bad \in SUBSET (SUBSET S)
  OBVIOUS
<1>2. PICK T \in Bad : \A U \in SUBSET T : U # T => U \notin Bad
  <2> HIDE DEF Bad
  <2> QED BY <1>1, SmallestException
<1>3. PICK y \in T : ~Taken(T, y)
  BY <1>2
<1> DEFINE z == First(T)
           R == (T \ {y}) \ {z}
<1>4. z \in T /\ T \in SUBSET S /\ IsFiniteSet(T)
  BY <1>2, <1>3, FirstIsIn, FS_Subset
<1>5. Taken(T, z)
  BY <1>3, <1>4, SumStep
<1>6. z # y
  BY <1>3, <1>5
<1> HIDE DEF z
<1>7. Taken(T \ {z}, y) /\ Taken(T \ {y}, z)
  BY <1>2, <1>3, <1>4, <1>6
<1>8. (T \ {z}) \ {y} = R
  OBVIOUS
<1>9. f[y] \in Int /\ f[z] \in Int /\ SumFunctionOnSet(f, R) \in Int
  BY <1>4, SumInt, FS_Subset
<1> HIDE DEF R
<1>10. /\ SumFunctionOnSet(f, T) = f[z] + (f[y] + SumFunctionOnSet(f, R))
       /\ SumFunctionOnSet(f, T \ {y}) = f[z] + SumFunctionOnSet(f, R)
  BY <1>5, <1>7, <1>8 DEF R
<1> QED
  BY <1>3, <1>9, <1>10

LEMMA SumAdd ==
  ASSUME NEW S, IsFiniteSet(S), NEW f, NEW x, x \notin S,
         \A y \in S \cup {x} : f[y] \in Int
  PROVE  SumFunctionOnSet(f, S \cup {x}) = f[x] + SumFunctionOnSet(f, S)
<1>1. IsFiniteSet(S \cup {x}) /\ (S \cup {x}) \ {x} = S
  BY FS_AddElement
<1> QED
  BY <1>1, SumRemove

(* One value changes.                                                      *)
LEMMA SumChange ==
  ASSUME NEW S, IsFiniteSet(S), NEW f, NEW e, NEW x \in S,
         \A y \in S : f[y] \in Int /\ e[y] \in Int,
         \A y \in S \ {x} : f[y] = e[y]
  PROVE  SumFunctionOnSet(e, S) = SumFunctionOnSet(f, S) + e[x] - f[x]
<1>1. IsFiniteSet(S \ {x})
  BY FS_Subset
<1>2. SumFunctionOnSet(e, S \ {x}) = SumFunctionOnSet(f, S \ {x})
  BY <1>1, SumCongruent
<1>3. SumFunctionOnSet(f, S \ {x}) \in Int
  BY <1>1, SumInt
<1> QED
  BY <1>2, <1>3, SumRemove

(* All values are multiples of one factor.                                 *)
LEMMA SumScale ==
  ASSUME NEW S, IsFiniteSet(S), NEW f, NEW e, NEW p \in Int,
         \A x \in S : e[x] \in Int /\ f[x] = p * e[x]
  PROVE  SumFunctionOnSet(f, S) = p * SumFunctionOnSet(e, S)
<1> DEFINE Bad == {T \in SUBSET S : SumFunctionOnSet(f, T) # p * SumFunctionOnSet(e, T)}
<1> SUFFICES ASSUME Bad # {} PROVE FALSE
  OBVIOUS
<1>1. Bad \in SUBSET (SUBSET S)
  OBVIOUS
<1>2. PICK T \in Bad : \A U \in SUBSET T : U # T => U \notin Bad
  <2> HIDE DEF Bad
  <2> QED BY <1>1, SmallestException
<1>3. T # {} /\ IsFiniteSet(T)
  <2>1. SumFunctionOnSet(f, {}) = 0 /\ SumFunctionOnSet(e, {}) = 0 /\ p * 0 = 0
    BY SumEmpty
  <2> QED
    BY <1>2, <2>1, FS_Subset
<1> DEFINE x == First(T)
           R == T \ {x}
<1>4. x \in T /\ R \notin Bad /\ R \in SUBSET S
  BY <1>2, <1>3, FirstIsIn
<1>5. SumFunctionOnSet(e, R) \in Int
  BY <1>3, <1>4, SumInt, FS_Subset
<1>6. /\ SumFunctionOnSet(f, T) = f[x] + SumFunctionOnSet(f, R)
      /\ SumFunctionOnSet(e, T) = e[x] + SumFunctionOnSet(e, R)
      /\ SumFunctionOnSet(f, R) = p * SumFunctionOnSet(e, R)
      /\ e[x] \in Int /\ f[x] = p * e[x]
  BY <1>2, <1>3, <1>4, SumStep
<1>7. SumFunctionOnSet(f, T) # p * SumFunctionOnSet(e, T)
  BY <1>2
<1> HIDE DEF x, R
<1>8. \A a, b \in Int : p * (a + b) = p * a + p * b
  OBVIOUS
<1> QED
  BY <1>5, <1>6, <1>7, <1>8

-----------------------------------------------------------------------------
(* A set with one more element has twice as many subsets.                  *)
LEMMA SubsetsDouble ==
  ASSUME NEW S, IsFiniteSet(S), NEW x, x \notin S
  PROVE  Cardinality(SUBSET (S \cup {x})) = 2 * Cardinality(SUBSET S)
<1> DEFINE with == {U \in SUBSET (S \cup {x}) : x \in U}
           f == [U \in SUBSET S |-> U \cup {x}]
<1>1. f \in Bijection(SUBSET S, with)
  <2>1. f \in [SUBSET S -> with]
    OBVIOUS
  <2>2. \A U, V \in SUBSET S : f[U] = f[V] => U = V
    OBVIOUS
  <2>3. \A W \in with : \E U \in SUBSET S : f[U] = W
    <3>1. TAKE W \in with
    <3>2. W \ {x} \in SUBSET S /\ f[W \ {x}] = W
      OBVIOUS
    <3> QED
      BY <3>2
  <2> QED
    BY <2>1, <2>2, <2>3 DEF Bijection, Injection, Surjection, IsInjective
<1>2. ExistsBijection(SUBSET S, with)
  BY <1>1 DEF ExistsBijection
<1>3. IsFiniteSet(SUBSET S) /\ Cardinality(SUBSET S) \in Nat
  BY FS_SUBSET, FS_CardinalityType
<1>4. IsFiniteSet(with) /\ Cardinality(with) = Cardinality(SUBSET S)
  BY <1>2, <1>3, FS_Bijection
<1>5. SUBSET (S \cup {x}) = (SUBSET S) \cup with /\ (SUBSET S) \cap with = {}
  OBVIOUS
<1>6. Cardinality((SUBSET S) \cup with) =
        Cardinality(SUBSET S) + Cardinality(with) - Cardinality((SUBSET S) \cap with)
  BY <1>3, <1>4, FS_Union
<1>7. Cardinality((SUBSET S) \cap with) = 0
  BY <1>5, FS_EmptySet
<1>8. Cardinality(SUBSET (S \cup {x})) = Cardinality((SUBSET S) \cup with)
  BY <1>5, Zenon
<1> HIDE DEF with
<1> QED
  BY <1>3, <1>4, <1>6, <1>7, <1>8

LEMMA PowerStep ==
  ASSUME NEW n \in Nat
  PROVE  2^n \in Nat /\ 2^(n + 1) = 2 * 2^n
<1>1. /\ IsFiniteSet(1..n) /\ Cardinality(1..n) = n
      /\ IsFiniteSet(1..(n + 1)) /\ Cardinality(1..(n + 1)) = n + 1
  BY FS_Interval
<1>2. 1..(n + 1) = (1..n) \cup {n + 1} /\ n + 1 \notin 1..n
  OBVIOUS
<1>3. /\ Cardinality(SUBSET (1..n)) = 2^n /\ Cardinality(SUBSET (1..n)) \in Nat
      /\ Cardinality(SUBSET (1..(n + 1))) = 2^(n + 1)
  BY <1>1, FS_SUBSET, FS_CardinalityType
<1> QED
  BY <1>1, <1>2, <1>3, SubsetsDouble

LEMMA SmallestNumber ==
  ASSUME NEW Bad \in SUBSET Nat, Bad # {}
  PROVE  \E n \in Bad : \A m \in Nat : m < n => m \notin Bad
<1>1. PICK k \in Bad : TRUE
  OBVIOUS
<1> DEFINE Below == {T \in SUBSET (0..k) : \E n \in Bad : T = 0..n}
<1>2. IsFiniteSet(0..k)
  BY <1>1, FS_Interval
<1>3. 0..k \in Below
  BY <1>1
<1>4. Below \in SUBSET (SUBSET (0..k)) /\ Below # {}
  BY <1>3
<1>5. PICK T \in Below : \A U \in SUBSET T : U # T => U \notin Below
  <2> HIDE DEF Below
  <2> QED BY <1>2, <1>4, SmallestException
<1>6. PICK n \in Bad : T = 0..n
  BY <1>5
<1>7. ASSUME NEW m \in Bad, m < n PROVE FALSE
  <2>1. 0..m \in SUBSET T /\ n \in T /\ n \notin 0..m
    BY <1>6, <1>7
  <2>2. 0..m \in Below
    BY <1>5, <2>1
  <2> QED
    BY <1>5, <2>1, <2>2
<1> QED
  BY <1>6, <1>7

LEMMA PowerPositive ==
  ASSUME NEW n \in Nat
  PROVE  2^n \in Nat \ {0}
<1> DEFINE Bad == {k \in Nat : 2^k \notin Nat \ {0}}
<1> SUFFICES ASSUME Bad # {} PROVE FALSE
  OBVIOUS
<1>1. PICK k \in Bad : \A m \in Nat : m < k => m \notin Bad
  <2>1. Bad \in SUBSET Nat
    OBVIOUS
  <2> HIDE DEF Bad
  <2> QED BY <2>1, SmallestNumber
<1>2. 2^0 = 1
  OBVIOUS
<1>3. k \in Nat \ {0} /\ k - 1 \in Nat /\ k - 1 \notin Bad
  <2>1. k \in Nat /\ 2^k \notin Nat \ {0}
    BY <1>1
  <2>2. k # 0
    <3>1. 1 \in Nat \ {0}
      OBVIOUS
    <3> QED
      BY <1>2, <2>1, <3>1, Zenon
  <2> HIDE DEF Bad
  <2> QED
    BY <1>1, <2>1, <2>2
<1>4. 2^(k - 1) \in Nat \ {0} /\ 2^((k - 1) + 1) = 2 * 2^(k - 1)
  BY <1>3, PowerStep
<1>5. (k - 1) + 1 = k
  BY <1>3
<1> QED
  BY <1>1, <1>4, <1>5

LEMMA PowerSum ==
  ASSUME NEW m \in Nat, NEW n \in Nat
  PROVE  2^(m + n) = 2^m * 2^n
<1> DEFINE Bad == {k \in Nat : 2^(m + k) # 2^m * 2^k}
<1> SUFFICES ASSUME Bad # {} PROVE FALSE
  OBVIOUS
<1>1. PICK k \in Bad : \A l \in Nat : l < k => l \notin Bad
  <2>1. Bad \in SUBSET Nat
    OBVIOUS
  <2> HIDE DEF Bad
  <2> QED BY <2>1, SmallestNumber
<1>2. 2^0 = 1 /\ 2^m \in Nat /\ m + 0 = m
  BY PowerPositive
<1>3. k \in Nat \ {0} /\ k - 1 \in Nat /\ k - 1 \notin Bad
  <2>1. 2^m = 2^m * 1
    BY <1>2
  <2>2. k \in Nat /\ 2^(m + k) # 2^m * 2^k
    BY <1>1
  <2>3. k # 0
    BY <1>2, <2>1, <2>2
  <2> HIDE DEF Bad
  <2> QED
    BY <1>1, <2>2, <2>3
<1> DEFINE l == k - 1
<1>4. l \in Nat /\ k = l + 1 /\ m + k = (m + l) + 1 /\ m + l \in Nat
  BY <1>3
<1>5. 2^(m + l) = 2^m * 2^l
  BY <1>3
<1> HIDE DEF l
<1>6. 2^k = 2 * 2^l /\ 2^(m + k) = 2 * 2^(m + l) /\ 2^l \in Nat
  BY <1>4, PowerStep
<1>7. \A a, b \in Nat : 2 * (a * b) = a * (2 * b)
  OBVIOUS
<1>8. 2^(m + k) = 2^m * 2^k
  BY <1>2, <1>5, <1>6, <1>7
<1> QED
  BY <1>1, <1>8
=============================================================================
