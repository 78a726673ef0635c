------------------------------ MODULE NatLemmas ------------------------------
(***************************************************************************)
(* Facts about the natural numbers that several proofs need.  The library  *)
(* states the least-number principle for predicates; here it is one about  *)
(* sets, which the provers can instantiate.                                *)
(***************************************************************************)
EXTENDS Integers, FiniteSets, WellFoundedInduction, FiniteSetTheorems, TLAPS

\* Every nonempty set of natural numbers has a least element.
LEMMA LeastNumber ==
  ASSUME NEW T \in SUBSET Nat, T # {}
  PROVE  \E w \in T : \A v \in T : w <= v
<1> DEFINE R == {ss \in Nat \X Nat : ss[1] < ss[2]}
<1>1. IsWellFoundedOn(R, Nat)
  BY NatLessThanWellFounded, Zenon DEF OpToRel
<1> HIDE DEF R
<1>2. PICK w \in T : \A v \in T : <<v, w>> \notin R
  BY <1>1, WFMin, Zenon
<1>3. \A v \in T : ~(v < w)
  BY <1>2 DEF R
<1> QED BY <1>3

\* Induction from a to n, for the set of the numbers at which a fact fails.
LEMMA StepByStep ==
  ASSUME NEW a \in Nat, NEW n \in Nat, NEW T \in SUBSET (a .. n), a \notin T,
         \A k \in a + 1 .. n : k - 1 \notin T => k \notin T
  PROVE  T = {}
<1> SUFFICES ASSUME T # {} PROVE FALSE
  OBVIOUS
<1>1. T \in SUBSET Nat
  OBVIOUS
<1>2. PICK k \in T : \A j \in T : k <= j
  BY <1>1, LeastNumber
<1>3. k \in a + 1 .. n /\ k - 1 \notin T
  BY <1>2
<1> QED BY <1>3

\* A value at a and a step that gives each further value from the one before
\* it define a function.
RecursionFrom(f, base, next, a, n) ==
  \A k \in a .. n : f[k] = IF k = a THEN base ELSE next[<<k, f[k - 1]>>]

LEMMA RecursionExists ==
  ASSUME NEW S, NEW base \in S, NEW a \in Nat, NEW n \in Nat, NEW next,
         \A k \in a + 1 .. n : \A v \in S : next[<<k, v>>] \in S
  PROVE  \E f \in [a .. n -> S] : RecursionFrom(f, base, next, a, n)
<1> DEFINE Exists(m) == \E f \in [a .. m -> S] : RecursionFrom(f, base, next, a, m)
           T == {m \in a .. n : ~Exists(m)}
<1>1. CASE n < a
  <2>1. a .. n = {}
    BY <1>1
  <2>2. [k \in a .. n |-> base] \in [a .. n -> S]
    OBVIOUS
  <2> QED BY <2>1, <2>2 DEF RecursionFrom
<1>2. CASE a <= n
  <2>1. a \notin T
    <3>1. [k \in a .. a |-> base] \in [a .. a -> S]
      OBVIOUS
    <3>2. RecursionFrom([k \in a .. a |-> base], base, next, a, a)
      BY DEF RecursionFrom
    <3> QED BY <3>1, <3>2
  <2>2. ASSUME NEW k \in a + 1 .. n, k - 1 \notin T PROVE k \notin T
    <3>0. k - 1 \in a .. n /\ k \in a .. n
      OBVIOUS
    <3>1. PICK f \in [a .. k - 1 -> S] : RecursionFrom(f, base, next, a, k - 1)
      BY <2>2, <3>0
    <3> DEFINE g == [m \in a .. k |-> IF m = k THEN next[<<k, f[k - 1]>>] ELSE f[m]]
    <3>2. k - 1 \in a .. k - 1 /\ f[k - 1] \in S
      BY <3>0
    <3>3. next[<<k, f[k - 1]>>] \in S
      BY <3>2
    <3>4. g \in [a .. k -> S]
      BY <3>3
    <3>5. ASSUME NEW m \in a .. k PROVE g[m] = IF m = a THEN base ELSE next[<<m, g[m - 1]>>]
      <4>1. m # a => g[m - 1] = f[m - 1]
        OBVIOUS
      <4>2. m # k => f[m] = IF m = a THEN base ELSE next[<<m, f[m - 1]>>]
        BY <3>1 DEF RecursionFrom
      <4>3. m = k => m # a
        OBVIOUS
      <4> QED BY <4>1, <4>2, <4>3
    <3>6. RecursionFrom(g, base, next, a, k)
      BY <3>5 DEF RecursionFrom
    <3> QED BY <3>4, <3>6
  <2> HIDE DEF Exists
  <2>3. T \in SUBSET (a .. n)
    OBVIOUS
  <2> HIDE DEF T
  <2>4. T = {}
    BY <2>1, <2>2, <2>3, StepByStep
  <2>5. n \in a .. n
    BY <1>2
  <2> QED BY <2>4, <2>5 DEF T, Exists
<1> QED BY <1>1, <1>2

\* A finite nonempty set of natural numbers has a greatest element.
LEMMA GreatestNumber ==
  ASSUME NEW S \in SUBSET Nat, IsFiniteSet(S), S # {}
  PROVE  \E m \in S : \A k \in S : k <= m
<1> DEFINE n == Cardinality(S)
           Top(U, m) == m \in U /\ \A k \in U : k <= m
           T == {j \in 1 .. n : \E U \in SUBSET S : Cardinality(U) = j /\ ~ \E m \in U : Top(U, m)}
<1>0. n \in Nat \ {0} /\ \A U \in SUBSET S : IsFiniteSet(U) /\ Cardinality(U) \in Nat
  BY FS_EmptySet, FS_CardinalityType, FS_Subset
<1>1. 1 \notin T
  <2> SUFFICES ASSUME NEW U \in SUBSET S, Cardinality(U) = 1 PROVE \E m \in U : Top(U, m)
    OBVIOUS
  <2>1. PICK m : U = {m}
    BY <1>0, FS_Singleton
  <2> QED BY <2>1
<1>2. ASSUME NEW j \in 2 .. n, j - 1 \notin T PROVE j \notin T
  <2> SUFFICES ASSUME NEW U \in SUBSET S, Cardinality(U) = j PROVE \E m \in U : Top(U, m)
    OBVIOUS
  <2>1. U # {} /\ IsFiniteSet(U)
    BY <1>0, FS_EmptySet
  <2>2. PICK x \in U : TRUE
    BY <2>1
  <2>3. Cardinality(U \ {x}) = j - 1 /\ U \ {x} \in SUBSET S /\ j - 1 \in 1 .. n
    <3>1. Cardinality(U \ {x}) = j - 1
      BY <2>1, FS_RemoveElement
    <3>2. U \ {x} \in SUBSET S
      OBVIOUS
    <3>3. j - 1 \in 1 .. n
      BY <1>0
    <3> QED BY <3>1, <3>2, <3>3
  <2>4. PICK m \in U \ {x} : Top(U \ {x}, m)
    BY <1>2, <2>3
  <2>5. m \in Nat /\ x \in Nat /\ \A k \in U : k \in Nat /\ (k = x \/ k <= m)
    BY <2>4
  <2>6. m <= x \/ x <= m
    BY <2>5
  <2>7. CASE m <= x
    <3>1. \A k \in U : k <= x
      BY <2>5, <2>7
    <3> QED BY <3>1
  <2>8. CASE x <= m
    BY <2>5, <2>8
  <2> QED BY <2>6, <2>7, <2>8
<1>3. T = {}
  <2>1. T \in SUBSET (1 .. n) /\ 1 \in Nat /\ n \in Nat
    BY <1>0
  <2>2. \A j \in 1 + 1 .. n : j - 1 \notin T => j \notin T
    BY <1>2
  <2> HIDE DEF T
  <2> QED BY <1>1, <2>1, <2>2, StepByStep
<1>4. n \in 1 .. n /\ S \in SUBSET S
  BY <1>0
<1> QED BY <1>3, <1>4

\* The elements of a finite set of natural numbers, in order.
LEMMA InIncreasingOrder ==
  ASSUME NEW S \in SUBSET Nat, IsFiniteSet(S)
  PROVE  \E s \in [1 .. Cardinality(S) -> S] : \A i, j \in DOMAIN s : i < j => s[i] < s[j]
<1> DEFINE n == Cardinality(S)
           Sorted(U) == \E s \in [1 .. Cardinality(U) -> U] : \A i, j \in DOMAIN s : i < j => s[i] < s[j]
           T == {k \in 0 .. n : \E U \in SUBSET S : Cardinality(U) = k /\ ~Sorted(U)}
<1>0. n \in Nat /\ \A U \in SUBSET S : IsFiniteSet(U) /\ Cardinality(U) \in Nat
  BY FS_CardinalityType, FS_Subset
<1>1. 0 \notin T
  <2> SUFFICES ASSUME NEW U \in SUBSET S, Cardinality(U) = 0 PROVE Sorted(U)
    OBVIOUS
  <2>1. U = {} /\ 1 .. Cardinality(U) = {}
    BY <1>0, FS_EmptySet
  <2>2. [i \in {} |-> i] \in [1 .. Cardinality(U) -> U]
    BY <2>1
  <2> QED BY <2>1, <2>2
<1>2. ASSUME NEW k \in 1 .. n, k - 1 \notin T PROVE k \notin T
  <2> SUFFICES ASSUME NEW U \in SUBSET S, Cardinality(U) = k PROVE Sorted(U)
    OBVIOUS
  <2>1. U # {} /\ IsFiniteSet(U) /\ U \in SUBSET Nat
    BY <1>0, FS_EmptySet
  <2>2. PICK m \in U : \A j \in U : j <= m
    BY <2>1, GreatestNumber
  <2>3. Cardinality(U \ {m}) = k - 1 /\ U \ {m} \in SUBSET S /\ k - 1 \in 0 .. n
    <3>1. Cardinality(U \ {m}) = k - 1
      BY <2>1, FS_RemoveElement
    <3>2. U \ {m} \in SUBSET S
      OBVIOUS
    <3>3. k - 1 \in 0 .. n
      BY <1>0
    <3> QED BY <3>1, <3>2, <3>3
  <2>4. PICK s \in [1 .. k - 1 -> U \ {m}] : \A i, j \in DOMAIN s : i < j => s[i] < s[j]
    BY <1>2, <2>3
  <2> DEFINE r == [i \in 1 .. k |-> IF i = k THEN m ELSE s[i]]
  <2>5. \A i \in 1 .. k : i # k => i \in 1 .. k - 1
    OBVIOUS
  <2>6. r \in [1 .. k -> U]
    BY <2>4, <2>5
  <2>7. \A i \in 1 .. k - 1 : s[i] \in Nat /\ m \in Nat /\ s[i] < m
    <3> SUFFICES ASSUME NEW i \in 1 .. k - 1 PROVE s[i] \in Nat /\ m \in Nat /\ s[i] < m
      OBVIOUS
    <3>1. s[i] \in U /\ s[i] # m /\ s[i] <= m
      BY <2>2, <2>4
    <3>2. s[i] \in Nat /\ m \in Nat
      BY <2>1, <3>1
    <3> QED BY <3>1, <3>2
  <2>8. ASSUME NEW i \in 1 .. k, NEW j \in 1 .. k, i < j PROVE r[i] < r[j]
    <3>1. i \in 1 .. k - 1
      BY <2>8
    <3>2. CASE j = k
      BY <2>7, <3>1, <3>2
    <3>3. CASE j # k
      BY <2>4, <2>5, <2>8, <3>1, <3>3
    <3> QED BY <3>2, <3>3
  <2>9. DOMAIN r = 1 .. k
    OBVIOUS
  <2> HIDE DEF r
  <2> QED BY <2>6, <2>8, <2>9
<1>3. T = {}
  <2>1. T \in SUBSET (0 .. n) /\ 0 \in Nat /\ n \in Nat
    BY <1>0
  <2>2. \A k \in 0 + 1 .. n : k - 1 \notin T => k \notin T
    BY <1>2
  <2> HIDE DEF T
  <2> QED BY <1>1, <2>1, <2>2, StepByStep
<1>4. n \in 0 .. n /\ S \in SUBSET S
  BY <1>0
<1> QED BY <1>3, <1>4
=============================================================================
