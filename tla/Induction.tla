------------------------------- MODULE Induction ------------------------------
(***************************************************************************)
(* Induction and recursion for proofs about the folds and the recursive    *)
(* functions of the models.  Everything is stated with sets and functions. *)
(***************************************************************************)
EXTENDS Integers, Sequences, FiniteSets, FiniteSetsExt, SequencesExt,
        FiniteSetTheorems, WellFoundedInduction, TLAPS

\* A set of numbers that is not empty has a least one.
LEMMA LeastNumber ==
  ASSUME NEW T \in SUBSET Nat, T # {}
  PROVE  \E m \in T : \A k \in T : m <= k
<1> DEFINE R == OpToRel(<, Nat)
<1>1. IsWellFoundedOn(R, Nat)
  BY NatLessThanWellFounded
<1>2. \A x \in T, y \in T : y < x => <<y, x>> \in R
  BY DEF OpToRel
<1> HIDE DEF R
<1>3. PICK m \in T : \A k \in T : <<k, m>> \notin R
  BY <1>1, WFMin
<1>4. \A k \in T : ~(k < m)
  BY <1>2, <1>3
<1> QED BY <1>4

\* Induction: what holds for 0, and for n + 1 when for n, holds for all numbers.
LEMMA NumbersWith ==
  ASSUME NEW S, 0 \in S, \A n \in Nat : n \in S => n + 1 \in S
  PROVE  Nat \subseteq S
<1> SUFFICES ASSUME ~(Nat \subseteq S) PROVE FALSE
  OBVIOUS
<1> DEFINE T == Nat \ S
<1>1. T # {} /\ T \in SUBSET Nat
  OBVIOUS
<1>2. PICK m \in T : \A k \in T : m <= k
  <2> HIDE DEF T
  <2> QED BY <1>1, LeastNumber
<1>3. m # 0 /\ m - 1 \in Nat
  OBVIOUS
<1>4. m - 1 \in S
  BY <1>2, <1>3
<1> QED BY <1>3, <1>4

\* A finite set of numbers that is not empty has a greatest one.
LEMMA GreatestNumber ==
  ASSUME NEW n \in Nat, NEW u \in SUBSET (1..n), u # {}
  PROVE  Max(u) \in u /\ \A k \in u : k <= Max(u)
<1> DEFINE T == {n - k : k \in u}
<1>1. T # {} /\ T \in SUBSET Nat
  <2>1. \A k \in u : n - k \in Nat
    OBVIOUS
  <2>2. PICK k \in u : TRUE
    OBVIOUS
  <2>3. n - k \in T
    OBVIOUS
  <2> QED BY <2>1, <2>3
<1>2. PICK m \in T : \A k \in T : m <= k
  <2> HIDE DEF T
  <2> QED BY <1>1, LeastNumber
<1>3. PICK x \in u : m = n - x
  OBVIOUS
<1>4. \A k \in u : x >= k
  <2>1. TAKE k \in u
  <2>2. m <= n - k
    BY <1>2
  <2> QED BY <1>3, <2>2
<1>5. Max(u) \in u /\ \A k \in u : Max(u) >= k
  BY <1>4, Zenon DEF Max
<1> QED BY <1>5

\* A function may be defined by recursion over 0..n.
LEMMA RecursionOverNumbers ==
  ASSUME NEW n \in Nat, NEW V, NEW b \in V, NEW F \in [(1..n) \X V -> V]
  PROVE  \E f \in [0..n -> V] :
           f = [i \in 0..n |-> IF i = 0 THEN b ELSE F[<<i, f[i - 1]>>]]
<1> DEFINE Good(f, k) == f = [i \in 0..k |-> IF i = 0 THEN b ELSE F[<<i, f[i - 1]>>]]
           S == {k \in Nat : k <= n => \E f \in [0..k -> V] : Good(f, k)}
<1>1. 0 \in S
  <2>1. Good([i \in 0..0 |-> b], 0)
    OBVIOUS
  <2> QED BY <2>1
<1>2. ASSUME NEW k \in Nat, k \in S PROVE k + 1 \in S
  <2> SUFFICES ASSUME k + 1 <= n PROVE \E f \in [0..(k + 1) -> V] : Good(f, k + 1)
    OBVIOUS
  <2>1. PICK g \in [0..k -> V] : Good(g, k)
    BY <1>2
  <2> DEFINE f == [i \in 0..(k + 1) |-> IF i = k + 1 THEN F[<<k + 1, g[k]>>] ELSE g[i]]
  <2>2. f \in [0..(k + 1) -> V]
    OBVIOUS
  <2>3. ASSUME NEW i \in 0..(k + 1)
        PROVE  f[i] = IF i = 0 THEN b ELSE F[<<i, f[i - 1]>>]
    <3>1. CASE i = k + 1
      <4>1. i - 1 = k /\ i # 0 /\ k \in 0..(k + 1) /\ k # k + 1
        BY <3>1
      <4>2. f[k] = g[k]
        BY <4>1
      <4>3. f[i] = F[<<i, g[k]>>]
        BY <3>1
      <4> QED BY <4>1, <4>2, <4>3
    <3>2. CASE i # k + 1
      <4>1. i \in 0..k /\ f[i] = g[i]
        BY <3>2
      <4>2. i # 0 => i - 1 \in 0..k /\ f[i - 1] = g[i - 1]
        BY <4>1
      <4>3. g[i] = IF i = 0 THEN b ELSE F[<<i, g[i - 1]>>]
        BY <2>1, <4>1
      <4> QED BY <4>1, <4>2, <4>3
    <3> QED BY <3>1, <3>2
  <2>4. Good(f, k + 1)
    BY <2>3
  <2> HIDE DEF f
  <2> QED BY <2>2, <2>4
<1>3. n \in S
  <2> HIDE DEF S
  <2> QED BY <1>1, <1>2, NumbersWith
<1> QED BY <1>3

\* Recursion over the subsets of a finite set, as in the folds: c picks the
\* element that goes next.
Picks(c, D) == \A u \in SUBSET D : u # {} => c[u] \in u
Recurs(f, D, c, b, F) ==
  \A u \in SUBSET D : f[u] = IF u = {} THEN b ELSE F[<<c[u], f[u \ {c[u]}]>>]

LEMMA RecursionOverSubsets ==
  ASSUME NEW D, IsFiniteSet(D), NEW c, Picks(c, D),
         NEW V, NEW b \in V, NEW F \in [D \X V -> V]
  PROVE  \E f \in [SUBSET D -> V] : Recurs(f, D, c, b, F)
<1> USE DEF Picks, Recurs
<1> DEFINE Small(k) == {u \in SUBSET D : Cardinality(u) <= k}
           Good(f, k) == \A u \in Small(k) :
                           f[u] = IF u = {} THEN b ELSE F[<<c[u], f[u \ {c[u]}]>>]
           S == {k \in Nat : \E f \in [Small(k) -> V] : Good(f, k)}
<1>0. \A u \in SUBSET D :
        /\ IsFiniteSet(u) /\ Cardinality(u) \in Nat /\ (Cardinality(u) = 0 <=> u = {})
        /\ u # {} => Cardinality(u \ {c[u]}) = Cardinality(u) - 1
  <2>1. TAKE u \in SUBSET D
  <2>2. IsFiniteSet(u)
    BY FS_Subset
  <2>3. u # {} => Cardinality(u \ {c[u]}) = Cardinality(u) - 1
    BY <2>2, FS_RemoveElement
  <2> QED BY <2>2, <2>3, FS_CardinalityType, FS_EmptySet
<1>1. 0 \in S
  <2> DEFINE f == [u \in Small(0) |-> b]
  <2>1. \A u \in Small(0) : u = {}
    <3>1. TAKE u \in Small(0)
    <3>2. u \in SUBSET D /\ Cardinality(u) <= 0
      OBVIOUS
    <3>3. Cardinality(u) \in Nat /\ (Cardinality(u) = 0 <=> u = {})
      BY <1>0, <3>2
    <3> QED BY <3>2, <3>3
  <2>2. f \in [Small(0) -> V] /\ Good(f, 0)
    BY <2>1
  <2> HIDE DEF f
  <2> QED BY <2>2
<1>2. ASSUME NEW k \in Nat, k \in S PROVE k + 1 \in S
  <2>1. PICK g \in [Small(k) -> V] : Good(g, k)
    BY <1>2
  <2> DEFINE f == [u \in Small(k + 1) |->
                     IF u = {} THEN b ELSE F[<<c[u], g[u \ {c[u]}]>>]]
  <2>2. \A u \in Small(k + 1) : u # {} => /\ c[u] \in D /\ u \ {c[u]} \in Small(k)
                                           /\ u \ {c[u]} \in Small(k + 1)
    BY <1>0
  <2>3. f \in [Small(k + 1) -> V]
    BY <2>2
  <2>4. \A u \in Small(k) : u \in Small(k + 1) /\ f[u] = g[u]
    <3>1. TAKE u \in Small(k)
    <3>2. u \in Small(k + 1)
      <4>1. u \in SUBSET D /\ Cardinality(u) <= k
        OBVIOUS
      <4>2. Cardinality(u) \in Nat
        BY <1>0, <4>1
      <4>3. Cardinality(u) <= k + 1
        BY <4>1, <4>2
      <4> QED BY <4>1, <4>3
    <3> QED BY <2>1, <3>2
  <2>5. Good(f, k + 1)
    BY <2>2, <2>4
  <2> HIDE DEF f, Good, Small
  <2>6. \E h \in [Small(k + 1) -> V] : Good(h, k + 1)
    BY <2>3, <2>5
  <2> QED BY <2>6
<1>3. Cardinality(D) \in S
  <2>1. Cardinality(D) \in Nat
    BY FS_CardinalityType
  <2> HIDE DEF S
  <2> QED BY <1>1, <1>2, <2>1, NumbersWith
<1>4. PICK f \in [Small(Cardinality(D)) -> V] : Good(f, Cardinality(D))
  BY <1>3
<1>5. Small(Cardinality(D)) = SUBSET D
  BY FS_Subset
<1>6. \A u \in SUBSET D : f[u] = IF u = {} THEN b ELSE F[<<c[u], f[u \ {c[u]}]>>]
  BY <1>4, <1>5
<1>7. f \in [SUBSET D -> V]
  BY <1>4, <1>5
<1> QED BY <1>6, <1>7

\* The sets of positions that FoldLeft() visits.
LEMMA Intervals ==
  ASSUME NEW n \in Nat, NEW i \in 1..n
  PROVE  /\ 1..i \in SUBSET (1..n) /\ 1..i # {}
         /\ Max(1..i) = i /\ (1..i) \ {Max(1..i)} = 1..(i - 1)
<1>1. 1..i \in SUBSET (1..n) /\ i \in 1..i /\ 1..i # {}
  OBVIOUS
<1>2. Max(1..i) \in 1..i /\ i <= Max(1..i)
  BY <1>1, GreatestNumber
<1>3. Max(1..i) = i
  BY <1>2
<1>4. (1..i) \ {i} = 1..(i - 1)
  OBVIOUS
<1> QED BY <1>1, <1>3, <1>4

\* The function over sets of positions that a FoldLeft() is.
Folds(f, n, b, F) ==
  \A u \in SUBSET (1..n) : f[u] = IF u = {} THEN b ELSE F[<<Max(u), f[u \ {Max(u)}]>>]

LEMMA FoldLeftSteps ==
  ASSUME NEW n \in Nat, NEW V, NEW b \in V, NEW F \in [(1..n) \X V -> V]
  PROVE  \E f \in [SUBSET (1..n) -> V] : Folds(f, n, b, F)
<1> DEFINE c == [u \in SUBSET (1..n) |-> Max(u)]
<1>1. IsFiniteSet(1..n)
  BY FS_Interval
<1>2. \A u \in SUBSET (1..n) : c[u] = Max(u) /\ (u # {} => c[u] \in u)
  BY GreatestNumber
<1> HIDE DEF c
<1>3. PICK f \in [SUBSET (1..n) -> V] : Recurs(f, 1..n, c, b, F)
  <2>1. Picks(c, 1..n)
    BY <1>2 DEF Picks
  <2> QED BY <1>1, <2>1, RecursionOverSubsets
<1>4. Folds(f, n, b, F)
  BY <1>2, <1>3 DEF Recurs, Folds
<1> QED BY <1>4
===============================================================================
