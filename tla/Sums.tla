-------------------------------- MODULE Sums --------------------------------
(***************************************************************************)
(* Sums over finite sets, as MapThenSumSet computes them: what the proofs  *)
(* about ether, open checkpoints and storage costs need.  A sum is the     *)
(* number of its units, added less taken away, so that the theorems about  *)
(* cardinalities apply.                                                    *)
(***************************************************************************)
EXTENDS FiniteSetsExt, FiniteSetTheorems, TLAPS

\* The recursion of MapThenFoldSet for sums, and what it comes to.
Recursion(A, f) ==
  CHOOSE sum : sum = [s \in SUBSET A |->
    IF s = {} THEN 0
    ELSE f[CHOOSE x \in s : TRUE] + sum[s \ {CHOOSE x \in s : TRUE}]]
Total(A, f) == Recursion(A, f)[A]

Units(s, f) == {u \in s \X Nat : u[2] \in 1 .. f[u[1]]}
-----------------------------------------------------------------------------
\* A set of numbers has a least one.
LEMMA Least ==
  ASSUME NEW S \in SUBSET Nat, S # {}
  PROVE  \E m \in S : \A k \in S : m <= k
<1> DEFINE R == OpToRel(<, Nat)
<1>1. IsWellFoundedOn(R, Nat)
  BY NatLessThanWellFounded
<1>2. R = {ss \in Nat \X Nat : ss[1] < ss[2]}
  BY DEF OpToRel
<1> HIDE DEF R
<1>3. PICK m \in S : \A k \in S : ~(<<k, m>> \in R)
  BY <1>1, WFMin
<1>4. \A k \in S : ~(k < m)
  BY <1>3, <1>2
<1> QED BY <1>4

\* The units of one element.
LEMMA UnitsOfOne ==
  ASSUME NEW x, NEW n \in Nat
  PROVE  IsFiniteSet({x} \X (1 .. n)) /\ Cardinality({x} \X (1 .. n)) = n
<1>1. IsFiniteSet({x}) /\ Cardinality({x}) = 1
  BY FS_Singleton
<1>2. IsFiniteSet(1 .. n) /\ Cardinality(1 .. n) = n
  BY FS_Interval
<1> DEFINE S == {x}
           T == 1 .. n
<1> HIDE DEF S, T
<1>3. /\ IsFiniteSet(S \X T)
      /\ Cardinality(S \X T) = Cardinality(S) * Cardinality(T)
  BY <1>1, <1>2, FS_Product DEF S, T
<1>4. Cardinality(S) = 1 /\ Cardinality(T) = n
  BY <1>1, <1>2 DEF S, T
<1>5. Cardinality(S \X T) = n
  BY <1>3, <1>4
<1> QED BY <1>3, <1>5 DEF S, T

LEMMA UnitsFinite ==
  ASSUME NEW A, IsFiniteSet(A), NEW f \in [A -> Nat], NEW s \in SUBSET A
  PROVE  IsFiniteSet(Units(s, f)) /\ Cardinality(Units(s, f)) \in Nat
<1> DEFINE g == [x \in A |-> {x} \X (1 .. f[x])]
           T == {g[x] : x \in A}
<1>1. g \in Surjection(A, T)
  BY DEF Surjection
<1>2. IsFiniteSet(T)
  <2> HIDE DEF g, T
  <2> QED BY <1>1, FS_Surjection
<1>3. \A t \in T : IsFiniteSet(t)
  <2> SUFFICES ASSUME NEW x \in A PROVE IsFiniteSet(g[x])
    OBVIOUS
  <2>1. f[x] \in Nat /\ g[x] = {x} \X (1 .. f[x])
    OBVIOUS
  <2> QED BY <2>1, UnitsOfOne
<1>4. IsFiniteSet(UNION T)
  <2> HIDE DEF T
  <2> QED BY <1>2, <1>3, FS_UNION
<1>5. Units(s, f) \subseteq UNION T
  <2> SUFFICES ASSUME NEW u \in Units(s, f) PROVE u \in g[u[1]] /\ u[1] \in A
    OBVIOUS
  <2> QED BY DEF Units
<1> HIDE DEF T
<1> QED BY <1>4, <1>5, FS_Subset, FS_CardinalityType

LEMMA UnitsSplit ==
  ASSUME NEW A, IsFiniteSet(A), NEW f \in [A -> Nat], NEW s \in SUBSET A, NEW x \in s
  PROVE  Cardinality(Units(s, f)) = f[x] + Cardinality(Units(s \ {x}, f))
<1> DEFINE rest == Units(s \ {x}, f)
           own == {x} \X (1 .. f[x])
<1>1. Units(s, f) = own \cup rest
  BY DEF Units
<1>2. own \cap rest = {}
  BY DEF Units
<1>3. IsFiniteSet(rest) /\ Cardinality(rest) \in Nat
  BY UnitsFinite
<1>4. IsFiniteSet(own) /\ Cardinality(own) = f[x] /\ f[x] \in Nat
  BY UnitsOfOne
<1> HIDE DEF own, rest
<1>5. Cardinality(own \cup rest) = f[x] + Cardinality(rest) - Cardinality({})
  BY <1>2, <1>3, <1>4, FS_Union
<1>6. Cardinality({}) = 0
  BY FS_EmptySet
<1> QED BY <1>1, <1>3, <1>4, <1>5, <1>6 DEF rest

\* A sum of differences is the units that are added less those taken away.
LEMMA TotalIsDifference ==
  ASSUME NEW A, IsFiniteSet(A), NEW f \in [A -> Int],
         NEW p \in [A -> Nat], NEW q \in [A -> Nat], \A x \in A : f[x] = p[x] - q[x]
  PROVE  Total(A, f) = Cardinality(Units(A, p)) - Cardinality(Units(A, q))
<1> DEFINE pick(s) == CHOOSE x \in s : TRUE
           count == [s \in SUBSET A |-> Cardinality(Units(s, p)) - Cardinality(Units(s, q))]
           Solves(sum) == sum = [s \in SUBSET A |->
                            IF s = {} THEN 0 ELSE f[pick(s)] + sum[s \ {pick(s)}]]
<1>1. Solves(count)
  <2>1. ASSUME NEW s \in SUBSET A
        PROVE  count[s] = IF s = {} THEN 0 ELSE f[pick(s)] + count[s \ {pick(s)}]
    <3>1. CASE s = {}
      <4>1. Units(s, p) = {} /\ Units(s, q) = {}
        BY <3>1 DEF Units
      <4>2. Cardinality({}) = 0
        BY FS_EmptySet
      <4>3. count[s] = 0
        BY <4>1, <4>2
      <4> HIDE DEF count, pick
      <4> QED BY <3>1, <4>3
    <3>2. CASE s # {}
      <4>1. pick(s) \in s /\ s \ {pick(s)} \in SUBSET A
        BY <3>2
      <4> HIDE DEF pick
      <4>2. PICK x \in s : x = pick(s)
        BY <4>1
      <4>3. /\ Cardinality(Units(s, p)) = p[x] + Cardinality(Units(s \ {x}, p))
            /\ Cardinality(Units(s, q)) = q[x] + Cardinality(Units(s \ {x}, q))
        BY UnitsSplit
      <4>4. /\ Cardinality(Units(s \ {x}, p)) \in Nat
            /\ Cardinality(Units(s \ {x}, q)) \in Nat
        BY UnitsFinite
      <4>5. f[x] = p[x] - q[x] /\ p[x] \in Nat /\ q[x] \in Nat
        OBVIOUS
      <4> QED BY <3>2, <4>1, <4>2, <4>3, <4>4, <4>5
    <3> QED BY <3>1, <3>2
  <2> HIDE DEF pick
  <2> QED BY <2>1
<1> DEFINE sum == Recursion(A, f)
<1>2. Solves(sum)
  BY <1>1 DEF Recursion
<1> HIDE DEF sum
<1>3. \A s \in SUBSET A : sum[s] = count[s]
  <2> SUFFICES ASSUME NEW s0 \in SUBSET A, sum[s0] # count[s0] PROVE FALSE
    OBVIOUS
  <2> DEFINE Sizes == {n \in Nat : \E s \in SUBSET A : Cardinality(s) = n /\ sum[s] # count[s]}
  <2>1. Cardinality(s0) \in Sizes
    BY FS_Subset, FS_CardinalityType
  <2>2. PICK n \in Sizes : \A k \in Sizes : n <= k
    <3> HIDE DEF Sizes
    <3>1. Sizes \in SUBSET Nat
      BY DEF Sizes
    <3> QED BY <2>1, <3>1, Least
  <2>3. PICK s \in SUBSET A : Cardinality(s) = n /\ sum[s] # count[s]
    OBVIOUS
  <2>4. s # {}
    BY <2>3, <1>1, <1>2
  <2>5. pick(s) \in s
    BY <2>4
  <2> DEFINE rest == s \ {pick(s)}
  <2> HIDE DEF pick, count
  <2>6. rest \in SUBSET A /\ IsFiniteSet(s)
    BY FS_Subset
  <2>7. sum[s] = f[pick(s)] + sum[rest] /\ count[s] = f[pick(s)] + count[rest]
    BY <2>4, <2>6, <1>1, <1>2
  <2>8. Cardinality(rest) = n - 1 /\ Cardinality(rest) \in Nat
    BY <2>3, <2>5, <2>6, FS_RemoveElement, FS_CardinalityType
  <2>9. Cardinality(rest) \notin Sizes
    <3>1. ASSUME Cardinality(rest) \in Sizes PROVE FALSE
      <4>1. n <= n - 1
        BY <2>2, <2>8, <3>1
      <4> QED BY <4>1
    <3> QED BY <3>1
  <2>10. sum[rest] = count[rest]
    BY <2>6, <2>8, <2>9
  <2> QED BY <2>3, <2>7, <2>10
<1>4. /\ count[A] = Cardinality(Units(A, p)) - Cardinality(Units(A, q))
      /\ A \in SUBSET A
  OBVIOUS
<1> HIDE DEF count
<1> QED BY <1>3, <1>4 DEF Total, sum

\* A sum of natural numbers is the number of its units.
LEMMA TotalIsUnits ==
  ASSUME NEW A, IsFiniteSet(A), NEW f \in [A -> Nat]
  PROVE  Total(A, f) = Cardinality(Units(A, f))
<1> DEFINE none == [x \in A |-> 0]
<1>1. Units(A, none) = {}
  BY DEF Units
<1>2. none \in [A -> Nat] /\ f \in [A -> Int] /\ \A x \in A : f[x] = f[x] - none[x]
  OBVIOUS
<1> HIDE DEF none
<1>3. Total(A, f) = Cardinality(Units(A, f)) - Cardinality(Units(A, none))
  BY <1>2, TotalIsDifference
<1>4. Cardinality(Units(A, f)) \in Nat
  BY UnitsFinite
<1> QED BY <1>1, <1>3, <1>4, FS_EmptySet
-----------------------------------------------------------------------------
(* What the proofs use.                                                    *)

LEMMA TotalType ==
  ASSUME NEW A, IsFiniteSet(A), NEW f \in [A -> Nat]
  PROVE  Total(A, f) \in Nat
BY TotalIsUnits, UnitsFinite

\* No part is larger than the sum.
LEMMA TotalBounds ==
  ASSUME NEW A, IsFiniteSet(A), NEW f \in [A -> Nat], NEW x \in A
  PROVE  f[x] <= Total(A, f)
<1>1. Cardinality(Units(A, f)) = f[x] + Cardinality(Units(A \ {x}, f))
  BY UnitsSplit
<1>2. Cardinality(Units(A \ {x}, f)) \in Nat
  BY UnitsFinite
<1> QED BY <1>1, <1>2, TotalIsUnits

\* Changing one part changes the sum by as much.
LEMMA DifferenceChanges ==
  ASSUME NEW A, IsFiniteSet(A), NEW f \in [A -> Int], NEW g \in [A -> Int], NEW x \in A,
         \A y \in A \ {x} : f[y] = g[y]
  PROVE  Total(A, f) \in Int /\ Total(A, g) = Total(A, f) + g[x] - f[x]
<1> DEFINE Up(h) == [y \in A |-> IF h[y] >= 0 THEN h[y] ELSE 0]
           Down(h) == [y \in A |-> IF h[y] >= 0 THEN 0 ELSE -h[y]]
           rest == A \ {x}
<1>1. /\ Up(f) \in [A -> Nat] /\ Down(f) \in [A -> Nat]
      /\ \A y \in A : f[y] = Up(f)[y] - Down(f)[y]
  OBVIOUS
<1>2. /\ Up(g) \in [A -> Nat] /\ Down(g) \in [A -> Nat]
      /\ \A y \in A : g[y] = Up(g)[y] - Down(g)[y]
  OBVIOUS
<1>3. \A y \in rest : Up(f)[y] = Up(g)[y] /\ Down(f)[y] = Down(g)[y]
  OBVIOUS
<1> HIDE DEF Up, Down
<1>4. /\ Total(A, f) = Cardinality(Units(A, Up(f))) - Cardinality(Units(A, Down(f)))
      /\ Total(A, g) = Cardinality(Units(A, Up(g))) - Cardinality(Units(A, Down(g)))
  BY <1>1, <1>2, TotalIsDifference
<1>5. /\ Cardinality(Units(A, Up(f))) = Up(f)[x] + Cardinality(Units(rest, Up(f)))
      /\ Cardinality(Units(A, Down(f))) = Down(f)[x] + Cardinality(Units(rest, Down(f)))
      /\ Cardinality(Units(rest, Up(f))) \in Nat /\ Cardinality(Units(rest, Down(f))) \in Nat
  BY <1>1, UnitsSplit, UnitsFinite
<1>6. /\ Cardinality(Units(A, Up(g))) = Up(g)[x] + Cardinality(Units(rest, Up(g)))
      /\ Cardinality(Units(A, Down(g))) = Down(g)[x] + Cardinality(Units(rest, Down(g)))
  BY <1>2, UnitsSplit
<1>7. Units(rest, Up(f)) = Units(rest, Up(g)) /\ Units(rest, Down(f)) = Units(rest, Down(g))
  BY <1>3 DEF Units
<1>8. /\ Up(f)[x] \in Nat /\ Down(f)[x] \in Nat /\ f[x] = Up(f)[x] - Down(f)[x]
      /\ Up(g)[x] \in Nat /\ Down(g)[x] \in Nat /\ g[x] = Up(g)[x] - Down(g)[x]
  BY <1>1, <1>2
<1> QED BY <1>4, <1>5, <1>6, <1>7, <1>8

LEMMA TotalChanges ==
  ASSUME NEW A, IsFiniteSet(A), NEW f \in [A -> Nat], NEW g \in [A -> Nat], NEW x \in A,
         \A y \in A \ {x} : f[y] = g[y]
  PROVE  Total(A, g) = Total(A, f) + g[x] - f[x]
<1>1. f \in [A -> Int] /\ g \in [A -> Int]
  OBVIOUS
<1> QED BY <1>1, DifferenceChanges
=============================================================================
