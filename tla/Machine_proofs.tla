--------------------------- MODULE Machine_proofs ---------------------------
(***************************************************************************)
(* Running code is running the machine: Execution implements Machine, for  *)
(* every code, hardfork, start, gas, environment and size of words.        *)
(*                                                                         *)
(* The argument: what the handlers compute with sums of bits, two's        *)
(* complements and masks is what the operations mean as residues; the      *)
(* jumps that are found are the instructions' positions; what is charged   *)
(* covers the accesses; and a handler that refuses has one of the          *)
(* machine's reasons, one that does not has none.  Then each handler is a  *)
(* step of the machine, and everything else is a step of it or none.       *)
(***************************************************************************)
EXTENDS Execution_proofs

----------------------------------------------------------------------------
(* Two's complement.                                                        *)

\* A sum of powers and the sum of the others make all ones.
LEMMA Complement ==
  ASSUME NEW w, Powered(w), NEW S \in SUBSET (0 .. w - 1)
  PROVE  PowerSum(S) \in Nat /\ PowerSum((0 .. w - 1) \ S) = 2 ^ w - 1 - PowerSum(S)
<1> DEFINE Good(k) == \A T \in SUBSET (0 .. k - 1) :
                        PowerSum((0 .. k - 1) \ T) = 2 ^ k - 1 - PowerSum(T)
<1>1. w \in Nat
  BY DEF Powered
<1>2. Good(0)
  <2> SUFFICES ASSUME NEW T \in SUBSET (0 .. 0 - 1)
               PROVE  PowerSum((0 .. 0 - 1) \ T) = 2 ^ 0 - 1 - PowerSum(T)
    OBVIOUS
  <2>1. T = {} /\ (0 .. 0 - 1) \ T = {}
    OBVIOUS
  <2>2. 2 ^ 0 = 1
    BY PoweredFacts
  <2> QED BY <2>1, <2>2, SumNone
<1>3. ASSUME NEW k \in 0 .. w, k < w, Good(k) PROVE Good(k + 1)
  <2> SUFFICES ASSUME NEW T \in SUBSET (0 .. (k + 1) - 1)
               PROVE  PowerSum((0 .. (k + 1) - 1) \ T) = 2 ^ (k + 1) - 1 - PowerSum(T)
    OBVIOUS
  <2> DEFINE R == T \ {k}
             Q == (0 .. k - 1) \ R
  <2>1. R \in SUBSET (0 .. k - 1) /\ Q \in SUBSET (0 .. k - 1)
    BY <1>1
  <2>2. R \in SUBSET (0 .. w) /\ Q \in SUBSET (0 .. w) /\ k \notin R /\ k \notin Q
    BY <1>1, <2>1
  <2>3. PICK p \in Nat : p = 2 ^ k /\ 2 ^ (k + 1) = 2 * p
    BY <1>3, PoweredFacts
  <2>4. PowerSum(R) \in Nat /\ PowerSum(R \cup {k}) = PowerSum(R) + 2 ^ k
    BY <2>2, SumMore
  <2>5. PowerSum(Q) \in Nat /\ PowerSum(Q \cup {k}) = PowerSum(Q) + 2 ^ k
    BY <2>2, SumMore
  <2>6. PowerSum(Q) = p - 1 - PowerSum(R)
    BY <1>3, <2>1, <2>3
  <2>9. PICK a \in Nat, b \in Nat :
          /\ a = PowerSum(R) /\ b = PowerSum(Q) /\ b = p - 1 - a
          /\ PowerSum(R \cup {k}) = a + p /\ PowerSum(Q \cup {k}) = b + p
    <3> HIDE DEF R, Q
    <3> QED BY <2>3, <2>4, <2>5, <2>6
  <2>7. CASE k \in T
    <3>1. T = R \cup {k} /\ (0 .. (k + 1) - 1) \ T = Q
      BY <1>1, <2>7
    <3> HIDE DEF R, Q
    <3>2. PowerSum(T) = a + p /\ PowerSum((0 .. (k + 1) - 1) \ T) = b
      BY ONLY <2>9, <3>1
    <3>3. b = 2 * p - 1 - (a + p)
      BY ONLY <2>9, p \in Nat, a \in Nat, b \in Nat
    <3> QED BY <2>3, <3>2, <3>3
  <2>8. CASE k \notin T
    <3>1. T = R /\ (0 .. (k + 1) - 1) \ T = Q \cup {k}
      BY <1>1, <2>8
    <3> HIDE DEF R, Q
    <3>2. PowerSum(T) = a /\ PowerSum((0 .. (k + 1) - 1) \ T) = b + p
      BY ONLY <2>9, <3>1
    <3>3. b + p = 2 * p - 1 - a
      BY ONLY <2>9, p \in Nat, a \in Nat, b \in Nat
    <3> QED BY <2>3, <3>2, <3>3
  <2> QED BY <2>7, <2>8
<1> HIDE DEF Good
<1>4. \A k \in 0 .. w : Good(k)
  <2> SUFFICES ASSUME NEW i \in 0 .. w, ~Good(i) PROVE FALSE
    OBVIOUS
  <2> DEFINE B == {k \in 0 .. w : ~Good(k)}
  <2>1. PICK k \in B : \A j \in B : k <= j
    <3>1. B \in SUBSET Nat /\ B # {}
      OBVIOUS
    <3> HIDE DEF B
    <3> QED BY <3>1, Least
  <2>2. k \in 0 .. w /\ ~Good(k) /\ k # 0
    BY <1>2
  <2>3. k - 1 \in 0 .. w /\ k - 1 < w /\ (k - 1) + 1 = k /\ ~(k <= k - 1)
    BY <1>1, <2>2
  <2>4. k - 1 \notin B
    <3> HIDE DEF B
    <3> QED BY <2>1, <2>3
  <2>5. Good(k - 1)
    BY <2>3, <2>4
  <2> QED BY <1>3, <2>2, <2>3, <2>5
<1>5. Good(w)
  BY <1>1, <1>4
<1>6. PowerSum(S) \in Nat
  BY SumBits DEF SumHasBits
<1> QED BY <1>5, <1>6 DEF Good

LEMMA BitType == \A x \in Nat, n \in 0 .. WordBits : Bit(x, n) \in {0, 1}
<1> SUFFICES ASSUME NEW x \in Nat, NEW n \in 0 .. WordBits PROVE Bit(x, n) \in {0, 1}
  OBVIOUS
<1>1. x \div 2 ^ n \in Nat
  BY PowerType, Sizes, DivType
<1> QED BY <1>1 DEF Bit

\* Half the words are below the highest bit.
LEMMA WordHalves ==
  \E h \in Nat \ {0} :
    /\ h = 2 ^ (WordBits - 1) /\ TwoPow = 2 * h /\ MaxInteger = 2 * h - 1
    /\ TwoPow \div 2 = h /\ Word = 0 .. 2 * h - 1
<1>1. WordBits - 1 \in 0 .. WordBits /\ WordBits - 1 < WordBits /\ (WordBits - 1) + 1 = WordBits
  BY Sizes
<1>2. PICK h \in Nat \ {0} : h = 2 ^ (WordBits - 1) /\ 2 ^ WordBits = 2 * h
  BY <1>1, WordPowered, PoweredFacts
<1>3. (2 * h) \div 2 = h
  OBVIOUS
<1> QED BY <1>2, <1>3 DEF TwoPow, MaxInteger, Word

LEMMA NotnIs ==
  ASSUME NEW x \in Word
  PROVE  Notn(x) = MaxInteger - x
<1> DEFINE S == {n \in 0 .. WordBits - 1 : Bit(x, n) = 1}
<1>1. Notn(x) = PowerSum({n \in 0 .. WordBits - 1 : Bit(x, n) = 0})
  BY Zenon DEF Notn, FromBits, PowerSum
<1>2. x \in Nat /\ x < TwoPow /\ TwoPow \in Nat
  BY WordType
<1>3. {n \in 0 .. WordBits - 1 : Bit(x, n) = 0} = (0 .. WordBits - 1) \ S
  BY <1>2, BitType, Sizes
<1>4. PowerSum(S) = x % 2 ^ WordBits
  BY <1>2, WordPowered, BitsSum
<1>5. x % 2 ^ WordBits = x
  BY <1>2 DEF TwoPow
<1>6. S \in SUBSET (0 .. WordBits - 1)
  OBVIOUS
<1>7. PowerSum((0 .. WordBits - 1) \ S) = 2 ^ WordBits - 1 - PowerSum(S)
  <2> HIDE DEF S
  <2> QED BY <1>6, WordPowered, Complement
<1> QED BY <1>1, <1>3, <1>4, <1>5, <1>7 DEF MaxInteger, TwoPow

LEMMA ModIs ==
  ASSUME NEW x \in Int, NEW p \in Nat \ {0}, NEW r \in 0 .. p - 1, NEW q \in Int, x = q * p + r
  PROVE  x % p = r /\ x \div p = q
OBVIOUS

LEMMA FromTwosIs ==
  ASSUME NEW x \in Word
  PROVE  FromTwos(x) = M!Signed(x) /\ FromTwos(x) \in -(TwoPow \div 2) .. TwoPow \div 2 - 1
<1>1. PICK h \in Nat \ {0} :
         /\ h = 2 ^ (WordBits - 1) /\ TwoPow = 2 * h /\ MaxInteger = 2 * h - 1
         /\ TwoPow \div 2 = h /\ Word = 0 .. 2 * h - 1
  BY WordHalves
<1>2. M!Base = TwoPow
  BY DEF M!Base, M!Bits, TwoPow, WordBits
<1>3. x < h => x \div h = 0
  <2>1. x \in Nat
    BY <1>1
  <2>2. x < h => x \in 0 .. h - 1 /\ x = 0 * h + x
    BY ONLY <2>1, h \in Nat \ {0}
  <2> QED BY ONLY <2>1, <2>2, h \in Nat \ {0}, ModIs
<1>4. x >= h => x \div h = 1
  <2>1. ASSUME x >= h PROVE x \div h = 1
    <3>1. x \in Int /\ x = 1 * h + (x - h) /\ x - h \in 0 .. h - 1
      <4>1. x \in Nat /\ x <= 2 * h - 1
        BY <1>1
      <4> QED BY ONLY <2>1, <4>1, h \in Nat \ {0}
    <3> QED BY ONLY <3>1, h \in Nat \ {0}, ModIs
  <2> QED BY <2>1
<1>5. Bit(x, WordBits - 1) = (x \div h) % 2
  BY <1>1 DEF Bit
<1>6. Bit(x, WordBits - 1) = IF x < h THEN 0 ELSE 1
  BY <1>1, <1>3, <1>4, <1>5
<1>7. Notn(x) = 2 * h - 1 - x
  BY <1>1, NotnIs
<1>8. x \in 0 .. 2 * h - 1
  BY <1>1
<1>9. FromTwos(x) = IF x < h THEN x ELSE x - 2 * h
  BY <1>6, <1>7, <1>8 DEF FromTwos
<1>10. M!Signed(x) = IF x < h THEN x ELSE x - 2 * h
  BY <1>1, <1>2 DEF M!Signed
<1> QED BY <1>1, <1>8, <1>9, <1>10

LEMMA ToTwosIs ==
  ASSUME NEW x \in Int, -TwoPow < x, x < TwoPow
  PROVE  ToTwos(x) = M!Residue(x) /\ ToTwos(x) \in Word
<1>1. PICK p \in Nat \ {0} : p = TwoPow /\ Word = 0 .. p - 1 /\ MaxInteger = p - 1
  BY WordType DEF MaxInteger
<1>2. M!Residue(x) = x % p
  BY <1>1 DEF M!Residue, M!Base, M!Bits, TwoPow, WordBits
<1>3. CASE x < 0
  <2>1. Abs(x) = -x /\ -x \in Word
    BY <1>1, <1>3 DEF Abs
  <2>2. Notn(Abs(x)) = p - 1 + x
    BY <1>1, <2>1, NotnIs
  <2>3. ToTwos(x) = p + x
    BY <1>3, <2>2 DEF ToTwos
  <2>4. x % p = p + x
    <3>1. x = (-1) * p + (p + x) /\ p + x \in 0 .. p - 1
      BY <1>1, <1>3
    <3> QED BY <3>1, ModIs
  <2> QED BY <1>1, <1>2, <1>3, <2>3, <2>4
<1>4. CASE x >= 0
  <2>1. x % p = x
    BY <1>1, <1>4
  <2>2. ToTwos(x) = x
    BY <1>4 DEF ToTwos
  <2> QED BY <1>1, <1>2, <1>4, <2>1, <2>2
<1> QED BY <1>3, <1>4

----------------------------------------------------------------------------
(* Bitwise operations.                                                      *)

\* A sum of numbers, without one of them and with it.
LEMMA SumSetTotal ==
  ASSUME NEW S
  PROVE  M!SumSet(S) = Total(S, [x \in S |-> x])
<1> DEFINE pick(s) == CHOOSE x \in s : TRUE
           f == [x \in S |-> x]
<1>1. M!SumSet(S) =
        (CHOOSE it : it = [s \in SUBSET S |->
           IF s = {} THEN 0 ELSE pick(s) + it[s \ {pick(s)}]])[S]
  BY DEF M!SumSet, M!FoldSet, M!MapThenFoldSet
<1>2. Total(S, f) =
        (CHOOSE it : it = [s \in SUBSET S |->
           IF s = {} THEN 0 ELSE f[pick(s)] + it[s \ {pick(s)}]])[S]
  BY DEF Total, Recursion
<1>3. \A s \in SUBSET S : s # {} => f[pick(s)] = pick(s)
  OBVIOUS
<1> HIDE DEF pick, f
<1>4. ASSUME NEW it
      PROVE  [s \in SUBSET S |-> IF s = {} THEN 0 ELSE pick(s) + it[s \ {pick(s)}]]
               = [s \in SUBSET S |-> IF s = {} THEN 0 ELSE f[pick(s)] + it[s \ {pick(s)}]]
  BY <1>3
<1>5. (CHOOSE it : it = [s \in SUBSET S |->
         IF s = {} THEN 0 ELSE pick(s) + it[s \ {pick(s)}]])
        = (CHOOSE it : it = [s \in SUBSET S |->
             IF s = {} THEN 0 ELSE f[pick(s)] + it[s \ {pick(s)}]])
  BY <1>4
<1>6. M!SumSet(S) = Total(S, f)
  BY <1>1, <1>2, <1>5
<1> QED BY <1>6 DEF f

LEMMA SumSetMore ==
  ASSUME NEW S, IsFiniteSet(S), S \subseteq Nat, NEW x \in Nat, x \notin S
  PROVE  M!SumSet(S \cup {x}) = M!SumSet(S) + x /\ M!SumSet(S) \in Nat
<1> DEFINE T == S \cup {x}
           f == [y \in T |-> y]
           g == [y \in S |-> y]
<1>1. f \in [T -> Nat] /\ g \in [S -> Nat] /\ f[x] = x
  OBVIOUS
<1>2. IsFiniteSet(T)
  BY FS_AddElement
<1>3. T \in SUBSET T /\ S \in SUBSET T /\ S \in SUBSET S /\ x \in T /\ T \ {x} = S
  OBVIOUS
<1>4. Units(S, f) = Units(S, g)
  BY DEF Units
<1>5. M!SumSet(T) = Total(T, f) /\ M!SumSet(S) = Total(S, g)
  BY SumSetTotal
<1> HIDE DEF T, f, g
<1>6. Total(T, f) = Cardinality(Units(T, f)) /\ Total(S, g) = Cardinality(Units(S, g))
  BY <1>1, <1>2, TotalIsUnits
<1>7. Cardinality(Units(T, f)) = f[x] + Cardinality(Units(T \ {x}, f))
  BY ONLY <1>1, <1>2, <1>3, UnitsSplit
<1>8. Cardinality(Units(S, g)) \in Nat
  BY ONLY <1>1, <1>3, IsFiniteSet(S), UnitsFinite
<1>9. PICK b \in Nat : b = Cardinality(Units(S, g))
  BY <1>8
<1> QED BY <1>1, <1>3, <1>4, <1>5, <1>6, <1>7, <1>9 DEF T

\* Different exponents have different powers.
LEMMA PowersDiffer ==
  ASSUME NEW w, Powered(w), NEW m \in 0 .. w, NEW n \in 0 .. w, m < n
  PROVE  2 ^ m # 2 ^ n
<1>1. m + 1 \in 0 .. w /\ m + 1 <= n /\ m < w
  BY DEF Powered
<1>2. PICK p \in Nat \ {0} : p = 2 ^ m /\ 2 ^ (m + 1) = 2 * p
  BY <1>1, PoweredFacts
<1>3. 2 ^ (m + 1) <= 2 ^ n
  BY <1>1, PoweredFacts
<1> QED BY <1>2, <1>3

LEMMA NumberIsPowerSum ==
  ASSUME NEW S \in SUBSET (0 .. WordBits - 1)
  PROVE  M!Number(S) = PowerSum(S)
<1> DEFINE Image(T) == {2 ^ n : n \in T}
           Good(k) == \A T \in SUBSET (0 .. k - 1) : M!SumSet(Image(T)) = PowerSum(T)
<1>0. WordBits \in Nat
  BY Sizes
<1>1. Good(0)
  <2> SUFFICES ASSUME NEW T \in SUBSET (0 .. 0 - 1) PROVE M!SumSet(Image(T)) = PowerSum(T)
    OBVIOUS
  <2>1. T = {} /\ Image(T) = {}
    OBVIOUS
  <2> DEFINE f == [x \in {} |-> x]
  <2>2. f \in [{} -> Nat] /\ IsFiniteSet({})
    BY FS_EmptySet
  <2>3. Units({}, f) = {}
    BY DEF Units
  <2>4. M!SumSet({}) = Total({}, f)
    BY SumSetTotal
  <2> HIDE DEF f, Image
  <2>5. Total({}, f) = Cardinality(Units({}, f))
    BY <2>2, TotalIsUnits
  <2> QED BY <2>1, <2>3, <2>4, <2>5, SumNone, FS_EmptySet
<1>2. ASSUME NEW k \in 0 .. WordBits, k < WordBits, Good(k) PROVE Good(k + 1)
  <2> SUFFICES ASSUME NEW T \in SUBSET (0 .. (k + 1) - 1) PROVE M!SumSet(Image(T)) = PowerSum(T)
    OBVIOUS
  <2> DEFINE R == T \ {k}
  <2>1. R \in SUBSET (0 .. k - 1)
    BY <1>0
  <2>2. M!SumSet(Image(R)) = PowerSum(R)
    BY <1>2, <2>1
  <2>3. CASE k \notin T
    <3>1. R = T
      BY <2>3
    <3> HIDE DEF R, Image
    <3> QED BY <2>2, <3>1
  <2>4. CASE k \in T
    <3>1. R \in SUBSET (0 .. WordBits) /\ k \notin R /\ T = R \cup {k}
      BY <1>0, <2>1, <2>4
    <3>2. PowerSum(R \cup {k}) = PowerSum(R) + 2 ^ k
      <4> HIDE DEF R
      <4> QED BY <3>1, WordPowered, SumMore
    <3>3. Image(T) = Image(R) \cup {2 ^ k}
      BY <2>4
    <3>4. IsFiniteSet(Image(R))
      <4> DEFINE h == [n \in R |-> 2 ^ n]
      <4>1. h \in Surjection(R, Image(R))
        BY DEF Surjection
      <4>2. IsFiniteSet(R)
        <5>1. IsFiniteSet(0 .. WordBits)
          BY <1>0, FS_Interval
        <5> HIDE DEF R
        <5> QED BY <3>1, <5>1, FS_Subset
      <4> HIDE DEF h, R, Image
      <4> QED BY <4>1, <4>2, FS_Surjection
    <3>5. Image(R) \subseteq Nat /\ 2 ^ k \in Nat
      BY <1>0, <3>1, WordPowered, PoweredFacts
    <3>6. 2 ^ k \notin Image(R)
      <4>1. ASSUME NEW n \in R, 2 ^ n = 2 ^ k PROVE FALSE
        <5>1. n \in 0 .. WordBits /\ n < k
          BY <1>0, <2>1
        <5> QED BY <4>1, <5>1, WordPowered, PowersDiffer
      <4> QED BY <4>1
    <3>7. M!SumSet(Image(R) \cup {2 ^ k}) = M!SumSet(Image(R)) + 2 ^ k
      <4> HIDE DEF R, Image
      <4>1. PICK p \in Nat : p = 2 ^ k
        BY <3>5
      <4> QED BY <3>4, <3>5, <3>6, <4>1, SumSetMore
    <3> HIDE DEF R, Image
    <3> QED BY <2>2, <3>1, <3>2, <3>3, <3>7
  <2> QED BY <2>3, <2>4
<1> HIDE DEF Good
<1>3. \A k \in 0 .. WordBits : Good(k)
  <2> SUFFICES ASSUME NEW i \in 0 .. WordBits, ~Good(i) PROVE FALSE
    OBVIOUS
  <2> DEFINE B == {k \in 0 .. WordBits : ~Good(k)}
  <2>1. PICK k \in B : \A j \in B : k <= j
    <3>1. B \in SUBSET Nat /\ B # {}
      OBVIOUS
    <3> HIDE DEF B
    <3> QED BY <3>1, Least
  <2>2. k \in 0 .. WordBits /\ ~Good(k) /\ k # 0
    BY <1>1
  <2>3. k - 1 \in 0 .. WordBits /\ k - 1 < WordBits /\ (k - 1) + 1 = k /\ ~(k <= k - 1)
    BY <1>0, <2>2
  <2>4. k - 1 \notin B
    <3> HIDE DEF B
    <3> QED BY <2>1, <2>3
  <2>5. Good(k - 1)
    BY <2>3, <2>4
  <2> QED BY <1>2, <2>2, <2>3, <2>5
<1>4. Good(WordBits)
  BY <1>0, <1>3
<1> QED BY <1>4 DEF Good, M!Number

LEMMA BitwiseMean ==
  ASSUME NEW a \in Word, NEW b \in Word
  PROVE  /\ BitAnd(a, b) = M!Number(M!Ones(a) \cap M!Ones(b))
         /\ BitOr(a, b) = M!Number(M!Ones(a) \cup M!Ones(b))
         /\ BitXor(a, b) = M!Number((M!Ones(a) \cup M!Ones(b)) \ (M!Ones(a) \cap M!Ones(b)))
         /\ BitAnd(a, b) \in Word /\ BitOr(a, b) \in Word /\ BitXor(a, b) \in Word
<1> DEFINE I == 0 .. WordBits - 1
           A == {n \in I : Bit(a, n) = 1}
           B == {n \in I : Bit(b, n) = 1}
<1>1. M!Ones(a) = A /\ M!Ones(b) = B
  BY DEF M!Ones, M!Bits, WordBits, Bit
<1>2. BitAnd(a, b) = PowerSum({n \in I : Bit(a, n) = 1 /\ Bit(b, n) = 1})
  BY Zenon DEF BitAnd, FromBits, PowerSum
<1>3. BitOr(a, b) = PowerSum({n \in I : Bit(a, n) = 1 \/ Bit(b, n) = 1})
  BY Zenon DEF BitOr, FromBits, PowerSum
<1>4. BitXor(a, b) = PowerSum({n \in I : Bit(a, n) # Bit(b, n)})
  BY Zenon DEF BitXor, FromBits, PowerSum
<1>5. {n \in I : Bit(a, n) = 1 /\ Bit(b, n) = 1} = A \cap B
  OBVIOUS
<1>6. {n \in I : Bit(a, n) = 1 \/ Bit(b, n) = 1} = A \cup B
  OBVIOUS
<1>7. {n \in I : Bit(a, n) # Bit(b, n)} = (A \cup B) \ (A \cap B)
  <2>1. \A n \in I : Bit(a, n) \in {0, 1} /\ Bit(b, n) \in {0, 1}
    BY BitType, WordType, Sizes
  <2> QED BY <2>1
<1>8. A \cap B \in SUBSET I /\ A \cup B \in SUBSET I /\ (A \cup B) \ (A \cap B) \in SUBSET I
  OBVIOUS
<1> HIDE DEF A, B
<1>9. ASSUME NEW S \in SUBSET I PROVE M!Number(S) = PowerSum(S) /\ PowerSum(S) \in Word
  <2>1. PowerSum(S) \in Nat /\ PowerSum(S) < 2 ^ WordBits
    BY WordPowered, SumBits DEF SumHasBits
  <2> QED BY <2>1, NumberIsPowerSum, WordType DEF TwoPow
<1> QED BY <1>1, <1>2, <1>3, <1>4, <1>5, <1>6, <1>7, <1>8, <1>9

----------------------------------------------------------------------------
(* Division of signed numbers.                                              *)

LEMMA SignedWords ==
  \E h \in Nat \ {0} :
    /\ TwoPow = 2 * h /\ MaxInteger = 2 * h - 1 /\ TwoPow \div 2 = h /\ Word = 0 .. 2 * h - 1
    /\ M!Base = 2 * h /\ M!Base \div 2 = h /\ M!Word = Word
    /\ M!Signeds = -h .. h - 1
    /\ \A x \in Word : M!Signed(x) = FromTwos(x) /\ M!Signed(x) = IF x < h THEN x ELSE x - 2 * h
    /\ \A x \in Int : M!Residue(x) = x % (2 * h)
<1>1. PICK h \in Nat \ {0} :
         /\ TwoPow = 2 * h /\ MaxInteger = 2 * h - 1 /\ TwoPow \div 2 = h /\ Word = 0 .. 2 * h - 1
  BY WordHalves
<1>2. M!Base = 2 * h
  BY <1>1 DEF M!Base, M!Bits, TwoPow, WordBits
<1>3. M!Base \div 2 = h
  BY <1>1, <1>2
<1>4. M!Word = Word
  BY <1>1, <1>2 DEF M!Word
<1>5. ASSUME NEW x \in Word
      PROVE  M!Signed(x) = FromTwos(x) /\ M!Signed(x) = IF x < h THEN x ELSE x - 2 * h
  <2>1. M!Signed(x) = IF x < h THEN x ELSE x - 2 * h
    BY <1>2, <1>3 DEF M!Signed
  <2> QED BY <2>1, FromTwosIs
<1>6. M!Signeds = -h .. h - 1
  <2>1. M!Signeds = {M!Signed(x) : x \in Word}
    BY <1>4 DEF M!Signeds
  <2>2. ASSUME NEW x \in Word PROVE M!Signed(x) \in -h .. h - 1
    BY <1>1, <1>5
  <2>3. ASSUME NEW y \in -h .. h - 1 PROVE \E x \in Word : M!Signed(x) = y
    <3>1. CASE y >= 0
      <4>1. y \in Word /\ M!Signed(y) = y
        BY <1>1, <1>5, <3>1
      <4> QED BY <4>1
    <3>2. CASE y < 0
      <4>1. y + 2 * h \in Word
        BY <1>1, <3>2
      <4>2. M!Signed(y + 2 * h) = y
        <5>1. M!Signed(y + 2 * h) = IF y + 2 * h < h THEN y + 2 * h ELSE (y + 2 * h) - 2 * h
          BY <1>5, <4>1
        <5> QED BY <5>1
      <4> QED BY <4>1, <4>2
    <3> QED BY <3>1, <3>2
  <2> QED BY <2>1, <2>2, <2>3
<1>7. \A x \in Int : M!Residue(x) = x % (2 * h)
  BY <1>2 DEF M!Residue
<1> QED BY <1>1, <1>2, <1>3, <1>4, <1>5, <1>6, <1>7

\* The quotient and the rest of magnitudes.
Rounded(x, y) == LET q == Abs(x) \div Abs(y) IN IF (x < 0) # (y < 0) THEN -q ELSE q
\* The rest of a division that rounds towards zero, by the sizes of both numbers.
Left(x, y) == IF x < 0 THEN -(Abs(x) % Abs(y)) ELSE Abs(x) % Abs(y)

LEMMA Divided ==
  ASSUME NEW x \in Int, NEW y \in Int, y # 0
  PROVE  /\ Rounded(x, y) \in Int /\ Left(x, y) \in Int
         /\ M!Divides(x, y, Rounded(x, y), Left(x, y))
         /\ Rounded(x, y) \in -Abs(x) .. Abs(x) /\ Left(x, y) \in -Abs(x) .. Abs(x)
<1>1. PICK a \in Nat, b \in Nat \ {0} :
        /\ a = Abs(x) /\ b = Abs(y)
        /\ x = IF x < 0 THEN -a ELSE a
        /\ y = IF y < 0 THEN -b ELSE b
  BY DEF Abs
<1>2. PICK q \in Nat, r \in Nat, z \in Nat : q = a \div b /\ r = a % b /\ z = q * b /\ r < b /\ a = z + r
  <2>1. a \div b \in Nat /\ a % b \in 0 .. b - 1 /\ a = ((a \div b) * b) + (a % b)
    BY DivModOf
  <2> QED BY <2>1, ProductType
<1>3. q <= a
  BY <1>2, DivType
<1>4. Rounded(x, y) = IF (x < 0) # (y < 0) THEN -q ELSE q
  BY <1>1, <1>2 DEF Rounded
<1>5. Left(x, y) = IF x < 0 THEN -r ELSE r
  BY <1>1, <1>2 DEF Left
<1>6. Rounded(x, y) * y = IF x < 0 THEN -z ELSE z
  <2>1. (-q) * b = -(q * b) /\ q * (-b) = -(q * b) /\ (-q) * (-b) = q * b
    BY ONLY q \in Nat, b \in Nat
  <2>2. CASE x < 0 /\ y < 0
    BY <1>1, <1>2, <1>4, <2>1, <2>2
  <2>3. CASE x < 0 /\ ~(y < 0)
    BY <1>1, <1>2, <1>4, <2>1, <2>3
  <2>4. CASE ~(x < 0) /\ y < 0
    BY <1>1, <1>2, <1>4, <2>1, <2>4
  <2>5. CASE ~(x < 0) /\ ~(y < 0)
    <3>1. Rounded(x, y) = q /\ y = b
      BY <1>1, <1>4, <2>5
    <3> QED BY <1>2, <2>5, <3>1
  <2> QED BY <2>2, <2>3, <2>4, <2>5
<1>7. x = Rounded(x, y) * y + Left(x, y)
  <2>1. PICK u \in Int, v \in Int :
          /\ u = Rounded(x, y) * y /\ u = IF x < 0 THEN -z ELSE z
          /\ v = Left(x, y) /\ v = IF x < 0 THEN -r ELSE r
    <3>1. (IF x < 0 THEN -z ELSE z) \in Int /\ (IF x < 0 THEN -r ELSE r) \in Int
      OBVIOUS
    <3> QED BY ONLY <1>5, <1>6, <3>1
  <2>2. x = u + v
    <3>1. a = z + r /\ x = IF x < 0 THEN -a ELSE a
      BY <1>1, <1>2
    <3>2. u = (IF x < 0 THEN -z ELSE z) /\ v = (IF x < 0 THEN -r ELSE r)
      BY <2>1
    <3> QED BY ONLY <3>1, <3>2, z \in Nat, r \in Nat, a \in Nat, x \in Int
  <2> QED BY ONLY <2>1, <2>2
<1>8. M!Sign(y) * y = b
  <2>1. 1 * b = b /\ (-1) * (-b) = b
    OBVIOUS
  <2> QED BY <1>1, <2>1 DEF M!Sign
<1>9. -M!Sign(y) * y = -b
  <2>1. M!Sign(y) \in Int
    BY DEF M!Sign
  <2>2. (-M!Sign(y)) * y = -(M!Sign(y) * y)
    BY ONLY <2>1, y \in Int
  <2> QED BY <1>8, <2>1, <2>2
<1>10. Left(x, y) # 0 => M!Sign(Left(x, y)) = M!Sign(x)
  BY <1>2, <1>5 DEF M!Sign
<1>11. -M!Sign(y) * y < Left(x, y) /\ Left(x, y) < M!Sign(y) * y
  BY <1>2, <1>5, <1>8, <1>9
<1>12. M!Divides(x, y, Rounded(x, y), Left(x, y))
  BY <1>7, <1>10, <1>11 DEF M!Divides
<1>13. r <= a
  BY <1>2
<1>14. Rounded(x, y) \in -a .. a /\ Left(x, y) \in -a .. a
  BY <1>3, <1>4, <1>5, <1>13
<1> QED BY <1>1, <1>12, <1>14

\* There is only one quotient.
LEMMA DividedOnce ==
  ASSUME NEW x \in Int, NEW y \in Int, y # 0, NEW q \in Int, NEW r \in Int,
         NEW s \in Int, NEW t \in Int, M!Divides(x, y, q, r), M!Divides(x, y, s, t)
  PROVE  q = s
<1>1. PICK b \in Nat \ {0} : b = Abs(y) /\ y = (IF y < 0 THEN -b ELSE b)
  BY DEF Abs
<1>2. M!Sign(y) * y = b /\ -M!Sign(y) * y = -b
  <2>1. 1 * b = b /\ (-1) * (-b) = b /\ (-1) * b = -b /\ (-(-1)) * (-b) = -b
    OBVIOUS
  <2> QED BY <1>1, <2>1 DEF M!Sign
<1>3. /\ x = q * y + r /\ -b < r /\ r < b /\ (r # 0 => M!Sign(r) = M!Sign(x))
      /\ x = s * y + t /\ -b < t /\ t < b /\ (t # 0 => M!Sign(t) = M!Sign(x))
  BY <1>2 DEF M!Divides
<1>4. -b < t - r /\ t - r < b
  BY <1>3 DEF M!Sign
<1>5. (q - s) * y = t - r
  <2>1. (q - s) * y = q * y - s * y
    BY ONLY q \in Int, s \in Int, y \in Int
  <2>2. PICK u \in Int, v \in Int : u = q * y /\ v = s * y
    OBVIOUS
  <2> QED BY <1>3, <2>1, <2>2
<1>6. PICK d \in Int : d = q - s /\ d * y = t - r
  BY <1>5
<1>7. d = 0
  <2> SUFFICES ASSUME d # 0 PROVE FALSE
    OBVIOUS
  <2>1. PICK e \in Nat \ {0} : (d = e \/ d = -e)
    <3>1. d > 0 => d \in Nat \ {0}
      OBVIOUS
    <3>2. ~(d > 0) => -d \in Nat \ {0} /\ d = -(-d)
      OBVIOUS
    <3> QED BY <3>1, <3>2
  <2>2. PICK f \in Nat : f = e * b /\ f >= b
    <3>1. 1 * b <= e * b
      BY ProductMonotone
    <3> QED BY <3>1, ProductType
  <2>3. (-e) * b = -(e * b) /\ e * (-b) = -(e * b) /\ (-e) * (-b) = e * b
    BY ONLY e \in Nat, b \in Nat
  <2>4. d * y = f \/ d * y = -f
    BY <1>1, <2>1, <2>2, <2>3
  <2>5. t - r = f \/ t - r = -f
    BY <1>6, <2>4
  <2> QED BY <1>4, <2>2, <2>5
<1> QED BY <1>6, <1>7

LEMMA QuotientIs ==
  ASSUME NEW a \in Word, NEW b \in Word, FromTwos(b) # 0
  PROVE  /\ M!Quotient(FromTwos(a), FromTwos(b)) = Rounded(FromTwos(a), FromTwos(b))
         /\ M!Rest(FromTwos(a), FromTwos(b)) = Left(FromTwos(a), FromTwos(b))
<1>1. PICK h \in Nat \ {0} : M!Base \div 2 = h /\ M!Signeds = -h .. h - 1 /\ TwoPow \div 2 = h
  BY SignedWords
<1>2. PICK x \in -h .. h - 1, y \in -h .. h - 1 : x = FromTwos(a) /\ y = FromTwos(b) /\ y # 0
  BY <1>1, FromTwosIs
<1>3. PICK q \in Int, r \in Int :
        /\ q = Rounded(x, y) /\ r = Left(x, y) /\ M!Divides(x, y, q, r)
        /\ q \in -Abs(x) .. Abs(x) /\ r \in -Abs(x) .. Abs(x)
  <2>1. x \in Int /\ y \in Int /\ y # 0
    BY <1>2
  <2> QED BY <2>1, Divided
<1>4. Abs(x) \in 0 .. h
  BY DEF Abs
<1>5. q \in M!Signeds \cup {M!Base \div 2}
  BY <1>1, <1>3, <1>4
<1>6. r \in M!Signeds
  <2>1. -M!Sign(y) * y < r /\ r < M!Sign(y) * y
    BY <1>3 DEF M!Divides
  <2>2. M!Sign(y) * y <= h
    <3>1. y < 0 => (-1) * y = -y
      OBVIOUS
    <3>2. 1 * y = y
      OBVIOUS
    <3> QED BY <3>1, <3>2 DEF M!Sign
  <2>3. M!Sign(y) * y \in Int
    BY DEF M!Sign
  <2> QED BY <1>1, <1>3, <1>4, <2>1, <2>2, <2>3
<1> DEFINE Fits(s) == s \in M!Signeds \cup {M!Base \div 2} /\ \E t \in M!Signeds : M!Divides(x, y, s, t)
<1>7. Fits(q)
  BY <1>3, <1>5, <1>6
<1>8. ASSUME NEW s, Fits(s) PROVE s = q
  <2>1. s \in Int /\ \E t \in Int : M!Divides(x, y, s, t)
    BY <1>1, <1>8
  <2> QED BY <1>2, <1>3, <2>1, DividedOnce
<1>9. M!Quotient(x, y) = CHOOSE s \in M!Signeds \cup {M!Base \div 2} :
                           \E t \in M!Signeds : M!Divides(x, y, s, t)
  BY <1>2 DEF M!Quotient
<1>10. (CHOOSE s \in M!Signeds \cup {M!Base \div 2} :
         \E t \in M!Signeds : M!Divides(x, y, s, t)) = q
  BY <1>7, <1>8
<1>11. M!Rest(x, y) = x - q * y
  BY <1>2, <1>9, <1>10 DEF M!Rest
<1>12. x = q * y + r
  BY <1>3 DEF M!Divides
<1>13. x - q * y = r
  <2>1. PICK z \in Int : z = q * y
    OBVIOUS
  <2> QED BY <1>12, <2>1
<1> QED BY <1>2, <1>3, <1>9, <1>10, <1>11, <1>13

LEMMA SignedDivision ==
  ASSUME NEW a \in Word, NEW b \in Word
  PROVE  /\ SDIV(a, b) = M!Residue(M!Quotient(M!Signed(a), M!Signed(b)))
         /\ SMOD(a, b) = M!Residue(M!Rest(M!Signed(a), M!Signed(b)))
         /\ SDIV(a, b) \in Word /\ SMOD(a, b) \in Word
<1>1. PICK h \in Nat \ {0} :
        /\ TwoPow = 2 * h /\ TwoPow \div 2 = h /\ Word = 0 .. 2 * h - 1
        /\ \A x \in Word : M!Signed(x) = FromTwos(x)
        /\ \A x \in Word : M!Signed(x) = IF x < h THEN x ELSE x - 2 * h
        /\ \A x \in Int : M!Residue(x) = x % (2 * h)
  BY SignedWords
<1>2. PICK x \in -h .. h - 1, y \in -h .. h - 1 :
        x = FromTwos(a) /\ y = FromTwos(b) /\ x = M!Signed(a) /\ y = M!Signed(b)
  BY <1>1, FromTwosIs
<1>3. y = 0 <=> b = 0
  <2>1. y = (IF b < h THEN b ELSE b - 2 * h) /\ b \in 0 .. 2 * h - 1
    BY <1>1, <1>2
  <2> QED BY <2>1
<1>4. CASE b = 0
  <2>1. SDIV(a, b) = 0 /\ SMOD(a, b) = 0
    BY <1>4 DEF SDIV, SMOD
  <2>2. M!Quotient(x, y) = 0 /\ M!Rest(x, y) = 0
    BY <1>3, <1>4 DEF M!Quotient, M!Rest
  <2>3. M!Residue(0) = 0 /\ 0 \in Word
    BY <1>1
  <2> QED BY <1>2, <2>1, <2>2, <2>3
<1>5. CASE b # 0
  <2>1. PICK q \in Int, r \in Int :
          /\ q = Rounded(x, y) /\ r = Left(x, y)
          /\ q \in -Abs(x) .. Abs(x) /\ r \in -Abs(x) .. Abs(x)
    <3>1. x \in Int /\ y \in Int /\ y # 0
      BY <1>3, <1>5
    <3> QED BY <3>1, Divided
  <2>2. PICK m \in 0 .. h : m = Abs(x)
    BY DEF Abs
  <2>3. -TwoPow < q /\ q < TwoPow /\ -TwoPow < r /\ r < TwoPow
    <3>1. q \in -m .. m /\ r \in -m .. m
      BY <2>1, <2>2
    <3>2. m <= h /\ h < 2 * h
      OBVIOUS
    <3>3. -(2 * h) < q /\ q < 2 * h /\ -(2 * h) < r /\ r < 2 * h
      BY ONLY <3>1, <3>2, m \in Nat, q \in Int, r \in Int, h \in Nat
    <3> QED BY <1>1, <3>3
  <2>4. SDIV(a, b) = ToTwos(q)
    BY <1>2, <1>5, <2>1 DEF SDIV, Div, Rounded
  <2>5. SMOD(a, b) = ToTwos(r)
    BY <1>2, <1>5, <2>1 DEF SMOD, Left
  <2>6. ToTwos(q) = M!Residue(q) /\ ToTwos(q) \in Word /\ ToTwos(r) = M!Residue(r) /\ ToTwos(r) \in Word
    BY <2>3, ToTwosIs
  <2>7. M!Quotient(x, y) = q /\ M!Rest(x, y) = r
    BY <1>2, <1>3, <1>5, <2>1, QuotientIs
  <2> QED BY <1>2, <2>4, <2>5, <2>6, <2>7
<1> QED BY <1>4, <1>5

----------------------------------------------------------------------------
(* Powers, shifts and sign extension.                                       *)

LEMMA ResidueIs ==
  /\ \A x \in Word : M!Residue(x) = x
  /\ \A x \in Nat : x < TwoPow => M!Residue(x - TwoPow) = x
  /\ \A x \in Nat : M!Residue(x) = x % TwoPow /\ x % TwoPow \in Word
<1>1. PICK p \in Nat \ {0} : p = TwoPow /\ Word = 0 .. p - 1
  BY WordType
<1>2. \A x : M!Residue(x) = x % p
  BY <1>1 DEF M!Residue, M!Base, M!Bits, TwoPow, WordBits
<1>3. ASSUME NEW x \in Nat, x < p PROVE (x - p) % p = x
  <2>1. x - p = (-1) * p + x /\ x \in 0 .. p - 1 /\ x - p \in Int /\ -1 \in Int
    BY <1>3
  <2> QED BY ONLY <2>1, p \in Nat \ {0}, ModIs
<1>4. \A x \in Nat : x % p \in 0 .. p - 1
  OBVIOUS
<1>5. \A x \in 0 .. p - 1 : x % p = x
  OBVIOUS
<1> QED BY <1>1, <1>2, <1>3, <1>4, <1>5

LEMMA PowerMeans ==
  ASSUME NEW a \in Word, NEW b \in Word
  PROVE  EXP(a, b) = M!Power(a, b) /\ EXP(a, b) \in Word
<1>1. a \in Nat /\ b \in Nat /\ TwoPow \in Nat \ {0} /\ {0, 1} \subseteq Word /\ Word = 0 .. TwoPow - 1
  BY WordType
<1>2. PowerModulo(a, b) = PowerFrom(1, a, TwoPow, b)
  BY DEF PowerModulo, PowerFrom
<1>3. M!Power(a, b) = PowerFrom(1, a, TwoPow, b)
  BY DEF M!Power, M!Residue, M!Base, M!Bits, TwoPow, WordBits, PowerFrom
<1> DEFINE step == [p \in Nat \X (1 .. b) |-> (p[1] * a) % TwoPow]
<1>4. step \in [Nat \X (1 .. b) -> Nat]
  <2>1. ASSUME NEW p \in Nat \X (1 .. b) PROVE (p[1] * a) % TwoPow \in Nat
    <3>1. PICK v \in Nat : v = p[1]
      OBVIOUS
    <3>2. PICK x \in Nat : x = v * a
      BY <1>1, ProductType
    <3>3. x % TwoPow \in Nat
      BY <1>1, ModType
    <3> QED BY <3>1, <3>2, <3>3
  <2> QED BY <2>1
<1>5. \A v \in Nat, k \in 1 .. b : step[<<v, k>>] = (v * a) % TwoPow
  OBVIOUS
<1> HIDE DEF step
<1>6. PICK g \in [0 .. b -> Nat] : Recurses(g, step, 1, b)
  <2>1. 1 \in Nat
    OBVIOUS
  <2> QED BY <1>1, <1>4, <2>1, RecursionExists
<1>7. ASSUME NEW k \in 1 .. b PROVE g[k] = (g[k - 1] * a) % TwoPow /\ g[k - 1] \in Nat
  <2>1. k - 1 \in 0 .. b
    BY <1>1
  <2> QED BY <1>5, <1>6, <2>1 DEF Recurses
<1>8. Powers(g, 1, a, TwoPow, b)
  BY <1>6, <1>7 DEF Recurses, Powers
<1>9. PowerFrom(1, a, TwoPow, b) = g[b]
  BY <1>1, <1>8, PowerIs
<1>10. CASE b = 0
  BY <1>1, <1>3, <1>6, <1>9, <1>10 DEF EXP, Recurses
<1>11. CASE b # 0
  <2>1. b \in 1 .. b
    BY <1>1, <1>11
  <2>2. PICK x \in Nat : x = g[b - 1] /\ g[b] = (x * a) % TwoPow
    BY <1>7, <2>1
  <2>3. PICK y \in Nat : y = x * a
    BY <1>1, ProductType
  <2>4. g[b] \in Word
    BY <1>1, <2>2, <2>3, ModType
  <2>5. a = 0 => g[b] = 0
    <3>1. a = 0 => y = 0
      BY <2>3
    <3>2. 0 % TwoPow = 0
      BY <1>1
    <3> QED BY <2>2, <2>3, <3>1, <3>2
  <2> QED BY <1>1, <1>2, <1>3, <1>9, <1>11, <2>4, <2>5 DEF EXP
<1> QED BY <1>10, <1>11

\* Ones up to a place, and ones from it.
LEMMA OnesFrom ==
  ASSUME NEW w, Powered(w), NEW s \in 0 .. w, NEW S \in SUBSET (0 .. s - 1)
  PROVE  PowerSum(S \cup (s .. w - 1)) = 2 ^ w - 2 ^ s + PowerSum(S)
<1>1. w \in Nat /\ Powered(s)
  BY PoweredBelow DEF Powered
<1> DEFINE C == (0 .. s - 1) \ S
           A == S \cup (s .. w - 1)
<1>2. C \in SUBSET (0 .. s - 1) /\ (0 .. s - 1) \ C = S /\ C \in SUBSET (0 .. w - 1) /\ (0 .. w - 1) \ C = A
  <2>0. \A n : /\ n \in 0 .. s - 1 <=> n \in 0 .. w - 1 /\ n < s
               /\ n \in s .. w - 1 <=> n \in 0 .. w - 1 /\ ~(n < s)
    BY <1>1
  <2>1. C \in SUBSET (0 .. s - 1) /\ (0 .. s - 1) \ C = S /\ C \in SUBSET (0 .. w - 1)
    <3>1. C \in SUBSET (0 .. s - 1) /\ (0 .. s - 1) \ C = S
      BY ONLY S \in SUBSET (0 .. s - 1)
    <3>2. 0 .. s - 1 \subseteq 0 .. w - 1
      BY ONLY <2>0
    <3> HIDE DEF C
    <3> QED BY ONLY <3>1, <3>2
  <2>2. ASSUME NEW n PROVE n \in (0 .. w - 1) \ C <=> n \in A
    <3>1. n \in S => n \in 0 .. s - 1
      OBVIOUS
    <3> QED BY ONLY <2>0, <3>1
  <2> HIDE DEF C, A
  <2> QED BY <2>1, <2>2
<1> HIDE DEF C, A
<1>3. PowerSum(C) \in Nat /\ PowerSum(S) = 2 ^ s - 1 - PowerSum(C)
  BY <1>1, <1>2, Complement
<1>4. PowerSum(A) = 2 ^ w - 1 - PowerSum(C)
  BY <1>2, Complement
<1>5. PICK a \in Nat, b \in Nat, c \in Nat : a = 2 ^ w /\ b = 2 ^ s /\ c = PowerSum(C)
  <2>1. w \in 0 .. w /\ s \in 0 .. w
    BY <1>1
  <2>2. 2 ^ w \in Nat /\ 2 ^ s \in Nat
    BY <2>1, PoweredFacts
  <2> QED BY ONLY <1>3, <2>2
<1> QED BY <1>3, <1>4, <1>5 DEF A

LEMMA MasksAre ==
  ASSUME NEW s \in 0 .. WordBits
  PROVE  /\ 2 ^ s \in Nat \ {0} /\ 2 ^ s <= TwoPow
         /\ TwoPow - 2 ^ s \in Nat /\ 2 ^ s - 1 \in Nat
         /\ \A n \in 0 .. WordBits - 1 : Bit(2 ^ s - 1, n) = 1 <=> n < s
         /\ \A n \in 0 .. WordBits - 1 : Bit(TwoPow - 2 ^ s, n) = 1 <=> n >= s
<1>0. WordBits \in Nat
  BY Sizes
<1>1. PICK p \in Nat \ {0}, q \in Nat \ {0} : p = 2 ^ s /\ q = TwoPow /\ p <= q
  BY <1>0, WordPowered, PoweredFacts DEF TwoPow
<1>2. PowerSum(s .. WordBits - 1) = q - p
  <2>1. PowerSum({} \cup (s .. WordBits - 1)) = 2 ^ WordBits - 2 ^ s + PowerSum({})
    <3>1. {} \in SUBSET (0 .. s - 1)
      OBVIOUS
    <3> QED BY <1>0, <3>1, WordPowered, OnesFrom
  <2>2. {} \cup (s .. WordBits - 1) = s .. WordBits - 1
    OBVIOUS
  <2> QED BY <1>1, <2>1, <2>2, SumNone DEF TwoPow
<1>3. PowerSum(0 .. s - 1) = p - 1
  <2>1. {} \in SUBSET (0 .. s - 1) /\ (0 .. s - 1) \ {} = 0 .. s - 1 /\ Powered(s)
    BY WordPowered, PoweredBelow
  <2>2. PowerSum((0 .. s - 1) \ {}) = 2 ^ s - 1 - PowerSum({})
    BY <2>1, Complement
  <2> QED BY <1>1, <2>1, <2>2, SumNone
<1>4. ASSUME NEW n \in 0 .. WordBits - 1 PROVE Bit(p - 1, n) = IF n < s THEN 1 ELSE 0
  <2>1. 0 .. s - 1 \in SUBSET (0 .. WordBits - 1) /\ (n \in 0 .. s - 1 <=> n < s)
    BY <1>0
  <2> QED BY <1>3, <2>1, WordPowered, SumBits DEF SumHasBits
<1>5. ASSUME NEW n \in 0 .. WordBits - 1 PROVE Bit(q - p, n) = IF n >= s THEN 1 ELSE 0
  <2>1. PICK T \in SUBSET (0 .. WordBits - 1) : T = s .. WordBits - 1
    BY <1>0
  <2>2. n \in T <=> n >= s
    BY <1>0, <2>1
  <2>3. Bit(PowerSum(T), n) = IF n \in T THEN 1 ELSE 0
    BY WordPowered, SumBits DEF SumHasBits
  <2>4. PowerSum(T) = q - p
    BY <1>2, <2>1
  <2> QED BY <2>2, <2>3, <2>4
<1> QED BY <1>1, <1>4, <1>5

LEMMA LowBits ==
  ASSUME NEW y \in Nat, NEW s \in 0 .. WordBits
  PROVE  BitAnd(y, 2 ^ s - 1) = y % 2 ^ s
<1>0. WordBits \in Nat
  BY Sizes
<1>1. BitAnd(y, 2 ^ s - 1)
        = PowerSum({n \in 0 .. WordBits - 1 : Bit(y, n) = 1 /\ Bit(2 ^ s - 1, n) = 1})
  BY Zenon DEF BitAnd, FromBits, PowerSum
<1>2. {n \in 0 .. WordBits - 1 : Bit(y, n) = 1 /\ Bit(2 ^ s - 1, n) = 1}
        = {n \in 0 .. s - 1 : Bit(y, n) = 1}
  <2>1. \A n \in 0 .. WordBits - 1 : Bit(2 ^ s - 1, n) = 1 <=> n < s
    BY MasksAre
  <2>2. \A n : n \in 0 .. s - 1 <=> n \in 0 .. WordBits - 1 /\ n < s
    BY <1>0
  <2> QED BY <2>1, <2>2
<1>3. Powered(s)
  BY WordPowered, PoweredBelow
<1>4. PowerSum({n \in 0 .. s - 1 : Bit(y, n) = 1}) = y % 2 ^ s
  BY <1>3, BitsSum
<1> QED BY <1>1, <1>2, <1>4

LEMMA HighOnes ==
  ASSUME NEW y \in Nat, NEW s \in 0 .. WordBits
  PROVE  BitOr(y, TwoPow - 2 ^ s) = TwoPow - 2 ^ s + (y % 2 ^ s)
<1>0. WordBits \in Nat
  BY Sizes
<1> DEFINE S == {n \in 0 .. s - 1 : Bit(y, n) = 1}
<1>1. BitOr(y, TwoPow - 2 ^ s)
        = PowerSum({n \in 0 .. WordBits - 1 : Bit(y, n) = 1 \/ Bit(TwoPow - 2 ^ s, n) = 1})
  BY Zenon DEF BitOr, FromBits, PowerSum
<1>2. {n \in 0 .. WordBits - 1 : Bit(y, n) = 1 \/ Bit(TwoPow - 2 ^ s, n) = 1}
        = S \cup (s .. WordBits - 1)
  <2>1. \A n \in 0 .. WordBits - 1 : Bit(TwoPow - 2 ^ s, n) = 1 <=> n >= s
    BY MasksAre
  <2>2. \A n : n \in 0 .. s - 1 <=> n \in 0 .. WordBits - 1 /\ n < s
    BY <1>0
  <2>3. \A n : n \in s .. WordBits - 1 <=> n \in 0 .. WordBits - 1 /\ n >= s
    BY <1>0
  <2>4. \A n \in 0 .. WordBits - 1 : n >= s \/ n < s
    BY <1>0
  <2> QED BY <2>1, <2>2, <2>3, <2>4
<1>3. Powered(s)
  BY WordPowered, PoweredBelow
<1>4. PowerSum(S) = y % 2 ^ s
  BY <1>3, BitsSum
<1>5. S \in SUBSET (0 .. s - 1)
  OBVIOUS
<1> HIDE DEF S
<1>6. PowerSum(S \cup (s .. WordBits - 1)) = 2 ^ WordBits - 2 ^ s + PowerSum(S)
  BY <1>5, WordPowered, OnesFrom
<1> QED BY <1>1, <1>2, <1>4, <1>6 DEF TwoPow

\* The rest of a division by the next power has one bit more.
LEMMA NextRest ==
  ASSUME NEW y \in Nat, NEW p \in Nat \ {0}
  PROVE  y % (2 * p) = ((y \div p) % 2) * p + (y % p)
<1>1. PICK q \in Nat, r \in Nat : q = y \div p /\ r = y % p /\ r < p /\ y = q * p + r
  <2>1. y \div p \in Nat /\ y % p \in 0 .. p - 1 /\ y = ((y \div p) * p) + (y % p)
    BY DivModOf
  <2> QED BY <2>1
<1>2. PICK d \in Nat, c \in {0, 1} : q = 2 * d + c /\ c = q % 2
  OBVIOUS
<1>3. PICK z \in Nat, s \in Nat \ {0}, v \in Nat : v = c * p /\ z = v + r /\ s = 2 * p /\ z < s
  <2>1. CASE c = 0
    <3>1. c * p = 0 /\ 0 + r < 2 * p
      BY <1>1, <2>1
    <3> QED BY <3>1
  <2>2. CASE c = 1
    <3>1. c * p = p /\ p + r < 2 * p
      BY <1>1, <2>2
    <3> QED BY <3>1
  <2> QED BY <2>1, <2>2
<1>4. y = d * s + z
  <2>1. c \in Nat
    OBVIOUS
  <2>2. (2 * d + c) * p = d * (2 * p) + c * p
    BY ONLY d \in Nat, <2>1, p \in Nat
  <2>3. PICK u \in Nat, t \in Nat : u = d * s /\ t = q * p
    BY ProductType
  <2>4. t = u + v
    BY <1>2, <1>3, <2>2, <2>3
  <2>5. y = t + r /\ z = v + r
    BY <1>1, <1>3, <2>3
  <2>6. y = u + z
    BY ONLY <2>4, <2>5, u \in Nat, v \in Nat, r \in Nat
  <2> QED BY <2>3, <2>6
<1>5. (d * s + z) % s = z
  BY <1>3, DivModIs
<1> QED BY <1>1, <1>2, <1>3, <1>4, <1>5

LEMMA SignExtendMeans ==
  ASSUME NEW k \in Word, NEW val \in Word
  PROVE  SIGNEXTEND(k, val) = M!Extension(k, val) /\ SIGNEXTEND(k, val) \in Word
<1>1. PICK h \in Nat \ {0} :
        TwoPow = 2 * h /\ Word = 0 .. 2 * h - 1 /\ TwoPow \div 2 = h /\ M!Base = 2 * h
  BY SignedWords
<1>2. k \in Nat /\ val \in Nat /\ val < TwoPow
  BY <1>1
<1>3. CASE k >= WordBytes
  <2>1. k >= WordBytes - 1
    BY <1>2, <1>3, Sizes
  <2> QED BY <1>3, <2>1 DEF SIGNEXTEND, M!Extension
<1>4. CASE k = WordBytes - 1
  <2>1. SIGNEXTEND(k, val) = val
    <3>1. k >= WordBytes - 1
      BY <1>2, <1>4, Sizes
    <3> QED BY <3>1 DEF SIGNEXTEND
  <2>2. (k + 1) * ByteBits = WordBits
    <3>1. k + 1 = WordBytes /\ WordBytes * ByteBits = ByteBits * WordBytes
      BY <1>4, Sizes
    <3> QED BY <3>1 DEF WordBits
  <2>3. val % TwoPow = val /\ ~(k >= WordBytes)
    BY <1>1, <1>2, <1>4, Sizes
  <2>4. M!Extension(k, val) = M!Residue(IF val < h THEN val ELSE val - TwoPow)
    BY <1>1, <2>2, <2>3 DEF M!Extension, TwoPow
  <2> QED BY <1>2, <2>1, <2>4, ResidueIs
<1>5. CASE k < WordBytes - 1
  <2> DEFINE s == k * ByteBits + ByteBits - 1
  <2>1. s \in Nat /\ s < WordBits /\ s \in 0 .. WordBits /\ (k + 1) * ByteBits = s + 1
    <3>1. k * ByteBits \in Nat /\ k * ByteBits <= WordBits - ByteBits
      BY <1>2, <1>5, Sizes, BytesAbove
    <3>2. (k + 1) * ByteBits = k * ByteBits + ByteBits
      BY <1>2, Sizes
    <3>3. PICK x \in Nat : x = k * ByteBits
      BY <3>1
    <3> QED BY <3>1, <3>2, <3>3, Sizes
  <2> HIDE DEF s
  <2>2. PICK p \in Nat \ {0}, r \in Nat :
          p = 2 ^ s /\ 2 ^ (s + 1) = 2 * p /\ r = val % p /\ r < p /\ 2 * p <= TwoPow
    <3>1. s + 1 \in 0 .. WordBits
      BY <2>1, Sizes
    <3>2. 2 ^ (s + 1) = 2 * 2 ^ s /\ 2 ^ s \in Nat \ {0} /\ 2 ^ (s + 1) <= TwoPow
      BY <2>1, <3>1, WordPowered, PoweredFacts, MasksAre
    <3>3. val % 2 ^ s \in 0 .. 2 ^ s - 1
      BY <1>2, <3>2, ModType
    <3> QED BY <3>2, <3>3
  <2>3. Notn(p - 1) = TwoPow - p
    <3>1. p - 1 \in Word
      BY <1>1, <2>2
    <3> QED BY <1>1, <2>2, <3>1, NotnIs DEF MaxInteger
  <2>4. SIGNEXTEND(k, val) = IF Bit(val, s) = 1 THEN BitOr(val, TwoPow - p) ELSE BitAnd(val, p - 1)
    <3>1. ~(k >= WordBytes - 1)
      BY <1>2, <1>5, Sizes
    <3>2. SIGNEXTEND(k, val)
            = IF Bit(val, s) = 1 THEN BitOr(val, Notn(2 ^ s - 1)) ELSE BitAnd(val, 2 ^ s - 1)
      BY <3>1 DEF SIGNEXTEND, s
    <3> QED BY <2>2, <2>3, <3>2
  <2>5. BitOr(val, TwoPow - p) = TwoPow - p + r /\ BitAnd(val, p - 1) = r
    BY <1>2, <2>1, <2>2, HighOnes, LowBits
  <2>6. val % (2 * p) = Bit(val, s) * p + r
    BY <1>2, <2>2, NextRest DEF Bit
  <2>7. (2 * p) \div 2 = p
    OBVIOUS
  <2>8. M!Extension(k, val) = M!Residue(IF val % (2 * p) < p THEN val % (2 * p)
                                        ELSE (val % (2 * p)) - 2 * p)
    <3>1. ~(k >= WordBytes)
      BY <1>2, <1>5, Sizes
    <3> QED BY <2>1, <2>2, <2>7, <3>1 DEF M!Extension
  <2>9. CASE Bit(val, s) = 1
    <3>1. val % (2 * p) = p + r
      BY <2>6, <2>9
    <3>2. M!Extension(k, val) = M!Residue((TwoPow - p + r) - TwoPow)
      <4>1. (p + r) - 2 * p = (TwoPow - p + r) - TwoPow /\ ~(p + r < p)
        BY <1>1, <2>2
      <4> QED BY <2>8, <3>1, <4>1
    <3>3. TwoPow - p + r \in Nat /\ TwoPow - p + r < TwoPow
      BY <1>1, <2>2
    <3>4. M!Residue((TwoPow - p + r) - TwoPow) = TwoPow - p + r
      BY <3>3, ResidueIs
    <3> QED BY <1>1, <2>4, <2>5, <2>9, <3>2, <3>3, <3>4
  <2>10. CASE Bit(val, s) # 1
    <3>1. Bit(val, s) = 0
      BY <1>2, <2>1, <2>10, BitType
    <3>2. val % (2 * p) = r /\ r \in Word
      BY <1>1, <2>2, <2>6, <3>1
    <3> QED BY <2>2, <2>4, <2>5, <2>8, <2>10, <3>2, ResidueIs
  <2> QED BY <2>9, <2>10
<1> QED BY <1>2, <1>3, <1>4, <1>5, Sizes

LEMMA ShiftLeftMeans ==
  ASSUME NEW a \in Word, NEW b \in Word
  PROVE  /\ SHL(a, b) = IF a < WordBits THEN M!Residue(b * 2 ^ a) ELSE 0
         /\ SHL(a, b) \in Word
<1>1. a \in Nat /\ b \in Nat /\ WordBits \in Nat /\ 0 \in Word
  BY WordType, Sizes
<1>2. CASE a < WordBits
  <2>1. PICK y \in Nat : y = b * 2 ^ a
    <3>1. 2 ^ a \in Nat
      BY <1>1, <1>2, PowerType
    <3> QED BY <1>1, <3>1, ProductType
  <2>2. SHL(a, b) = BitAnd(y, 2 ^ WordBits - 1)
    <3>1. ~(a >= WordBits)
      BY <1>1, <1>2
    <3> QED BY <2>1, <3>1 DEF SHL, MaxInteger, TwoPow
  <2>3. BitAnd(y, 2 ^ WordBits - 1) = y % TwoPow
    <3>1. WordBits \in 0 .. WordBits
      BY <1>1
    <3> QED BY <3>1, LowBits DEF TwoPow
  <2> QED BY <1>2, <2>1, <2>2, <2>3, ResidueIs
<1>3. CASE ~(a < WordBits)
  BY <1>1, <1>3 DEF SHL
<1> QED BY <1>2, <1>3

LEMMA ShiftRightMeans ==
  ASSUME NEW a \in Word, NEW b \in Word
  PROVE  /\ SHR(a, b) = IF a < WordBits THEN b \div 2 ^ a ELSE 0
         /\ SHR(a, b) \in Word
<1>1. a \in Nat /\ b \in Nat /\ WordBits \in Nat /\ 0 \in Word /\ TwoPow \in Nat
      /\ Word = 0 .. TwoPow - 1
  BY WordType, Sizes
<1>2. CASE a < WordBits
  <2>1. PICK p \in Nat \ {0} : p = 2 ^ a
    BY <1>1, <1>2, PowerType
  <2>2. PICK v \in Nat : v = b \div p /\ v <= b
    BY <1>1, DivType
  <2> QED BY <1>1, <1>2, <2>1, <2>2 DEF SHR
<1>3. CASE ~(a < WordBits)
  BY <1>1, <1>3 DEF SHR
<1> QED BY <1>2, <1>3

LEMMA ShiftSignedMeans ==
  ASSUME NEW a \in Word, NEW b \in Word
  PROVE  /\ SAR(a, b) = IF a < WordBits THEN M!Residue(M!Signed(b) \div 2 ^ a)
                        ELSE M!Residue(M!Signed(b) \div TwoPow)
         /\ SAR(a, b) \in Word
<1>1. PICK h \in Nat \ {0} :
        /\ h = 2 ^ (WordBits - 1) /\ TwoPow = 2 * h /\ MaxInteger = 2 * h - 1 /\ Word = 0 .. 2 * h - 1
  BY WordHalves
<1>2. M!Signed(b) = IF b < h THEN b ELSE b - 2 * h
  <2>1. M!Base = 2 * h
    BY <1>1 DEF M!Base, M!Bits, TwoPow, WordBits
  <2>2. (2 * h) \div 2 = h
    OBVIOUS
  <2> QED BY <2>1, <2>2 DEF M!Signed
<1>3. a \in Nat /\ b \in Nat /\ b < 2 * h /\ WordBits \in Nat /\ WordBits >= 1
  BY <1>1, Sizes
<1>4. Bit(b, WordBits - 1) = 1 <=> ~(b < h)
  <2>1. b < h => b \div h = 0
    BY <1>3
  <2>2. ASSUME ~(b < h) PROVE b \div h = 1
    <3>1. b = 1 * h + (b - h) /\ b - h \in 0 .. h - 1
      BY <1>3, <2>2
    <3> QED BY ONLY <3>1, b \in Nat, h \in Nat \ {0}, ModIs
  <2>3. Bit(b, WordBits - 1) = (b \div h) % 2
    BY <1>1 DEF Bit
  <2> QED BY <2>1, <2>2, <2>3
<1>5. CASE ~(a < WordBits)
  <2>1. SAR(a, b) = IF b < h THEN 0 ELSE MaxInteger
    <3>1. a >= WordBits
      BY <1>3, <1>5
    <3> QED BY <1>4, <3>1 DEF SAR
  <2>2. CASE b < h
    <3>1. b \div (2 * h) = 0
      BY <1>3
    <3>2. 0 \in Word
      BY <1>1
    <3> QED BY <1>1, <1>2, <1>5, <2>1, <2>2, <3>1, <3>2, ResidueIs
  <2>3. CASE ~(b < h)
    <3>1. (b - 2 * h) \div (2 * h) = -1
      <4>1. PICK p \in Nat \ {0} : p = 2 * h /\ b < p
        BY <1>3
      <4>2. b - p = (-1) * p + b /\ b \in 0 .. p - 1 /\ b - p \in Int /\ -1 \in Int
        BY <1>3, <4>1
      <4>3. (b - p) \div p = -1
        BY ONLY <4>2, p \in Nat \ {0}, ModIs
      <4> QED BY <4>1, <4>3
    <3>2. M!Residue(-1) = 2 * h - 1
      <4>1. -1 = (2 * h - 1) - TwoPow /\ 2 * h - 1 \in Nat /\ 2 * h - 1 < TwoPow
        BY <1>1
      <4> QED BY <4>1, ResidueIs
    <3>3. 2 * h - 1 \in Word
      BY <1>1
    <3> QED BY <1>1, <1>2, <1>5, <2>1, <2>3, <3>1, <3>2, <3>3
  <2> QED BY <2>2, <2>3
<1>6. CASE a < WordBits
  <2> DEFINE so == WordBits - 1 - a
  <2>0. so \in 0 .. WordBits /\ a \in 0 .. WordBits /\ so + a = WordBits - 1
        /\ a + 1 \in 0 .. WordBits /\ (a + 1) + so = WordBits
    BY <1>3, <1>6
  <2>1. PICK P \in Nat \ {0}, S \in Nat \ {0} : P = 2 ^ a /\ S = 2 ^ so /\ h = S * P /\ 2 ^ (a + 1) = 2 * P
    <3>1. 2 ^ (so + a) = 2 ^ so * 2 ^ a
      BY <2>0, PowersAssumption, Zenon
    <3>2. 2 ^ (a + 1) = 2 * 2 ^ a
      BY <1>3, <1>6, <2>0, WordPowered, PoweredFacts
    <3>3. 2 ^ a \in Nat \ {0} /\ 2 ^ so \in Nat \ {0}
      BY <2>0, WordPowered, PoweredFacts
    <3>4. h = 2 ^ (so + a)
      BY <1>1, <2>0
    <3> QED BY ONLY <3>1, <3>2, <3>3, <3>4
  <2>2. PICK v \in Nat, r \in Nat : v = b \div P /\ b = v * P + r /\ r < P
    <3>1. b \div P \in Nat /\ b % P \in 0 .. P - 1 /\ b = ((b \div P) * P) + (b % P)
      BY <1>3, DivModOf
    <3> QED BY <3>1
  <2>3. SHR(a, b) = v /\ v \in Word /\ ~(a >= WordBits)
    <3>1. SHR(a, b) = b \div 2 ^ a
      BY <1>6, ShiftRightMeans
    <3> QED BY <1>3, <1>6, <2>1, <2>2, <3>1, ShiftRightMeans
  <2>4. CASE b < h
    <3>1. SAR(a, b) = v
      BY <1>4, <2>3, <2>4 DEF SAR
    <3> QED BY <1>2, <1>6, <2>1, <2>2, <2>3, <2>4, <3>1, ResidueIs
  <2>5. CASE ~(b < h)
    <3>1. S <= v /\ v < 2 * S
      <4>1. PICK x \in Nat : x = v * P
        BY ProductType
      <4>2. ~(v + 1 <= S)
        <5>1. (v + 1) * P = v * P + P
          BY ONLY v \in Nat, P \in Nat
        <5>2. v + 1 <= S => (v + 1) * P <= S * P
          BY ProductMonotone
        <5> QED BY <2>1, <2>2, <2>5, <4>1, <5>1, <5>2
      <4>3. ~(2 * S <= v)
        <5>1. (2 * S) * P = 2 * (S * P)
          BY ONLY S \in Nat, P \in Nat
        <5>2. 2 * S <= v => (2 * S) * P <= v * P
          BY ProductMonotone
        <5>3. x <= b
          BY <2>2, <4>1
        <5>4. 2 * S <= v => 2 * h <= x
          BY <2>1, <4>1, <5>1, <5>2
        <5> QED BY <1>3, <5>3, <5>4
      <4> QED BY <4>2, <4>3
    <3>2. v % S = v - S
      <4>1. v = 1 * S + (v - S) /\ v - S \in 0 .. S - 1
        BY <3>1
      <4> QED BY ONLY <4>1, v \in Nat, S \in Nat \ {0}, ModIs
    <3>3. (MaxInteger \div S) * S = TwoPow - S
      <4>1. TwoPow = (2 * P) * S
        <5>1. 2 * (S * P) = (2 * P) * S
          BY ONLY S \in Nat, P \in Nat
        <5> QED BY <1>1, <2>1, <5>1
      <4>2. (2 * P - 1) * S = (2 * P) * S - S
        BY ONLY S \in Nat, P \in Nat
      <4>3. PICK y \in Nat : y = (2 * P - 1) * S
        <5>1. 2 * P - 1 \in Nat
          OBVIOUS
        <5> QED BY <5>1, ProductType
      <4>4. TwoPow = y + S /\ MaxInteger = y + (S - 1)
        BY <1>1, <4>1, <4>2, <4>3
      <4>5. MaxInteger \div S = 2 * P - 1
        <5>1. ((2 * P - 1) * S + (S - 1)) \div S = 2 * P - 1
          <6>1. 2 * P - 1 \in Nat /\ S - 1 \in Nat /\ S - 1 < S
            OBVIOUS
          <6> QED BY ONLY <6>1, S \in Nat \ {0}, DivModIs
        <5> QED BY <4>3, <4>4, <5>1
      <4> QED BY <4>3, <4>4, <4>5
    <3>4. SAR(a, b) = BitOr(v, TwoPow - S)
      BY <1>4, <2>0, <2>1, <2>3, <2>5, <3>3 DEF SAR
    <3>5. BitOr(v, TwoPow - S) = TwoPow - S + (v - S)
      <4>1. BitOr(v, TwoPow - 2 ^ so) = TwoPow - 2 ^ so + (v % 2 ^ so)
        BY <2>0, HighOnes
      <4> QED BY <2>1, <3>2, <4>1
    <3>6. (b - 2 * h) \div P = v - 2 * S
      <4>1. (v - 2 * S) * P = v * P - 2 * (S * P)
        BY ONLY v \in Nat, S \in Nat, P \in Nat
      <4>2. PICK x \in Int : x = v * P
        BY ProductType
      <4>3. b - 2 * h = (v - 2 * S) * P + r
        BY <2>1, <2>2, <4>1, <4>2
      <4>4. b - 2 * h \in Int /\ v - 2 * S \in Int /\ r \in 0 .. P - 1
        BY <1>3, <2>2
      <4> QED BY ONLY <4>3, <4>4, P \in Nat \ {0}, ModIs
    <3>7. S <= h
      <4>1. 1 * S <= P * S /\ P * S = S * P
        BY ProductMonotone
      <4> QED BY <2>1, <4>1
    <3>8. PICK z \in Nat : z = TwoPow - S + (v - S) /\ z < TwoPow /\ z - TwoPow = v - 2 * S
      <4>1. PICK z \in Nat : z = v - S /\ v = z + S /\ z < S
        BY <3>1
      <4>2. /\ TwoPow - S + z \in Nat /\ TwoPow - S + z < TwoPow
            /\ (TwoPow - S + z) - TwoPow = z - S
        <5>1. PICK t \in Nat : t = TwoPow /\ t = 2 * h
          BY <1>1
        <5>2. t - S + z \in Nat /\ t - S + z < t /\ (t - S + z) - t = z - S
          BY ONLY <3>7, <4>1, <5>1, S \in Nat, h \in Nat, z \in Nat, t \in Nat
        <5> QED BY <5>1, <5>2
      <4>3. z - S = v - 2 * S
        BY <4>1
      <4> QED BY <4>1, <4>2, <4>3
    <3>9. M!Residue(v - 2 * S) = z /\ z \in Word
      BY <1>1, <3>8, ResidueIs
    <3> QED BY <1>2, <1>6, <2>1, <2>5, <3>4, <3>5, <3>6, <3>8, <3>9
  <2> QED BY <2>4, <2>5
<1> QED BY <1>5, <1>6

----------------------------------------------------------------------------
(* Words and their bytes.                                                   *)

\* The machine reads a sequence of bytes from the front.
LEMMA NumeralIs ==
  ASSUME NEW bytes \in Seq(Byte)
  PROVE  M!Numeral(bytes) = FieldOf(bytes, 0, Len(bytes))
<1> DEFINE L == Len(bytes)
           longer(v, n) == v * 2 ^ ByteBits + bytes[n]
           padded(v, n) == v * 2 ^ ByteBits + IF 0 + n <= L THEN bytes[0 + n] ELSE 0
<1>1. M!Numeral(bytes)
        = (CHOOSE f : f = [n \in 0 .. L |-> IF n = 0 THEN 0 ELSE longer(f[n - 1], n)])[L]
  BY DEF M!Numeral
<1>2. FieldOf(bytes, 0, L)
        = (CHOOSE f : f = [n \in 0 .. L |-> IF n = 0 THEN 0 ELSE padded(f[n - 1], n)])[L]
  BY DEF FieldOf
<1>3. \A v : \A n \in 0 .. L : longer(v, n) = padded(v, n)
  <2>1. L \in Nat
    OBVIOUS
  <2>2. \A n \in 0 .. L : 0 + n = n /\ n <= L
    BY <2>1
  <2> QED BY <2>2
<1> HIDE DEF longer, padded, L
<1>4. ASSUME NEW f
      PROVE  [n \in 0 .. L |-> IF n = 0 THEN 0 ELSE longer(f[n - 1], n)]
               = [n \in 0 .. L |-> IF n = 0 THEN 0 ELSE padded(f[n - 1], n)]
  BY <1>3
<1>5. (CHOOSE f : f = [n \in 0 .. L |-> IF n = 0 THEN 0 ELSE longer(f[n - 1], n)])
        = (CHOOSE f : f = [n \in 0 .. L |-> IF n = 0 THEN 0 ELSE padded(f[n - 1], n)])
  BY <1>4
<1> QED BY <1>1, <1>2, <1>5 DEF L

LEMMA NumeralMeans ==
  ASSUME NEW bytes \in Seq(Byte), Len(bytes) <= WordBytes
  PROVE  M!Numeral(bytes) = FromBytes(bytes)
<1>1. Short(Len(bytes))
  BY DEF Short
<1>2. \A n \in 1 .. Len(bytes) : bytes[n] = ByteAt(bytes, 0 + n)
  BY DEF ByteAt
<1>3. Number(bytes) = FieldOf(bytes, 0, Len(bytes))
  BY <1>1, <1>2, NumberIsField
<1> QED BY <1>3, NumeralIs DEF Number

\* Division by two numbers after each other.
LEMMA DivTwice ==
  ASSUME NEW x \in Nat, NEW p \in Nat \ {0}, NEW b \in Nat \ {0}
  PROVE  x \div (p * b) = (x \div p) \div b
<1>1. PICK q \in Nat, r \in Nat : q = x \div p /\ r < p /\ x = q * p + r
  <2>1. x \div p \in Nat /\ x % p \in 0 .. p - 1 /\ x = ((x \div p) * p) + (x % p)
    BY DivModOf
  <2> QED BY <2>1
<1>2. PICK d \in Nat, c \in Nat : d = q \div b /\ c < b /\ q = d * b + c
  <2>1. q \div b \in Nat /\ q % b \in 0 .. b - 1 /\ q = ((q \div b) * b) + (q % b)
    BY DivModOf
  <2> QED BY <2>1
<1>3. PICK n \in Nat \ {0} : n = p * b
  <2>1. 1 * b <= p * b
    BY ProductMonotone
  <2> QED BY <2>1, ProductType
<1>4. (d * b + c) * p = d * (p * b) + c * p
  BY ONLY d \in Nat, b \in Nat, c \in Nat, p \in Nat
<1>5. PICK u \in Nat, v \in Nat : u = d * n /\ v = c * p
  BY ProductType
<1>6. x = u + (v + r)
  <2>1. x = (d * b + c) * p + r
    BY <1>1, <1>2
  <2> QED BY <1>3, <1>4, <1>5, <2>1
<1>7. v + r < n
  <2>1. (c + 1) * p <= b * p
    BY <1>2, ProductMonotone
  <2>2. (c + 1) * p = c * p + p /\ b * p = p * b
    BY ONLY c \in Nat, p \in Nat, b \in Nat
  <2> QED BY <1>1, <1>3, <1>5, <2>1, <2>2
<1>8. (d * n + (v + r)) \div n = d
  BY <1>7, DivModIs
<1> QED BY <1>1, <1>2, <1>3, <1>5, <1>6, <1>8

LEMMA ByteOfPlace ==
  ASSUME NEW word \in Nat, NEW n \in 1 .. WordBytes
  PROVE  /\ Place(WordBytes - n) \in Nat \ {0}
         /\ ToBytes(word)[n] = (word \div Place(WordBytes - n)) % 2 ^ ByteBits
         /\ word \div Place(WordBytes - (n - 1)) = (word \div Place(WordBytes - n)) \div 2 ^ ByteBits
<1>1. WordBytes - n \in Nat /\ (WordBytes - n) + 1 = WordBytes - (n - 1) /\ Short((WordBytes - n) + 1)
  BY Sizes DEF Short
<1>2. /\ Short(WordBytes - n) /\ Place(WordBytes - n) \in Nat \ {0}
      /\ Place((WordBytes - n) + 1) = Place(WordBytes - n) * 2 ^ ByteBits
  BY <1>1, PlaceIs
<1>3. ToBytes(word)[n] = (word \div Place(WordBytes - n)) % 2 ^ ByteBits
  BY DEF ToBytes, Place
<1>4. PICK p \in Nat \ {0}, b \in Nat \ {0} : p = Place(WordBytes - n) /\ b = 2 ^ ByteBits
  BY <1>2, ByteType
<1>5. word \div (p * b) = (word \div p) \div b
  BY DivTwice
<1> QED BY <1>1, <1>2, <1>3, <1>4, <1>5

\* The bytes of a word are the only ones that are worth it.
LEMMA DigitsAre ==
  ASSUME NEW word \in Word
  PROVE  M!Digits(word) = ToBytes(word)
<1> DEFINE D == [1 .. WordBytes -> 0 .. 2 ^ ByteBits - 1]
<1>0. word \in Nat /\ WordBytes \in Nat /\ word < TwoPow /\ TwoPow \in Nat \ {0}
  BY WordType, Sizes
<1>1. ASSUME NEW bytes \in D
      PROVE  bytes \in Seq(Byte) /\ Len(bytes) = WordBytes
  <2>1. bytes \in [1 .. WordBytes -> Byte]
    BY Zenon DEF Byte
  <2> QED BY <1>0, <2>1, FiniteSequence
<1>2. Place(WordBytes) = TwoPow /\ word \div Place(WordBytes) = 0
  <2>1. WordBytes * ByteBits = WordBits
    BY Sizes DEF WordBits
  <2> QED BY <1>0, <2>1 DEF Place, TwoPow
<1>3. ToBytes(word) \in D
  <2>1. ASSUME NEW n \in 1 .. WordBytes PROVE ToBytes(word)[n] \in 0 .. 2 ^ ByteBits - 1
    <3>1. PICK x \in Nat : x = word \div Place(WordBytes - n)
      BY <1>0, ByteOfPlace, DivType
    <3>2. x % 2 ^ ByteBits \in Byte
      BY ByteType
    <3> QED BY <1>0, <3>1, <3>2, ByteOfPlace, Zenon DEF Byte
  <2>2. ToBytes(word) = [n \in 1 .. WordBytes |-> ToBytes(word)[n]]
    BY DEF ToBytes
  <2> QED BY <2>1, <2>2, Zenon
<1>4. M!Numeral(ToBytes(word)) = word
  <2> DEFINE t == ToBytes(word)
             Good(k) == FieldOf(t, 0, k) = word \div Place(WordBytes - k)
  <2>1. t \in Seq(Byte) /\ Len(t) = WordBytes
    BY <1>1, <1>3
  <2> HIDE DEF t
  <2>2. Good(0)
    BY <1>0, <1>2, <2>1, FieldStep
  <2>3. ASSUME NEW k \in 1 .. WordBytes, Good(k - 1) PROVE Good(k)
    <3>1. FieldOf(t, 0, k) = FieldOf(t, 0, k - 1) * 2 ^ ByteBits + ByteAt(t, 0 + k)
      <4>1. k \in Nat \ {0} /\ 0 \in Nat
        OBVIOUS
      <4> QED BY <2>1, <4>1, FieldStep
    <3>2. ByteAt(t, 0 + k) = t[k]
      BY <1>0, <2>1 DEF ByteAt
    <3>3. PICK v \in Nat, b \in Nat \ {0} : v = word \div Place(WordBytes - k) /\ b = 2 ^ ByteBits
      BY <1>0, ByteOfPlace, DivType, ByteType
    <3>4. t[k] = v % b /\ word \div Place(WordBytes - (k - 1)) = v \div b
      BY <1>0, <3>3, ByteOfPlace DEF t
    <3>5. v = ((v \div b) * b) + (v % b)
      BY DivModOf
    <3> QED BY <2>3, <3>1, <3>2, <3>3, <3>4, <3>5
  <2> HIDE DEF Good
  <2>4. ASSUME NEW i \in 0 .. WordBytes, ~Good(i) PROVE FALSE
    <3> DEFINE S == {k \in 0 .. WordBytes : ~Good(k)}
    <3>1. PICK k \in S : \A j \in S : k <= j
      <4>1. S \in SUBSET Nat /\ S # {}
        BY <2>4
      <4> HIDE DEF S
      <4> QED BY <4>1, Least
    <3>2. k \in 0 .. WordBytes /\ ~Good(k) /\ k # 0
      BY <2>2
    <3>3. k \in 1 .. WordBytes /\ k - 1 \in 0 .. WordBytes /\ ~(k <= k - 1)
      BY <1>0, <3>2
    <3>4. k - 1 \notin S
      <4> HIDE DEF S
      <4> QED BY <3>1, <3>3
    <3> QED BY <2>3, <3>2, <3>3, <3>4
  <2>5. Good(WordBytes)
    <3>1. WordBytes \in 0 .. WordBytes
      BY <1>0
    <3> QED BY <2>4, <3>1
  <2>6. FieldOf(t, 0, WordBytes) = word
    <3>1. WordBytes - WordBytes = 0 /\ word \div 1 = word
      BY <1>0
    <3> QED BY <2>5, <3>1, PlaceIs DEF Good
  <2> QED BY <2>1, <2>6, NumeralIs DEF t
<1>5. ASSUME NEW bytes \in D, M!Numeral(bytes) = word PROVE bytes = ToBytes(word)
  <2>1. bytes \in Seq(Byte) /\ Len(bytes) = WordBytes /\ FieldOf(bytes, 0, WordBytes) = word
    BY <1>1, <1>5, NumeralIs
  <2>2. ASSUME NEW k \in 0 .. WordBytes PROVE FieldOf(bytes, 0, k) = word \div Place(WordBytes - k)
    <3>1. k \in Nat /\ WordBytes - k \in Nat /\ k + (WordBytes - k) = WordBytes /\ 0 \in Nat
          /\ Short(WordBytes - k)
      BY <1>0 DEF Short
    <3> QED BY <2>1, <3>1, FieldPrefix
  <2>3. ASSUME NEW k \in 1 .. WordBytes PROVE bytes[k] = ToBytes(word)[k]
    <3>1. k \in 0 .. WordBytes /\ k - 1 \in 0 .. WordBytes /\ k \in Nat \ {0} /\ 0 \in Nat
      BY <1>0
    <3>2. FieldOf(bytes, 0, k) = FieldOf(bytes, 0, k - 1) * 2 ^ ByteBits + ByteAt(bytes, 0 + k)
      BY <2>1, <3>1, FieldStep
    <3>3. ByteAt(bytes, 0 + k) = bytes[k]
      BY <1>0, <2>1 DEF ByteAt
    <3>4. PICK v \in Nat, b \in Nat \ {0} : v = word \div Place(WordBytes - k) /\ b = 2 ^ ByteBits
      BY <1>0, ByteOfPlace, DivType, ByteType
    <3>5. ToBytes(word)[k] = v % b /\ word \div Place(WordBytes - (k - 1)) = v \div b
      BY <1>0, <3>4, ByteOfPlace
    <3>6. v = ((v \div b) * b) + bytes[k]
      BY <2>2, <3>1, <3>2, <3>3, <3>4, <3>5
    <3>7. v = ((v \div b) * b) + (v % b) /\ v \div b \in Nat /\ v % b \in Nat
      <4>1. v = ((v \div b) * b) + (v % b) /\ v \div b \in Nat /\ v % b \in 0 .. b - 1
        BY DivModOf
      <4>2. \A n \in 0 .. b - 1 : n \in Nat
        OBVIOUS
      <4> QED BY ONLY <4>1, <4>2
    <3>8. PICK z \in Nat : z = (v \div b) * b
      BY <3>7, ProductType
    <3>9. bytes[k] \in Nat
      <4>1. bytes[k] \in Byte
        BY <2>1
      <4> QED BY <4>1, ByteType
    <3> QED BY <3>5, <3>6, <3>7, <3>8, <3>9
  <2>4. PICK B : bytes \in [1 .. WordBytes -> B] /\ ToBytes(word) \in [1 .. WordBytes -> B]
    BY <1>3
  <2>5. /\ bytes = [n \in 1 .. WordBytes |-> bytes[n]]
        /\ ToBytes(word) = [n \in 1 .. WordBytes |-> ToBytes(word)[n]]
    BY ONLY <2>4, Zenon
  <2>6. PICK g, I : g = ToBytes(word) /\ I = 1 .. WordBytes
    OBVIOUS
  <2>7. bytes = [n \in I |-> bytes[n]] /\ g = [n \in I |-> g[n]] /\ \A n \in I : bytes[n] = g[n]
    BY ONLY <2>3, <2>5, <2>6
  <2>8. bytes = g
    BY ONLY <2>7
  <2> QED BY <2>6, <2>8
<1>6. M!Digits(word) = CHOOSE bytes \in D : M!Numeral(bytes) = word
  BY DEF M!Digits
<1> HIDE DEF D
<1> QED BY <1>3, <1>4, <1>5, <1>6

LEMMA ByteMeans ==
  ASSUME NEW a \in Word, NEW b \in Word
  PROVE  /\ BYTE(a, b) = IF a < WordBytes THEN M!Digits(b)[a + 1] ELSE 0
         /\ BYTE(a, b) \in Word
<1>1. a \in Nat /\ b \in Nat /\ 0 \in Word /\ WordBytes \in Nat
  BY WordType, Sizes
<1>2. CASE a < WordBytes
  <2>1. ~(a >= WordBytes) /\ a + 1 \in 1 .. WordBytes /\ WordBytes - (a + 1) = WordBytes - 1 - a
    BY <1>1, <1>2
  <2>2. BYTE(a, b) = ToBytes(b)[a + 1]
    BY <2>1 DEF BYTE, ToBytes
  <2>3. ToBytes(b)[a + 1] \in Byte
    BY <1>1, <2>1, ToBytesType
  <2>4. Byte \subseteq Word
    <3>1. 2 ^ ByteBits \in Nat /\ 2 ^ ByteBits <= TwoPow /\ TwoPow \in Nat
      <4>1. ByteBits \in 0 .. WordBits
        BY Sizes
      <4> QED BY <4>1, MasksAre, WordType
    <3> QED BY <3>1, WordType DEF Byte
  <2> QED BY <1>2, <2>2, <2>3, <2>4, DigitsAre
<1>3. CASE ~(a < WordBytes)
  BY <1>1, <1>3 DEF BYTE
<1> QED BY <1>2, <1>3

----------------------------------------------------------------------------
(* What the handlers that compute push is what the operations mean.         *)

LEMMA ArithmeticMeans ==
  ASSUME NEW op \in ArithmeticOps, NEW a \in Word, NEW b \in Word
  PROVE  Arithmetic(op, a, b) = M!Meaning(op, a, b, 0) /\ Arithmetic(op, a, b) \in Word
<1>1. PICK p \in Nat \ {0} : p = TwoPow /\ Word = 0 .. p - 1 /\ {0, 1} \subseteq Word
  BY WordType
<1>2. a \in Nat /\ b \in Nat /\ a < p /\ b < p
  BY <1>1
<1>3. a + b \in Nat /\ a * b \in Nat
  BY <1>2, ProductType
<1>4. CASE op = "ADD"
  <2>1. Arithmetic(op, a, b) = (a + b) % TwoPow /\ M!Meaning(op, a, b, 0) = M!Residue(a + b)
    BY <1>4 DEF Arithmetic, M!Meaning
  <2> QED BY <1>3, <2>1, ResidueIs
<1>5. CASE op = "MUL"
  <2>1. Arithmetic(op, a, b) = (a * b) % TwoPow /\ M!Meaning(op, a, b, 0) = M!Residue(a * b)
    BY <1>5 DEF Arithmetic, M!Meaning
  <2>2. PICK x \in Nat : x = a * b
    BY <1>3
  <2> QED BY <2>1, <2>2, ResidueIs
<1>6. CASE op = "SUB"
  <2>1. Arithmetic(op, a, b) = ToTwos(a - b) /\ M!Meaning(op, a, b, 0) = M!Residue(a - b)
    BY <1>6 DEF Arithmetic, SUB, M!Meaning
  <2>2. a - b \in Int /\ -TwoPow < a - b /\ a - b < TwoPow
    BY <1>1, <1>2
  <2> QED BY <2>1, <2>2, ToTwosIs
<1>7. CASE op = "DIV"
  <2>1. /\ Arithmetic(op, a, b) = IF b = 0 THEN 0 ELSE a \div b
        /\ M!Meaning(op, a, b, 0) = IF b = 0 THEN 0 ELSE a \div b
    BY <1>7 DEF Arithmetic, M!Meaning
  <2>2. b # 0 => a \div b \in Nat /\ a \div b <= a
    BY <1>2, DivType
  <2> QED BY <1>1, <1>2, <2>1, <2>2
<1>8. CASE op = "MOD"
  <2>1. /\ Arithmetic(op, a, b) = IF b = 0 THEN 0 ELSE a % b
        /\ M!Meaning(op, a, b, 0) = IF b = 0 THEN 0 ELSE a % b
    BY <1>8 DEF Arithmetic, M!Meaning
  <2>2. b # 0 => a % b \in 0 .. b - 1
    BY <1>2, ModType
  <2> QED BY <1>1, <1>2, <2>1, <2>2
<1>9. CASE op = "SDIV"
  <2>1. /\ Arithmetic(op, a, b) = SDIV(a, b)
        /\ M!Meaning(op, a, b, 0) = M!Residue(M!Quotient(M!Signed(a), M!Signed(b)))
    BY <1>9 DEF Arithmetic, M!Meaning
  <2> QED BY <2>1, SignedDivision
<1>10. CASE op = "SMOD"
  <2>1. /\ Arithmetic(op, a, b) = SMOD(a, b)
        /\ M!Meaning(op, a, b, 0) = M!Residue(M!Rest(M!Signed(a), M!Signed(b)))
    BY <1>10 DEF Arithmetic, M!Meaning
  <2> QED BY <2>1, SignedDivision
<1>11. CASE op = "EXP"
  <2>1. Arithmetic(op, a, b) = EXP(a, b) /\ M!Meaning(op, a, b, 0) = M!Power(a, b)
    BY <1>11 DEF Arithmetic, M!Meaning
  <2> QED BY <2>1, PowerMeans
<1>12. CASE op = "SIGNEXTEND"
  <2>1. Arithmetic(op, a, b) = SIGNEXTEND(a, b) /\ M!Meaning(op, a, b, 0) = M!Extension(a, b)
    BY <1>12 DEF Arithmetic, M!Meaning
  <2> QED BY <2>1, SignExtendMeans
<1> QED BY <1>4, <1>5, <1>6, <1>7, <1>8, <1>9, <1>10, <1>11, <1>12 DEF ArithmeticOps

LEMMA ComparisonMeans ==
  ASSUME NEW op \in ComparisonOps, NEW a \in Word, NEW b \in Word
  PROVE  Comparison(op, a, b) = M!Meaning(op, a, b, 0) /\ Comparison(op, a, b) \in Word
<1>1. \A holds : Flag(holds) \in Word
  BY FlagType, WordType
<1>2. a \in Int /\ b \in Int
  BY WordType
<1>3. PICK x \in Int, y \in Int :
        x = FromTwos(a) /\ y = FromTwos(b) /\ x = M!Signed(a) /\ y = M!Signed(b)
  BY FromTwosType, FromTwosIs
<1>4. CASE op = "LT"
  <2>1. Comparison(op, a, b) = Flag(a < b) /\ M!Meaning(op, a, b, 0) = M!Truth(a < b)
    BY <1>4 DEF Comparison, M!Meaning
  <2>2. Flag(a < b) = M!Truth(a < b)
    BY DEF Flag, M!Truth
  <2> QED BY <1>1, <2>1, <2>2
<1>5. CASE op = "GT"
  <2>1. Comparison(op, a, b) = Flag(a > b) /\ M!Meaning(op, a, b, 0) = M!Truth(b < a)
    BY <1>5 DEF Comparison, M!Meaning
  <2>2. Flag(a > b) = M!Truth(b < a)
    BY <1>2 DEF Flag, M!Truth
  <2> QED BY <1>1, <2>1, <2>2
<1>6. CASE op = "SLT"
  <2>1. Comparison(op, a, b) = Flag(x < y) /\ M!Meaning(op, a, b, 0) = M!Truth(x < y)
    BY <1>3, <1>6 DEF Comparison, M!Meaning
  <2>2. Flag(x < y) = M!Truth(x < y)
    BY DEF Flag, M!Truth
  <2> QED BY <1>1, <2>1, <2>2
<1>7. CASE op = "SGT"
  <2>1. Comparison(op, a, b) = Flag(x > y) /\ M!Meaning(op, a, b, 0) = M!Truth(y < x)
    BY <1>3, <1>7 DEF Comparison, M!Meaning
  <2>2. Flag(x > y) = M!Truth(y < x)
    BY DEF Flag, M!Truth
  <2> QED BY <1>1, <2>1, <2>2
<1>8. CASE op = "EQ"
  <2>1. Comparison(op, a, b) = Flag(a = b) /\ M!Meaning(op, a, b, 0) = M!Truth(a = b)
    BY <1>8 DEF Comparison, M!Meaning
  <2>2. Flag(a = b) = M!Truth(a = b)
    BY DEF Flag, M!Truth
  <2> QED BY <1>1, <2>1, <2>2
<1> QED BY <1>4, <1>5, <1>6, <1>7, <1>8 DEF ComparisonOps

LEMMA Bitwise2Means ==
  ASSUME NEW op \in BitwiseOps, NEW a \in Word, NEW b \in Word
  PROVE  Bitwise2(op, a, b) = M!Meaning(op, a, b, 0) /\ Bitwise2(op, a, b) \in Word
<1>1. M!Bits = WordBits /\ M!Base = TwoPow
  BY DEF M!Bits, M!Base, WordBits, TwoPow
<1>2. CASE op = "AND"
  <2>1. /\ Bitwise2(op, a, b) = BitAnd(a, b)
        /\ M!Meaning(op, a, b, 0) = M!Number(M!Ones(a) \cap M!Ones(b))
    BY <1>2 DEF Bitwise2, M!Meaning
  <2> QED BY <2>1, BitwiseMean
<1>3. CASE op = "OR"
  <2>1. /\ Bitwise2(op, a, b) = BitOr(a, b)
        /\ M!Meaning(op, a, b, 0) = M!Number(M!Ones(a) \cup M!Ones(b))
    BY <1>3 DEF Bitwise2, M!Meaning
  <2> QED BY <2>1, BitwiseMean
<1>4. CASE op = "XOR"
  <2>1. /\ Bitwise2(op, a, b) = BitXor(a, b)
        /\ M!Meaning(op, a, b, 0)
             = M!Number((M!Ones(a) \cup M!Ones(b)) \ (M!Ones(a) \cap M!Ones(b)))
    BY <1>4 DEF Bitwise2, M!Meaning
  <2> QED BY <2>1, BitwiseMean
<1>5. CASE op = "BYTE"
  <2>1. /\ Bitwise2(op, a, b) = BYTE(a, b)
        /\ M!Meaning(op, a, b, 0) = IF a < WordBytes THEN M!Digits(b)[a + 1] ELSE 0
    BY <1>5 DEF Bitwise2, M!Meaning
  <2> QED BY <2>1, ByteMeans
<1>6. CASE op = "SHL"
  <2>1. /\ Bitwise2(op, a, b) = SHL(a, b)
        /\ M!Meaning(op, a, b, 0) = IF a < WordBits THEN M!Residue(b * 2 ^ a) ELSE 0
    BY <1>1, <1>6 DEF Bitwise2, M!Meaning
  <2> QED BY <2>1, ShiftLeftMeans
<1>7. CASE op = "SHR"
  <2>1. /\ Bitwise2(op, a, b) = SHR(a, b)
        /\ M!Meaning(op, a, b, 0) = IF a < WordBits THEN b \div 2 ^ a ELSE 0
    BY <1>1, <1>7 DEF Bitwise2, M!Meaning
  <2> QED BY <2>1, ShiftRightMeans
<1>8. CASE op = "SAR"
  <2>1. /\ Bitwise2(op, a, b) = SAR(a, b)
        /\ M!Meaning(op, a, b, 0) = IF a < WordBits THEN M!Residue(M!Signed(b) \div 2 ^ a)
                                    ELSE M!Residue(M!Signed(b) \div TwoPow)
    BY <1>1, <1>8 DEF Bitwise2, M!Meaning
  <2> QED BY <2>1, ShiftSignedMeans
<1> QED BY <1>2, <1>3, <1>4, <1>5, <1>6, <1>7, <1>8 DEF BitwiseOps

LEMMA ModularMeans ==
  ASSUME NEW op \in ModularOps, NEW a \in Word, NEW b \in Word, NEW c \in Word
  PROVE  Modular(op, a, b, c) = M!Meaning(op, a, b, c) /\ Modular(op, a, b, c) \in Word
<1>1. PICK p \in Nat \ {0} : Word = 0 .. p - 1
  BY WordType
<1>2. a \in Nat /\ b \in Nat /\ c \in Nat /\ 0 \in Word
  BY <1>1
<1>3. \A x \in Nat : c # 0 => x % c \in Word
  <2> SUFFICES ASSUME NEW x \in Nat, c # 0 PROVE x % c \in Word
    OBVIOUS
  <2>1. x % c \in 0 .. c - 1
    BY <1>2, ModType
  <2> QED BY <1>1, <1>2, <2>1
<1>4. CASE op = "ADDMOD"
  <2>1. /\ Modular(op, a, b, c) = IF c = 0 THEN 0 ELSE (a + b) % c
        /\ M!Meaning(op, a, b, c) = IF c = 0 THEN 0 ELSE (a + b) % c
    BY <1>4 DEF Modular, M!Meaning
  <2>2. a + b \in Nat
    BY <1>2
  <2> QED BY <1>2, <1>3, <2>1, <2>2
<1>5. CASE op = "MULMOD"
  <2>1. /\ Modular(op, a, b, c) = IF c = 0 THEN 0 ELSE (a * b) % c
        /\ M!Meaning(op, a, b, c) = IF c = 0 THEN 0 ELSE (a * b) % c
    BY <1>5 DEF Modular, M!Meaning
  <2>2. PICK x \in Nat : x = a * b
    BY <1>2, ProductType
  <2> QED BY <1>2, <1>3, <2>1, <2>2
<1> QED BY <1>4, <1>5 DEF ModularOps

\* Whatever else is among the arguments.
LEMMA ComputedMeans ==
  ASSUME NEW op \in ComputingOps, NEW args, NEW a \in Word, NEW b \in Word, NEW c \in Word,
         args[1] = a, op \notin UnaryOps => args[2] = b, op \in ModularOps => args[3] = c
  PROVE  /\ Computed(op, args) \in Word
         /\ op \in M!Ternary => Computed(op, args) = M!Meaning(op, a, b, c)
         /\ op \in M!Binary => Computed(op, args) = M!Meaning(op, a, b, 0)
         /\ op \in M!Unary => Computed(op, args) = M!Meaning(op, a, 0, 0)
<1>0. /\ args[1] = a
      /\ op \in ArithmeticOps \cup ComparisonOps \cup BitwiseOps \cup ModularOps => args[2] = b
      /\ op \in ModularOps => args[3] = c
  BY DEF ArithmeticOps, ComparisonOps, BitwiseOps, ModularOps, UnaryOps
<1>1. CASE op \in ArithmeticOps
  <2>1. op \notin M!Ternary /\ op \notin M!Unary
    BY <1>1 DEF ArithmeticOps, M!Ternary, M!Unary
  <2>2. Computed(op, args) = Arithmetic(op, args[1], args[2])
    BY <1>1, Zenon DEF Computed, ArithmeticOps, ComparisonOps, BitwiseOps, ModularOps
  <2>3. Computed(op, args) = Arithmetic(op, a, b)
    BY ONLY <1>0, <1>1, <2>2
  <2> QED BY <1>1, <2>1, <2>3, ArithmeticMeans
<1>2. CASE op \in ComparisonOps
  <2>1. op \notin M!Ternary /\ op \notin M!Unary /\ op \notin ArithmeticOps
    BY <1>2 DEF ArithmeticOps, ComparisonOps, M!Ternary, M!Unary
  <2>2. Computed(op, args) = Comparison(op, args[1], args[2])
    BY <1>2, <2>1, Zenon DEF Computed, ArithmeticOps, ComparisonOps, BitwiseOps, ModularOps
  <2>3. Computed(op, args) = Comparison(op, a, b)
    BY ONLY <1>0, <1>2, <2>2
  <2> QED BY <1>2, <2>1, <2>3, ComparisonMeans
<1>3. CASE op \in BitwiseOps
  <2>1. /\ op \notin M!Ternary /\ op \notin M!Unary
        /\ op \notin ArithmeticOps \cup ComparisonOps
    BY <1>3 DEF ArithmeticOps, ComparisonOps, BitwiseOps, M!Ternary, M!Unary
  <2>2. Computed(op, args) = Bitwise2(op, args[1], args[2])
    BY <1>3, <2>1, Zenon DEF Computed, ArithmeticOps, ComparisonOps, BitwiseOps, ModularOps
  <2>3. Computed(op, args) = Bitwise2(op, a, b)
    BY ONLY <1>0, <1>3, <2>2
  <2> QED BY <1>3, <2>1, <2>3, Bitwise2Means
<1>4. CASE op \in ModularOps
  <2>1. Computed(op, args) = Modular(op, a, b, c) /\ op \notin M!Binary /\ op \notin M!Unary
    BY <1>0, <1>4 DEF Computed, ArithmeticOps, ComparisonOps, BitwiseOps, ModularOps,
                      M!Binary, M!Unary
  <2> QED BY <1>4, <2>1, ModularMeans
<1>5. CASE op = "ISZERO"
  <2>1. Computed(op, args) = Flag(a = 0) /\ op \notin M!Binary /\ op \notin M!Ternary
    BY <1>0, <1>5 DEF Computed, ArithmeticOps, ComparisonOps, BitwiseOps, ModularOps,
                      M!Binary, M!Ternary
  <2>2. M!Meaning(op, a, 0, 0) = M!Truth(a = 0)
    BY <1>5 DEF M!Meaning
  <2>3. Flag(a = 0) \in Word
    BY FlagType, WordType
  <2> QED BY <2>1, <2>2, <2>3 DEF Flag, M!Truth
<1>6. CASE op = "NOT"
  <2>1. Computed(op, args) = Notn(a) /\ op \notin M!Binary /\ op \notin M!Ternary
    BY <1>0, <1>6 DEF Computed, ArithmeticOps, ComparisonOps, BitwiseOps, ModularOps,
                      M!Binary, M!Ternary
  <2>2. M!Meaning(op, a, 0, 0) = TwoPow - 1 - a
    BY <1>6 DEF M!Meaning, M!Base, M!Bits, TwoPow, WordBits
  <2>3. Notn(a) = MaxInteger - a
    BY NotnIs
  <2>4. MaxInteger - a \in Word
    BY WordType DEF MaxInteger
  <2> QED BY <2>1, <2>2, <2>3, <2>4 DEF MaxInteger
<1> QED BY <1>1, <1>2, <1>3, <1>4, <1>5, <1>6 DEF ComputingOps, UnaryOps

\* The result of an operation is what the machine means by it, for words of any size:
\* two's complement, masks and loops over bits against residues and signed numbers
\* (opFns.ts, bn.js; see Meaning of Machine).
THEOREM OperationsMean ==
  ASSUME NEW op \in ComputingOps, NEW a \in Word, NEW b \in Word, NEW c \in Word
  PROVE  /\ Computed(op, <<a, b, c>>) \in Word
         /\ op \in M!Ternary => Computed(op, <<a, b, c>>) = M!Meaning(op, a, b, c)
         /\ op \in M!Binary => Computed(op, <<a, b, c>>) = M!Meaning(op, a, b, 0)
         /\ op \in M!Unary => Computed(op, <<a, b, c>>) = M!Meaning(op, a, 0, 0)
<1> DEFINE args == <<a, b, c>>
<1>1. args[1] = a /\ args[2] = b /\ args[3] = c
  OBVIOUS
<1> HIDE DEF args
<1>2. /\ Computed(op, args) \in Word
      /\ op \in M!Ternary => Computed(op, args) = M!Meaning(op, a, b, c)
      /\ op \in M!Binary => Computed(op, args) = M!Meaning(op, a, b, 0)
      /\ op \in M!Unary => Computed(op, args) = M!Meaning(op, a, 0, 0)
  BY <1>1, ComputedMeans
<1> QED BY <1>2 DEF args

\* The machine has the same table.
LEMMA SameGte ==
  ASSUME NEW fork, NEW other PROVE M!Gte(fork, other) = Gte(fork, other)
BY DEF M!Gte, Gte, M!Hardforks, Hardforks

LEMMA SameNames ==
  ASSUME NEW fork, NEW byte
  PROVE  M!Name(fork, byte) = Name(fork, byte) /\ M!Width(byte) = Width(byte)
<1>1. M!Gte(fork, "istanbul") = Gte(fork, "istanbul")
  BY SameGte
<1>2. /\ M!Row0 = Row0 /\ M!Row1 = Row1 /\ M!Row3 = Row3 /\ M!Row4 = Row4
      /\ M!Row4Istanbul = Row4Istanbul /\ M!Row5 = Row5 /\ M!RowF = RowF
  BY Zenon DEF M!Row0, Row0, M!Row1, Row1, M!Row3, Row3, M!Row4, Row4, M!Row4Istanbul,
               Row4Istanbul, M!Row5, Row5, M!RowF, RowF
<1>3. M!Name(fork, byte) = Name(fork, byte)
  BY <1>1, <1>2 DEF M!Name, Name
<1>4. M!Width(byte) = Width(byte)
  BY DEF M!Width, Width
<1> QED BY <1>3, <1>4

----------------------------------------------------------------------------
(* The instructions of the code, and the jumps that are found.             *)

\* The machine finds the instructions of a code one after the other.
LEMMA StartsFound ==
  ASSUME job \in Job
  PROVE  /\ M!Starts \subseteq Nat /\ 0 \in M!Starts
         /\ \A at \in M!Starts :
              at < Len(job.code) =>
                /\ After(job.code, job.fork, at) \in M!Starts
                /\ at < After(job.code, job.fork, at)
                /\ \A x \in M!Starts : x < After(job.code, job.fork, at) => x <= at
<1> DEFINE L == Len(job.code)
           next(v) == IF v < L THEN After(job.code, job.fork, v) ELSE v
           Solves(f) == f = [n \in 0 .. L |-> IF n = 0 THEN 0 ELSE next(f[n - 1])]
           nth == CHOOSE f : Solves(f)
<1>0. L \in Nat
  BY JobFacts
<1>1. M!Starts = {nth[n] : n \in DOMAIN nth}
  <2> DEFINE after(at) == at + 1 + IF M!Instr(at) = "PUSH" THEN M!Number1(at) ELSE 0
             go(v) == IF v < L THEN after(v) ELSE v
             walk == CHOOSE f : f = [n \in 0 .. L |-> IF n = 0 THEN 0 ELSE go(f[n - 1])]
  <2>1. M!Starts = {walk[n] : n \in DOMAIN walk}
    BY DEF M!Starts
  <2>2. \A v : go(v) = next(v)
    <3>1. ASSUME NEW v PROVE after(v) = After(job.code, job.fork, v)
      BY SameNames, Zenon DEF M!Instr, M!Number1, After
    <3> HIDE DEF after
    <3> QED BY <3>1
  <2> HIDE DEF go, next, L
  <2>3. ASSUME NEW f
        PROVE  [n \in 0 .. L |-> IF n = 0 THEN 0 ELSE go(f[n - 1])]
                 = [n \in 0 .. L |-> IF n = 0 THEN 0 ELSE next(f[n - 1])]
    BY <2>2
  <2>4. walk = nth
    BY <2>3
  <2> QED BY <2>1, <2>4
<1>2. \A v \in Nat : next(v) \in Nat /\ v <= next(v) /\ (v < L => v < next(v))
  <2> SUFFICES ASSUME NEW v \in Nat, v < L PROVE next(v) \in Nat /\ v < next(v)
    OBVIOUS
  <2>1. CodeByte(v) \in 0 .. 255
    BY JobFacts
  <2>2. Width(job.code[v + 1]) \in Nat
    BY <2>1, WidthIsNatural DEF CodeByte
  <2> QED BY <2>2 DEF After
<1>3. PICK f \in [0 .. L -> Nat] : f[0] = 0 /\ \A k \in 1 .. L : f[k] = next(f[k - 1])
  <2> DEFINE step == [p \in Nat \X (1 .. L) |-> next(p[1])]
  <2> HIDE DEF next, L
  <2>1. step \in [Nat \X (1 .. L) -> Nat]
    BY <1>2
  <2>2. \A v \in Nat, k \in 1 .. L : step[<<v, k>>] = next(v)
    OBVIOUS
  <2> HIDE DEF step
  <2>3. 0 \in Nat
    OBVIOUS
  <2>4. PICK f \in [0 .. L -> Nat] : Recurses(f, step, 0, L)
    BY <1>0, <2>1, <2>3, RecursionExists
  <2>5. ASSUME NEW k \in 1 .. L PROVE f[k] = next(f[k - 1])
    <3>1. k - 1 \in 0 .. L
      BY <1>0
    <3> QED BY <2>2, <2>4, <3>1 DEF Recurses
  <2> QED BY <2>4, <2>5 DEF Recurses
<1> HIDE DEF next, L
<1>4. Solves(f)
  <2>1. f = [n \in 0 .. L |-> f[n]]
    OBVIOUS
  <2>2. \A n \in 0 .. L : f[n] = IF n = 0 THEN 0 ELSE next(f[n - 1])
    BY <1>0, <1>3
  <2> QED BY <2>1, <2>2
<1>5. Solves(nth)
  BY <1>4
<1> HIDE DEF nth
<1>6. DOMAIN nth = 0 .. L /\ \A n \in 0 .. L : nth[n] = IF n = 0 THEN 0 ELSE next(nth[n - 1])
  BY <1>5
<1> HIDE DEF Solves
<1>7. \A n \in 0 .. L : nth[n] \in Nat /\ (nth[n] >= n \/ nth[n] >= L)
  <2> DEFINE Good(n) == nth[n] \in Nat /\ (nth[n] >= n \/ nth[n] >= L)
             S == {n \in 0 .. L : ~Good(n)}
  <2> SUFFICES ASSUME S # {} PROVE FALSE
    OBVIOUS
  <2>1. PICK m \in S : \A k \in S : m <= k
    <3>1. S \in SUBSET Nat
      BY <1>0
    <3> HIDE DEF S
    <3> QED BY <3>1, Least
  <2>2. m \in 0 .. L /\ ~Good(m)
    OBVIOUS
  <2>3. m # 0
    BY <1>6, <2>2
  <2>4. m \in 1 .. L /\ m - 1 \in 0 .. L /\ ~(m <= m - 1)
    BY <1>0, <2>2, <2>3
  <2>5. Good(m - 1)
    <3>1. m - 1 \notin S
      <4> HIDE DEF S
      <4> QED BY <2>1, <2>4
    <3> QED BY <2>4, <3>1
  <2>6. PICK v \in Nat, w \in Nat :
          /\ v = nth[m - 1] /\ w = nth[m] /\ v <= w
          /\ v < L => v < w
          /\ v >= m - 1 \/ v >= L
    <3>1. nth[m] = next(nth[m - 1])
      BY <1>6, <2>2, <2>3
    <3> QED BY <1>2, <2>5, <3>1
  <2>7. Good(m)
    BY <1>0, <2>4, <2>6
  <2> QED BY <2>2, <2>7
<1>8. ASSUME NEW j \in 0 .. L, NEW k \in 0 .. L, j <= k PROVE nth[j] <= nth[k]
  <2> DEFINE S == {n \in j .. L : ~(nth[j] <= nth[n])}
  <2> SUFFICES ASSUME S # {} PROVE FALSE
    <3>1. k \in j .. L
      BY <1>0, <1>8
    <3> QED BY <3>1
  <2>1. PICK m \in S : \A n \in S : m <= n
    <3>1. S \in SUBSET Nat
      BY <1>0
    <3> HIDE DEF S
    <3> QED BY <3>1, Least
  <2>2. m \in j .. L /\ ~(nth[j] <= nth[m])
    OBVIOUS
  <2>3. nth[j] \in Nat
    BY <1>7
  <2>4. m # j
    BY <2>2, <2>3
  <2>5. m \in 1 .. L /\ m # 0 /\ m \in 0 .. L /\ m - 1 \in 0 .. L /\ m - 1 \in j .. L /\ ~(m <= m - 1)
    BY <1>0, <2>2, <2>4
  <2>6. nth[j] <= nth[m - 1]
    <3>1. m - 1 \notin S
      <4> HIDE DEF S
      <4> QED BY <2>1, <2>5
    <3> QED BY <2>5, <3>1
  <2>7. nth[m] = next(nth[m - 1]) /\ nth[m - 1] \in Nat
    BY <1>6, <1>7, <2>5
  <2>8. PICK u \in Nat, v \in Nat, w \in Nat :
          u = nth[j] /\ v = nth[m - 1] /\ w = nth[m] /\ v <= w
    BY <1>2, <2>3, <2>7
  <2> QED BY <2>2, <2>6, <2>8
<1>9. ASSUME NEW at \in M!Starts, at < L
      PROVE  /\ next(at) \in M!Starts /\ at < next(at)
             /\ \A x \in M!Starts : x < next(at) => x <= at
  <2>1. PICK n \in 0 .. L : at = nth[n]
    BY <1>1, <1>6
  <2>2. at \in Nat /\ n <= at
    BY <1>0, <1>7, <1>9, <2>1
  <2>3. n + 1 \in 0 .. L /\ n + 1 # 0 /\ (n + 1) - 1 = n
    BY <1>0, <1>9, <2>2
  <2>4. nth[n + 1] = next(at)
    BY <1>6, <2>1, <2>3
  <2>5. ASSUME NEW x \in M!Starts, x < next(at) PROVE x <= at
    <3>1. PICK k \in 0 .. L : x = nth[k]
      BY <1>1, <1>6
    <3>2. x \in Nat /\ next(at) \in Nat
      BY <1>2, <1>7, <2>2, <3>1
    <3>3. ~(n + 1 <= k)
      <4>1. n + 1 <= k => next(at) <= x
        BY <1>8, <2>3, <2>4, <3>1
      <4> QED BY <2>5, <3>2, <4>1
    <3>4. k <= n
      BY <3>3
    <3> QED BY <1>8, <2>1, <3>1, <3>4
  <2> QED BY <1>1, <1>2, <1>6, <1>9, <2>2, <2>3, <2>4, <2>5
<1>10. M!Starts \subseteq Nat /\ 0 \in M!Starts
  BY <1>0, <1>1, <1>6, <1>7
<1> QED BY <1>9, <1>10 DEF next, L

\* A hash is 32 bytes, as a word is.
HashesAreWords == \A bytes \in Seq(Byte) : Keccak(bytes) \in Word

\* Every size that is pushed as a word is below 2^256: the code of a run, its call data
\* and what a call hands back are no longer than that, and a gas limit, of which a word
\* of memory costs at least one, pays for no more of it.
SizesFit ==
  /\ Price["memory"] >= 1
  /\ \A j \in Job : Len(j.code) <= MaxInteger /\ j.gasLimit * WordBytes <= MaxInteger
  /\ Len(CallData) <= MaxInteger
  /\ \A answer \in Answer : Len(answer.data) <= MaxInteger

\* The JUMPDEST instructions of the code.
JumpDests == {at \in M!Starts : at < Len(job.code) /\ CodeName(at) = "JUMPDEST"}

\* What the machine leaves out of its state or reads off the code: a failed run is over,
\* the scan for jumps is at an instruction and has found the JUMPDESTs before it, the gas
\* that is spent pays for the memory there is, and what a call handed back has a size.
Matched ==
  /\ exception = NoError \/ status = "stopped"
  /\ scan \in M!Starts
  /\ validJumps = {at \in JumpDests : at < scan}
  /\ status = "running" => scan >= Len(job.code)
  /\ gasLeft + MemoryCost(memoryWordCount) <= job.gasLimit
  /\ Len(lastReturned) <= MaxInteger

LEMMA StartsStay ==
  ASSUME job' = job PROVE M!Starts' = M!Starts /\ JumpDests' = JumpDests
<1>1. M!Starts' = M!Starts
  BY DEF M!Starts, M!Instr, M!Number1
<1> QED BY <1>1 DEF JumpDests, CodeName, CodeByte

LEMMA InitMatched == Init => Matched
<1> SUFFICES ASSUME Init PROVE Matched
  OBVIOUS
<1>1. /\ job \in Job /\ scan = 0 /\ validJumps = {} /\ memoryWordCount = 0
      /\ gasLeft = job.gasLimit /\ lastReturned = <<>> /\ status = "validating"
      /\ exception = NoError
  BY DEF Init, Activation
<1>2. 0 \in M!Starts /\ M!Starts \subseteq Nat
  BY <1>1, StartsFound
<1>3. MemoryCost(0) = 0
  <2>1. PICK m \in Nat, q \in Nat \ {0} : m = Price["memory"] /\ q = Price["quadCoeffDiv"]
    BY EnvironmentAssumption
  <2>2. 0 * m = 0 /\ 0 * 0 = 0 /\ 0 \div q = 0 /\ 0 + 0 = 0
    BY ONLY m \in Nat, q \in Nat \ {0}
  <2>3. MemoryCost(0) = 0 * m + (0 * 0) \div q
    BY <2>1 DEF MemoryCost
  <2> QED BY <2>2, <2>3
<1>4. job.gasLimit \in Nat
  BY <1>1, JobAssumption
<1>5. Len(<<>>) <= MaxInteger
  BY WordType DEF MaxInteger
<1>6. validJumps = {at \in JumpDests : at < scan}
  <2>1. JumpDests \subseteq Nat
    BY <1>2 DEF JumpDests
  <2>2. ASSUME NEW at \in JumpDests PROVE ~(at < scan)
    <3>1. at \in Nat /\ scan = 0
      BY <1>1, <2>1
    <3> QED BY ONLY <3>1
  <2> QED BY <1>1, <2>2
<1>7. gasLeft + MemoryCost(memoryWordCount) <= job.gasLimit
  BY <1>1, <1>3, <1>4
<1> QED BY <1>1, <1>2, <1>5, <1>6, <1>7 DEF Matched

LEMMA FindsJumpDest ==
  ASSUME Typed, Matched, FindJumpDest PROVE Matched'
<1> DEFINE S == M!Starts
           J == JumpDests
           next == After(job.code, job.fork, scan)
<1>1. /\ job \in Job /\ scan \in Nat /\ scan < Len(job.code) /\ status = "validating"
      /\ validJumps' = IF CodeName(scan) = "JUMPDEST" THEN validJumps \cup {scan} ELSE validJumps
      /\ scan' = next
      /\ UNCHANGED <<job, programCounter, runVars, status, exception>>
  BY DEF Typed, IInv, FindJumpDest, After, CodeName, CodeByte
<1>2. /\ S \subseteq Nat /\ next \in S /\ scan < next /\ scan \in S
      /\ \A x \in S : x < next => x <= scan
  BY <1>1, StartsFound DEF Matched
<1>3. S' = S /\ J' = J
  BY <1>1, StartsStay
<1>4. validJumps = {at \in J : at < scan}
  BY DEF Matched
<1>5. J \subseteq S /\ (CodeName(scan) = "JUMPDEST" <=> scan \in J)
  BY <1>1, <1>2 DEF JumpDests
<1> HIDE DEF S, next, J
<1>6. validJumps' = {at \in J : at < next}
  <2>1. \A at \in S : at < next <=> at < scan \/ at = scan
    <3>1. next \in Nat /\ scan \in Nat
      BY <1>1, <1>2
    <3> QED BY <1>2, <3>1
  <2>2. \A at \in J : at < next <=> at < scan \/ at = scan
    BY <1>5, <2>1
  <2>3. CASE CodeName(scan) = "JUMPDEST"
    <3>1. validJumps' = validJumps \cup {scan}
      BY <1>1, <2>3
    <3> QED BY <1>4, <1>5, <2>2, <2>3, <3>1
  <2>4. CASE CodeName(scan) # "JUMPDEST"
    <3>1. validJumps' = validJumps
      BY <1>1, <2>4
    <3> QED BY <1>4, <1>5, <2>2, <2>4, <3>1
  <2> QED BY <2>3, <2>4
<1>7. validJumps' = {at \in JumpDests' : at < scan'}
  BY <1>1, <1>3, <1>6 DEF J
<1>8. scan' \in M!Starts'
  BY <1>1, <1>2, <1>3 DEF S
<1>9. /\ exception' = exception /\ status' = status /\ gasLeft' = gasLeft
      /\ memoryWordCount' = memoryWordCount /\ lastReturned' = lastReturned /\ job' = job
  BY <1>1 DEF runVars
<1>10. gasLeft' + MemoryCost(memoryWordCount') <= job'.gasLimit
  BY <1>9 DEF Matched
<1>11. (gasLeft + MemoryCost(memoryWordCount) <= job.gasLimit)'
  BY <1>10 DEF MemoryCost
<1> QED BY <1>1, <1>7, <1>8, <1>9, <1>11 DEF Matched

\* What the memory has cost and what is left come to what was given at most.
LEMMA GasCovers ==
  ASSUME Typed, Matched, NEW op, Accepted(op), NEW used \in Nat,
         gasLeft' = gasLeft - Cost(op) - used, memoryWordCount' = WordsTouched(op), job' = job
  PROVE  (gasLeft + MemoryCost(memoryWordCount) <= job.gasLimit)'
<1>1. PICK f \in Nat, a \in Nat, b \in Nat, c \in Nat :
        /\ f = Fee(job.fork, op) /\ a = ArgumentCost(op)
        /\ b = MemoryCost(WordsTouched(op)) /\ c = MemoryCost(memoryWordCount)
  <2>1. WordsTouched(op) \in Nat /\ memoryWordCount \in Nat
        /\ memoryWordCount <= WordsTouched(op)
    BY WordsTouchedType DEF Typed, TypeOK
  <2>2. Fee(job.fork, op) \in Nat
    BY FeeType DEF Accepted
  <2>3. ArgumentCost(op) \in Nat
    BY ArgumentCostType
  <2>4. MemoryCost(WordsTouched(op)) \in Nat /\ MemoryCost(memoryWordCount) \in Nat
    BY <2>1, MemoryCostType
  <2> QED BY <2>2, <2>3, <2>4
<1>2. Cost(op) = f + a + b - c
  BY <1>1 DEF Cost
<1>3. PICK g \in Nat, l \in Nat : g = gasLeft /\ l = job.gasLimit /\ g + c <= l
  <2>1. gasLeft \in Nat /\ job.gasLimit \in Nat
    BY DEF Typed, TypeOK
  <2> QED BY <1>1, <2>1 DEF Matched
<1>4. (g - (f + a + b - c) - used) + b <= l
  BY <1>3
<1>5. gasLeft' + MemoryCost(memoryWordCount') <= job'.gasLimit
  BY <1>1, <1>2, <1>3, <1>4
<1> QED BY <1>5 DEF MemoryCost

LEMMA HandledMatched ==
  ASSUME Typed, Matched, NEW op, Accepted(op), NEW used \in Nat,
         gasLeft' = gasLeft - Cost(op) - used, memoryWordCount' = WordsTouched(op),
         UNCHANGED <<job, scan, validJumps>>,
         exception' = exception \/ status' = "stopped",
         Len(lastReturned') <= MaxInteger
  PROVE  Matched'
<1>1. M!Starts' = M!Starts /\ JumpDests' = JumpDests
  BY StartsStay
<1>2. status = "running"
  BY DEF Accepted, Running
<1>3. scan' >= Len(job'.code) /\ (exception' = NoError \/ status' = "stopped")
  BY <1>2 DEF Matched
<1>4. scan' \in M!Starts' /\ validJumps' = {at \in JumpDests' : at < scan'}
  BY <1>1 DEF Matched
<1>5. (gasLeft + MemoryCost(memoryWordCount) <= job.gasLimit)'
  BY GasCovers
<1> QED BY <1>3, <1>4, <1>5 DEF Matched

LEMMA ExecutesMatched ==
  ASSUME Typed, Matched, NEW op \in HandledOps, Executes(op),
         lastReturned' = lastReturned
  PROVE  Matched'
<1>1. Accepted(op) /\ gasLeft' = gasLeft - Cost(op) /\ memoryWordCount' = WordsTouched(op)
      /\ UNCHANGED <<job, scan, validJumps, exception>>
  BY DEF Executes, Accepted
<1>2. gasLeft' = gasLeft - Cost(op) - 0
  <2>1. gasLeft \in Int /\ Cost(op) \in Int
    BY <1>1, CostType DEF Typed, TypeOK
  <2> QED BY <1>1, <2>1
<1>3. Len(lastReturned') <= MaxInteger
  BY DEF Matched
<1> QED BY <1>1, <1>2, <1>3, HandledMatched

LEMMA HandleMatched ==
  ASSUME Typed, Matched, SizesFit, Handle PROVE Matched'
<1>1. ASSUME NEW op \in PushingOps, PushResult(op) PROVE Matched'
  BY <1>1, ExecutesMatched DEF PushResult, HandledOps
<1>2. CASE Pop
  BY <1>2, ExecutesMatched DEF Pop, HandledOps
<1>3. CASE Push
  BY <1>3, ExecutesMatched DEF Push, HandledOps
<1>4. CASE Dup
  BY <1>4, ExecutesMatched DEF Dup, HandledOps
<1>5. CASE Swap
  BY <1>5, ExecutesMatched DEF Swap, HandledOps
<1>6. CASE Log
  BY <1>6, ExecutesMatched DEF Log, HandledOps
<1>7. ASSUME NEW op \in {"JUMP", "JUMPI", "JUMPDEST"}, Jump(op) PROVE Matched'
  BY <1>7, ExecutesMatched DEF Jump, HandledOps
<1>8. ASSUME NEW op \in {"MSTORE", "MSTORE8"}, StoreWord(op) PROVE Matched'
  BY <1>8, ExecutesMatched DEF StoreWord, HandledOps
<1>9. ASSUME NEW op \in CopyOps, Copy(op) PROVE Matched'
  BY <1>9, ExecutesMatched DEF Copy, HandledOps
<1>10. ASSUME NEW op \in {"STOP", "RETURN", "REVERT"}, Finish(op) PROVE Matched'
  <2>1. /\ Accepted(op) /\ gasLeft' = gasLeft - Cost(op) /\ memoryWordCount' = WordsTouched(op)
        /\ UNCHANGED <<job, scan, validJumps, lastReturned>> /\ status' = "stopped"
    BY <1>10 DEF Finish, Accepted, HandledOps
  <2>2. gasLeft' = gasLeft - Cost(op) - 0
    <3>1. gasLeft \in Int /\ Cost(op) \in Int
      BY <2>1, CostType DEF Typed, TypeOK
    <3> QED BY <2>1, <3>1
  <2>3. Len(lastReturned') <= MaxInteger
    BY <2>1 DEF Matched
  <2> QED BY <2>1, <2>2, <2>3, HandledMatched
<1>11. ASSUME NEW op \in CallOps, NEW answer \in Answer,
              CallMessage(op, answer) \/ LoseAnswer(op, answer)
       PROVE  Matched'
  <2>1. /\ Accepted(op) /\ memoryWordCount' = WordsTouched(op)
        /\ gasLeft' = gasLeft - Cost(op) - answer.gasUsed
        /\ UNCHANGED <<job, scan, validJumps>> /\ lastReturned' = answer.data
        /\ UNCHANGED exception \/ status' = "stopped"
    BY <1>11 DEF CallMessage, LoseAnswer, MessageAnswered, Accepted, HandledOps
  <2>2. answer.gasUsed \in Nat
    BY EnvironmentAssumption
  <2>3. Len(lastReturned') <= MaxInteger
    BY <2>1 DEF SizesFit
  <2> QED BY <2>1, <2>2, <2>3, HandledMatched
<1> QED BY <1>1, <1>2, <1>3, <1>4, <1>5, <1>6, <1>7, <1>8, <1>9, <1>10, <1>11 DEF Handle

LEMMA RestMatched ==
  ASSUME Typed, Matched, UNCHANGED <<job, scan, validJumps, runVars>>,
         exception' = NoError \/ status' = "stopped",
         status' = "running" => scan >= Len(job.code)
  PROVE  Matched'
<1>1. M!Starts' = M!Starts /\ JumpDests' = JumpDests
  BY StartsStay
<1>2. /\ gasLeft' = gasLeft /\ memoryWordCount' = memoryWordCount
      /\ lastReturned' = lastReturned
  BY DEF runVars
<1>3. scan' \in M!Starts' /\ validJumps' = {at \in JumpDests' : at < scan'}
  BY <1>1 DEF Matched
<1>4. gasLeft' + MemoryCost(memoryWordCount') <= job'.gasLimit
  BY <1>2 DEF Matched
<1>5. (gasLeft + MemoryCost(memoryWordCount) <= job.gasLimit)'
  BY <1>4 DEF MemoryCost
<1>6. Len(lastReturned') <= MaxInteger
  BY <1>2 DEF Matched
<1> QED BY <1>3, <1>5, <1>6 DEF Matched

LEMMA StepMatched ==
  ASSUME SizesFit
  PROVE  Typed /\ Matched /\ [Next]_vars => Matched'
<1> SUFFICES ASSUME Typed, Matched, [Next]_vars PROVE Matched'
  OBVIOUS
<1>1. CASE FindJumpDest
  BY <1>1, FindsJumpDest
<1>2. CASE Start
  BY <1>2, RestMatched DEF Start, Matched
<1>3. CASE EndOfCode
  BY <1>3, RestMatched DEF EndOfCode
<1>4. CASE Trap
  BY <1>4, RestMatched DEF Trap
<1>5. CASE Handle
  BY <1>5, HandleMatched
<1>6. CASE UNCHANGED vars
  BY <1>6, RestMatched DEF vars, Matched
<1> QED BY <1>1, <1>2, <1>3, <1>4, <1>5, <1>6 DEF Next

----------------------------------------------------------------------------
(* What the machine sees of the state: its stack, its instruction.         *)

\* The stack of the machine has its top in front.
LEMMA Reversed ==
  ASSUME NEW X, NEW s \in Seq(X)
  PROVE  /\ Reverse(s) \in Seq(X) /\ Len(Reverse(s)) = Len(s)
         /\ \A k \in 1 .. Len(s) : Reverse(s)[k] = s[Len(s) + 1 - k]
<1>1. PICK n \in Nat : n = Len(s)
  OBVIOUS
<1>2. \A k \in 1 .. n : (n - k) + 1 = n + 1 - k /\ n + 1 - k \in 1 .. n
  BY <1>1
<1>3. Reverse(s) = [k \in 1 .. n |-> s[(n - k) + 1]]
  BY <1>1 DEF Reverse
<1>4. \A k \in 1 .. n : Reverse(s)[k] = s[n + 1 - k] /\ Reverse(s)[k] \in X
  <2> SUFFICES ASSUME NEW k \in 1 .. n
               PROVE  Reverse(s)[k] = s[n + 1 - k] /\ Reverse(s)[k] \in X
    OBVIOUS
  <2>1. Reverse(s)[k] = s[(n - k) + 1]
    BY <1>3
  <2> QED BY <1>1, <1>2, <2>1
<1>5. Reverse(s) \in [1 .. n -> X]
  BY <1>3, <1>4
<1>6. Reverse(s) \in Seq(X) /\ Len(Reverse(s)) = n
  BY <1>5, FiniteSequence
<1> QED BY <1>1, <1>4, <1>6

LEMMA TopIs ==
  ASSUME Typed
  PROVE  /\ Reverse(stack) \in Seq(Word) /\ Len(Reverse(stack)) = Len(stack)
         /\ \A k \in Nat \ {0} : k <= Len(stack) => Reverse(stack)[k] = Top(k)
<1>1. stack \in Seq(Word)
  BY DEF Typed, TypeOK
<1> QED BY <1>1, Reversed DEF Top

LEMMA SameInstruction == M!Op = Op /\ M!N = OpWidth
BY SameNames DEF M!Op, M!Instr, M!N, M!Number1, Op, CodeName, CodeByte, OpWidth

LEMMA SameSets ==
  /\ M!Unary = UnaryOps /\ M!Ternary = ModularOps
  /\ M!Binary = ArithmeticOps \cup ComparisonOps \cup BitwiseOps
  /\ M!Known = EnvOps /\ M!Asked = LookupOps \ {"BLOCKHASH"}
  /\ M!Copies = CopyOps /\ M!Subcalls = CallOps
<1>1. M!Unary = UnaryOps /\ M!Ternary = ModularOps
  BY DEF M!Unary, UnaryOps, M!Ternary, ModularOps
<1>2. M!Binary = ArithmeticOps \cup ComparisonOps \cup BitwiseOps
  BY DEF M!Binary, ArithmeticOps, ComparisonOps, BitwiseOps
<1>3. M!Known = EnvOps /\ M!Asked = LookupOps \ {"BLOCKHASH"}
  BY DEF M!Known, EnvOps, M!Asked, LookupOps
<1>4. M!Copies = CopyOps /\ M!Subcalls = CallOps
  BY DEF M!Copies, CopyOps, M!Subcalls, CallOps
<1> QED BY <1>1, <1>2, <1>3, <1>4

\* What an opcode needs is a number.
LEMMA OpFacts ==
  ASSUME Typed, Running
  PROVE  /\ OpWidth \in Nat /\ Pops(Op) \in Nat /\ Needs(Op) \in Nat /\ Pops(Op) <= Needs(Op)
         /\ Len(stack) \in Nat
<1>1. OpWidth \in Nat
  <2>1. programCounter \in Nat /\ programCounter < Len(job.code) /\ job \in Job
    BY DEF Typed, IInv, Running
  <2>2. CodeByte(programCounter) \in 0 .. 255
    BY <2>1, JobFacts
  <2> QED BY <2>2, WidthIsNatural DEF OpWidth
<1>2. Len(stack) \in Nat
  BY DEF Typed, TypeOK
<1>3. Pops(Op) \in {0, 1, 2, 3, 4, 6, 2 + OpWidth}
  BY DEF Pops
<1>4. Pops(Op) \in Nat
  BY <1>1, <1>3
<1>5. Needs(Op) \in Nat /\ Pops(Op) <= Needs(Op)
  <2>1. Op \in {"DUP", "SWAP"} => Pops(Op) = 0
    BY PopsOf
  <2> QED BY <1>1, <1>4, <2>1 DEF Needs
<1> QED BY <1>1, <1>2, <1>4, <1>5

\* An opcode takes what it needs.
LEMMA TakesIs ==
  ASSUME Typed, Running PROVE M!Takes = Needs(Op)
<1>1. Needs(Op) = CASE Op = "DUP" -> OpWidth [] Op = "SWAP" -> OpWidth + 1 [] OTHER -> Pops(Op)
  BY DEF Needs
<1>2. Pops(Op) =
        CASE Op \in (ComputingOps \ (ModularOps \cup UnaryOps))
                    \cup {"SHA3", "MSTORE", "MSTORE8", "JUMPI", "RETURN", "REVERT"} -> 2
          [] Op \in ModularOps \cup (CopyOps \ {"EXTCODECOPY"}) -> 3
          [] Op \in UnaryOps \cup LookupOps \cup {"CALLDATALOAD", "MLOAD", "JUMP", "POP"} -> 1
          [] Op = "EXTCODECOPY" -> 4
          [] Op \in CallOps -> 6
          [] Op = "LOG" -> 2 + OpWidth
          [] OTHER -> 0
  BY Zenon DEF Pops
<1>3. M!Takes =
        CASE Op \in UnaryOps \cup (LookupOps \ {"BLOCKHASH"})
                    \cup {"BLOCKHASH", "CALLDATALOAD", "POP", "MLOAD", "JUMP"} -> 1
          [] Op \in (ArithmeticOps \cup ComparisonOps \cup BitwiseOps)
                    \cup {"SHA3", "MSTORE", "MSTORE8", "JUMPI", "RETURN", "REVERT"} -> 2
          [] Op \in ModularOps \cup (CopyOps \ {"EXTCODECOPY"}) -> 3
          [] Op = "EXTCODECOPY" -> 4
          [] Op \in CallOps -> 6
          [] Op = "LOG" -> OpWidth + 2
          [] Op = "DUP" -> OpWidth
          [] Op = "SWAP" -> OpWidth + 1
          [] OTHER -> 0
  BY SameInstruction, SameSets, Zenon DEF M!Takes
<1>4. OpWidth + 2 = 2 + OpWidth
  BY OpFacts
<1> QED BY <1>1, <1>2, <1>3, <1>4 DEF ComputingOps, ArithmeticOps, ComparisonOps, BitwiseOps,
       ModularOps, UnaryOps, LookupOps, CopyOps, CallOps

LEMMA GivesAre ==
  M!Gives = IF Op \in {"STOP", "POP", "MSTORE", "MSTORE8", "JUMP", "JUMPI", "JUMPDEST",
                       "LOG", "RETURN", "REVERT"} \cup CopyOps THEN 0
            ELSE IF Op \in {"DUP", "SWAP"} THEN OpWidth + 1 ELSE 1
BY SameInstruction, SameSets DEF M!Gives, CopyOps

\* A handler that lets the stack grow takes it to its limit where the machine says.
LEMMA Overfull ==
  ASSUME Typed, Running, Needs(Op) <= Len(stack)
  PROVE  /\ Grows(Op) => (Len(stack) - Pops(Op) > StackLimit - 1
                            <=> Len(stack) - M!Takes + M!Gives > StackLimit)
         /\ Op \in HandledOps /\ ~Grows(Op) => ~(Len(stack) - M!Takes + M!Gives > StackLimit)
<1>0. /\ OpWidth \in Nat /\ Len(stack) \in Nat /\ Needs(Op) \in Nat /\ StackLimit \in Nat
      /\ Len(stack) <= StackLimit
  BY OpFacts, StackLimitAssumption DEF Typed, TypeOK
<1>1. M!Takes = Needs(Op)
  BY TakesIs
<1>2. CASE Op = "DUP"
  <2>1. Pops(Op) = 0 /\ Needs(Op) = OpWidth /\ M!Gives = OpWidth + 1 /\ Grows(Op)
    BY <1>2, PopsOf, GivesAre DEF Needs, Grows, CopyOps
  <2> QED BY <1>0, <1>1, <2>1
<1>3. CASE Op = "SWAP"
  <2>1. Needs(Op) = OpWidth + 1 /\ M!Gives = OpWidth + 1
    BY <1>3, GivesAre DEF Needs, CopyOps
  <2>2. ~Grows(Op)
    BY <1>3 DEF Grows, PushingOps, ComputingOps, ArithmeticOps, ComparisonOps, BitwiseOps,
                ModularOps, UnaryOps, EnvOps, LookupOps, SizeOps, CallOps
  <2> QED BY <1>0, <1>1, <2>1, <2>2
<1>4. CASE Op \notin {"DUP", "SWAP"}
  <2>1. Needs(Op) = Pops(Op)
    BY <1>4 DEF Needs
  <2>2. Grows(Op) => M!Gives = 1
    BY <1>4, GivesAre DEF Grows, PushingOps, ComputingOps, ArithmeticOps, ComparisonOps,
       BitwiseOps, ModularOps, UnaryOps, EnvOps, LookupOps, SizeOps, CallOps, CopyOps
  <2>3. Op \in HandledOps /\ ~Grows(Op) => M!Gives = 0
    BY <1>4, GivesAre DEF Grows, HandledOps
  <2> QED BY <1>0, <1>1, <2>1, <2>2, <2>3
<1> QED BY <1>2, <1>3, <1>4

\* A jump goes where the machine has a target.
LEMMA TargetIs ==
  ASSUME Typed, Matched, status = "running", NEW at \in Nat
  PROVE  M!Target(at) <=> JumpIsValid(at)
<1>1. Len(job.code) \in Nat /\ scan \in Nat /\ scan >= Len(job.code)
  BY JobFacts DEF Typed, IInv, Matched
<1>2. M!Instr(at) = CodeName(at)
  BY SameNames DEF M!Instr, CodeName, CodeByte
<1>3. M!Target(at) <=> at \in JumpDests
  BY <1>2 DEF M!Target, JumpDests
<1>4. at \in validJumps <=> at \in JumpDests /\ at < scan
  BY DEF Matched
<1>5. at \in JumpDests => at < Len(job.code)
  BY DEF JumpDests
<1> QED BY <1>1, <1>3, <1>4, <1>5 DEF JumpIsValid

----------------------------------------------------------------------------
(* The machine's reasons to halt are what stops a run.                     *)

\* The reasons of the machine, one by one: the later ones are of an instruction that
\* finds its operands.
MayRun == Needs(Op) <= Len(stack)
Unknowns == IF Op = "INVALID" \/ Unknown(Op) THEN {"INVALID_OPCODE"} ELSE {}
Underflows == IF MayRun THEN {} ELSE {"STACK_UNDERFLOW"}
Overflows == IF MayRun /\ Len(stack) - M!Takes + M!Gives > StackLimit
             THEN {"STACK_OVERFLOW"} ELSE {}
BadJumps == IF MayRun /\ Jumps(Op) /\ ~JumpIsValid(Top(1)) THEN {"INVALID_JUMP"} ELSE {}
BadReads == IF MayRun /\ Op = "RETURNDATACOPY" /\ Top(2) + Top(3) > Len(lastReturned)
            THEN {"OUT_OF_GAS"} ELSE {}
BadLogs == IF job.isStatic /\ Op = "LOG" THEN {"STATIC_STATE_CHANGE"} ELSE {}
Distances == IF MayRun /\ \E r \in Converted(Op) : Inexact(r) THEN {"INEXACT"} ELSE {}

\* What a handler cannot locate of one region.
LEMMA ConvertedRegion ==
  ASSUME NEW op, NEW a \in Nat, NEW b \in Nat,
         IF op \in CallOps THEN <<a, b>> = <<Top(3), Top(4)>> ELSE Regions(op) = {<<a, b>>}
  PROVE  (\E r \in Converted(op) : Inexact(r))
           <=> (b # 0 \/ op \in CopyOps) /\ M!Far(a, b)
<1>1. Converted(op) = {r \in {<<a, b>>} : r[2] # 0 \/ op \in CopyOps}
  BY DEF Converted
<1>2. Inexact(<<a, b>>) <=> M!Far(a, b)
  BY DEF Inexact, M!Far
<1> QED BY <1>1, <1>2

\* The machine's distant accesses are those a handler cannot locate.
LEMMA DistantIs ==
  ASSUME Typed, Running
  PROVE  Len(Reverse(stack)) >= M!Takes /\ M!Distant
           <=> MayRun /\ \E r \in Converted(Op) : Inexact(r)
<1> DEFINE R == Reverse(stack)
           Reading == {"MLOAD", "MSTORE", "MSTORE8", "SHA3", "LOG", "RETURN", "REVERT"}
<1>1. /\ Len(R) = Len(stack) /\ M!Takes = Needs(Op) /\ M!Op = Op
      /\ Needs(Op) \in Nat /\ Len(stack) \in Nat /\ OpWidth \in Nat
      /\ M!Copies = CopyOps /\ M!Subcalls = CallOps
  BY OpFacts, TakesIs, TopIs, SameInstruction, SameSets
<1>2. CASE ~MayRun
  BY <1>1, <1>2 DEF MayRun
<1>3. CASE MayRun
  <2>1. \A k \in Nat \ {0} : k <= Needs(Op) => R[k] = Top(k) /\ Top(k) \in Nat
    BY <1>1, <1>3, TopIs, TopType DEF MayRun
  <2> HIDE DEF R
  <2>2. Op \notin {"DUP", "SWAP"} => Needs(Op) = Pops(Op)
    BY DEF Needs
  <2>3. /\ WordBytes \in Nat \ {0} /\ SafeOffset \in Nat
        /\ ~(WordBytes >= SafeOffset) /\ ~(1 >= SafeOffset)
    BY Sizes, SafeOffsetAssumption
  <2>4. Op \in CopyOps => Op \notin Reading /\ Op \notin CallOps
    BY DEF CopyOps, CallOps
  <2>5. Op \in CallOps => Op \notin Reading /\ Op \notin CopyOps
    BY DEF CopyOps, CallOps
  <2>6. CASE Op \in {"MLOAD", "MSTORE", "MSTORE8"}
    <3>1. PICK b \in Nat \ {0} : Regions(Op) = {<<Top(1), b>>} /\ ~(b >= SafeOffset)
      BY <2>3, <2>6, RegionsOf
    <3>2. Needs(Op) \in {1, 2}
      BY <2>2, <2>6, PopsOf
    <3>3. PICK a \in Nat : a = Top(1) /\ a = R[1]
      BY <2>1, <3>2
    <3>4. (\E r \in Converted(Op) : Inexact(r)) <=> a >= SafeOffset
      BY <2>4, <2>5, <2>6, <3>1, <3>3, ConvertedRegion DEF M!Far
    <3>5. M!Distant <=> a >= SafeOffset
      BY <1>1, <2>4, <2>5, <2>6, <3>3 DEF M!Distant, R
    <3> QED BY <1>1, <1>3, <3>4, <3>5 DEF MayRun, R
  <2>7. CASE Op \in {"SHA3", "LOG", "RETURN", "REVERT"}
    <3>1. Needs(Op) >= 2
      BY <1>1, <2>2, <2>7, PopsOf
    <3>2. PICK a \in Nat, b \in Nat : a = Top(1) /\ a = R[1] /\ b = Top(2) /\ b = R[2]
      BY <1>1, <2>1, <3>1
    <3>3. (\E r \in Converted(Op) : Inexact(r)) <=> b # 0 /\ M!Far(a, b)
      BY <2>4, <2>5, <2>7, <3>2, ConvertedRegion, RegionsOf
    <3>4. M!Distant <=> b # 0 /\ M!Far(a, b)
      BY <1>1, <2>4, <2>5, <2>7, <3>2 DEF M!Distant, R
    <3> QED BY <1>1, <1>3, <3>3, <3>4 DEF MayRun, R
  <2>8. CASE Op \in CopyOps \ {"EXTCODECOPY"}
    <3>1. Needs(Op) = 3
      BY <2>2, <2>8, PopsOf DEF CopyOps
    <3>2. PICK a \in Nat, b \in Nat : a = Top(1) /\ a = R[1] /\ b = Top(3) /\ b = R[3]
      BY <2>1, <3>1
    <3>3. (\E r \in Converted(Op) : Inexact(r)) <=> M!Far(a, b)
      BY <2>4, <2>8, <3>2, ConvertedRegion, RegionsOf
    <3>4. M!Distant <=> M!Far(a, b)
      BY <1>1, <2>4, <2>8, <3>2 DEF M!Distant, R
    <3> QED BY <1>1, <1>3, <3>3, <3>4 DEF MayRun, R
  <2>9. CASE Op = "EXTCODECOPY"
    <3>1. Needs(Op) = 4 /\ Op \in CopyOps
      BY <2>2, <2>9, PopsOf DEF CopyOps
    <3>2. PICK a \in Nat, b \in Nat : a = Top(2) /\ a = R[2] /\ b = Top(4) /\ b = R[4]
      BY <2>1, <3>1
    <3>3. (\E r \in Converted(Op) : Inexact(r)) <=> M!Far(a, b)
      BY <2>4, <2>9, <3>1, <3>2, ConvertedRegion, RegionsOf
    <3>4. M!Distant <=> M!Far(a, b)
      BY <1>1, <2>4, <2>9, <3>1, <3>2 DEF M!Distant, R
    <3> QED BY <1>1, <1>3, <3>3, <3>4 DEF MayRun, R
  <2>10. CASE Op \in CallOps
    <3>1. Needs(Op) = 6
      BY <2>2, <2>10, PopsOf DEF CallOps
    <3>2. PICK a \in Nat, b \in Nat : a = Top(3) /\ a = R[3] /\ b = Top(4) /\ b = R[4]
      BY <2>1, <3>1
    <3>3. (\E r \in Converted(Op) : Inexact(r)) <=> b # 0 /\ M!Far(a, b)
      BY <2>5, <2>10, <3>2, ConvertedRegion
    <3>4. Op # "EXTCODECOPY"
      BY <2>10 DEF CallOps
    <3>5. M!Distant <=> b # 0 /\ M!Far(a, b)
      BY <1>1, <2>5, <2>10, <3>2, <3>4 DEF M!Distant, R
    <3> QED BY <1>1, <1>3, <3>3, <3>5 DEF MayRun, R
  <2>11. CASE Op \notin Reading \cup CopyOps \cup CallOps
    <3>1. Converted(Op) = {}
      BY <2>11, RegionsOf DEF Converted
    <3>2. ~M!Distant
      BY <1>1, <2>11 DEF M!Distant, CopyOps
    <3> QED BY <3>1, <3>2
  <2> QED BY <2>6, <2>7, <2>8, <2>9, <2>10, <2>11
<1> QED BY <1>2, <1>3

LEMMA ReasonsAre ==
  ASSUME Typed, Matched, Running
  PROVE  M!Reasons = Unknowns \cup Underflows \cup Overflows \cup BadJumps \cup BadReads
                     \cup BadLogs \cup Distances
<1> DEFINE R == Reverse(stack)
           enough == Len(R) >= M!Takes
           jumps == enough /\ (M!Op = "JUMP" \/ (M!Op = "JUMPI" /\ R[2] # 0))
           beyond == enough /\ M!Op = "RETURNDATACOPY" /\ R[2] + R[3] > Len(lastReturned)
           unknown == \/ M!Op = "INVALID"
                      \/ M!Op \in DOMAIN M!Later /\ ~M!Gte(job.fork, M!Later[M!Op])
           overfull == enough /\ Len(R) - M!Takes + M!Gives > StackLimit
           lost == jumps /\ ~M!Target(R[1])
           static == job.isStatic /\ M!Op = "LOG"
           distant == enough /\ M!Distant
<1>1. M!Reasons =
        (IF unknown THEN {"INVALID_OPCODE"} ELSE {})
          \cup (IF ~enough THEN {"STACK_UNDERFLOW"} ELSE {})
          \cup (IF overfull THEN {"STACK_OVERFLOW"} ELSE {})
          \cup (IF lost THEN {"INVALID_JUMP"} ELSE {})
          \cup (IF beyond THEN {"OUT_OF_GAS"} ELSE {})
          \cup (IF static THEN {"STATIC_STATE_CHANGE"} ELSE {})
          \cup (IF distant THEN {"INEXACT"} ELSE {})
  BY DEF M!Reasons
<1>2. /\ OpWidth \in Nat /\ Len(stack) \in Nat /\ Needs(Op) \in Nat /\ M!Takes = Needs(Op)
      /\ M!Op = Op /\ Len(R) = Len(stack) /\ Pops(Op) <= Needs(Op)
      /\ \A k \in Nat \ {0} : k <= Len(stack) => R[k] = Top(k)
      /\ status = "running"
  BY OpFacts, TakesIs, TopIs, SameInstruction DEF Running
<1>3. enough <=> MayRun
  BY <1>2 DEF MayRun
<1>4. unknown <=> Op = "INVALID" \/ Unknown(Op)
  <2>1. \A name \in {"constantinople", "istanbul"} : M!Gte(job.fork, name) = Gte(job.fork, name)
    BY SameGte
  <2> QED BY <1>2, <2>1 DEF M!Later, Unknown
<1>5. overfull <=> MayRun /\ Len(stack) - M!Takes + M!Gives > StackLimit
  BY <1>2, <1>3
<1>6. lost <=> MayRun /\ Jumps(Op) /\ ~JumpIsValid(Top(1))
  <2>1. CASE MayRun /\ Op \in {"JUMP", "JUMPI"}
    <3>1. 1 <= Len(stack) /\ (Op = "JUMPI" => 2 <= Len(stack))
      <4>1. Needs(Op) = IF Op = "JUMP" THEN 1 ELSE 2
        BY <2>1, PopsOf DEF Needs
      <4> QED BY <1>2, <2>1, <4>1 DEF MayRun
    <3>2. R[1] = Top(1) /\ Top(1) \in Nat /\ (Op = "JUMPI" => R[2] = Top(2))
      BY <1>2, <3>1, TopType
    <3>3. M!Target(R[1]) <=> JumpIsValid(Top(1))
      BY <1>2, <3>2, TargetIs
    <3> HIDE DEF R
    <3>4. jumps <=> Jumps(Op)
      BY <1>2, <1>3, <2>1, <3>2 DEF Jumps
    <3> QED BY <2>1, <3>3, <3>4
  <2>2. CASE ~(MayRun /\ Op \in {"JUMP", "JUMPI"})
    BY <1>2, <1>3, <2>2 DEF Jumps
  <2> QED BY <2>1, <2>2
<1>7. beyond <=> MayRun /\ Op = "RETURNDATACOPY" /\ Top(2) + Top(3) > Len(lastReturned)
  <2>1. CASE MayRun /\ Op = "RETURNDATACOPY"
    <3>1. 3 <= Len(stack)
      <4>1. Needs(Op) = 3
        BY <2>1, PopsOf DEF Needs, CopyOps
      <4> QED BY <2>1, <4>1 DEF MayRun
    <3>2. R[2] = Top(2) /\ R[3] = Top(3)
      BY <1>2, <3>1
    <3> HIDE DEF R
    <3> QED BY <1>2, <1>3, <2>1, <3>2
  <2>2. CASE ~(MayRun /\ Op = "RETURNDATACOPY")
    BY <1>2, <1>3, <2>2
  <2> QED BY <2>1, <2>2
<1>8. static <=> job.isStatic /\ Op = "LOG"
  BY <1>2
<1>9. distant <=> MayRun /\ \E r \in Converted(Op) : Inexact(r)
  BY DistantIs DEF Running
<1> HIDE DEF R, enough, jumps, beyond, unknown, overfull, lost, static, distant
<1> QED BY <1>1, <1>3, <1>4, <1>5, <1>6, <1>7, <1>8, <1>9
    DEF Unknowns, Underflows, Overflows, BadJumps, BadReads, BadLogs, Distances

\* With room for them, the sizes and the gas that handlers push are words: nothing
\* is out of range.
LEMMA PushedIsWord ==
  ASSUME Typed, Matched, HashesAreWords, SizesFit, Running, Op \in PushingOps,
         Needs(Op) <= Len(stack), ~(gasLeft < Fee(job.fork, Op))
  PROVE  Pushed(Op) \in Word
<1> DEFINE op == Op
<1>0. op \in PushingOps /\ op = Op
  OBVIOUS
<1> HIDE DEF op
<1>1. /\ Pops(op) \in Nat /\ Pops(op) <= Len(stack) /\ Len(stack) \in Nat
      /\ \A k \in Nat \ {0} : k <= Pops(op) => Top(k) \in Word /\ Top(k) \in Nat
  <2>1. Pops(op) \in Nat /\ Needs(op) \in Nat /\ Pops(op) <= Needs(op) /\ Len(stack) \in Nat
    BY <1>0, OpFacts
  <2>2. Pops(op) <= Len(stack)
    BY <1>0, <2>1
  <2> QED BY <2>1, <2>2, TopType
<1>2. CASE op \in ComputingOps
  <2> DEFINE args == Args(Pops(op))
  <2>1. Pops(op) = IF op \in ModularOps THEN 3 ELSE IF op \in UnaryOps THEN 1 ELSE 2
    BY <1>2, PopsOf
  <2>2. \A k \in 1 .. Pops(op) : args[k] \in Word
    <3> SUFFICES ASSUME NEW k \in 1 .. Pops(op) PROVE args[k] \in Word
      OBVIOUS
    <3>1. k \in Nat \ {0} /\ k <= Pops(op)
      BY <1>1
    <3>2. args[k] = Top(k)
      BY DEF Args
    <3> QED BY <1>1, <3>1, <3>2
  <2> HIDE DEF args
  <2>3. /\ 1 \in 1 .. Pops(op) /\ op \notin UnaryOps => 2 \in 1 .. Pops(op)
        /\ op \in ModularOps => 3 \in 1 .. Pops(op)
    BY <2>1
  <2>4. PICK a \in Word : a = args[1]
    BY <2>1, <2>2
  <2>5. PICK b \in Word : op \notin UnaryOps => args[2] = b
    BY <2>1, <2>2, <2>4
  <2>6. PICK c \in Word : op \in ModularOps => args[3] = c
    BY <2>1, <2>2, <2>4
  <2>7. Computed(op, args) \in Word
    BY <1>2, <2>4, <2>5, <2>6, ComputedMeans
  <2> QED BY <1>0, <1>2, <2>7, PushedOf DEF args
<1>3. CASE op \in EnvOps
  BY <1>0, <1>3, PushedOf, EnvironmentAssumption
<1>4. CASE op \in LookupOps
  <2>1. Top(1) \in Word
    BY <1>1, <1>4, PopsOf
  <2>2. Lookup[op] \in [Word -> Word]
    BY <1>4, EnvironmentAssumption
  <2>3. Lookup[op][Top(1)] \in Word
    BY <2>1, <2>2
  <2>4. CASE op = "BLOCKHASH"
    BY <1>0, <2>3, <2>4, PushedOf, WordType DEF BlockHash
  <2>5. CASE op # "BLOCKHASH"
    BY <1>0, <1>4, <2>3, <2>5, PushedOf
  <2> QED BY <2>4, <2>5
<1>5. /\ CallData \in Seq(Byte) /\ lastReturned \in Seq(Byte)
      /\ memoryWordCount \in Nat /\ programCounter \in Nat /\ gasLeft \in Nat
      /\ memory \in Seq(Byte) /\ WordBytes \in Nat \ {0} /\ job \in Job /\ job.gasLimit \in Nat
      /\ gasLeft <= job.gasLimit /\ MaxInteger \in Nat
      /\ \A n \in Nat : n <= MaxInteger => n \in Word
  <2>1. MaxInteger \in Nat /\ \A n \in Nat : n <= MaxInteger => n \in Word
    BY WordType DEF MaxInteger
  <2>2. CallData \in Seq(Byte) /\ WordBytes \in Nat \ {0}
    BY EnvironmentAssumption, Sizes
  <2>3. /\ lastReturned \in Seq(Byte) /\ memoryWordCount \in Nat /\ programCounter \in Nat
        /\ gasLeft \in Nat /\ memory \in Seq(Byte)
    BY DEF Typed, TypeOK
  <2>4. job \in Job /\ job.gasLimit \in Nat /\ gasLeft <= job.gasLimit
    BY JobFacts DEF Typed, TypeOK, IInv
  <2> QED BY <2>1, <2>2, <2>3, <2>4
<1>6. CASE op \in {"CALLDATALOAD", "MLOAD", "SHA3"}
  <2>1. Top(1) \in Nat
    BY <1>1, <1>6, PopsOf
  <2>2. CASE op = "MLOAD"
    <3>1. FromBytes(Read(memory, Top(1), WordBytes)) \in Word
      <4>1. WordBytes \in Nat /\ WordBytes <= WordBytes
        BY <1>5
      <4>2. Read(memory, Top(1), WordBytes) \in Seq(Byte)
            /\ Len(Read(memory, Top(1), WordBytes)) = WordBytes
        BY <1>5, <2>1, <4>1, ReadType
      <4> QED BY <4>1, <4>2, FromBytesType
    <3> QED BY <1>0, <2>2, <3>1, PushedOf
  <2>3. CASE op = "CALLDATALOAD"
    <3>1. FromBytes(DataSlice(CallData, Top(1), WordBytes)) \in Word
      <4>1. WordBytes \in Nat /\ WordBytes <= WordBytes
        BY <1>5
      <4>2. DataSlice(CallData, Top(1), WordBytes) \in Seq(Byte)
            /\ Len(DataSlice(CallData, Top(1), WordBytes)) = WordBytes
        BY <1>5, <2>1, <4>1, DataSliceType
      <4> QED BY <4>1, <4>2, FromBytesType
    <3> QED BY <1>0, <2>3, <3>1, PushedOf, WordType DEF DataWord
  <2>4. CASE op = "SHA3"
    <3>1. Top(2) \in Nat
      BY <1>1, <2>4, PopsOf
    <3>2. Keccak(Read(memory, Top(1), Top(2))) \in Word
      BY <1>5, <2>1, <3>1, ReadType DEF HashesAreWords
    <3> QED BY <1>0, <2>4, <3>2, PushedOf
  <2> QED BY <1>6, <2>2, <2>3, <2>4
<1>7. CASE op \in SizeOps
  <2>1. /\ Len(job.code) \in Nat /\ Len(CallData) \in Nat /\ Len(lastReturned) \in Nat
        /\ Len(job.code) <= MaxInteger /\ Len(CallData) <= MaxInteger
        /\ Len(lastReturned) <= MaxInteger
    BY <1>5, JobFacts DEF SizesFit, Matched
  <2>2. Pushed(op) \in {Len(job.code), Len(CallData), Len(lastReturned)}
    BY <1>7, PushedOf DEF SizeOps
  <2> QED BY <1>0, <1>5, <2>1, <2>2
<1>8. CASE op = "PC"
  <2>1. programCounter < Len(job.code) /\ Len(job.code) \in Nat /\ Len(job.code) <= MaxInteger
    BY <1>5, JobFacts DEF SizesFit, Running
  <2>2. Pushed(op) = programCounter
    BY <1>8, PushedOf
  <2> QED BY <1>0, <1>5, <2>1, <2>2
<1>9. job.gasLimit <= MaxInteger /\ memoryWordCount * WordBytes <= MaxInteger
      /\ memoryWordCount * WordBytes \in Nat
  <2>1. PICK l \in Nat, w \in Nat \ {0}, m \in Nat :
          l = job.gasLimit /\ w = WordBytes /\ m = memoryWordCount
    BY <1>5
  <2>2. l * w <= MaxInteger
    BY <1>5, <2>1 DEF SizesFit
  <2>3. m <= l
    <3>1. PICK p \in Nat \ {0}, q \in Nat \ {0} : p = Price["memory"] /\ q = Price["quadCoeffDiv"]
      BY EnvironmentAssumption DEF SizesFit
    <3>2. MemoryCost(memoryWordCount) = m * p + (m * m) \div q
      BY <2>1, <3>1 DEF MemoryCost
    <3>3. PICK x \in Nat, y \in Nat : x = m * p /\ y = (m * m) \div q
      <4>1. m * p \in Nat
        BY ProductType
      <4>2. PICK s \in Nat : s = m * m
        BY ProductType
      <4>3. s \div q \in Nat
        BY DivType
      <4> QED BY <4>1, <4>2, <4>3
    <3>4. m <= x
      <4>1. 1 * m <= p * m /\ p * m = x
        BY <3>3, ProductMonotone
      <4> QED BY <4>1
    <3>5. PICK g \in Nat : g = gasLeft /\ g + (x + y) <= l
      BY <1>5, <2>1, <3>2, <3>3 DEF Matched
    <3> QED BY ONLY <3>4, <3>5
  <2>4. m * w <= l * w /\ m * w \in Nat /\ l * w \in Nat
    BY <2>3, ProductMonotone, ProductType
  <2>5. l <= l * w
    <3>1. 1 * l <= w * l /\ w * l = l * w
      BY ProductMonotone
    <3> QED BY <2>4, <3>1
  <2>6. PICK x \in Nat, y \in Nat : x = m * w /\ y = l * w
    BY <2>4
  <2> QED BY <1>5, <2>1, <2>2, <2>4, <2>5, <2>6
<1>10. CASE op = "MSIZE"
  BY <1>0, <1>5, <1>9, <1>10, PushedOf
<1>11. CASE op = "GAS"
  <2>1. Fee(job.fork, op) \in Nat
    BY <1>11, FeeType DEF HandledOps, PushingOps
  <2>2. gasLeft - Fee(job.fork, op) \in Nat /\ gasLeft - Fee(job.fork, op) <= MaxInteger
    BY <1>0, <1>5, <1>9, <2>1
  <2> QED BY <1>0, <1>5, <1>11, <2>2, PushedOf
<1> QED BY <1>0, <1>2, <1>3, <1>4, <1>6, <1>7, <1>8, <1>10, <1>11 DEF PushingOps

\* An instruction that is executed is one the machine executes.
LEMMA NoReasons ==
  ASSUME Typed, Matched, Accepted(Op) PROVE M!Reasons = {}
<1>0. Running /\ Op \in HandledOps /\ Refusal(Op) = NoError
  BY DEF Accepted
<1>1. /\ Op # "INVALID" /\ ~(job.isStatic /\ Op = "LOG") /\ ~(Len(stack) < Needs(Op))
      /\ ~Unknown(Op)
      /\ ~(Op = "RETURNDATACOPY" /\ Top(2) + Top(3) > Len(lastReturned))
      /\ ~(\E r \in Converted(Op) : Inexact(r))
      /\ ~(Jumps(Op) /\ ~JumpIsValid(Top(1)))
      /\ ~(Grows(Op) /\ Len(stack) - Pops(Op) > StackLimit - 1)
  BY <1>0, Zenon DEF Refusal, NoError
<1>2. Needs(Op) \in Nat /\ Len(stack) \in Nat
  BY <1>0, OpFacts
<1>3. MayRun
  BY <1>1, <1>2 DEF MayRun
<1>4. ~(Len(stack) - M!Takes + M!Gives > StackLimit)
  BY <1>0, <1>1, <1>3, Overfull DEF MayRun
<1>5. M!Reasons = Unknowns \cup Underflows \cup Overflows \cup BadJumps \cup BadReads
                  \cup BadLogs \cup Distances
  BY <1>0, ReasonsAre
<1>6. /\ Unknowns = {} /\ Underflows = {} /\ Overflows = {} /\ BadJumps = {} /\ BadReads = {}
      /\ BadLogs = {} /\ Distances = {}
  BY <1>1, <1>3, <1>4
     DEF Unknowns, Underflows, Overflows, BadJumps, BadReads, BadLogs, Distances
<1> QED BY <1>5, <1>6

\* What an opcode is refused for is a reason of the machine, or the gas.
LEMMA RefusalIsReason ==
  ASSUME Typed, Matched, HashesAreWords, SizesFit, Running, Refusal(Op) # NoError
  PROVE  Refusal(Op) \in M!Reasons \cup {"OUT_OF_GAS"}
<1> DEFINE op == Op
           refusal == Refusal(op)
           returns == op = "RETURNDATACOPY" /\ Top(2) + Top(3) > Len(lastReturned)
           beyond == op \in PushingOps /\ Pushed(op) > MaxInteger
           full == Grows(op) /\ Len(stack) - Pops(op) > StackLimit - 1
           lost == Jumps(op) /\ ~JumpIsValid(Top(1))
           distant == \E r \in Converted(op) : Inexact(r)
<1>1. refusal =
        IF op = "INVALID" THEN "INVALID_OPCODE"
        ELSE IF gasLeft < Fee(job.fork, op) THEN "OUT_OF_GAS"
        ELSE IF job.isStatic /\ op = "LOG" THEN "STATIC_STATE_CHANGE"
        ELSE IF Len(stack) < Needs(op) THEN "STACK_UNDERFLOW"
        ELSE IF Unknown(op) THEN "INVALID_OPCODE"
        ELSE IF returns THEN "OUT_OF_GAS"
        ELSE IF gasLeft < CostBefore(op) THEN "OUT_OF_GAS"
        ELSE IF distant THEN "INEXACT"
        ELSE IF gasLeft < Cost(op) THEN "OUT_OF_GAS"
        ELSE IF lost THEN "INVALID_JUMP"
        ELSE IF beyond THEN "OUT_OF_RANGE"
        ELSE IF full THEN "STACK_OVERFLOW"
        ELSE NoError
  BY Zenon DEF Refusal
<1>2. M!Reasons = Unknowns \cup Underflows \cup Overflows \cup BadJumps \cup BadReads
                  \cup BadLogs \cup Distances
  BY ReasonsAre
<1>3. Needs(op) \in Nat /\ Len(stack) \in Nat /\ (MayRun <=> ~(Len(stack) < Needs(op)))
  BY OpFacts DEF MayRun
<1>4. MayRun /\ ~(gasLeft < Fee(job.fork, op)) => ~beyond
  <2> SUFFICES ASSUME MayRun, ~(gasLeft < Fee(job.fork, op)), op \in PushingOps
               PROVE  ~(Pushed(op) > MaxInteger)
    OBVIOUS
  <2>1. Pushed(op) \in Word
    BY PushedIsWord DEF MayRun
  <2> QED BY <2>1, WordType DEF MaxInteger
<1>5. MayRun /\ full => "STACK_OVERFLOW" \in Overflows
  BY Overfull DEF MayRun, Overflows
<1>6. MayRun /\ lost => "INVALID_JUMP" \in BadJumps
  BY DEF BadJumps
<1>7. op = "INVALID" \/ Unknown(op) => "INVALID_OPCODE" \in Unknowns
  BY DEF Unknowns
<1>8. ~MayRun => "STACK_UNDERFLOW" \in Underflows
  BY DEF Underflows
<1>9. job.isStatic /\ op = "LOG" => "STATIC_STATE_CHANGE" \in BadLogs
  BY DEF BadLogs
<1>10. MayRun /\ distant => "INEXACT" \in Distances
  BY DEF Distances
<1>11. refusal # NoError
  OBVIOUS
<1>12. refusal \in M!Reasons \cup {"OUT_OF_GAS"}
  <2> HIDE DEF op, refusal, returns, beyond, full, lost, distant
  <2> QED BY <1>1, <1>2, <1>3, <1>4, <1>5, <1>6, <1>7, <1>8, <1>9, <1>10, <1>11
<1> QED BY <1>12

----------------------------------------------------------------------------
(* Memory: what is read, written and charged.                              *)

\* The bytes of a concatenation, and a sequence that is its bytes.
LEMMA Concatenated ==
  ASSUME NEW X, NEW s \in Seq(X), NEW t \in Seq(X)
  PROVE  /\ s \o t \in Seq(X) /\ Len(s \o t) = Len(s) + Len(t)
         /\ \A n \in Nat \ {0} :
              /\ n <= Len(s) => (s \o t)[n] = s[n]
              /\ n > Len(s) /\ n <= Len(s) + Len(t) => (s \o t)[n] = t[n - Len(s)]
OBVIOUS

LEMMA AsFunction ==
  ASSUME NEW X, NEW s \in Seq(X), NEW l \in Nat, l = Len(s)
  PROVE  s \in [1 .. l -> X]
OBVIOUS

\* Two sequences of the same items.
Alike(one, other) ==
  Len(one) = Len(other) /\ \A i \in Nat \ {0} : i <= Len(one) => one[i] = other[i]

LEMMA SameItems ==
  ASSUME NEW Z, NEW one \in Seq(Z), NEW other \in Seq(Z), Alike(one, other)
  PROVE  one = other
<1>1. PICK l \in Nat : l = Len(one) /\ Len(other) = l
  BY DEF Alike
<1>2. one \in [1 .. l -> Z] /\ other \in [1 .. l -> Z]
  BY <1>1
<1>3. \A i \in 1 .. l : one[i] = other[i]
  BY <1>1 DEF Alike
<1> QED BY ONLY <1>2, <1>3

\* Data that is missing is zero.
LEMMA SliceIs ==
  ASSUME NEW data \in Seq(Byte), NEW offset \in Nat, NEW size \in Nat
  PROVE  M!Slice(data, offset, size) = DataSlice(data, offset, size)
<1> DEFINE from == IF offset > Len(data) THEN Len(data) ELSE offset
           end == IF from + size > Len(data) THEN Len(data) ELSE from + size
           slice == SubSeq(data, from + 1, end)
           missing == size - Len(slice)
           zeros == [n \in 1 .. missing |-> 0]
           at(n) == M!At(data, offset + n - 1)
<1>1. /\ from \in Nat /\ end \in Nat /\ from <= end /\ end <= Len(data) /\ end - from <= size
      /\ Len(data) \in Nat
  OBVIOUS
<1>2. DataSlice(data, offset, size) = slice \o zeros
  BY DEF DataSlice
<1>3. M!Slice(data, offset, size) = [n \in 1 .. size |-> at(n)]
  BY DEF M!Slice
<1>4. PICK f \in Nat, e \in Nat, l \in Nat :
        f = from /\ e = end /\ l = Len(data) /\ f <= e /\ e <= l /\ e - f <= size
        /\ (offset <= l => f = offset) /\ (offset > l => f = l)
        /\ (f + size <= l => e = f + size) /\ (f + size > l => e = l)
  BY <1>1
<1>5. /\ slice \in Seq(Byte) /\ Len(slice) = e - f
      /\ \A n \in Nat \ {0} : n <= e - f => slice[n] = data[f + n]
  <2>1. \A n \in from + 1 .. end : data[n] \in Byte
    BY <1>1
  <2>2. /\ SubSeq(data, from + 1, end) \in Seq(Byte)
        /\ Len(SubSeq(data, from + 1, end))
             = IF from + 1 <= end THEN end - (from + 1) + 1 ELSE 0
        /\ \A n \in 1 .. end - (from + 1) + 1 :
             SubSeq(data, from + 1, end)[n] = data[from + 1 + n - 1]
    BY <1>1, <2>1, SubSeqProperties
  <2> HIDE DEF from, end
  <2>3. Len(slice) = e - f
    BY <1>4, <2>2
  <2>4. ASSUME NEW n \in Nat \ {0}, n <= e - f PROVE slice[n] = data[f + n]
    <3>1. n \in 1 .. end - (from + 1) + 1 /\ from + 1 + n - 1 = f + n
      BY <1>4, <2>4
    <3> QED BY <2>2, <3>1
  <2> QED BY <2>2, <2>3, <2>4
<1> HIDE DEF from, end, slice
<1>6. missing \in Int /\ missing = size - (e - f) /\ missing >= 0
  BY <1>4, <1>5
<1>7. zeros \in [1 .. missing -> Byte] /\ \A n \in 1 .. missing : zeros[n] = 0
  BY ByteType
<1> HIDE DEF zeros, missing
<1>8. zeros \in Seq(Byte) /\ Len(zeros) = missing
  BY <1>6, <1>7, FiniteSequence
<1>9. ASSUME NEW n \in 1 .. size PROVE (slice \o zeros)[n] = at(n) /\ at(n) \in Byte
  <2>1. n \in Nat \ {0} /\ n <= size
    OBVIOUS
  <2>2. at(n) = IF offset + n - 1 < l THEN data[offset + n] ELSE 0
    <3>1. (offset + n - 1) + 1 = offset + n
      OBVIOUS
    <3> QED BY <1>4, <3>1 DEF M!At
  <2>3. CASE n <= e - f
    <3>1. f = offset /\ offset + n - 1 < l /\ offset + n \in 1 .. l
      BY <1>4, <2>1, <2>3
    <3>2. at(n) = data[offset + n] /\ data[offset + n] \in Byte
      BY <1>4, <2>2, <3>1
    <3>3. (slice \o zeros)[n] = slice[n]
      BY <1>5, <1>8, <2>1, <2>3, Concatenated
    <3> QED BY <1>5, <2>1, <2>3, <3>1, <3>2, <3>3
  <2>4. CASE n > e - f
    <3>1. ~(offset + n - 1 < l)
      BY <1>4, <2>1, <2>4
    <3>2. (slice \o zeros)[n] = zeros[n - (e - f)] /\ n - (e - f) \in 1 .. missing
      <4>1. n > Len(slice) /\ n <= Len(slice) + Len(zeros)
        BY <1>4, <1>5, <1>6, <1>8, <2>1, <2>4
      <4>2. (slice \o zeros)[n] = zeros[n - Len(slice)]
        <5>1. slice \in Seq(Byte) /\ zeros \in Seq(Byte)
          BY <1>5, <1>8
        <5> HIDE DEF slice, zeros
        <5> QED BY ONLY <2>1, <4>1, <5>1, Concatenated
      <4>3. n - (e - f) \in 1 .. missing
        BY <1>4, <1>6, <2>1, <2>4
      <4> QED BY <1>5, <4>2, <4>3
    <3>3. at(n) = 0 /\ 0 \in Byte
      BY <2>2, <3>1, ByteType
    <3> QED BY <1>7, <3>2, <3>3
  <2>5. n <= e - f \/ n > e - f
    BY <1>4
  <2> QED BY <2>3, <2>4, <2>5
<1>10. slice \o zeros \in [1 .. size -> Byte]
  <2>1. slice \o zeros \in Seq(Byte) /\ Len(slice \o zeros) = Len(slice) + Len(zeros)
    BY ONLY <1>5, <1>8, Concatenated
  <2>2. Len(slice) + Len(zeros) = size
    BY <1>4, <1>5, <1>6, <1>8
  <2>3. PICK s \in Seq(Byte) : s = slice \o zeros /\ Len(s) = size
    BY <2>1, <2>2
  <2>4. s \in [1 .. size -> Byte]
    BY ONLY <2>3, size \in Nat, AsFunction
  <2> QED BY ONLY <2>3, <2>4
<1> HIDE DEF at
<1>11. slice \o zeros = [n \in 1 .. size |-> (slice \o zeros)[n]]
  BY ONLY <1>10
<1> QED BY <1>2, <1>3, <1>9, <1>11

LEMMA LoadedIs ==
  ASSUME Addresses = Nat, memory \in Seq(Byte), NEW offset \in Nat, NEW size \in Nat
  PROVE  M!Loaded(offset, size) = Read(memory, offset, size)
<1> DEFINE mem == [n \in Addresses |-> IF n < Len(memory) THEN memory[n + 1] ELSE 0]
           loaded(n) == IF offset + n - 1 \in Addresses THEN mem[offset + n - 1] ELSE 0
           read(n) == IF offset + n <= Len(memory) THEN memory[offset + n] ELSE 0
<1>1. ASSUME NEW n \in 1 .. size PROVE loaded(n) = read(n)
  <2>1. /\ offset + n - 1 \in Nat /\ (offset + n - 1) + 1 = offset + n
        /\ (offset + n - 1 < Len(memory) <=> offset + n <= Len(memory))
    OBVIOUS
  <2> QED BY <2>1
<1>2. M!Loaded(offset, size) = [n \in 1 .. size |-> loaded(n)]
  BY DEF M!Loaded
<1>3. Read(memory, offset, size) = [n \in 1 .. size |-> read(n)]
  BY DEF Read
<1> HIDE DEF loaded, read
<1> QED BY <1>1, <1>2, <1>3

\* Memory grows by zeros, as far as what is written reaches.
LEMMA ExtendedIs ==
  ASSUME NEW mem \in Seq(Byte), NEW offset \in Nat, NEW size \in Nat
  PROVE  LET extended == Extended(mem, offset, size) IN
         /\ extended \in Seq(Byte) /\ Len(mem) <= Len(extended)
         /\ size # 0 => offset + size <= Len(extended)
         /\ \A n \in Nat \ {0} : n <= Len(extended) =>
              extended[n] = IF n <= Len(mem) THEN mem[n] ELSE 0
<1>1. PICK l \in Nat, end \in Nat :
        l = Len(mem) /\ end = WordsFor(offset + size) * WordBytes /\ offset + size <= end
  <2>1. offset + size \in Nat
    OBVIOUS
  <2>2. WordsFor(offset + size) \in Nat /\ WordBytes \in Nat
        /\ offset + size <= WordsFor(offset + size) * WordBytes
    BY <2>1, WordsForType, Sizes
  <2>3. WordsFor(offset + size) * WordBytes \in Nat
    BY <2>2, ProductType
  <2> QED BY <2>2, <2>3
<1> DEFINE zeros == [n \in 1 .. end - l |-> 0]
<1>2. Extended(mem, offset, size) = IF size = 0 THEN mem ELSE mem \o zeros
  BY <1>1 DEF Extended
<1>3. PICK k \in Int : k = end - l
  BY <1>1
<1>4. zeros \in [1 .. k -> Byte] /\ \A n \in 1 .. k : zeros[n] = 0
  BY <1>3, ByteType
<1> HIDE DEF zeros
<1>5. zeros \in Seq(Byte) /\ Len(zeros) = IF k >= 0 THEN k ELSE 0
  BY <1>4, FiniteSequence
<1>6. CASE size = 0
  BY <1>2, <1>6
<1>7. CASE size # 0
  <2>1. PICK e \in Seq(Byte) : e = mem \o zeros /\ e = Extended(mem, offset, size)
    BY <1>2, <1>5, <1>7, Concatenated
  <2>0. /\ Len(e) = Len(mem) + Len(zeros)
        /\ \A n \in Nat \ {0} :
             /\ n <= Len(mem) => e[n] = mem[n]
             /\ n > Len(mem) /\ n <= Len(mem) + Len(zeros) => e[n] = zeros[n - Len(mem)]
    <3>1. mem \in Seq(Byte) /\ zeros \in Seq(Byte)
      BY <1>5
    <3>2. /\ Len(mem \o zeros) = Len(mem) + Len(zeros)
          /\ \A n \in Nat \ {0} :
               /\ n <= Len(mem) => (mem \o zeros)[n] = mem[n]
               /\ n > Len(mem) /\ n <= Len(mem) + Len(zeros)
                    => (mem \o zeros)[n] = zeros[n - Len(mem)]
      BY ONLY <3>1, Concatenated
    <3> QED BY <2>1, <3>2, Zenon
  <2>2. PICK z \in Nat : z = Len(zeros) /\ Len(e) = l + z /\ (k >= 0 => z = k) /\ (k < 0 => z = 0)
    <3>1. PICK z \in Nat : z = Len(zeros) /\ (k >= 0 => z = k) /\ (k < 0 => z = 0)
      BY <1>5
    <3> QED BY <1>1, <2>0, <3>1
  <2>3. offset + size <= Len(e) /\ l <= Len(e)
    BY <1>1, <1>3, <2>2
  <2>4. ASSUME NEW n \in Nat \ {0}, n <= Len(e) PROVE e[n] = IF n <= l THEN mem[n] ELSE 0
    <3>1. CASE n <= l
      BY <1>1, <2>0, <3>1
    <3>2. CASE ~(n <= l)
      <4>1. n > Len(mem) /\ n <= Len(mem) + Len(zeros) /\ n - l \in 1 .. k
        BY <1>1, <1>3, <2>2, <2>4, <3>2
      <4>2. e[n] = zeros[n - l]
        BY <1>1, <2>0, <4>1
      <4> QED BY <1>4, <3>2, <4>1, <4>2
    <3> QED BY <3>1, <3>2
  <2> QED BY <1>1, <1>7, <2>1, <2>3, <2>4
<1> QED BY <1>6, <1>7

\* The memory of the machine for the bytes that are written.
MemoryOf(mem) == [n \in Addresses |-> IF n < Len(mem) THEN mem[n + 1] ELSE 0]

\* What is stored is what the machine overwrites.
LEMMA OverwriteIs ==
  ASSUME Addresses = Nat, memory \in Seq(Byte), NEW offset \in Nat, NEW bytes \in Seq(Byte)
  PROVE  MemoryOf(Written(Extended(memory, offset, Len(bytes)), offset, bytes))
           = M!Overwrite(offset, bytes)
<1> DEFINE grown == Extended(memory, offset, Len(bytes))
           written == Written(grown, offset, bytes)
           was(n) == IF n < Len(memory) THEN memory[n + 1] ELSE 0
           is(n) == IF n < Len(written) THEN written[n + 1] ELSE 0
           over(n) == IF n - offset \in 0 .. Len(bytes) - 1 THEN bytes[n - offset + 1]
                      ELSE [k \in Addresses |-> was(k)][n]
<1>1. PICK l \in Nat, b \in Nat, g \in Nat : l = Len(memory) /\ b = Len(bytes) /\ g = Len(grown)
        /\ l <= g /\ (b # 0 => offset + b <= g) /\ grown \in Seq(Byte)
        /\ \A n \in Nat \ {0} : n <= g => grown[n] = IF n <= l THEN memory[n] ELSE 0
  <2>1. /\ grown \in Seq(Byte) /\ Len(memory) <= Len(grown)
        /\ Len(bytes) # 0 => offset + Len(bytes) <= Len(grown)
        /\ \A n \in Nat \ {0} : n <= Len(grown) =>
             grown[n] = IF n <= Len(memory) THEN memory[n] ELSE 0
    <3>1. Len(bytes) \in Nat
      OBVIOUS
    <3> QED BY <3>1, ExtendedIs
  <2> HIDE DEF grown
  <2>2. Len(memory) \in Nat /\ Len(bytes) \in Nat /\ Len(grown) \in Nat
    BY <2>1
  <2> QED BY <2>1, <2>2
<1>2. DOMAIN grown = 1 .. g /\ DOMAIN bytes = 1 .. b
  BY <1>1
<1> HIDE DEF grown
<1>3. Len(written) = g
  BY <1>1, WrittenType
<1>4. \A n \in 1 .. g : written[n] = IF n - offset \in 1 .. b THEN bytes[n - offset] ELSE grown[n]
  BY <1>2 DEF Written
<1> HIDE DEF written
<1>5. ASSUME NEW n \in Nat PROVE is(n) = over(n)
  <2>1. over(n) = IF n - offset \in 0 .. b - 1 THEN bytes[n - offset + 1]
                  ELSE IF n < l THEN memory[n + 1] ELSE 0
    BY <1>1
  <2>2. is(n) = IF n < g THEN written[n + 1] ELSE 0
    BY <1>3
  <2>3. CASE n - offset \in 0 .. b - 1
    <3>1. n < g /\ n + 1 \in 1 .. g /\ (n + 1) - offset = n - offset + 1
          /\ (n + 1) - offset \in 1 .. b
      BY <1>1, <2>3
    <3> QED BY <1>4, <2>1, <2>2, <2>3, <3>1
  <2>4. CASE n - offset \notin 0 .. b - 1
    <3>1. (n + 1) - offset \notin 1 .. b
      BY <1>1, <2>4
    <3>2. CASE n < g
      <4>1. n + 1 \in 1 .. g /\ n + 1 \in Nat \ {0} /\ (n + 1 <= l <=> n < l)
        BY <1>1, <3>2
      <4>2. written[n + 1] = grown[n + 1]
        BY <1>4, <3>1, <4>1
      <4> QED BY <1>1, <2>1, <2>2, <2>4, <3>2, <4>1, <4>2
    <3>3. CASE ~(n < g)
      <4>1. ~(n < l)
        BY <1>1, <3>3
      <4> QED BY <2>1, <2>2, <2>4, <3>3, <4>1
    <3> QED BY <3>2, <3>3
  <2> QED BY <2>3, <2>4
<1>6. MemoryOf(written) = [n \in Addresses |-> is(n)]
  BY DEF MemoryOf
<1>7. M!Overwrite(offset, bytes) = [n \in Addresses |-> over(n)]
  BY DEF M!Overwrite
<1> HIDE DEF is, over
<1>8. MemoryOf(written) = M!Overwrite(offset, bytes)
  BY <1>5, <1>6, <1>7
<1> QED BY <1>8 DEF written, grown

\* No fewer words will do than those charged.
LEMMA WordsForLeast ==
  ASSUME NEW n \in Nat \ {0}
  PROVE  /\ WordsFor(n) \in Nat \ {0} /\ WordsFor(n) <= n
         /\ \A m \in Nat : n <= m * WordBytes => WordsFor(n) <= m
<1>1. PICK w \in Nat \ {0} : w = WordBytes
  BY Sizes
<1>2. PICK q \in Nat : q = WordsFor(n) /\ q = (n + w - 1) \div w
  BY <1>1, WordsForType DEF WordsFor
<1>3. n + w - 1 \in Nat
  BY <1>1
<1>4. PICK x \in Nat : x = q * w /\ x <= n + w - 1 /\ n <= x
  <2>1. q * w \in Nat /\ q * w <= n + w - 1
    <3>1. PICK a \in Nat : a = n + w - 1
      BY <1>3
    <3>2. q = a \div w /\ a \in Nat
      BY <1>2, <3>1
    <3>3. (a \div w) * w <= a
      OBVIOUS
    <3>4. q * w \in Nat
      BY ProductType
    <3> QED BY ONLY <3>1, <3>2, <3>3, <3>4
  <2>2. n <= q * w
    BY <1>1, <1>2, WordsForType
  <2> QED BY <2>1, <2>2
<1>5. q # 0
  BY <1>4
<1>6. ASSUME NEW m \in Nat, n <= m * w PROVE q <= m
  <2>1. PICK y \in Nat : y = m * w
    BY ProductType
  <2> SUFFICES ASSUME m + 1 <= q PROVE FALSE
    BY <1>2
  <2>2. (m + 1) * w <= q * w
    BY ProductMonotone
  <2>3. (m + 1) * w = y + w
    BY <2>1
  <2>4. y + w <= x
    BY <1>4, <2>2, <2>3
  <2> QED BY <1>4, <1>6, <2>1, <2>4
<1>7. q <= n
  <2>1. n * 1 <= n * w
    <3>1. 1 * n <= w * n /\ 1 * n = n * 1 /\ w * n = n * w
      BY ProductMonotone
    <3> QED BY <3>1
  <2>2. n <= n * w
    BY <2>1
  <2> QED BY <1>6, <2>2
<1> QED BY <1>1, <1>2, <1>5, <1>6, <1>7

\* The machine's least number of words is the one that is charged.
LEMMA CoversIs ==
  ASSUME NEW p \in Nat \X Nat, NEW q \in Nat \X Nat, NEW A \in SUBSET {p, q},
         memoryWordCount \in Nat
  PROVE  M!Covers(A) = Max({memoryWordCount} \cup
                           {WordsFor(r[1] + r[2]) : r \in {s \in A : s[2] # 0}})
<1> DEFINE m == memoryWordCount
           end(a) == a[1] + a[2]
           asked == {WordsFor(r[1] + r[2]) : r \in {s \in A : s[2] # 0}}
           S == {m} \cup asked
           W == Max(S)
           T == {m} \cup {a[1] + a[2] : a \in A}
           Enough(n) == \A a \in A : a[2] = 0 \/ a[1] + a[2] <= n * WordBytes
           Least2(n) == n = m \/ \E a \in A : a[2] # 0 /\ a[1] + a[2] > (n - 1) * WordBytes
<1>0. M!Covers(A) = CHOOSE n \in m .. M!Max(T) : Enough(n) /\ Least2(n)
  BY DEF M!Covers
<1>1. ASSUME NEW a \in A
      PROVE  /\ a[1] \in Nat /\ a[2] \in Nat /\ a[1] + a[2] \in Nat
             /\ WordsFor(a[1] + a[2]) \in Nat
  <2>1. a \in Nat \X Nat
    OBVIOUS
  <2>2. a[1] \in Nat /\ a[2] \in Nat /\ a[1] + a[2] \in Nat
    BY <2>1
  <2> QED BY <2>2, WordsForType
<1>2. W \in S /\ (\A y \in S : W >= y) /\ S \subseteq Nat
  <2>1. /\ p[1] + p[2] \in Nat /\ q[1] + q[2] \in Nat
    OBVIOUS
  <2>2. PICK b \in Nat, c \in Nat : b = WordsFor(p[1] + p[2]) /\ c = WordsFor(q[1] + q[2])
    BY <2>1, WordsForType
  <2>3. S \in SUBSET {m, b, c} /\ S # {}
    BY <2>2
  <2>4. m \in Nat
    OBVIOUS
  <2> HIDE DEF S, m
  <2> QED BY <2>3, <2>4, MaxOfThree
<1>3. M!Max(T) \in T /\ \A y \in T : M!Max(T) >= y
  <2>1. /\ p[1] + p[2] \in Nat /\ q[1] + q[2] \in Nat
    OBVIOUS
  <2>2. PICK b \in Nat, c \in Nat : b = p[1] + p[2] /\ c = q[1] + q[2]
    BY <2>1
  <2>3. T \in SUBSET {m, b, c} /\ T # {}
    BY <2>2
  <2>4. m \in Nat
    OBVIOUS
  <2> HIDE DEF T, m
  <2>5. Max(T) \in T /\ \A y \in T : Max(T) >= y
    BY <2>3, <2>4, MaxOfThree
  <2> QED BY <2>5 DEF Max, M!Max
<1>4. m \in S /\ \A a \in A : a[2] # 0 => WordsFor(a[1] + a[2]) \in S
  OBVIOUS
<1>5. ASSUME W # m PROVE \E a \in A : a[2] # 0 /\ W = WordsFor(a[1] + a[2])
  BY <1>2, <1>5
<1>6. m \in T /\ \A a \in A : a[1] + a[2] \in T
  OBVIOUS
<1>7. m \in Nat /\ \A y \in T : y \in Nat
  BY <1>1
<1> HIDE DEF S, T, W, m
<1>8. W \in Nat /\ m <= W /\ W <= M!Max(T)
  <2>1. W \in Nat /\ m <= W /\ M!Max(T) \in Nat /\ m <= M!Max(T)
    BY <1>2, <1>3, <1>4, <1>6, <1>7
  <2>2. CASE W # m
    <3>1. PICK a \in A : a[2] # 0 /\ W = WordsFor(a[1] + a[2])
      BY <1>5, <2>2
    <3>2. PICK e \in Nat \ {0} : e = a[1] + a[2]
      BY <1>1, <3>1
    <3>3. W <= e /\ e <= M!Max(T)
      BY <1>3, <1>6, <3>1, <3>2, WordsForLeast
    <3> QED BY <2>1, <3>2, <3>3
  <2> QED BY <2>1, <2>2
<1>9. PICK w \in Nat \ {0} : w = WordBytes
  BY Sizes
<1>10. Enough(W)
  <2> SUFFICES ASSUME NEW a \in A, a[2] # 0 PROVE a[1] + a[2] <= W * WordBytes
    OBVIOUS
  <2>1. PICK e \in Nat, v \in Nat : e = a[1] + a[2] /\ v = WordsFor(e) /\ v <= W
    BY <1>1, <1>2, <1>4
  <2>2. e <= v * w
    BY <1>9, <2>1, WordsForType
  <2>3. v * w <= W * w
    BY <1>8, <2>1, ProductMonotone
  <2>4. PICK x \in Nat, y \in Nat : x = v * w /\ y = W * w
    BY <1>8, ProductType
  <2> QED BY <1>9, <2>1, <2>2, <2>3, <2>4
<1>11. Least2(W)
  <2> SUFFICES ASSUME W # m
               PROVE  \E a \in A : a[2] # 0 /\ a[1] + a[2] > (W - 1) * WordBytes
    OBVIOUS
  <2>1. PICK a \in A : a[2] # 0 /\ W = WordsFor(a[1] + a[2])
    BY <1>5
  <2>2. PICK e \in Nat \ {0} : e = a[1] + a[2]
    BY <1>1, <2>1
  <2>3. W # 0 /\ \A k \in Nat : e <= k * WordBytes => W <= k
    BY <2>1, <2>2, WordsForLeast
  <2>4. W - 1 \in Nat /\ ~(W <= W - 1)
    BY <1>8, <2>3
  <2>5. ~(e <= (W - 1) * WordBytes)
    BY <2>3, <2>4
  <2>6. (W - 1) * WordBytes \in Nat
    BY <1>9, <2>4, ProductType
  <2>7. e > (W - 1) * WordBytes
    <3>1. PICK y \in Nat : y = (W - 1) * WordBytes
      BY <2>6
    <3> QED BY <2>5, <3>1
  <2> QED BY <2>1, <2>2, <2>7
<1>12. ASSUME NEW n \in m .. M!Max(T), Enough(n), Least2(n) PROVE n = W
  <2>0. n \in Nat /\ m <= n
    BY <1>3, <1>7
  <2>1. ~(n < W)
    <3> SUFFICES ASSUME n < W PROVE FALSE
      OBVIOUS
    <3>1. W # m
      BY <1>7, <2>0
    <3>2. PICK a \in A : a[2] # 0 /\ a[1] + a[2] > (W - 1) * WordBytes
      BY <1>11, <3>1
    <3>3. PICK e \in Nat, y \in Nat, z \in Nat :
            e = a[1] + a[2] /\ y = (W - 1) * w /\ z = n * w /\ y < e /\ e <= z
      <4>1. W - 1 \in Nat
        BY <1>8, <2>0
      <4>2. PICK e \in Nat, y \in Nat, z \in Nat :
              e = a[1] + a[2] /\ y = (W - 1) * w /\ z = n * w
        BY <1>1, <2>0, <4>1, ProductType
      <4>3. e <= n * WordBytes
        BY <1>12, <3>2, <4>2
      <4> QED BY <1>9, <3>2, <4>2, <4>3
    <3>4. n <= W - 1 /\ W - 1 \in Nat
      BY <1>8, <2>0
    <3>5. z <= y
      BY <2>0, <3>3, <3>4, ProductMonotone
    <3> QED BY <3>3, <3>5
  <2>2. ~(W < n)
    <3> SUFFICES ASSUME W < n PROVE FALSE
      OBVIOUS
    <3>1. n # m
      BY <1>7, <1>8, <2>0
    <3>2. PICK a \in A : a[2] # 0 /\ a[1] + a[2] > (n - 1) * WordBytes
      BY <1>12, <3>1
    <3>3. PICK e \in Nat, y \in Nat, z \in Nat :
            e = a[1] + a[2] /\ y = (n - 1) * w /\ z = W * w /\ y < e /\ e <= z
      <4>1. n - 1 \in Nat
        BY <1>8, <2>0
      <4>2. PICK e \in Nat, y \in Nat, z \in Nat :
              e = a[1] + a[2] /\ y = (n - 1) * w /\ z = W * w
        BY <1>1, <1>8, <4>1, ProductType
      <4>3. e <= W * WordBytes
        BY <1>10, <3>2, <4>2
      <4> QED BY <1>9, <3>2, <4>2, <4>3
    <3>4. W <= n - 1 /\ n - 1 \in Nat
      BY <1>8, <2>0
    <3>5. z <= y
      BY <1>8, <3>3, <3>4, ProductMonotone
    <3> QED BY <3>3, <3>5
  <2> QED BY <1>8, <2>0, <2>1, <2>2
<1>13. W \in m .. M!Max(T)
  BY <1>3, <1>7, <1>8
<1> HIDE DEF Enough, Least2
<1>14. M!Covers(A) = W
  BY <1>0, <1>10, <1>11, <1>12, <1>13
<1> QED BY <1>14 DEF W, S, m

----------------------------------------------------------------------------
(* The stack, read from its top.                                           *)

LEMMA PartOf ==
  ASSUME NEW X, NEW s \in Seq(X), NEW a \in Nat \ {0}, NEW b \in Nat, b <= Len(s), a <= b + 1
  PROVE  /\ SubSeq(s, a, b) \in Seq(X) /\ Len(SubSeq(s, a, b)) = b + 1 - a
         /\ \A n \in Nat \ {0} : n <= b + 1 - a => SubSeq(s, a, b)[n] = s[a + n - 1]
<1>1. \A i \in a .. b : s[i] \in X
  OBVIOUS
<1>2. /\ SubSeq(s, a, b) \in Seq(X)
      /\ Len(SubSeq(s, a, b)) = IF a <= b THEN b - a + 1 ELSE 0
      /\ \A i \in 1 .. b - a + 1 : SubSeq(s, a, b)[i] = s[a + i - 1]
  BY <1>1, SubSeqProperties
<1>3. Len(SubSeq(s, a, b)) = b + 1 - a
  BY <1>2
<1>4. \A n \in Nat \ {0} : n <= b + 1 - a => n \in 1 .. b - a + 1
  OBVIOUS
<1> QED BY <1>2, <1>3, <1>4

LEMMA Single ==
  ASSUME NEW X, NEW v \in X
  PROVE  <<v>> \in Seq(X) /\ Len(<<v>>) = 1 /\ <<v>>[1] = v
OBVIOUS

LEMMA ReversedAppend ==
  ASSUME NEW X, NEW s \in Seq(X), NEW v \in X
  PROVE  Reverse(Append(s, v)) = <<v>> \o Reverse(s)
<1>1. PICK l \in Nat : l = Len(s)
  OBVIOUS
<1>2. PICK t \in Seq(X) : /\ t = Append(s, v) /\ Len(t) = l + 1 /\ t[l + 1] = v
                          /\ \A n \in 1 .. l : t[n] = s[n]
  <2>1. /\ Append(s, v) \in Seq(X) /\ Len(Append(s, v)) = Len(s) + 1
        /\ Append(s, v)[Len(s) + 1] = v
        /\ \A n \in 1 .. Len(s) : Append(s, v)[n] = s[n]
    OBVIOUS
  <2> QED BY <1>1, <2>1, Zenon
<1>3. /\ Reverse(t) \in Seq(X) /\ Len(Reverse(t)) = l + 1
      /\ \A k \in 1 .. l + 1 : Reverse(t)[k] = t[(l + 1) + 1 - k]
  <2>1. /\ Reverse(t) \in Seq(X) /\ Len(Reverse(t)) = Len(t)
        /\ \A k \in 1 .. Len(t) : Reverse(t)[k] = t[Len(t) + 1 - k]
    BY Reversed
  <2> QED BY <1>2, <2>1
<1>4. PICK r \in Seq(X) : /\ r = Reverse(s) /\ Len(r) = l
                          /\ \A k \in 1 .. l : r[k] = s[l + 1 - k]
  BY <1>1, Reversed
<1>5. PICK j \in Seq(X) : /\ j = <<v>> \o r /\ Len(j) = 1 + l
                          /\ \A n \in Nat \ {0} :
                               /\ n <= 1 => j[n] = <<v>>[n]
                               /\ n > 1 /\ n <= 1 + l => j[n] = r[n - 1]
  <2>1. PICK o \in Seq(X) : o = <<v>> /\ Len(o) = 1
    BY Single
  <2>2. /\ o \o r \in Seq(X) /\ Len(o \o r) = Len(o) + Len(r)
        /\ \A n \in Nat \ {0} :
              /\ n <= Len(o) => (o \o r)[n] = o[n]
              /\ n > Len(o) /\ n <= Len(o) + Len(r) => (o \o r)[n] = r[n - Len(o)]
    BY ONLY <2>1, r \in Seq(X), Concatenated
  <2> QED BY <1>4, <2>1, <2>2
<1>6. ASSUME NEW n \in Nat \ {0}, n <= l + 1 PROVE Reverse(t)[n] = j[n]
  <2>1. Reverse(t)[n] = t[(l + 1) + 1 - n]
    BY <1>3, <1>6
  <2>2. CASE n = 1
    <3>1. (l + 1) + 1 - n = l + 1 /\ n <= 1
      BY <2>2
    <3>2. j[n] = <<v>>[n] /\ <<v>>[1] = v
      BY <1>5, <3>1, Single
    <3> QED BY <1>2, <2>1, <2>2, <3>1, <3>2
  <2>3. CASE n # 1
    <3>1. /\ (l + 1) + 1 - n = l + 1 - (n - 1) /\ l + 1 - (n - 1) \in 1 .. l
          /\ n - 1 \in 1 .. l /\ n > 1 /\ n <= 1 + l
      BY <1>6, <2>3
    <3> QED BY <1>2, <1>4, <1>5, <2>1, <3>1
  <2> QED BY <2>2, <2>3
<1>7. Reverse(t) = j
  <2>1. Len(Reverse(t)) = Len(j) /\ Len(j) = l + 1
    BY <1>3, <1>5
  <2>2. \A n \in Nat \ {0} : n <= Len(Reverse(t)) => Reverse(t)[n] = j[n]
    BY <1>3, <1>6
  <2>3. Alike(Reverse(t), j)
    BY <2>1, <2>2 DEF Alike
  <2> QED BY <1>3, <2>3, SameItems
<1> QED BY <1>2, <1>4, <1>5, <1>7

LEMMA RestIs ==
  ASSUME Typed, NEW n \in Nat, n <= Len(stack)
  PROVE  Reverse(Popped(n)) = SubSeq(Reverse(stack), n + 1, Len(stack))
<1>1. PICK l \in Nat : l = Len(stack) /\ n <= l /\ stack \in Seq(Word)
  BY DEF Typed, TypeOK
<1>2. PICK p \in Seq(Word) : /\ p = Popped(n) /\ Len(p) = l - n
                             /\ \A k \in 1 .. l - n : p[k] = stack[k]
  <2>1. 1 \in Nat \ {0} /\ l - n \in Nat /\ l - n <= Len(stack) /\ 1 <= (l - n) + 1
    BY <1>1
  <2>2. /\ SubSeq(stack, 1, l - n) \in Seq(Word) /\ Len(SubSeq(stack, 1, l - n)) = (l - n) + 1 - 1
        /\ \A k \in Nat \ {0} : k <= (l - n) + 1 - 1 => SubSeq(stack, 1, l - n)[k] = stack[1 + k - 1]
    BY ONLY <1>1, <2>1, PartOf
  <2>3. Popped(n) = SubSeq(stack, 1, l - n)
    BY <1>1 DEF Popped
  <2>4. (l - n) + 1 - 1 = l - n
    BY <1>1
  <2>5. \A k \in 1 .. l - n : k \in Nat \ {0} /\ k <= l - n /\ 1 + k - 1 = k
    BY <1>1
  <2>6. PICK p \in Seq(Word) : p = Popped(n) /\ p = SubSeq(stack, 1, l - n)
    BY <2>2, <2>3
  <2>7. Len(p) = l - n
    BY <2>2, <2>4, <2>6
  <2>8. \A k \in 1 .. l - n : p[k] = stack[k]
    BY <2>2, <2>4, <2>5, <2>6
  <2> QED BY <2>6, <2>7, <2>8
<1>3. PICK r \in Seq(Word) : /\ r = Reverse(p) /\ Len(r) = l - n
                             /\ \A k \in 1 .. l - n : r[k] = p[(l - n) + 1 - k]
  <2>1. /\ Reverse(p) \in Seq(Word) /\ Len(Reverse(p)) = Len(p)
        /\ \A k \in 1 .. Len(p) : Reverse(p)[k] = p[Len(p) + 1 - k]
    BY Reversed
  <2> QED BY <1>2, <2>1
<1>4. PICK s \in Seq(Word) : /\ s = Reverse(stack) /\ Len(s) = l
                             /\ \A k \in 1 .. l : s[k] = stack[l + 1 - k]
  <2>1. /\ Reverse(stack) \in Seq(Word) /\ Len(Reverse(stack)) = Len(stack)
        /\ \A k \in 1 .. Len(stack) : Reverse(stack)[k] = stack[Len(stack) + 1 - k]
    BY <1>1, Reversed
  <2> QED BY <1>1, <2>1
<1>5. PICK t \in Seq(Word) : /\ t = SubSeq(s, n + 1, l) /\ Len(t) = l - n
                             /\ \A k \in Nat \ {0} : k <= l - n => t[k] = s[n + k]
  <2>1. n + 1 \in Nat \ {0} /\ l <= Len(s) /\ n + 1 <= l + 1
    BY <1>1, <1>4
  <2>2. /\ SubSeq(s, n + 1, l) \in Seq(Word) /\ Len(SubSeq(s, n + 1, l)) = l + 1 - (n + 1)
        /\ \A k \in Nat \ {0} : k <= l + 1 - (n + 1) => SubSeq(s, n + 1, l)[k] = s[(n + 1) + k - 1]
    BY ONLY <2>1, s \in Seq(Word), l \in Nat, PartOf
  <2>3. l + 1 - (n + 1) = l - n /\ \A k \in Nat : (n + 1) + k - 1 = n + k
    BY <1>1
  <2>4. PICK t \in Seq(Word) : t = SubSeq(s, n + 1, l)
    BY <2>2
  <2>5. Len(t) = l - n
    BY <2>2, <2>3, <2>4
  <2>6. ASSUME NEW k \in Nat \ {0}, k <= l - n PROVE t[k] = s[n + k]
    BY <2>2, <2>3, <2>4, <2>6
  <2> QED BY <2>4, <2>5, <2>6
<1>6. ASSUME NEW k \in Nat \ {0}, k <= l - n PROVE r[k] = t[k]
  <2>1. /\ k \in 1 .. l - n /\ (l - n) + 1 - k \in 1 .. l - n /\ n + k \in 1 .. l
        /\ (l - n) + 1 - k = l + 1 - (n + k)
    BY <1>1, <1>6
  <2>2. t[k] = s[n + k]
    BY <1>5, <1>6
  <2>3. s[n + k] = stack[l + 1 - (n + k)]
    BY <1>4, <2>1
  <2>4. r[k] = p[(l - n) + 1 - k] /\ p[(l - n) + 1 - k] = stack[(l - n) + 1 - k]
    BY <1>2, <1>3, <2>1
  <2> QED BY <2>1, <2>2, <2>3, <2>4
<1>7. r = t
  <2>1. \A k \in Nat \ {0} : k <= Len(r) => r[k] = t[k]
    BY <1>3, <1>6
  <2>2. Len(r) = Len(t)
    BY <1>3, <1>5
  <2>3. Alike(r, t)
    BY <2>1, <2>2 DEF Alike
  <2> QED BY <2>3, SameItems
<1> QED BY <1>1, <1>2, <1>3, <1>4, <1>5, <1>7

\* What is pushed comes before the rest.
LEMMA PushedOnto ==
  ASSUME Typed, NEW n \in Nat, n <= Len(stack), NEW word \in Word
  PROVE  Reverse(Append(Popped(n), word)) = <<word>> \o SubSeq(Reverse(stack), n + 1, Len(stack))
<1>1. Popped(n) \in Seq(Word)
  BY PoppedType
<1>2. Reverse(Append(Popped(n), word)) = <<word>> \o Reverse(Popped(n))
  BY <1>1, ReversedAppend
<1> QED BY <1>2, RestIs

\* A handler that leaves nothing leaves the rest.
LEMMA NothingPushed ==
  ASSUME Typed, NEW n \in Nat, n <= Len(stack)
  PROVE  Reverse(Popped(n)) = <<>> \o SubSeq(Reverse(stack), n + 1, Len(stack))
<1>1. PICK p \in Seq(Word) : p = Popped(n)
  BY PoppedType
<1>2. PICK r \in Seq(Word) : r = Reverse(p)
  BY Reversed
<1>3. <<>> \o r = r
  OBVIOUS
<1> QED BY <1>1, <1>2, <1>3, RestIs

----------------------------------------------------------------------------
(* An instruction that is executed.                                        *)

LEMMA Replaced ==
  ASSUME Typed, Matched, NEW op, Accepted(op), memoryWordCount' = WordsTouched(op), job' = job,
         NEW pushed, NEW accesses, accesses = Regions(op),
         Reverse(stack') = pushed \o SubSeq(Reverse(stack), Needs(op) + 1, Len(stack))
  PROVE  M!Replace(pushed, accesses)
<1>1. Op = op /\ Running /\ status = "running" /\ programCounter < Len(job.code)
  BY DEF Accepted, Running
<1>2. M!Reasons = {}
  BY <1>1, NoReasons
<1>3. M!Takes = Needs(op)
  BY <1>1, TakesIs
<1>4. Len(Reverse(stack)) = Len(stack)
  BY TopIs
<1>5. M!Covers(accesses) = WordsTouched(op)
  <2>1. PICK p \in Nat \X Nat, q \in Nat \X Nat : Regions(op) \subseteq {p, q}
    BY RegionsType
  <2>2. accesses \in SUBSET {p, q} /\ memoryWordCount \in Nat
    BY <2>1 DEF Typed, TypeOK
  <2>3. M!Covers(accesses) = Max({memoryWordCount} \cup
                           {WordsFor(r[1] + r[2]) : r \in {s \in accesses : s[2] # 0}})
    BY ONLY <2>2, p \in Nat \X Nat, q \in Nat \X Nat, CoversIs
  <2> QED BY <2>3 DEF WordsTouched
<1> QED BY <1>1, <1>2, <1>3, <1>4, <1>5 DEF M!Replace

\* What the steps of the machine have in common.
Performed == M!Compute \/ M!Know \/ M!PushData \/ M!Arrange \/ M!Go \/ M!Look \/ M!Keep
            \/ M!Announce \/ M!Finish
            \/ \E answer \in Answer : M!Ask(answer) \/ M!Lose(answer)

LEMMA PerformedSteps ==
  ASSUME Typed, Matched, NEW op, Accepted(op), Performed PROVE M!Next
<1>1. Op = op /\ status = "running" /\ programCounter < Len(job.code)
  BY DEF Accepted, Running
<1>2. M!Reasons = {}
  BY <1>1, NoReasons
<1>3. M!Step
  BY <1>1, <1>2, Zenon DEF M!Step, Performed
<1> QED BY <1>3 DEF M!Next

LEMMA SameMemory ==
  ASSUME memory' = memory, lastReturned' = lastReturned, logs' = logs, returnValue' = returnValue
  PROVE  M!Quiet
BY DEF M!Quiet

LEMMA ContinuesOn ==
  ASSUME Continues, exception' = exception PROVE M!Onwards
BY DEF M!Onwards, Continues

\* What is on top.
LEMMA TopsAre ==
  ASSUME Typed, NEW op, Accepted(op)
  PROVE  \A k \in Nat \ {0} : k <= Pops(op) =>
           Top(k) \in Word /\ Top(k) \in Nat /\ Reverse(stack)[k] = Top(k)
<1>1. Pops(op) \in Nat /\ Pops(op) <= Len(stack) /\ Len(stack) \in Nat
  BY AcceptedFacts
<1> QED BY <1>1, TopIs, TopType

LEMMA PushResultMaps ==
  ASSUME Typed, Matched, HashesAreWords, SizesFit, NEW op \in PushingOps, PushResult(op),
         NEW accesses, accesses = Regions(op), NEW word, word = Pushed(op)
  PROVE  /\ Accepted(op) /\ M!Op = op /\ word \in Word
         /\ M!Replace(<<word>>, accesses) /\ M!Onwards /\ M!Quiet
<1>1. /\ Executes(op) /\ Accepted(op) /\ Op = op /\ Running
      /\ stack' = Append(Popped(Pops(op)), Pushed(op)) /\ Continues
      /\ UNCHANGED <<memory, lastReturned, logs, returnValue>>
      /\ memoryWordCount' = WordsTouched(op) /\ job' = job /\ exception' = exception
  BY DEF PushResult, Executes, Accepted, HandledOps
<1>2. Pops(op) \in Nat /\ Pops(op) <= Len(stack) /\ Needs(op) <= Len(stack)
      /\ ~(gasLeft < Fee(job.fork, op))
  BY <1>1, AcceptedFacts
<1>3. Needs(op) = Pops(op)
  BY DEF Needs, PushingOps, ComputingOps, ArithmeticOps, ComparisonOps, BitwiseOps,
         ModularOps, UnaryOps, EnvOps, LookupOps, SizeOps
<1>4. word \in Word
  BY <1>1, <1>2, PushedIsWord
<1>5. Reverse(stack') = <<word>> \o SubSeq(Reverse(stack), Needs(op) + 1, Len(stack))
  BY <1>1, <1>2, <1>3, <1>4, PushedOnto
<1>6. M!Replace(<<word>>, accesses)
  BY <1>1, <1>5, Replaced
<1>7. M!Onwards /\ M!Quiet
  BY <1>1, ContinuesOn, SameMemory
<1> QED BY <1>1, <1>4, <1>6, <1>7, SameInstruction

LEMMA ComputeMaps ==
  ASSUME Typed, Matched, HashesAreWords, SizesFit, NEW op \in ComputingOps, PushResult(op)
  PROVE  Accepted(op) /\ M!Compute
<1> DEFINE word == Pushed(op)
           args == Args(Pops(op))
<1>1. op \in PushingOps
  BY DEF PushingOps
<1>2. Regions(op) = {}
  BY RegionsOf DEF ComputingOps, ArithmeticOps, ComparisonOps, BitwiseOps, ModularOps, UnaryOps,
                   CopyOps, CallOps
<1>3. Accepted(op) /\ M!Op = op /\ M!Replace(<<word>>, {}) /\ M!Onwards /\ M!Quiet
  <2>1. {} = Regions(op)
    BY <1>2
  <2> HIDE DEF word
  <2>2. word = Pushed(op)
    BY DEF word
  <2> QED BY <1>1, <2>1, <2>2, PushResultMaps
<1>4. Pops(op) = IF op \in ModularOps THEN 3 ELSE IF op \in UnaryOps THEN 1 ELSE 2
  BY PopsOf
<1>5. /\ Top(1) \in Word /\ Reverse(stack)[1] = Top(1)
      /\ op \notin UnaryOps => Top(2) \in Word /\ Reverse(stack)[2] = Top(2)
      /\ op \in ModularOps => Top(3) \in Word /\ Reverse(stack)[3] = Top(3)
  <2>1. op \in ModularOps => op \notin UnaryOps
    BY DEF ModularOps, UnaryOps
  <2>2. \A k \in Nat \ {0} : k <= Pops(op) => Top(k) \in Word /\ Reverse(stack)[k] = Top(k)
    BY <1>3, TopsAre
  <2> QED BY <1>4, <2>1, <2>2
<1>6. PICK a \in Word : a = Top(1)
  BY <1>5
<1>7. PICK b \in Word : op \notin UnaryOps => Top(2) = b
  BY <1>5, <1>6
<1>8. PICK c \in Word : op \in ModularOps => Top(3) = c
  BY <1>5, <1>6
<1>9. args[1] = a /\ (op \notin UnaryOps => args[2] = b) /\ (op \in ModularOps => args[3] = c)
  <2>1. \A k \in 1 .. Pops(op) : args[k] = Top(k)
    BY DEF Args
  <2>2. /\ 1 \in 1 .. Pops(op) /\ op \notin UnaryOps => 2 \in 1 .. Pops(op)
        /\ op \in ModularOps => 3 \in 1 .. Pops(op)
    BY <1>4
  <2>3. 1 \in 1 .. Pops(op)
    BY <1>4
  <2> HIDE DEF args
  <2>4. CASE op \in ModularOps
    <3>1. 2 \in 1 .. Pops(op) /\ 3 \in 1 .. Pops(op)
      BY <1>4, <2>4
    <3> QED BY <1>6, <1>7, <1>8, <2>1, <2>3, <3>1
  <2>5. CASE op \notin ModularOps
    <3>1. op \notin UnaryOps => 2 \in 1 .. Pops(op)
      BY <1>4, <2>5
    <3> QED BY <1>6, <1>7, <2>1, <2>3, <2>5, <3>1
  <2> QED BY <2>4, <2>5
<1>10. /\ op \in M!Ternary => word = M!Meaning(op, a, b, c)
       /\ op \in M!Binary => word = M!Meaning(op, a, b, 0)
       /\ op \in M!Unary => word = M!Meaning(op, a, 0, 0)
  <2>1. word = Computed(op, args)
    BY PushedOf
  <2> HIDE DEF word, args
  <2> QED BY <1>9, <2>1, ComputedMeans
<1> HIDE DEF word, args
<1>11. /\ M!Unary = UnaryOps /\ M!Ternary = ModularOps
       /\ M!Binary = ArithmeticOps \cup ComparisonOps \cup BitwiseOps
       /\ ComputingOps = ArithmeticOps \cup ComparisonOps \cup BitwiseOps \cup ModularOps \cup UnaryOps
  BY SameSets DEF ComputingOps
<1>12. M!Pushes(word)
  BY <1>3 DEF M!Pushes
<1>13. CASE op \in M!Unary
  <2>1. word = M!Meaning(M!Op, Reverse(stack)[1], 0, 0)
    BY <1>3, <1>5, <1>6, <1>10, <1>13
  <2>2. M!Pushes(M!Meaning(M!Op, Reverse(stack)[1], 0, 0))
    BY <1>12, <2>1
  <2> QED BY <1>3, <1>13, <2>2 DEF M!Compute
<1>14. CASE op \in M!Binary
  <2>0. op \notin UnaryOps
    BY <1>11, <1>14 DEF ArithmeticOps, ComparisonOps, BitwiseOps, UnaryOps
  <2>1. word = M!Meaning(M!Op, Reverse(stack)[1], Reverse(stack)[2], 0)
    BY <1>3, <1>5, <1>6, <1>7, <1>10, <1>14, <2>0
  <2>2. M!Pushes(M!Meaning(M!Op, Reverse(stack)[1], Reverse(stack)[2], 0))
    BY <1>12, <2>1
  <2> QED BY <1>3, <1>14, <2>2 DEF M!Compute
<1>15. CASE op \in M!Ternary
  <2>0. op \notin UnaryOps /\ op \in ModularOps
    BY <1>11, <1>15 DEF ModularOps, UnaryOps
  <2>1. word = M!Meaning(M!Op, Reverse(stack)[1], Reverse(stack)[2], Reverse(stack)[3])
    BY <1>3, <1>5, <1>6, <1>7, <1>8, <1>10, <1>15, <2>0
  <2>2. M!Pushes(M!Meaning(M!Op, Reverse(stack)[1], Reverse(stack)[2], Reverse(stack)[3]))
    BY <1>12, <2>1
  <2> QED BY <1>3, <1>15, <2>2 DEF M!Compute
<1> QED BY <1>3, <1>11, <1>13, <1>14, <1>15

\* Bytes that are all zero are worth nothing.
LEMMA ZerosAreNothing ==
  ASSUME NEW bytes \in Seq(Byte), Len(bytes) <= WordBytes, \A n \in 1 .. Len(bytes) : bytes[n] = 0
  PROVE  FromBytes(bytes) = 0
<1> DEFINE L == Len(bytes)
           f == [n \in 1 .. L |-> bytes[n] * 2 ^ ((L - n) * ByteBits)]
<1>1. FromBytes(bytes) = Total(1 .. L, f) /\ L \in Nat /\ L <= WordBytes
  BY FromBytesIsTotal
<1>2. ASSUME NEW n \in 1 .. L PROVE f[n] = 0
  <2>1. L - n \in Nat /\ L - n <= WordBytes
    BY <1>1, Sizes
  <2>2. PICK p \in Nat : p = 2 ^ ((L - n) * ByteBits)
    BY <2>1, PlacesType, PowerType
  <2>3. 0 * p = 0
    OBVIOUS
  <2> QED BY <2>2, <2>3
<1>3. f \in [1 .. L -> Nat] /\ Units(1 .. L, f) = {}
  <2>1. f = [n \in 1 .. L |-> f[n]]
    OBVIOUS
  <2> HIDE DEF f, L
  <2>2. f \in [1 .. L -> Nat]
    BY <1>2, <2>1
  <2>3. Units(1 .. L, f) = {}
    <3> SUFFICES ASSUME NEW u \in Units(1 .. L, f) PROVE FALSE
      OBVIOUS
    <3>1. u[1] \in 1 .. L /\ u[2] \in 1 .. f[u[1]]
      BY DEF Units
    <3>2. f[u[1]] = 0
      BY <1>2, <3>1
    <3> QED BY <3>1, <3>2
  <2> QED BY <2>2, <2>3
<1>4. IsFiniteSet(1 .. L)
  <2>1. 1 \in Int /\ L \in Int
    BY <1>1
  <2> HIDE DEF L
  <2> QED BY <2>1, FS_Interval
<1> HIDE DEF f, L
<1>5. Total(1 .. L, f) = Cardinality(Units(1 .. L, f))
  BY <1>3, <1>4, TotalIsUnits
<1> QED BY <1>1, <1>3, <1>5, FS_EmptySet

\* CALLDATALOAD reads a word of the data, zero behind its end.
LEMMA DataWordMeans ==
  ASSUME NEW pos \in Nat
  PROVE  DataWord(pos) = M!Numeral(M!Slice(CallData, pos, WordBytes))
<1>1. CallData \in Seq(Byte) /\ WordBytes \in Nat
  BY EnvironmentAssumption, Sizes
<1>2. PICK bytes \in Seq(Byte) : /\ bytes = M!Slice(CallData, pos, WordBytes)
                                 /\ bytes = DataSlice(CallData, pos, WordBytes)
                                 /\ Len(bytes) = WordBytes
  BY <1>1, SliceIs, DataSliceType
<1>3. M!Numeral(bytes) = FromBytes(bytes)
  <2>1. Len(bytes) <= WordBytes
    BY <1>1, <1>2
  <2> QED BY <2>1, NumeralMeans
<1>4. CASE pos > Len(CallData)
  <2>1. ASSUME NEW n \in 1 .. Len(bytes) PROVE bytes[n] = 0
    <3>1. n \in 1 .. WordBytes /\ ~(pos + n - 1 < Len(CallData))
      BY <1>1, <1>2, <1>4
    <3>2. bytes[n] = M!At(CallData, pos + n - 1)
      BY <1>2, <3>1 DEF M!Slice
    <3> QED BY <3>1, <3>2 DEF M!At
  <2>2. FromBytes(bytes) = 0
    BY <1>1, <1>2, <2>1, ZerosAreNothing
  <2> QED BY <1>2, <1>3, <1>4, <2>2 DEF DataWord
<1>5. CASE ~(pos > Len(CallData))
  BY <1>2, <1>3, <1>5 DEF DataWord
<1> QED BY <1>4, <1>5

\* What the handlers that ask the environment push.
KnowingOps == EnvOps \cup LookupOps \cup SizeOps \cup {"CALLDATALOAD", "PC", "MSIZE", "GAS"}

LEMMA KnowMaps ==
  ASSUME Typed, Matched, HashesAreWords, SizesFit, NEW op \in KnowingOps, PushResult(op)
  PROVE  Accepted(op) /\ M!Know
<1>1. op \in PushingOps /\ Regions(op) = {}
  BY RegionsOf DEF PushingOps, KnowingOps, EnvOps, LookupOps, SizeOps, CopyOps, CallOps
<1>2. PICK word : word = Pushed(op)
  OBVIOUS
<1>3. /\ Accepted(op) /\ M!Op = op /\ word \in Word
      /\ M!Replace(<<word>>, {}) /\ M!Onwards /\ M!Quiet
  <2>1. {} = Regions(op)
    BY <1>1
  <2> QED BY <1>1, <1>2, <2>1, PushResultMaps
<1>4. M!Pushes(word)
  BY <1>3 DEF M!Pushes
<1>5. M!Known = EnvOps /\ M!Asked = LookupOps \ {"BLOCKHASH"} /\ M!Word = Word
  BY SameSets, SignedWords
<1>6. ASSUME op \in LookupOps \cup {"CALLDATALOAD"}
      PROVE  Top(1) \in Word /\ Top(1) \in Nat /\ Reverse(stack)[1] = Top(1)
  BY <1>3, <1>6, PopsOf, TopsAre
<1>7. CASE op \in EnvOps
  <2>1. word = Env[M!Op]
    BY <1>2, <1>3, <1>7, PushedOf
  <2>2. M!Pushes(Env[M!Op])
    BY <1>4, <2>1
  <2> QED BY <1>3, <1>5, <1>7, <2>2 DEF M!Know
<1>8. CASE op \in LookupOps \ {"BLOCKHASH"}
  <2>1. word = Lookup[M!Op][Reverse(stack)[1]]
    BY <1>2, <1>3, <1>6, <1>8, PushedOf
  <2>2. M!Pushes(Lookup[M!Op][Reverse(stack)[1]])
    BY <1>4, <2>1
  <2> QED BY <1>3, <1>5, <1>8, <2>2 DEF M!Know
<1>9. CASE op = "BLOCKHASH"
  <2>1. PICK t \in Nat : t = Top(1) /\ t = Reverse(stack)[1]
    BY <1>6, <1>9 DEF LookupOps
  <2>2. PICK m \in Nat : m = Env["NUMBER"]
    <3>1. Env["NUMBER"] \in Word
      BY EnvironmentAssumption DEF EnvOps
    <3> QED BY <3>1, WordType
  <2>3. word = IF m - t > 256 \/ m - t <= 0 THEN 0 ELSE Lookup["BLOCKHASH"][t]
    BY <1>2, <1>9, <2>1, <2>2, PushedOf DEF BlockHash
  <2>4. t \in m - 256 .. m - 1 <=> ~(m - t > 256 \/ m - t <= 0)
    OBVIOUS
  <2>5. word = IF t \in m - 256 .. m - 1 THEN Lookup[M!Op][t] ELSE 0
    BY <1>3, <1>9, <2>3, <2>4
  <2>6. word = IF Reverse(stack)[1] \in Env["NUMBER"] - 256 .. Env["NUMBER"] - 1
               THEN Lookup[M!Op][Reverse(stack)[1]] ELSE 0
    BY <2>1, <2>2, <2>5
  <2>7. M!Pushes(IF Reverse(stack)[1] \in Env["NUMBER"] - 256 .. Env["NUMBER"] - 1
                 THEN Lookup[M!Op][Reverse(stack)[1]] ELSE 0)
    BY <1>4, <2>6
  <2> QED BY <1>3, <1>9, <2>7 DEF M!Know
<1>10. CASE op = "CALLDATALOAD"
  <2>1. word = M!Numeral(M!Slice(CallData, Reverse(stack)[1], WordBytes))
    BY <1>2, <1>6, <1>10, PushedOf, DataWordMeans
  <2>2. M!Pushes(M!Numeral(M!Slice(CallData, Reverse(stack)[1], WordBytes)))
    BY <1>4, <2>1
  <2> QED BY <1>3, <1>10, <2>2 DEF M!Know
<1>11. CASE op \in SizeOps
  <2>1. /\ op = "CALLDATASIZE" => M!Pushes(Len(CallData))
        /\ op = "CODESIZE" => M!Pushes(Len(job.code))
        /\ op = "RETURNDATASIZE" => M!Pushes(Len(lastReturned))
    BY <1>2, <1>4, PushedOf
  <2> QED BY <1>3, <1>11, <2>1 DEF M!Know, SizeOps
<1>12. CASE op \in {"PC", "MSIZE"}
  <2>1. /\ op = "PC" => M!Pushes(programCounter)
        /\ op = "MSIZE" => M!Pushes(memoryWordCount * WordBytes)
    BY <1>2, <1>4, PushedOf
  <2> QED BY <1>3, <1>12, <2>1 DEF M!Know
<1>13. CASE op = "GAS"
  <2>1. word \in M!Word /\ M!Pushes(word)
    BY <1>3, <1>4, <1>5
  <2> QED BY <1>3, <1>13, <2>1 DEF M!Know
<1> QED BY <1>3, <1>7, <1>8, <1>9, <1>10, <1>11, <1>12, <1>13 DEF KnowingOps

LEMMA LookMaps ==
  ASSUME Typed, Matched, HashesAreWords, SizesFit, Addresses = Nat,
         NEW op \in {"MLOAD", "SHA3"}, PushResult(op)
  PROVE  Accepted(op) /\ M!Look
<1>1. op \in PushingOps
  BY DEF PushingOps
<1>2. PICK word, accesses : word = Pushed(op) /\ accesses = Regions(op)
  OBVIOUS
<1>3. /\ Accepted(op) /\ M!Op = op
      /\ M!Replace(<<word>>, accesses) /\ M!Onwards /\ M!Quiet
  BY <1>1, <1>2, PushResultMaps
<1>4. memory \in Seq(Byte) /\ WordBytes \in Nat
  BY Sizes DEF Typed, TypeOK
<1>5. PICK t \in Nat : t = Top(1) /\ t = Reverse(stack)[1]
  BY <1>3, PopsOf, TopsAre
<1>6. CASE op = "MLOAD"
  <2>1. accesses = {<<Reverse(stack)[1], WordBytes>>}
    BY <1>2, <1>5, <1>6, RegionsOf
  <2>2. PICK bytes \in Seq(Byte) : /\ bytes = Read(memory, t, WordBytes)
                                   /\ bytes = M!Loaded(t, WordBytes) /\ Len(bytes) = WordBytes
    BY <1>4, LoadedIs, ReadType
  <2>3. FromBytes(bytes) = M!Numeral(bytes)
    <3>1. Len(bytes) <= WordBytes
      BY <1>4, <2>2
    <3> QED BY <3>1, NumeralMeans
  <2>4. word = FromBytes(bytes)
    BY <1>2, <1>5, <1>6, <2>2, PushedOf
  <2>5. word = M!Numeral(M!Loaded(Reverse(stack)[1], WordBytes))
    BY <1>5, <2>2, <2>3, <2>4
  <2>6. M!Replace(<<M!Numeral(M!Loaded(Reverse(stack)[1], WordBytes))>>,
                  {<<Reverse(stack)[1], WordBytes>>})
    BY <1>3, <2>1, <2>5
  <2> QED BY <1>3, <1>6, <2>6 DEF M!Look
<1>7. CASE op = "SHA3"
  <2>1. PICK u \in Nat : u = Top(2) /\ u = Reverse(stack)[2]
    BY <1>3, <1>7, PopsOf, TopsAre
  <2>2. accesses = {<<Reverse(stack)[1], Reverse(stack)[2]>>}
    BY <1>2, <1>5, <1>7, <2>1, RegionsOf
  <2>3. M!Loaded(t, u) = Read(memory, t, u)
    BY <1>4, LoadedIs
  <2>4. word = Keccak(M!Loaded(Reverse(stack)[1], Reverse(stack)[2]))
    BY <1>2, <1>5, <1>7, <2>1, <2>3, PushedOf
  <2>5. M!Replace(<<Keccak(M!Loaded(Reverse(stack)[1], Reverse(stack)[2]))>>,
                  {<<Reverse(stack)[1], Reverse(stack)[2]>>})
    BY <1>3, <2>2, <2>4
  <2> QED BY <1>3, <1>7, <2>5 DEF M!Look
<1> QED BY <1>3, <1>6, <1>7

\* A sequence after another, by its items.
Follows(joined, one, other) ==
  /\ Len(joined) = Len(one) + Len(other)
  /\ \A i \in Nat \ {0} :
       /\ i <= Len(one) => joined[i] = one[i]
       /\ i > Len(one) /\ i <= Len(one) + Len(other) => joined[i] = other[i - Len(one)]

----------------------------------------------------------------------------
(* DUP and SWAP: the items of the stack, from its top.                     *)

LEMMA JoinedFollows ==
  ASSUME NEW X, NEW one \in Seq(X), NEW other \in Seq(X)
  PROVE  \E joined \in Seq(X) : joined = one \o other /\ Follows(joined, one, other)
<1>1. PICK joined \in Seq(X) : joined = one \o other
  BY Concatenated
<1>2. Follows(joined, one, other)
  BY <1>1, Concatenated DEF Follows
<1> QED BY <1>1, <1>2

\* The item at place n before all the items.
LEMMA DuplicateIs ==
  ASSUME NEW X, NEW r \in Seq(X), NEW l \in Nat, l = Len(r), NEW n \in Nat \ {0}, n <= l
  PROVE  <<r[n]>> \o r = (<<r[n]>> \o SubSeq(r, 1, n)) \o SubSeq(r, n + 1, l)
<1>1. PICK a \in Seq(X) : a = <<r[n]>> /\ Len(a) = 1 /\ a[1] = r[n]
  <2>1. r[n] \in X
    OBVIOUS
  <2> QED BY <2>1, Single
<1>2. PICK b \in Seq(X) : /\ b = SubSeq(r, 1, n) /\ Len(b) = n
                          /\ \A i \in Nat \ {0} : i <= n => b[i] = r[i]
  <2>1. /\ SubSeq(r, 1, n) \in Seq(X) /\ Len(SubSeq(r, 1, n)) = n + 1 - 1
        /\ \A i \in Nat \ {0} : i <= n + 1 - 1 => SubSeq(r, 1, n)[i] = r[1 + i - 1]
    BY PartOf
  <2>2. n + 1 - 1 = n /\ \A i \in Nat : 1 + i - 1 = i
    OBVIOUS
  <2>3. PICK b \in Seq(X) : b = SubSeq(r, 1, n)
    BY <2>1
  <2>4. Len(b) = n
    BY <2>1, <2>2, <2>3
  <2>5. ASSUME NEW i \in Nat \ {0}, i <= n PROVE b[i] = r[i]
    BY <2>1, <2>2, <2>3, <2>5
  <2> QED BY <2>3, <2>4, <2>5
<1>3. PICK d \in Seq(X) : /\ d = SubSeq(r, n + 1, l) /\ Len(d) = l - n
                          /\ \A i \in Nat \ {0} : i <= l - n => d[i] = r[n + i]
  <2>1. n + 1 \in Nat \ {0} /\ n + 1 <= l + 1
    OBVIOUS
  <2>2. /\ SubSeq(r, n + 1, l) \in Seq(X) /\ Len(SubSeq(r, n + 1, l)) = l + 1 - (n + 1)
        /\ \A i \in Nat \ {0} : i <= l + 1 - (n + 1) => SubSeq(r, n + 1, l)[i] = r[(n + 1) + i - 1]
    BY <2>1, PartOf
  <2>3. l + 1 - (n + 1) = l - n /\ \A i \in Nat : (n + 1) + i - 1 = n + i
    OBVIOUS
  <2>4. PICK d \in Seq(X) : d = SubSeq(r, n + 1, l)
    BY <2>2
  <2>5. Len(d) = l - n
    BY <2>2, <2>3, <2>4
  <2>6. ASSUME NEW i \in Nat \ {0}, i <= l - n PROVE d[i] = r[n + i]
    BY <2>2, <2>3, <2>4, <2>6
  <2> QED BY <2>4, <2>5, <2>6
<1>4. PICK ab \in Seq(X) : ab = a \o b /\ Follows(ab, a, b)
  BY JoinedFollows
<1>5. PICK t \in Seq(X) : t = ab \o d /\ Follows(t, ab, d)
  BY JoinedFollows
<1>6. PICK s \in Seq(X) : s = a \o r /\ Follows(s, a, r)
  BY JoinedFollows
<1>7. Len(s) = l + 1 /\ Len(t) = l + 1 /\ Len(ab) = n + 1
  <2>1. Len(ab) = n + 1
    BY <1>1, <1>2, <1>4 DEF Follows
  <2>2. Len(t) = (n + 1) + (l - n)
    BY <1>3, <1>5, <2>1 DEF Follows
  <2> QED BY <1>1, <1>6, <2>1, <2>2 DEF Follows
<1>8. ASSUME NEW i \in Nat \ {0}, i <= l + 1 PROVE s[i] = t[i]
  <2>1. CASE i = 1
    <3>1. s[i] = a[i] /\ ab[i] = a[i]
      BY <1>1, <1>4, <1>6, <2>1 DEF Follows
    <3>2. t[i] = ab[i]
      BY <1>5, <1>7, <2>1 DEF Follows
    <3> QED BY <3>1, <3>2
  <2>2. CASE i # 1
    <3>0. i > 1 /\ i - 1 \in Nat \ {0} /\ i <= 1 + l
      BY <1>8, <2>2
    <3>1. s[i] = r[i - 1]
      BY <1>1, <1>6, <3>0 DEF Follows
    <3>2. CASE i <= n + 1
      <4>1. t[i] = ab[i]
        BY <1>5, <1>7, <3>2 DEF Follows
      <4>2. ab[i] = b[i - 1]
        BY <1>1, <1>2, <1>4, <3>0, <3>2 DEF Follows
      <4>3. b[i - 1] = r[i - 1]
        BY <1>2, <3>0, <3>2
      <4> QED BY <3>1, <4>1, <4>2, <4>3
    <3>3. CASE ~(i <= n + 1)
      <4>1. i > n + 1 /\ i <= (n + 1) + (l - n) /\ i - (n + 1) \in Nat \ {0}
            /\ i - (n + 1) <= l - n /\ n + (i - (n + 1)) = i - 1
        BY <1>8, <3>3
      <4>2. t[i] = d[i - (n + 1)]
        BY <1>3, <1>5, <1>7, <4>1 DEF Follows
      <4>3. d[i - (n + 1)] = r[i - 1]
        BY <1>3, <4>1
      <4> QED BY <3>1, <4>2, <4>3
    <3> QED BY <3>2, <3>3
  <2> QED BY <2>1, <2>2
<1>9. Alike(s, t)
  BY <1>7, <1>8 DEF Alike
<1>10. s = t
  BY <1>9, SameItems
<1> QED BY <1>1, <1>2, <1>3, <1>4, <1>5, <1>6, <1>10

\* The first item and the one at place n + 1 for each other.
Exchanged(s, r, l, n) ==
  \A i \in 1 .. l : s[i] = IF i = 1 THEN r[n + 1] ELSE IF i = n + 1 THEN r[1] ELSE r[i]

LEMMA ExchangeIs ==
  ASSUME NEW X, NEW r \in Seq(X), NEW l \in Nat, l = Len(r), NEW n \in Nat \ {0}, n + 1 <= l,
         NEW s \in Seq(X), Len(s) = l, Exchanged(s, r, l, n)
  PROVE  s = (<<r[n + 1]>> \o SubSeq(r, 2, n) \o <<r[1]>>) \o SubSeq(r, n + 2, l)
<1>1. PICK a \in Seq(X) : a = <<r[n + 1]>> /\ Len(a) = 1 /\ a[1] = r[n + 1]
  <2>1. r[n + 1] \in X
    OBVIOUS
  <2> QED BY <2>1, Single
<1>2. PICK c \in Seq(X) : c = <<r[1]>> /\ Len(c) = 1 /\ c[1] = r[1]
  <2>1. r[1] \in X
    OBVIOUS
  <2> QED BY <2>1, Single
<1>3. PICK b \in Seq(X) : /\ b = SubSeq(r, 2, n) /\ Len(b) = n - 1
                          /\ \A i \in Nat \ {0} : i <= n - 1 => b[i] = r[i + 1]
  <2>1. 2 \in Nat \ {0} /\ 2 <= n + 1 /\ n <= Len(r) /\ n \in Nat
    OBVIOUS
  <2>2. /\ SubSeq(r, 2, n) \in Seq(X) /\ Len(SubSeq(r, 2, n)) = n + 1 - 2
        /\ \A i \in Nat \ {0} : i <= n + 1 - 2 => SubSeq(r, 2, n)[i] = r[2 + i - 1]
    BY <2>1, PartOf
  <2>3. PICK b \in Seq(X) : b = SubSeq(r, 2, n)
    BY <2>2
  <2>4. Len(b) = n - 1
    BY <2>2, <2>3
  <2>5. ASSUME NEW i \in Nat \ {0}, i <= n - 1 PROVE b[i] = r[i + 1]
    <3>1. i <= n + 1 - 2 /\ 2 + i - 1 = i + 1
      BY <2>5
    <3> QED BY <2>2, <2>3, <3>1
  <2> QED BY <2>3, <2>4, <2>5
<1>4. PICK d \in Seq(X) : /\ d = SubSeq(r, n + 2, l) /\ Len(d) = l - (n + 1)
                          /\ \A i \in Nat \ {0} : i <= l - (n + 1) => d[i] = r[n + 1 + i]
  <2>1. n + 2 \in Nat \ {0} /\ n + 2 <= l + 1
    OBVIOUS
  <2>2. /\ SubSeq(r, n + 2, l) \in Seq(X) /\ Len(SubSeq(r, n + 2, l)) = l + 1 - (n + 2)
        /\ \A i \in Nat \ {0} : i <= l + 1 - (n + 2) => SubSeq(r, n + 2, l)[i] = r[(n + 2) + i - 1]
    BY <2>1, PartOf
  <2>3. PICK d \in Seq(X) : d = SubSeq(r, n + 2, l)
    BY <2>2
  <2>4. Len(d) = l - (n + 1)
    BY <2>2, <2>3
  <2>5. ASSUME NEW i \in Nat \ {0}, i <= l - (n + 1) PROVE d[i] = r[n + 1 + i]
    <3>1. i <= l + 1 - (n + 2) /\ (n + 2) + i - 1 = n + 1 + i
      BY <2>5
    <3> QED BY <2>2, <2>3, <3>1
  <2> QED BY <2>3, <2>4, <2>5
<1>5. PICK ab \in Seq(X) : ab = a \o b /\ Follows(ab, a, b)
  BY JoinedFollows
<1>6. PICK abc \in Seq(X) : abc = ab \o c /\ Follows(abc, ab, c)
  BY JoinedFollows
<1>7. PICK t \in Seq(X) : t = abc \o d /\ Follows(t, abc, d)
  BY JoinedFollows
<1>8. Len(ab) = n /\ Len(abc) = n + 1 /\ Len(t) = l
  <2>1. Len(ab) = n
    BY <1>1, <1>3, <1>5 DEF Follows
  <2>2. Len(abc) = n + 1
    BY <1>2, <1>6, <2>1 DEF Follows
  <2>3. Len(t) = (n + 1) + (l - (n + 1))
    BY <1>4, <1>7, <2>2 DEF Follows
  <2> QED BY <2>1, <2>2, <2>3
<1>9. ASSUME NEW i \in Nat \ {0}, i <= l PROVE s[i] = t[i]
  <2>0. i \in 1 .. l
    BY <1>9
  <2>1. CASE i = 1
    <3>1. ab[i] = a[i]
      BY <1>1, <1>5, <2>1 DEF Follows
    <3>2. abc[i] = ab[i]
      BY <1>6, <1>8, <2>1 DEF Follows
    <3>3. t[i] = abc[i]
      BY <1>7, <1>8, <2>1 DEF Follows
    <3> QED BY <1>1, <2>0, <2>1, <3>1, <3>2, <3>3 DEF Exchanged
  <2>2. CASE i > 1 /\ i <= n
    <3>1. ab[i] = b[i - 1]
      BY <1>1, <1>3, <1>5, <2>2 DEF Follows
    <3>2. abc[i] = ab[i]
      BY <1>6, <1>8, <2>2 DEF Follows
    <3>3. t[i] = abc[i]
      BY <1>7, <1>8, <2>2 DEF Follows
    <3>4. i - 1 \in Nat \ {0} /\ i - 1 <= n - 1 /\ (i - 1) + 1 = i
      BY <2>2
    <3>5. b[i - 1] = r[i]
      BY <1>3, <3>4
    <3>6. i # 1 /\ i # n + 1
      BY <2>2
    <3> QED BY <2>0, <3>1, <3>2, <3>3, <3>5, <3>6 DEF Exchanged
  <2>3. CASE i = n + 1
    <3>1. i - n = 1 /\ i > n /\ i <= n + 1
      BY <2>3
    <3>2. abc[i] = c[1]
      BY <1>2, <1>6, <1>8, <3>1 DEF Follows
    <3>3. t[i] = abc[i]
      BY <1>7, <1>8, <3>1 DEF Follows
    <3>4. i # 1
      BY <2>3
    <3> QED BY <1>2, <2>0, <2>3, <3>2, <3>3, <3>4 DEF Exchanged
  <2>4. CASE i > n + 1
    <3>1. i <= (n + 1) + (l - (n + 1)) /\ i - (n + 1) \in Nat \ {0}
          /\ i - (n + 1) <= l - (n + 1) /\ n + 1 + (i - (n + 1)) = i
      BY <1>9, <2>4
    <3>2. t[i] = d[i - (n + 1)]
      BY <1>4, <1>7, <1>8, <2>4, <3>1 DEF Follows
    <3>3. d[i - (n + 1)] = r[i]
      BY <1>4, <3>1
    <3>4. i # 1 /\ i # n + 1
      BY <2>4
    <3> QED BY <2>0, <3>2, <3>3, <3>4 DEF Exchanged
  <2> QED BY <2>0, <2>1, <2>2, <2>3, <2>4
<1>10. Alike(s, t)
  BY <1>8, <1>9 DEF Alike
<1>11. s = t
  BY <1>10, SameItems
<1> QED BY <1>1, <1>2, <1>3, <1>4, <1>5, <1>6, <1>7, <1>11

----------------------------------------------------------------------------
(* Each handler is a step of the machine.                                  *)

LEMMA ExecutesReplaces ==
  ASSUME Typed, Matched, NEW op \in HandledOps, Executes(op),
         NEW pushed, NEW accesses, accesses = Regions(op),
         Reverse(stack') = pushed \o SubSeq(Reverse(stack), Needs(op) + 1, Len(stack))
  PROVE  Accepted(op) /\ M!Op = op /\ M!Replace(pushed, accesses)
<1>1. Accepted(op) /\ memoryWordCount' = WordsTouched(op) /\ job' = job /\ Op = op
  BY DEF Executes, Accepted
<1> QED BY <1>1, Replaced, SameInstruction

\* A handler that pops what it needs and pushes nothing.
LEMMA PoppingReplaces ==
  ASSUME Typed, Matched, NEW op \in HandledOps, Executes(op), op \notin {"DUP", "SWAP"},
         stack' = Popped(Pops(op)), NEW accesses, accesses = Regions(op)
  PROVE  Accepted(op) /\ M!Op = op /\ M!Replace(<<>>, accesses)
<1>1. Accepted(op)
  BY DEF Executes, Accepted
<1>2. Pops(op) \in Nat /\ Pops(op) <= Len(stack) /\ Needs(op) = Pops(op)
  BY <1>1, AcceptedFacts DEF Needs
<1>3. Reverse(stack') = <<>> \o SubSeq(Reverse(stack), Needs(op) + 1, Len(stack))
  BY <1>2, NothingPushed
<1> QED BY <1>3, ExecutesReplaces

LEMMA PopMaps ==
  ASSUME Typed, Matched, Pop PROVE Accepted("POP") /\ M!Arrange
<1>1. /\ Executes("POP") /\ stack' = Popped(Pops("POP")) /\ Continues /\ exception' = exception
      /\ UNCHANGED <<memory, lastReturned, logs, returnValue>> /\ "POP" \in HandledOps
  BY PopsOf DEF Pop, Executes, HandledOps
<1>2. {} = Regions("POP")
  BY RegionsOf DEF CopyOps, CallOps
<1>3. Accepted("POP") /\ M!Op = "POP" /\ M!Replace(<<>>, {})
  BY <1>1, <1>2, PoppingReplaces
<1> QED BY <1>1, <1>3, ContinuesOn, SameMemory DEF M!Arrange

LEMMA DupMaps ==
  ASSUME Typed, Matched, Dup PROVE Accepted("DUP") /\ M!Arrange
<1>1. /\ Executes("DUP") /\ stack' = Append(stack, Top(OpWidth)) /\ Continues
      /\ exception' = exception /\ Accepted("DUP")
      /\ UNCHANGED <<memory, lastReturned, logs, returnValue>> /\ "DUP" \in HandledOps
  BY DEF Dup, Executes, HandledOps, Accepted
<1>2. OpWidth \in Nat \ {0}
  <2>1. CodeByte(programCounter) \in 0 .. 255
    BY <1>1, JobFacts DEF Typed, IInv, Accepted, Running
  <2>2. CodeByte(programCounter) \in 128 .. 143
    <3>1. Name(job.fork, CodeByte(programCounter)) = "DUP"
      BY <1>1 DEF Accepted, Op, CodeName
    <3> QED BY <2>1, <3>1, DupByte
  <2> QED BY <2>2 DEF OpWidth, Width
<1>3. Needs("DUP") = OpWidth /\ OpWidth <= Len(stack)
  BY <1>1, AcceptedFacts DEF Needs
<1>4. PICK n \in Nat \ {0}, l \in Nat : n = OpWidth /\ l = Len(stack) /\ n <= l
  BY <1>1, <1>2, <1>3, AcceptedFacts
<1>5. PICK r \in Seq(Word) : r = Reverse(stack) /\ Len(r) = l /\ r[n] = Top(n)
  BY <1>4, TopIs
<1>6. Reverse(stack') = <<r[n]>> \o r
  <2>1. stack \in Seq(Word) /\ r[n] \in Word
    BY <1>4, <1>5 DEF Typed, TypeOK
  <2>2. Reverse(Append(stack, r[n])) = <<r[n]>> \o Reverse(stack)
    BY <2>1, ReversedAppend
  <2> QED BY <1>1, <1>4, <1>5, <2>2
<1>7. Reverse(stack') = (<<r[n]>> \o SubSeq(r, 1, n)) \o SubSeq(r, n + 1, l)
  <2>1. r \in Seq(Word) /\ l = Len(r) /\ l \in Nat /\ n \in Nat \ {0} /\ n <= l
    BY <1>4, <1>5
  <2>2. <<r[n]>> \o r = (<<r[n]>> \o SubSeq(r, 1, n)) \o SubSeq(r, n + 1, l)
    BY ONLY <2>1, DuplicateIs
  <2> QED BY <1>6, <2>2
<1>8. PICK pushed : pushed = <<r[n]>> \o SubSeq(r, 1, n)
  OBVIOUS
<1>9. {} = Regions("DUP")
  BY RegionsOf DEF CopyOps, CallOps
<1>10. M!Op = "DUP" /\ M!Replace(pushed, {})
  <2>1. Reverse(stack') = pushed \o SubSeq(Reverse(stack), Needs("DUP") + 1, Len(stack))
    BY <1>3, <1>4, <1>5, <1>7, <1>8
  <2> QED BY <1>1, <1>9, <2>1, ExecutesReplaces
<1>11. M!N = n
  BY <1>4, SameInstruction
<1>12. pushed = <<Reverse(stack)[M!N]>> \o SubSeq(Reverse(stack), 1, M!N)
  BY <1>5, <1>8, <1>11
<1>13. M!Replace(<<Reverse(stack)[M!N]>> \o SubSeq(Reverse(stack), 1, M!N), {})
  BY <1>10, <1>12
<1> QED BY <1>1, <1>10, <1>13, ContinuesOn, SameMemory DEF M!Arrange

LEMMA SwapByte ==
  ASSUME NEW fork, NEW byte \in 0 .. 255, Name(fork, byte) = "SWAP"
  PROVE  byte \in 144 .. 159
<1> DEFINE Other(name) == name # "SWAP"
<1>1. /\ \A n \in 1 .. 12 : Other(Row0[n])
      /\ \A n \in 1 .. 14 : Other(Row1[n])
      /\ \A n \in 1 .. 16 : Other(Row3[n])
      /\ \A n \in 1 .. 6 : Other(Row4[n])
      /\ \A n \in 1 .. 2 : Other(Row4Istanbul[n])
      /\ \A n \in 1 .. 12 : Other(Row5[n])
      /\ \A n \in 1 .. 6 : Other(RowF[n])
  BY DEF Row0, Row1, Row3, Row4, Row4Istanbul, Row5, RowF
<1>2. /\ byte \in 0 .. 11 => byte + 1 \in 1 .. 12
      /\ byte \in 16 .. 29 => byte - 15 \in 1 .. 14
      /\ byte \in 48 .. 63 => byte - 47 \in 1 .. 16
      /\ byte \in 64 .. 69 => byte - 63 \in 1 .. 6
      /\ byte \in 70 .. 71 => byte - 69 \in 1 .. 2
      /\ byte \in 80 .. 91 => byte - 79 \in 1 .. 12
      /\ byte \in 240 .. 245 => byte - 239 \in 1 .. 6
  OBVIOUS
<1> QED BY <1>1, <1>2 DEF Name

LEMMA SwapMaps ==
  ASSUME Typed, Matched, Swap PROVE Accepted("SWAP") /\ M!Arrange
<1>1. /\ Executes("SWAP") /\ stack' = Swapped(OpWidth) /\ Continues
      /\ exception' = exception /\ Accepted("SWAP")
      /\ UNCHANGED <<memory, lastReturned, logs, returnValue>> /\ "SWAP" \in HandledOps
  BY DEF Swap, Executes, HandledOps, Accepted
<1>2. OpWidth \in Nat \ {0}
  <2>1. CodeByte(programCounter) \in 0 .. 255
    BY <1>1, JobFacts DEF Typed, IInv, Accepted, Running
  <2>2. CodeByte(programCounter) \in 144 .. 159
    <3>1. Name(job.fork, CodeByte(programCounter)) = "SWAP"
      BY <1>1 DEF Accepted, Op, CodeName
    <3> QED BY <2>1, <3>1, SwapByte
  <2> QED BY <2>2 DEF OpWidth, Width
<1>3. Needs("SWAP") = OpWidth + 1 /\ OpWidth + 1 <= Len(stack)
  BY <1>1, AcceptedFacts DEF Needs
<1>4. PICK n \in Nat \ {0}, l \in Nat : n = OpWidth /\ l = Len(stack) /\ n + 1 <= l
  BY <1>1, <1>2, <1>3, AcceptedFacts
<1>5. PICK v \in Seq(Word) : v = stack
  BY DEF Typed, TypeOK
<1>6. PICK r \in Seq(Word) : /\ r = Reverse(stack) /\ Len(r) = l
                             /\ \A i \in 1 .. l : r[i] = v[l + 1 - i]
  <2>1. /\ Reverse(v) \in Seq(Word) /\ Len(Reverse(v)) = Len(v)
        /\ \A i \in 1 .. Len(v) : Reverse(v)[i] = v[Len(v) + 1 - i]
    BY Reversed
  <2> QED BY <1>4, <1>5, <2>1
<1>7. PICK w \in Seq(Word) : /\ w = Swapped(n) /\ Len(w) = l
                             /\ \A i \in 1 .. l : w[i] = IF i = l THEN v[l - n]
                                                         ELSE IF i = l - n THEN v[l] ELSE v[i]
  <2>1. l \in 1 .. l /\ l - n \in 1 .. l /\ l # l - n
    BY <1>4
  <2>2. v[l] \in Word /\ v[l - n] \in Word
    BY <1>4, <1>5, <2>1
  <2>3. Swapped(n) = [v EXCEPT ![l] = v[l - n], ![l - n] = v[l]]
    BY <1>4, <1>5 DEF Swapped
  <2>4. v \in [1 .. l -> Word]
    BY <1>4, <1>5
  <2>5. [v EXCEPT ![l] = v[l - n], ![l - n] = v[l]] \in [1 .. l -> Word]
    BY <2>2, <2>4
  <2>6. PICK w \in Seq(Word) : w = [v EXCEPT ![l] = v[l - n], ![l - n] = v[l]] /\ Len(w) = l
    <3>1. PICK w \in [1 .. l -> Word] : w = [v EXCEPT ![l] = v[l - n], ![l - n] = v[l]]
      BY <2>5
    <3>2. w \in Seq(Word) /\ Len(w) = l
      BY FiniteSequence
    <3> QED BY <3>1, <3>2
  <2>7. ASSUME NEW i \in 1 .. l
        PROVE  w[i] = IF i = l THEN v[l - n] ELSE IF i = l - n THEN v[l] ELSE v[i]
    BY <2>1, <2>4, <2>6
  <2> QED BY <2>3, <2>6, <2>7
<1>8. PICK s \in Seq(Word) : /\ s = Reverse(w) /\ Len(s) = l
                             /\ \A i \in 1 .. l : s[i] = w[l + 1 - i]
  <2>1. /\ Reverse(w) \in Seq(Word) /\ Len(Reverse(w)) = Len(w)
        /\ \A i \in 1 .. Len(w) : Reverse(w)[i] = w[Len(w) + 1 - i]
    BY Reversed
  <2> QED BY <1>7, <2>1
<1>9. ASSUME NEW i \in 1 .. l
      PROVE  s[i] = IF i = 1 THEN r[n + 1] ELSE IF i = n + 1 THEN r[1] ELSE r[i]
  <2>1. /\ l + 1 - i \in 1 .. l /\ (l + 1 - i = l <=> i = 1) /\ (l + 1 - i = l - n <=> i = n + 1)
        /\ 1 \in 1 .. l /\ n + 1 \in 1 .. l /\ l + 1 - 1 = l /\ l + 1 - (n + 1) = l - n
    <3>1. n + 1 <= l /\ i >= 1 /\ i <= l /\ i \in Nat
      BY <1>4
    <3>2. l + 1 - i \in 1 .. l /\ (l + 1 - i = l <=> i = 1) /\ (l + 1 - i = l - n <=> i = n + 1)
      BY ONLY <3>1, l \in Nat, n \in Nat \ {0}
    <3>3. 1 \in 1 .. l /\ n + 1 \in 1 .. l /\ l + 1 - 1 = l /\ l + 1 - (n + 1) = l - n
      BY ONLY <3>1, l \in Nat, n \in Nat \ {0}
    <3> QED BY ONLY <3>2, <3>3
  <2>2. s[i] = IF l + 1 - i = l THEN v[l - n] ELSE IF l + 1 - i = l - n THEN v[l] ELSE v[l + 1 - i]
    BY <1>7, <1>8, <2>1
  <2>3. r[1] = v[l] /\ r[n + 1] = v[l - n] /\ r[i] = v[l + 1 - i]
    BY <1>6, <2>1
  <2> QED BY <2>1, <2>2, <2>3
<1>10. s = (<<r[n + 1]>> \o SubSeq(r, 2, n) \o <<r[1]>>) \o SubSeq(r, n + 2, l)
  <2>1. Exchanged(s, r, l, n)
    BY <1>9 DEF Exchanged
  <2> QED BY <1>4, <1>6, <1>8, <2>1, ExchangeIs
<1>11. PICK pushed : pushed = <<r[n + 1]>> \o SubSeq(r, 2, n) \o <<r[1]>>
  OBVIOUS
<1>12. {} = Regions("SWAP")
  BY RegionsOf DEF CopyOps, CallOps
<1>13. M!Op = "SWAP" /\ M!Replace(pushed, {})
  <2>1. Needs("SWAP") + 1 = n + 2
    BY <1>3, <1>4
  <2>2. Reverse(stack') = s
    BY <1>1, <1>4, <1>7, <1>8
  <2>3. Reverse(stack') = pushed \o SubSeq(Reverse(stack), Needs("SWAP") + 1, Len(stack))
    BY <1>4, <1>6, <1>10, <1>11, <2>1, <2>2
  <2> QED BY <1>1, <1>12, <2>3, ExecutesReplaces
<1>14. M!N = n
  BY <1>4, SameInstruction
<1>15. pushed = <<Reverse(stack)[M!N + 1]>> \o SubSeq(Reverse(stack), 2, M!N)
                \o <<Reverse(stack)[1]>>
  BY <1>6, <1>11, <1>14
<1>16. M!Replace(<<Reverse(stack)[M!N + 1]>> \o SubSeq(Reverse(stack), 2, M!N)
                 \o <<Reverse(stack)[1]>>, {})
  BY <1>13, <1>15
<1> QED BY <1>1, <1>13, <1>16, ContinuesOn, SameMemory DEF M!Arrange

LEMMA JumpMaps ==
  ASSUME Typed, Matched, NEW op \in {"JUMP", "JUMPI", "JUMPDEST"}, Jump(op)
  PROVE  Accepted(op) /\ M!Go
<1>1. /\ Executes(op) /\ stack' = Popped(Pops(op)) /\ op \in HandledOps
      /\ programCounter' = (IF Jumps(op) THEN Top(1) ELSE programCounter + 1)
      /\ exception' = exception /\ status' = status
      /\ UNCHANGED <<memory, lastReturned, logs, returnValue>>
  BY DEF Jump, Executes, HandledOps
<1>2. {} = Regions(op)
  BY RegionsOf DEF CopyOps, CallOps
<1>3. Accepted(op) /\ M!Op = op /\ M!Replace(<<>>, {})
  BY <1>1, <1>2, PoppingReplaces
<1>4. /\ op \in {"JUMP", "JUMPI"} => Reverse(stack)[1] = Top(1)
      /\ op = "JUMPI" => Reverse(stack)[2] = Top(2)
  BY <1>3, PopsOf, TopsAre
<1>5. programCounter' = IF M!Op = "JUMP" \/ (M!Op = "JUMPI" /\ Reverse(stack)[2] # 0)
                        THEN Reverse(stack)[1] ELSE programCounter + 1
  BY <1>1, <1>3, <1>4 DEF Jumps
<1> QED BY <1>1, <1>3, <1>5, SameMemory DEF M!Go

\* A handler that pushes a value and asks for no memory.
LEMMA PushMaps ==
  ASSUME Typed, Matched, Push PROVE Accepted("PUSH") /\ M!PushData
<1> DEFINE end == Min({programCounter + 1 + OpWidth, Len(job.code)})
           taken == SubSeq(job.code, programCounter + 2, end)
           bytes == [n \in DOMAIN taken |-> taken[n] % 2 ^ ByteBits]
           data == [n \in 1 .. M!N |-> M!At(job.code, programCounter + n) % 2 ^ ByteBits]
           whole == programCounter + M!N < Len(job.code)
<1>1. /\ "PUSH" \in HandledOps /\ Executes("PUSH") /\ Accepted("PUSH")
      /\ stack' = Append(stack, FromBytes(bytes))
      /\ programCounter' = programCounter + 1 + OpWidth
      /\ UNCHANGED <<memory, lastReturned, logs, returnValue, status>> /\ exception' = exception
  BY DEF Push, Executes, Accepted, HandledOps
<1>2. PICK p \in Nat, l \in Nat, w \in Nat :
        p = programCounter /\ l = Len(job.code) /\ w = OpWidth /\ p < l /\ M!N = w
  BY <1>1, JobFacts, AcceptedFacts, SameInstruction DEF Typed, IInv, Accepted, Running
<1>3. w <= WordBytes
  <2>1. programCounter + 1 \in DOMAIN job.code
    BY <1>2, CodeType
  <2>2. Name(job.fork, job.code[programCounter + 1]) = "PUSH"
    BY <1>1 DEF Accepted, Op, CodeName, CodeByte
  <2>3. Width(job.code[programCounter + 1]) <= WordBytes
    BY <2>1, <2>2, JobAssumption DEF Typed, IInv
  <2> QED BY <1>2, <2>3 DEF OpWidth, CodeByte
<1>4. PICK e \in Nat : e = end /\ e = (IF p + 1 + w <= l THEN p + 1 + w ELSE l)
  BY <1>2, MinOfTwo
<1>5. bytes \in Seq(Byte) /\ Len(bytes) = IF p + 2 <= e THEN e - (p + 2) + 1 ELSE 0
  <2>0. e <= l /\ p + 2 \in Nat \ {0}
    <3> HIDE DEF bytes, end
    <3> QED BY <1>4
  <2>1. programCounter + 2 \in Nat \ {0} /\ end \in Nat /\ end <= Len(job.code)
    <3> HIDE DEF bytes, end
    <3> QED BY <1>2, <1>4, <2>0
  <2>2. /\ bytes \in Seq(Byte)
        /\ Len(bytes) = IF programCounter + 2 <= end THEN end - (programCounter + 2) + 1 ELSE 0
    BY <2>1, CodeBytesType
  <2> HIDE DEF bytes, end
  <2> QED BY <1>2, <1>4, <2>2
<1>6. PICK word \in Word : word = FromBytes(bytes)
  <2> HIDE DEF bytes
  <2>1. Len(bytes) <= WordBytes
    BY <1>2, <1>3, <1>4, <1>5, Sizes
  <2> QED BY <1>5, <2>1, FromBytesType
<1>7. whole => word = M!Numeral(data)
  <2> SUFFICES ASSUME whole PROVE word = M!Numeral(data)
    OBVIOUS
  <2>0. p + w < l
    BY <1>2
  <2>1. e = p + 1 + w /\ Len(bytes) = w
    <3> HIDE DEF bytes
    <3> QED BY <1>2, <1>4, <1>5, <2>0
  <2> DEFINE code == job.code
  <2>2. code \in Seq(Nat)
    <3> HIDE DEF code
    <3> QED BY CodeType, FiniteSequence DEF code
  <2>3. Len(taken) = w /\ \A n \in Nat \ {0} : n <= w => taken[n] = code[p + 1 + n]
    <3> HIDE DEF code
    <3>1. p + 2 \in Nat \ {0} /\ e <= Len(code) /\ p + 2 <= e + 1
      BY <1>2, <1>4, <2>1 DEF code
    <3>2. /\ Len(SubSeq(code, p + 2, e)) = e + 1 - (p + 2)
          /\ \A n \in Nat \ {0} : n <= e + 1 - (p + 2) =>
               SubSeq(code, p + 2, e)[n] = code[(p + 2) + n - 1]
      BY ONLY <2>2, <3>1, e \in Nat, PartOf
    <3>3. taken = SubSeq(code, p + 2, e)
      BY <1>2, <1>4 DEF code
    <3> HIDE DEF taken
    <3>4. e + 1 - (p + 2) = w /\ \A n \in Nat : (p + 2) + n - 1 = p + 1 + n
      BY <2>1
    <3>5. Len(taken) = w
      BY <3>2, <3>3, <3>4
    <3>6. ASSUME NEW n \in Nat \ {0}, n <= w PROVE taken[n] = code[p + 1 + n]
      <4>1. n <= e + 1 - (p + 2) /\ (p + 2) + n - 1 = p + 1 + n
        BY <2>1, <3>6
      <4> QED BY <3>2, <3>3, <4>1
    <3> QED BY <3>5, <3>6
  <2>4. DOMAIN taken = 1 .. w
    <3>1. taken \in Seq(Nat)
      <4>1. p + 2 \in Nat \ {0} /\ e <= Len(code) /\ p + 2 <= e + 1
        BY <1>2, <1>4, <2>1
      <4>2. SubSeq(code, p + 2, e) \in Seq(Nat)
        <5> HIDE DEF code
        <5> QED BY ONLY <2>2, <4>1, e \in Nat, PartOf
      <4> QED BY <1>2, <1>4, <4>2
    <3> HIDE DEF taken
    <3> QED BY <2>3, <3>1
  <2>5. ASSUME NEW n \in 1 .. w
        PROVE  taken[n] % 2 ^ ByteBits = M!At(job.code, programCounter + n) % 2 ^ ByteBits
    <3>1. n \in Nat \ {0} /\ n <= w /\ p + n < l /\ (p + n) + 1 = p + 1 + n
      BY <2>0
    <3>2. M!At(job.code, programCounter + n) = code[p + 1 + n]
      BY <1>2, <3>1 DEF M!At
    <3>3. taken[n] = code[p + 1 + n]
      BY <2>3, <3>1
    <3> QED BY <3>2, <3>3
  <2>6. bytes = data
    <3> HIDE DEF taken
    <3> QED BY <1>2, <2>4, <2>5
  <2> HIDE DEF bytes, data
  <2>7. Len(bytes) <= WordBytes
    BY <1>3, <2>1
  <2> QED BY <1>5, <1>6, <2>6, <2>7, NumeralMeans
<1> HIDE DEF data, whole
<1>8. Needs("PUSH") = 0 /\ Pops("PUSH") = 0
  BY PopsOf DEF Needs
<1>9. Reverse(stack') = <<word>> \o SubSeq(Reverse(stack), Needs("PUSH") + 1, Len(stack))
  <2>1. stack \in Seq(Word) /\ Len(stack) \in Nat
    BY DEF Typed, TypeOK
  <2>2. Popped(0) = stack
    <3>1. PICK s \in Seq(Word) : s = Popped(0) /\ Len(s) = Len(stack)
      BY <2>1, PoppedType
    <3>2. ASSUME NEW i \in Nat \ {0}, i <= Len(s) PROVE s[i] = stack[i]
      <4>1. Len(stack) - 0 = Len(stack) /\ i <= Len(stack)
        BY <2>1, <3>1, <3>2
      <4>2. s = SubSeq(stack, 1, Len(stack))
        BY <3>1, <4>1 DEF Popped
      <4> QED BY <2>1, <4>1, <4>2
    <3>3. Alike(s, stack)
      BY <3>1, <3>2 DEF Alike
    <3> QED BY <2>1, <3>1, <3>3, SameItems
  <2>3. stack' = Append(Popped(0), word)
    <3> HIDE DEF bytes
    <3> QED BY <1>1, <1>6, <2>2
  <2>4. 0 \in Nat /\ 0 <= Len(stack)
    BY <2>1
  <2> QED BY <1>8, <2>3, <2>4, PushedOnto
<1>10. M!Op = "PUSH" /\ M!Replace(<<word>>, {})
  <2>1. {} = Regions("PUSH")
    BY RegionsOf DEF CopyOps, CallOps
  <2> QED BY <1>1, <1>9, <2>1, ExecutesReplaces
<1>11. word \in M!Word
  BY SignedWords
<1>12. programCounter' = programCounter + 1 + M!N
  BY <1>1, <1>2
<1> QED BY <1>1, <1>7, <1>10, <1>11, <1>12, SameMemory DEF M!PushData, data, whole

\* A handler that writes what it has charged.
LEMMA WriteMaps ==
  ASSUME Typed, Matched, Addresses = Nat, NEW op \in HandledOps, op \notin {"DUP", "SWAP"},
         Executes(op), Continues, stack' = Popped(Pops(op)),
         NEW offset \in Nat, NEW bytes \in Seq(Byte), Store(offset, bytes),
         Regions(op) = {<<offset, Len(bytes)>>},
         UNCHANGED <<lastReturned, logs, returnValue>>
  PROVE  Accepted(op) /\ M!Op = op /\ M!Write(offset, bytes)
<1>1. PICK accesses : accesses = Regions(op)
  OBVIOUS
<1>2. Accepted(op) /\ M!Op = op /\ M!Replace(<<>>, accesses)
  BY <1>1, PoppingReplaces
<1>3. M!Replace(<<>>, {<<offset, Len(bytes)>>})
  BY <1>1, <1>2
<1>4. exception' = exception
  BY DEF Executes
<1>5. M!Onwards
  BY <1>4, ContinuesOn
<1>6. MemoryOf(memory') = M!Overwrite(offset, bytes)
  BY OverwriteIs DEF Store, Typed, TypeOK
<1>7. [n \in Addresses |-> IF n < Len(memory') THEN memory'[n + 1] ELSE 0]
        = M!Overwrite(offset, bytes)
  BY <1>6 DEF MemoryOf
<1> QED BY <1>2, <1>3, <1>5, <1>7 DEF M!Write

LEMMA StoreWordMaps ==
  ASSUME Typed, Matched, Addresses = Nat, NEW op \in {"MSTORE", "MSTORE8"}, StoreWord(op)
  PROVE  Accepted(op) /\ M!Keep
<1> DEFINE bytes == IF op = "MSTORE" THEN ToBytes(Top(2)) ELSE <<Top(2) % 2 ^ ByteBits>>
<1>1. /\ op \in HandledOps /\ Executes(op) /\ Accepted(op) /\ Continues
      /\ Store(Top(1), bytes) /\ stack' = Popped(2)
      /\ UNCHANGED <<lastReturned, logs, returnValue>>
  BY DEF StoreWord, Executes, Accepted, HandledOps
<1>2. Pops(op) = 2
  BY PopsOf
<1>3. /\ Top(1) \in Nat /\ Top(2) \in Nat /\ Top(2) \in Word
      /\ Reverse(stack)[1] = Top(1) /\ Reverse(stack)[2] = Top(2)
  BY <1>1, <1>2, TopsAre
<1>4. bytes \in Seq(Byte) /\ Regions(op) = {<<Top(1), Len(bytes)>>}
  <2>1. CASE op = "MSTORE"
    <3>1. ToBytes(Top(2)) \in Seq(Byte) /\ Len(ToBytes(Top(2))) = WordBytes
      BY <1>3, ToBytesType
    <3>2. Regions(op) = {<<Top(1), WordBytes>>}
      BY <2>1, RegionsOf
    <3> QED BY <2>1, <3>1, <3>2
  <2>2. CASE op = "MSTORE8"
    <3>1. PICK byte \in Byte : byte = Top(2) % 2 ^ ByteBits
      BY <1>3, ByteType
    <3>2. <<byte>> \in Seq(Byte) /\ Len(<<byte>>) = 1
      OBVIOUS
    <3>3. Regions(op) = {<<Top(1), 1>>}
      BY <2>2, RegionsOf
    <3> QED BY <2>2, <3>1, <3>2, <3>3
  <2> QED BY <2>1, <2>2
<1>5. bytes = IF op = "MSTORE" THEN M!Digits(Reverse(stack)[2])
              ELSE <<Reverse(stack)[2] % 2 ^ ByteBits>>
  BY <1>3, DigitsAre
<1>6. PICK b \in Seq(Byte), offset \in Nat : b = bytes /\ offset = Top(1)
  BY <1>3, <1>4
<1> HIDE DEF bytes
<1>7. M!Op = op /\ M!Write(offset, b)
  <2>1. Store(offset, b) /\ Regions(op) = {<<offset, Len(b)>>} /\ stack' = Popped(Pops(op))
        /\ op \notin {"DUP", "SWAP"}
    BY <1>1, <1>2, <1>4, <1>6
  <2> QED BY <1>1, <2>1, WriteMaps
<1>8. CASE op = "MSTORE"
  <2>1. offset = Reverse(stack)[1] /\ b = M!Digits(Reverse(stack)[2])
    BY <1>3, <1>5, <1>6, <1>8
  <2>2. M!Write(Reverse(stack)[1], M!Digits(Reverse(stack)[2]))
    BY <1>7, <2>1 DEF M!Write
  <2> QED BY <1>1, <1>7, <1>8, <2>2 DEF M!Keep
<1>9. CASE op = "MSTORE8"
  <2>1. offset = Reverse(stack)[1] /\ b = <<Reverse(stack)[2] % 2 ^ ByteBits>>
    BY <1>3, <1>5, <1>6, <1>9
  <2>2. M!Write(Reverse(stack)[1], <<Reverse(stack)[2] % 2 ^ ByteBits>>)
    BY <1>7, <2>1 DEF M!Write
  <2> QED BY <1>1, <1>7, <1>9, <2>2 DEF M!Keep
<1> QED BY <1>8, <1>9

LEMMA DataOfIs ==
  ASSUME NEW op PROVE M!DataOf(op) = Source(op)
<1> DEFINE bytes == [n \in DOMAIN job.code |-> job.code[n] % 2 ^ ByteBits]
<1>1. Source(op) = CASE op = "CALLDATACOPY" -> CallData
                     [] op = "CODECOPY" -> bytes
                     [] op = "RETURNDATACOPY" -> lastReturned
                     [] op = "EXTCODECOPY" -> ExtCode
  BY Zenon DEF Source
<1>2. M!DataOf(op) = CASE op = "CALLDATACOPY" -> CallData
                       [] op = "CODECOPY" -> bytes
                       [] op = "RETURNDATACOPY" -> lastReturned
                       [] op = "EXTCODECOPY" -> ExtCode
  BY Zenon DEF M!DataOf
<1> QED BY <1>1, <1>2, Zenon

LEMMA CopyMaps ==
  ASSUME Typed, Matched, Addresses = Nat, NEW op \in CopyOps, Copy(op)
  PROVE  Accepted(op) /\ M!Keep
<1> DEFINE n == Pops(op)
<1>1. /\ op \in HandledOps /\ Executes(op) /\ Accepted(op) /\ Continues
      /\ Store(Top(n - 2), DataSlice(Source(op), Top(n - 1), Top(n)))
      /\ stack' = Popped(Pops(op)) /\ op \notin {"DUP", "SWAP"}
      /\ UNCHANGED <<lastReturned, logs, returnValue>>
  BY DEF Copy, Executes, Accepted, HandledOps, CopyOps
<1>2. n = IF op = "EXTCODECOPY" THEN 4 ELSE 3
  BY PopsOf
<1>3. PICK k \in {1, 2} : k = (IF op = "EXTCODECOPY" THEN 2 ELSE 1) /\ n = k + 2
  BY <1>2
<1>4. /\ Top(k) \in Nat /\ Top(k + 1) \in Nat /\ Top(k + 2) \in Nat
      /\ Reverse(stack)[k] = Top(k) /\ Reverse(stack)[k + 1] = Top(k + 1)
      /\ Reverse(stack)[k + 2] = Top(k + 2)
  <2>1. k \in Nat \ {0} /\ k + 1 \in Nat \ {0} /\ k + 2 \in Nat \ {0}
        /\ k <= Pops(op) /\ k + 1 <= Pops(op) /\ k + 2 <= Pops(op)
    BY <1>3
  <2> QED BY <1>1, <2>1, TopsAre
<1>5. PICK offset \in Nat, from \in Nat, size \in Nat :
        offset = Top(k) /\ from = Top(k + 1) /\ size = Top(k + 2)
  BY <1>4
<1>6. Top(n - 2) = offset /\ Top(n - 1) = from /\ Top(n) = size
  <2>1. n - 2 = k /\ n - 1 = k + 1
    BY <1>3
  <2> QED BY <1>3, <1>5, <2>1
<1>7. PICK b \in Seq(Byte) : /\ b = DataSlice(Source(op), from, size) /\ Len(b) = size
                             /\ b = M!Slice(Source(op), from, size)
  BY SourceType, DataSliceType, SliceIs
<1>8. Regions(op) = {<<offset, size>>}
  <2>1. CASE op = "EXTCODECOPY"
    BY <1>3, <1>5, <2>1, RegionsOf
  <2>2. CASE op # "EXTCODECOPY"
    BY <1>3, <1>5, <2>2, RegionsOf
  <2> QED BY <2>1, <2>2
<1>9. M!Op = op /\ M!Write(offset, b)
  <2>1. Store(offset, b) /\ Regions(op) = {<<offset, Len(b)>>}
    BY <1>1, <1>6, <1>7, <1>8
  <2> QED BY <1>1, <2>1, WriteMaps
<1>10. /\ offset = Reverse(stack)[k]
       /\ b = M!Slice(M!DataOf(M!Op), Reverse(stack)[k + 1], Reverse(stack)[k + 2])
  BY <1>4, <1>5, <1>7, <1>9, DataOfIs
<1>11. M!Write(Reverse(stack)[k],
               M!Slice(M!DataOf(M!Op), Reverse(stack)[k + 1], Reverse(stack)[k + 2]))
  BY <1>9, <1>10 DEF M!Write
<1>12. M!Op \in M!Copies /\ k = IF M!Op = "EXTCODECOPY" THEN 2 ELSE 1
  BY <1>3, <1>9, SameSets
<1>13. M!Keep
  <2> DEFINE j == IF M!Op = "EXTCODECOPY" THEN 2 ELSE 1
  <2>1. M!Write(Reverse(stack)[j],
                M!Slice(M!DataOf(M!Op), Reverse(stack)[j + 1], Reverse(stack)[j + 2]))
    <3>1. k = j
      BY <1>12
    <3> HIDE DEF j
    <3> QED BY <1>11, <3>1 DEF M!Write
  <2> QED BY <1>12, <2>1, Zenon DEF M!Keep
<1> QED BY <1>1, <1>13

LEMMA LogMaps ==
  ASSUME Typed, Matched, Addresses = Nat, Log PROVE Accepted("LOG") /\ M!Announce
<1> DEFINE topics == [k \in 1 .. OpWidth |-> Top(k + 2)]
           r == Reverse(stack)
<1>1. /\ "LOG" \in HandledOps /\ Executes("LOG") /\ Accepted("LOG") /\ Continues
      /\ exception' = exception /\ stack' = Popped(Pops("LOG"))
      /\ UNCHANGED <<memory, lastReturned, returnValue>>
      /\ logs' = Append(logs, [topics |-> topics, data |-> Read(memory, Top(1), Top(2))])
  BY DEF Log, Executes, Accepted, HandledOps
<1>2. PICK l \in Nat, w \in Nat : l = Len(stack) /\ w = OpWidth /\ Pops("LOG") = 2 + w /\ 2 + w <= l
  BY <1>1, AcceptedFacts, PopsOf
<1>3. PICK a \in Nat, b \in Nat : /\ a = Top(1) /\ b = Top(2)
                                  /\ a = Reverse(stack)[1] /\ b = Reverse(stack)[2]
  <2>1. 1 <= Pops("LOG") /\ 2 <= Pops("LOG")
    BY <1>2
  <2> QED BY <1>1, <2>1, TopsAre
<1>4. PICK accesses : accesses = Regions("LOG")
  OBVIOUS
<1>5. M!Op = "LOG" /\ M!Replace(<<>>, accesses)
  BY <1>1, <1>4, PoppingReplaces
<1>6. accesses = {<<Reverse(stack)[1], Reverse(stack)[2]>>}
  BY <1>3, <1>4, RegionsOf
<1>7. M!Replace(<<>>, {<<Reverse(stack)[1], Reverse(stack)[2]>>})
  BY <1>5, <1>6
<1>8. Read(memory, Top(1), Top(2)) = M!Loaded(Reverse(stack)[1], Reverse(stack)[2])
  <2>1. memory \in Seq(Byte)
    BY DEF Typed, TypeOK
  <2>2. M!Loaded(a, b) = Read(memory, a, b)
    BY <2>1, LoadedIs
  <2> QED BY <1>3, <2>2
<1>9. topics = SubSeq(Reverse(stack), 3, M!N + 2)
  <2>1. r \in Seq(Word) /\ Len(r) = l /\ \A k \in Nat \ {0} : k <= l => r[k] = Top(k)
    BY <1>2, TopIs
  <2> HIDE DEF r
  <2>2. 3 \in Nat \ {0} /\ w + 2 \in Nat /\ w + 2 <= Len(r) /\ 3 <= (w + 2) + 1
        /\ (w + 2) + 1 - 3 = w
    BY <1>2, <2>1
  <2>3. PICK s \in Seq(Word) : /\ s = SubSeq(r, 3, w + 2) /\ Len(s) = w
                               /\ \A n \in Nat \ {0} : n <= w => s[n] = r[3 + n - 1]
    <3>1. PICK e \in Nat : e = w + 2
      OBVIOUS
    <3>2. e <= Len(r) /\ 3 <= e + 1 /\ e + 1 - 3 = w
      BY <2>2, <3>1
    <3>3. /\ SubSeq(r, 3, e) \in Seq(Word) /\ Len(SubSeq(r, 3, e)) = e + 1 - 3
          /\ \A n \in Nat \ {0} : n <= e + 1 - 3 => SubSeq(r, 3, e)[n] = r[3 + n - 1]
      BY ONLY <2>1, <2>2, <3>2, e \in Nat, PartOf
    <3>4. PICK s \in Seq(Word) : s = SubSeq(r, 3, e)
      BY <3>3
    <3> QED BY <3>1, <3>2, <3>3, <3>4
  <2>4. ASSUME NEW n \in 1 .. w PROVE Top(n + 2) = s[n] /\ s[n] \in Word
    <3>1. n \in Nat \ {0} /\ n <= w /\ 3 + n - 1 = n + 2 /\ n + 2 \in Nat \ {0} /\ n + 2 <= l
      BY <1>2
    <3>2. s[n] = r[n + 2]
      BY <2>3, <3>1
    <3> QED BY <2>1, <2>3, <3>1, <3>2
  <2>5. s = [n \in 1 .. w |-> s[n]]
    <3>1. s \in [1 .. w -> Word]
      BY <2>3, AsFunction
    <3> QED BY <3>1
  <2>6. topics = [n \in 1 .. w |-> Top(n + 2)]
    BY <1>2
  <2>7. topics = s
    BY ONLY <2>4, <2>5, <2>6
  <2> HIDE DEF topics
  <2>8. M!N = w
    BY <1>2, SameInstruction
  <2> QED BY <2>3, <2>7, <2>8 DEF r
<1> HIDE DEF topics, r
<1>10. logs' = Append(logs, [topics |-> SubSeq(Reverse(stack), 3, M!N + 2),
                             data |-> M!Loaded(Reverse(stack)[1], Reverse(stack)[2])])
  BY <1>1, <1>8, <1>9
<1>11. M!Onwards
  BY <1>1, ContinuesOn
<1>12. UNCHANGED <<[n \in Addresses |-> IF n < Len(memory) THEN memory[n + 1] ELSE 0],
                   lastReturned, returnValue>>
  BY <1>1
<1> QED BY <1>1, <1>5, <1>7, <1>10, <1>11, <1>12 DEF M!Announce

LEMMA FinishMaps ==
  ASSUME Typed, Matched, Addresses = Nat, NEW op \in {"STOP", "RETURN", "REVERT"}, Finish(op)
  PROVE  Accepted(op) /\ M!Finish
<1>1. /\ op \in HandledOps /\ Accepted(op) /\ memoryWordCount' = WordsTouched(op)
      /\ returnValue' = IF op = "STOP" THEN <<>> ELSE Read(memory, Top(1), Top(2))
      /\ exception' = IF op = "REVERT" THEN "REVERT" ELSE NoError
      /\ stack' = Popped(Pops(op)) /\ programCounter' = programCounter + 1
      /\ status' = "stopped" /\ status = "running" /\ Op = op
      /\ UNCHANGED <<job, memory, lastReturned, logs>>
  BY DEF Finish, Accepted, HandledOps, Running
<1>2. PICK accesses : accesses = Regions(op)
  OBVIOUS
<1>3. M!Replace(<<>>, accesses)
  <2>1. Pops(op) \in Nat /\ Pops(op) <= Len(stack) /\ Needs(op) = Pops(op)
    BY <1>1, AcceptedFacts DEF Needs
  <2>2. Reverse(stack') = <<>> \o SubSeq(Reverse(stack), Needs(op) + 1, Len(stack))
    BY <1>1, <2>1, NothingPushed
  <2> QED BY <1>1, <1>2, <2>2, Replaced
<1>4. M!Op = op
  BY <1>1, SameInstruction
<1>5. exception = NoError
  BY <1>1 DEF Matched
<1>6. exception' = IF M!Op = "REVERT" THEN "REVERT" ELSE exception
  BY <1>1, <1>4, <1>5
<1>7. UNCHANGED <<[n \in Addresses |-> IF n < Len(memory) THEN memory[n + 1] ELSE 0],
                  lastReturned, logs>>
  BY <1>1
<1>8. CASE op = "STOP"
  <2>1. accesses = {}
    BY <1>2, <1>8, RegionsOf DEF CopyOps, CallOps
  <2>2. M!Replace(<<>>, {})
    BY <1>3, <2>1
  <2> QED BY <1>1, <1>4, <1>6, <1>7, <1>8, <2>2 DEF M!Finish
<1>9. CASE op \in {"RETURN", "REVERT"}
  <2>1. PICK a \in Nat, b \in Nat : /\ a = Top(1) /\ b = Top(2)
                                    /\ a = Reverse(stack)[1] /\ b = Reverse(stack)[2]
    BY <1>1, <1>9, PopsOf, TopsAre
  <2>2. accesses = {<<Reverse(stack)[1], Reverse(stack)[2]>>}
    BY <1>2, <1>9, <2>1, RegionsOf
  <2>3. M!Replace(<<>>, {<<Reverse(stack)[1], Reverse(stack)[2]>>})
    BY <1>3, <2>2
  <2>4. memory \in Seq(Byte)
    BY DEF Typed, TypeOK
  <2>5. M!Loaded(a, b) = Read(memory, a, b)
    BY <2>4, LoadedIs
  <2>6. returnValue' = M!Loaded(Reverse(stack)[1], Reverse(stack)[2])
    BY <1>1, <1>9, <2>1, <2>5
  <2> QED BY <1>1, <1>4, <1>6, <1>7, <1>9, <2>3, <2>6 DEF M!Finish
<1> QED BY <1>8, <1>9

\* The beginning of data, as a slice and as a part.
LEMMA Beginning ==
  ASSUME NEW data \in Seq(Byte), NEW size \in Nat, size <= Len(data)
  PROVE  DataSlice(data, 0, size) = SubSeq(data, 1, size)
<1>1. PICK one \in Seq(Byte) : /\ one = DataSlice(data, 0, size) /\ Len(one) = size
                               /\ one = M!Slice(data, 0, size)
  <2>1. 0 \in Nat
    OBVIOUS
  <2> QED BY <2>1, DataSliceType, SliceIs
<1>2. PICK other \in Seq(Byte) : /\ other = SubSeq(data, 1, size) /\ Len(other) = size
                                 /\ \A n \in Nat \ {0} : n <= size => other[n] = data[n]
  <2>1. 1 \in Nat \ {0} /\ 1 <= size + 1 /\ size + 1 - 1 = size
    OBVIOUS
  <2>2. /\ SubSeq(data, 1, size) \in Seq(Byte) /\ Len(SubSeq(data, 1, size)) = size + 1 - 1
        /\ \A n \in Nat \ {0} : n <= size + 1 - 1 => SubSeq(data, 1, size)[n] = data[1 + n - 1]
    BY <2>1, PartOf
  <2>3. \A n \in Nat \ {0} : 1 + n - 1 = n
    OBVIOUS
  <2> QED BY <2>1, <2>2, <2>3
<1>3. ASSUME NEW n \in Nat \ {0}, n <= size PROVE one[n] = other[n]
  <2>1. n \in 1 .. size /\ 0 + n - 1 = n - 1 /\ n - 1 < Len(data) /\ (n - 1) + 1 = n
    BY <1>3
  <2>2. one[n] = M!At(data, 0 + n - 1)
    BY <1>1, <2>1 DEF M!Slice
  <2>3. M!At(data, n - 1) = data[n]
    BY <2>1 DEF M!At
  <2> QED BY <1>2, <1>3, <2>1, <2>2, <2>3
<1>4. Alike(one, other)
  BY <1>1, <1>2, <1>3 DEF Alike
<1> QED BY <1>1, <1>2, <1>4, SameItems

\* The machine hears of an answer what the caller does, whether it can be located or not.
LEMMA AnswerHeard ==
  ASSUME Typed, Matched, NEW op \in CallOps, NEW answer \in Answer,
         MessageAnswered(op, answer), NEW pushed,
         Reverse(stack') = pushed \o SubSeq(Reverse(stack), Needs(op) + 1, Len(stack))
  PROVE  /\ Accepted(op) /\ M!Hear(answer, pushed)
         /\ M!Lost(answer) <=> OutputInexact(answer)
<1>1. /\ op \in HandledOps /\ Accepted(op) /\ memoryWordCount' = WordsTouched(op)
      /\ lastReturned' = answer.data /\ logs' = logs \o answer.logs /\ Op = op
      /\ UNCHANGED <<job, returnValue>>
  BY DEF MessageAnswered, Accepted, HandledOps
<1>2. Pops(op) = 6
  BY PopsOf
<1>3. \A k \in Nat \ {0} : k <= 6 => Top(k) \in Nat /\ Reverse(stack)[k] = Top(k)
  BY <1>1, <1>2, TopsAre
<1>4. /\ Reverse(stack)[3] = Top(3) /\ Reverse(stack)[4] = Top(4)
      /\ Reverse(stack)[5] = Top(5) /\ Reverse(stack)[6] = Top(6)
  BY <1>3
<1>5. Regions(op) = {<<Reverse(stack)[3], Reverse(stack)[4]>>,
                     <<Reverse(stack)[5], Reverse(stack)[6]>>}
  BY <1>4, RegionsOf
<1>6. PICK accesses : accesses = Regions(op)
  OBVIOUS
<1>7. M!Replace(pushed, accesses)
  BY <1>1, <1>6, Replaced
<1>8. M!Replace(pushed, {<<Reverse(stack)[3], Reverse(stack)[4]>>,
                         <<Reverse(stack)[5], Reverse(stack)[6]>>})
  BY <1>5, <1>6, <1>7
<1>9. M!Op \in M!Subcalls
  BY <1>1, SameInstruction, SameSets
<1>10. M!Lost(answer) <=> OutputInexact(answer)
  BY <1>4 DEF M!Lost, M!Far, OutputInexact, Inexact
<1> QED BY <1>1, <1>8, <1>9, <1>10 DEF M!Hear

LEMMA CallMessageMaps ==
  ASSUME Typed, Matched, Addresses = Nat, NEW op \in CallOps, NEW answer \in Answer,
         CallMessage(op, answer)
  PROVE  Accepted(op) /\ M!Ask(answer)
<1> DEFINE size == Min({Len(answer.data), Top(6)})
<1>1. /\ MessageAnswered(op, answer) /\ ~OutputInexact(answer)
      /\ Accepted(op) /\ Continues /\ UNCHANGED exception
      /\ Store(Top(5), DataSlice(answer.data, 0, size))
      /\ stack' = Append(Popped(6), Flag(answer.success))
  BY DEF CallMessage, MessageAnswered, Accepted, HandledOps
<1>2. Pops(op) = 6 /\ Needs(op) = 6
  BY PopsOf DEF Needs, CallOps
<1>3. PICK c \in Nat, d \in Nat : /\ c = Top(5) /\ d = Top(6)
                                  /\ c = Reverse(stack)[5] /\ d = Reverse(stack)[6]
  <2>1. \A k \in Nat \ {0} : k <= 6 => Top(k) \in Nat /\ Reverse(stack)[k] = Top(k)
    BY <1>1, <1>2, TopsAre
  <2>2. Top(5) \in Nat /\ Reverse(stack)[5] = Top(5)
    BY <2>1
  <2>3. Top(6) \in Nat /\ Reverse(stack)[6] = Top(6)
    BY <2>1
  <2> QED BY <2>2, <2>3
<1>4. answer.data \in Seq(Byte) /\ Len(answer.data) \in Nat
  BY EnvironmentAssumption
<1>5. PICK s \in Nat : s = size /\ s <= Len(answer.data)
                       /\ s = M!Min({Reverse(stack)[6], Len(answer.data)})
  <2>1. size = IF Len(answer.data) <= d THEN Len(answer.data) ELSE d
    BY <1>3, <1>4, MinOfTwo
  <2>2. M!Min({Reverse(stack)[6], Len(answer.data)}) = Min({d, Len(answer.data)})
    BY <1>3 DEF M!Min, Min
  <2>3. {d, Len(answer.data)} = {Len(answer.data), Top(6)}
    BY <1>3
  <2>4. PICK l \in Nat : l = Len(answer.data)
    BY <1>4
  <2>5. PICK s \in Nat : s = (IF l <= d THEN l ELSE d) /\ s <= l
    OBVIOUS
  <2>6. size = s
    BY <2>1, <2>4, <2>5
  <2>7. M!Min({Reverse(stack)[6], Len(answer.data)}) = size
    BY <2>2, <2>3
  <2> HIDE DEF size
  <2> QED BY <2>4, <2>5, <2>6, <2>7
<1>6. PICK bytes \in Seq(Byte) :
        /\ bytes = DataSlice(answer.data, 0, s) /\ Len(bytes) = s
        /\ bytes = SubSeq(answer.data, 1, s)
  <2>1. 0 \in Nat
    OBVIOUS
  <2> QED BY <1>4, <1>5, <2>1, DataSliceType, Beginning
<1>7. PICK word \in Word : word = Flag(answer.success) /\ word = M!Truth(answer.success)
  BY WordType DEF Flag, M!Truth
<1>8. Reverse(stack') = <<word>> \o SubSeq(Reverse(stack), Needs(op) + 1, Len(stack))
  <2>1. 6 \in Nat /\ 6 <= Len(stack)
    BY <1>1, <1>2, AcceptedFacts
  <2> QED BY <1>1, <1>2, <1>7, <2>1, PushedOnto
<1>9. M!Hear(answer, <<word>>) /\ ~M!Lost(answer)
  BY <1>1, <1>8, AnswerHeard
<1>10. M!Hear(answer, <<M!Truth(answer.success)>>)
  BY <1>7, <1>9
<1>11. MemoryOf(memory') = M!Overwrite(c, bytes)
  <2>1. memory' = Written(Extended(memory, c, Len(bytes)), c, bytes)
    BY <1>1, <1>3, <1>5, <1>6 DEF Store
  <2>2. memory \in Seq(Byte)
    BY DEF Typed, TypeOK
  <2> QED BY <2>1, <2>2, OverwriteIs
<1>12. [n \in Addresses |-> IF n < Len(memory') THEN memory'[n + 1] ELSE 0]
         = M!Overwrite(Reverse(stack)[5],
             SubSeq(answer.data, 1, M!Min({Reverse(stack)[6], Len(answer.data)})))
  BY <1>3, <1>5, <1>6, <1>11 DEF MemoryOf
<1>13. M!Onwards
  BY <1>1, ContinuesOn
<1> HIDE DEF size
<1> QED BY <1>1, <1>9, <1>10, <1>12, <1>13 DEF M!Ask

LEMMA LoseAnswerMaps ==
  ASSUME Typed, Matched, NEW op \in CallOps, NEW answer \in Answer, LoseAnswer(op, answer)
  PROVE  Accepted(op) /\ M!Lose(answer)
<1>1. /\ MessageAnswered(op, answer) /\ OutputInexact(answer) /\ Accepted(op)
      /\ stack' = Popped(6) /\ programCounter' = programCounter + 1
      /\ exception' = "INEXACT" /\ status' = "stopped" /\ UNCHANGED memory
  BY DEF LoseAnswer, MessageAnswered, Accepted, HandledOps
<1>2. Pops(op) = 6 /\ Needs(op) = 6
  BY PopsOf DEF Needs, CallOps
<1>3. Reverse(stack') = <<>> \o SubSeq(Reverse(stack), Needs(op) + 1, Len(stack))
  <2>1. 6 \in Nat /\ 6 <= Len(stack)
    BY <1>1, <1>2, AcceptedFacts
  <2> QED BY <1>1, <1>2, <2>1, NothingPushed
<1>4. PICK pushed : pushed = <<>>
  OBVIOUS
<1>5. M!Hear(answer, pushed) /\ M!Lost(answer)
  BY <1>1, <1>3, <1>4, AnswerHeard
<1>6. M!Hear(answer, <<>>)
  BY <1>4, <1>5
<1>7. UNCHANGED [n \in Addresses |-> IF n < Len(memory) THEN memory[n + 1] ELSE 0]
  BY <1>1
<1> QED BY <1>1, <1>5, <1>6, <1>7 DEF M!Lose

\* Whatever a handler does, the machine can do.
LEMMA HandleMaps ==
  ASSUME Typed, Matched, HashesAreWords, SizesFit, Addresses = Nat, Handle
  PROVE  M!Next
<1>1. ASSUME NEW op \in PushingOps, PushResult(op) PROVE M!Next
  <2>1. CASE op \in ComputingOps
    BY <1>1, <2>1, ComputeMaps, PerformedSteps DEF Performed
  <2>2. CASE op \in KnowingOps
    BY <1>1, <2>2, KnowMaps, PerformedSteps DEF Performed
  <2>3. CASE op \in {"MLOAD", "SHA3"}
    BY <1>1, <2>3, LookMaps, PerformedSteps DEF Performed
  <2>4. op \in ComputingOps \cup KnowingOps \cup {"MLOAD", "SHA3"}
    BY DEF PushingOps, KnowingOps
  <2> QED BY <2>1, <2>2, <2>3, <2>4
<1>2. CASE Pop
  BY <1>2, PopMaps, PerformedSteps DEF Performed
<1>3. CASE Push
  BY <1>3, PushMaps, PerformedSteps DEF Performed
<1>4. CASE Dup
  BY <1>4, DupMaps, PerformedSteps DEF Performed
<1>5. CASE Swap
  BY <1>5, SwapMaps, PerformedSteps DEF Performed
<1>6. CASE Log
  BY <1>6, LogMaps, PerformedSteps DEF Performed
<1>7. ASSUME NEW op \in {"JUMP", "JUMPI", "JUMPDEST"}, Jump(op) PROVE M!Next
  BY <1>7, JumpMaps, PerformedSteps DEF Performed
<1>8. ASSUME NEW op \in {"MSTORE", "MSTORE8"}, StoreWord(op) PROVE M!Next
  BY <1>8, StoreWordMaps, PerformedSteps DEF Performed
<1>9. ASSUME NEW op \in CopyOps, Copy(op) PROVE M!Next
  BY <1>9, CopyMaps, PerformedSteps DEF Performed
<1>10. ASSUME NEW op \in {"STOP", "RETURN", "REVERT"}, Finish(op) PROVE M!Next
  BY <1>10, FinishMaps, PerformedSteps DEF Performed
<1>11. ASSUME NEW op \in CallOps, NEW answer \in Answer,
              CallMessage(op, answer) \/ LoseAnswer(op, answer)
       PROVE  M!Next
  BY <1>11, CallMessageMaps, LoseAnswerMaps, PerformedSteps DEF Performed
<1> QED BY <1>1, <1>2, <1>3, <1>4, <1>5, <1>6, <1>7, <1>8, <1>9, <1>10, <1>11 DEF Handle

----------------------------------------------------------------------------
(* Every step of a run is a step of the machine, or none.                  *)

\* A run that begins has the state it was given.
RestStays == UNCHANGED <<job, programCounter, runVars>>

LEMMA BeginMaps == ASSUME Typed, Matched, Start PROVE M!Next
<1>1. /\ status = "validating" /\ UNCHANGED <<job, programCounter, runVars, exception>>
      /\ status' = IF programCounter # 0 /\ programCounter \notin 0 .. Len(job.code) - 1
                   THEN "refused" ELSE "running"
  BY DEF Start
<1>2. status' = IF programCounter \in {0} \cup 0 .. Len(job.code) - 1
                THEN "running" ELSE "refused"
  BY <1>1
<1>3. M!Begin
  BY <1>1, <1>2 DEF M!Begin, runVars
<1> QED BY <1>3 DEF M!Next

LEMMA EndMaps == ASSUME EndOfCode PROVE M!Next
<1>1. M!End
  BY DEF EndOfCode, M!End, runVars
<1> QED BY <1>1 DEF M!Next

LEMMA TrapMaps ==
  ASSUME Typed, Matched, HashesAreWords, SizesFit, Trap PROVE M!Next
<1>1. /\ Running /\ Refusal(Op) # NoError /\ exception' = Refusal(Op) /\ status' = "stopped"
      /\ UNCHANGED <<job, programCounter, runVars>>
  BY DEF Trap
<1>2. exception' \in M!Reasons \cup {"OUT_OF_GAS"}
  BY <1>1, RefusalIsReason
<1>3. M!Fail
  BY <1>1, <1>2 DEF M!Fail, runVars, Running
<1>4. M!Step
  BY <1>1, <1>3 DEF M!Step, Running
<1> QED BY <1>4 DEF M!Next

LEMMA FindMaps == ASSUME FindJumpDest PROVE UNCHANGED M!vars
BY DEF FindJumpDest, runVars, M!vars

LEMMA StutterMaps == ASSUME UNCHANGED vars PROVE UNCHANGED M!vars
BY DEF vars, runVars, M!vars

\* Every step of a run is a step of the machine, or none.
LEMMA StepMaps ==
  ASSUME HashesAreWords, SizesFit, Addresses = Nat
  PROVE  Typed /\ Matched /\ [Next]_vars => [M!Next]_(M!vars)
<1> SUFFICES ASSUME Typed, Matched, [Next]_vars PROVE [M!Next]_(M!vars)
  OBVIOUS
<1>1. CASE FindJumpDest
  BY <1>1, FindMaps
<1>2. CASE Start
  BY <1>2, BeginMaps
<1>3. CASE EndOfCode
  BY <1>3, EndMaps
<1>4. CASE Trap
  BY <1>4, TrapMaps
<1>5. CASE Handle
  BY <1>5, HandleMaps
<1>6. CASE UNCHANGED vars
  BY <1>6, StutterMaps
<1> QED BY <1>1, <1>2, <1>3, <1>4, <1>5, <1>6 DEF Next

LEMMA ActivationMaps == ASSUME Addresses = Nat, Activation PROVE M!Init
<1>1. /\ programCounter = job.pc /\ stack = <<>> /\ memory = <<>> /\ memoryWordCount = 0
      /\ lastReturned = <<>> /\ logs = <<>> /\ returnValue = <<>> /\ status = "validating"
      /\ exception = NoError
  BY DEF Activation
<1>2. Reverse(stack) = <<>>
  <2>1. stack \in Seq(Nat) /\ Len(stack) = 0
    BY <1>1
  <2>2. Reverse(stack) \in Seq(Nat) /\ Len(Reverse(stack)) = 0
    BY <2>1, Reversed
  <2> QED BY <2>2
<1>3. [n \in Addresses |-> IF n < Len(memory) THEN memory[n + 1] ELSE 0] = [n \in Addresses |-> 0]
  <2>1. ASSUME NEW n \in Nat PROVE ~(n < Len(<<>>))
    OBVIOUS
  <2> QED BY <1>1, <2>1
<1> QED BY <1>1, <1>2, <1>3, Zenon DEF M!Init, NoError

\* A precompile runs no code.
LEMMA StepsMap ==
  ASSUME HashesAreWords, SizesFit, Addresses = Nat
  PROVE  (request = NoRequest => Logged) /\ (request = NoRequest => Matched)
           /\ [NextExecution]_allVars => [M!Next]_(M!vars)
<1> SUFFICES ASSUME request = NoRequest => Logged, request = NoRequest => Matched,
                    [NextExecution]_allVars
             PROVE  [M!Next]_(M!vars)
  OBVIOUS
<1>1. CASE RunPrecompile
  BY <1>1, StutterMaps DEF RunPrecompile
<1>2. CASE RunInterpreter
  <2>1. request = NoRequest /\ Next
    BY <1>2 DEF RunInterpreter
  <2> QED BY <2>1, StepMaps DEF Logged
<1>3. CASE UNCHANGED allVars
  BY <1>3, StutterMaps DEF allVars
<1> QED BY <1>1, <1>2, <1>3 DEF NextExecution

LEMMA RunsStayMatched ==
  ASSUME HashesAreNumbers, SizesFit
  PROVE  ExecutionSpec => []((request = NoRequest => Logged) /\ (request = NoRequest => Matched))
<1> DEFINE I == (request = NoRequest => Logged) /\ (request = NoRequest => Matched)
<1>1. InitExecution => I
  <2> SUFFICES ASSUME InitExecution, request = NoRequest PROVE Logged /\ Matched
    OBVIOUS
  <2>1. Init
    BY RequestAssumption DEF InitExecution, Init
  <2> QED BY <2>1, BeginsRun, InitMatched
<1>2. I /\ [NextExecution]_allVars => I'
  <2> SUFFICES ASSUME I, [NextExecution]_allVars, request' = NoRequest PROVE Logged' /\ Matched'
    OBVIOUS
  <2>1. request = NoRequest /\ [Next]_vars
    BY StepsRun
  <2>2. Logged /\ Matched /\ Typed
    BY <2>1 DEF Logged
  <2> QED BY <2>1, <2>2, StepLogged, StepMatched
<1> HIDE DEF I
<1>3. ExecutionSpec => []I
  BY <1>1, <1>2, PTL DEF ExecutionSpec
<1> QED BY <1>3, PTL DEF I

\* Every step of runInterpreter is a step of the machine the Yellow Paper describes, or
\* leaves what the machine can see as it is: what a handler pops, pushes and writes, where
\* the program counter goes, what a return or a revert hands back and the exceptions all
\* come from the machine's own rules (interpreter.ts, opFns.ts). A hash is a word, the sizes
\* a run starts with fit in a word and memory has any address: so with 32 byte words and
\* real gas limits, and the bounded memory of a run is for the model checker alone.
THEOREM Implements ==
  HashesAreWords /\ SizesFit /\ Addresses = Nat => (ExecutionSpec => ImplementsMachine)
<1> SUFFICES ASSUME HashesAreWords, SizesFit, Addresses = Nat
             PROVE  ExecutionSpec => ImplementsMachine
  OBVIOUS
<1>1. HashesAreNumbers
  BY WordType DEF HashesAreWords, HashesAreNumbers
<1> DEFINE I == (request = NoRequest => Logged) /\ (request = NoRequest => Matched)
<1>2. ExecutionSpec => []I
  BY <1>1, RunsStayMatched
<1>3. InitExecution => M!Init
  BY ActivationMaps DEF InitExecution
<1>4. I /\ [NextExecution]_allVars => [M!Next]_(M!vars)
  BY StepsMap
<1> HIDE DEF I
<1> QED BY <1>2, <1>3, <1>4, PTL DEF ExecutionSpec, ImplementsMachine, M!Spec
=============================================================================
