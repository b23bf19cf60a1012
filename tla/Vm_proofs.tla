----------------------------- MODULE Vm_proofs ------------------------------
(***************************************************************************)
(* Theorems about the entry points of the VM, for any transactions, blocks *)
(* and accounts: the checkpoints of calls that overlap, and what one call  *)
(* after the other makes of the world.                                     *)
(***************************************************************************)
EXTENDS Vm, Sums, SequenceTheorems, TLAPS

\* The stack of checkpoints, and what is still to do.
LEMMA Stack ==
  ASSUME NEW S, NEW s \in Seq(S)
  PROVE  /\ Len(s) \in Nat
         /\ \A x \in S : /\ Append(s, x) \in Seq(S) /\ Len(Append(s, x)) = Len(s) + 1
                         /\ Front(Append(s, x)) = s /\ Last(Append(s, x)) = x
                         /\ Append(s, x) # <<>>
         /\ s # <<>> => /\ Front(s) \in Seq(S) /\ Len(Front(s)) = Len(s) - 1
                        /\ Last(s) \in S /\ Len(s) \in Nat \ {0}
                        /\ Tail(s) \in Seq(S) /\ Len(Tail(s)) = Len(s) - 1 /\ Head(s) \in S
                        /\ Head(s) = s[1]
                        /\ \A i \in 1 .. Len(s) - 1 : Tail(s)[i] = s[i + 1]
<1>1. Len(s) \in Nat
  OBVIOUS
<1>2. ASSUME NEW x \in S
      PROVE  /\ Append(s, x) \in Seq(S) /\ Len(Append(s, x)) = Len(s) + 1
             /\ Append(s, x) # <<>>
  BY AppendProperties
<1>3. ASSUME NEW x \in S PROVE Front(Append(s, x)) = s /\ Last(Append(s, x)) = x
  <2>1. Last(Append(s, x)) = x
    BY DEF Last
  <2>2. Front(Append(s, x)) = SubSeq(Append(s, x), 1, Len(s))
    BY DEF Front
  <2>3. SubSeq(Append(s, x), 1, Len(s)) = s
    OBVIOUS
  <2> QED BY <2>1, <2>2, <2>3
<1>4. ASSUME s # <<>>
      PROVE  /\ Front(s) \in Seq(S) /\ Len(Front(s)) = Len(s) - 1
             /\ Last(s) \in S /\ Len(s) \in Nat \ {0}
  <2>1. Len(s) \in Nat \ {0} /\ Len(s) - 1 \in Nat /\ \A i \in 1 .. Len(s) : s[i] \in S
    BY <1>4
  <2>2. Last(s) \in S
    BY <2>1 DEF Last
  <2>3. /\ SubSeq(s, 1, Len(s) - 1) \in Seq(S)
        /\ Len(SubSeq(s, 1, Len(s) - 1)) =
             IF 1 <= Len(s) - 1 THEN Len(s) - 1 - 1 + 1 ELSE 0
    <3>1. PICK n \in Nat : n = Len(s) - 1
      BY <2>1
    <3>2. \A i \in 1 .. n : s[i] \in S
      BY <2>1, <3>1
    <3> QED BY <3>1, <3>2, SubSeqProperties
  <2>4. PICK front : front = SubSeq(s, 1, Len(s) - 1)
    OBVIOUS
  <2>5. Front(s) = front
    BY ONLY <2>4 DEF Front
  <2>6. front \in Seq(S) /\ Len(front) = IF 1 <= Len(s) - 1 THEN Len(s) - 1 - 1 + 1 ELSE 0
    BY ONLY <2>3, <2>4
  <2>7. Len(front) = Len(s) - 1
    <3>1. PICK n \in Nat \ {0} : n = Len(s)
      BY <2>1
    <3>2. Len(front) = IF 1 <= n - 1 THEN n - 1 - 1 + 1 ELSE 0
      BY <2>6, <3>1
    <3>3. CASE n = 1
      BY <3>1, <3>2, <3>3
    <3>4. CASE n # 1
      <4>1. 1 <= n - 1 /\ n - 1 - 1 + 1 = n - 1
        BY <3>4
      <4> QED BY <3>1, <3>2, <4>1
    <3> QED BY <3>3, <3>4
  <2> QED BY ONLY <2>1, <2>2, <2>5, <2>6, <2>7
<1>5. ASSUME s # <<>>
      PROVE  /\ Tail(s) \in Seq(S) /\ Len(Tail(s)) = Len(s) - 1 /\ Head(s) \in S
             /\ Head(s) = s[1] /\ \A i \in 1 .. Len(s) - 1 : Tail(s)[i] = s[i + 1]
  BY <1>5
<1> QED BY <1>1, <1>2, <1>3, <1>4, <1>5

(* A block, one transaction after the other.                               *)

\* The recursion of FoldLeft on the first n transactions of T, and what the first k
\* of them make of a world.
Runs(it, w, T, n) ==
  it = [s \in SUBSET (1 .. n) |-> IF s = {} THEN w ELSE AfterTx(it[s \ {Max(s)}], T[Max(s)])]
After(w, T, k) == (CHOOSE it : Runs(it, w, T, Len(T)))[1 .. k]

Steps(it, w, T, n) ==
  \A s \in SUBSET (1 .. n) :
    it[s] = IF s = {} THEN w ELSE AfterTx(it[s \ {Max(s)}], T[Max(s)])

LEMMA RunsAt ==
  ASSUME NEW it, NEW w, NEW T, NEW n, Runs(it, w, T, n)
  PROVE  Steps(it, w, T, n)
<1> DEFINE h == [r \in SUBSET (1 .. n) |->
                   IF r = {} THEN w ELSE AfterTx(it[r \ {Max(r)}], T[Max(r)])]
<1>1. it = h
  BY ONLY Runs(it, w, T, n) DEF Runs
<1>2. \A s \in SUBSET (1 .. n) :
        h[s] = IF s = {} THEN w ELSE AfterTx(it[s \ {Max(s)}], T[Max(s)])
  OBVIOUS
<1> HIDE DEF h
<1> QED BY ONLY <1>1, <1>2 DEF Steps

LEMMA MaxIs ==
  ASSUME NEW n \in Nat, NEW s \in SUBSET (1 .. n), n \in s
  PROVE  Max(s) = n
<1>1. \A y \in s : y \in Int /\ n >= y
  OBVIOUS
<1>2. Max(s) \in s /\ \A y \in s : Max(s) >= y
  <2>1. \E x \in s : \A y \in s : x >= y
    BY <1>1
  <2> QED BY ONLY <2>1 DEF Max
<1>3. PICK m : m = Max(s)
  OBVIOUS
<1>4. m \in Int /\ n >= m /\ m >= n
  BY ONLY <1>1, <1>2, <1>3, n \in s
<1> QED BY <1>3, <1>4

LEMMA RunsExist ==
  ASSUME NEW w, NEW T, NEW n \in Nat
  PROVE  \E it : Runs(it, w, T, n)
<1> SUFFICES ASSUME ~ \E it : Runs(it, w, T, n) PROVE FALSE
  OBVIOUS
<1> DEFINE S == {m \in Nat : ~ \E it : Runs(it, w, T, m)}
<1>1. n \in S /\ S \in SUBSET Nat
  OBVIOUS
<1>2. PICK m \in S : \A k \in S : m <= k
  <2> HIDE DEF S
  <2> QED BY <1>1, Least
<1>3. m # 0
  <2> DEFINE it == [s \in SUBSET (1 .. 0) |-> w]
  <2>1. \A s \in SUBSET (1 .. 0) : s = {}
    OBVIOUS
  <2>2. it = [s \in SUBSET (1 .. 0) |->
                IF s = {} THEN w ELSE AfterTx(it[s \ {Max(s)}], T[Max(s)])]
    BY ONLY <2>1
  <2>3. Runs(it, w, T, 0)
    BY ONLY <2>2 DEF Runs
  <2> QED BY <2>3
<1>4. PICK k \in Nat : m \in Nat /\ k = m - 1 /\ m = k + 1
  <2>1. m \in Nat /\ m - 1 \in Nat /\ m = (m - 1) + 1
    BY <1>3
  <2> QED BY <2>1
<1>5. k \notin S
  <2>1. ~(m <= k)
    BY <1>4
  <2> HIDE DEF S
  <2> QED BY <1>2, <2>1
<1>6. PICK it : Runs(it, w, T, k)
  BY <1>5
<1> DEFINE g == [s \in SUBSET (1 .. m) |->
                   IF m \in s THEN AfterTx(it[s \ {m}], T[m]) ELSE it[s]]
<1>7. ASSUME NEW s \in SUBSET (1 .. m)
      PROVE  g[s] = IF s = {} THEN w ELSE AfterTx(g[s \ {Max(s)}], T[Max(s)])
  <2>1. g[s] = IF m \in s THEN AfterTx(it[s \ {m}], T[m]) ELSE it[s]
    OBVIOUS
  <2>2. CASE m \in s
    <3>1. Max(s) = m
      BY <1>4, <2>2, MaxIs
    <3>2. s \ {m} \in SUBSET (1 .. m) /\ m \notin s \ {m}
      OBVIOUS
    <3>3. g[s \ {m}] = it[s \ {m}]
      BY <3>2
    <3> HIDE DEF g
    <3> QED BY <2>1, <2>2, <3>1, <3>3
  <2>3. CASE m \notin s
    <3>1. s \in SUBSET (1 .. k)
      <4>1. ASSUME NEW x \in s PROVE x \in 1 .. k
        <5>1. x \in 1 .. m /\ x # m
          BY <2>3
        <5> QED BY <1>4, <5>1
      <4> QED BY <4>1
    <3>2. it[s] = IF s = {} THEN w ELSE AfterTx(it[s \ {Max(s)}], T[Max(s)])
      <4>1. Steps(it, w, T, k)
        BY <1>6, RunsAt
      <4> QED BY ONLY <3>1, <4>1 DEF Steps
    <3>3. PICK x : x = Max(s)
      OBVIOUS
    <3>4. s \ {x} \in SUBSET (1 .. m) /\ m \notin s \ {x}
      BY <2>3
    <3>5. g[s \ {x}] = it[s \ {x}]
      BY <3>4
    <3> HIDE DEF g
    <3> QED BY <2>1, <2>3, <3>2, <3>3, <3>5
  <2> QED BY <2>2, <2>3
<1>8. Runs(g, w, T, m)
  <2>1. g = [s \in SUBSET (1 .. m) |-> g[s]]
    OBVIOUS
  <2> HIDE DEF g
  <2>2. [s \in SUBSET (1 .. m) |-> g[s]]
          = [s \in SUBSET (1 .. m) |->
               IF s = {} THEN w ELSE AfterTx(g[s \ {Max(s)}], T[Max(s)])]
    BY <1>7
  <2>3. g = [s \in SUBSET (1 .. m) |->
               IF s = {} THEN w ELSE AfterTx(g[s \ {Max(s)}], T[Max(s)])]
    BY ONLY <2>1, <2>2
  <2> QED BY ONLY <2>3 DEF Runs
<1> HIDE DEF g
<1>9. m \notin S
  BY <1>8
<1> QED BY <1>9

\* Transactions take effect one after the other; all of them are what a block makes
\* of a world before its rewards.
LEMMA AfterIs ==
  ASSUME NEW w, NEW T \in Seq(Tx)
  PROVE  /\ After(w, T, 0) = w
         /\ \A k \in 1 .. Len(T) : After(w, T, k) = AfterTx(After(w, T, k - 1), T[k])
         /\ FoldLeft(AfterTx, w, T) = After(w, T, Len(T))
<1>1. Len(T) \in Nat /\ DOMAIN T = 1 .. Len(T)
  OBVIOUS
<1> DEFINE it == CHOOSE it : Runs(it, w, T, Len(T))
<1>2. Runs(it, w, T, Len(T))
  BY <1>1, RunsExist
<1>3. \A k : After(w, T, k) = it[1 .. k]
  BY DEF After
<1>4. FoldLeft(AfterTx, w, T) = it[1 .. Len(T)]
  <2>1. FoldLeft(AfterTx, w, T)
          = (CHOOSE i : i = [s \in SUBSET (DOMAIN T) |->
               IF s = {} THEN w ELSE AfterTx(i[s \ {Max(s)}], T[Max(s)])])[DOMAIN T]
    BY DEF FoldLeft, MapThenFoldSet
  <2>2. (CHOOSE i : Runs(i, w, T, Len(T)))
          = (CHOOSE i : i = [s \in SUBSET (1 .. Len(T)) |->
               IF s = {} THEN w ELSE AfterTx(i[s \ {Max(s)}], T[Max(s)])])
    BY DEF Runs
  <2> QED BY ONLY <1>1, <2>1, <2>2
<1> HIDE DEF it
<1>5. it[1 .. 0] = w
  <2>1. 1 .. 0 = {} /\ {} \in SUBSET (1 .. Len(T))
    OBVIOUS
  <2>2. it[{}] = w
    BY <1>2, <2>1, RunsAt DEF Steps
  <2> QED BY <2>1, <2>2
<1>6. ASSUME NEW k \in 1 .. Len(T) PROVE it[1 .. k] = AfterTx(it[1 .. k - 1], T[k])
  <2>5. PICK n \in Nat : n = Len(T)
    BY <1>1
  <2>1. k \in Nat /\ k \in 1 .. k /\ 1 .. k \in SUBSET (1 .. Len(T)) /\ 1 .. k # {}
    <3>1. k \in Nat /\ 1 <= k /\ k <= n
      BY <2>5
    <3>2. k \in 1 .. k /\ 1 .. k \in SUBSET (1 .. n)
      BY <3>1
    <3> QED BY <2>5, <3>1, <3>2
  <2>2. (1 .. k) \ {k} = 1 .. k - 1
    <3>1. ASSUME NEW x PROVE x \in (1 .. k) \ {k} <=> x \in 1 .. k - 1
      BY <2>1
    <3> QED BY <3>1
  <2>3. Max(1 .. k) = k
    BY <2>1, MaxIs
  <2>4. it[1 .. k] = AfterTx(it[(1 .. k) \ {Max(1 .. k)}], T[Max(1 .. k)])
    <3>1. Steps(it, w, T, Len(T))
      BY <1>2, RunsAt
    <3>2. PICK s \in SUBSET (1 .. Len(T)) : s = 1 .. k
      BY <2>1
    <3>3. s # {}
      BY <2>1, <3>2
    <3>4. it[s] = AfterTx(it[s \ {Max(s)}], T[Max(s)])
      BY ONLY <3>1, <3>3, s \in SUBSET (1 .. Len(T)) DEF Steps
    <3> QED BY ONLY <3>2, <3>4
  <2> QED BY ONLY <2>2, <2>3, <2>4
<1> QED BY <1>3, <1>4, <1>5, <1>6

\* The gas of the first transactions of a block, as GasUpTo has it.
Adds(it, T, n) == it = [i \in 0..n |-> IF i = 0 THEN 0 ELSE it[i - 1] + GasUsed(T[i])]
Totals(it, T, n) == it[0] = 0 /\ \A i \in 1..n : it[i] = it[i - 1] + GasUsed(T[i])

LEMMA AddsTotals ==
  ASSUME NEW it, NEW T, NEW n \in Nat, Adds(it, T, n)
  PROVE  Totals(it, T, n)
<1> DEFINE h == [i \in 0..n |-> IF i = 0 THEN 0 ELSE it[i - 1] + GasUsed(T[i])]
<1>1. it = h
  BY ONLY Adds(it, T, n) DEF Adds
<1>2. h[0] = 0
  <2>1. 0 \in 0..n
    OBVIOUS
  <2> QED BY <2>1
<1>3. ASSUME NEW i \in 1..n PROVE h[i] = it[i - 1] + GasUsed(T[i])
  <2>1. i \in 0..n /\ i # 0
    OBVIOUS
  <2> QED BY <2>1
<1> HIDE DEF h
<1> QED BY <1>1, <1>2, <1>3 DEF Totals

LEMMA AddsExist ==
  ASSUME NEW T, NEW n \in Nat
  PROVE  \E it : Adds(it, T, n)
<1> SUFFICES ASSUME ~ \E it : Adds(it, T, n) PROVE FALSE
  OBVIOUS
<1> DEFINE S == {m \in Nat : ~ \E it : Adds(it, T, m)}
<1>1. n \in S /\ S \in SUBSET Nat
  OBVIOUS
<1>2. PICK m \in S : \A k \in S : m <= k
  <2> HIDE DEF S
  <2> QED BY <1>1, Least
<1>3. m # 0
  <2>1. Adds([i \in 0..0 |-> 0], T, 0)
    BY DEF Adds
  <2> QED BY <2>1
<1>4. PICK k \in Nat : m \in Nat /\ k = m - 1 /\ m = k + 1
  <2>1. m \in Nat /\ m - 1 \in Nat /\ m = (m - 1) + 1
    BY <1>3
  <2> QED BY <2>1
<1>5. k \notin S
  <2>1. ~(m <= k)
    BY <1>4
  <2> HIDE DEF S
  <2> QED BY <1>2, <2>1
<1>6. PICK it : Adds(it, T, k)
  BY <1>5
<1>7. it[0] = 0 /\ \A i \in 1..k : it[i] = it[i - 1] + GasUsed(T[i])
  BY <1>6, AddsTotals DEF Totals
<1> DEFINE g == [i \in 0..m |-> IF i = m THEN it[k] + GasUsed(T[m]) ELSE it[i]]
<1>8. g[m] = it[k] + GasUsed(T[m]) /\ \A i \in 0..k : g[i] = it[i]
  <2>1. m \in 0..m
    BY <1>4
  <2>2. \A i \in 0..k : i \in 0..m /\ i # m
    BY <1>4
  <2> QED BY <2>1, <2>2
<1>9. g = [i \in 0..m |-> g[i]]
  OBVIOUS
<1> HIDE DEF g, S
<1>10. ASSUME NEW i \in 0..m
       PROVE  g[i] = IF i = 0 THEN 0 ELSE g[i - 1] + GasUsed(T[i])
  <2>1. CASE i = 0
    <3>1. 0 \in 0..k
      BY <1>4
    <3> QED BY <1>7, <1>8, <2>1, <3>1
  <2>2. CASE i = m
    <3>1. k \in 0..k /\ i - 1 = k /\ i # 0
      BY <1>3, <1>4, <2>2
    <3> QED BY <1>8, <2>2, <3>1
  <2>3. CASE i # 0 /\ i # m
    <3>1. i \in 1..k /\ i \in 0..k /\ i - 1 \in 0..k
      BY <1>4, <2>3
    <3> QED BY <1>7, <1>8, <2>3, <3>1
  <2> QED BY <2>1, <2>2, <2>3
<1>11. Adds(g, T, m)
  <2>1. [i \in 0..m |-> g[i]]
          = [i \in 0..m |-> IF i = 0 THEN 0 ELSE g[i - 1] + GasUsed(T[i])]
    BY <1>10
  <2> QED BY ONLY <1>9, <2>1 DEF Adds
<1> QED BY <1>11 DEF S
-----------------------------------------------------------------------------
USE ConstantsAssumption

OfBlock(f) == f.kind \in {"block", "chain"}
InRun == {"tx", "upfront", "message", "txEnd", "txThrown"}

\* Where a call may be, by what it runs: a transaction ...
OfTx(f) ==
  /\ f.at \in {"tx", "upfront", "txEnd", "txThrown"} => f.kind \in {"tx", "block", "chain"}
  /\ f.at = "message" => f.kind # "code" /\ Outcome[f.tx] # "rejected"
  /\ f.at = "call" => f.kind = "call"
  /\ f.at = "code" => f.kind = "code"
  /\ f.kind \in {"tx", "call", "code"} /\ f.at # "idle" => f.tx \in Tx
  /\ f.kind \in {"call", "code"} /\ f.at # "idle" => Outcome[f.tx] # "rejected"
  /\ OfBlock(f) /\ f.at \in InRun => f.txs # <<>> /\ f.tx = Head(f.txs)

\* ... or a block, of the chain or on its own.
OfABlock(f) ==
  /\ f.at \in {"block", "checkpoint", "transactions", "blockEnd", "blockThrown", "header"} =>
       OfBlock(f)
  /\ f.at = "iterate" => f.kind = "chain"
  /\ f.kind = "block" /\ f.at # "idle" => f.block \in Block
  /\ f.kind = "chain" => ~f.generate
  /\ f.kind = "chain" /\ f.at \in InBlock \cup {"block", "checkpoint", "header"} =>
       f.block \in Block
  /\ f.at = "dump" => f.dump # <<>>
  /\ f.at \in {"init", "dump"} => f.head = NoBlock /\ f.last = NoBlock

\* What runBlock has still to run is the rest of its block.
ToRun(f) ==
  OfBlock(f) /\ f.at \in InBlock =>
    LET T == Transactions[f.block] IN
    /\ Len(f.txs) <= Len(T)
    /\ \A i \in 1 .. Len(f.txs) : f.txs[i] = T[Len(T) - Len(f.txs) + i]

Shape(f) == OfTx(f) /\ OfABlock(f) /\ ToRun(f)
Shapes == \A c \in Call : Shape(call[c])

\* The checkpoints a call has open.
OpenOf(f) ==
  LET one(b) == IF b THEN 1 ELSE 0
  IN  one(f.at \in InMessage) + one(f.at \in InTx /\ f.kind # "call")
        + one(f.at \in InBlock /\ f.kind \in {"block", "chain"})

Types == TypeOK /\ Shapes
-----------------------------------------------------------------------------
(* Worlds.                                                                 *)

LEMMA WorldTypes ==
  /\ EmptyWorld \in World
  /\ \A w \in World :
       /\ WithGenesis(w) \in World
       /\ \A t \in Tx : Applied(w, t) \in World /\ AfterTx(w, t) \in World
       /\ \A b \in Block : Rewarded(w, b) \in World
       /\ \A a \in Account : Dumped(w, a) \in World
<1>1. EmptyWorld \in World
  <2>1. <<>> \in Seq(Effect)
    OBVIOUS
  <2> QED BY <2>1 DEF EmptyWorld, World
<1> SUFFICES ASSUME NEW w \in World
             PROVE  /\ WithGenesis(w) \in World
                    /\ \A t \in Tx : Applied(w, t) \in World /\ AfterTx(w, t) \in World
                    /\ \A b \in Block : Rewarded(w, b) \in World
                    /\ \A a \in Account : Dumped(w, a) \in World
  BY <1>1
<1>2. \A a \in Account : w[a] \in Seq(Effect)
  BY DEF World
<1>3. <<"genesis">> \in Seq(Effect) /\ <<"dump">> \in Seq(Effect)
  <2>1. "genesis" \in Effect /\ "dump" \in Effect
    BY DEF Effect
  <2> HIDE DEF Effect
  <2> QED BY <2>1
<1>4. \A s \in Seq(Effect), e \in Tx \cup Block : Append(s, e) \in Seq(Effect)
  <2>1. \A e \in Tx \cup Block : e \in Effect
    BY DEF Effect
  <2> HIDE DEF Effect
  <2> QED BY <2>1
<1> HIDE DEF Effect
<1>5. WithGenesis(w) \in World
  BY <1>2, <1>3 DEF WithGenesis, World
<1>6. \A t \in Tx : Applied(w, t) \in World
  BY <1>2, <1>4 DEF Applied, World
<1>7. \A b \in Block : Rewarded(w, b) \in World
  BY <1>2, <1>4 DEF Rewarded, World
<1>8. \A a \in Account : Dumped(w, a) \in World
  BY <1>3 DEF Dumped, World
<1>9. \A t \in Tx : AfterTx(w, t) \in World
  BY <1>6 DEF AfterTx
<1> QED BY <1>5, <1>6, <1>7, <1>8, <1>9

LEMMA FrameTypes ==
  ASSUME NEW f \in Frame
  PROVE  /\ f.tx \in Tx \cup {NoTx} /\ f.block \in Block \cup {NoBlock}
         /\ f.dump \in Seq(Account) /\ f.txs \in Seq(Tx) /\ f.gas \in Nat
         /\ f.start \in World /\ f.ok \in BOOLEAN /\ f.generate \in BOOLEAN
         /\ f.root \in World \cup {UnknownRoot, NoRoot}
         /\ f.kind \in {"tx", "call", "code", "block", "chain"}
BY DEF Frame

\* What the state manager does, to the types and to the number of checkpoints.
LEMMA StateSteps ==
  ASSUME TypeOK
  PROVE  /\ \A w \in World : Checkpoint(w) =>
              /\ saved' = Append(saved, world) /\ world' = w
              /\ saved' \in Seq(World) /\ Len(saved') = Len(saved) + 1
              /\ trie' \in World /\ roots' \subseteq World
         /\ Commit => /\ saved # <<>> /\ saved' = Front(saved) /\ world' = world
                      /\ saved' \in Seq(World) /\ Len(saved') = Len(saved) - 1
                      /\ trie' \in World /\ roots' \subseteq World
         /\ Revert => /\ saved # <<>> /\ saved' = Front(saved) /\ world' = Last(saved)
                      /\ world' \in World
                      /\ saved' \in Seq(World) /\ Len(saved') = Len(saved) - 1
                      /\ trie' \in World /\ roots' \subseteq World
         /\ \A w \in World : Write(w) =>
              world' = w /\ trie' \in World /\ roots' \subseteq World /\ saved' = saved
         /\ Len(saved) \in Nat
<1>1. world \in World /\ saved \in Seq(World) /\ trie \in World /\ roots \subseteq World
  BY DEF TypeOK
<1>2. Len(saved) \in Nat
  BY <1>1
<1>3. ASSUME NEW w \in World, Checkpoint(w)
      PROVE  /\ saved' = Append(saved, world) /\ world' = w
             /\ saved' \in Seq(World) /\ Len(saved') = Len(saved) + 1
             /\ trie' \in World /\ roots' \subseteq World
  BY <1>1, <1>3, Stack DEF Checkpoint
<1>4. ASSUME Commit
      PROVE  /\ saved # <<>> /\ saved' = Front(saved) /\ world' = world
             /\ saved' \in Seq(World) /\ Len(saved') = Len(saved) - 1
             /\ trie' \in World /\ roots' \subseteq World
  BY <1>1, <1>4, Stack DEF Commit, Flushed
<1>5. ASSUME Revert
      PROVE  /\ saved # <<>> /\ saved' = Front(saved) /\ world' = Last(saved)
             /\ world' \in World
             /\ saved' \in Seq(World) /\ Len(saved') = Len(saved) - 1
             /\ trie' \in World /\ roots' \subseteq World
  BY <1>1, <1>5, Stack DEF Revert, Flushed
<1>6. ASSUME NEW w \in World, Write(w)
      PROVE  world' = w /\ trie' \in World /\ roots' \subseteq World /\ saved' = saved
  BY <1>1, <1>6 DEF Write
<1> QED BY <1>2, <1>3, <1>4, <1>5, <1>6
-----------------------------------------------------------------------------
(* How a call goes on.                                                     *)

Places == {"idle", "init", "dump", "tx", "upfront", "call", "message", "txEnd",
           "txThrown", "code", "block", "checkpoint", "transactions", "blockEnd",
           "blockThrown", "header", "iterate", "answered"}

\* g is where f was asked to run, but somewhere else.
Like(g, f) ==
  /\ g.kind = f.kind /\ g.tx = f.tx /\ g.block = f.block /\ g.root = f.root
  /\ g.generate = f.generate /\ g.dump = f.dump /\ g.txs = f.txs /\ g.gas = f.gas
  /\ g.head = f.head /\ g.last = f.last /\ g.start = f.start

Becomes(c, g) == g \in Frame /\ call' = [call EXCEPT ![c] = g]

LEMMA Goes ==
  ASSUME TypeOK, NEW c \in Call, NEW at \in Places, Goto(c, at)
  PROVE  \E g : Becomes(c, g) /\ Like(g, call[c]) /\ g.at = at /\ g.ok = call[c].ok
<1>1. call \in [Call -> Frame] /\ call[c] \in Frame
  BY DEF TypeOK
<1> DEFINE g == [call[c] EXCEPT !.at = at]
<1>2. Like(g, call[c]) /\ g.at = at /\ g.ok = call[c].ok
  BY <1>1 DEF Frame, Like
<1>4. g \in Frame
  BY ZenonT(40), <1>1 DEF Frame, Places
<1>3. call' = [call EXCEPT ![c] = g]
  BY <1>1 DEF Goto
<1> HIDE DEF g
<1> QED BY <1>2, <1>3, <1>4 DEF Becomes

LEMMA Answers ==
  ASSUME TypeOK, NEW c \in Call, NEW ok \in BOOLEAN, Answer(c, ok)
  PROVE  \E g : Becomes(c, g) /\ Like(g, call[c]) /\ g.at = "answered" /\ g.ok = ok
<1>1. call \in [Call -> Frame] /\ call[c] \in Frame
  BY DEF TypeOK
<1> DEFINE g == [call[c] EXCEPT !.at = "answered", !.ok = ok]
<1>2. g \in Frame /\ Like(g, call[c]) /\ g.at = "answered" /\ g.ok = ok
  BY ZenonT(40), <1>1 DEF Frame, Like
<1>3. call' = [call EXCEPT ![c] = g]
  BY <1>1 DEF Answer
<1> HIDE DEF g
<1> QED BY <1>2, <1>3 DEF Becomes

\* The end of a transaction.
LEMMA TxAnswers ==
  ASSUME TypeOK, NEW c \in Call, Shape(call[c]), NEW ok \in BOOLEAN, TxAnswer(c, ok),
         call[c].at \in {"tx", "txEnd", "txThrown"}
  PROVE  \E g : /\ Becomes(c, g)
                /\ \/ call[c].kind = "tx" /\ Like(g, call[c]) /\ g.at = "answered" /\ g.ok = ok
                   \/ /\ OfBlock(call[c]) /\ ~ok
                      /\ Like(g, call[c]) /\ g.at = "blockThrown"
                   \/ /\ OfBlock(call[c]) /\ ok /\ g.at = "transactions"
                      /\ g.kind = call[c].kind /\ g.block = call[c].block
                      /\ g.generate = call[c].generate /\ g.root = call[c].root
                      /\ g.head = call[c].head /\ g.last = call[c].last
                      /\ g.start = call[c].start /\ g.txs = Tail(call[c].txs)
                      /\ g.gas = call[c].gas + GasUsed(call[c].tx)
<1> DEFINE f == call[c]
<1>1. call \in [Call -> Frame] /\ f \in Frame
  BY DEF TypeOK
<1>2. f.kind \in {"tx", "block", "chain"}
  BY DEF Shape, OfTx
<1>3. CASE f.kind = "tx"
  BY <1>3, Answers DEF TxAnswer
<1>4. CASE f.kind # "tx" /\ ~ok
  BY <1>2, <1>4, Goes DEF TxAnswer, OfBlock, Places
<1>5. CASE f.kind # "tx" /\ ok
  <2>1. f.txs # <<>> /\ f.tx = Head(f.txs) /\ f.txs \in Seq(Tx) /\ f.gas \in Nat
    BY <1>1, <1>2, <1>5, FrameTypes DEF Shape, OfTx, OfBlock, InRun
  <2>2. Tail(f.txs) \in Seq(Tx) /\ f.tx \in Tx
    BY <2>1, Stack
  <2>3. GasUsed(f.tx) \in Nat
    BY <2>2 DEF GasUsed
  <2>7. PICK rest \in Seq(Tx) : rest = Tail(f.txs)
    BY <2>2
  <2>8. PICK gas \in Nat : gas = f.gas + GasUsed(f.tx)
    BY <2>1, <2>3
  <2> DEFINE g == [f EXCEPT !.at = "transactions", !.txs = rest, !.gas = gas]
  <2>4. g \in Frame
    BY <1>1 DEF Frame
  <2>5. /\ g.at = "transactions" /\ g.kind = f.kind /\ g.block = f.block /\ g.root = f.root
        /\ g.generate = f.generate
        /\ g.head = f.head /\ g.last = f.last /\ g.start = f.start /\ g.txs = Tail(f.txs)
        /\ g.gas = f.gas + GasUsed(f.tx)
    BY <1>1, <2>7, <2>8 DEF Frame
  <2>6. call' = [call EXCEPT ![c] = g]
    BY <1>1, <1>5, <2>7, <2>8 DEF TxAnswer
  <2> HIDE DEF g
  <2> QED BY <1>2, <1>5, <2>4, <2>5, <2>6 DEF Becomes, OfBlock
<1> QED BY <1>3, <1>4, <1>5

\* The end of a block.
LEMMA BlockAnswers ==
  ASSUME TypeOK, NEW c \in Call, OfBlock(call[c]), call[c].block \in Block,
         NEW ok \in BOOLEAN, BlockAnswer(c, ok)
  PROVE  /\ stored' \subseteq Block
         /\ \E g : /\ Becomes(c, g)
                   /\ \/ /\ call[c].kind = "block" \/ ~ok
                         /\ Like(g, call[c]) /\ g.at = "answered" /\ g.ok = ok
                      \/ /\ call[c].kind = "chain" /\ ok /\ g.at = "iterate"
                         /\ g.kind = call[c].kind /\ g.block = call[c].block
                         /\ g.generate = call[c].generate
                         /\ g.head = call[c].block /\ g.last = call[c].last
<1> DEFINE f == call[c]
<1>1. call \in [Call -> Frame] /\ f \in Frame /\ stored \subseteq Block
  BY DEF TypeOK
<1>2. stored' \subseteq Block
  BY <1>1 DEF BlockAnswer
<1>3. CASE f.kind = "block" \/ ~ok
  <2>1. Answer(c, ok)
    BY <1>3 DEF BlockAnswer
  <2> QED BY <1>2, <1>3, <2>1, Answers
<1>4. CASE f.kind = "chain" /\ ok
  <2> DEFINE g == [f EXCEPT !.at = "iterate", !.head = f.block]
  <2>1. /\ g \in Frame /\ g.at = "iterate" /\ g.kind = f.kind /\ g.block = f.block
        /\ g.generate = f.generate /\ g.head = f.block /\ g.last = f.last
    BY <1>1 DEF Frame
  <2>2. call' = [call EXCEPT ![c] = g]
    BY <1>1, <1>4 DEF BlockAnswer
  <2> HIDE DEF g
  <2> QED BY <1>2, <1>4, <2>1, <2>2 DEF Becomes
<1> QED BY <1>3, <1>4 DEF OfBlock

\* After init a call begins what it was asked for.
LEMMA Enters ==
  ASSUME TypeOK, NEW c \in Call, Enter(c), world' \in World
  PROVE  \E g : /\ Becomes(c, g) /\ g.at = FirstStep(call[c].kind) /\ g.dump = <<>>
                /\ g.start = world'
                /\ g.kind = call[c].kind /\ g.tx = call[c].tx /\ g.block = call[c].block
                /\ g.generate = call[c].generate /\ g.root = call[c].root
                /\ g.head = call[c].head /\ g.last = call[c].last /\ g.txs = call[c].txs
<1> DEFINE f == call[c]
           g == [f EXCEPT !.at = FirstStep(f.kind), !.dump = <<>>, !.start = world']
<1>1. call \in [Call -> Frame] /\ f \in Frame /\ <<>> \in Seq(Account)
  BY DEF TypeOK
<1>2. FirstStep(f.kind) \in {"tx", "call", "code", "block", "iterate"}
  BY <1>1, FrameTypes DEF FirstStep
<1>3. g \in Frame
  BY <1>1, <1>2 DEF Frame
<1>4. /\ g.at = FirstStep(f.kind) /\ g.dump = <<>> /\ g.start = world' /\ g.kind = f.kind
      /\ g.tx = f.tx /\ g.block = f.block /\ g.generate = f.generate /\ g.root = f.root
      /\ g.head = f.head /\ g.last = f.last /\ g.txs = f.txs
  BY <1>1 DEF Frame
<1>5. call' = [call EXCEPT ![c] = g]
  BY <1>1 DEF Enter
<1> HIDE DEF g
<1> QED BY <1>3, <1>4, <1>5 DEF Becomes
-----------------------------------------------------------------------------
(* What a step does to the types and to the checkpoints.                   *)

\* Everything but the calls has its type.
Rest ==
  /\ initialized \in BOOLEAN
  /\ world \in World
  /\ saved \in Seq(World)
  /\ trie \in World
  /\ roots \subseteq World
  /\ headerRoot \in [Block -> World]
  /\ stored \subseteq Block
  /\ begun \in 0..MaxCalls
  /\ leaked \in Nat

\* A step moves one call, and the number of checkpoints by as many as it opens,
\* closes or leaks.
Balanced(f, g) == Len(saved') + leaked + OpenOf(f) = Len(saved) + leaked' + OpenOf(g)
Moves(c) == Rest' /\ \E g : Becomes(c, g) /\ Shape(g) /\ Balanced(call[c], g)

LEMMA OpenIs ==
  ASSUME NEW f \in Frame, Shape(f)
  PROVE  /\ f.at \in {"idle", "init", "dump", "call", "code", "block", "checkpoint",
                      "header", "iterate", "answered"} => OpenOf(f) = 0
         /\ f.at \in {"upfront", "txEnd", "txThrown"} =>
              OpenOf(f) = IF OfBlock(f) THEN 2 ELSE 1
         /\ f.at = "message" =>
              OpenOf(f) = IF OfBlock(f) THEN 3 ELSE IF f.kind = "call" THEN 1 ELSE 2
         /\ f.at = "tx" => OpenOf(f) = IF OfBlock(f) THEN 1 ELSE 0
         /\ f.at \in {"transactions", "blockEnd", "blockThrown"} => OpenOf(f) = 1
         /\ OpenOf(f) \in Nat
<1>1. f.kind \in {"tx", "call", "code", "block", "chain"} /\ f.at \in Places
  BY DEF Frame, Places
<1>2. /\ f.at \in {"upfront", "txEnd", "txThrown", "tx"} => f.kind \in {"tx", "block", "chain"}
      /\ f.at \in {"transactions", "blockEnd", "blockThrown"} => OfBlock(f)
  BY DEF Shape, OfTx, OfABlock
<1> QED BY <1>1, <1>2 DEF OpenOf, OfBlock, InMessage, InTx, InBlock, Places

LEMMA InRest ==
  TypeOK <=> Rest /\ call \in [Call -> Frame]
BY DEF TypeOK, Rest

\* A transaction that runs is one.
LEMMA RunsTx ==
  ASSUME NEW f \in Frame, Shape(f)
  PROVE  /\ f.at \in InRun \cup {"call", "code"} => f.tx \in Tx
         /\ f.at \in {"block", "checkpoint", "header"} \cup InBlock /\ OfBlock(f) => f.block \in Block
<1>1. f.kind \in {"tx", "call", "code", "block", "chain"} /\ f.txs \in Seq(Tx)
  BY FrameTypes
<1>2. ASSUME f.at \in InRun \cup {"call", "code"} PROVE f.tx \in Tx
  <2>1. CASE OfBlock(f)
    <3>1. f.at \in InRun
      BY <1>2, <2>1 DEF Shape, OfTx, OfBlock
    <3>2. f.txs # <<>> /\ f.tx = Head(f.txs)
      BY <2>1, <3>1 DEF Shape, OfTx
    <3> QED BY <1>1, <3>2, Stack
  <2>2. CASE ~OfBlock(f)
    BY <1>1, <1>2, <2>2 DEF Shape, OfTx, OfBlock, InRun
  <2> QED BY <2>1, <2>2
<1>3. ASSUME f.at \in {"block", "checkpoint", "header"} \cup InBlock, OfBlock(f)
      PROVE  f.block \in Block
  BY <1>3 DEF Shape, OfABlock, OfBlock, InBlock, InTx
<1> QED BY <1>2, <1>3

\* A call that goes on elsewhere with what it had keeps its shape, if it may be there.
LEMMA LikeShape ==
  ASSUME NEW f \in Frame, Shape(f), NEW g, Like(g, f),
         \/ g.at = "answered" /\ f.at # "idle"
         \/ /\ f.at \in {"tx", "upfront", "message", "txEnd"}
            /\ f.kind \in {"tx", "block", "chain"}
            /\ g.at \in {"upfront", "txEnd", "txThrown"}
         \/ /\ f.at = "upfront" /\ Outcome[f.tx] # "rejected" /\ g.at = "message"
         \/ /\ f.at = "call" /\ g.at = "message"
         \/ /\ f.at \in InBlock /\ OfBlock(f) /\ g.at \in {"blockThrown", "blockEnd", "header"}
         \/ /\ f.at = "block" /\ g.at = "checkpoint"
  PROVE  Shape(g)
<1>1. f.kind \in {"tx", "call", "code", "block", "chain"}
  BY FrameTypes
<1>2. OfTx(g)
  BY <1>1 DEF Shape, OfTx, Like, OfBlock, InRun, InBlock, InTx
<1>3. OfABlock(g)
  BY <1>1 DEF Shape, OfABlock, OfTx, Like, OfBlock, InBlock, InTx
<1>4. ToRun(g)
  <2>1. CASE g.at \notin InBlock
    BY <2>1 DEF ToRun
  <2>2. CASE g.at \in InBlock /\ ~OfBlock(g)
    BY <2>2 DEF ToRun
  <2>3. CASE g.at \in InBlock /\ OfBlock(g)
    <3>1. OfBlock(f) /\ f.at \in InBlock
      BY <2>3 DEF Like, OfBlock, InBlock, InTx, Shape, OfTx, OfABlock
    <3> QED BY <3>1 DEF Shape, ToRun, Like
  <2> QED BY <2>1, <2>2, <2>3
<1> QED BY <1>2, <1>3, <1>4 DEF Shape

\* The steps before a call begins what it was asked for.
LEMMA BeginsAt ==
  ASSUME Types, NEW c \in Call, Begin(c)
  PROVE  \E g : Becomes(c, g) /\ Shape(g) /\ g.at = "init"
<1> DEFINE f == call[c]
<1>1. /\ f \in Frame /\ Shape(f) /\ call \in [Call -> Frame] /\ Rest
      /\ f.at \in {"idle", "answered"}
  BY InRest DEF Types, Shapes, Begin
<1>2. IdleFrame \in Frame
  <2>1. <<>> \in Seq(Account) /\ <<>> \in Seq(Tx) /\ EmptyWorld \in World
    BY WorldTypes
  <2> QED BY <2>1 DEF IdleFrame, Frame
<1>4. \E g : Becomes(c, g) /\ Shape(g) /\ g.at = "init"
  <2>1. CASE \E t \in Tx, b \in Block \union {NoBlock} :
               call' = [call EXCEPT ![c] =
                          [IdleFrame EXCEPT !.at = "init", !.tx = t, !.block = b]]
    <3>1. PICK t \in Tx, b \in Block \union {NoBlock} :
               call' = [call EXCEPT ![c] =
                          [IdleFrame EXCEPT !.at = "init", !.tx = t, !.block = b]]
      BY <2>1
    <3> DEFINE g == [IdleFrame EXCEPT !.at = "init", !.tx = t, !.block = b]
    <3>2. g \in Frame
      BY <1>2 DEF Frame
    <3>3. Shape(g) /\ g.at = "init"
      BY DEF IdleFrame, Shape, OfTx, OfABlock, ToRun, OfBlock, InRun, InBlock, InTx
    <3> QED BY <3>1, <3>2, <3>3 DEF Becomes
  <2>2. CASE \E kind \in {"call", "code"}, t \in Tx :
               /\ Outcome[t] # "rejected"
               /\ call' = [call EXCEPT ![c] =
                             [IdleFrame EXCEPT !.at = "init", !.kind = kind, !.tx = t]]
    <3>1. PICK kind \in {"call", "code"}, t \in Tx :
               /\ Outcome[t] # "rejected"
               /\ call' = [call EXCEPT ![c] =
                             [IdleFrame EXCEPT !.at = "init", !.kind = kind, !.tx = t]]
      BY <2>2
    <3> DEFINE g == [IdleFrame EXCEPT !.at = "init", !.kind = kind, !.tx = t]
    <3>2. g \in Frame
      BY <1>2 DEF Frame
    <3>3. Shape(g) /\ g.at = "init"
      BY <3>1 DEF IdleFrame, Shape, OfTx, OfABlock, ToRun, OfBlock, InRun, InBlock, InTx
    <3> QED BY <3>1, <3>2, <3>3 DEF Becomes
  <2>3. CASE \E b \in Block, root \in roots \union {UnknownRoot, NoRoot}, gen \in BOOLEAN :
               call' = [call EXCEPT ![c] =
                          [IdleFrame EXCEPT !.at = "init", !.kind = "block",
                             !.block = b, !.root = root, !.generate = gen]]
    <3>1. PICK b \in Block, root \in roots \union {UnknownRoot, NoRoot}, gen \in BOOLEAN :
               call' = [call EXCEPT ![c] =
                          [IdleFrame EXCEPT !.at = "init", !.kind = "block",
                             !.block = b, !.root = root, !.generate = gen]]
      BY <2>3
    <3>4. root \in World \cup {UnknownRoot, NoRoot}
      BY <1>1 DEF Rest
    <3> DEFINE g == [IdleFrame EXCEPT !.at = "init", !.kind = "block",
                             !.block = b, !.root = root, !.generate = gen]
    <3>2. g \in Frame
      BY <1>2, <3>4 DEF Frame
    <3>3. Shape(g) /\ g.at = "init"
      BY DEF IdleFrame, Shape, OfTx, OfABlock, ToRun, OfBlock, InRun, InBlock, InTx
    <3> QED BY <3>1, <3>2, <3>3 DEF Becomes
  <2>4. CASE call' = [call EXCEPT ![c] = [IdleFrame EXCEPT !.at = "init", !.kind = "chain"]]
    <3> DEFINE g == [IdleFrame EXCEPT !.at = "init", !.kind = "chain"]
    <3>2. g \in Frame
      BY <1>2 DEF Frame
    <3>3. Shape(g) /\ g.at = "init"
      BY DEF IdleFrame, Shape, OfTx, OfABlock, ToRun, OfBlock, InRun, InBlock, InTx
    <3> QED BY <2>4, <3>2, <3>3 DEF Becomes
  <2> QED BY <2>1, <2>2, <2>3, <2>4 DEF Begin
<1> QED BY <1>4

LEMMA Begins ==
  ASSUME Types, NEW c \in Call, Begin(c)
  PROVE  Moves(c)
<1> DEFINE f == call[c]
<1>1. /\ f \in Frame /\ Shape(f) /\ call \in [Call -> Frame] /\ Rest
      /\ f.at \in {"idle", "answered"}
  BY InRest DEF Types, Shapes, Begin
<1>3. Rest' /\ saved' = saved /\ leaked' = leaked
  <2>1. /\ begun < MaxCalls /\ begun' = begun + 1
        /\ UNCHANGED <<initialized, state, headerRoot, stored, leaked>>
    BY DEF Begin
  <2>2. begun' \in 0..MaxCalls
    BY <1>1, <2>1 DEF Rest
  <2> QED BY <1>1, <2>1, <2>2 DEF state, Rest
<1>5. PICK g : Becomes(c, g) /\ Shape(g) /\ g.at = "init"
  BY BeginsAt
<1>6. OpenOf(f) = 0 /\ OpenOf(g) = 0
  BY <1>1, <1>5, OpenIs DEF Becomes
<1>7. Balanced(f, g)
  BY <1>1, <1>3, <1>6 DEF Balanced, Rest
<1> QED BY <1>3, <1>5, <1>7 DEF Moves

\* After init.
LEMMA EnteredShape ==
  ASSUME NEW f \in Frame, Shape(f), f.at \in {"init", "dump"}, NEW g,
         g.at = FirstStep(f.kind), g.kind = f.kind, g.tx = f.tx, g.block = f.block,
         g.generate = f.generate, g.head = f.head, g.last = f.last, g.txs = f.txs
  PROVE  Shape(g)
BY FrameTypes
   DEF FirstStep, Shape, OfTx, OfABlock, ToRun, OfBlock, InRun, InBlock, InTx

LEMMA Dumps ==
  ASSUME Types, NEW c \in Call, InitVm(c) \/ WriteDump(c), ~Enter(c)
  PROVE  \E g : Becomes(c, g) /\ Shape(g) /\ g.at = "dump"
<1> DEFINE f == call[c]
<1>1. /\ f \in Frame /\ Shape(f) /\ call \in [Call -> Frame] /\ Rest /\ TypeOK
      /\ f.at \in {"init", "dump"} /\ f.dump \in Seq(Account)
      /\ f.at = "dump" => f.dump # <<>>
  BY InRest, FrameTypes DEF Types, Shapes, InitVm, WriteDump, Shape, OfABlock
<1>2. \E g : Becomes(c, g) /\ Shape(g) /\ g.at = "dump"
  <2>1. PICK d \in Seq(Account) : /\ d # <<>>
                   /\ call' = [call EXCEPT ![c].at = "dump", ![c].dump = d]
    <3>1. CASE InitVm(c)
      BY <3>1 DEF InitVm
    <3>2. CASE WriteDump(c)
      <4>1. call' = [call EXCEPT ![c].dump = Tail(@)] /\ Len(f.dump) > 1 /\ f.at = "dump"
        BY <3>2 DEF WriteDump
      <4>2. PICK d \in Seq(Account) : d = Tail(f.dump)
        BY <1>1, <4>1, Stack
      <4>3. d # <<>>
        <5>1. PICK n \in Nat : n = Len(f.dump)
          BY <1>1
        <5>2. n > 1 /\ Len(d) = n - 1
          BY <1>1, <4>1, <4>2, <5>1, Stack
        <5>3. Len(d) # 0
          BY <5>2
        <5> QED BY <5>3
      <4>4. [f EXCEPT !.dump = d] = [f EXCEPT !.at = "dump", !.dump = d]
        BY <1>1, <4>1 DEF Frame
      <4>5. call' = [call EXCEPT ![c] = [f EXCEPT !.dump = d]]
        BY <1>1, <4>1, <4>2
      <4>6. call' = [call EXCEPT ![c] = [f EXCEPT !.at = "dump", !.dump = d]]
        BY ONLY <4>4, <4>5
      <4> QED BY <1>1, <4>3, <4>6
    <3> QED BY <3>1, <3>2
  <2> DEFINE g == [f EXCEPT !.at = "dump", !.dump = d]
  <2>2. g \in Frame
    BY <1>1 DEF Frame
  <2>3. Shape(g) /\ g.at = "dump"
    BY ZenonT(40), <1>1, <2>1, FrameTypes
       DEF Frame, Shape, OfTx, OfABlock, ToRun, OfBlock, InRun, InBlock, InTx
  <2>4. call' = [call EXCEPT ![c] = g]
    BY <1>1, <2>1
  <2> HIDE DEF g
  <2> QED BY <2>2, <2>3, <2>4 DEF Becomes
<1> QED BY <1>2

LEMMA InitMoves ==
  ASSUME Types, NEW c \in Call, InitVm(c) \/ WriteDump(c)
  PROVE  Moves(c)
<1> DEFINE f == call[c]
<1>1. /\ f \in Frame /\ Shape(f) /\ call \in [Call -> Frame] /\ Rest /\ TypeOK
      /\ f.at \in {"init", "dump"} /\ f.dump \in Seq(Account)
      /\ f.at = "dump" => f.dump # <<>>
  BY InRest, FrameTypes DEF Types, Shapes, InitVm, WriteDump, Shape, OfABlock
<1>2. Rest' /\ saved' = saved /\ leaked' = leaked
  <2>1. CASE InitVm(c)
    BY <1>1, <2>1 DEF InitVm, state, Rest
  <2>2. CASE WriteDump(c)
    <3>1. Head(f.dump) \in Account
      BY <1>1, <2>2, Stack DEF WriteDump
    <3>2. Dumped(world, Head(f.dump)) \in World
      BY <1>1, <3>1, WorldTypes DEF Rest
    <3> QED BY <1>1, <2>2, <3>2 DEF WriteDump, Write, Rest
  <2> QED BY <2>1, <2>2
<1>3. \E g : Becomes(c, g) /\ Shape(g) /\ OpenOf(g) = 0
  <2>1. CASE Enter(c)
    <3>1. PICK g : /\ Becomes(c, g) /\ g.at = FirstStep(f.kind)
                   /\ g.kind = f.kind /\ g.tx = f.tx /\ g.block = f.block
                   /\ g.generate = f.generate
                   /\ g.head = f.head /\ g.last = f.last /\ g.txs = f.txs
      BY <1>1, <1>2, <2>1, Enters DEF Rest
    <3>2. Shape(g) /\ g \in Frame
      BY <1>1, <3>1, EnteredShape DEF Becomes
    <3>3. OpenOf(g) = 0
      BY <1>1, <3>1, <3>2, FrameTypes, OpenIs DEF FirstStep, OfBlock
    <3> QED BY <3>1, <3>2, <3>3
  <2>2. CASE ~Enter(c)
    <3>1. PICK g : Becomes(c, g) /\ Shape(g) /\ g.at = "dump"
      BY <2>2, Dumps
    <3>2. OpenOf(g) = 0
      BY <3>1, OpenIs DEF Becomes
    <3> QED BY <3>1, <3>2
  <2> QED BY <2>1, <2>2
<1>4. PICK g : Becomes(c, g) /\ Shape(g) /\ OpenOf(g) = 0
  BY <1>3
<1>5. OpenOf(f) = 0
  BY <1>1, OpenIs
<1>6. Balanced(f, g)
  BY <1>1, <1>2, <1>4, <1>5 DEF Balanced, Rest
<1> QED BY <1>2, <1>4, <1>6 DEF Moves

\* The frame of a call and what it is, as every step below needs it.
LEMMA Frames ==
  ASSUME Types, NEW c \in Call
  PROVE  /\ call[c] \in Frame /\ Shape(call[c]) /\ call \in [Call -> Frame] /\ Rest /\ TypeOK
         /\ call[c].kind \in {"tx", "call", "code", "block", "chain"}
         /\ call[c].tx \in Tx => Outcome[call[c].tx] \in {"succeeds", "fails", "overflows", "rejected"}
BY InRest, FrameTypes DEF Types, Shapes

\* What the end of a transaction makes of a call, with the block it is of.
LEMMA TxAnswered ==
  ASSUME Types, NEW c \in Call, NEW ok \in BOOLEAN, TxAnswer(c, ok),
         call[c].at \in {"tx", "txEnd", "txThrown"}
  PROVE  \E g : Becomes(c, g) /\ Shape(g) /\ OpenOf(g) = IF OfBlock(call[c]) THEN 1 ELSE 0
<1> DEFINE f == call[c]
<1>1. f \in Frame /\ Shape(f) /\ TypeOK
  BY Frames
<1>2. PICK g : /\ Becomes(c, g)
               /\ \/ f.kind = "tx" /\ Like(g, f) /\ g.at = "answered" /\ g.ok = ok
                  \/ /\ OfBlock(f) /\ ~ok
                     /\ Like(g, f) /\ g.at = "blockThrown"
                  \/ /\ OfBlock(f) /\ ok /\ g.at = "transactions"
                     /\ g.kind = f.kind /\ g.block = f.block
                     /\ g.generate = f.generate /\ g.root = f.root
                     /\ g.head = f.head /\ g.last = f.last
                     /\ g.start = f.start /\ g.txs = Tail(f.txs)
  BY <1>1, TxAnswers
<1>3. CASE f.kind = "tx" /\ Like(g, f) /\ g.at = "answered"
  <2>1. Shape(g)
    BY <1>1, <1>3, LikeShape
  <2>2. OpenOf(g) = 0
    BY <1>2, <1>3, <2>1, OpenIs DEF Becomes
  <2> QED BY <1>2, <1>3, <2>1, <2>2 DEF OfBlock
<1>4. CASE OfBlock(f) /\ Like(g, f) /\ g.at = "blockThrown"
  <2>1. Shape(g)
    BY <1>1, <1>4, LikeShape DEF InBlock, InTx
  <2>2. OpenOf(g) = 1
    BY <1>2, <1>4, <2>1, OpenIs DEF Becomes
  <2> QED BY <1>2, <1>4, <2>1, <2>2
<1>5. CASE /\ OfBlock(f) /\ g.at = "transactions"
           /\ g.kind = f.kind /\ g.block = f.block
           /\ g.generate = f.generate
           /\ g.txs = Tail(f.txs)
  <2>1. f.txs # <<>> /\ f.txs \in Seq(Tx) /\ f.block \in Block
    BY <1>1, <1>5, FrameTypes, RunsTx DEF Shape, OfTx, InRun, InBlock, InTx
  <2>2. PICK n \in Nat, m \in Nat \ {0} : n = Len(Transactions[f.block]) /\ m = Len(f.txs)
    <3>1. Len(Transactions[f.block]) \in Nat /\ Len(f.txs) \in Nat \ {0}
      BY <2>1, Stack
    <3> QED BY <3>1
  <2>3. m <= n /\ \A i \in 1 .. m : f.txs[i] = Transactions[f.block][n - m + i]
    BY <1>1, <1>5, <2>2 DEF Shape, ToRun, InBlock, InTx
  <2>4. Len(g.txs) = m - 1 /\ \A i \in 1 .. m - 1 : g.txs[i] = f.txs[i + 1]
    <3>1. /\ Len(Tail(f.txs)) = Len(f.txs) - 1
          /\ \A i \in 1 .. Len(f.txs) - 1 : Tail(f.txs)[i] = f.txs[i + 1]
      BY <2>1, Stack
    <3>2. m = Len(f.txs) /\ g.txs = Tail(f.txs)
      BY <1>5, <2>2
    <3> QED BY ONLY <3>1, <3>2
  <2>5. \A i \in 1 .. m - 1 : g.txs[i] = Transactions[f.block][n - (m - 1) + i]
    <3>1. ASSUME NEW i \in 1 .. m - 1
          PROVE  i + 1 \in 1 .. m /\ n - m + (i + 1) = n - (m - 1) + i
      OBVIOUS
    <3> QED BY <2>3, <2>4, <3>1
  <2>6. ToRun(g)
    <3>1. m - 1 <= n
      BY <2>3
    <3> QED BY <1>5, <2>2, <2>4, <2>5, <3>1 DEF ToRun
  <2>7. OfTx(g) /\ OfABlock(g)
    BY <1>1, <1>5, <2>1 DEF Shape, OfTx, OfABlock, OfBlock, InRun
  <2>8. Shape(g)
    BY <2>6, <2>7 DEF Shape
  <2>9. OpenOf(g) = 1
    BY <1>2, <1>5, <2>8, OpenIs DEF Becomes
  <2> QED BY <1>2, <1>5, <2>8, <2>9
<1> QED BY <1>2, <1>3, <1>4, <1>5

LEMMA CodeMoves ==
  ASSUME Types, NEW c \in Call, RunCode(c)
  PROVE  Moves(c)
<1> DEFINE f == call[c]
<1>1. f \in Frame /\ Shape(f) /\ Rest /\ TypeOK /\ f.at = "code" /\ f.tx \in Tx
  BY Frames, RunsTx DEF RunCode
<1>2. Rest' /\ saved' = saved /\ leaked' = leaked
  <2>1. Applied(world, f.tx) \in World
    BY <1>1, WorldTypes DEF Rest
  <2> QED BY <1>1, <2>1 DEF RunCode, Write, Rest
<1>3. PICK g : Becomes(c, g) /\ Like(g, f) /\ g.at = "answered"
  BY <1>1, Answers DEF RunCode
<1>4. Shape(g)
  BY <1>1, <1>3, LikeShape
<1>5. OpenOf(f) = 0 /\ OpenOf(g) = 0
  BY <1>1, <1>3, <1>4, OpenIs DEF Becomes
<1> QED BY <1>1, <1>2, <1>3, <1>4, <1>5 DEF Moves, Balanced, Rest

LEMMA TxCheckpointMoves ==
  ASSUME Types, NEW c \in Call, TxCheckpoint(c)
  PROVE  Moves(c)
<1> DEFINE f == call[c]
<1>1. /\ f \in Frame /\ Shape(f) /\ Rest /\ TypeOK /\ f.at = "tx"
      /\ OpenOf(f) = IF OfBlock(f) THEN 1 ELSE 0
      /\ f.kind \in {"tx", "block", "chain"}
  BY Frames, OpenIs DEF TxCheckpoint, Shape, OfTx
<1>2. UNCHANGED <<initialized, headerRoot, stored, begun, leaked>>
  BY DEF TxCheckpoint
<1>3. CASE TxAnswer(c, FALSE) /\ UNCHANGED state
  <2>1. PICK g : Becomes(c, g) /\ Shape(g) /\ OpenOf(g) = IF OfBlock(f) THEN 1 ELSE 0
    BY <1>1, <1>3, TxAnswered
  <2>2. Rest'
    BY <1>1, <1>2, <1>3 DEF Rest, state
  <2> QED BY <1>1, <1>2, <1>3, <2>1, <2>2 DEF Moves, Balanced, Rest, state
<1>4. CASE Checkpoint(world) /\ Goto(c, "upfront")
  <2>1. PICK g : Becomes(c, g) /\ Like(g, f) /\ g.at = "upfront"
    BY <1>1, <1>4, Goes DEF Places
  <2>2. Shape(g)
    BY <1>1, <2>1, LikeShape
  <2>3. OpenOf(g) = IF OfBlock(f) THEN 2 ELSE 1
    BY <2>1, <2>2, OpenIs DEF Becomes, Like, OfBlock
  <2>4. Rest' /\ Len(saved') = Len(saved) + 1
    BY <1>1, <1>2, <1>4, StateSteps DEF Rest
  <2> QED BY <1>1, <1>2, <2>1, <2>2, <2>3, <2>4 DEF Moves, Balanced, Rest
<1> QED BY <1>3, <1>4 DEF TxCheckpoint

LEMMA TxRejectMoves ==
  ASSUME Types, NEW c \in Call, TxReject(c)
  PROVE  Moves(c)
<1> DEFINE f == call[c]
<1>1. /\ f \in Frame /\ Shape(f) /\ Rest /\ TypeOK /\ f.at = "upfront"
      /\ OpenOf(f) = IF OfBlock(f) THEN 2 ELSE 1
      /\ f.kind \in {"tx", "block", "chain"}
  BY Frames, OpenIs DEF TxReject, Shape, OfTx
<1>2. PICK g : Becomes(c, g) /\ Like(g, f) /\ g.at = "txThrown"
  BY <1>1, Goes DEF TxReject, Places
<1>3. Shape(g)
  BY <1>1, <1>2, LikeShape
<1>4. OpenOf(g) = IF OfBlock(f) THEN 2 ELSE 1
  BY <1>2, <1>3, OpenIs DEF Becomes, Like, OfBlock
<1>5. Rest' /\ saved' = saved /\ leaked' = leaked
  BY <1>1 DEF Rest, TxReject, state
<1> QED BY <1>1, <1>2, <1>3, <1>4, <1>5 DEF Moves, Balanced, Rest

LEMMA MessageMoves ==
  ASSUME Types, NEW c \in Call, Message(c)
  PROVE  Moves(c)
<1> DEFINE f == call[c]
<1>1. /\ f \in Frame /\ Shape(f) /\ Rest /\ TypeOK
      /\ \/ f.at = "upfront" /\ Outcome[f.tx] # "rejected" /\ f.kind \in {"tx", "block", "chain"}
         \/ f.at = "call" /\ f.kind = "call"
  BY Frames DEF Message, Shape, OfTx
<1>2. f.tx \in Tx
  BY <1>1, RunsTx DEF InRun
<1>3. OpenOf(f) = IF f.kind = "call" THEN 0 ELSE IF OfBlock(f) THEN 2 ELSE 1
  BY <1>1, OpenIs DEF OfBlock
<1>4. PICK g : Becomes(c, g) /\ Like(g, f) /\ g.at = "message"
  BY <1>1, Goes DEF Message, Places
<1>5. Shape(g)
  BY <1>1, <1>4, LikeShape
<1>6. OpenOf(g) = IF OfBlock(f) THEN 3 ELSE IF f.kind = "call" THEN 1 ELSE 2
  BY <1>4, <1>5, OpenIs DEF Becomes, Like, OfBlock
<1>7. OpenOf(g) = OpenOf(f) + 1
  BY <1>1, <1>3, <1>6 DEF OfBlock
<1>8. Rest' /\ Len(saved') = Len(saved) + 1 /\ leaked' = leaked
  <2>1. Applied(world, f.tx) \in World
    BY <1>1, <1>2, WorldTypes DEF Rest
  <2> QED BY <1>1, <2>1, StateSteps DEF Message, Rest
<1>9. Balanced(f, g)
  <2>1. Len(saved) \in Nat /\ leaked \in Nat /\ OpenOf(f) \in Nat
    BY <1>1, OpenIs DEF Rest
  <2> QED BY <1>7, <1>8, <2>1 DEF Balanced
<1> QED BY <1>4, <1>5, <1>8, <1>9 DEF Moves

LEMMA MessageEndMoves ==
  ASSUME Types, NEW c \in Call, MessageEnd(c)
  PROVE  Moves(c)
<1> DEFINE f == call[c]
           outcome == Outcome[f.tx]
<1>1. /\ f \in Frame /\ Shape(f) /\ Rest /\ TypeOK /\ f.at = "message"
      /\ f.kind \in {"tx", "call", "block", "chain"} /\ f.tx \in Tx
      /\ outcome \in {"succeeds", "fails", "overflows"}
  BY Frames, RunsTx DEF MessageEnd, Shape, OfTx, InRun
<1>2. /\ Rest' /\ Len(saved') + leaked + 1 = Len(saved) + leaked'
  <2>4. UNCHANGED <<initialized, headerRoot, stored, begun>> /\ Len(saved) \in Nat /\ leaked \in Nat
    BY <1>1 DEF MessageEnd, Rest
  <2>1. CASE outcome \in {"succeeds", "fails"}
    <3>1. (Commit \/ Revert) /\ leaked' = leaked
      BY <2>1 DEF MessageEnd
    <3>2. /\ world' \in World /\ saved' \in Seq(World) /\ trie' \in World
          /\ roots' \subseteq World /\ Len(saved') = Len(saved) - 1
      BY <1>1, <3>1, StateSteps DEF Rest
    <3>3. Rest'
      BY ONLY <1>1, <2>4, <3>1, <3>2 DEF Rest
    <3> QED BY ONLY <2>4, <3>1, <3>2, <3>3
  <2>3. CASE outcome = "overflows"
    <3>1. UNCHANGED state /\ leaked' = leaked + 1
      BY <2>3 DEF MessageEnd
    <3>2. UNCHANGED <<world, saved, trie, roots>> /\ leaked' \in Nat
      BY <2>4, <3>1 DEF state
    <3>3. Rest'
      BY ONLY <1>1, <2>4, <3>2 DEF Rest
    <3> QED BY ONLY <2>4, <3>1, <3>2, <3>3
  <2> QED BY <1>1, <2>1, <2>3
<1>3. OpenOf(f) = IF OfBlock(f) THEN 3 ELSE IF f.kind = "call" THEN 1 ELSE 2
  BY <1>1, OpenIs
<1>4. \E g : Becomes(c, g) /\ Shape(g) /\ OpenOf(f) = OpenOf(g) + 1
  <2>1. CASE f.kind = "call"
    <3>1. PICK g : Becomes(c, g) /\ Like(g, f) /\ g.at = "answered"
      BY <1>1, <2>1, Answers DEF MessageEnd
    <3>2. Shape(g)
      BY <1>1, <3>1, LikeShape
    <3>3. OpenOf(g) = 0
      BY <3>1, <3>2, OpenIs DEF Becomes
    <3> QED BY <1>3, <2>1, <3>1, <3>2, <3>3 DEF OfBlock
  <2>2. CASE f.kind # "call"
    <3>4. Goto(c, "txThrown") \/ Goto(c, "txEnd")
      <4>1. CASE outcome = "overflows"
        BY <2>2, <4>1 DEF MessageEnd
      <4>2. CASE outcome # "overflows"
        BY <2>2, <4>2 DEF MessageEnd
      <4> QED BY <4>1, <4>2
    <3>5. TypeOK /\ "txThrown" \in Places /\ "txEnd" \in Places
      BY <1>1 DEF Places
    <3>1. PICK g : Becomes(c, g) /\ Like(g, f) /\ g.at \in {"txThrown", "txEnd"}
      <4>1. CASE Goto(c, "txThrown")
        <5>1. PICK g : Becomes(c, g) /\ Like(g, f) /\ g.at = "txThrown"
          BY <3>5, <4>1, Goes
        <5> QED BY <5>1
      <4>2. CASE Goto(c, "txEnd")
        <5>1. PICK g : Becomes(c, g) /\ Like(g, f) /\ g.at = "txEnd"
          BY <3>5, <4>2, Goes
        <5> QED BY <5>1
      <4> QED BY <3>4, <4>1, <4>2
    <3>2. Shape(g)
      BY <1>1, <2>2, <3>1, LikeShape
    <3>3. OpenOf(g) = IF OfBlock(f) THEN 2 ELSE 1
      BY <3>1, <3>2, OpenIs DEF Becomes, OfBlock, Like
    <3> QED BY <1>3, <2>2, <3>1, <3>2, <3>3
  <2> QED BY <2>1, <2>2
<1>5. PICK g : Becomes(c, g) /\ Shape(g) /\ OpenOf(f) = OpenOf(g) + 1
  BY <1>4
<1>6. Balanced(f, g)
  <2>1. OpenOf(g) \in Nat
    BY <1>5, OpenIs DEF Becomes
  <2>2. Len(saved) \in Nat /\ Len(saved') \in Nat /\ leaked \in Nat /\ leaked' \in Nat
    BY SMTT(30), <1>1, <1>2 DEF Rest
  <2> QED BY <1>2, <1>5, <2>1, <2>2 DEF Balanced
<1> QED BY <1>2, <1>5, <1>6 DEF Moves

LEMMA TxEndMoves ==
  ASSUME Types, NEW c \in Call, TxCommit(c) \/ TxRevert(c)
  PROVE  Moves(c)
<1> DEFINE f == call[c]
<1>1. /\ f \in Frame /\ Shape(f) /\ Rest /\ TypeOK /\ f.at \in {"txEnd", "txThrown"}
      /\ OpenOf(f) = IF OfBlock(f) THEN 2 ELSE 1
  BY Frames, OpenIs DEF TxCommit, TxRevert
<1>2. Rest' /\ Len(saved') = Len(saved) - 1 /\ leaked' = leaked
  <2>1. Commit \/ Revert
    BY DEF TxCommit, TxRevert
  <2>2. UNCHANGED <<initialized, headerRoot, stored, begun, leaked>>
    BY DEF TxCommit, TxRevert
  <2> QED BY <1>1, <2>1, <2>2, StateSteps DEF Rest
<1>3. TxAnswer(c, TRUE) \/ TxAnswer(c, FALSE)
  BY DEF TxCommit, TxRevert
<1>4. PICK g : Becomes(c, g) /\ Shape(g) /\ OpenOf(g) = IF OfBlock(f) THEN 1 ELSE 0
  BY <1>1, <1>3, TxAnswered
<1>5. Balanced(f, g)
  <2>1. Len(saved) \in Nat /\ leaked \in Nat
    BY <1>1 DEF Rest
  <2>2. OpenOf(f) = OpenOf(g) + 1 /\ OpenOf(g) \in Nat
    BY <1>1, <1>4
  <2> QED BY <1>2, <2>1, <2>2 DEF Balanced
<1> QED BY <1>2, <1>4, <1>5 DEF Moves

\* The end of a block.
LEMMA BlockAnswered ==
  ASSUME Types, NEW c \in Call, NEW ok \in BOOLEAN, BlockAnswer(c, ok),
         call[c].at \in {"block", "blockThrown", "header"}
  PROVE  stored' \subseteq Block /\ \E g : Becomes(c, g) /\ Shape(g) /\ OpenOf(g) = 0
<1> DEFINE f == call[c]
<1>1. f \in Frame /\ Shape(f) /\ TypeOK /\ OfBlock(f) /\ f.block \in Block
  BY Frames, RunsTx DEF Shape, OfABlock, InBlock
<1>2. PICK g : /\ Becomes(c, g)
               /\ \/ Like(g, f) /\ g.at = "answered" /\ g.ok = ok
                  \/ /\ f.kind = "chain" /\ g.at = "iterate"
                     /\ g.kind = f.kind /\ g.block = f.block
                     /\ g.generate = f.generate
  <2>1. PICK g : /\ Becomes(c, g)
                 /\ \/ /\ f.kind = "block" \/ ~ok
                       /\ Like(g, f) /\ g.at = "answered" /\ g.ok = ok
                    \/ /\ f.kind = "chain" /\ ok /\ g.at = "iterate"
                       /\ g.kind = f.kind /\ g.block = f.block
                       /\ g.generate = f.generate
                       /\ g.head = f.block /\ g.last = f.last
    BY <1>1, BlockAnswers
  <2> QED BY <2>1
<1>3. Shape(g)
  <2>1. CASE Like(g, f) /\ g.at = "answered"
    BY <1>1, <2>1, LikeShape
  <2>2. CASE /\ f.kind = "chain" /\ g.at = "iterate"
             /\ g.kind = f.kind /\ g.block = f.block
             /\ g.generate = f.generate
    BY <1>1, <2>2 DEF Shape, OfTx, OfABlock, ToRun, OfBlock, InRun, InBlock, InTx
  <2> QED BY <1>2, <2>1, <2>2
<1>4. OpenOf(g) = 0
  BY <1>2, <1>3, OpenIs DEF Becomes
<1>5. stored' \subseteq Block
  BY <1>1, BlockAnswers
<1> QED BY <1>2, <1>3, <1>4, <1>5

LEMMA BlockRootMoves ==
  ASSUME Types, NEW c \in Call, BlockRoot(c)
  PROVE  Moves(c)
<1> DEFINE f == call[c]
<1>1. /\ f \in Frame /\ Shape(f) /\ Rest /\ TypeOK /\ f.at = "block" /\ OpenOf(f) = 0
      /\ Len(saved) \in Nat
  BY Frames, OpenIs DEF BlockRoot, Rest
<1>2. UNCHANGED <<initialized, headerRoot, begun, leaked>>
  BY DEF BlockRoot
<1>3. /\ saved' = saved /\ world' \in World /\ trie' \in World /\ roots' \subseteq World
      /\ \/ Goto(c, "checkpoint") /\ UNCHANGED stored
         \/ BlockAnswer(c, FALSE)
  <2>1. CASE f.root = NoRoot
    BY <1>1, <2>1 DEF BlockRoot, state, Rest
  <2>2. CASE f.root # NoRoot /\ saved # <<>>
    BY <1>1, <2>2 DEF BlockRoot, state, Rest
  <2>3. CASE f.root # NoRoot /\ saved = <<>>
    <3>1. /\ roots' = roots \union {world}
          /\ IF f.root \in roots'
             THEN /\ world' = f.root /\ trie' = f.root
                  /\ Goto(c, "checkpoint") /\ UNCHANGED stored
             ELSE /\ world' = world /\ trie' = world
                  /\ BlockAnswer(c, FALSE)
          /\ UNCHANGED saved
      BY <2>3 DEF BlockRoot
    <3> QED BY <1>1, <3>1 DEF Rest
  <2> QED BY <2>1, <2>2, <2>3
<1>4. stored' \subseteq Block /\ \E g : Becomes(c, g) /\ Shape(g) /\ OpenOf(g) = 0
  <2>1. CASE BlockAnswer(c, FALSE)
    BY <1>1, <2>1, BlockAnswered
  <2>2. CASE Goto(c, "checkpoint") /\ UNCHANGED stored
    <3>1. PICK g : Becomes(c, g) /\ Like(g, f) /\ g.at = "checkpoint"
      BY <1>1, <2>2, Goes DEF Places
    <3>2. Shape(g)
      BY <1>1, <3>1, LikeShape
    <3>3. OpenOf(g) = 0
      BY <3>1, <3>2, OpenIs DEF Becomes
    <3> QED BY <1>1, <2>2, <3>1, <3>2, <3>3 DEF Rest
  <2> QED BY <1>3, <2>1, <2>2
<1>5. PICK g : Becomes(c, g) /\ Shape(g) /\ OpenOf(g) = 0
  BY <1>4
<1>6. Rest'
  BY <1>1, <1>2, <1>3, <1>4 DEF Rest
<1> QED BY <1>1, <1>2, <1>3, <1>5, <1>6 DEF Moves, Balanced, Rest

LEMMA BlockCheckpointMoves ==
  ASSUME Types, NEW c \in Call, BlockCheckpoint(c)
  PROVE  Moves(c)
<1> DEFINE f == call[c]
<1>1. /\ f \in Frame /\ Shape(f) /\ Rest /\ TypeOK /\ f.at = "checkpoint" /\ OpenOf(f) = 0
      /\ Len(saved) \in Nat /\ call \in [Call -> Frame]
  BY Frames, OpenIs DEF BlockCheckpoint, Rest
<1>2. OfBlock(f) /\ f.block \in Block
  BY <1>1, RunsTx DEF Shape, OfABlock
<1>3. Rest' /\ Len(saved') = Len(saved) + 1 /\ leaked' = leaked
  BY <1>1, StateSteps DEF BlockCheckpoint, Rest
<1>4. PICK at \in {"blockThrown", "transactions"} :
        call' = [call EXCEPT ![c].at = at, ![c].txs = Transactions[f.block],
                             ![c].gas = 0, ![c].start = world]
  BY DEF BlockCheckpoint
<1>5. PICK T \in Seq(Tx) : T = Transactions[f.block]
  BY <1>2
<1> DEFINE g == [f EXCEPT !.at = at, !.txs = T, !.gas = 0, !.start = world]
<1>6. g \in Frame
  BY <1>1 DEF Frame, Rest
<1>7. call' = [call EXCEPT ![c] = g]
  BY <1>1, <1>4, <1>5
<1>8. g.at = at /\ g.kind = f.kind /\ g.block = f.block /\ g.generate = f.generate /\ g.txs = T
  BY <1>1 DEF Frame
<1> HIDE DEF g
<1>9. ToRun(g)
  <2>1. PICK n \in Nat : n = Len(T)
    BY Stack
  <2>2. \A i \in 1 .. n : n - n + i = i
    OBVIOUS
  <2> QED BY <1>5, <1>8, <2>1, <2>2 DEF ToRun
<1>10. Shape(g)
  <2>1. OfTx(g)
    BY <1>2, <1>8 DEF OfTx, OfBlock, InRun
  <2>2. OfABlock(g)
    BY <1>1, <1>2, <1>8 DEF Shape, OfABlock, OfBlock
  <2> QED BY <1>9, <2>1, <2>2 DEF Shape
<1>11. OpenOf(g) = 1
  BY <1>6, <1>8, <1>10, OpenIs
<1>12. Balanced(f, g)
  BY <1>1, <1>3, <1>11 DEF Balanced, Rest
<1> QED BY <1>3, <1>6, <1>7, <1>10, <1>12 DEF Moves, Becomes

LEMMA BlockTxMoves ==
  ASSUME Types, NEW c \in Call, BlockTx(c)
  PROVE  Moves(c)
<1> DEFINE f == call[c]
<1>1. /\ f \in Frame /\ Shape(f) /\ Rest /\ TypeOK /\ f.at = "transactions" /\ OpenOf(f) = 1
      /\ Len(saved) \in Nat /\ call \in [Call -> Frame] /\ f.txs # <<>> /\ f.txs \in Seq(Tx)
  <2>1. /\ f \in Frame /\ Shape(f) /\ Rest /\ TypeOK /\ call \in [Call -> Frame]
        /\ f.at = "transactions" /\ f.txs # <<>>
    BY Frames DEF BlockTx
  <2> QED BY <2>1, OpenIs, FrameTypes DEF Rest
<1>2. OfBlock(f) /\ f.block \in Block
  BY <1>1, RunsTx DEF Shape, OfABlock, InBlock
<1>3. Rest' /\ saved' = saved /\ leaked' = leaked
  BY <1>1 DEF BlockTx, Rest, state
<1>4. \E g : Becomes(c, g) /\ Shape(g) /\ OpenOf(g) = 1
  <2>1. CASE Goto(c, "blockThrown")
    <3>1. PICK g : Becomes(c, g) /\ Like(g, f) /\ g.at = "blockThrown"
      BY <1>1, <2>1, Goes DEF Places
    <3>2. Shape(g)
      BY <1>1, <1>2, <3>1, LikeShape DEF InBlock
    <3>3. OpenOf(g) = 1
      BY <3>1, <3>2, OpenIs DEF Becomes
    <3> QED BY <3>1, <3>2, <3>3
  <2>2. CASE call' = [call EXCEPT ![c].at = "tx", ![c].tx = Head(f.txs)]
    <3>1. PICK t \in Tx : t = Head(f.txs)
      BY <1>1, Stack
    <3> DEFINE g == [f EXCEPT !.at = "tx", !.tx = t]
    <3>2. g \in Frame
      BY <1>1 DEF Frame
    <3>3. /\ g.at = "tx" /\ g.kind = f.kind /\ g.block = f.block /\ g.generate = f.generate
          /\ g.txs = f.txs /\ g.tx = t
      BY <1>1 DEF Frame
    <3>4. call' = [call EXCEPT ![c] = g]
      BY <1>1, <2>2, <3>1
    <3> HIDE DEF g
    <3>5. ToRun(g)
      BY <1>1, <1>2, <3>3 DEF Shape, ToRun, OfBlock, InBlock
    <3>6. OfTx(g) /\ OfABlock(g)
      BY <1>1, <1>2, <3>1, <3>3 DEF Shape, OfTx, OfABlock, OfBlock, InRun
    <3>7. Shape(g) /\ OpenOf(g) = 1
      BY <1>2, <3>2, <3>3, <3>5, <3>6, OpenIs DEF Shape, OfBlock
    <3> QED BY <3>2, <3>4, <3>7 DEF Becomes
  <2> QED BY <2>1, <2>2 DEF BlockTx
<1>5. PICK g : Becomes(c, g) /\ Shape(g) /\ OpenOf(g) = 1
  BY <1>4
<1> QED BY <1>1, <1>3, <1>5 DEF Moves, Balanced, Rest

LEMMA BlockEndMoves ==
  ASSUME Types, NEW c \in Call, BlockRewards(c) \/ BlockCommit(c)
  PROVE  Moves(c)
<1> DEFINE f == call[c]
<1>1. /\ f \in Frame /\ Shape(f) /\ Rest /\ TypeOK /\ f.at \in {"transactions", "blockEnd"}
      /\ OpenOf(f) = 1 /\ Len(saved) \in Nat
  BY Frames, OpenIs DEF BlockRewards, BlockCommit, Rest
<1>2. OfBlock(f) /\ f.block \in Block
  BY <1>1, RunsTx DEF Shape, OfABlock, InBlock
<1>3. CASE BlockRewards(c)
  <2>1. Rewarded(world, f.block) \in World
    BY <1>1, <1>2, WorldTypes DEF Rest
  <2>2. Rest' /\ saved' = saved /\ leaked' = leaked
    BY <1>1, <1>3, <2>1 DEF BlockRewards, Write, Rest
  <2>3. PICK g : Becomes(c, g) /\ Like(g, f) /\ g.at = "blockEnd"
    BY <1>1, <1>3, Goes DEF BlockRewards, Places
  <2>4. Shape(g)
    BY <1>1, <1>2, <2>3, LikeShape DEF InBlock
  <2>5. OpenOf(g) = 1
    BY <2>3, <2>4, OpenIs DEF Becomes
  <2> QED BY <1>1, <2>2, <2>3, <2>4, <2>5 DEF Moves, Balanced, Rest
<1>4. CASE BlockCommit(c)
  <2>1. Commit /\ Goto(c, "header") /\ UNCHANGED <<initialized, headerRoot, stored, begun, leaked>>
    BY <1>4 DEF BlockCommit
  <2>2. Rest' /\ Len(saved') = Len(saved) - 1 /\ leaked' = leaked
    BY <1>1, <2>1, StateSteps DEF Rest
  <2>3. PICK g : Becomes(c, g) /\ Like(g, f) /\ g.at = "header"
    BY <1>1, <2>1, Goes DEF Places
  <2>4. Shape(g)
    BY <1>1, <1>2, <2>3, LikeShape DEF InBlock
  <2>5. OpenOf(g) = 0
    BY <2>3, <2>4, OpenIs DEF Becomes
  <2>6. Balanced(f, g)
    BY <1>1, <2>2, <2>5 DEF Balanced, Rest
  <2> QED BY <2>2, <2>3, <2>4, <2>6 DEF Moves
<1> QED BY <1>3, <1>4

LEMMA BlockRevertMoves ==
  ASSUME Types, NEW c \in Call, BlockRevert(c)
  PROVE  Moves(c)
<1> DEFINE f == call[c]
<1>1. /\ f \in Frame /\ Shape(f) /\ Rest /\ TypeOK /\ f.at = "blockThrown"
      /\ OpenOf(f) = 1 /\ Len(saved) \in Nat
  BY Frames, OpenIs DEF BlockRevert, Rest
<1>2. Revert /\ BlockAnswer(c, FALSE) /\ UNCHANGED <<initialized, headerRoot, begun, leaked>>
  BY DEF BlockRevert
<1>3. stored' \subseteq Block
  BY <1>1, <1>2, BlockAnswered
<1>4. PICK g : Becomes(c, g) /\ Shape(g) /\ OpenOf(g) = 0
  BY <1>1, <1>2, BlockAnswered
<1>5. Rest' /\ Len(saved') = Len(saved) - 1 /\ leaked' = leaked
  BY <1>1, <1>2, <1>3, StateSteps DEF Rest
<1>6. Balanced(f, g)
  BY <1>1, <1>4, <1>5 DEF Balanced, Rest
<1> QED BY <1>4, <1>5, <1>6 DEF Moves

LEMMA BlockHeaderMoves ==
  ASSUME Types, NEW c \in Call, BlockHeader(c)
  PROVE  Moves(c)
<1> DEFINE f == call[c]
<1>1. /\ f \in Frame /\ Shape(f) /\ Rest /\ TypeOK /\ f.at = "header"
      /\ OpenOf(f) = 0 /\ Len(saved) \in Nat /\ f.generate \in BOOLEAN
  BY Frames, OpenIs, FrameTypes DEF BlockHeader, Rest
<1>2. f.block \in Block
  BY <1>1, RunsTx DEF Shape, OfABlock
<1>3. /\ UNCHANGED <<initialized, begun, leaked>> /\ saved' = saved /\ world' = world
      /\ trie' \in World /\ roots' \subseteq World /\ headerRoot' \in [Block -> World]
      /\ \E ok \in BOOLEAN : BlockAnswer(c, ok)
  <2>1. CASE saved # <<>>
    BY <1>1, <2>1 DEF BlockHeader, state, Rest
  <2>2. CASE saved = <<>>
    <3>1. /\ UNCHANGED <<world, saved>> /\ Flushed(TRUE)
          /\ IF f.generate THEN headerRoot' = [headerRoot EXCEPT ![f.block] = world]
                           ELSE UNCHANGED headerRoot
          /\ BlockAnswer(c, f.generate \/ HeaderMatches(f, world))
          /\ UNCHANGED <<initialized, begun, leaked>>
      BY <2>2 DEF BlockHeader
    <3>2. (f.generate \/ HeaderMatches(f, world)) \in BOOLEAN
      OBVIOUS
    <3>3. PICK ok \in BOOLEAN : BlockAnswer(c, ok)
      BY <3>1, <3>2
    <3>4. world \in World /\ headerRoot \in [Block -> World] /\ roots \subseteq World
      BY <1>1 DEF Rest
    <3>5. headerRoot' \in [Block -> World]
      BY <3>1, <3>4
    <3>6. trie' \in World /\ roots' \subseteq World
      BY <3>1, <3>4 DEF Flushed
    <3> QED BY <3>1, <3>3, <3>5, <3>6
  <2> QED BY <2>1, <2>2
<1>4. PICK ok \in BOOLEAN : BlockAnswer(c, ok)
  BY <1>3
<1>5. stored' \subseteq Block
  BY <1>1, <1>4, BlockAnswered
<1>6. PICK g : Becomes(c, g) /\ Shape(g) /\ OpenOf(g) = 0
  BY <1>1, <1>4, BlockAnswered
<1>7. Rest'
  BY <1>1, <1>3, <1>5 DEF Rest
<1> QED BY <1>1, <1>3, <1>6, <1>7 DEF Moves, Balanced, Rest

LEMMA IterateMoves ==
  ASSUME Types, NEW c \in Call, NEW b \in Block, Iterate(c, b)
  PROVE  Moves(c)
<1> DEFINE f == call[c]
<1>1. /\ f \in Frame /\ Shape(f) /\ Rest /\ TypeOK /\ f.at = "iterate"
      /\ Len(saved) \in Nat /\ call \in [Call -> Frame] /\ f.head \in Block \cup {NoBlock}
      /\ f.kind = "chain"
  <2>1. /\ f \in Frame /\ Shape(f) /\ Rest /\ TypeOK /\ call \in [Call -> Frame]
        /\ f.at = "iterate"
    BY Frames DEF Iterate
  <2>2. Len(saved) \in Nat /\ f.head \in Block \cup {NoBlock}
    BY <2>1 DEF Rest, Frame
  <2>3. f.kind = "chain"
    BY <2>1 DEF Shape, OfABlock
  <2> QED BY <2>1, <2>2, <2>3
<1>2. OpenOf(f) = 0
  BY <1>1, OpenIs
<1>3. UNCHANGED <<initialized, headerRoot, stored, begun, leaked>> /\ b \in stored
  BY DEF Iterate
<1>4. CASE Answer(c, FALSE) /\ UNCHANGED state
  <2>1. PICK g : Becomes(c, g) /\ Like(g, f) /\ g.at = "answered"
    BY <1>1, <1>4, Answers
  <2>2. Shape(g)
    BY <1>1, <2>1, LikeShape
  <2>3. OpenOf(g) = 0
    BY <2>1, <2>2, OpenIs DEF Becomes
  <2>4. Rest' /\ saved' = saved
    BY <1>1, <1>3, <1>4 DEF Rest, state
  <2> QED BY <1>1, <1>2, <1>3, <2>1, <2>2, <2>3, <2>4 DEF Moves, Balanced, Rest
<1>5. CASE /\ call' = [call EXCEPT ![c].at = "block", ![c].block = b, ![c].last = b,
                                   ![c].root = StartingRoot(f, b)]
           /\ IF f.head = NoBlock /\ GenesisWorld \notin roots
              THEN /\ trie' = WithGenesis(trie)
                   /\ world' = WithGenesis(world)
                   /\ roots' = roots \union {trie'}
                   /\ UNCHANGED saved
              ELSE UNCHANGED state
  <2>1. PICK root \in World : root = StartingRoot(f, b)
    <3>1. GenesisWorld \in World
      BY WorldTypes DEF GenesisWorld
    <3>2. \A d \in Block : headerRoot[d] \in World
      BY <1>1 DEF Rest
    <3>3. StartingRoot(f, b) \in World
      BY <1>1, <3>1, <3>2 DEF StartingRoot, RootOf
    <3> QED BY <3>3
  <2> DEFINE g == [f EXCEPT !.at = "block", !.block = b, !.last = b, !.root = root]
  <2>2. g \in Frame
    BY <1>1 DEF Frame
  <2>3. call' = [call EXCEPT ![c] = g]
    BY <1>1, <1>5, <2>1
  <2>4. g.at = "block" /\ g.kind = "chain" /\ g.block = b /\ g.generate = f.generate
    BY <1>1 DEF Frame
  <2> HIDE DEF g
  <2>5. Shape(g)
    BY <1>1, <2>4 DEF Shape, OfTx, OfABlock, ToRun, OfBlock, InRun, InBlock, InTx
  <2>6. OpenOf(g) = 0
    BY <2>2, <2>4, <2>5, OpenIs
  <2>7. Rest' /\ saved' = saved
    <3>1. WithGenesis(trie) \in World /\ WithGenesis(world) \in World
      BY <1>1, WorldTypes DEF Rest
    <3>2. /\ saved' = saved /\ trie' \in World /\ world' \in World /\ roots' \subseteq World
      BY <1>1, <1>5, <3>1 DEF Rest, state
    <3> QED BY <1>1, <1>3, <3>2 DEF Rest
  <2> QED BY <1>1, <1>2, <1>3, <2>2, <2>3, <2>5, <2>6, <2>7 DEF Moves, Balanced, Rest, Becomes
<1> QED BY <1>4, <1>5 DEF Iterate

LEMMA NoMoreMoves ==
  ASSUME Types, NEW c \in Call, NoMoreBlocks(c)
  PROVE  Moves(c)
<1> DEFINE f == call[c]
<1>1. /\ f \in Frame /\ Shape(f) /\ Rest /\ TypeOK /\ f.at = "iterate" /\ OpenOf(f) = 0
      /\ Len(saved) \in Nat
  BY Frames, OpenIs DEF NoMoreBlocks, Rest
<1>2. Rest' /\ saved' = saved /\ leaked' = leaked
  BY <1>1 DEF NoMoreBlocks, Rest, state
<1>3. PICK g : Becomes(c, g) /\ Like(g, f) /\ g.at = "answered"
  BY <1>1, Answers DEF NoMoreBlocks
<1>4. Shape(g)
  BY <1>1, <1>3, LikeShape
<1>5. OpenOf(g) = 0
  BY <1>3, <1>4, OpenIs DEF Becomes
<1> QED BY <1>1, <1>2, <1>3, <1>4, <1>5 DEF Moves, Balanced, Rest

\* Whatever a call does next, it moves.
LEMMA StepMoves ==
  ASSUME Types, NEW c \in Call, Begin(c) \/ Step(c)
  PROVE  Moves(c)
BY Begins, InitMoves, CodeMoves, TxCheckpointMoves, TxRejectMoves, MessageMoves,
   MessageEndMoves, TxEndMoves, BlockRootMoves, BlockCheckpointMoves, BlockTxMoves,
   BlockEndMoves, BlockRevertMoves, BlockHeaderMoves, IterateMoves, NoMoreMoves
   DEF Step

LEMMA ShapesAfter ==
  Shapes' <=> \A c \in Call : Shape(call'[c])
BY DEF Shapes, Shape, OfTx, OfABlock, ToRun, OfBlock

\* A move keeps the types, and leaves the other calls where they are.
LEMMA MovesKeepTypes ==
  ASSUME Types, NEW c \in Call, Moves(c)
  PROVE  Types'
<1>1. PICK g : Becomes(c, g) /\ Shape(g)
  BY DEF Moves
<1>2. call \in [Call -> Frame] /\ \A d \in Call : Shape(call[d])
  BY Frames
<1>3. call' \in [Call -> Frame]
  BY <1>1, <1>2 DEF Becomes
<1>4. \A d \in Call : call'[d] = IF d = c THEN g ELSE call[d]
  BY <1>1, <1>2 DEF Becomes
<1>5. Shapes'
  BY <1>1, <1>2, <1>4, ShapesAfter
<1>6. TypeOK'
  BY <1>3 DEF TypeOK, Moves, Rest
<1> QED BY <1>5, <1>6 DEF Types

\* A copy begins with what the trie holds and without calls.
LEMMA CopyKeepsTypes ==
  ASSUME Types, Copy
  PROVE  Types' /\ saved' = <<>> /\ leaked' = 0 /\ \A c \in Call : OpenOf(call'[c]) = 0
<1>1. /\ initialized' = FALSE /\ world' = trie /\ saved' = <<>> /\ leaked' = 0
      /\ call' = [c \in Call |-> IdleFrame]
      /\ UNCHANGED <<trie, roots, headerRoot, stored, begun>>
  BY DEF Copy
<1>2. IdleFrame \in Frame
  <2>1. <<>> \in Seq(Account) /\ <<>> \in Seq(Tx) /\ EmptyWorld \in World
    BY WorldTypes
  <2> QED BY <2>1 DEF IdleFrame, Frame
<1>3. TypeOK'
  <2>1. /\ trie \in World /\ roots \subseteq World /\ headerRoot \in [Block -> World]
        /\ stored \subseteq Block /\ begun \in 0..MaxCalls
    BY DEF Types, TypeOK
  <2>2. <<>> \in Seq(World) /\ call' \in [Call -> Frame]
    BY <1>1, <1>2
  <2> QED BY <1>1, <2>1, <2>2 DEF TypeOK
<1>4. Shape(IdleFrame) /\ OpenOf(IdleFrame) = 0
  BY DEF IdleFrame, Shape, OfTx, OfABlock, ToRun, OfBlock, OpenOf, InRun, InBlock, InTx, InMessage
<1>5. Shapes'
  BY <1>1, <1>4, ShapesAfter
<1> QED BY <1>1, <1>3, <1>4, <1>5 DEF Types

LEMMA TypesInit ==
  ASSUME Init
  PROVE  Types /\ \A c \in Call : OpenOf(call[c]) = 0
<1>2. IdleFrame \in Frame
  <2>1. <<>> \in Seq(Account) /\ <<>> \in Seq(Tx) /\ EmptyWorld \in World
    BY WorldTypes
  <2> QED BY <2>1 DEF IdleFrame, Frame
<1>3. TypeOK
  <2>1. EmptyWorld \in World /\ <<>> \in Seq(World) /\ 0 \in 0..MaxCalls
    BY WorldTypes
  <2>2. call \in [Call -> Frame]
    BY <1>2 DEF Init
  <2> QED BY <2>1, <2>2 DEF Init, TypeOK
<1>4. Shape(IdleFrame) /\ OpenOf(IdleFrame) = 0
  BY DEF IdleFrame, Shape, OfTx, OfABlock, ToRun, OfBlock, OpenOf, InRun, InBlock, InTx, InMessage
<1> QED BY <1>3, <1>4 DEF Types, Shapes, Init

-----------------------------------------------------------------------------
(* The checkpoints.                                                        *)

LEMMA OpenIsTotal ==
  /\ MapThenSumSet(Open, Call) = Total(Call, [c \in Call |-> OpenOf(call[c])])
  /\ MapThenSumSet(Open, Call)' = Total(Call, [c \in Call |-> OpenOf(call'[c])])
<1>1. MapThenSumSet(Open, Call) = Total(Call, [c \in Call |-> OpenOf(call[c])])
  <2> DEFINE pick(s) == CHOOSE x \in s : TRUE
             n == [c \in Call |-> OpenOf(call[c])]
  <2>1. MapThenSumSet(Open, Call) =
          (CHOOSE it : it = [s \in SUBSET Call |->
             IF s = {} THEN 0 ELSE Open(pick(s)) + it[s \ {pick(s)}]])[Call]
    BY DEF MapThenSumSet, MapThenFoldSet
  <2>2. Total(Call, n) =
          (CHOOSE it : it = [s \in SUBSET Call |->
             IF s = {} THEN 0 ELSE n[pick(s)] + it[s \ {pick(s)}]])[Call]
    BY DEF Total, Recursion
  <2>3. \A s \in SUBSET Call : s # {} => n[pick(s)] = Open(pick(s))
    BY DEF Open, OpenOf
  <2> HIDE DEF n, pick
  <2>4. ASSUME NEW it
        PROVE  [s \in SUBSET Call |-> IF s = {} THEN 0 ELSE Open(pick(s)) + it[s \ {pick(s)}]]
                 = [s \in SUBSET Call |-> IF s = {} THEN 0 ELSE n[pick(s)] + it[s \ {pick(s)}]]
    BY <2>3
  <2>5. (CHOOSE it : it = [s \in SUBSET Call |->
           IF s = {} THEN 0 ELSE Open(pick(s)) + it[s \ {pick(s)}]])
          = (CHOOSE it : it = [s \in SUBSET Call |->
               IF s = {} THEN 0 ELSE n[pick(s)] + it[s \ {pick(s)}]])
    BY <2>4
  <2>6. MapThenSumSet(Open, Call) = Total(Call, n)
    BY <2>1, <2>2, <2>5
  <2> QED BY <2>6 DEF n
<1>2. MapThenSumSet(Open, Call)' = Total(Call, [c \in Call |-> OpenOf(call'[c])])
  <2> DEFINE pick(s) == CHOOSE x \in s : TRUE
             n == [c \in Call |-> OpenOf(call'[c])]
  <2>1. MapThenSumSet(Open, Call)' =
          (CHOOSE it : it = [s \in SUBSET Call |->
             IF s = {} THEN 0 ELSE Open(pick(s))' + it[s \ {pick(s)}]])[Call]
    BY DEF MapThenSumSet, MapThenFoldSet
  <2>2. Total(Call, n) =
          (CHOOSE it : it = [s \in SUBSET Call |->
             IF s = {} THEN 0 ELSE n[pick(s)] + it[s \ {pick(s)}]])[Call]
    BY DEF Total, Recursion
  <2>3. \A s \in SUBSET Call : s # {} => n[pick(s)] = Open(pick(s))'
    BY DEF Open, OpenOf
  <2> HIDE DEF n, pick
  <2>4. ASSUME NEW it
        PROVE  [s \in SUBSET Call |-> IF s = {} THEN 0 ELSE Open(pick(s))' + it[s \ {pick(s)}]]
                 = [s \in SUBSET Call |-> IF s = {} THEN 0 ELSE n[pick(s)] + it[s \ {pick(s)}]]
    BY <2>3
  <2>5. (CHOOSE it : it = [s \in SUBSET Call |->
           IF s = {} THEN 0 ELSE Open(pick(s))' + it[s \ {pick(s)}]])
          = (CHOOSE it : it = [s \in SUBSET Call |->
               IF s = {} THEN 0 ELSE n[pick(s)] + it[s \ {pick(s)}]])
    BY <2>4
  <2>6. MapThenSumSet(Open, Call)' = Total(Call, n)
    BY <2>1, <2>2, <2>5
  <2> QED BY <2>6 DEF n
<1> QED BY <1>1, <1>2

\* Where no call has a checkpoint open, there is none.
LEMMA NoneOpen ==
  ASSUME IsFiniteSet(Call), NEW n \in [Call -> Nat], \A c \in Call : n[c] = 0
  PROVE  Total(Call, n) = 0
<1>1. Units(Call, n) = {}
  BY DEF Units
<1>2. Total(Call, n) = Cardinality(Units(Call, n))
  BY TotalIsUnits
<1> QED BY <1>1, <1>2, FS_EmptySet

\* However calls overlap and whatever throws, the open checkpoints are those of the
\* calls in progress and the ones executeMessage left behind (runTx.ts, runBlock.ts,
\* runCall.ts): for any number of calls, transactions and blocks.
THEOREM Accounted == ASSUME IsFiniteSet(Call) PROVE Spec => [](Types /\ CheckpointsAccounted)
<1>1. Init => Types /\ CheckpointsAccounted
  <2> SUFFICES ASSUME Init PROVE Types /\ CheckpointsAccounted
    OBVIOUS
  <2> DEFINE n == [c \in Call |-> OpenOf(call[c])]
  <2>1. Types /\ \A c \in Call : OpenOf(call[c]) = 0
    BY TypesInit
  <2>2. n \in [Call -> Nat] /\ \A c \in Call : n[c] = 0
    BY <2>1
  <2>3. MapThenSumSet(Open, Call) = Total(Call, n)
    BY OpenIsTotal
  <2> HIDE DEF n
  <2>4. MapThenSumSet(Open, Call) = 0
    BY <2>2, <2>3, NoneOpen
  <2>5. saved = <<>> /\ leaked = 0
    BY DEF Init
  <2> QED BY <2>1, <2>4, <2>5 DEF CheckpointsAccounted
<1>2. Types /\ CheckpointsAccounted /\ [Next]_vars => (Types /\ CheckpointsAccounted)'
  <2> SUFFICES ASSUME Types, CheckpointsAccounted, [Next]_vars
               PROVE  Types' /\ CheckpointsAccounted'
    OBVIOUS
  <2>1. ASSUME NEW c \in Call, Begin(c) \/ Step(c)
        PROVE  Types' /\ CheckpointsAccounted'
    <3>1. Moves(c)
      BY <2>1, StepMoves
    <3>2. Types'
      BY <3>1, MovesKeepTypes
    <3>3. PICK g : Becomes(c, g) /\ Shape(g) /\ Balanced(call[c], g)
      BY <3>1 DEF Moves
    <3> DEFINE n == [d \in Call |-> OpenOf(call[d])]
               m == [d \in Call |-> OpenOf(call'[d])]
    <3>4. call \in [Call -> Frame] /\ \A d \in Call : OpenOf(call[d]) \in Nat
      BY Frames, OpenIs
    <3>5. call' \in [Call -> Frame] /\ \A d \in Call : call'[d] = IF d = c THEN g ELSE call[d]
      BY <3>3, <3>4 DEF Becomes
    <3>6. OpenOf(g) \in Nat
      BY <3>3, OpenIs DEF Becomes
    <3>7. /\ n \in [Call -> Nat] /\ m \in [Call -> Nat]
          /\ n[c] = OpenOf(call[c]) /\ m[c] = OpenOf(g)
          /\ \A d \in Call \ {c} : n[d] = m[d]
      BY <3>4, <3>5, <3>6
    <3>8. MapThenSumSet(Open, Call) = Total(Call, n) /\ MapThenSumSet(Open, Call)' = Total(Call, m)
      BY OpenIsTotal
    <3> HIDE DEF n, m
    <3>9. Total(Call, m) = Total(Call, n) + m[c] - n[c]
      <4>1. /\ IsFiniteSet(Call) /\ n \in [Call -> Nat] /\ m \in [Call -> Nat] /\ c \in Call
            /\ \A d \in Call \ {c} : n[d] = m[d]
        BY <3>7
      <4> QED BY ONLY <4>1, TotalChanges
    <3>10. Total(Call, n) \in Nat /\ Total(Call, m) \in Nat
      BY <3>7, TotalType
    <3>11. /\ Len(saved) \in Nat /\ leaked \in Nat /\ Len(saved') \in Nat /\ leaked' \in Nat
      BY <3>2, Frames DEF Rest, Types, TypeOK
    <3>12. Len(saved) = Total(Call, n) + leaked
      BY <3>8 DEF CheckpointsAccounted
    <3>13. Len(saved') = Total(Call, m) + leaked'
      <4>1. Len(saved') + leaked + n[c] = Len(saved) + leaked' + m[c]
        BY <3>3, <3>7 DEF Balanced
      <4>2. n[c] \in Nat /\ m[c] \in Nat
        BY <3>7
      <4>3. PICK total \in Nat, sum \in Nat, deep \in Nat, high \in Nat, old \in Nat, new \in Nat,
                 before \in Nat, after \in Nat :
              /\ total = Total(Call, n) /\ sum = Total(Call, m) /\ deep = Len(saved)
              /\ high = Len(saved') /\ old = n[c] /\ new = m[c]
              /\ before = leaked /\ after = leaked'
        BY ONLY <3>10, <3>11, <4>2
      <4>4. /\ high + before + old = deep + after + new /\ sum = total + new - old
            /\ deep = total + before
        BY ONLY <3>9, <3>12, <4>1, <4>3
      <4>5. high = sum + after
        BY ONLY <4>4, total \in Nat, sum \in Nat, deep \in Nat, high \in Nat, old \in Nat,
                new \in Nat, before \in Nat, after \in Nat
      <4> QED BY ONLY <4>3, <4>5
    <3> QED BY <3>2, <3>8, <3>13 DEF CheckpointsAccounted
  <2>2. CASE Copy
    <3> DEFINE m == [d \in Call |-> OpenOf(call'[d])]
    <3>1. Types' /\ saved' = <<>> /\ leaked' = 0 /\ \A c \in Call : OpenOf(call'[c]) = 0
      BY <2>2, CopyKeepsTypes
    <3>2. m \in [Call -> Nat] /\ \A c \in Call : m[c] = 0
      BY <3>1
    <3>3. MapThenSumSet(Open, Call)' = Total(Call, m)
      BY OpenIsTotal
    <3> HIDE DEF m
    <3>4. MapThenSumSet(Open, Call)' = 0
      BY <3>2, <3>3, NoneOpen
    <3> QED BY <3>1, <3>4 DEF CheckpointsAccounted
  <2>3. CASE UNCHANGED vars
    <3>1. /\ call' = call /\ saved' = saved /\ leaked' = leaked
          /\ UNCHANGED <<initialized, world, trie, roots, headerRoot, stored, begun>>
      BY <2>3 DEF vars
    <3>2. MapThenSumSet(Open, Call)' = MapThenSumSet(Open, Call)
      BY <3>1, OpenIsTotal
    <3>3. Shapes'
      BY <3>1, Frames, ShapesAfter
    <3>4. TypeOK'
      BY <3>1 DEF Types, TypeOK
    <3> QED BY <3>1, <3>2, <3>3, <3>4 DEF Types, CheckpointsAccounted
  <2> QED BY <2>1, <2>2, <2>3 DEF Next
<1> QED BY <1>1, <1>2, PTL DEF Spec
-----------------------------------------------------------------------------
(* One call at a time: what it makes of the world.  The world, the stack   *)
(* of checkpoints, the headers and the leaks are parameters, so that what  *)
(* holds before a step and after it is said with one definition.           *)

Harmless == {"succeeds", "fails"}
FirstOf(f) == Len(Transactions[f.block]) - Len(f.txs)
ParentRoot(b, hr) == IF Parent[b] = Genesis THEN GenesisWorld ELSE hr[Parent[b]]

\* The world before the transaction a call runs, and after the whole block.
Before(f) ==
  IF f.kind = "tx" THEN f.start ELSE After(f.start, Transactions[f.block], FirstOf(f))
Whole(f, w) == w = AfterBlock(f.start, f.block) /\ Outcomes(f.block) \subseteq Harmless

\* The world at each place of runTx and runBlock.
RunOf(f, w) ==
  /\ f.at \in {"tx", "upfront"} => w = Before(f)
  /\ f.at = "message" /\ f.kind # "call" => w = Applied(Before(f), f.tx)
  /\ f.at = "txEnd" => w = AfterTx(Before(f), f.tx) /\ Outcome[f.tx] \in Harmless
  /\ f.at = "txThrown" => Outcome[f.tx] \in {"rejected", "overflows"}
  /\ f.at = "transactions" => w = Before(f)
  /\ f.at \in {"blockEnd", "header"} => Whole(f, w)
  /\ f.at = "block" /\ f.kind = "block" => w = f.start
  /\ OfBlock(f) /\ f.at \in InRun \cup {"transactions"} =>
       \A i \in 1 .. FirstOf(f) : Outcome[Transactions[f.block][i]] \in Harmless

\* What its checkpoints bring back.
SavesTx(f, sv) ==
  /\ f.at \in {"upfront", "txEnd", "txThrown"} => Last(sv) = Before(f)
  /\ f.at = "message" /\ f.kind # "call" => Last(sv) = Before(f) /\ Last(Front(sv)) = Before(f)
SavesBlock(f, sv) ==
  OfBlock(f) =>
    /\ f.at \in {"transactions", "tx", "blockEnd"} => Last(sv) = f.start
    /\ f.at \in {"upfront", "txEnd"} => Last(Front(sv)) = f.start
    /\ f.at = "txThrown" /\ Outcome[f.tx] = "rejected" => Last(Front(sv)) = f.start
    /\ f.at = "message" => Last(Front(Front(sv))) = f.start
    /\ f.at = "blockThrown" /\ "overflows" \notin Outcomes(f.block) => Last(sv) = f.start

\* A block of the chain and its parent.
OnParent(f, w, hr) ==
  f.kind = "chain" =>
    /\ f.at = "block" => f.root = ParentRoot(f.block, hr)
    /\ f.at = "checkpoint" => w = ParentRoot(f.block, hr)
    /\ f.at \in InBlock \cup {"header"} => f.start = ParentRoot(f.block, hr)
    /\ f.at = "iterate" => f.head = NoBlock \/ f.head = f.last
    /\ f.at \in InBlock \cup {"block", "checkpoint", "header"} => f.last = f.block

\* What is answered.
End(f, w, lk) ==
  f.at = "answered" =>
    /\ f.ok /\ f.kind = "tx" => w = AfterTx(f.start, f.tx) /\ Outcome[f.tx] \in Harmless
    /\ f.ok /\ f.kind = "block" => Whole(f, w)
    /\ ~f.ok /\ f.kind = "tx" => w = f.start
    /\ ~f.ok /\ f.kind = "block" /\ "overflows" \notin Outcomes(f.block) =>
         /\ w \in {f.start, AfterBlock(f.start, f.block)}
         /\ f.generate /\ lk = 0 => w = f.start

Sound(f, w, sv, hr, lk) ==
  /\ RunOf(f, w) /\ SavesTx(f, sv) /\ SavesBlock(f, sv) /\ OnParent(f, w, hr) /\ End(f, w, lk)

SoundHere(c) == Sound(call[c], world, saved, headerRoot, leaked)
SoundNext(c) == \E g : Becomes(c, g) /\ Sound(g, world', saved', headerRoot', leaked')

\* The transactions of a block, as the frame of a call has them.
LEMMA InItsBlock ==
  ASSUME NEW f \in Frame, Shape(f), OfBlock(f), f.at \in InBlock
  PROVE  /\ f.block \in Block /\ Transactions[f.block] \in Seq(Tx) /\ f.txs \in Seq(Tx)
         /\ FirstOf(f) \in Nat /\ FirstOf(f) <= Len(Transactions[f.block])
         /\ f.txs = <<>> => FirstOf(f) = Len(Transactions[f.block])
         /\ f.txs # <<>> => /\ FirstOf(f) + 1 \in 1 .. Len(Transactions[f.block])
                            /\ Head(f.txs) = Transactions[f.block][FirstOf(f) + 1]
                            /\ Outcome[Head(f.txs)] \in Outcomes(f.block)
                            /\ Head(f.txs) \in Tx
                            /\ Len(Tail(f.txs)) = Len(f.txs) - 1
                            /\ Len(Transactions[f.block]) - Len(Tail(f.txs)) = FirstOf(f) + 1
<1>1. f.block \in Block /\ f.txs \in Seq(Tx)
  BY RunsTx, FrameTypes
<1>2. PICK T \in Seq(Tx) : T = Transactions[f.block]
  BY <1>1
<1>3. PICK n \in Nat, m \in Nat : n = Len(T) /\ m = Len(f.txs)
  BY <1>1, <1>2
<1>4. m <= n /\ \A i \in 1 .. m : f.txs[i] = T[n - m + i]
  BY <1>2, <1>3 DEF Shape, ToRun
<1>5. FirstOf(f) = n - m
  BY ONLY <1>2, <1>3 DEF FirstOf
<1>6. n - m \in Nat /\ n - m <= n
  BY <1>4
<1>7. ASSUME f.txs = <<>> PROVE FirstOf(f) = n
  <2>1. m = 0
    BY <1>3, <1>7
  <2> QED BY <1>5, <2>1
<1>8. ASSUME f.txs # <<>>
      PROVE  /\ FirstOf(f) + 1 \in 1 .. n
             /\ Head(f.txs) = T[FirstOf(f) + 1]
             /\ Outcome[Head(f.txs)] \in Outcomes(f.block)
             /\ Head(f.txs) \in Tx
             /\ Len(Tail(f.txs)) = m - 1
             /\ n - Len(Tail(f.txs)) = FirstOf(f) + 1
  <2>1. /\ Head(f.txs) \in Tx /\ Head(f.txs) = f.txs[1] /\ Len(Tail(f.txs)) = m - 1
        /\ m \in Nat \ {0}
    <3>1. Len(f.txs) \in Nat \ {0} /\ Head(f.txs) \in Tx /\ Head(f.txs) = f.txs[1]
      BY <1>1, <1>8, Stack
    <3>2. Len(Tail(f.txs)) = Len(f.txs) - 1
      BY <1>1, <1>8, Stack
    <3> QED BY ONLY <1>3, <3>1, <3>2
  <2>2. PICK k \in Nat : k = n - m + 1 /\ k \in 1 .. n /\ n - (m - 1) = k
    BY <1>4, <2>1
  <2>3. f.txs[1] = T[k]
    BY <1>4, <2>1, <2>2
  <2>4. T[k] \in Range(T)
    <3>1. DOMAIN T = 1 .. Len(T)
      OBVIOUS
    <3> QED BY <1>3, <2>2, <3>1 DEF Range
  <2>5. Outcome[Head(f.txs)] \in Outcomes(f.block)
    BY <1>2, <2>1, <2>3, <2>4 DEF Outcomes
  <2> QED BY ONLY <1>5, <2>1, <2>2, <2>3, <2>5
<1> QED BY <1>1, <1>2, <1>3, <1>5, <1>6, <1>7, <1>8

\* What is like f is as far in its block.
LEMMA LikeBefore ==
  ASSUME NEW f, NEW g, Like(g, f)
  PROVE  /\ Before(g) = Before(f) /\ FirstOf(g) = FirstOf(f) /\ OfBlock(g) = OfBlock(f)
         /\ \A w : Whole(g, w) = Whole(f, w)
BY ONLY Like(g, f) DEF Like, Before, FirstOf, OfBlock, Whole

\* Before a call begins there is nothing to say of it, nor at the end of one that
\* is not about the world.
LEMMA Silent ==
  ASSUME NEW g, NEW w, NEW sv, NEW hr, NEW lk,
         \/ g.at \in {"idle", "init", "dump", "call", "code"}
         \/ g.at = "answered" /\ g.kind \in {"call", "code", "chain"}
         \/ g.at = "message" /\ g.kind = "call"
         \/ g.at = "checkpoint" /\ g.kind = "block"
  PROVE  Sound(g, w, sv, hr, lk)
<1>1. RunOf(g, w)
  BY DEF RunOf, InRun, OfBlock
<1>2. SavesTx(g, sv) /\ SavesBlock(g, sv)
  BY DEF SavesTx, SavesBlock, OfBlock
<1>3. OnParent(g, w, hr)
  BY DEF OnParent, InBlock, InTx
<1>4. End(g, w, lk)
  BY DEF End
<1> QED BY <1>1, <1>2, <1>3, <1>4 DEF Sound

\* The state manager, under the checkpoints of the calls in progress.
LEMMA StackSteps ==
  ASSUME Types
  PROVE  /\ world \in World /\ saved \in Seq(World)
         /\ Last(Append(saved, world)) = world /\ Front(Append(saved, world)) = saved
<1>1. world \in World /\ saved \in Seq(World)
  BY DEF Types, TypeOK
<1>2. /\ Front(Append(saved, world)) = saved
      /\ Last(Append(saved, world)) = world
  BY ONLY <1>1, Stack
<1> QED BY <1>1, <1>2

LEMMA BeginSound ==
  ASSUME Types, NEW c \in Call, Begin(c) \/ InitVm(c) \/ WriteDump(c)
  PROVE  SoundNext(c)
<1> DEFINE f == call[c]
<1>1. CASE Begin(c)
  BY <1>1, BeginsAt, Silent DEF SoundNext
<1>2. CASE InitVm(c) \/ WriteDump(c)
  <2>1. CASE ~Enter(c)
    BY <1>2, <2>1, Dumps, Silent DEF SoundNext
  <2>2. CASE Enter(c)
    <3>1. /\ f \in Frame /\ Shape(f) /\ TypeOK /\ f.at \in {"init", "dump"} /\ f.head = NoBlock
          /\ f.kind \in {"tx", "call", "code", "block", "chain"}
      BY <1>2, Frames DEF InitVm, WriteDump, Shape, OfABlock
    <3>2. world' \in World
      BY <1>2, InitMoves DEF Moves, Rest
    <3>3. PICK g : /\ Becomes(c, g) /\ g.at = FirstStep(f.kind) /\ g.start = world'
                   /\ g.kind = f.kind /\ g.head = f.head
      BY <2>2, <3>1, <3>2, Enters
    <3>4. CASE f.kind \in {"call", "code"}
      BY <3>3, <3>4, Silent DEF FirstStep, SoundNext
    <3>5. CASE f.kind \in {"tx", "block", "chain"}
      <4>1. \/ g.at = "tx" /\ g.kind = "tx"
            \/ g.at = "block" /\ g.kind = "block"
            \/ g.at = "iterate" /\ g.kind = "chain"
        BY <3>3, <3>5 DEF FirstStep
      <4>2. RunOf(g, world')
        BY <3>3, <4>1 DEF RunOf, Before, InRun, OfBlock
      <4>3. SavesTx(g, saved') /\ SavesBlock(g, saved') /\ End(g, world', leaked')
        BY <4>1 DEF SavesTx, SavesBlock, End, OfBlock
      <4>4. OnParent(g, world', headerRoot')
        BY <3>1, <3>3, <4>1 DEF OnParent, InBlock, InTx
      <4> QED BY <3>3, <4>2, <4>3, <4>4 DEF Sound, SoundNext
    <3> QED BY <3>1, <3>4, <3>5
  <2> QED BY <2>1, <2>2
<1> QED BY <1>1, <1>2

LEMMA CodeSound ==
  ASSUME Types, NEW c \in Call, RunCode(c) \/ NoMoreBlocks(c)
  PROVE  SoundNext(c)
<1> DEFINE f == call[c]
<1>1. TypeOK /\ f.kind \in {"code", "chain"}
  BY Frames DEF RunCode, NoMoreBlocks, Shape, OfTx, OfABlock
<1>2. \E ok \in BOOLEAN : Answer(c, ok)
  BY DEF RunCode, NoMoreBlocks
<1>3. PICK g : Becomes(c, g) /\ Like(g, f) /\ g.at = "answered"
  BY <1>1, <1>2, Answers
<1> QED BY <1>1, <1>3, Silent DEF SoundNext, Like

\* What goes to blockThrown with the checkpoint of its block on top.
LEMMA ThrownSound ==
  ASSUME NEW f, NEW g, Like(g, f), OfBlock(f), g.at = "blockThrown",
         f.at \in InBlock, NEW w, NEW v, NEW sv, NEW hr, NEW lk, OnParent(f, v, hr),
         "overflows" \notin Outcomes(f.block) => Last(sv) = f.start
  PROVE  Sound(g, w, sv, hr, lk)
<1>1. RunOf(g, w)
  BY DEF RunOf, InRun
<1>2. SavesTx(g, sv) /\ End(g, w, lk)
  BY DEF SavesTx, End
<1>3. SavesBlock(g, sv)
  BY DEF SavesBlock, Like
<1>4. OnParent(g, w, hr)
  BY DEF OnParent, Like, InBlock, InTx
<1> QED BY <1>1, <1>2, <1>3, <1>4 DEF Sound

LEMMA TxCheckpointSound ==
  ASSUME Types, NEW c \in Call, SoundHere(c), TxCheckpoint(c)
  PROVE  SoundNext(c)
<1> DEFINE f == call[c]
<1>1. /\ f \in Frame /\ Shape(f) /\ TypeOK /\ f.at = "tx" /\ f.kind \in {"tx", "block", "chain"}
  BY Frames DEF TxCheckpoint, Shape, OfTx
<1>2. headerRoot' = headerRoot /\ leaked' = leaked
  BY DEF TxCheckpoint
<1>3. /\ RunOf(f, world) /\ SavesTx(f, saved) /\ SavesBlock(f, saved)
      /\ OnParent(f, world, headerRoot)
  BY DEF SoundHere, Sound
<1>4. CASE TxAnswer(c, FALSE) /\ UNCHANGED state
  <2>1. PICK g : /\ Becomes(c, g)
                 /\ \/ f.kind = "tx" /\ Like(g, f) /\ g.at = "answered" /\ g.ok = FALSE
                    \/ OfBlock(f) /\ Like(g, f) /\ g.at = "blockThrown"
    <3>1. PICK g : /\ Becomes(c, g)
                   /\ \/ f.kind = "tx" /\ Like(g, f) /\ g.at = "answered" /\ g.ok = FALSE
                      \/ /\ OfBlock(f) /\ ~FALSE
                         /\ Like(g, f) /\ g.at = "blockThrown"
                      \/ /\ OfBlock(f) /\ FALSE /\ g.at = "transactions"
                         /\ g.kind = f.kind /\ g.block = f.block
                         /\ g.generate = f.generate /\ g.root = f.root
                         /\ g.head = f.head /\ g.last = f.last
                         /\ g.start = f.start /\ g.txs = Tail(f.txs)
                         /\ g.gas = f.gas + GasUsed(f.tx)
      BY <1>1, <1>4, TxAnswers
    <3> QED BY <3>1
  <2>2. world' = world /\ saved' = saved
    BY <1>4 DEF state
  <2>3. CASE f.kind = "tx" /\ Like(g, f) /\ g.at = "answered" /\ g.ok = FALSE
    <3>1. world = f.start
      BY <1>1, <1>3, <2>3 DEF RunOf, Before
    <3>2. End(g, world', leaked')
      BY <2>2, <2>3, <3>1 DEF End, Like
    <3>3. RunOf(g, world') /\ SavesTx(g, saved') /\ SavesBlock(g, saved') /\ OnParent(g, world', headerRoot')
      BY <2>3 DEF RunOf, SavesTx, SavesBlock, OnParent, InRun, OfBlock, Like
    <3> QED BY <2>1, <3>2, <3>3 DEF Sound, SoundNext
  <2>4. CASE OfBlock(f) /\ Like(g, f) /\ g.at = "blockThrown"
    <3>1. Last(saved') = f.start
      BY <1>1, <1>3, <2>2, <2>4 DEF SavesBlock
    <3>2. f.at \in InBlock /\ OnParent(f, world, headerRoot')
      BY <1>1, <1>2, <1>3 DEF InBlock
    <3>3. Sound(g, world', saved', headerRoot', leaked')
      BY <2>4, <3>1, <3>2, ThrownSound
    <3> QED BY <2>1, <3>3 DEF SoundNext
  <2> QED BY <2>1, <2>3, <2>4
<1>5. CASE Checkpoint(world) /\ Goto(c, "upfront")
  <2>1. PICK g : Becomes(c, g) /\ Like(g, f) /\ g.at = "upfront"
    BY <1>1, <1>5, Goes DEF Places
  <2>2. world' = world /\ Last(saved') = world /\ Front(saved') = saved
    BY <1>5, StackSteps DEF Checkpoint
  <2>3. world = Before(f) /\ Before(g) = Before(f) /\ FirstOf(g) = FirstOf(f)
    BY <1>1, <1>3, <2>1, LikeBefore DEF RunOf
  <2>4. RunOf(g, world')
    BY <1>1, <1>3, <2>1, <2>2, <2>3 DEF RunOf, InRun, OfBlock, Like
  <2>5. SavesTx(g, saved') /\ End(g, world', leaked')
    BY <2>1, <2>2, <2>3 DEF SavesTx, End
  <2>6. SavesBlock(g, saved')
    BY <1>1, <1>3, <2>1, <2>2 DEF SavesBlock, OfBlock, Like
  <2>7. OnParent(g, world', headerRoot')
    BY <1>1, <1>2, <1>3, <2>1 DEF OnParent, Like, InBlock, InTx
  <2> QED BY <2>1, <2>4, <2>5, <2>6, <2>7 DEF Sound, SoundNext
<1> QED BY <1>4, <1>5 DEF TxCheckpoint

LEMMA TxRejectSound ==
  ASSUME Types, NEW c \in Call, SoundHere(c), TxReject(c)
  PROVE  SoundNext(c)
<1> DEFINE f == call[c]
<1>1. /\ f \in Frame /\ Shape(f) /\ TypeOK /\ f.at = "upfront" /\ f.kind \in {"tx", "block", "chain"}
      /\ Outcome[f.tx] = "rejected"
  BY Frames DEF TxReject, Shape, OfTx
<1>2. headerRoot' = headerRoot /\ leaked' = leaked /\ world' = world /\ saved' = saved
  BY DEF TxReject, state
<1>3. /\ RunOf(f, world) /\ SavesTx(f, saved) /\ SavesBlock(f, saved)
      /\ OnParent(f, world, headerRoot)
  BY DEF SoundHere, Sound
<1>4. PICK g : Becomes(c, g) /\ Like(g, f) /\ g.at = "txThrown"
  BY <1>1, Goes DEF TxReject, Places
<1>5. Before(g) = Before(f) /\ FirstOf(g) = FirstOf(f)
  BY <1>4, LikeBefore
<1>6. RunOf(g, world')
  BY <1>1, <1>3, <1>4, <1>5 DEF RunOf, InRun, OfBlock, Like
<1>7. SavesTx(g, saved') /\ End(g, world', leaked')
  BY <1>1, <1>2, <1>3, <1>4, <1>5 DEF SavesTx, End
<1>8. SavesBlock(g, saved')
  BY <1>1, <1>2, <1>3, <1>4 DEF SavesBlock, OfBlock, Like
<1>9. OnParent(g, world', headerRoot')
  BY <1>1, <1>2, <1>3, <1>4 DEF OnParent, Like, InBlock, InTx
<1> QED BY <1>4, <1>6, <1>7, <1>8, <1>9 DEF Sound, SoundNext

LEMMA MessageSound ==
  ASSUME Types, NEW c \in Call, SoundHere(c), Message(c)
  PROVE  SoundNext(c)
<1> DEFINE f == call[c]
<1>1. /\ f \in Frame /\ Shape(f) /\ TypeOK
      /\ \/ f.at = "upfront" /\ Outcome[f.tx] # "rejected" /\ f.kind \in {"tx", "block", "chain"}
         \/ f.at = "call" /\ f.kind = "call"
  BY Frames DEF Message, Shape, OfTx
<1>2. headerRoot' = headerRoot /\ leaked' = leaked
  BY DEF Message
<1>3. /\ RunOf(f, world) /\ SavesTx(f, saved) /\ SavesBlock(f, saved)
      /\ OnParent(f, world, headerRoot)
  BY DEF SoundHere, Sound
<1>4. PICK g : Becomes(c, g) /\ Like(g, f) /\ g.at = "message"
  BY <1>1, Goes DEF Message, Places
<1>5. CASE f.kind = "call"
  BY <1>4, <1>5, Silent DEF SoundNext, Like
<1>6. CASE f.kind # "call"
  <2>1. f.at = "upfront" /\ f.kind \in {"tx", "block", "chain"}
    BY <1>1, <1>6
  <2>2. world' = Applied(world, f.tx) /\ Last(saved') = world /\ Front(saved') = saved
    BY StackSteps DEF Message, Checkpoint
  <2>3. world = Before(f) /\ Before(g) = Before(f) /\ FirstOf(g) = FirstOf(f) /\ g.tx = f.tx
    BY <1>3, <1>4, <2>1, LikeBefore DEF RunOf, Like
  <2>4. RunOf(g, world')
    BY <1>3, <1>4, <2>1, <2>2, <2>3 DEF RunOf, InRun, OfBlock, Like
  <2>5. SavesTx(g, saved') /\ End(g, world', leaked')
    BY <1>3, <1>4, <2>1, <2>2, <2>3 DEF SavesTx, End
  <2>6. SavesBlock(g, saved')
    BY <1>3, <1>4, <2>1, <2>2 DEF SavesBlock, OfBlock, Like
  <2>7. OnParent(g, world', headerRoot')
    BY <1>2, <1>3, <1>4, <2>1 DEF OnParent, Like, InBlock, InTx
  <2> QED BY <1>4, <2>4, <2>5, <2>6, <2>7 DEF Sound, SoundNext
<1> QED BY <1>5, <1>6

LEMMA MessageEndSound ==
  ASSUME Types, NEW c \in Call, SoundHere(c), MessageEnd(c)
  PROVE  SoundNext(c)
<1> DEFINE f == call[c]
           outcome == Outcome[f.tx]
<1>1. /\ f \in Frame /\ Shape(f) /\ TypeOK /\ f.at = "message"
      /\ f.kind \in {"tx", "call", "block", "chain"} /\ f.tx \in Tx
      /\ outcome \in {"succeeds", "fails", "overflows"}
  BY Frames, RunsTx DEF MessageEnd, Shape, OfTx, InRun
<1>2. headerRoot' = headerRoot
  BY DEF MessageEnd
<1>3. /\ RunOf(f, world) /\ SavesTx(f, saved) /\ SavesBlock(f, saved)
      /\ OnParent(f, world, headerRoot)
  BY DEF SoundHere, Sound
<1>4. CASE f.kind = "call"
  <2>1. PICK g : Becomes(c, g) /\ Like(g, f) /\ g.at = "answered"
    BY <1>1, <1>4, Answers DEF MessageEnd
  <2> QED BY <1>4, <2>1, Silent DEF SoundNext, Like
<1>5. CASE f.kind # "call"
  <2>1. /\ world = Applied(Before(f), f.tx) /\ Last(saved) = Before(f)
        /\ Last(Front(saved)) = Before(f)
        /\ OfBlock(f) => Last(Front(Front(saved))) = f.start
    BY <1>1, <1>3, <1>5 DEF RunOf, SavesTx, SavesBlock
  <2>2. CASE outcome \in Harmless
    <3>1. /\ world' = AfterTx(Before(f), f.tx)
          /\ saved' = Front(saved) /\ Goto(c, "txEnd")
      <4>1. Commit \/ (Revert /\ outcome # "succeeds")
        BY <2>2 DEF MessageEnd, Harmless
      <4>2. Goto(c, "txEnd")
        BY <1>5, <2>2 DEF MessageEnd, Harmless
      <4>3. CASE outcome = "succeeds"
        <5>1. Commit
          BY <4>3 DEF MessageEnd
        <5> QED BY <2>1, <4>2, <4>3, <5>1 DEF Commit, AfterTx
      <4>4. CASE outcome = "fails"
        <5>1. Revert
          BY <4>4 DEF MessageEnd
        <5> QED BY <2>1, <4>2, <4>4, <5>1 DEF Revert, AfterTx
      <4> QED BY <2>2, <4>3, <4>4 DEF Harmless
    <3>2. PICK g : Becomes(c, g) /\ Like(g, f) /\ g.at = "txEnd"
      BY <1>1, <3>1, Goes DEF Places
    <3>3. Before(g) = Before(f) /\ FirstOf(g) = FirstOf(f) /\ g.tx = f.tx
      BY <3>2, LikeBefore DEF Like
    <3>4. RunOf(g, world')
      BY <1>1, <1>3, <2>2, <3>1, <3>2, <3>3 DEF RunOf, InRun, OfBlock, Like
    <3>5. SavesTx(g, saved') /\ End(g, world', leaked')
      BY <2>1, <3>1, <3>2, <3>3 DEF SavesTx, End
    <3>6. SavesBlock(g, saved')
      BY <2>1, <3>1, <3>2 DEF SavesBlock, OfBlock, Like
    <3>7. OnParent(g, world', headerRoot')
      BY <1>1, <1>2, <1>3, <3>2 DEF OnParent, Like, InBlock, InTx
    <3> QED BY <3>2, <3>4, <3>5, <3>6, <3>7 DEF Sound, SoundNext
  <2>3. CASE outcome = "overflows"
    <3>1. world' = world /\ saved' = saved /\ Goto(c, "txThrown")
      BY <1>5, <2>3 DEF MessageEnd, state
    <3>2. PICK g : Becomes(c, g) /\ Like(g, f) /\ g.at = "txThrown"
      BY <1>1, <3>1, Goes DEF Places
    <3>3. Before(g) = Before(f) /\ FirstOf(g) = FirstOf(f) /\ g.tx = f.tx
      BY <3>2, LikeBefore DEF Like
    <3>4. RunOf(g, world')
      BY <1>1, <1>3, <2>3, <3>1, <3>2, <3>3 DEF RunOf, InRun, OfBlock, Like
    <3>5. SavesTx(g, saved') /\ End(g, world', leaked')
      BY <2>1, <3>1, <3>2, <3>3 DEF SavesTx, End
    <3>6. SavesBlock(g, saved')
      BY <2>3, <3>2, <3>3 DEF SavesBlock
    <3>7. OnParent(g, world', headerRoot')
      BY <1>1, <1>2, <1>3, <3>2 DEF OnParent, Like, InBlock, InTx
    <3> QED BY <3>2, <3>4, <3>5, <3>6, <3>7 DEF Sound, SoundNext
  <2> QED BY <1>1, <2>2, <2>3 DEF Harmless
<1> QED BY <1>4, <1>5

LEMMA TxCommitSound ==
  ASSUME Types, NEW c \in Call, SoundHere(c), TxCommit(c)
  PROVE  SoundNext(c)
<1> DEFINE f == call[c]
<1>1. /\ f \in Frame /\ Shape(f) /\ TypeOK /\ f.at = "txEnd" /\ f.kind \in {"tx", "block", "chain"}
  BY Frames DEF TxCommit, Shape, OfTx
<1>2. /\ headerRoot' = headerRoot /\ leaked' = leaked /\ world' = world
      /\ saved' = Front(saved) /\ TxAnswer(c, TRUE)
  BY DEF TxCommit, Commit
<1>3. /\ RunOf(f, world) /\ SavesTx(f, saved) /\ SavesBlock(f, saved)
      /\ OnParent(f, world, headerRoot)
  BY DEF SoundHere, Sound
<1>4. world = AfterTx(Before(f), f.tx) /\ Outcome[f.tx] \in Harmless
  BY <1>1, <1>3 DEF RunOf
<1>5. PICK g : /\ Becomes(c, g)
               /\ \/ f.kind = "tx" /\ Like(g, f) /\ g.at = "answered" /\ g.ok = TRUE
                  \/ /\ OfBlock(f) /\ g.at = "transactions"
                     /\ g.kind = f.kind /\ g.block = f.block
                     /\ g.last = f.last /\ g.start = f.start /\ g.txs = Tail(f.txs)
  <2>1. PICK g : /\ Becomes(c, g)
                 /\ \/ f.kind = "tx" /\ Like(g, f) /\ g.at = "answered" /\ g.ok = TRUE
                    \/ OfBlock(f) /\ ~TRUE /\ Like(g, f) /\ g.at = "blockThrown"
                    \/ /\ OfBlock(f) /\ TRUE /\ g.at = "transactions"
                       /\ g.kind = f.kind /\ g.block = f.block
                       /\ g.generate = f.generate /\ g.root = f.root
                       /\ g.head = f.head /\ g.last = f.last
                       /\ g.start = f.start /\ g.txs = Tail(f.txs)
    BY ZenonT(40), <1>1, <1>2, TxAnswers
  <2> QED BY <2>1
<1>6. CASE f.kind = "tx" /\ Like(g, f) /\ g.at = "answered" /\ g.ok = TRUE
  <2>1. Before(f) = f.start /\ g.start = f.start /\ g.tx = f.tx /\ g.kind = "tx"
    BY <1>6 DEF Before, Like
  <2>2. End(g, world', leaked')
    BY <1>2, <1>4, <1>6, <2>1 DEF End
  <2>3. RunOf(g, world') /\ SavesTx(g, saved') /\ SavesBlock(g, saved') /\ OnParent(g, world', headerRoot')
    BY <1>6, <2>1 DEF RunOf, SavesTx, SavesBlock, OnParent, InRun, OfBlock
  <2> QED BY <1>5, <2>2, <2>3 DEF Sound, SoundNext
<1>7. CASE /\ OfBlock(f) /\ g.at = "transactions"
           /\ g.kind = f.kind /\ g.block = f.block
           /\ g.last = f.last /\ g.start = f.start /\ g.txs = Tail(f.txs)
  <2>1. f.at \in InBlock /\ f.txs # <<>> /\ f.tx = Head(f.txs) /\ OfBlock(g)
    BY <1>1, <1>7 DEF InBlock, InTx, Shape, OfTx, InRun, OfBlock
  <2>2. PICK T \in Seq(Tx) : T = Transactions[f.block]
    BY <1>1, <1>7, <2>1, InItsBlock
  <2>3. PICK k \in Nat : k = FirstOf(f)
    BY <1>1, <1>7, <2>1, InItsBlock
  <2>4. k + 1 \in 1 .. Len(T) /\ f.tx = T[k + 1] /\ FirstOf(g) = k + 1
    <3>1. /\ FirstOf(f) + 1 \in 1 .. Len(Transactions[f.block])
          /\ Head(f.txs) = Transactions[f.block][FirstOf(f) + 1]
          /\ Len(Transactions[f.block]) - Len(Tail(f.txs)) = FirstOf(f) + 1
      BY <1>1, <1>7, <2>1, InItsBlock
    <3>2. FirstOf(g) = Len(Transactions[f.block]) - Len(Tail(f.txs))
      BY ONLY <1>7 DEF FirstOf
    <3> QED BY ONLY <2>1, <2>2, <2>3, <3>1, <3>2
  <2>5. Before(f) = After(f.start, T, k) /\ Before(g) = After(f.start, T, k + 1)
    <3>1. f.kind # "tx" /\ g.kind # "tx"
      BY <1>7 DEF OfBlock
    <3> QED BY ONLY <1>7, <2>2, <2>3, <2>4, <3>1 DEF Before
  <2>6. After(f.start, T, k + 1) = AfterTx(After(f.start, T, k), T[k + 1])
    <3>1. PICK m \in 1 .. Len(T) : m = k + 1
      BY <2>4
    <3>2. After(f.start, T, m) = AfterTx(After(f.start, T, m - 1), T[m])
      <4>1. PICK w : w = f.start
        OBVIOUS
      <4>3. After(w, T, m) = AfterTx(After(w, T, m - 1), T[m])
        BY ONLY AfterIs, T \in Seq(Tx), m \in 1 .. Len(T)
      <4> QED BY ONLY <4>1, <4>3
    <3>3. m - 1 = k
      BY <3>1
    <3> QED BY ONLY <3>1, <3>2, <3>3
  <2>7. world' = Before(g)
    BY <1>2, <1>4, <2>4, <2>5, <2>6
  <2>8. \A i \in 1 .. FirstOf(g) : Outcome[Transactions[g.block][i]] \in Harmless
    <3> SUFFICES ASSUME NEW i \in 1 .. k + 1 PROVE Outcome[T[i]] \in Harmless
      BY <1>7, <2>2, <2>4
    <3>1. \A j \in 1 .. k : Outcome[T[j]] \in Harmless
      BY <1>1, <1>3, <1>7, <2>2, <2>3 DEF RunOf, InRun
    <3>2. CASE i = k + 1
      BY <1>4, <2>4, <3>2
    <3>3. CASE i # k + 1
      BY <3>1, <3>3
    <3> QED BY <3>2, <3>3
  <2>9. RunOf(g, world')
    BY <1>7, <2>1, <2>7, <2>8 DEF RunOf, InRun
  <2>10. SavesTx(g, saved') /\ End(g, world', leaked')
    BY <1>7 DEF SavesTx, End
  <2>11. SavesBlock(g, saved')
    BY <1>1, <1>2, <1>3, <1>7 DEF SavesBlock
  <2>12. OnParent(g, world', headerRoot')
    BY <1>1, <1>2, <1>3, <1>7 DEF OnParent, InBlock, InTx
  <2> QED BY <1>5, <2>9, <2>10, <2>11, <2>12 DEF Sound, SoundNext
<1> QED BY <1>5, <1>6, <1>7

LEMMA TxRevertSound ==
  ASSUME Types, NEW c \in Call, SoundHere(c), TxRevert(c)
  PROVE  SoundNext(c)
<1> DEFINE f == call[c]
<1>1. /\ f \in Frame /\ Shape(f) /\ TypeOK /\ f.at = "txThrown" /\ f.kind \in {"tx", "block", "chain"}
  BY Frames DEF TxRevert, Shape, OfTx
<1>2. /\ headerRoot' = headerRoot /\ leaked' = leaked /\ world' = Last(saved)
      /\ saved' = Front(saved) /\ TxAnswer(c, FALSE)
  BY DEF TxRevert, Revert
<1>3. /\ RunOf(f, world) /\ SavesTx(f, saved) /\ SavesBlock(f, saved)
      /\ OnParent(f, world, headerRoot)
  BY DEF SoundHere, Sound
<1>4. world' = Before(f) /\ Outcome[f.tx] \in {"rejected", "overflows"}
  BY <1>1, <1>2, <1>3 DEF RunOf, SavesTx
<1>5. PICK g : /\ Becomes(c, g)
               /\ \/ f.kind = "tx" /\ Like(g, f) /\ g.at = "answered" /\ g.ok = FALSE
                  \/ OfBlock(f) /\ Like(g, f) /\ g.at = "blockThrown"
  <2>1. PICK g : /\ Becomes(c, g)
                 /\ \/ f.kind = "tx" /\ Like(g, f) /\ g.at = "answered" /\ g.ok = FALSE
                    \/ /\ OfBlock(f) /\ ~FALSE
                       /\ Like(g, f) /\ g.at = "blockThrown"
                    \/ /\ OfBlock(f) /\ FALSE /\ g.at = "transactions"
                       /\ g.kind = f.kind /\ g.block = f.block
                       /\ g.generate = f.generate /\ g.root = f.root
                       /\ g.head = f.head /\ g.last = f.last
                       /\ g.start = f.start /\ g.txs = Tail(f.txs)
                       /\ g.gas = f.gas + GasUsed(f.tx)
    BY <1>1, <1>2, TxAnswers
  <2> QED BY <2>1
<1>6. CASE f.kind = "tx" /\ Like(g, f) /\ g.at = "answered" /\ g.ok = FALSE
  <2>1. Before(f) = f.start /\ g.start = f.start /\ g.kind = "tx"
    BY <1>6 DEF Before, Like
  <2>2. End(g, world', leaked')
    BY <1>4, <1>6, <2>1 DEF End
  <2>3. RunOf(g, world') /\ SavesTx(g, saved') /\ SavesBlock(g, saved') /\ OnParent(g, world', headerRoot')
    BY <1>6, <2>1 DEF RunOf, SavesTx, SavesBlock, OnParent, InRun, OfBlock
  <2> QED BY <1>5, <2>2, <2>3 DEF Sound, SoundNext
<1>7. CASE OfBlock(f) /\ Like(g, f) /\ g.at = "blockThrown"
  <2>1. f.at \in InBlock /\ f.txs # <<>> /\ f.tx = Head(f.txs)
    BY <1>1, <1>7 DEF InBlock, InTx, Shape, OfTx, InRun
  <2>2. Outcome[f.tx] \in Outcomes(f.block)
    BY <1>1, <1>7, <2>1, InItsBlock
  <2>3. "overflows" \notin Outcomes(f.block) => Last(saved') = f.start
    BY <1>1, <1>2, <1>3, <1>4, <1>7, <2>2 DEF SavesBlock
  <2>4. OnParent(f, world, headerRoot')
    BY <1>2, <1>3
  <2>5. Sound(g, world', saved', headerRoot', leaked')
    BY <1>7, <2>1, <2>3, <2>4, ThrownSound
  <2> QED BY <1>5, <2>5 DEF SoundNext
<1> QED BY <1>5, <1>6, <1>7

\* What BlockAnswer leaves to say, once the world it answers with is known.
LEMMA BlockAnswerSound ==
  ASSUME Types, NEW c \in Call, NEW ok \in BOOLEAN, BlockAnswer(c, ok),
         call[c].at \in {"block", "blockThrown", "header"},
         (call[c].kind = "chain" /\ ok) => call[c].last = call[c].block,
         call[c].kind = "block" =>
           \A g : Like(g, call[c]) /\ g.at = "answered" /\ g.ok = ok => End(g, world', leaked')
  PROVE  SoundNext(c)
<1> DEFINE f == call[c]
<1>1. f \in Frame /\ Shape(f) /\ TypeOK /\ OfBlock(f) /\ f.block \in Block
  BY Frames, RunsTx DEF Shape, OfABlock, InBlock
<1>2. PICK g : /\ Becomes(c, g)
               /\ \/ Like(g, f) /\ g.at = "answered" /\ g.ok = ok
                  \/ /\ f.kind = "chain" /\ ok /\ g.at = "iterate"
                     /\ g.kind = f.kind /\ g.head = f.block /\ g.last = f.last
  <2>1. PICK g : /\ Becomes(c, g)
                 /\ \/ /\ f.kind = "block" \/ ~ok
                       /\ Like(g, f) /\ g.at = "answered" /\ g.ok = ok
                    \/ /\ f.kind = "chain" /\ ok /\ g.at = "iterate"
                       /\ g.kind = f.kind /\ g.block = f.block
                       /\ g.generate = f.generate
                       /\ g.head = f.block /\ g.last = f.last
    BY <1>1, BlockAnswers
  <2> QED BY <2>1
<1>3. CASE f.kind = "block"
  <2>1. Like(g, f) /\ g.at = "answered" /\ g.ok = ok /\ g.kind = "block"
    BY <1>2, <1>3 DEF Like
  <2>2. End(g, world', leaked')
    BY <1>3, <2>1
  <2>3. RunOf(g, world') /\ SavesTx(g, saved') /\ SavesBlock(g, saved') /\ OnParent(g, world', headerRoot')
    BY <2>1 DEF RunOf, SavesTx, SavesBlock, OnParent, InRun
  <2> QED BY <1>2, <2>2, <2>3 DEF Sound, SoundNext
<1>4. CASE f.kind = "chain" /\ Like(g, f) /\ g.at = "answered"
  BY <1>2, <1>4, Silent DEF SoundNext, Like
<1>5. CASE /\ f.kind = "chain" /\ ok /\ g.at = "iterate"
           /\ g.kind = f.kind /\ g.head = f.block /\ g.last = f.last
  <2>1. OnParent(g, world', headerRoot')
    BY <1>5 DEF OnParent, InBlock, InTx
  <2>2. RunOf(g, world') /\ SavesTx(g, saved') /\ SavesBlock(g, saved') /\ End(g, world', leaked')
    BY <1>5 DEF RunOf, SavesTx, SavesBlock, End, InRun
  <2> QED BY <1>2, <2>1, <2>2 DEF Sound, SoundNext
<1> QED BY <1>1, <1>2, <1>3, <1>4, <1>5 DEF OfBlock

LEMMA BlockRootSound ==
  ASSUME Types, NEW c \in Call, SoundHere(c), BlockRoot(c)
  PROVE  SoundNext(c)
<1> DEFINE f == call[c]
<1>1. /\ f \in Frame /\ Shape(f) /\ TypeOK /\ f.at = "block" /\ f.kind \in {"block", "chain"}
      /\ f.block \in Block /\ headerRoot \in [Block -> World]
  BY Frames, RunsTx DEF BlockRoot, Shape, OfABlock, OfBlock, TypeOK
<1>2. headerRoot' = headerRoot /\ leaked' = leaked
  BY DEF BlockRoot
<1>3. RunOf(f, world) /\ OnParent(f, world, headerRoot)
  BY DEF SoundHere, Sound
<1>4. f.kind = "chain" =>
        f.root = ParentRoot(f.block, headerRoot) /\ f.last = f.block /\ f.root # NoRoot
  <2> SUFFICES ASSUME f.kind = "chain"
               PROVE  /\ f.root = ParentRoot(f.block, headerRoot) /\ f.last = f.block
                      /\ f.root # NoRoot
    OBVIOUS
  <2>1. f.root = ParentRoot(f.block, headerRoot) /\ f.last = f.block
    BY <1>1, <1>3 DEF OnParent
  <2>2. ParentRoot(f.block, headerRoot) \in World
    BY <1>1, WorldTypes DEF ParentRoot, GenesisWorld
  <2> QED BY <2>1, <2>2
<1>5. CASE Goto(c, "checkpoint") /\ (f.root # NoRoot => world' = f.root)
  <2>1. PICK g : Becomes(c, g) /\ Like(g, f) /\ g.at = "checkpoint"
    BY <1>1, <1>5, Goes DEF Places
  <2>2. CASE f.kind = "block"
    BY <2>1, <2>2, Silent DEF SoundNext, Like
  <2>3. CASE f.kind = "chain"
    <3>1. OnParent(g, world', headerRoot')
      BY <1>2, <1>4, <1>5, <2>1, <2>3 DEF OnParent, Like, InBlock, InTx
    <3>2. RunOf(g, world') /\ SavesTx(g, saved') /\ SavesBlock(g, saved') /\ End(g, world', leaked')
      BY <2>1 DEF RunOf, SavesTx, SavesBlock, End, InRun
    <3> QED BY <2>1, <3>1, <3>2 DEF Sound, SoundNext
  <2> QED BY <1>1, <2>2, <2>3
<1>6. CASE BlockAnswer(c, FALSE) /\ world' = world
  <2>1. ASSUME f.kind = "block", NEW g, Like(g, f), g.at = "answered", g.ok = FALSE
        PROVE  End(g, world', leaked')
    <3>1. world = f.start
      BY <1>1, <1>3, <2>1 DEF RunOf
    <3> QED BY <1>6, <2>1, <3>1 DEF End, Like
  <2> QED BY <1>1, <1>6, <2>1, BlockAnswerSound
<1>7. CASE f.root = NoRoot
  <2>1. Goto(c, "checkpoint")
    BY <1>7 DEF BlockRoot
  <2> QED BY <1>5, <1>7, <2>1
<1>8. CASE f.root # NoRoot /\ saved # <<>>
  <2>1. BlockAnswer(c, FALSE) /\ world' = world
    BY <1>8 DEF BlockRoot, state
  <2> QED BY <1>6, <2>1
<1>9. CASE f.root # NoRoot /\ saved = <<>>
  <2>1. IF f.root \in roots'
        THEN world' = f.root /\ Goto(c, "checkpoint")
        ELSE world' = world /\ BlockAnswer(c, FALSE)
    BY <1>9 DEF BlockRoot
  <2> QED BY <1>5, <1>6, <2>1
<1> QED BY <1>7, <1>8, <1>9

LEMMA BlockCheckpointSound ==
  ASSUME Types, NEW c \in Call, SoundHere(c), BlockCheckpoint(c)
  PROVE  SoundNext(c)
<1> DEFINE f == call[c]
<1>1. /\ f \in Frame /\ Shape(f) /\ TypeOK /\ f.at = "checkpoint" /\ f.kind \in {"block", "chain"}
      /\ f.block \in Block /\ call \in [Call -> Frame]
  BY Frames, RunsTx DEF BlockCheckpoint, Shape, OfABlock, OfBlock
<1>2. /\ headerRoot' = headerRoot /\ leaked' = leaked /\ world' = world
      /\ Last(saved') = world /\ Front(saved') = saved /\ world \in World
  BY StackSteps DEF BlockCheckpoint, Checkpoint
<1>3. OnParent(f, world, headerRoot)
  BY DEF SoundHere, Sound
<1>4. PICK at \in {"blockThrown", "transactions"} :
        call' = [call EXCEPT ![c].at = at, ![c].txs = Transactions[f.block],
                             ![c].gas = 0, ![c].start = world]
  BY DEF BlockCheckpoint
<1>5. PICK T \in Seq(Tx) : T = Transactions[f.block]
  BY <1>1
<1> DEFINE g == [f EXCEPT !.at = at, !.txs = T, !.gas = 0, !.start = world]
<1>6. g \in Frame
  BY <1>1, <1>2 DEF Frame
<1>7. call' = [call EXCEPT ![c] = g]
  BY <1>1, <1>4, <1>5
<1>8. /\ g.at = at /\ g.kind = f.kind /\ g.block = f.block /\ g.txs = T /\ g.start = world
      /\ g.last = f.last
  BY <1>1 DEF Frame
<1> HIDE DEF g
<1>9. FirstOf(g) = 0
  <2>1. PICK n \in Nat : n = Len(T)
    BY Stack
  <2>2. FirstOf(g) = n - n
    BY ONLY <1>5, <1>8, <2>1 DEF FirstOf
  <2> QED BY <2>2
<1>10. Before(g) = world
  <2>1. g.kind # "tx" /\ Transactions[g.block] = T
    BY <1>1, <1>5, <1>8
  <2>2. Before(g) = After(world, T, 0)
    BY ONLY <1>8, <1>9, <2>1 DEF Before
  <2> QED BY <2>2, AfterIs
<1>11. RunOf(g, world')
  BY <1>2, <1>8, <1>9, <1>10 DEF RunOf, InRun
<1>12. SavesTx(g, saved') /\ SavesBlock(g, saved') /\ End(g, world', leaked')
  BY <1>2, <1>8 DEF SavesTx, SavesBlock, End
<1>13. OnParent(g, world', headerRoot')
  BY <1>1, <1>2, <1>3, <1>8 DEF OnParent, InBlock, InTx
<1> QED BY <1>6, <1>7, <1>11, <1>12, <1>13 DEF Sound, SoundNext, Becomes

LEMMA BlockTxSound ==
  ASSUME Types, NEW c \in Call, SoundHere(c), BlockTx(c)
  PROVE  SoundNext(c)
<1> DEFINE f == call[c]
<1>1. /\ f \in Frame /\ Shape(f) /\ TypeOK /\ f.at = "transactions" /\ f.kind \in {"block", "chain"}
      /\ call \in [Call -> Frame] /\ f.txs # <<>> /\ f.txs \in Seq(Tx) /\ OfBlock(f)
  <2>1. f \in Frame /\ Shape(f) /\ TypeOK /\ call \in [Call -> Frame]
    BY Frames
  <2>2. f.at = "transactions" /\ f.txs # <<>>
    BY DEF BlockTx
  <2> QED BY <2>1, <2>2, FrameTypes DEF Shape, OfABlock, OfBlock
<1>2. headerRoot' = headerRoot /\ leaked' = leaked /\ world' = world /\ saved' = saved
  BY DEF BlockTx, state
<1>3. RunOf(f, world) /\ SavesBlock(f, saved) /\ OnParent(f, world, headerRoot)
  BY DEF SoundHere, Sound
<1>4. Last(saved') = f.start
  BY <1>1, <1>2, <1>3 DEF SavesBlock
<1>5. CASE Goto(c, "blockThrown")
  <2>1. PICK g : Becomes(c, g) /\ Like(g, f) /\ g.at = "blockThrown"
    BY <1>1, <1>5, Goes DEF Places
  <2>2. f.at \in InBlock /\ OnParent(f, world, headerRoot')
    BY <1>1, <1>2, <1>3 DEF InBlock
  <2>3. Sound(g, world', saved', headerRoot', leaked')
    BY <1>1, <1>4, <2>1, <2>2, ThrownSound
  <2> QED BY <2>1, <2>3 DEF SoundNext
<1>6. CASE call' = [call EXCEPT ![c].at = "tx", ![c].tx = Head(f.txs)]
  <2>1. PICK t \in Tx : t = Head(f.txs)
    BY <1>1, Stack
  <2> DEFINE g == [f EXCEPT !.at = "tx", !.tx = t]
  <2>2. g \in Frame
    BY <1>1 DEF Frame
  <2>3. /\ g.at = "tx" /\ g.kind = f.kind /\ g.block = f.block /\ g.txs = f.txs
        /\ g.start = f.start /\ g.last = f.last
    BY <1>1 DEF Frame
  <2>4. call' = [call EXCEPT ![c] = g]
    BY <1>1, <1>6, <2>1
  <2> HIDE DEF g
  <2>5. Before(g) = Before(f) /\ FirstOf(g) = FirstOf(f)
    BY ONLY <2>3 DEF Before, FirstOf
  <2>6. RunOf(g, world')
    BY <1>1, <1>2, <1>3, <2>3, <2>5 DEF RunOf, InRun
  <2>7. SavesTx(g, saved') /\ SavesBlock(g, saved') /\ End(g, world', leaked')
    BY <1>4, <2>3 DEF SavesTx, SavesBlock, End
  <2>8. OnParent(g, world', headerRoot')
    BY <1>1, <1>2, <1>3, <2>3 DEF OnParent, InBlock, InTx
  <2> QED BY <2>2, <2>4, <2>6, <2>7, <2>8 DEF Sound, SoundNext, Becomes
<1> QED BY <1>5, <1>6 DEF BlockTx

LEMMA BlockEndSound ==
  ASSUME Types, NEW c \in Call, SoundHere(c), BlockRewards(c) \/ BlockCommit(c)
  PROVE  SoundNext(c)
<1> DEFINE f == call[c]
<1>1. /\ f \in Frame /\ Shape(f) /\ TypeOK /\ f.kind \in {"block", "chain"} /\ OfBlock(f)
      /\ f.block \in Block /\ f.at \in {"transactions", "blockEnd"}
  <2>1. f \in Frame /\ Shape(f) /\ TypeOK
    BY Frames
  <2>2. f.at \in {"transactions", "blockEnd"}
    BY DEF BlockRewards, BlockCommit
  <2> QED BY <2>1, <2>2, RunsTx DEF Shape, OfABlock, OfBlock, InBlock
<1>2. headerRoot' = headerRoot /\ leaked' = leaked
  BY DEF BlockRewards, BlockCommit
<1>3. RunOf(f, world) /\ SavesBlock(f, saved) /\ OnParent(f, world, headerRoot)
  BY DEF SoundHere, Sound
<1>4. CASE BlockRewards(c)
  <2>1. /\ f.at = "transactions" /\ f.txs = <<>> /\ world' = Rewarded(world, f.block)
        /\ saved' = saved /\ Goto(c, "blockEnd")
    BY <1>4 DEF BlockRewards, Write
  <2>2. PICK T \in Seq(Tx) : T = Transactions[f.block]
    BY <1>1
  <2>3. FirstOf(f) = Len(T)
    BY <1>1, <2>1, <2>2, InItsBlock DEF InBlock
  <2>4. world = After(f.start, T, Len(T))
    <3>1. world = Before(f) /\ f.kind # "tx"
      BY <1>1, <1>3, <2>1 DEF RunOf
    <3> QED BY ONLY <2>2, <2>3, <3>1 DEF Before
  <2>5. FoldLeft(AfterTx, f.start, T) = After(f.start, T, Len(T))
    BY AfterIs
  <2>6. world' = AfterBlock(f.start, f.block)
    BY ONLY <2>1, <2>2, <2>4, <2>5 DEF AfterBlock
  <2>7. Outcomes(f.block) \subseteq Harmless
    <3>1. \A i \in 1 .. Len(T) : Outcome[T[i]] \in Harmless
      BY <1>1, <1>3, <2>1, <2>2, <2>3 DEF RunOf
    <3>2. DOMAIN T = 1 .. Len(T)
      BY <2>2
    <3> QED BY ONLY <2>2, <3>1, <3>2 DEF Outcomes, Range
  <2>8. PICK g : Becomes(c, g) /\ Like(g, f) /\ g.at = "blockEnd"
    BY <1>1, <2>1, Goes DEF Places
  <2>9. Whole(g, world')
    BY <2>6, <2>7, <2>8, LikeBefore DEF Whole
  <2>10. RunOf(g, world')
    BY <2>8, <2>9 DEF RunOf, InRun
  <2>11. SavesTx(g, saved') /\ SavesBlock(g, saved') /\ End(g, world', leaked')
    BY <1>1, <1>3, <2>1, <2>8 DEF SavesTx, SavesBlock, End, Like
  <2>12. OnParent(g, world', headerRoot')
    BY <1>1, <1>2, <1>3, <2>1, <2>8 DEF OnParent, InBlock, InTx, Like
  <2> QED BY <2>8, <2>10, <2>11, <2>12 DEF Sound, SoundNext
<1>5. CASE BlockCommit(c)
  <2>1. f.at = "blockEnd" /\ world' = world /\ Goto(c, "header")
    BY <1>5 DEF BlockCommit, Commit
  <2>2. PICK g : Becomes(c, g) /\ Like(g, f) /\ g.at = "header"
    BY <1>1, <2>1, Goes DEF Places
  <2>3. Whole(g, world')
    BY <1>3, <2>1, <2>2, LikeBefore DEF RunOf
  <2>4. RunOf(g, world')
    BY <2>2, <2>3 DEF RunOf, InRun
  <2>5. SavesTx(g, saved') /\ SavesBlock(g, saved') /\ End(g, world', leaked')
    BY <2>2 DEF SavesTx, SavesBlock, End
  <2>6. OnParent(g, world', headerRoot')
    BY <1>1, <1>2, <1>3, <2>1, <2>2 DEF OnParent, InBlock, InTx, Like
  <2> QED BY <2>2, <2>4, <2>5, <2>6 DEF Sound, SoundNext
<1> QED BY <1>4, <1>5

LEMMA BlockRevertSound ==
  ASSUME Types, NEW c \in Call, SoundHere(c), BlockRevert(c)
  PROVE  SoundNext(c)
<1> DEFINE f == call[c]
<1>1. f.at = "blockThrown" /\ world' = Last(saved) /\ leaked' = leaked /\ BlockAnswer(c, FALSE)
  BY DEF BlockRevert, Revert
<1>2. SavesBlock(f, saved)
  BY DEF SoundHere, Sound
<1>3. ASSUME f.kind = "block", NEW g, Like(g, f), g.at = "answered", g.ok = FALSE
      PROVE  End(g, world', leaked')
  <2>1. "overflows" \notin Outcomes(f.block) => world' = f.start
    BY <1>1, <1>2, <1>3 DEF SavesBlock, OfBlock
  <2> QED BY <1>3, <2>1 DEF End, Like
<1> QED BY <1>1, <1>3, BlockAnswerSound

\* Only a checkpoint that leaked keeps runBlock from the header.
LEMMA BlockHeaderSound ==
  ASSUME Types, NEW c \in Call, SoundHere(c), BlockHeader(c), leaked = 0 => saved = <<>>
  PROVE  SoundNext(c)
<1> DEFINE f == call[c]
<1>1. /\ f \in Frame /\ Shape(f) /\ TypeOK /\ f.at = "header" /\ f.generate \in BOOLEAN
  <2>1. f \in Frame /\ Shape(f) /\ TypeOK
    BY Frames
  <2> QED BY <2>1, FrameTypes DEF BlockHeader
<1>2. Whole(f, world) /\ OnParent(f, world, headerRoot)
  BY <1>1 DEF SoundHere, Sound, RunOf
<1>3. /\ leaked' = leaked /\ world' = world
      /\ \E ok \in BOOLEAN : BlockAnswer(c, ok) /\ (f.generate /\ leaked = 0 => ok)
  <2>1. CASE saved # <<>>
    BY <2>1 DEF BlockHeader, state
  <2>2. CASE saved = <<>>
    <3>1. UNCHANGED <<world, saved>> /\ leaked' = leaked
          /\ BlockAnswer(c, f.generate \/ HeaderMatches(f, world))
      BY <2>2 DEF BlockHeader
    <3>2. PICK ok \in BOOLEAN : ok = (f.generate \/ HeaderMatches(f, world))
      OBVIOUS
    <3>3. BlockAnswer(c, ok) /\ (f.generate => ok)
      BY <3>1, <3>2
    <3> QED BY <3>1, <3>3
  <2> QED BY <2>1, <2>2
<1>4. PICK ok \in BOOLEAN : BlockAnswer(c, ok) /\ (f.generate /\ leaked = 0 => ok)
  BY <1>3
<1>5. f.kind = "chain" => f.last = f.block
  BY <1>1, <1>2 DEF OnParent
<1>6. ASSUME f.kind = "block", NEW g, Like(g, f), g.at = "answered", g.ok = ok
      PROVE  End(g, world', leaked')
  <2>1. Whole(g, world')
    BY <1>2, <1>3, <1>6, LikeBefore
  <2>2. g.kind = "block" /\ (g.generate /\ leaked' = 0 => g.ok)
    BY <1>3, <1>4, <1>6 DEF Like
  <2>3. world' \in {g.start, AfterBlock(g.start, g.block)}
    BY <2>1 DEF Whole
  <2> QED BY <2>1, <2>2, <2>3 DEF End
<1> QED BY <1>1, <1>4, <1>5, <1>6, BlockAnswerSound

LEMMA IterateSound ==
  ASSUME Types, NEW c \in Call, SoundHere(c), NEW b \in Block, Iterate(c, b)
  PROVE  SoundNext(c)
<1> DEFINE f == call[c]
<1>1. /\ f \in Frame /\ Shape(f) /\ TypeOK /\ f.at = "iterate" /\ f.kind = "chain"
      /\ call \in [Call -> Frame] /\ headerRoot \in [Block -> World]
      /\ f.head \in Block \cup {NoBlock}
  <2>1. f \in Frame /\ Shape(f) /\ TypeOK /\ call \in [Call -> Frame] /\ f.at = "iterate"
    BY Frames DEF Iterate
  <2>2. f.head \in Block \cup {NoBlock}
    BY <2>1 DEF Frame
  <2> QED BY <2>1, <2>2 DEF Shape, OfABlock, TypeOK
<1>2. headerRoot' = headerRoot
  BY DEF Iterate
<1>3. f.head = NoBlock \/ f.head = f.last
  BY <1>1 DEF SoundHere, Sound, OnParent
<1>4. CASE Answer(c, FALSE)
  <2>1. PICK g : Becomes(c, g) /\ Like(g, f) /\ g.at = "answered"
    BY <1>1, <1>4, Answers
  <2> QED BY <1>1, <2>1, Silent DEF SoundNext, Like
<1>5. CASE call' = [call EXCEPT ![c].at = "block", ![c].block = b, ![c].last = b,
                                ![c].root = StartingRoot(f, b)]
  <2>1. StartingRoot(f, b) = ParentRoot(b, headerRoot)
    <3>1. CASE f.head = NoBlock \/ Parent[b] # f.last
      BY <3>1 DEF StartingRoot, RootOf, ParentRoot
    <3>2. CASE f.head # NoBlock /\ Parent[b] = f.last
      <4>1. Parent[b] = f.head /\ f.head \in Block
        BY <1>1, <1>3, <3>2
      <4>2. Parent[b] # Genesis
        BY <4>1
      <4> QED BY <3>2, <4>1, <4>2 DEF StartingRoot, ParentRoot
    <3> QED BY <3>1, <3>2
  <2>2. PICK root \in World : root = ParentRoot(b, headerRoot)
    <3>1. ParentRoot(b, headerRoot) \in World
      BY <1>1, WorldTypes DEF ParentRoot, GenesisWorld
    <3> QED BY <3>1
  <2> DEFINE g == [f EXCEPT !.at = "block", !.block = b, !.last = b, !.root = root]
  <2>3. g \in Frame
    BY <1>1 DEF Frame
  <2>4. call' = [call EXCEPT ![c] = g]
    BY <1>1, <1>5, <2>1, <2>2
  <2>5. g.at = "block" /\ g.kind = "chain" /\ g.block = b /\ g.last = b /\ g.root = root
    BY <1>1 DEF Frame
  <2> HIDE DEF g
  <2>6. OnParent(g, world', headerRoot')
    BY <1>2, <2>2, <2>5 DEF OnParent, InBlock, InTx
  <2>7. RunOf(g, world') /\ SavesTx(g, saved') /\ SavesBlock(g, saved') /\ End(g, world', leaked')
    BY <2>5 DEF RunOf, SavesTx, SavesBlock, End, InRun
  <2> QED BY <2>3, <2>4, <2>6, <2>7 DEF Sound, SoundNext, Becomes
<1> QED BY <1>4, <1>5 DEF Iterate

\* The only call there is has no checkpoint open outside the checkpoint of runBlock:
\* what is open then was leaked.
LEMMA NothingSaved ==
  ASSUME NEW v, Call = {v}, Types, CheckpointsAccounted, leaked = 0,
         call[v].at \in {"block", "header"}
  PROVE  saved = <<>>
<1>1. v \in Call /\ IsFiniteSet(Call)
  BY FS_Singleton
<1> DEFINE n == [c \in Call |-> OpenOf(call[c])]
<1>2. OpenOf(call[v]) = 0
  BY <1>1, Frames, OpenIs
<1>3. n \in [Call -> Nat] /\ \A c \in Call : n[c] = 0
  BY <1>2
<1>4. MapThenSumSet(Open, Call) = Total(Call, n)
  BY OpenIsTotal
<1> HIDE DEF n
<1>5. MapThenSumSet(Open, Call) = 0
  BY <1>1, <1>3, <1>4, NoneOpen
<1>6. Len(saved) = 0 /\ saved \in Seq(World)
  BY <1>5 DEF CheckpointsAccounted, Types, TypeOK
<1> QED BY <1>6

\* What holds of the only call there is goes on holding.
LEMMA SoundStep ==
  ASSUME NEW v, Call = {v}, Types, CheckpointsAccounted, SoundHere(v), [Next]_vars
  PROVE  SoundHere(v)'
<1>1. /\ v \in Call /\ call \in [Call -> Frame] /\ call[v] \in Frame /\ Shape(call[v])
      /\ IsFiniteSet(Call)
  <2>1. v \in Call /\ IsFiniteSet(Call)
    BY FS_Singleton
  <2> QED BY <2>1, Frames
<1>2. call[v].at = "header" => (leaked = 0 => saved = <<>>)
  BY <1>1, NothingSaved
<1>3. SoundNext(v) => SoundHere(v)'
  <2> SUFFICES ASSUME SoundNext(v) PROVE SoundHere(v)'
    OBVIOUS
  <2>1. PICK g : Becomes(v, g) /\ Sound(g, world', saved', headerRoot', leaked')
    BY DEF SoundNext
  <2>2. call'[v] = g
    BY <1>1, <2>1 DEF Becomes
  <2>3. Sound(call'[v], world', saved', headerRoot', leaked')
    BY <2>1, <2>2
  <2> QED BY <2>3 DEF SoundHere, Sound, RunOf, SavesTx, SavesBlock, OnParent, End, Before,
             Whole, FirstOf, OfBlock
<1>4. CASE Begin(v) \/ Step(v)
  <2>1. SoundNext(v)
    BY <1>1, <1>2, <1>4, BeginSound, CodeSound, TxCheckpointSound, TxRejectSound, MessageSound,
       MessageEndSound, TxCommitSound, TxRevertSound, BlockRootSound, BlockCheckpointSound,
       BlockTxSound, BlockEndSound, BlockRevertSound, BlockHeaderSound, IterateSound
       DEF Step, BlockHeader
  <2> QED BY <1>3, <2>1
<1>5. CASE Copy
  <2>1. call'[v].at = "idle"
    BY <1>1, <1>5 DEF Copy, IdleFrame
  <2>2. Sound(call'[v], world', saved', headerRoot', leaked')
    BY <2>1, Silent
  <2> QED BY <2>2 DEF SoundHere, Sound, RunOf, SavesTx, SavesBlock, OnParent, End, Before,
             Whole, FirstOf, OfBlock
<1>6. CASE UNCHANGED vars
  <2>1. call' = call /\ world' = world /\ saved' = saved /\ headerRoot' = headerRoot /\ leaked' = leaked
    BY <1>6 DEF vars
  <2>2. Sound(call'[v], world', saved', headerRoot', leaked')
    BY <2>1 DEF SoundHere
  <2> QED BY <2>2 DEF SoundHere, Sound, RunOf, SavesTx, SavesBlock, OnParent, End, Before,
             Whole, FirstOf, OfBlock
<1> QED BY <1>4, <1>5, <1>6 DEF Next

\* One call at a time, the world is what the transactions committed so far make of it,
\* and each open checkpoint brings back what its transaction or block began with.
THEOREM OneCall ==
  ASSUME NEW CONSTANT v, Call = {v} PROVE Spec => [](Types /\ CheckpointsAccounted /\ SoundHere(v))
<1>1. IsFiniteSet(Call)
  BY FS_Singleton
<1>2. Spec => [](Types /\ CheckpointsAccounted)
  BY <1>1, Accounted
<1>3. Init => SoundHere(v)
  <2> SUFFICES ASSUME Init PROVE SoundHere(v)
    OBVIOUS
  <2>1. call[v].at = "idle"
    BY DEF Init, IdleFrame
  <2> QED BY <2>1, Silent DEF SoundHere
<1>4. Types /\ CheckpointsAccounted /\ SoundHere(v) /\ [Next]_vars => SoundHere(v)'
  BY SoundStep
<1> QED BY <1>2, <1>3, <1>4, PTL DEF Spec

\* A block of the chain runs on the state of its parent, through every reorganisation
\* (runBlockchain.ts: getStartingState).
THEOREM ParentFirst == ASSUME NEW CONSTANT v, Call = {v} PROVE Spec => []RunsOnParent
<1>1. SoundHere(v) => RunsOnParent
  BY DEF SoundHere, Sound, OnParent, RunsOnParent, RootOf, ParentRoot
<1>2. Spec => [](Types /\ CheckpointsAccounted /\ SoundHere(v))
  BY OneCall
<1> QED BY <1>1, <1>2, PTL

\* What is answered without error is what was asked for: a transaction that took effect
\* or failed within its message, a block with all of its transactions and its rewards
\* (runTx.ts, runBlock.ts).
THEOREM Effective == ASSUME NEW CONSTANT v, Call = {v} PROVE Spec => []AcceptedTakesEffect
<1>1. SoundHere(v) => AcceptedTakesEffect
  BY DEF SoundHere, Sound, End, AcceptedTakesEffect, Accepted, Whole, Harmless
<1>2. Spec => [](Types /\ CheckpointsAccounted /\ SoundHere(v))
  BY OneCall
<1> QED BY <1>1, <1>2, PTL

\* A transaction that throws leaves the world it began with; a block that is refused
\* leaves that world or all of itself, never half (runTx.ts, runBlock.ts).
THEOREM NoTrace == ASSUME NEW CONSTANT v, Call = {v} PROVE Spec => []RejectedLeavesNoTrace
<1>1. Types /\ SoundHere(v) => RejectedLeavesNoTrace
  BY DEF SoundHere, Sound, End, RejectedLeavesNoTrace, Rejected
<1>2. Spec => [](Types /\ CheckpointsAccounted /\ SoundHere(v))
  BY OneCall
<1> QED BY <1>1, <1>2, PTL

-----------------------------------------------------------------------------
(* The blocks that runBlockchain deletes.                                  *)

LEMMA GasUpToIs ==
  ASSUME NEW b \in Block
  PROVE  /\ GasUpTo(b)[0] = 0
         /\ \A i \in 1 .. Len(Transactions[b]) :
              GasUpTo(b)[i] = GasUpTo(b)[i - 1] + GasUsed(Transactions[b][i])
<1>1. PICK T \in Seq(Tx) : T = Transactions[b]
  OBVIOUS
<1>2. PICK n \in Nat : n = Len(T)
  OBVIOUS
<1>3. PICK it : it = CHOOSE g : Adds(g, T, n)
  OBVIOUS
<1>4. Adds(it, T, n)
  BY ONLY <1>3, AddsExist, n \in Nat
<1>5. GasUpTo(b) = it
  BY ONLY <1>1, <1>2, <1>3 DEF GasUpTo, Adds
<1>6. Totals(it, T, n)
  BY ONLY <1>4, AddsTotals, n \in Nat
<1> QED BY ONLY <1>1, <1>2, <1>5, <1>6 DEF Totals

LEMMA GasUpToType ==
  ASSUME NEW b \in Block
  PROVE  \A k \in 0 .. Len(Transactions[b]) : GasUpTo(b)[k] \in Nat
<1>1. PICK T \in Seq(Tx) : T = Transactions[b]
  OBVIOUS
<1>2. PICK n \in Nat : n = Len(T)
  OBVIOUS
<1>3. PICK it : it = GasUpTo(b)
  OBVIOUS
<1>4. it[0] = 0 /\ \A i \in 1 .. n : it[i] = it[i - 1] + GasUsed(T[i])
  BY ONLY <1>1, <1>2, <1>3, GasUpToIs, b \in Block
<1>5. \A i \in 1 .. n : GasUsed(T[i]) \in Nat
  <2>1. \A t \in Tx : GasUsed(t) \in Nat
    BY SMTT(30) DEF GasUsed
  <2>2. \A i \in 1 .. n : T[i] \in Tx
    BY <1>2
  <2> QED BY <2>1, <2>2
<1> SUFFICES ASSUME NEW k \in 0 .. n, it[k] \notin Nat PROVE FALSE
  BY <1>1, <1>2, <1>3
<1> DEFINE S == {m \in 0 .. n : it[m] \notin Nat}
<1>6. k \in S /\ S \in SUBSET Nat
  OBVIOUS
<1>7. PICK m \in S : \A j \in S : m <= j
  <2> HIDE DEF S
  <2> QED BY <1>6, Least
<1>8. m \in 1 .. n /\ m - 1 \in 0 .. n /\ ~(m <= m - 1)
  BY <1>4
<1>9. m - 1 \notin S
  <2> HIDE DEF S
  <2> QED BY <1>7, <1>8
<1>10. it[m - 1] \in Nat
  BY <1>8, <1>9
<1>11. it[m] \in Nat
  BY <1>4, <1>5, <1>8, <1>10
<1> QED BY <1>11

\* The header apart, what can be wrong with a block.
Broken(b) ==
  LET T == Transactions[b] IN
  \/ b \in Malformed
  \/ ~(Outcomes(b) \subseteq Harmless)
  \/ \E i \in 1 .. Len(T) : BlockGasLimit[b] < GasLimit[T[i]] + GasUpTo(b)[i - 1]

\* The gas that runBlock has counted, and why it throws.
Reason(f) ==
  OfBlock(f) =>
    /\ f.at \in InRun \cup {"transactions"} => f.gas = GasUpTo(f.block)[FirstOf(f)]
    /\ f.at \in {"blockEnd", "header"} =>
         f.gas = GasUpTo(f.block)[Len(Transactions[f.block])]
    /\ f.at = "txThrown" => Outcome[f.tx] \notin Harmless
    /\ f.at = "blockThrown" => Broken(f.block)
Reasons == \A c \in Call : Reason(call[c])
ReasonNext(c) == \E g : Becomes(c, g) /\ Reason(g)

LEMMA ReasonsAfter ==
  Reasons' <=> \A c \in Call : Reason(call'[c])
BY DEF Reasons, Reason, OfBlock, FirstOf, Broken, Outcomes, GasUpTo, GasUsed

\* Outside its checkpoint runBlock has counted nothing.
LEMMA Quiet ==
  ASSUME NEW g,
         \/ g.at \in {"idle", "init", "dump", "call", "code", "block", "checkpoint",
                      "iterate", "answered"}
         \/ ~OfBlock(g)
  PROVE  Reason(g)
BY DEF Reason, InRun

\* What is not of a transaction is not broken without it.
LEMMA BrokenBy ==
  ASSUME NEW f \in Frame, Shape(f), OfBlock(f), f.at \in InBlock, f.txs # <<>>
  PROVE  /\ Outcome[Head(f.txs)] \notin Harmless => Broken(f.block)
         /\ BlockGasLimit[f.block] < GasLimit[Head(f.txs)] + GasUpTo(f.block)[FirstOf(f)] =>
              Broken(f.block)
         /\ GasUpTo(f.block)[FirstOf(f)] \in Nat
         /\ GasUpTo(f.block)[FirstOf(f) + 1] =
              GasUpTo(f.block)[FirstOf(f)] + GasUsed(Head(f.txs))
<1>1. /\ f.block \in Block /\ FirstOf(f) \in Nat
      /\ FirstOf(f) + 1 \in 1 .. Len(Transactions[f.block])
      /\ Head(f.txs) = Transactions[f.block][FirstOf(f) + 1]
      /\ Outcome[Head(f.txs)] \in Outcomes(f.block)
      /\ FirstOf(f) <= Len(Transactions[f.block])
      /\ Transactions[f.block] \in Seq(Tx)
  BY InItsBlock
<1>2. PICK n \in Nat, k \in Nat : n = FirstOf(f) /\ k = n + 1 /\ k - 1 = n
  BY <1>1
<1>3. PICK m \in Nat : m = Len(Transactions[f.block])
  BY <1>1
<1>4. k \in 1 .. m /\ n \in 0 .. m
  BY <1>1, <1>2, <1>3
<1>5. Outcome[Head(f.txs)] \notin Harmless => Broken(f.block)
  BY <1>1 DEF Broken
<1>6. BlockGasLimit[f.block] < GasLimit[Head(f.txs)] + GasUpTo(f.block)[n] => Broken(f.block)
  BY ONLY <1>1, <1>2, <1>3, <1>4 DEF Broken
<1>7. GasUpTo(f.block)[n] \in Nat
  BY ONLY <1>1, <1>3, <1>4, GasUpToType
<1>8. GasUpTo(f.block)[k] = GasUpTo(f.block)[n] + GasUsed(Head(f.txs))
  <2>1. GasUpTo(f.block)[k]
          = GasUpTo(f.block)[k - 1] + GasUsed(Transactions[f.block][k])
    BY ONLY <1>1, <1>3, <1>4, GasUpToIs
  <2> QED BY ONLY <1>1, <1>2, <2>1
<1> QED BY ONLY <1>2, <1>5, <1>6, <1>7, <1>8

\* What is like f has counted the same.
LEMMA LikeReason ==
  ASSUME NEW f, NEW g, Like(g, f), Reason(f), f.at \in InRun, g.at \in InRun,
         OfBlock(f) /\ g.at = "txThrown" => Outcome[f.tx] \notin Harmless
  PROVE  Reason(g)
BY LikeBefore DEF Reason, Like, InRun

\* The steps before a call begins what it was asked for, and those that are not of a
\* block.
LEMMA QuietSteps ==
  ASSUME Types, NEW c \in Call,
         \/ Begin(c) \/ InitVm(c) \/ WriteDump(c) \/ RunCode(c) \/ NoMoreBlocks(c)
         \/ \E b \in Block : Iterate(c, b)
  PROVE  ReasonNext(c)
<1> DEFINE f == call[c]
<1>1. /\ f \in Frame /\ Shape(f) /\ Rest /\ TypeOK /\ call \in [Call -> Frame]
  BY Frames
<1>2. CASE Begin(c)
  BY <1>2, BeginsAt, Quiet DEF ReasonNext
<1>3. CASE InitVm(c) \/ WriteDump(c)
  <2>1. CASE ~Enter(c)
    BY <1>3, <2>1, Dumps, Quiet DEF ReasonNext
  <2>2. CASE Enter(c)
    <3>1. f.at \in {"init", "dump"} /\ f.kind \in {"tx", "call", "code", "block", "chain"}
      BY <1>3, Frames DEF InitVm, WriteDump
    <3>2. world' \in World
      BY <1>3, InitMoves DEF Moves, Rest
    <3>3. PICK g : Becomes(c, g) /\ g.at = FirstStep(f.kind) /\ g.kind = f.kind
      BY <1>1, <2>2, <3>1, <3>2, Enters
    <3>4. g.at \in {"call", "code", "block", "iterate"} \/ ~OfBlock(g)
      BY <3>1, <3>3 DEF FirstStep, OfBlock
    <3> QED BY <3>3, <3>4, Quiet DEF ReasonNext
  <2> QED BY <2>1, <2>2
<1>4. CASE RunCode(c) \/ NoMoreBlocks(c)
  <2>1. \E ok \in BOOLEAN : Answer(c, ok)
    BY <1>4 DEF RunCode, NoMoreBlocks
  <2>2. PICK g : Becomes(c, g) /\ g.at = "answered"
    BY <1>1, <2>1, Answers
  <2> QED BY <2>2, Quiet DEF ReasonNext
<1>5. ASSUME NEW b \in Block, Iterate(c, b) PROVE ReasonNext(c)
  <2>1. CASE Answer(c, FALSE)
    <3>1. PICK g : Becomes(c, g) /\ g.at = "answered"
      BY <1>1, <2>1, Answers
    <3> QED BY <3>1, Quiet DEF ReasonNext
  <2>2. CASE call' = [call EXCEPT ![c].at = "block", ![c].block = b, ![c].last = b,
                                  ![c].root = StartingRoot(f, b)]
    <3>1. \E g : Becomes(c, g)
      BY <1>5, IterateMoves DEF Moves
    <3>2. PICK g : Becomes(c, g)
      BY <3>1
    <3>3. g.at = "block"
      <4>1. call'[c].at = "block"
        BY <1>1, <2>2 DEF Frame
      <4> QED BY <1>1, <3>2, <4>1 DEF Becomes
    <3> QED BY <3>2, <3>3, Quiet DEF ReasonNext
  <2> QED BY <1>5, <2>1, <2>2 DEF Iterate
<1> QED BY <1>2, <1>3, <1>4, <1>5

\* The end of a transaction.
LEMMA TxAnswerReason ==
  ASSUME Types, NEW c \in Call, Reason(call[c]), NEW ok \in BOOLEAN, TxAnswer(c, ok),
         call[c].at \in {"tx", "txEnd", "txThrown"},
         OfBlock(call[c]) /\ ~ok => Broken(call[c].block)
  PROVE  ReasonNext(c)
<1> DEFINE f == call[c]
<1>1. f \in Frame /\ Shape(f) /\ TypeOK
  BY Frames
<1>2. PICK g : /\ Becomes(c, g)
               /\ \/ f.kind = "tx" /\ Like(g, f) /\ g.at = "answered" /\ g.ok = ok
                  \/ /\ OfBlock(f) /\ ~ok
                     /\ Like(g, f) /\ g.at = "blockThrown"
                  \/ /\ OfBlock(f) /\ ok /\ g.at = "transactions"
                     /\ g.kind = f.kind /\ g.block = f.block
                     /\ g.generate = f.generate /\ g.root = f.root
                     /\ g.head = f.head /\ g.last = f.last
                     /\ g.start = f.start /\ g.txs = Tail(f.txs)
                     /\ g.gas = f.gas + GasUsed(f.tx)
  BY <1>1, TxAnswers
<1>3. CASE g.at = "answered"
  BY <1>2, <1>3, Quiet DEF ReasonNext
<1>4. CASE OfBlock(f) /\ ~ok /\ Like(g, f) /\ g.at = "blockThrown"
  <2>1. Reason(g)
    BY <1>4 DEF Reason, Like, InRun
  <2> QED BY <1>2, <2>1 DEF ReasonNext
<1>5. CASE /\ OfBlock(f) /\ g.at = "transactions" /\ g.kind = f.kind /\ g.block = f.block
           /\ g.txs = Tail(f.txs) /\ g.gas = f.gas + GasUsed(f.tx)
  <2>1. f.txs # <<>> /\ f.tx = Head(f.txs) /\ f.at \in InBlock /\ f.at \in InRun
    BY <1>1, <1>5 DEF Shape, OfTx, InRun, InBlock, InTx
  <2>2. f.gas = GasUpTo(f.block)[FirstOf(f)]
    BY <1>5, <2>1 DEF Reason
  <2>3. FirstOf(g) = FirstOf(f) + 1
    <3>1. Len(Transactions[f.block]) - Len(Tail(f.txs)) = FirstOf(f) + 1
      BY <1>1, <1>5, <2>1, InItsBlock
    <3> QED BY ONLY <1>5, <3>1 DEF FirstOf
  <2>4. GasUpTo(f.block)[FirstOf(f) + 1]
          = GasUpTo(f.block)[FirstOf(f)] + GasUsed(Head(f.txs))
    BY <1>1, <1>5, <2>1, BrokenBy
  <2>5. g.gas = GasUpTo(g.block)[FirstOf(g)]
    BY ONLY <1>5, <2>1, <2>2, <2>3, <2>4
  <2>6. Reason(g)
    BY <1>5, <2>5 DEF Reason, InRun
  <2> QED BY <1>2, <2>6 DEF ReasonNext
<1> QED BY <1>2, <1>3, <1>4, <1>5

\* A transaction of a block, from its checkpoint to its end.
LEMMA TxReason ==
  ASSUME Types, NEW c \in Call, Reason(call[c]),
         \/ TxCheckpoint(c) \/ TxReject(c) \/ Message(c) \/ MessageEnd(c)
         \/ TxCommit(c) \/ TxRevert(c)
  PROVE  ReasonNext(c)
<1> DEFINE f == call[c]
<1>1. /\ f \in Frame /\ Shape(f) /\ TypeOK
      /\ f.tx \in Tx => Outcome[f.tx] \in {"succeeds", "fails", "overflows", "rejected"}
  BY Frames
<1>2. CASE TxAnswer(c, TRUE) /\ f.at = "txEnd"
  BY <1>2, TxAnswerReason
<1>3. CASE TxAnswer(c, FALSE) /\ f.at = "txThrown"
  <2>1. ASSUME OfBlock(f) PROVE Broken(f.block)
    <3>1. f.txs # <<>> /\ f.tx = Head(f.txs) /\ f.at \in InBlock
      BY <1>1, <1>3, <2>1 DEF Shape, OfTx, InRun, InBlock, InTx
    <3>2. Outcome[f.tx] \notin Harmless
      BY <1>3, <2>1 DEF Reason
    <3> QED BY <1>1, <2>1, <3>1, <3>2, BrokenBy
  <2> QED BY <1>3, <2>1, TxAnswerReason
<1>4. CASE /\ TxAnswer(c, FALSE) /\ f.at = "tx"
           /\ f.block # NoBlock /\ BlockGasLimit[f.block] < GasLimit[f.tx]
  <2>1. ASSUME OfBlock(f) PROVE Broken(f.block)
    <3>1. f.txs # <<>> /\ f.tx = Head(f.txs) /\ f.at \in InBlock
      BY <1>1, <1>4, <2>1 DEF Shape, OfTx, InRun, InBlock
    <3>2. /\ GasUpTo(f.block)[FirstOf(f)] \in Nat
          /\ BlockGasLimit[f.block] < GasLimit[Head(f.txs)] + GasUpTo(f.block)[FirstOf(f)] =>
               Broken(f.block)
      BY <1>1, <2>1, <3>1, BrokenBy
    <3>3. BlockGasLimit[f.block] \in Nat /\ GasLimit[Head(f.txs)] \in Nat
      <4>1. f.block \in Block /\ f.tx \in Tx
        BY <1>1, <1>4, <2>1, <3>1, RunsTx DEF InRun
      <4> QED BY <3>1, <4>1
    <3>4. BlockGasLimit[f.block] < GasLimit[Head(f.txs)]
      BY ONLY <1>4, <3>1
    <3>5. PICK limit \in Nat, own \in Nat, used \in Nat :
            /\ limit = BlockGasLimit[f.block] /\ own = GasLimit[Head(f.txs)]
            /\ used = GasUpTo(f.block)[FirstOf(f)]
      BY ONLY <3>2, <3>3
    <3>6. limit < own + used
      BY SMTT(30), <3>4, <3>5
    <3> QED BY ONLY <3>2, <3>5, <3>6
  <2> QED BY <1>4, <2>1, TxAnswerReason
<1>5. CASE f.at \in InRun /\ Goto(c, "upfront")
  <2>1. PICK g : Becomes(c, g) /\ Like(g, f) /\ g.at = "upfront"
    BY <1>1, <1>5, Goes DEF Places
  <2> QED BY <1>5, <2>1, LikeReason DEF ReasonNext, InRun
<1>6. CASE f.at \in InRun /\ Goto(c, "txEnd")
  <2>1. PICK g : Becomes(c, g) /\ Like(g, f) /\ g.at = "txEnd"
    BY <1>1, <1>6, Goes DEF Places
  <2> QED BY <1>6, <2>1, LikeReason DEF ReasonNext, InRun
<1>7. CASE f.at \in InRun /\ Goto(c, "txThrown") /\ Outcome[f.tx] \notin Harmless
  <2>1. PICK g : Becomes(c, g) /\ Like(g, f) /\ g.at = "txThrown"
    BY <1>1, <1>7, Goes DEF Places
  <2> QED BY <1>7, <2>1, LikeReason DEF ReasonNext, InRun
<1>8. CASE Goto(c, "message") /\ f.at \in {"upfront", "call"}
  <2>1. PICK g : Becomes(c, g) /\ Like(g, f) /\ g.at = "message"
    BY <1>1, <1>8, Goes DEF Places
  <2>2. CASE f.at = "upfront"
    BY <2>1, <2>2, LikeReason DEF ReasonNext, InRun
  <2>3. CASE f.at = "call"
    <3>1. ~OfBlock(g)
      BY <1>1, <2>1, <2>3 DEF Shape, OfTx, OfBlock, Like
    <3> QED BY <2>1, <3>1, Quiet DEF ReasonNext
  <2> QED BY <1>8, <2>2, <2>3
<1>9. CASE f.at = "message" /\ \E ok \in BOOLEAN : Answer(c, ok)
  <2>1. PICK g : Becomes(c, g) /\ g.at = "answered"
    BY <1>1, <1>9, Answers
  <2> QED BY <2>1, Quiet DEF ReasonNext
<1>10. CASE TxCheckpoint(c)
  BY <1>4, <1>5, <1>10 DEF TxCheckpoint, InRun
<1>11. CASE TxReject(c)
  BY <1>7, <1>11 DEF TxReject, InRun, Harmless
<1>12. CASE Message(c)
  BY <1>8, <1>12 DEF Message
<1>13. CASE MessageEnd(c)
  <2>1. /\ f.at = "message"
        /\ IF f.kind = "call" THEN Answer(c, Outcome[f.tx] # "overflows")
           ELSE Goto(c, IF Outcome[f.tx] = "overflows" THEN "txThrown" ELSE "txEnd")
    BY <1>13 DEF MessageEnd
  <2>2. CASE f.kind = "call"
    <3>1. PICK ok \in BOOLEAN : ok = (Outcome[f.tx] # "overflows")
      OBVIOUS
    <3> QED BY <1>9, <2>1, <2>2, <3>1
  <2>3. CASE f.kind # "call" /\ Outcome[f.tx] = "overflows"
    BY <1>7, <2>1, <2>3 DEF InRun, Harmless
  <2>4. CASE f.kind # "call" /\ Outcome[f.tx] # "overflows"
    BY <1>6, <2>1, <2>4 DEF InRun
  <2> QED BY <2>2, <2>3, <2>4
<1>14. CASE TxCommit(c)
  BY <1>2, <1>14 DEF TxCommit
<1>15. CASE TxRevert(c)
  BY <1>3, <1>15 DEF TxRevert
<1> QED BY <1>10, <1>11, <1>12, <1>13, <1>14, <1>15

\* What runBlock does between its transactions.
LEMMA BlockReason ==
  ASSUME Types, NEW c \in Call, Reason(call[c]),
         \/ BlockRoot(c) \/ BlockCheckpoint(c) \/ BlockTx(c) \/ BlockRewards(c)
         \/ BlockCommit(c) \/ BlockRevert(c) \/ BlockHeader(c)
  PROVE  ReasonNext(c)
<1> DEFINE f == call[c]
<1>1. /\ f \in Frame /\ Shape(f) /\ TypeOK /\ call \in [Call -> Frame]
      /\ f.at \in {"block", "checkpoint", "transactions", "blockEnd", "blockThrown", "header"}
  <2>1. f \in Frame /\ Shape(f) /\ TypeOK /\ call \in [Call -> Frame]
    BY Frames
  <2> QED BY <2>1 DEF BlockRoot, BlockCheckpoint, BlockTx, BlockRewards, BlockCommit,
                      BlockRevert, BlockHeader
<1>2. OfBlock(f) /\ f.block \in Block /\ f.txs \in Seq(Tx)
  BY <1>1, FrameTypes, RunsTx DEF Shape, OfABlock, InBlock
<1>3. ASSUME NEW ok \in BOOLEAN, BlockAnswer(c, ok) PROVE ReasonNext(c)
  <2>1. PICK g : Becomes(c, g) /\ g.at \in {"answered", "iterate"}
    <3>1. \E g : /\ Becomes(c, g)
                 /\ \/ /\ f.kind = "block" \/ ~ok
                       /\ Like(g, f) /\ g.at = "answered" /\ g.ok = ok
                    \/ /\ f.kind = "chain" /\ ok /\ g.at = "iterate"
                       /\ g.kind = f.kind /\ g.block = f.block
                       /\ g.generate = f.generate
                       /\ g.head = f.block /\ g.last = f.last
      BY <1>1, <1>2, <1>3, BlockAnswers
    <3> QED BY <3>1
  <2> QED BY <2>1, Quiet DEF ReasonNext
<1>4. CASE BlockRoot(c)
  <2>1. Goto(c, "checkpoint") \/ BlockAnswer(c, FALSE)
    BY <1>4 DEF BlockRoot
  <2>2. CASE Goto(c, "checkpoint")
    <3>1. PICK g : Becomes(c, g) /\ g.at = "checkpoint"
      BY <1>1, <2>2, Goes DEF Places
    <3> QED BY <3>1, Quiet DEF ReasonNext
  <2> QED BY <1>3, <2>1, <2>2
<1>5. CASE BlockCheckpoint(c)
  <2>1. PICK at \in {"blockThrown", "transactions"} :
          /\ call' = [call EXCEPT ![c].at = at, ![c].txs = Transactions[f.block],
                                  ![c].gas = 0, ![c].start = world]
          /\ at = "blockThrown" => f.block \in Malformed
    BY <1>5 DEF BlockCheckpoint
  <2>2. PICK T \in Seq(Tx) : T = Transactions[f.block]
    BY <1>2
  <2> DEFINE g == [f EXCEPT !.at = at, !.txs = T, !.gas = 0, !.start = world]
  <2>3. g \in Frame
    BY <1>1 DEF Frame, TypeOK
  <2>4. call' = [call EXCEPT ![c] = g]
    BY <1>1, <2>1, <2>2
  <2>5. g.at = at /\ g.block = f.block /\ g.txs = T /\ g.gas = 0
    BY <1>1 DEF Frame
  <2> HIDE DEF g
  <2>6. FirstOf(g) = 0
    <3>1. PICK n \in Nat : n = Len(T)
      BY Stack
    <3>2. FirstOf(g) = n - n
      BY ONLY <2>2, <2>5, <3>1 DEF FirstOf
    <3> QED BY <3>2
  <2>7. g.gas = GasUpTo(g.block)[FirstOf(g)]
    BY <1>2, <2>5, <2>6, GasUpToIs
  <2>8. at = "blockThrown" => Broken(g.block)
    BY <2>1, <2>5 DEF Broken
  <2>9. Reason(g)
    BY <2>5, <2>7, <2>8 DEF Reason, InRun
  <2> QED BY <2>3, <2>4, <2>9 DEF ReasonNext, Becomes
<1>6. CASE BlockTx(c)
  <2>1. f.at = "transactions" /\ f.txs # <<>> /\ f.at \in InBlock
    BY <1>6 DEF BlockTx, InBlock
  <2>2. f.gas = GasUpTo(f.block)[FirstOf(f)]
    BY <1>2, <2>1 DEF Reason
  <2>3. CASE BlockGasLimit[f.block] < GasLimit[Head(f.txs)] + f.gas /\ Goto(c, "blockThrown")
    <3>1. PICK g : Becomes(c, g) /\ Like(g, f) /\ g.at = "blockThrown"
      BY <1>1, <2>3, Goes DEF Places
    <3>2. BlockGasLimit[f.block] < GasLimit[Head(f.txs)] + GasUpTo(f.block)[FirstOf(f)] =>
            Broken(f.block)
      BY <1>1, <1>2, <2>1, BrokenBy
    <3>3. Broken(g.block)
      BY <2>2, <2>3, <3>1, <3>2 DEF Like
    <3>4. Reason(g)
      BY <3>1, <3>3 DEF Reason, InRun
    <3> QED BY <3>1, <3>4 DEF ReasonNext
  <2>4. CASE call' = [call EXCEPT ![c].at = "tx", ![c].tx = Head(f.txs)]
    <3>1. PICK t \in Tx : t = Head(f.txs)
      BY <1>2, <2>1, Stack
    <3> DEFINE g == [f EXCEPT !.at = "tx", !.tx = t]
    <3>2. g \in Frame
      BY <1>1 DEF Frame
    <3>3. g.at = "tx" /\ g.block = f.block /\ g.txs = f.txs /\ g.gas = f.gas
      BY <1>1 DEF Frame
    <3>4. call' = [call EXCEPT ![c] = g]
      BY <1>1, <2>4, <3>1
    <3> HIDE DEF g
    <3>5. FirstOf(g) = FirstOf(f)
      BY ONLY <3>3 DEF FirstOf
    <3>6. Reason(g)
      BY <2>2, <3>3, <3>5 DEF Reason, InRun
    <3> QED BY <3>2, <3>4, <3>6 DEF ReasonNext, Becomes
  <2> QED BY <1>6, <2>3, <2>4 DEF BlockTx
<1>7. CASE BlockRewards(c)
  <2>1. f.at = "transactions" /\ f.txs = <<>> /\ f.at \in InBlock /\ Goto(c, "blockEnd")
    BY <1>7 DEF BlockRewards, InBlock
  <2>2. f.gas = GasUpTo(f.block)[FirstOf(f)]
    BY <1>2, <2>1 DEF Reason
  <2>3. FirstOf(f) = Len(Transactions[f.block])
    BY <1>1, <1>2, <2>1, InItsBlock
  <2>4. PICK g : Becomes(c, g) /\ Like(g, f) /\ g.at = "blockEnd"
    BY <1>1, <2>1, Goes DEF Places
  <2>5. g.gas = GasUpTo(g.block)[Len(Transactions[g.block])]
    BY ONLY <2>2, <2>3, <2>4 DEF Like
  <2>6. Reason(g)
    BY <2>4, <2>5 DEF Reason, InRun
  <2> QED BY <2>4, <2>6 DEF ReasonNext
<1>8. CASE BlockCommit(c)
  <2>1. f.at = "blockEnd" /\ Goto(c, "header")
    BY <1>8 DEF BlockCommit
  <2>2. PICK g : Becomes(c, g) /\ Like(g, f) /\ g.at = "header"
    BY <1>1, <2>1, Goes DEF Places
  <2>3. f.gas = GasUpTo(f.block)[Len(Transactions[f.block])]
    BY <1>2, <2>1 DEF Reason
  <2>4. g.gas = GasUpTo(g.block)[Len(Transactions[g.block])]
    BY ONLY <2>2, <2>3 DEF Like
  <2>5. Reason(g)
    BY <2>2, <2>4 DEF Reason, InRun
  <2> QED BY <2>2, <2>5 DEF ReasonNext
<1>9. CASE BlockRevert(c)
  BY <1>3, <1>9 DEF BlockRevert
<1>10. CASE BlockHeader(c)
  <2>1. PICK ok \in BOOLEAN : ok = (f.generate \/ HeaderMatches(f, world))
    OBVIOUS
  <2>2. BlockAnswer(c, FALSE) \/ BlockAnswer(c, ok)
    BY <1>10, <2>1 DEF BlockHeader
  <2> QED BY <1>3, <2>2
<1> QED BY <1>4, <1>5, <1>6, <1>7, <1>8, <1>9, <1>10

\* A call that throws has a reason, however many there are.
LEMMA ReasonsKept ==
  ASSUME Types, Reasons, [Next]_vars
  PROVE  Reasons'
<1>1. call \in [Call -> Frame]
  BY DEF Types, TypeOK
<1>2. ASSUME NEW c \in Call, Begin(c) \/ Step(c) PROVE Reasons'
  <2>1. Reason(call[c])
    BY DEF Reasons
  <2>2. ReasonNext(c)
    BY <1>2, <2>1, QuietSteps, TxReason, BlockReason DEF Step
  <2>3. PICK g : Becomes(c, g) /\ Reason(g)
    BY <2>2 DEF ReasonNext
  <2>4. \A d \in Call : call'[d] = IF d = c THEN g ELSE call[d]
    BY <1>1, <2>3 DEF Becomes
  <2>5. \A d \in Call : Reason(call'[d])
    BY <2>3, <2>4 DEF Reasons
  <2> QED BY <2>5, ReasonsAfter
<1>3. CASE Copy
  <2>1. ASSUME NEW c \in Call PROVE Reason(call'[c])
    <3>1. call'[c].at = "idle"
      BY <1>3 DEF Copy, IdleFrame
    <3> QED BY <3>1, Quiet
  <2> QED BY <2>1, ReasonsAfter
<1>4. CASE UNCHANGED vars
  <2>1. call' = call
    BY <1>4 DEF vars
  <2>2. \A c \in Call : Reason(call'[c])
    BY <2>1 DEF Reasons
  <2> QED BY <2>2, ReasonsAfter
<1> QED BY <1>2, <1>3, <1>4 DEF Next

\* What is deleted is what is wrong with a block, or has no state to run on.
LEMMA DeletesOne ==
  ASSUME Types, NEW c \in Call, BlockAnswer(c, FALSE), NEW b \in stored \ stored',
         OfBlock(call[c]),
         ~ValidBlock(call[c].block) \/ RootOf(Parent[call[c].block]) \notin roots
  PROVE  \E d \in Branch[b] : ~ValidBlock(d) \/ RootOf(Parent[d]) \notin roots
<1>1. stored' = stored \/ stored' = {d \in stored : call[c].block \notin Branch[d]}
  BY DEF BlockAnswer
<1>2. call[c].block \in Branch[b]
  BY <1>1
<1> QED BY <1>2

LEMMA BrokenIsInvalid ==
  ASSUME NEW b \in Block, Broken(b)
  PROVE  ~ValidBlock(b)
<1> SUFFICES ASSUME ValidBlock(b) PROVE FALSE
  OBVIOUS
<1>1. PICK T \in Seq(Tx) : T = Transactions[b]
  OBVIOUS
<1>2. /\ b \notin Malformed /\ Outcomes(b) \subseteq Harmless
      /\ \A i \in 1 .. Len(T) : GasLimit[T[i]] + GasUpTo(b)[i - 1] <= BlockGasLimit[b]
  BY <1>1 DEF ValidBlock, Harmless
<1>3. PICK i \in 1 .. Len(T) : BlockGasLimit[b] < GasLimit[T[i]] + GasUpTo(b)[i - 1]
  BY <1>1, <1>2 DEF Broken
<1>4. i - 1 \in 0 .. Len(T) /\ T[i] \in Tx
  <2>1. PICK n \in Nat : n = Len(T)
    OBVIOUS
  <2> QED BY <2>1
<1>5. GasUpTo(b)[i - 1] \in Nat
  BY <1>1, <1>4, GasUpToType
<1>6. GasLimit[T[i]] \in Nat /\ BlockGasLimit[b] \in Nat
  BY <1>4
<1>7. PICK limit \in Nat, own \in Nat, used \in Nat :
        limit = BlockGasLimit[b] /\ own = GasLimit[T[i]] /\ used = GasUpTo(b)[i - 1]
  BY ONLY <1>5, <1>6
<1>8. limit < own + used /\ own + used <= limit
  BY <1>2, <1>3, <1>7
<1> QED BY ONLY <1>8, limit \in Nat, own \in Nat, used \in Nat

LEMMA DeletesInvalid ==
  ASSUME NEW v, Call = {v}, Types, CheckpointsAccounted, SoundHere(v), Reason(call[v]),
         Step(v), leaked = 0, NEW b \in stored \ stored'
  PROVE  \E d \in Branch[b] : ~ValidBlock(d) \/ RootOf(Parent[d]) \notin roots
<1> DEFINE f == call[v]
<1>1. /\ v \in Call /\ f \in Frame /\ Shape(f) /\ TypeOK /\ world \in World
      /\ f.generate \in BOOLEAN
  <2>1. v \in Call
    OBVIOUS
  <2>2. f \in Frame /\ Shape(f) /\ TypeOK /\ Rest
    BY <2>1, Frames
  <2> QED BY <2>1, <2>2, FrameTypes DEF Rest
<1>2. RunOf(f, world) /\ OnParent(f, world, headerRoot)
  BY DEF SoundHere, Sound
<1>3. \A d : RootOf(Parent[d]) = ParentRoot(d, headerRoot)
  BY DEF RootOf, ParentRoot
<1>4. stored' # stored
  OBVIOUS
<1>5. BlockRoot(v) \/ BlockRevert(v) \/ BlockHeader(v)
  BY <1>4 DEF Step, InitVm, WriteDump, RunCode, TxCheckpoint, TxReject, Message, MessageEnd,
     TxCommit, TxRevert, BlockCheckpoint, BlockTx, BlockRewards, BlockCommit, Iterate,
     NoMoreBlocks
<1>6. f.at \in {"block", "blockThrown", "header"}
  BY <1>5 DEF BlockRoot, BlockRevert, BlockHeader
<1>7. OfBlock(f) /\ f.block \in Block
  BY <1>1, <1>6, RunsTx DEF Shape, OfABlock, InBlock
<1>8. f.kind = "chain"
  <2>1. ASSUME f.kind = "block", NEW ok \in BOOLEAN, BlockAnswer(v, ok) PROVE stored' = stored
    BY <2>1 DEF BlockAnswer
  <2>2. f.kind = "block" => stored' = stored
    <3> SUFFICES ASSUME f.kind = "block" PROVE stored' = stored
      OBVIOUS
    <3>1. PICK ok \in BOOLEAN : ok = (f.generate \/ HeaderMatches(f, world))
      OBVIOUS
    <3>2. BlockAnswer(v, FALSE) \/ BlockAnswer(v, ok) \/ UNCHANGED stored
      BY <1>5, <3>1 DEF BlockRoot, BlockRevert, BlockHeader
    <3> QED BY <2>1, <3>2
  <2> QED BY <1>4, <1>7, <2>2 DEF OfBlock
<1>9. ~f.generate
  BY <1>1, <1>8 DEF Shape, OfABlock
<1>10. ASSUME BlockAnswer(v, FALSE),
              ~ValidBlock(f.block) \/ RootOf(Parent[f.block]) \notin roots
       PROVE  \E d \in Branch[b] : ~ValidBlock(d) \/ RootOf(Parent[d]) \notin roots
  BY <1>1, <1>7, <1>10, DeletesOne
<1>11. CASE BlockRoot(v)
  <2>1. f.at = "block"
    BY <1>11 DEF BlockRoot
  <2>2. saved = <<>>
    BY <2>1, NothingSaved
  <2>3. f.root = ParentRoot(f.block, headerRoot)
    BY <1>2, <1>8, <2>1 DEF OnParent
  <2>4. /\ roots' = roots \union {world} /\ f.root \notin roots' /\ BlockAnswer(v, FALSE)
    BY <1>4, <1>11, <2>2 DEF BlockRoot
  <2>5. RootOf(Parent[f.block]) \notin roots
    BY <1>3, <2>3, <2>4
  <2> QED BY <1>10, <2>4, <2>5
<1>12. CASE BlockRevert(v)
  <2>1. f.at = "blockThrown" /\ BlockAnswer(v, FALSE)
    BY <1>12 DEF BlockRevert
  <2>2. Broken(f.block)
    BY <1>7, <2>1 DEF Reason
  <2> QED BY <1>7, <1>10, <2>1, <2>2, BrokenIsInvalid
<1>13. CASE BlockHeader(v)
  <2>1. f.at = "header"
    BY <1>13 DEF BlockHeader
  <2>2. saved = <<>>
    BY <2>1, NothingSaved
  <2>3. BlockAnswer(v, f.generate \/ HeaderMatches(f, world))
    BY <1>13, <2>2 DEF BlockHeader
  <2>4. ~HeaderMatches(f, world)
    <3> SUFFICES ASSUME HeaderMatches(f, world) PROVE FALSE
      OBVIOUS
    <3>1. stored' = stored
      BY <1>8, <2>3 DEF BlockAnswer
    <3> QED BY <1>4, <3>1
  <2>5. BlockAnswer(v, FALSE)
    <3>1. PICK ok \in BOOLEAN : ok = (f.generate \/ HeaderMatches(f, world))
      OBVIOUS
    <3>2. ok = FALSE
      BY <1>9, <2>4, <3>1
    <3> QED BY <2>3, <3>1, <3>2
  <2>6. f.gas = GasUpTo(f.block)[Len(Transactions[f.block])]
    BY <1>7, <2>1 DEF Reason
  <2>7. world = AfterBlock(RootOf(Parent[f.block]), f.block)
    <3>1. world = AfterBlock(f.start, f.block)
      BY <1>2, <2>1 DEF RunOf, Whole
    <3>2. f.start = ParentRoot(f.block, headerRoot)
      BY <1>2, <1>8, <2>1 DEF OnParent
    <3> QED BY <1>3, <3>1, <3>2
  <2>8. ~ValidBlock(f.block)
    BY <2>4, <2>6, <2>7 DEF HeaderMatches, ValidBlock
  <2> QED BY <1>10, <2>5, <2>8
<1> QED BY <1>5, <1>11, <1>12, <1>13

\* runBlockchain deletes only what is invalid, has no state to run on, or stands on such
\* a block (runBlockchain.ts: "remove invalid block"), for any chain with any transactions:
\* the gas that runBlock counted is what the transactions used, whatever made it throw is
\* wrong with the block, and the header is compared with what the block makes of its
\* parent's state.
THEOREM Deleted == ASSUME NEW CONSTANT v, Call = {v} PROVE Spec => DeletedIsInvalid
<1> DEFINE I == Types /\ CheckpointsAccounted /\ SoundHere(v)
           Allowed == leaked = 0 =>
                        \A b \in stored \ stored' : \E d \in Branch[b] :
                          ~ValidBlock(d) \/ RootOf(Parent[d]) \notin roots
<1>1. Spec => []I
  BY OneCall
<1>2. Init => Reasons
  <2> SUFFICES ASSUME Init PROVE Reasons
    OBVIOUS
  <2>1. \A c \in Call : call[c].at = "idle"
    BY DEF Init, IdleFrame
  <2> QED BY <2>1, Quiet DEF Reasons
<1>3. I /\ Reasons /\ [Next]_vars => Reasons'
  BY ReasonsKept
<1>4. I /\ Reasons /\ [Next]_vars => [Allowed]_vars
  <2> SUFFICES ASSUME I, Reasons, Next, leaked = 0, NEW b \in stored \ stored'
               PROVE  \E d \in Branch[b] : ~ValidBlock(d) \/ RootOf(Parent[d]) \notin roots
    OBVIOUS
  <2>1. Step(v)
    <3>1. stored' # stored
      OBVIOUS
    <3>2. ~Copy /\ ~Begin(v)
      BY <3>1 DEF Copy, Begin
    <3> QED BY <3>2 DEF Next
  <2>2. Reason(call[v])
    BY DEF Reasons
  <2> QED BY <2>1, <2>2, DeletesInvalid
<1>5. Spec => [][Allowed]_vars
  <2> HIDE DEF I, Allowed
  <2> QED BY <1>1, <1>2, <1>3, <1>4, PTL DEF Spec
<1> QED BY <1>5 DEF DeletedIsInvalid
=============================================================================
