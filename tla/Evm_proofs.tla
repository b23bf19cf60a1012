----------------------------- MODULE Evm_proofs -----------------------------
(***************************************************************************)
(* Theorems about Evm, for any accounts, depth and number of opcodes.      *)
(***************************************************************************)
EXTENDS EvmJournal, Sums, SequenceTheorems, TLAPS

LEMMA EtherIsTotal ==
  ASSUME NEW w
  PROVE  Ether(w) = Total(Address, [a \in Address |-> w[a].balance])
BY DEF Ether, MapThenSumSet, MapThenFoldSet, Total, Recursion

-----------------------------------------------------------------------------
(* The logs of a stack of frames.                                          *)

Solves(g, fr, n) == g = [i \in 0 .. n |-> IF i = 0 THEN <<>> ELSE g[i - 1] \o fr[i].logs]
LogsUpTo(fr, n) == (CHOOSE g : Solves(g, fr, n))[n]
DestructedUpTo(fr, n) == IF n = 0 THEN {} ELSE fr[n].selfdestruct
EntriesOf(fr) ==
  [i \in 1 .. Len(fr) |-> [world |-> fr[i].start, logs |-> LogsUpTo(fr, i - 1),
                           destructed |-> DestructedUpTo(fr, i - 1)]]

LEMMA Unfolded ==
  /\ \A n : LogsBelow(n) = LogsUpTo(frames, n) /\ DestructedBelow(n) = DestructedUpTo(frames, n)
  /\ EvmEntries = EntriesOf(frames)
  /\ \A n : LogsBelow(n)' = LogsUpTo(frames', n)
  /\ \A n : DestructedBelow(n)' = DestructedUpTo(frames', n)
  /\ EvmEntries' = EntriesOf(frames')
BY DEF LogsBelow, LogsUpTo, Solves, DestructedBelow, DestructedUpTo, EvmEntries, EntriesOf

\* What a solution does, one frame after the other.
Gathers(g, fr, n) == g[0] = <<>> /\ \A i \in 1 .. n : g[i] = g[i - 1] \o fr[i].logs

LEMMA SolvesGathers ==
  ASSUME NEW g, NEW fr, NEW n \in Nat, Solves(g, fr, n)
  PROVE  Gathers(g, fr, n)
<1> DEFINE h == [i \in 0 .. n |-> IF i = 0 THEN <<>> ELSE g[i - 1] \o fr[i].logs]
<1>1. g = h
  BY DEF Solves
<1>2. h[0] = <<>>
  <2>1. 0 \in 0 .. n
    OBVIOUS
  <2> QED BY <2>1
<1>3. ASSUME NEW i \in 1 .. n PROVE h[i] = g[i - 1] \o fr[i].logs
  <2>1. i \in 0 .. n /\ i # 0
    OBVIOUS
  <2> QED BY <2>1
<1> HIDE DEF h
<1> QED BY <1>1, <1>2, <1>3 DEF Gathers

LEMMA LogsSolved ==
  ASSUME NEW fr, NEW n \in Nat
  PROVE  \E g : Solves(g, fr, n) /\ Gathers(g, fr, n) /\ LogsUpTo(fr, n) = g[n]
<1> SUFFICES \E g : Solves(g, fr, n)
  BY SolvesGathers DEF LogsUpTo
<1> SUFFICES ASSUME ~ \E g : Solves(g, fr, n) PROVE FALSE
  OBVIOUS
<1> DEFINE S == {m \in Nat : ~ \E g : Solves(g, fr, m)}
<1>1. n \in S /\ S \in SUBSET Nat
  OBVIOUS
<1>2. PICK m \in S : \A k \in S : m <= k
  <2> HIDE DEF S
  <2> QED BY <1>1, Least
<1>3. m # 0
  <2>1. Solves([i \in 0 .. 0 |-> <<>>], fr, 0)
    BY DEF Solves
  <2> QED BY <2>1
<1>4. m \in Nat /\ m - 1 \in Nat /\ m - 1 \notin S
  <2>1. m \in Nat /\ m - 1 \in Nat
    BY <1>3
  <2>2. ~(m <= m - 1)
    BY <2>1
  <2> HIDE DEF S
  <2> QED BY <1>2, <2>1, <2>2
<1>5. PICK g : Solves(g, fr, m - 1)
  BY <1>4
<1>6. g[0] = <<>> /\ \A i \in 1 .. m - 1 : g[i] = g[i - 1] \o fr[i].logs
  <2>1. Gathers(g, fr, m - 1)
    BY <1>4, <1>5, SolvesGathers
  <2> QED BY <2>1 DEF Gathers
<1> DEFINE h == [i \in 0 .. m |-> IF i = m THEN g[m - 1] \o fr[m].logs ELSE g[i]]
<1>7. Solves(h, fr, m)
  <2>1. ASSUME NEW i \in 0 .. m
        PROVE  h[i] = IF i = 0 THEN <<>> ELSE h[i - 1] \o fr[i].logs
    <3>1. CASE i = 0
      BY <1>3, <1>6, <3>1
    <3>2. CASE i = m
      <4>1. m - 1 \in 0 .. m /\ m - 1 # m
        BY <1>3, <1>4
      <4>2. h[m] = g[m - 1] \o fr[m].logs
        <5>1. m \in 0 .. m
          BY <1>4
        <5> QED BY <5>1
      <4>3. h[m - 1] = g[m - 1]
        BY <4>1
      <4> QED BY <1>3, <3>2, <4>2, <4>3
    <3>3. CASE i # 0 /\ i # m
      <4>1. i - 1 \in 0 .. m /\ i - 1 # m /\ i \in 1 .. m - 1
        BY <1>4, <3>3
      <4>2. h[i] = g[i] /\ h[i - 1] = g[i - 1]
        BY <3>3, <4>1
      <4> QED BY <1>6, <3>3, <4>1, <4>2
    <3> QED BY <3>1, <3>2, <3>3
  <2>2. h = [i \in 0 .. m |-> h[i]]
    OBVIOUS
  <2> HIDE DEF h
  <2>3. [i \in 0 .. m |-> h[i]]
          = [i \in 0 .. m |-> IF i = 0 THEN <<>> ELSE h[i - 1] \o fr[i].logs]
    BY <2>1
  <2> QED BY <2>2, <2>3 DEF Solves
<1> HIDE DEF h
<1> QED BY <1>7

LEMMA GathersSame ==
  ASSUME NEW g, NEW h, NEW fr, NEW k \in Nat, Gathers(g, fr, k), Gathers(h, fr, k)
  PROVE  g[k] = h[k]
<1> SUFFICES ASSUME g[k] # h[k] PROVE FALSE
  OBVIOUS
<1>1. /\ g[0] = <<>> /\ \A i \in 1 .. k : g[i] = g[i - 1] \o fr[i].logs
      /\ h[0] = <<>> /\ \A i \in 1 .. k : h[i] = h[i - 1] \o fr[i].logs
  BY DEF Gathers
<1> DEFINE S == {j \in 0 .. k : g[j] # h[j]}
<1>2. k \in S /\ S \in SUBSET Nat
  OBVIOUS
<1>3. PICK j \in S : \A x \in S : j <= x
  <2> HIDE DEF S
  <2> QED BY <1>2, Least
<1>4. j \in 0 .. k /\ g[j] # h[j] /\ j # 0
  BY <1>1
<1>5. j - 1 \in 0 .. k /\ j \in 1 .. k /\ ~(j <= j - 1)
  BY <1>4
<1>6. j - 1 \notin S
  <2> HIDE DEF S
  <2> QED BY <1>3, <1>5
<1>7. g[j - 1] = h[j - 1]
  BY <1>5, <1>6
<1> QED BY <1>1, <1>4, <1>5, <1>7

LEMMA GathersLess ==
  ASSUME NEW g, NEW fr, NEW gr, NEW n \in Nat, NEW k \in Nat, k <= n,
         Gathers(g, fr, n), \A i \in 1 .. k : fr[i].logs = gr[i].logs
  PROVE  Gathers(g, gr, k)
<1>1. \A i \in 1 .. k : i \in 1 .. n
  OBVIOUS
<1> QED BY <1>1 DEF Gathers

LEMMA LogsAgree ==
  ASSUME NEW fr, NEW gr, NEW k \in Nat, \A i \in 1 .. k : fr[i].logs = gr[i].logs
  PROVE  LogsUpTo(fr, k) = LogsUpTo(gr, k)
<1>1. PICK g : Gathers(g, fr, k) /\ LogsUpTo(fr, k) = g[k]
  BY LogsSolved
<1>2. PICK h : Gathers(h, gr, k) /\ LogsUpTo(gr, k) = h[k]
  BY LogsSolved
<1>3. Gathers(g, gr, k)
  BY <1>1, GathersLess
<1> QED BY <1>1, <1>2, <1>3, GathersSame

LEMMA LogsStep ==
  ASSUME NEW fr
  PROVE  /\ LogsUpTo(fr, 0) = <<>>
         /\ \A n \in Nat \ {0} : LogsUpTo(fr, n) = LogsUpTo(fr, n - 1) \o fr[n].logs
<1>1. LogsUpTo(fr, 0) = <<>>
  <2>1. PICK g : Gathers(g, fr, 0) /\ LogsUpTo(fr, 0) = g[0]
    BY LogsSolved
  <2> QED BY <2>1 DEF Gathers
<1>2. ASSUME NEW n \in Nat \ {0}
      PROVE  LogsUpTo(fr, n) = LogsUpTo(fr, n - 1) \o fr[n].logs
  <2>1. n \in Nat /\ n \in 1 .. n /\ n - 1 \in Nat /\ n - 1 <= n
    OBVIOUS
  <2>2. PICK g : Gathers(g, fr, n) /\ LogsUpTo(fr, n) = g[n]
    BY <2>1, LogsSolved
  <2>3. PICK h : Gathers(h, fr, n - 1) /\ LogsUpTo(fr, n - 1) = h[n - 1]
    BY <2>1, LogsSolved
  <2>4. Gathers(g, fr, n - 1)
    BY <2>1, <2>2, GathersLess
  <2>5. g[n - 1] = h[n - 1]
    BY <2>1, <2>3, <2>4, GathersSame
  <2>6. g[n] = g[n - 1] \o fr[n].logs
    BY <2>1, <2>2 DEF Gathers
  <2> QED BY <2>2, <2>3, <2>5, <2>6
<1> QED BY <1>1, <1>2

LEMMA LogsType ==
  ASSUME NEW fr \in Seq(Frame), NEW n \in 0 .. Len(fr)
  PROVE  LogsUpTo(fr, n) \in Seq(Address)
<1> SUFFICES ASSUME LogsUpTo(fr, n) \notin Seq(Address) PROVE FALSE
  OBVIOUS
<1> DEFINE S == {j \in 0 .. Len(fr) : LogsUpTo(fr, j) \notin Seq(Address)}
<1>1. n \in S /\ S \in SUBSET Nat
  OBVIOUS
<1>2. PICK j \in S : \A x \in S : j <= x
  <2> HIDE DEF S
  <2> QED BY <1>1, Least
<1>3. j # 0
  <2>1. LogsUpTo(fr, 0) \in Seq(Address)
    BY LogsStep, EmptySeq
  <2> QED BY <2>1
<1>4. /\ j \in Nat \ {0} /\ j \in 1 .. Len(fr) /\ j - 1 \in 0 .. Len(fr) /\ ~(j <= j - 1)
      /\ LogsUpTo(fr, j) \notin Seq(Address)
  BY <1>3, LenProperties
<1>5. j - 1 \notin S
  <2> HIDE DEF S
  <2> QED BY <1>2, <1>4
<1>6. LogsUpTo(fr, j - 1) \in Seq(Address)
  BY <1>4, <1>5
<1>7. fr[j].logs \in Seq(Address)
  <2>1. fr[j] \in Frame
    BY <1>4, ElementOfSeq
  <2> QED BY <2>1 DEF Frame
<1>8. LogsUpTo(fr, j - 1) \o fr[j].logs \in Seq(Address)
  BY <1>6, <1>7, ConcatProperties
<1> QED BY <1>4, <1>8, LogsStep
USE ConstantsAssumption DEF ConstantsAssumption

-----------------------------------------------------------------------------
(* Stacks.                                                                 *)

LEMMA PopFacts ==
  ASSUME NEW S, NEW q \in Seq(S), q # <<>>
  PROVE  /\ Pop(q) \in Seq(S)
         /\ Len(q) \in Nat \ {0}
         /\ Len(Pop(q)) = Len(q) - 1
         /\ \A i \in 1 .. Len(q) - 1 : Pop(q)[i] = q[i]
         /\ Top(q) = q[Len(q)]
         /\ Top(q) \in S
<1> DEFINE n == Len(q)
<1>1. n \in Nat \ {0} /\ \A i \in 1 .. n : q[i] \in S
  BY EmptySeq, LenProperties
<1>2. Pop(q) = SubSeq(q, 1, n - 1) /\ Top(q) = q[n]
  BY DEF Pop, Top
<1> HIDE DEF n
<1>3. n - 1 \in Int /\ 1 \in Int /\ (\A i \in 1 .. n - 1 : q[i] \in S)
  BY <1>1
<1>4. /\ SubSeq(q, 1, n - 1) \in Seq(S)
      /\ Len(SubSeq(q, 1, n - 1)) = IF 1 <= n - 1 THEN n - 1 - 1 + 1 ELSE 0
      /\ \A i \in 1 .. n - 1 - 1 + 1 : SubSeq(q, 1, n - 1)[i] = q[1 + i - 1]
  BY <1>3, SubSeqProperties
<1>5. Len(Pop(q)) = n - 1
  BY <1>1, <1>2, <1>4
<1>6. \A i \in 1 .. n - 1 : Pop(q)[i] = q[i]
  BY <1>1, <1>2, <1>4
<1> QED
  BY <1>1, <1>2, <1>4, <1>5, <1>6 DEF n

LEMMA ReplaceFacts ==
  ASSUME NEW S, NEW q \in Seq(S), q # <<>>, NEW e \in S
  PROVE  /\ Replace(q, e) \in Seq(S)
         /\ Replace(q, e) # <<>>
         /\ Len(Replace(q, e)) = Len(q)
         /\ \A i \in 1 .. Len(q) - 1 : Replace(q, e)[i] = q[i]
         /\ Replace(q, e)[Len(q)] = e
         /\ Top(Replace(q, e)) = e
<1>1. Len(q) \in Nat \ {0}
  BY EmptySeq
<1>2. Len(q) \in 1 .. Len(q)
  BY <1>1
<1>3. /\ Replace(q, e) \in Seq(S)
      /\ Len(Replace(q, e)) = Len(q)
      /\ \A j \in 1 .. Len(q) : Replace(q, e)[j] = IF j = Len(q) THEN e ELSE q[j]
  BY <1>2, ExceptSeq DEF Replace
<1>4. Replace(q, e) # <<>>
  BY <1>1, <1>3, EmptySeq
<1> QED BY <1>1, <1>3, <1>4 DEF Top

LEMMA PushFacts ==
  ASSUME NEW S, NEW q \in Seq(S), NEW e \in S
  PROVE  /\ Append(q, e) \in Seq(S)
         /\ Append(q, e) # <<>>
         /\ Len(Append(q, e)) = Len(q) + 1
         /\ \A i \in 1 .. Len(q) : Append(q, e)[i] = q[i]
         /\ Append(q, e)[Len(q) + 1] = e
         /\ Top(Append(q, e)) = e
BY AppendProperties DEF Top
-----------------------------------------------------------------------------
(* Types.                                                                  *)

\* TypeOK but for the report, which nothing reads.
Types ==
  /\ world \in World
  /\ saved \in Seq(World)
  /\ frames \in Seq(Frame)
  /\ message \in Message \union {NoMessage}
  /\ answer \in {"none", "ok", "failed"}
  /\ refund \in Nat
  /\ target \in Address \union {NoAddress}
  /\ targetFound \in BOOLEAN
  /\ targetFailed \in BOOLEAN \union {NoResult}
  /\ accountFalse \in BOOLEAN
  /\ steps \in Nat

\* What errors cannot take: a checkpoint for every message under way.
Backed == Types /\ CheckpointsSuffice

LEMMA WorldType ==
  ASSUME NEW w \in World, NEW a \in Address
  PROVE  /\ w[a] \in Account
         /\ w[a].nonce \in Nat /\ w[a].balance \in Nat
         /\ w[a].code \in BOOLEAN /\ w[a].storage \in {0, 1}
         /\ \A c \in BOOLEAN : [w EXCEPT ![a].code = c] \in World
         /\ \A n \in Nat : [w EXCEPT ![a].nonce = n] \in World
         /\ \A n \in Nat : [w EXCEPT ![a].balance = n] \in World
         /\ \A s \in {0, 1} : [w EXCEPT ![a].storage = s] \in World
         /\ \A v \in Nat : Reduced(w, a, v) \in World /\ Increased(w, a, v) \in World
<1> USE DEF World, Account
<1>1. w[a] \in Account
  OBVIOUS
<1>2. ASSUME NEW v \in Nat
      PROVE Reduced(w, a, v) \in World /\ Increased(w, a, v) \in World
  BY DEF Reduced, Increased, Abs
<1> QED BY <1>1, <1>2

LEMMA InitBacked == Init => Backed
<1> SUFFICES ASSUME Init PROVE Backed
  OBVIOUS
<1>1. world \in World
  BY DEF Init, FirstWorld, World, Account
<1>2. saved \in Seq(World) /\ frames \in Seq(Frame) /\ Len(saved) >= Len(frames)
  BY EmptySeq DEF Init
<1> QED BY <1>1, <1>2 DEF Init, Backed, Types, CheckpointsSuffice

LEMMA EnteredType ==
  ASSUME Types, message # NoMessage
  PROVE  Entered \in World /\ message \in Message
<1>1. message \in Message /\ message.sender \in Address
  BY DEF Types, Message
<1>2. world \in World
  BY DEF Types
<1> QED BY <1>1, <1>2, WorldType DEF Entered

LEMMA PushedType ==
  ASSUME Types, message # NoMessage, NEW a \in Address, NEW w \in World,
         NEW status \in {"running", "stopped", "failed"}
  PROVE  Pushed(a, w, status) \in Seq(Frame)
<1>1. message \in Message
  BY DEF Types
<1>2. <<>> \in Seq(Address)
  BY EmptySeq
<1>3. w[a] \in Account
  BY WorldType
<1>4. (IF frames = <<>> THEN {} ELSE Top(frames).selfdestruct) \in SUBSET Address
  <2>1. CASE frames # <<>>
    <3>1. Top(frames) \in Frame
      BY <2>1, PopFacts DEF Types
    <3> QED BY <2>1, <3>1 DEF Frame
  <2> QED BY <2>1
<1>5. [address |-> a, isStatic |-> message.isStatic,
       isCreate |-> message.to = NoAddress, isTarget |-> IsTarget,
       contract |-> w[a], logs |-> <<>>,
       selfdestruct |-> IF frames = <<>> THEN {} ELSE Top(frames).selfdestruct,
       oldRefund |-> refund, start |-> world, status |-> status] \in Frame
  BY <1>1, <1>2, <1>3, <1>4 DEF Types, Frame, Message, IsTarget
<1> QED BY <1>5, PushFacts DEF Pushed, Types

LEMMA BeginBacked ==
  ASSUME Backed, message # NoMessage, NEW a \in Address, NEW w \in World,
         NEW status \in {"running", "stopped", "failed"}, Begin(a, w, status)
  PROVE  Backed'
<1> USE DEF Backed, Types, CheckpointsSuffice
<1>1. frames' \in Seq(Frame)
  BY PushedType DEF Begin
<1>2. saved' \in Seq(World) /\ Len(saved') = Len(saved) + 1
  BY PushFacts DEF Begin
<1>3. Len(frames') = Len(frames) + 1
  BY DEF Begin, Pushed
<1>4. Len(saved') >= Len(frames')
  BY <1>2, <1>3, LenProperties
<1> QED BY <1>1, <1>2, <1>4 DEF Begin, IsTarget

LEMMA ThrowBacked ==
  ASSUME Backed, message # NoMessage, NEW w \in World, Throw(w)
  PROVE  Backed'
<1> USE DEF Backed, Types, CheckpointsSuffice
<1>1. /\ frames' \in Seq(Frame)
      /\ Len(frames') \in Nat /\ Len(frames') <= Len(frames)
  <2>1. CASE frames = <<>>
    BY <2>1, EmptySeq DEF Throw
  <2>2. CASE frames # <<>>
    <3>1. [Top(frames) EXCEPT !.status = "failed"] \in Frame
      <4>1. Top(frames) \in Frame
        BY <2>2, PopFacts
      <4> QED BY <4>1 DEF Frame
    <3> QED BY <2>2, <3>1, ReplaceFacts, LenProperties DEF Throw
  <2> QED BY <2>1, <2>2
<1>2. saved' \in Seq(World) /\ Len(saved') = Len(saved) + 1
  BY PushFacts DEF Throw
<1>3. Len(saved') >= Len(frames')
  BY <1>1, <1>2, LenProperties
<1> QED BY <1>1, <1>2, <1>3 DEF Throw, IsTarget

LEMMA ExecuteBacked ==
  ASSUME Backed, Execute
  PROVE  Backed'
<1> USE DEF Backed
<1>1. CASE CallStateManager
  <2>1. Entered \in World /\ OSM \in Address
    BY <1>1, EnteredType DEF CallStateManager
  <2>2. Handled \subseteq World
    <3>1. ASSUME NEW a \in Address, NEW n \in Nat PROVE [Entered EXCEPT ![a].nonce = n] \in World
      BY <2>1, WorldType
    <3>2. ASSUME NEW a \in Address, NEW s \in {0, 1}
          PROVE [Entered EXCEPT ![a].storage = s] \in World
      BY <2>1, WorldType
    <3>3. ASSUME NEW v \in Handled PROVE v \in World
      <4> DEFINE e == Entered
      <4>1. \/ v = e
            \/ \E a \in Address, n \in 0 .. MaxNonce : v = [e EXCEPT ![a].nonce = n]
            \/ \E a \in Address, s \in {0, 1} : v = [e EXCEPT ![a].storage = s]
        BY DEF Handled
      <4> HIDE DEF e
      <4>2. 0 .. MaxNonce \subseteq Nat
        OBVIOUS
      <4> QED BY ZenonT(40), <2>1, <3>1, <3>2, <4>1, <4>2 DEF e
    <3> QED BY <3>3
  <2>3. message # NoMessage
    BY <1>1 DEF CallStateManager
  <2> QED BY <1>1, <2>1, <2>2, <2>3, BeginBacked, ThrowBacked DEF CallStateManager
<1>2. CASE ExecuteCall
  <2>1. Entered \in World /\ message \in Message /\ message # NoMessage
    BY <1>2, EnteredType DEF ExecuteCall
  <2> DEFINE w == IF message.delegatecall THEN Entered
                  ELSE Reduced(Entered, message.sender, message.value)
             moved == IF message.delegatecall THEN w
                      ELSE Increased(w, message.to, message.value)
  <2>2. message.sender \in Address /\ message.to \in Address /\ message.value \in Nat
    BY <1>2, <2>1 DEF ExecuteCall, Message
  <2>3. w \in World
    BY <2>1, <2>2, WorldType
  <2>4. moved \in World
    BY <2>2, <2>3, WorldType
  <2>5. CodeStatus(moved) \subseteq {"running", "stopped", "failed"}
    BY DEF CodeStatus
  <2>6. \/ Throw(w)
        \/ \E status \in CodeStatus(moved) : Begin(message.to, moved, status)
    BY <1>2 DEF ExecuteCall
  <2> HIDE DEF w, moved
  <2> QED BY <2>1, <2>2, <2>3, <2>4, <2>5, <2>6, BeginBacked, ThrowBacked
<1>3. ASSUME NEW a \in Address, ExecuteCreate(a) PROVE Backed'
  <2>1. Entered \in World /\ message \in Message /\ message # NoMessage
    BY <1>3, EnteredType DEF ExecuteCreate
  <2> DEFINE w == Reduced(Entered, message.sender, message.value)
             cleared == [w EXCEPT ![a].storage = 0]
             bumped == [cleared EXCEPT ![a].nonce = @ + 1]
             moved == Increased(bumped, a, message.value)
  <2>2. message.sender \in Address /\ message.value \in Nat
    BY <2>1 DEF Message
  <2>3. w \in World
    BY <2>1, <2>2, WorldType
  <2>4. cleared \in World
    <3> HIDE DEF w
    <3> QED BY <2>3, WorldType
  <2>5. bumped \in World
    <3> HIDE DEF cleared
    <3>1. cleared[a].nonce + 1 \in Nat
      <4>1. cleared[a].nonce \in Nat
        BY <2>4, WorldType
      <4> QED BY <4>1
    <3>2. bumped = [cleared EXCEPT ![a].nonce = cleared[a].nonce + 1]
      BY <2>4 DEF World, Account
    <3> HIDE DEF bumped
    <3> QED BY <2>4, <3>1, <3>2, WorldType
  <2>6. moved \in World
    <3> HIDE DEF bumped
    <3> QED BY <2>2, <2>5, WorldType
  <2>7. \/ Begin(a, w, "failed")
        \/ Throw(cleared)
        \/ \E status \in {"running", "stopped"} : Begin(a, moved, status)
    BY <1>3 DEF ExecuteCreate
  <2> HIDE DEF w, cleared, bumped, moved
  <2> QED BY <2>1, <2>3, <2>4, <2>6, <2>7, BeginBacked, ThrowBacked
<1> QED BY <1>1, <1>2, <1>3 DEF Execute

\* An opcode changes the frame it runs in and no other.
LEMMA OpcodeBacked ==
  ASSUME Backed, Opcode
  PROVE  Backed'
<1> DEFINE f == Top(frames)
<1>0. frames # <<>> /\ steps' \in Nat
  <2>1. Step
    BY DEF Opcode, SStore, Log, SelfDestruct, Call, Create
  <2> QED BY <2>1 DEF Step, Running, Backed, Types
<1>1. f \in Frame
  BY <1>0, PopFacts DEF Backed, Types
<1>2. /\ f.address \in Address /\ f.contract \in Account
      /\ f.isStatic \in BOOLEAN /\ f.logs \in Seq(Address)
      /\ f.selfdestruct \in SUBSET Address
  BY <1>1 DEF Frame
<1> HIDE DEF f
<1>3. \A g \in Frame : /\ Replace(frames, g) \in Seq(Frame)
                      /\ Len(Replace(frames, g)) = Len(frames)
  BY <1>0, ReplaceFacts DEF Backed, Types
<1>4. ASSUME NEW v \in {0, 1}, SStore(v) PROVE Backed'
  <2>1. world' = [world EXCEPT ![f.address].storage = v] /\ world' \in World
    BY <1>2, <1>4, WorldType DEF SStore, f, Backed, Types
  <2>2. [f EXCEPT !.contract = world'[f.address]] \in Frame
    BY <1>1, <1>2, <2>1, WorldType DEF Frame
  <2>3. frames' = Replace(frames, [f EXCEPT !.contract = world'[f.address]])
    BY <1>4 DEF SStore, f
  <2>4. refund' \in Nat
    BY <1>4 DEF SStore, StoreRefund, Backed, Types
  <2> QED BY <1>0, <1>3, <1>4, <2>1, <2>2, <2>3, <2>4
         DEF SStore, outermost, Backed, Types, CheckpointsSuffice
<1>5. CASE Log
  <2>1. frames' = Replace(frames, [f EXCEPT !.logs = Append(@, f.address)])
    BY <1>5 DEF Log, f
  <2>2. Append(f.logs, f.address) \in Seq(Address)
    BY <1>2, PushFacts
  <2>3. [f EXCEPT !.logs = Append(@, f.address)] \in Frame
    BY <1>1, <2>2 DEF Frame
  <2> QED BY <1>0, <1>3, <1>5, <2>1, <2>3
         DEF Log, outermost, Backed, Types, CheckpointsSuffice
<1>6. ASSUME NEW a \in Address, SelfDestruct(a) PROVE Backed'
  <2> DEFINE w == Increased(world, a, f.contract.balance)
             g == [f EXCEPT !.selfdestruct = @ \union {f.address}, !.status = "stopped"]
  <2>1. w \in World
    BY <1>2, WorldType DEF Account, Backed, Types
  <2>2. world' = [w EXCEPT ![f.address].balance = 0]
    BY <1>6 DEF SelfDestruct, f
  <2>3. world' \in World
    <3> HIDE DEF w
    <3> QED BY <1>2, <2>1, <2>2, WorldType
  <2>4. g \in Frame
    BY <1>1, <1>2 DEF Frame
  <2>5. frames' = Replace(frames, g)
    BY <1>6 DEF SelfDestruct, f
  <2>6. refund' \in Nat
    BY <1>6 DEF SelfDestruct, Backed, Types
  <2> HIDE DEF w, g
  <2> QED BY <1>0, <1>3, <1>6, <2>3, <2>4, <2>5, <2>6
         DEF SelfDestruct, outermost, Backed, Types, CheckpointsSuffice
<1>7. ASSUME NEW kind \in {"call", "callcode", "delegatecall", "staticcall"},
             NEW a \in Address, NEW v \in Value, Call(kind, a, v)
      PROVE  Backed'
  <2>1. CallMessage(f, kind, a, v) \in Message
    BY <1>2 DEF CallMessage, Message
  <2>2. message' \in Message \union {NoMessage} /\ answer' \in {"none", "ok", "failed"}
    BY <1>7, <2>1 DEF Call, f, Backed, Types
  <2> QED BY <1>0, <1>7, <2>2 DEF Call, outermost, Backed, Types, CheckpointsSuffice
<1>8. ASSUME NEW v \in Value, Create(v) PROVE Backed'
  <2> DEFINE m == [sender |-> f.address, to |-> NoAddress, codeAddress |-> NoAddress,
                   value |-> v, isStatic |-> FALSE, delegatecall |-> FALSE]
             bumped == [f.contract EXCEPT !.nonce = @ + 1]
  <2>1. m \in Message
    BY <1>2 DEF Message
  <2>2. bumped \in Account
    BY SMTT(30), <1>2 DEF Account
  <2>3. [f EXCEPT !.contract = bumped] \in Frame /\ [world EXCEPT ![f.address] = bumped] \in World
    BY <1>1, <1>2, <2>2 DEF Frame, World, Backed, Types
  <2>4. /\ \/ answer' = "failed" /\ UNCHANGED <<world, frames, message>>
           \/ /\ message' = m
              /\ world' = [world EXCEPT ![f.address] = bumped]
              /\ frames' = Replace(frames, [f EXCEPT !.contract = bumped])
              /\ UNCHANGED answer
        /\ UNCHANGED <<saved, refund, outermost>>
    BY <1>8 DEF Create, f
  <2> HIDE DEF m, bumped
  <2> QED BY <1>0, <1>3, <2>1, <2>3, <2>4 DEF outermost, Backed, Types, CheckpointsSuffice
<1> QED BY <1>4, <1>5, <1>6, <1>7, <1>8 DEF Opcode

LEMMA RunBacked ==
  ASSUME Backed, NEW sender \in Address, NEW to \in Address \union {NoAddress},
         NEW value \in Value, NEW isStatic \in BOOLEAN, Run(sender, to, value, isStatic)
  PROVE  Backed'
<1>1. OvmMessage(sender, value, isStatic) \in Message
  BY DEF OvmMessage, Message
<1> QED BY <1>1 DEF Run, Backed, Types, CheckpointsSuffice

LEMMA FinishBacked ==
  ASSUME Backed, NEW thrown \in BOOLEAN, NEW deposit \in {"none", "stored", "fails"},
         NEW zero \in BOOLEAN, Finish(thrown, deposit, zero)
  PROVE  Backed'
<1> DEFINE f == Top(frames)
           failed == thrown \/ deposit = "fails"
           w == IF failed THEN Top(saved)
                ELSE IF deposit = "stored" THEN [world EXCEPT ![f.address].code = TRUE]
                ELSE world
<1>1. /\ frames \in Seq(Frame) /\ frames # <<>> /\ saved \in Seq(World) /\ world \in World
      /\ Len(saved) >= Len(frames)
  BY DEF Finish, Backed, Types, CheckpointsSuffice
<1>2. /\ f \in Frame /\ Pop(frames) \in Seq(Frame)
      /\ Len(frames) \in Nat \ {0} /\ Len(Pop(frames)) = Len(frames) - 1
  BY <1>1, PopFacts
<1>3. saved # <<>>
  BY <1>1, <1>2, EmptySeq
<1>4. Pop(saved) \in Seq(World) /\ Len(Pop(saved)) = Len(saved) - 1 /\ Top(saved) \in World
  BY <1>1, <1>3, PopFacts
<1>5. w \in World
  <2>1. f.address \in Address
    BY <1>2 DEF Frame
  <2> HIDE DEF f
  <2> QED BY <1>1, <1>4, <2>1, WorldType
<1> HIDE DEF w
<1>6. world' = w /\ saved' = Pop(saved)
  BY DEF Finish, w
<1>7. refund' \in Nat
  BY <1>2 DEF Finish, RefundLeft, Frame, Backed, Types
<1>8. frames' \in Seq(Frame) /\ Len(frames') = Len(frames) - 1
  <2>1. CASE Depth = 0
    BY <1>2, <2>1, EmptySeq DEF Finish, Depth
  <2>2. CASE Depth # 0
    <3> DEFINE rest == Pop(frames)
               parent == Resumed(Top(rest), f, failed, w)
    <3>1. rest # <<>>
      BY <1>2, <2>2, EmptySeq DEF Depth
    <3>2. Top(rest) \in Frame
      BY <1>2, <3>1, PopFacts
    <3>3. parent \in Frame
      <4>1. f.logs \in Seq(Address) /\ f.selfdestruct \in SUBSET Address
        BY <1>2 DEF Frame
      <4>2. Top(rest).logs \in Seq(Address) /\ Top(rest).address \in Address
        BY <3>2 DEF Frame
      <4>3. Top(rest).logs \o f.logs \in Seq(Address) /\ w[Top(rest).address] \in Account
        BY <1>5, <4>1, <4>2, ConcatProperties, WorldType
      <4> HIDE DEF rest, f
      <4> QED BY <3>2, <4>1, <4>2, <4>3 DEF Frame, Resumed
    <3>4. frames' = Replace(rest, parent)
      BY <2>2 DEF Finish, w
    <3> HIDE DEF rest, parent
    <3>5. rest \in Seq(Frame) /\ Len(rest) = Len(frames) - 1
      BY <1>2 DEF rest
    <3> QED BY <3>1, <3>3, <3>4, <3>5, ReplaceFacts
  <2> QED BY <2>1, <2>2
<1>9. /\ message' = message /\ steps' = steps
      /\ answer' \in {"none", "ok", "failed"}
      /\ accountFalse' \in BOOLEAN
      /\ targetFailed' \in BOOLEAN \union {NoResult}
      /\ target' \in Address \union {NoAddress} /\ targetFound' \in BOOLEAN
  <2>1. f.isTarget \in BOOLEAN /\ failed \in BOOLEAN
    BY <1>2 DEF Frame
  <2> HIDE DEF f
  <2> QED BY <2>1 DEF Finish, f, Forgotten, Backed, Types
<1>10. Len(saved') >= Len(frames')
  BY <1>1, <1>2, <1>4, <1>6, <1>8, LenProperties
<1> QED BY <1>4, <1>5, <1>6, <1>7, <1>8, <1>9, <1>10 DEF Backed, Types, CheckpointsSuffice

LEMMA BackedInvariant == Spec => []Backed
<1>1. Backed /\ [Next]_vars => Backed'
  <2> SUFFICES ASSUME Backed, [Next]_vars PROVE Backed'
    OBVIOUS
  <2>1. CASE UNCHANGED vars
    BY <2>1 DEF vars, Backed, Types, CheckpointsSuffice
  <2>2. CASE End
    BY <2>2, FinishBacked DEF End
  <2>3. CASE \E sender \in Address, to \in Address \union {NoAddress}, value \in Value,
               isStatic \in BOOLEAN : Run(sender, to, value, isStatic)
    BY <2>3, RunBacked
  <2> QED BY <2>1, <2>2, <2>3, OpcodeBacked, ExecuteBacked DEF Next
<1> QED BY <1>1, InitBacked, PTL DEF Spec

\* Whatever errors leave behind, a message never ends without a checkpoint of
\* the state manager to commit or revert (evm.ts executeMessage).
THEOREM Checkpoints == Spec => []CheckpointsSuffice
<1>1. Backed => CheckpointsSuffice
  BY DEF Backed
<1> QED BY <1>1, BackedInvariant, PTL
-----------------------------------------------------------------------------
(* Ether.                                                                  *)

LEMMA BalancesType ==
  ASSUME NEW w \in World
  PROVE  [a \in Address |-> w[a].balance] \in [Address -> Nat]
BY WorldType

\* Nobody has more than there is.
LEMMA EtherBounds ==
  ASSUME IsFiniteSet(Address), NEW w \in World
  PROVE  Ether(w) \in Nat /\ \A a \in Address : w[a].balance <= Ether(w)
<1> DEFINE b == [a \in Address |-> w[a].balance]
<1>1. b \in [Address -> Nat] /\ Ether(w) = Total(Address, b)
  BY BalancesType, EtherIsTotal
<1>2. \A a \in Address : b[a] = w[a].balance
  OBVIOUS
<1> HIDE DEF b
<1> QED BY <1>1, <1>2, TotalType, TotalBounds

LEMMA EtherChanges ==
  ASSUME IsFiniteSet(Address), NEW w \in World, NEW v \in World, NEW a \in Address,
         \A x \in Address \ {a} : v[x].balance = w[x].balance
  PROVE  Ether(v) = Ether(w) + v[a].balance - w[a].balance
<1> DEFINE b == [x \in Address |-> w[x].balance]
           c == [x \in Address |-> v[x].balance]
<1>1. /\ b \in [Address -> Nat] /\ Ether(w) = Total(Address, b)
      /\ c \in [Address -> Nat] /\ Ether(v) = Total(Address, c)
  BY BalancesType, EtherIsTotal
<1>2. b[a] = w[a].balance /\ c[a] = v[a].balance /\ \A x \in Address \ {a} : b[x] = c[x]
  OBVIOUS
<1> HIDE DEF b, c
<1>3. Total(Address, c) = Total(Address, b) + c[a] - b[a]
  BY <1>1, <1>2, TotalChanges
<1> QED BY <1>1, <1>2, <1>3

LEMMA EtherSame ==
  ASSUME NEW w \in World, NEW v \in World, \A x \in Address : v[x].balance = w[x].balance
  PROVE  Ether(v) = Ether(w)
<1>1. [x \in Address |-> w[x].balance] = [x \in Address |-> v[x].balance]
  OBVIOUS
<1> QED BY <1>1, EtherIsTotal

\* Taking what an account has, and giving.
LEMMA Transfer ==
  ASSUME IsFiniteSet(Address), NEW w \in World, NEW a \in Address, NEW v \in Nat
  PROVE  /\ Increased(w, a, v) \in World /\ Reduced(w, a, v) \in World
         /\ Ether(Increased(w, a, v)) = Ether(w) + v
         /\ v <= w[a].balance => Ether(Reduced(w, a, v)) = Ether(w) - v
<1>1. Increased(w, a, v) \in World /\ Reduced(w, a, v) \in World
  BY WorldType
<1>2. Ether(w) \in Nat /\ w[a].balance \in Nat
  BY EtherBounds, WorldType
<1>3. /\ Increased(w, a, v)[a].balance = w[a].balance + v
      /\ \A x \in Address \ {a} : Increased(w, a, v)[x].balance = w[x].balance
  BY DEF Increased, World, Account
<1>4. /\ v <= w[a].balance => Reduced(w, a, v)[a].balance = w[a].balance - v
      /\ \A x \in Address \ {a} : Reduced(w, a, v)[x].balance = w[x].balance
  BY <1>2 DEF Reduced, Abs, World, Account
<1>5. Ether(Increased(w, a, v)) = Ether(w) + Increased(w, a, v)[a].balance - w[a].balance
  BY <1>1, <1>3, EtherChanges
<1>6. Ether(Reduced(w, a, v)) = Ether(w) + Reduced(w, a, v)[a].balance - w[a].balance
  BY <1>1, <1>4, EtherChanges
<1> QED BY <1>1, <1>2, <1>3, <1>4, <1>5, <1>6
-----------------------------------------------------------------------------
(* The invariant, when nothing throws and nobody spends more than he has:  *)
(* of the frames with their checkpoints, of static frames, and of the      *)
(* message that is on its way.                                             *)

Solvent ==
  /\ ~Throws /\ ~Unfunded
  /\ IsFiniteSet(Address)
  /\ Ether(FirstWorld) <= MaxBalance

\* A waiting frame goes on running, its copy of the account is what the
\* account was when it sent its message, and its selfdestructs were handed on.
StackOK(fr, sv) ==
  /\ Len(sv) = Len(fr)
  /\ \A i \in 1 .. Len(fr) : sv[i] = fr[i].start
  /\ \A i \in 1 .. Len(fr) - 1 :
       /\ fr[i].status = "running"
       /\ fr[i].contract = fr[i + 1].start[fr[i].address]
       /\ fr[i].selfdestruct \subseteq fr[i + 1].selfdestruct
  /\ Len(fr) > 0 => ~fr[1].isCreate

Quiet(v, w) == \A a \in Address : w[a].balance = v[a].balance /\ w[a].code = v[a].code

\* Below a static frame everything is static, and began in a world as quiet.
StaticOK(fr, w, rf) ==
  \A i \in 2 .. Len(fr) : fr[i].isStatic =>
    /\ Quiet(fr[i].start, w)
    /\ fr[i].logs = <<>>
    /\ fr[i].selfdestruct = fr[i - 1].selfdestruct
    /\ rf = fr[i].oldRefund
    /\ ~fr[i].isCreate
    /\ \A j \in i + 1 .. Len(fr) :
         /\ fr[j].isStatic
         /\ Quiet(fr[i].start, fr[j].start)
         /\ fr[j].oldRefund = fr[i].oldRefund

MessageOK ==
  message # NoMessage =>
    /\ message.value <= world[message.sender].balance
    /\ frames = <<>> => message.to # NoAddress
    /\ frames # <<>> =>
         /\ Top(frames).status = "running"
         /\ Top(frames).isStatic => message.isStatic
         /\ message.isStatic => /\ message.to # NoAddress
                                /\ message.value = 0 \/ message.sender = message.to

IInv ==
  /\ Types
  /\ StackOK(frames, saved)
  /\ ContractFresh
  /\ StaticOK(frames, world, refund)
  /\ MessageOK
  /\ NoEtherCreated

LEMMA QuietFacts ==
  /\ \A w : Quiet(w, w)
  /\ \A u, v, w : Quiet(u, v) /\ Quiet(v, w) => Quiet(u, w)
BY DEF Quiet

\* The shape of a stack that is not empty.
LEMMA StackShape ==
  ASSUME Types, StackOK(frames, saved), frames # <<>>
  PROVE  /\ Len(frames) \in Nat \ {0} /\ Len(saved) = Len(frames) /\ saved # <<>>
         /\ Top(frames) = frames[Len(frames)] /\ Top(frames) \in Frame
         /\ \A i \in 1 .. Len(frames) : frames[i] \in Frame /\ frames[i].start \in World
         /\ Top(saved) = Top(frames).start /\ Top(saved) \in World
<1>1. /\ Len(frames) \in Nat \ {0} /\ Len(saved) = Len(frames)
      /\ Top(frames) = frames[Len(frames)] /\ Top(frames) \in Frame
  BY PopFacts DEF StackOK, Types
<1>2. saved # <<>>
  BY <1>1, EmptySeq
<1>3. Top(saved) = saved[Len(saved)] /\ Top(saved) \in World
  BY <1>2, PopFacts DEF Types
<1>4. \A i \in 1 .. Len(frames) : frames[i] \in Frame
  BY ElementOfSeq DEF Types
<1>5. \A i \in 1 .. Len(frames) : frames[i].start \in World
  BY <1>4 DEF Frame
<1> QED BY <1>1, <1>2, <1>3, <1>4, <1>5 DEF StackOK

\* A new frame begins in the current world.
LEMMA PushSound ==
  ASSUME IInv, Solvent, message # NoMessage, NEW a \in Address, NEW w \in World,
         NEW status \in {"running", "stopped", "failed"}, Begin(a, w, status),
         Ether(w) <= Ether(FirstWorld),
         frames # <<>> /\ message.isStatic => Quiet(world, w)
  PROVE  IInv'
<1> DEFINE n == Len(frames)
           f == frames'[n + 1]
<1>1. /\ frames \in Seq(Frame) /\ saved \in Seq(World) /\ world \in World
      /\ n \in Nat /\ Len(saved) = n
  BY LenProperties DEF IInv, Types, StackOK
<1>2. /\ frames' = Append(frames,
           [address |-> a, isStatic |-> message.isStatic,
            isCreate |-> message.to = NoAddress, isTarget |-> IsTarget,
            contract |-> w[a], logs |-> <<>>,
            selfdestruct |-> IF frames = <<>> THEN {} ELSE Top(frames).selfdestruct,
            oldRefund |-> refund, start |-> world, status |-> status])
      /\ saved' = Append(saved, world) /\ world' = w /\ refund' = refund
      /\ message' = NoMessage
  BY DEF Begin, Pushed
<1>3. Types'
  <2>1. Backed
    BY <1>1 DEF IInv, Backed, CheckpointsSuffice
  <2> QED BY <2>1, BeginBacked DEF Backed
<1>4. /\ Len(frames') = n + 1 /\ Len(saved') = n + 1
      /\ \A i \in 1 .. n : frames'[i] = frames[i] /\ saved'[i] = saved[i]
      /\ saved'[n + 1] = world /\ f.start = world
      /\ f.isStatic = message.isStatic /\ f.isCreate = (message.to = NoAddress)
      /\ f.logs = <<>> /\ f.oldRefund = refund
      /\ f.selfdestruct = IF frames = <<>> THEN {} ELSE Top(frames).selfdestruct
      /\ f.contract = w[a] /\ f.address = a
      /\ Top(frames') = f
  BY <1>1, <1>2 DEF Top
<1> HIDE DEF f
<1>5. StackOK(frames', saved')
  <2>1. \A i \in 1 .. n + 1 : saved'[i] = frames'[i].start
    <3>1. ASSUME NEW i \in 1 .. n PROVE saved'[i] = frames'[i].start
      BY <1>4 DEF IInv, StackOK
    <3>2. saved'[n + 1] = frames'[n + 1].start
      BY <1>4 DEF f
    <3> QED BY <1>1, <3>1, <3>2
  <2>2. ASSUME NEW i \in 1 .. n
        PROVE  /\ frames'[i].status = "running"
               /\ frames'[i].contract = frames'[i + 1].start[frames'[i].address]
               /\ frames'[i].selfdestruct \subseteq frames'[i + 1].selfdestruct
    <3>1. CASE i = n
      <4>1. frames # <<>> /\ Top(frames) = frames[n]
        BY <1>1, <3>1, EmptySeq DEF Top
      <4>2. frames[n].status = "running" /\ frames[n].contract = world[frames[n].address]
        BY <4>1 DEF IInv, MessageOK, ContractFresh
      <4>3. frames'[n] = frames[n] /\ frames'[n + 1] = f
        BY <1>1, <1>4, <3>1 DEF f
      <4>4. f.start = world /\ f.selfdestruct = frames[n].selfdestruct
        BY <1>4, <4>1
      <4> QED BY <3>1, <4>2, <4>3, <4>4
    <3>2. CASE i # n
      <4>1. i \in 1 .. n - 1 /\ i \in 1 .. n /\ i + 1 \in 1 .. n
        BY <1>1, <3>2
      <4> QED BY <1>4, <4>1 DEF IInv, StackOK
    <3> QED BY <3>1, <3>2
  <2>3. ~frames'[1].isCreate
    <3>1. CASE n = 0
      <4>1. frames = <<>>
        BY <1>1, <3>1, EmptySeq
      <4>2. message.to # NoAddress
        BY <4>1 DEF IInv, MessageOK
      <4>3. frames'[1] = f
        BY <3>1 DEF f
      <4> QED BY <1>4, <4>2, <4>3
    <3>2. CASE n # 0
      <4>1. n > 0 /\ 1 \in 1 .. n
        BY <1>1, <3>2
      <4> QED BY <1>4, <4>1 DEF IInv, StackOK
    <3> QED BY <3>1, <3>2
  <2> QED BY <1>1, <1>4, <2>1, <2>2, <2>3 DEF StackOK
<1>6. StaticOK(frames', world', refund')
  <2> SUFFICES ASSUME NEW i \in 2 .. n + 1, frames'[i].isStatic
               PROVE  /\ Quiet(frames'[i].start, w)
                      /\ frames'[i].logs = <<>>
                      /\ frames'[i].selfdestruct = frames'[i - 1].selfdestruct
                      /\ refund = frames'[i].oldRefund
                      /\ ~frames'[i].isCreate
                      /\ \A j \in i + 1 .. n + 1 :
                           /\ frames'[j].isStatic
                           /\ Quiet(frames'[i].start, frames'[j].start)
                           /\ frames'[j].oldRefund = frames'[i].oldRefund
    <3>1. world' = w /\ refund' = refund /\ Len(frames') = n + 1
      BY <1>2, <1>4
    <3> HIDE DEF n
    <3> QED BY <3>1 DEF StaticOK
  <2>1. n >= 1 /\ frames # <<>> /\ Top(frames) = frames[n]
    BY <1>1, EmptySeq DEF Top
  <2>2. CASE i = n + 1
    <3>1. message.isStatic /\ message.to # NoAddress
      BY <1>4, <2>1, <2>2 DEF IInv, MessageOK, f
    <3>2. \A j \in i + 1 .. n + 1 : FALSE
      BY <1>1, <2>2
    <3>3. i - 1 = n /\ n \in 1 .. n
      BY <1>1, <2>1, <2>2
    <3>4. frames'[i] = f /\ frames'[i - 1] = frames[n]
      BY <1>4, <2>2, <3>3 DEF f
    <3>5. Quiet(f.start, w)
      BY <1>4, <2>1, <3>1
    <3>6. f.selfdestruct = frames[n].selfdestruct
      BY <1>4, <2>1
    <3> QED BY <1>4, <3>1, <3>2, <3>4, <3>5, <3>6
  <2>3. CASE i # n + 1
    <3>1. i \in 2 .. n /\ i \in 1 .. n /\ i - 1 \in 1 .. n /\ frames[i].isStatic
      BY <1>1, <1>4, <2>3
    <3>2. /\ Quiet(frames[i].start, world)
          /\ frames[i].logs = <<>>
          /\ frames[i].selfdestruct = frames[i - 1].selfdestruct
          /\ refund = frames[i].oldRefund
          /\ ~frames[i].isCreate
          /\ \A j \in i + 1 .. n :
               /\ frames[j].isStatic
               /\ Quiet(frames[i].start, frames[j].start)
               /\ frames[j].oldRefund = frames[i].oldRefund
      BY <3>1 DEF IInv, StaticOK
    <3>3. Top(frames).isStatic
      BY <1>1, <2>1, <3>1, <3>2
    <3>4. f.isStatic /\ Quiet(world, w)
      BY <1>4, <2>1, <3>3 DEF IInv, MessageOK
    <3>5. Quiet(frames[i].start, w)
      BY <3>2, <3>4, QuietFacts
    <3>6. ASSUME NEW j \in i + 1 .. n + 1
          PROVE  /\ frames'[j].isStatic
                 /\ Quiet(frames[i].start, frames'[j].start)
                 /\ frames'[j].oldRefund = frames[i].oldRefund
      <4>1. CASE j = n + 1
        BY <1>4, <3>2, <3>4, <4>1 DEF f
      <4>2. CASE j # n + 1
        <5>1. j \in i + 1 .. n /\ j \in 1 .. n
          BY <1>1, <4>2
        <5> QED BY <1>4, <3>2, <5>1
      <4> QED BY <4>1, <4>2
    <3> QED BY <1>4, <3>1, <3>2, <3>5, <3>6
  <2> QED BY <2>2, <2>3
<1>7. ContractFresh'
  BY <1>2, <1>4 DEF ContractFresh
<1>8. MessageOK'
  BY <1>2 DEF MessageOK
<1>9. NoEtherCreated'
  <2>1. Ether(world') <= Ether(FirstWorld)
    BY <1>2
  <2>2. ASSUME NEW i \in 1 .. n + 1 PROVE Ether(saved'[i]) <= Ether(FirstWorld)
    <3>1. CASE i = n + 1
      BY <1>4, <3>1 DEF IInv, NoEtherCreated
    <3>2. CASE i # n + 1
      <4>1. i \in 1 .. n
        BY <1>1, <3>2
      <4> QED BY <1>1, <1>4, <4>1 DEF IInv, NoEtherCreated
    <3> QED BY <3>1, <3>2
  <2> QED BY <1>4, <2>1, <2>2 DEF NoEtherCreated
<1> QED BY <1>3, <1>5, <1>6, <1>7, <1>8, <1>9 DEF IInv

\* The running frame is replaced, and nothing is pushed or popped.
LEMMA TopSound ==
  ASSUME Types, StackOK(frames, saved), StaticOK(frames, world, refund), frames # <<>>,
         NEW g \in Frame, g.start = Top(frames).start,
         g.isStatic = FALSE, Top(frames).isStatic = FALSE, g.isCreate = Top(frames).isCreate,
         Top(frames).selfdestruct \subseteq g.selfdestruct,
         frames' = Replace(frames, g), saved' = saved
  PROVE  StackOK(frames', saved') /\ StaticOK(frames', world', refund')
<1> DEFINE n == Len(frames)
<1>1. n \in Nat \ {0} /\ Top(frames) = frames[n] /\ Len(saved) = n
  BY StackShape
<1>2. /\ Len(frames') = n /\ frames'[n] = g
      /\ \A i \in 1 .. n - 1 : frames'[i] = frames[i]
  <2>1. frames \in Seq(Frame) /\ frames # <<>>
    BY DEF Types
  <2>2. /\ Len(Replace(frames, g)) = Len(frames)
        /\ \A i \in 1 .. Len(frames) - 1 : Replace(frames, g)[i] = frames[i]
        /\ Replace(frames, g)[Len(frames)] = g
    BY ONLY <2>1, ReplaceFacts, g \in Frame
  <2> QED BY <2>2
<1>3. \A i \in 1 .. n : frames'[i].start = frames[i].start
  BY <1>1, <1>2
<1>4. StackOK(frames', saved')
  <2>1. ASSUME NEW i \in 1 .. n - 1
        PROVE  /\ frames'[i].status = "running"
               /\ frames'[i].contract = frames'[i + 1].start[frames'[i].address]
               /\ frames'[i].selfdestruct \subseteq frames'[i + 1].selfdestruct
    <3>1. i \in 1 .. n /\ i + 1 \in 1 .. n /\ frames'[i] = frames[i]
      BY <1>1, <1>2
    <3>2. /\ frames[i].status = "running"
          /\ frames[i].contract = frames[i + 1].start[frames[i].address]
          /\ frames[i].selfdestruct \subseteq frames[i + 1].selfdestruct
      BY DEF StackOK
    <3>3. frames[i + 1].selfdestruct \subseteq frames'[i + 1].selfdestruct
      <4>1. CASE i + 1 = n
        BY <1>1, <1>2, <4>1
      <4>2. CASE i + 1 # n
        <5>1. i + 1 \in 1 .. n - 1
          BY <1>1, <4>2
        <5> QED BY <1>2, <5>1
      <4> QED BY <4>1, <4>2
    <3> QED BY <1>3, <3>1, <3>2, <3>3
  <2>2. ~frames'[1].isCreate
    <3>1. n > 0 /\ ~frames[1].isCreate
      BY <1>1 DEF StackOK
    <3>2. CASE n = 1
      BY <1>1, <1>2, <3>1, <3>2
    <3>3. CASE n # 1
      <4>1. 1 \in 1 .. n - 1
        BY <1>1, <3>3
      <4> QED BY <1>2, <3>1, <4>1
    <3> QED BY <3>2, <3>3
  <2>3. \A i \in 1 .. n : saved'[i] = frames'[i].start
    BY <1>3 DEF StackOK
  <2> HIDE DEF n
  <2> QED BY <1>1, <1>2, <2>1, <2>2, <2>3 DEF StackOK
<1>5. ASSUME NEW i \in 2 .. n, frames'[i].isStatic PROVE FALSE
  <2>1. i # n
    BY <1>2, <1>5
  <2>2. i \in 1 .. n - 1 /\ n \in i + 1 .. n
    BY <1>1, <2>1
  <2>3. frames[i].isStatic
    BY <1>2, <1>5, <2>2
  <2> QED BY <1>1, <2>2, <2>3 DEF StaticOK
<1>6. StaticOK(frames', world', refund')
  BY <1>2, <1>5 DEF StaticOK
<1> QED BY <1>4, <1>6
-----------------------------------------------------------------------------
(* Messages, opcodes, the end of a message.                                *)

\* No account is ever rich enough to overflow.
LEMMA NoOverflow ==
  ASSUME Solvent, NEW w \in World, Ether(w) <= Ether(FirstWorld), NEW a \in Address
  PROVE  ~(w[a].balance > MaxBalance)
<1>1. Ether(w) \in Nat /\ w[a].balance <= Ether(w) /\ w[a].balance \in Nat
  BY EtherBounds, WorldType DEF Solvent
<1>2. FirstWorld \in World
  BY DEF FirstWorld, World, Account
<1>3. Ether(FirstWorld) \in Nat /\ Ether(FirstWorld) <= MaxBalance
  BY <1>2, EtherBounds DEF Solvent
<1> QED BY <1>1, <1>3

LEMMA ReducedFacts ==
  ASSUME NEW w \in World, NEW a \in Address, NEW v \in Nat, v <= w[a].balance
  PROVE  /\ Reduced(w, a, v) \in World
         /\ \A x \in Address :
              /\ Reduced(w, a, v)[x].code = w[x].code
              /\ Reduced(w, a, v)[x].balance
                   = IF x = a THEN w[x].balance - v ELSE w[x].balance
<1>1. w[a].balance \in Nat /\ Reduced(w, a, v) \in World
  BY WorldType
<1>2. Abs(w[a].balance - v) = w[a].balance - v
  BY <1>1 DEF Abs
<1>3. Reduced(w, a, v) = [w EXCEPT ![a].balance = w[a].balance - v]
  BY <1>2 DEF Reduced, World, Account
<1> QED BY <1>1, <1>3 DEF World, Account

LEMMA IncreasedFacts ==
  ASSUME NEW w \in World, NEW a \in Address, NEW v \in Nat
  PROVE  /\ Increased(w, a, v) \in World
         /\ \A x \in Address :
              /\ Increased(w, a, v)[x].code = w[x].code
              /\ Increased(w, a, v)[x].balance
                   = IF x = a THEN w[x].balance + v ELSE w[x].balance
<1>1. Increased(w, a, v) \in World
  BY WorldType
<1> QED BY <1>1 DEF Increased, World, Account

LEMMA EnteredFacts ==
  ASSUME IInv, message # NoMessage
  PROVE  /\ Entered \in World /\ message \in Message /\ message.sender \in Address
         /\ Ether(Entered) = Ether(world)
         /\ frames # <<>> => Entered = world
         /\ message.value \in Nat
         /\ message.value <= Entered[message.sender].balance
<1>1. Entered \in World /\ message \in Message
  BY EnteredType DEF IInv
<1>2. message.sender \in Address /\ message.value \in Nat
  BY <1>1 DEF Message
<1>3. world \in World
  BY DEF IInv, Types
<1>4. \A x \in Address : Entered[x].balance = world[x].balance
  BY <1>2, <1>3 DEF Entered, World, Account
<1>5. Ether(Entered) = Ether(world)
  BY <1>1, <1>3, <1>4, EtherSame
<1>6. message.value <= Entered[message.sender].balance
  BY <1>2, <1>4 DEF IInv, MessageOK
<1> QED BY <1>1, <1>2, <1>5, <1>6 DEF Entered

LEMMA CallStateManagerInv ==
  ASSUME IInv, Solvent, CallStateManager
  PROVE  IInv' /\ \E b, u, s : Begin(b, u, s)
<1>1. message # NoMessage /\ OSM \in Address /\ Ether(world) <= Ether(FirstWorld)
  BY DEF CallStateManager, IInv, NoEtherCreated
<1>2. PICK w \in Handled : Begin(OSM, w, "stopped")
  BY DEF CallStateManager, Solvent
<1> DEFINE e == Entered
<1>3. /\ e \in World /\ Ether(e) = Ether(world)
      /\ frames # <<>> => e = world
  BY <1>1, EnteredFacts
<1>4. \/ w = e
      \/ \E a \in Address, n \in 0 .. MaxNonce : w = [e EXCEPT ![a].nonce = n]
      \/ \E a \in Address, s \in {0, 1} : w = [e EXCEPT ![a].storage = s]
  BY DEF Handled
<1> HIDE DEF e
<1>5. w \in World /\ \A x \in Address : w[x].balance = e[x].balance /\ w[x].code = e[x].code
  <2>1. 0 .. MaxNonce \subseteq Nat
    OBVIOUS
  <2>2. CASE w = e
    BY <1>3, <2>2
  <2>3. ASSUME NEW a \in Address, NEW n \in 0 .. MaxNonce, w = [e EXCEPT ![a].nonce = n]
        PROVE  w \in World /\ \A x \in Address : w[x].balance = e[x].balance /\ w[x].code = e[x].code
    BY <1>3, <2>1, <2>3 DEF World, Account
  <2>4. ASSUME NEW a \in Address, NEW s \in {0, 1}, w = [e EXCEPT ![a].storage = s]
        PROVE  w \in World /\ \A x \in Address : w[x].balance = e[x].balance /\ w[x].code = e[x].code
    BY SMTT(30), <1>3, <2>4 DEF World, Account
  <2> QED BY <1>4, <2>2, <2>3, <2>4
<1>6. Ether(w) <= Ether(FirstWorld)
  <2>1. Ether(w) = Ether(e)
    BY <1>3, <1>5, EtherSame
  <2> QED BY <1>1, <1>3, <2>1
<1>7. frames # <<>> => Quiet(world, w)
  BY <1>3, <1>5 DEF Quiet
<1> QED BY <1>1, <1>2, <1>5, <1>6, <1>7, PushSound

LEMMA ExecuteCallInv ==
  ASSUME IInv, Solvent, ExecuteCall
  PROVE  IInv' /\ \E b, u, s : Begin(b, u, s)
<1> DEFINE from == message.sender
           to == message.to
           v == message.value
           w == IF message.delegatecall THEN Entered ELSE Reduced(Entered, from, v)
           moved == IF message.delegatecall THEN w ELSE Increased(w, to, v)
<1>1. /\ message # NoMessage /\ message.to \notin {NoAddress, OSM}
      /\ IF moved[to].balance > MaxBalance /\ ~message.delegatecall THEN Throw(w)
         ELSE \E status \in CodeStatus(moved) : Begin(to, moved, status)
  BY DEF ExecuteCall
<1>2. /\ Entered \in World /\ from \in Address /\ to \in Address /\ v \in Nat
      /\ Ether(Entered) = Ether(world) /\ v <= Entered[from].balance
      /\ frames # <<>> => Entered = world
      /\ world \in World /\ Ether(world) <= Ether(FirstWorld)
  BY <1>1, EnteredFacts DEF Message, IInv, NoEtherCreated, Types
<1>3. CodeStatus(moved) \subseteq {"running", "stopped", "failed"}
  BY DEF CodeStatus
<1> HIDE DEF from, to, v
<1>4. /\ Ether(world) \in Nat
      /\ ~message.delegatecall => /\ w \in World /\ Ether(w) = Ether(world) - v
                                  /\ moved \in World /\ Ether(moved) = Ether(w) + v
  <2>1. Ether(world) \in Nat
    BY <1>2, EtherBounds DEF Solvent
  <2>2. Reduced(Entered, from, v) \in World /\ Ether(Reduced(Entered, from, v)) = Ether(world) - v
    <3> DEFINE e == Entered
    <3>1. IsFiniteSet(Address) /\ e \in World /\ Ether(e) = Ether(world) /\ v <= e[from].balance
      BY <1>2 DEF Solvent
    <3> HIDE DEF e
    <3>2. Reduced(e, from, v) \in World /\ Ether(Reduced(e, from, v)) = Ether(e) - v
      BY <1>2, <3>1, Transfer
    <3> QED BY <3>1, <3>2 DEF e
  <2>3. ASSUME ~message.delegatecall PROVE w \in World /\ Ether(w) = Ether(world) - v
    BY <2>2, <2>3
  <2>4. ASSUME ~message.delegatecall PROVE moved \in World /\ Ether(moved) = Ether(w) + v
    <3>1. IsFiniteSet(Address)
      BY DEF Solvent
    <3>2. w \in World /\ moved = Increased(w, to, v)
      BY <2>3, <2>4
    <3> HIDE DEF w, moved
    <3> QED BY <1>2, <3>1, <3>2, Transfer
  <2> HIDE DEF w, moved
  <2> QED BY <2>1, <2>3, <2>4
<1>5. moved \in World /\ Ether(moved) <= Ether(FirstWorld)
  <2>1. CASE message.delegatecall
    BY <1>2, <2>1
  <2>2. CASE ~message.delegatecall
    <3> HIDE DEF w, moved
    <3> QED BY <1>2, <1>4, <2>2
  <2> QED BY <2>1, <2>2
<1>6. ~(moved[to].balance > MaxBalance)
  <2> HIDE DEF w, moved
  <2> QED BY <1>2, <1>5, NoOverflow
<1>7. PICK status \in CodeStatus(moved) : Begin(to, moved, status)
  <2> HIDE DEF w, moved
  <2> QED BY <1>1, <1>6
<1>8. ASSUME frames # <<>>, message.isStatic PROVE Quiet(world, moved)
  <2>1. Entered = world /\ (v = 0 \/ from = to)
    BY <1>1, <1>2, <1>8 DEF IInv, MessageOK, from, to, v
  <2>2. CASE message.delegatecall
    BY <2>1, <2>2 DEF Quiet
  <2>3. CASE ~message.delegatecall
    <3>1. moved = Increased(Reduced(world, from, v), to, v)
      BY <2>1, <2>3
    <3> HIDE DEF moved
    <3>2. ASSUME NEW x \in Address
          PROVE  moved[x].balance = world[x].balance /\ moved[x].code = world[x].code
      <4>1. world[x].balance \in Nat /\ v \in Nat /\ v <= world[from].balance
        BY <1>2, <2>1, WorldType
      <4> DEFINE reduced == Reduced(world, from, v)
      <4>2. /\ reduced \in World
            /\ reduced[x].code = world[x].code
            /\ reduced[x].balance = IF x = from THEN world[x].balance - v ELSE world[x].balance
        BY <1>2, ReducedFacts, <2>1
      <4> HIDE DEF reduced
      <4>3. /\ moved[x].code = reduced[x].code
            /\ moved[x].balance = IF x = to THEN reduced[x].balance + v ELSE reduced[x].balance
        <5>1. moved = Increased(reduced, to, v)
          BY <3>1 DEF reduced
        <5>2. reduced \in World /\ to \in Address /\ v \in Nat
          BY <1>2, <4>2
        <5>3. /\ Increased(reduced, to, v)[x].code = reduced[x].code
              /\ Increased(reduced, to, v)[x].balance
                   = IF x = to THEN reduced[x].balance + v ELSE reduced[x].balance
          BY <5>2, IncreasedFacts
        <5> QED BY <5>1, <5>3
      <4> QED BY <1>2, <2>1, <4>1, <4>2, <4>3
    <3> QED BY <3>2 DEF Quiet
  <2> QED BY <2>2, <2>3
<1> HIDE DEF w, moved
<1> QED BY <1>1, <1>2, <1>3, <1>5, <1>7, <1>8, PushSound

LEMMA ExecuteCreateInv ==
  ASSUME IInv, Solvent, NEW a \in Address, ExecuteCreate(a)
  PROVE  IInv' /\ \E b, u, s : Begin(b, u, s)
<1> DEFINE from == message.sender
           v == message.value
           w == Reduced(Entered, from, v)
           cleared == [w EXCEPT ![a].storage = 0]
           bumped == [cleared EXCEPT ![a].nonce = @ + 1]
           moved == Increased(bumped, a, v)
<1>1. /\ message # NoMessage /\ message.to = NoAddress
      /\ IF w[a].nonce > 0 \/ w[a].code THEN Begin(a, w, "failed")
         ELSE IF moved[a].balance > MaxBalance THEN Throw(cleared)
         ELSE \E status \in {"running", "stopped"} : Begin(a, moved, status)
  BY DEF ExecuteCreate
<1>2. /\ Entered \in World /\ from \in Address /\ v \in Nat
      /\ Ether(Entered) = Ether(world) /\ v <= Entered[from].balance
      /\ world \in World /\ Ether(world) <= Ether(FirstWorld)
  BY <1>1, EnteredFacts DEF IInv, NoEtherCreated, Types
<1>0. IsFiniteSet(Address)
  BY DEF Solvent
<1> HIDE DEF from, v
<1>3. w \in World /\ Ether(w) = Ether(world) - v
  BY SMTT(30), <1>0, <1>2, Transfer
<1> HIDE DEF w
<1>4. bumped \in World /\ \A x \in Address : bumped[x].balance = w[x].balance
  <2>1. cleared \in World
    BY <1>3, WorldType
  <2>2. \A x \in Address : cleared[x].balance = w[x].balance
    BY <1>3 DEF World, Account
  <2> HIDE DEF cleared
  <2>3. bumped = [cleared EXCEPT ![a].nonce = cleared[a].nonce + 1]
    BY <2>1 DEF World, Account
  <2>4. cleared[a].nonce + 1 \in Nat
    <3>1. cleared[a].nonce \in Nat
      BY <2>1, WorldType
    <3> QED BY <3>1
  <2>5. bumped \in World
    <3> HIDE DEF bumped
    <3> QED BY <2>1, <2>3, <2>4, WorldType
  <2>6. \A x \in Address : bumped[x].balance = cleared[x].balance
    BY <2>1 DEF World, Account
  <2> QED BY <2>2, <2>5, <2>6
<1> HIDE DEF bumped
<1>5. Ether(bumped) = Ether(w)
  BY <1>3, <1>4, EtherSame
<1>6. moved \in World /\ Ether(moved) = Ether(bumped) + v
  BY <1>0, <1>2, <1>4, Transfer
<1> HIDE DEF moved
<1>7. Ether(world) \in Nat /\ Ether(FirstWorld) \in Int
  <2>1. FirstWorld \in World
    BY DEF FirstWorld, World, Account
  <2> QED BY <1>2, <2>1, EtherBounds DEF Solvent
<1>8. Ether(w) <= Ether(FirstWorld) /\ Ether(moved) <= Ether(FirstWorld)
  BY <1>2, <1>3, <1>5, <1>6, <1>7
<1>9. ~(moved[a].balance > MaxBalance)
  BY <1>6, <1>8, NoOverflow
<1>10. frames # <<>> => ~message.isStatic
  BY <1>1 DEF IInv, MessageOK
<1> QED BY <1>1, <1>3, <1>6, <1>8, <1>9, <1>10, PushSound

LEMMA RunInv ==
  ASSUME IInv, Solvent, NEW sender \in Address, NEW to \in Address \union {NoAddress},
         NEW value \in Value, NEW isStatic \in BOOLEAN, Run(sender, to, value, isStatic)
  PROVE  IInv'
<1>1. /\ frames = <<>> /\ frames' = frames /\ saved' = saved /\ world' = world
      /\ message' = OvmMessage(sender, value, isStatic)
      /\ value <= world[sender].balance
  BY DEF Run, Idle, Solvent
<1>2. Len(frames') = 0
  BY <1>1
<1>3. Types'
  <2>1. OvmMessage(sender, value, isStatic) \in Message
    BY DEF OvmMessage, Message
  <2> QED BY <2>1 DEF Run, IInv, Types
<1>4. StackOK(frames', saved')
  BY <1>1 DEF IInv
<1>5. StaticOK(frames', world', refund')
  BY <1>2 DEF StaticOK
<1>6. ContractFresh' /\ MessageOK'
  BY <1>1 DEF ContractFresh, MessageOK, OvmMessage
<1>7. NoEtherCreated'
  BY <1>1 DEF IInv, NoEtherCreated
<1> QED BY <1>3, <1>4, <1>5, <1>6, <1>7 DEF IInv

LEMMA StoreInv ==
  ASSUME IInv, Solvent, Types', NEW v \in {0, 1}, SStore(v)
  PROVE  IInv'
<1> DEFINE f == Top(frames)
           g == [f EXCEPT !.contract = world'[f.address]]
<1>1. /\ frames # <<>> /\ ~f.isStatic
      /\ world' = [world EXCEPT ![f.address].storage = v]
      /\ frames' = Replace(frames, g) /\ saved' = saved /\ message' = NoMessage
  BY DEF SStore, Step, Running
<1>2. f \in Frame /\ world \in World /\ world' \in World
  BY <1>1, StackShape DEF IInv, Types
<1>3. /\ f.address \in Address /\ f.isStatic = FALSE /\ world'[f.address] \in Account
  BY <1>1, <1>2, WorldType DEF Frame
<1>4. /\ g \in Frame /\ g.start = f.start /\ g.isStatic = FALSE
      /\ g.contract = world'[f.address] /\ g.address = f.address
      /\ g.isCreate = f.isCreate /\ g.selfdestruct = f.selfdestruct
  BY <1>2, <1>3 DEF Frame
<1> HIDE DEF g
<1>5. StackOK(frames', saved') /\ StaticOK(frames', world', refund')
  BY <1>1, <1>3, <1>4, TopSound DEF IInv
<1>6. Top(frames') = g
  <2>1. frames \in Seq(Frame)
    BY DEF IInv, Types
  <2> QED BY <1>1, <1>4, <2>1, ReplaceFacts
<1>7. ContractFresh' /\ MessageOK'
  BY <1>1, <1>4, <1>6 DEF ContractFresh, MessageOK
<1>8. NoEtherCreated'
  <2>1. \A x \in Address : world'[x].balance = world[x].balance
    BY <1>1, <1>2, <1>3 DEF World, Account
  <2>2. Ether(world') = Ether(world)
    BY <1>2, <2>1, EtherSame
  <2> QED BY <1>1, <2>2 DEF IInv, NoEtherCreated
<1> QED BY <1>5, <1>7, <1>8 DEF IInv

LEMMA LogInv ==
  ASSUME IInv, Solvent, Types', Log
  PROVE  IInv'
<1> DEFINE f == Top(frames)
           g == [f EXCEPT !.logs = Append(@, f.address)]
<1>1. /\ frames # <<>> /\ ~f.isStatic /\ world' = world
      /\ frames' = Replace(frames, g) /\ saved' = saved /\ message' = NoMessage
      /\ f.status = "running"
  BY DEF Log, Step, Running
<1>2. f \in Frame
  BY <1>1, StackShape DEF IInv
<1>3. /\ f.address \in Address /\ f.isStatic = FALSE
      /\ Append(f.logs, f.address) \in Seq(Address)
  BY <1>1, <1>2, PushFacts DEF Frame
<1>4. /\ g \in Frame /\ g.start = f.start /\ g.isStatic = FALSE
      /\ g.contract = f.contract /\ g.address = f.address
      /\ g.isCreate = f.isCreate /\ g.selfdestruct = f.selfdestruct
  BY <1>2, <1>3 DEF Frame
<1>5. f.contract = world[f.address]
  BY <1>1 DEF IInv, ContractFresh
<1> HIDE DEF g
<1>6. StackOK(frames', saved') /\ StaticOK(frames', world', refund')
  BY <1>1, <1>3, <1>4, TopSound DEF IInv
<1>7. Top(frames') = g
  <2>1. frames \in Seq(Frame)
    BY DEF IInv, Types
  <2> QED BY <1>1, <1>4, <2>1, ReplaceFacts
<1>8. ContractFresh' /\ MessageOK'
  BY <1>1, <1>4, <1>5, <1>7 DEF ContractFresh, MessageOK
<1>9. NoEtherCreated'
  BY <1>1 DEF IInv, NoEtherCreated
<1> QED BY <1>6, <1>8, <1>9 DEF IInv

LEMMA SelfDestructInv ==
  ASSUME IInv, Solvent, Types', NEW a \in Address, SelfDestruct(a)
  PROVE  IInv'
<1> DEFINE f == Top(frames)
           g == [f EXCEPT !.selfdestruct = @ \union {f.address}, !.status = "stopped"]
           paid == Increased(world, a, f.contract.balance)
<1>1. /\ frames # <<>> /\ ~f.isStatic
      /\ world' = [paid EXCEPT ![f.address].balance = 0]
      /\ frames' = Replace(frames, g) /\ saved' = saved /\ message' = NoMessage
      /\ f.status = "running"
  BY DEF SelfDestruct, Step, Running
<1>2. f \in Frame /\ world \in World /\ world' \in World
  BY <1>1, StackShape DEF IInv, Types
<1>3. /\ f.address \in Address /\ f.isStatic = FALSE /\ f.selfdestruct \in SUBSET Address
  BY <1>1, <1>2 DEF Frame
<1>4. /\ g \in Frame /\ g.start = f.start /\ g.isStatic = FALSE /\ g.status = "stopped"
      /\ g.isCreate = f.isCreate /\ f.selfdestruct \subseteq g.selfdestruct
  BY <1>2, <1>3 DEF Frame
<1>5. f.contract = world[f.address] /\ f.contract.balance \in Nat
  BY <1>1, <1>2, <1>3, WorldType DEF IInv, ContractFresh
<1>6. StackOK(frames', saved') /\ StaticOK(frames', world', refund')
  <2> HIDE DEF g
  <2> QED BY <1>1, <1>3, <1>4, TopSound DEF IInv
<1>7. Top(frames') = g
  <2>1. frames \in Seq(Frame)
    BY DEF IInv, Types
  <2> HIDE DEF g
  <2> QED BY <1>1, <1>4, <2>1, ReplaceFacts
<1>8. ContractFresh' /\ MessageOK'
  <2>1. Top(frames').status = "stopped"
    BY <1>4, <1>7
  <2> QED BY <1>1, <2>1 DEF ContractFresh, MessageOK
<1>9. Ether(world') <= Ether(world)
  <2>0. IsFiniteSet(Address)
    BY DEF Solvent
  <2> DEFINE b == f.contract.balance
  <2>1. paid \in World /\ Ether(paid) = Ether(world) + b /\ Ether(world) \in Nat
    <3> HIDE DEF f
    <3> QED BY <1>2, <1>5, <2>0, Transfer, EtherBounds
  <2>2. paid[f.address].balance >= b /\ paid[f.address].balance \in Nat
    <3>1. /\ world[f.address].balance = b
          /\ paid[f.address].balance
               = IF f.address = a THEN world[f.address].balance + b ELSE world[f.address].balance
      <4> HIDE DEF f
      <4>1. b \in Nat /\ world[f.address].balance = b
        BY <1>5
      <4> HIDE DEF b
      <4>2. world \in World /\ a \in Address /\ f.address \in Address /\ b \in Nat
        BY <1>2, <1>3, <4>1
      <4>3. \A x \in Address :
              Increased(world, a, b)[x].balance
                = IF x = a THEN world[x].balance + b ELSE world[x].balance
        BY ONLY <4>2, IncreasedFacts
      <4>4. Increased(world, a, b)[f.address].balance
              = IF f.address = a THEN world[f.address].balance + b ELSE world[f.address].balance
        BY <4>2, <4>3
      <4> QED BY <4>1, <4>4 DEF b
    <3> HIDE DEF paid, b
    <3> QED BY <1>5, <3>1 DEF b
  <2> HIDE DEF paid
  <2>3. /\ world'[f.address].balance = 0
        /\ \A x \in Address \ {f.address} : world'[x].balance = paid[x].balance
    BY <1>1, <1>3, <2>1 DEF World, Account
  <2>4. Ether(world') = Ether(paid) + world'[f.address].balance - paid[f.address].balance
    BY <1>2, <1>3, <2>0, <2>1, <2>3, EtherChanges
  <2> QED BY <1>5, <2>1, <2>2, <2>3, <2>4
<1>10. NoEtherCreated'
  <2>1. Ether(world) \in Nat /\ Ether(world') \in Nat /\ Ether(FirstWorld) \in Nat
    <3>1. FirstWorld \in World
      BY DEF FirstWorld, World, Account
    <3> QED BY <1>2, <3>1, EtherBounds DEF Solvent
  <2> QED BY <1>1, <1>9, <2>1 DEF IInv, NoEtherCreated
<1> QED BY <1>6, <1>8, <1>10 DEF IInv

LEMMA CallInv ==
  ASSUME IInv, Solvent, Types', NEW kind \in {"call", "callcode", "delegatecall", "staticcall"},
         NEW a \in Address, NEW v \in Value, Call(kind, a, v)
  PROVE  IInv'
<1> DEFINE f == Top(frames)
           m == CallMessage(f, kind, a, v)
<1>1. /\ frames # <<>> /\ f.status = "running" /\ message = NoMessage
      /\ kind = "call" /\ f.isStatic => v = 0
      /\ message' = NoMessage \/ (~Refused(f, m) /\ message' = m)
      /\ UNCHANGED <<world, saved, frames, refund>>
  BY DEF Call, Step, Running
<1>2. f \in Frame /\ world \in World
  BY <1>1, StackShape DEF IInv, Types
<1>3. f.address \in Address /\ f.isStatic \in BOOLEAN /\ f.contract = world[f.address]
  BY <1>1, <1>2 DEF IInv, ContractFresh, Frame
<1>4. ASSUME ~Refused(f, m) PROVE m.value <= world[m.sender].balance
  <2>1. m.sender = f.address /\ world[f.address].balance \in Nat /\ m.value \in Nat
    BY <1>2, <1>3, WorldType DEF CallMessage
  <2>2. m.delegatecall => m.value = 0
    BY DEF CallMessage
  <2>3. m.delegatecall \/ ~(world[f.address].balance < m.value)
    BY <1>3, <1>4 DEF Refused
  <2> HIDE DEF m
  <2> QED BY <2>1, <2>2, <2>3
<1>5. f.isStatic => m.isStatic
  BY DEF CallMessage
<1>6. m.isStatic => m.to # NoAddress /\ (m.value = 0 \/ m.sender = m.to)
  BY <1>1, <1>3 DEF CallMessage
<1>7. Top(frames') = f
  BY <1>1
<1> HIDE DEF m, f
<1>8. MessageOK'
  <2> SUFFICES ASSUME message' # NoMessage
               PROVE  /\ message'.value <= world'[message'.sender].balance
                      /\ Top(frames').status = "running"
                      /\ Top(frames').isStatic => message'.isStatic
                      /\ message'.isStatic => /\ message'.to # NoAddress
                                              /\ \/ message'.value = 0
                                                 \/ message'.sender = message'.to
    BY <1>1 DEF MessageOK
  <2>1. message' = m /\ ~Refused(f, m) /\ world' = world
    BY <1>1
  <2> QED BY <1>1, <1>4, <1>5, <1>6, <1>7, <2>1
<1>9. StackOK(frames', saved') /\ StaticOK(frames', world', refund')
  BY <1>1 DEF IInv
<1>10. ContractFresh'
  BY <1>1 DEF IInv, ContractFresh
<1>11. NoEtherCreated'
  BY <1>1 DEF IInv, NoEtherCreated
<1> QED BY <1>8, <1>9, <1>10, <1>11 DEF IInv

LEMMA CreateInv ==
  ASSUME IInv, Solvent, Types', NEW v \in Value, Create(v)
  PROVE  IInv'
<1> DEFINE f == Top(frames)
           m == [sender |-> f.address, to |-> NoAddress, codeAddress |-> NoAddress,
                 value |-> v, isStatic |-> FALSE, delegatecall |-> FALSE]
           bumped == [f.contract EXCEPT !.nonce = @ + 1]
           g == [f EXCEPT !.contract = bumped]
<1>1. /\ frames # <<>> /\ ~f.isStatic /\ f.status = "running" /\ message = NoMessage
      /\ UNCHANGED <<saved, refund>>
      /\ \/ UNCHANGED <<world, frames, message>>
         \/ /\ ~Refused(f, m) /\ message' = m
            /\ world' = [world EXCEPT ![f.address] = bumped]
            /\ frames' = Replace(frames, g)
  BY DEF Create, Step, Running
<1>2. f \in Frame /\ world \in World /\ world' \in World
  BY <1>1, StackShape DEF IInv, Types
<1>3. /\ f.address \in Address /\ f.isStatic = FALSE /\ f.contract = world[f.address]
      /\ f.contract \in Account
  BY <1>1, <1>2 DEF IInv, ContractFresh, Frame
<1>4. CASE UNCHANGED <<world, frames, message>>
  BY <1>1, <1>4 DEF IInv, ContractFresh, MessageOK, NoEtherCreated
<1>5. CASE /\ ~Refused(f, m) /\ message' = m
           /\ world' = [world EXCEPT ![f.address] = bumped]
           /\ frames' = Replace(frames, g)
  <2>1. bumped \in Account /\ bumped.balance = world[f.address].balance
    BY <1>3 DEF Account
  <2>2. /\ g \in Frame /\ g.start = f.start /\ g.isStatic = FALSE
        /\ g.contract = bumped /\ g.address = f.address /\ g.status = "running"
        /\ g.isCreate = f.isCreate /\ g.selfdestruct = f.selfdestruct
    <3> HIDE DEF bumped
    <3> QED BY <1>1, <1>2, <1>3, <2>1 DEF Frame
  <2>3. /\ ~(world[f.address].balance < v)
        /\ m.value = v /\ m.sender = f.address /\ m.isStatic = FALSE
    BY <1>3, <1>5 DEF Refused
  <2> HIDE DEF g, bumped, m
  <2>4. StackOK(frames', saved') /\ StaticOK(frames', world', refund')
    BY <1>1, <1>3, <1>5, <2>2, TopSound DEF IInv
  <2>5. Top(frames') = g
    <3>1. frames \in Seq(Frame)
      BY DEF IInv, Types
    <3> QED BY <1>1, <1>5, <2>2, <3>1, ReplaceFacts
  <2>6. world'[f.address] = bumped
    BY <1>2, <1>3, <1>5 DEF World
  <2>7. ContractFresh'
    BY <2>2, <2>5, <2>6 DEF ContractFresh
  <2>8. MessageOK'
    <3>1. message'.value <= world'[message'.sender].balance
      <4>1. v \in Nat /\ world[f.address].balance \in Nat
        BY <1>2, <1>3, WorldType
      <4> QED BY <1>5, <2>1, <2>3, <2>6, <4>1
    <3>2. frames' # <<>>
      <4>1. frames \in Seq(Frame)
        BY DEF IInv, Types
      <4> QED BY <1>1, <1>5, <2>2, <4>1, ReplaceFacts
    <3> QED BY <1>5, <2>2, <2>3, <2>5, <3>1, <3>2 DEF MessageOK
  <2>9. NoEtherCreated'
    <3>1. \A x \in Address : world'[x].balance = world[x].balance
      BY <1>2, <1>3, <1>5, <2>1 DEF World
    <3>2. Ether(world') = Ether(world)
      BY <1>2, <3>1, EtherSame
    <3> QED BY <1>1, <3>2 DEF IInv, NoEtherCreated
  <2> QED BY <2>4, <2>7, <2>8, <2>9 DEF IInv
<1> QED BY <1>1, <1>4, <1>5

\* The end of a message: the outermost one, or one that a frame waits for.
LEMMA EndedWorld ==
  ASSUME IInv, Solvent, NEW thrown \in BOOLEAN, NEW deposit \in {"none", "stored", "fails"},
         NEW zero \in BOOLEAN, Finish(thrown, deposit, zero)
  PROVE  /\ frames # <<>> /\ message' = NoMessage /\ saved' = Pop(saved)
         /\ Ether(world') <= Ether(FirstWorld)
         /\ IF thrown \/ deposit = "fails" THEN world' = Top(frames).start
            ELSE IF deposit = "stored" THEN Top(frames).isCreate
            ELSE world' = world
         /\ refund' \in {refund, Top(frames).oldRefund}
<1> DEFINE f == Top(frames)
<1>1. /\ frames # <<>> /\ message' = NoMessage /\ saved' = Pop(saved)
      /\ world' = IF thrown \/ deposit = "fails" THEN Top(saved)
                  ELSE IF deposit = "stored" THEN [world EXCEPT ![f.address].code = TRUE]
                  ELSE world
      /\ deposit = "stored" => f.isCreate
      /\ refund' \in {refund, f.oldRefund}
  BY DEF Finish, RefundLeft
<1>2. /\ f \in Frame /\ Top(saved) = f.start /\ Top(saved) = saved[Len(saved)]
      /\ world \in World /\ Len(saved) \in 1 .. Len(saved)
  BY <1>1, StackShape DEF IInv, Types, Top
<1>3. f.address \in Address
  BY <1>2 DEF Frame
<1> HIDE DEF f
<1>4. Ether(world') <= Ether(FirstWorld)
  <2>1. CASE thrown \/ deposit = "fails"
    BY <1>1, <1>2, <2>1 DEF IInv, NoEtherCreated
  <2>2. CASE ~(thrown \/ deposit = "fails") /\ deposit = "stored"
    <3>1. world' = [world EXCEPT ![f.address].code = TRUE] /\ world' \in World
      BY <1>1, <1>2, <1>3, <2>2, WorldType
    <3>2. \A x \in Address : world'[x].balance = world[x].balance
      BY <1>2, <1>3, <3>1 DEF World, Account
    <3>3. Ether(world') = Ether(world)
      BY <1>2, <3>1, <3>2, EtherSame
    <3> QED BY <3>3 DEF IInv, NoEtherCreated
  <2>3. CASE ~(thrown \/ deposit = "fails") /\ deposit # "stored"
    BY <1>1, <2>3 DEF IInv, NoEtherCreated
  <2> QED BY <2>1, <2>2, <2>3
<1> QED BY <1>1, <1>2, <1>4 DEF f

\* The frame below goes on, as Resumed has it, and no other frame changes.
LEMMA Returned ==
  ASSUME IInv, Types', NEW thrown \in BOOLEAN,
         NEW deposit \in {"none", "stored", "fails"}, NEW zero \in BOOLEAN,
         Finish(thrown, deposit, zero), Len(frames) # 1
  PROVE  LET n == Len(frames)
             f == Top(frames)
             p == frames[n - 1]
             g == Top(frames')
         IN  /\ n - 1 \in 1 .. n - 1 /\ n - 1 \in 1 .. n /\ n - 1 \in Nat \ {0}
             /\ p \in Frame /\ f \in Frame /\ g \in Frame
             /\ g.start = p.start /\ g.isStatic = p.isStatic /\ g.status = p.status
             /\ g.oldRefund = p.oldRefund /\ g.isCreate = p.isCreate
             /\ g.address = p.address
             /\ IF thrown \/ deposit = "fails" THEN g = p
                ELSE /\ g.contract = world'[p.address]
                     /\ g.logs = p.logs \o f.logs
                     /\ g.selfdestruct = p.selfdestruct \union f.selfdestruct
             /\ Len(frames') = n - 1 /\ frames'[n - 1] = g
             /\ \A i \in 1 .. n - 2 : frames'[i] = frames[i]
<1> DEFINE n == Len(frames)
           f == Top(frames)
           failed == thrown \/ deposit = "fails"
           p == frames[n - 1]
           g == Resumed(p, f, failed, world')
<1>1. /\ frames # <<>> /\ n \in Nat \ {0} /\ f = frames[n] /\ frames \in Seq(Frame)
      /\ \A i \in 1 .. n : frames[i] \in Frame
  BY StackShape DEF IInv, Types, Finish
<1>2. n - 1 \in 1 .. n - 1 /\ n - 1 \in 1 .. n /\ n - 1 \in Nat \ {0}
  <2>1. n \in Nat \ {0} /\ n # 1
    BY <1>1
  <2> HIDE DEF n
  <2> QED BY ONLY <2>1
<1>3. /\ Pop(frames) \in Seq(Frame) /\ Len(Pop(frames)) = n - 1
      /\ \A i \in 1 .. n - 1 : Pop(frames)[i] = frames[i]
  <2>1. frames \in Seq(Frame) /\ frames # <<>>
    BY <1>1
  <2> QED BY ONLY <2>1, PopFacts
<1>4. Pop(frames) # <<>> /\ Top(Pop(frames)) = p
  BY <1>2, <1>3, EmptySeq DEF Top
<1>5. frames' = Replace(Pop(frames), g)
  BY <1>4 DEF Finish, Depth
<1>6. p \in Frame /\ f \in Frame
  BY <1>1, <1>2
<1>7. /\ g \in Frame
      /\ g.start = p.start /\ g.isStatic = p.isStatic /\ g.status = p.status
      /\ g.oldRefund = p.oldRefund /\ g.isCreate = p.isCreate /\ g.address = p.address
      /\ IF failed THEN g = p
         ELSE /\ g.contract = world'[p.address]
              /\ g.logs = p.logs \o f.logs
              /\ g.selfdestruct = p.selfdestruct \union f.selfdestruct
  <2>1. f.logs \in Seq(Address) /\ f.selfdestruct \in SUBSET Address
    BY <1>6 DEF Frame
  <2>2. p.logs \in Seq(Address) /\ p.address \in Address
    BY <1>6 DEF Frame
  <2>3. p.logs \o f.logs \in Seq(Address)
    BY <2>1, <2>2, ConcatProperties
  <2>4. world'[p.address] \in Account
    BY <2>2, WorldType DEF Types
  <2> HIDE DEF p, f, failed
  <2> QED BY <1>6, <2>1, <2>2, <2>3, <2>4 DEF Frame, Resumed
<1>8. /\ Len(frames') = n - 1 /\ frames'[n - 1] = g /\ Top(frames') = g
      /\ \A i \in 1 .. n - 2 : frames'[i] = frames[i]
  <2> HIDE DEF g, p, n, f
  <2>1. /\ Len(frames') = Len(Pop(frames)) /\ frames'[Len(Pop(frames))] = g /\ Top(frames') = g
        /\ \A i \in 1 .. Len(Pop(frames)) - 1 : frames'[i] = Pop(frames)[i]
    <3>1. Pop(frames) \in Seq(Frame) /\ Pop(frames) # <<>> /\ g \in Frame
      BY <1>3, <1>4, <1>7
    <3>2. /\ Len(Replace(Pop(frames), g)) = Len(Pop(frames))
          /\ Replace(Pop(frames), g)[Len(Pop(frames))] = g
          /\ Top(Replace(Pop(frames), g)) = g
          /\ \A i \in 1 .. Len(Pop(frames)) - 1 : Replace(Pop(frames), g)[i] = Pop(frames)[i]
      BY ONLY <3>1, ReplaceFacts
    <3> QED BY <1>5, <3>2
  <2>2. n - 1 - 1 = n - 2 /\ \A i \in 1 .. n - 2 : i \in 1 .. n - 1
    BY <1>1
  <2> QED BY <1>3, <2>1, <2>2
<1> HIDE DEF g, n, p, f
<1> QED BY <1>2, <1>6, <1>7, <1>8 DEF n, p, f

LEMMA FinishInv ==
  ASSUME IInv, Solvent, Types', NEW thrown \in BOOLEAN,
         NEW deposit \in {"none", "stored", "fails"}, NEW zero \in BOOLEAN,
         Finish(thrown, deposit, zero)
  PROVE  IInv'
<1> DEFINE n == Len(frames)
           f == Top(frames)
           failed == thrown \/ deposit = "fails"
<1>1. /\ frames # <<>> /\ message' = NoMessage /\ saved' = Pop(saved)
      /\ Ether(world') <= Ether(FirstWorld)
      /\ IF failed THEN world' = f.start
         ELSE IF deposit = "stored" THEN f.isCreate
         ELSE world' = world
      /\ refund' \in {refund, f.oldRefund}
  BY EndedWorld
<1>2. /\ n \in Nat \ {0} /\ Len(saved) = n /\ f = frames[n]
      /\ frames \in Seq(Frame) /\ saved \in Seq(World) /\ saved # <<>>
      /\ \A i \in 1 .. n : frames[i] \in Frame
  BY <1>1, StackShape DEF IInv, Types
<1>3. /\ Pop(frames) \in Seq(Frame) /\ Len(Pop(frames)) = n - 1
      /\ \A i \in 1 .. n - 1 : Pop(frames)[i] = frames[i]
      /\ Len(Pop(saved)) = n - 1
      /\ \A i \in 1 .. n - 1 : Pop(saved)[i] = saved[i]
  BY <1>1, <1>2, PopFacts
<1>4. MessageOK'
  BY <1>1 DEF MessageOK
<1>5. NoEtherCreated'
  <2>1. \A i \in 1 .. n - 1 : i \in 1 .. n
    BY <1>2
  <2> QED BY <1>1, <1>2, <1>3, <2>1 DEF IInv, NoEtherCreated
<1>6. CASE n = 1
  <2>1. frames' = <<>>
    BY <1>6 DEF Finish, Depth
  <2>2. Len(frames') = 0 /\ Len(saved') = 0
    BY <1>1, <1>3, <1>6, <2>1
  <2>3. StackOK(frames', saved') /\ StaticOK(frames', world', refund')
    BY <2>2 DEF StackOK, StaticOK
  <2>4. ContractFresh'
    BY <2>1 DEF ContractFresh
  <2> QED BY <1>4, <1>5, <2>3, <2>4 DEF IInv
<1>7. CASE n # 1
  <2> DEFINE p == frames[n - 1]
             g == Top(frames')
  <2>1. /\ n - 1 \in 1 .. n - 1 /\ n - 1 \in 1 .. n /\ n - 1 \in Nat \ {0}
        /\ p \in Frame /\ f \in Frame /\ g \in Frame
        /\ g.start = p.start /\ g.isStatic = p.isStatic /\ g.status = p.status
        /\ g.oldRefund = p.oldRefund /\ g.isCreate = p.isCreate
        /\ g.address = p.address
        /\ IF failed THEN g = p
           ELSE /\ g.contract = world'[p.address]
                /\ g.logs = p.logs \o f.logs
                /\ g.selfdestruct = p.selfdestruct \union f.selfdestruct
        /\ Len(frames') = n - 1 /\ frames'[n - 1] = g
        /\ \A i \in 1 .. n - 2 : frames'[i] = frames[i]
    BY <1>7, Returned
  <2>4. p \in Frame /\ f \in Frame
    BY <2>1
  <2>5. p.selfdestruct \subseteq g.selfdestruct
    <3> HIDE DEF p, g, f
    <3> QED BY <2>1
  <2>6. /\ Len(frames') = n - 1 /\ frames'[n - 1] = g /\ Top(frames') = g
        /\ \A i \in 1 .. n - 2 : frames'[i] = frames[i]
    BY <2>1
  <2>7. \A i \in 1 .. n - 1 :
          /\ i \in 1 .. n
          /\ frames'[i].start = frames[i].start /\ frames'[i].isStatic = frames[i].isStatic
          /\ frames'[i].oldRefund = frames[i].oldRefund
          /\ frames'[i].isCreate = frames[i].isCreate
    <3> SUFFICES ASSUME NEW i \in 1 .. n - 1
                 PROVE /\ i \in 1 .. n
                       /\ frames'[i].start = frames[i].start
                       /\ frames'[i].isStatic = frames[i].isStatic
                       /\ frames'[i].oldRefund = frames[i].oldRefund
                       /\ frames'[i].isCreate = frames[i].isCreate
      OBVIOUS
    <3>1. i \in 1 .. n
      BY <1>2
    <3>2. CASE i = n - 1
      <4> HIDE DEF g
      <4> QED BY <2>1, <3>1, <3>2
    <3>3. CASE i # n - 1
      <4>1. i \in 1 .. n - 2
        BY <1>2, <3>3
      <4> QED BY <2>6, <3>1, <4>1
    <3> QED BY <3>2, <3>3
  <2>8. StackOK(frames', saved')
    <3>1. ASSUME NEW i \in 1 .. n - 1 PROVE saved'[i] = frames'[i].start
      BY <1>1, <1>3, <2>7 DEF IInv, StackOK
    <3>2. ASSUME NEW i \in 1 .. n - 2
          PROVE  /\ frames'[i].status = "running"
                 /\ frames'[i].contract = frames'[i + 1].start[frames'[i].address]
                 /\ frames'[i].selfdestruct \subseteq frames'[i + 1].selfdestruct
      <4>1. i \in 1 .. n - 1 /\ i + 1 \in 1 .. n - 1
        BY <1>2
      <4>2. frames[i + 1].selfdestruct \subseteq frames'[i + 1].selfdestruct
        <5>1. CASE i + 1 = n - 1
          <6>1. frames'[i + 1] = g /\ frames[i + 1] = p
            BY <2>1, <5>1
          <6> HIDE DEF g, p
          <6> QED BY <2>5, <6>1
        <5>2. CASE i + 1 # n - 1
          <6>1. i + 1 \in 1 .. n - 2
            BY <1>2, <5>2
          <6> QED BY <2>6, <6>1
        <5> QED BY <5>1, <5>2
      <4>3. /\ frames[i].status = "running"
            /\ frames[i].contract = frames[i + 1].start[frames[i].address]
            /\ frames[i].selfdestruct \subseteq frames[i + 1].selfdestruct
        BY <4>1 DEF IInv, StackOK
      <4> HIDE DEF g
      <4> QED BY <2>6, <2>7, <4>1, <4>2, <4>3
    <3>3. Len(saved') = n - 1 /\ n - 1 - 1 = n - 2
      BY <1>1, <1>2, <1>3
    <3>4. ~frames'[1].isCreate
      <4>1. n > 0 /\ 1 \in 1 .. n - 1
        BY <1>2, <2>1
      <4> QED BY <2>7, <4>1 DEF IInv, StackOK
    <3> HIDE DEF n
    <3> QED BY <2>6, <3>1, <3>2, <3>3, <3>4 DEF StackOK
  <2>9. ContractFresh'
    <3>1. g.contract = world'[g.address]
      <4>1. CASE failed
        <5>1. p.contract = frames[n - 1 + 1].start[p.address] /\ n - 1 + 1 = n
          BY <1>2, <2>1 DEF IInv, StackOK
        <5>2. g = p /\ world' = f.start
          BY <1>1, <2>1, <4>1
        <5> QED BY <1>2, <5>1, <5>2
      <4>2. CASE ~failed
        <5> HIDE DEF p, f, g, failed
        <5> QED BY <2>1, <4>2
      <4> QED BY <4>1, <4>2
    <3> HIDE DEF g
    <3> QED BY <2>6, <3>1 DEF ContractFresh
  <2>10. StaticOK(frames', world', refund')
    <3> SUFFICES ASSUME NEW i \in 2 .. n - 1, frames[i].isStatic
                 PROVE  /\ Quiet(frames[i].start, world')
                        /\ frames'[i].logs = <<>>
                        /\ frames'[i].selfdestruct = frames'[i - 1].selfdestruct
                        /\ refund' = frames[i].oldRefund
                        /\ ~frames[i].isCreate
                        /\ \A j \in i + 1 .. n - 1 :
                             /\ frames[j].isStatic
                             /\ Quiet(frames[i].start, frames[j].start)
                             /\ frames[j].oldRefund = frames[i].oldRefund
      <4>1. \A i \in 2 .. n - 1 : i \in 1 .. n - 1 /\ \A j \in i + 1 .. n - 1 : j \in 1 .. n - 1
        BY <1>2
      <4> HIDE DEF n, g, p, f
      <4> QED BY <2>6, <2>7, <4>1 DEF StaticOK
    <3>1. /\ i \in 2 .. n /\ n \in 2 .. n /\ n \in i + 1 .. n
          /\ i \in 1 .. n - 1 /\ i - 1 \in 1 .. n - 2
          /\ \A j \in i + 1 .. n - 1 : j \in i + 1 .. n
      BY <1>2
    <3>2. /\ Quiet(frames[i].start, world)
          /\ frames[i].logs = <<>>
          /\ frames[i].selfdestruct = frames[i - 1].selfdestruct
          /\ refund = frames[i].oldRefund
          /\ ~frames[i].isCreate
          /\ \A j \in i + 1 .. n :
               /\ frames[j].isStatic
               /\ Quiet(frames[i].start, frames[j].start)
               /\ frames[j].oldRefund = frames[i].oldRefund
      BY <3>1 DEF IInv, StaticOK
    <3>3. f.isStatic /\ Quiet(frames[i].start, f.start) /\ f.oldRefund = frames[i].oldRefund
      BY <1>2, <3>1, <3>2
    <3>4. /\ ~f.isCreate /\ f.logs = <<>>
          /\ f.selfdestruct = frames[n - 1].selfdestruct
      BY <1>2, <3>1, <3>3 DEF IInv, StaticOK
    <3>5. Quiet(frames[i].start, world')
      BY <1>1, <3>2, <3>3, <3>4
    <3>6. refund' = frames[i].oldRefund
      BY <1>1, <3>2, <3>3
    <3>7. g.logs = p.logs /\ g.selfdestruct = p.selfdestruct
      <4>1. p.logs \in Seq(Address) /\ p.logs \o <<>> = p.logs
        <5>1. p.logs \in Seq(Address)
          BY <2>4 DEF Frame
        <5> HIDE DEF p
        <5> QED BY <5>1, ConcatEmptySeq
      <4>2. f.logs = <<>> /\ f.selfdestruct = p.selfdestruct
        BY <3>4
      <4> HIDE DEF p, f, g, failed
      <4> QED BY <2>1, <4>1, <4>2
    <3>8. frames'[i].logs = frames[i].logs /\ frames'[i].selfdestruct = frames[i].selfdestruct
      <4>1. CASE i = n - 1
        BY <2>6, <3>7, <4>1
      <4>2. CASE i # n - 1
        <5>1. i \in 1 .. n - 2
          BY <1>2, <4>2
        <5> QED BY <2>6, <5>1
      <4> QED BY <4>1, <4>2
    <3>9. frames'[i - 1] = frames[i - 1]
      BY <2>6, <3>1
    <3> HIDE DEF g, p, f
    <3> QED BY <3>1, <3>2, <3>5, <3>6, <3>8, <3>9
  <2> QED BY <1>4, <1>5, <2>8, <2>9, <2>10 DEF IInv
<1> QED BY <1>6, <1>7

LEMMA InitInv ==
  ASSUME Init, Solvent
  PROVE  IInv
<1>1. Types
  BY InitBacked DEF Backed
<1>2. frames = <<>> /\ saved = <<>> /\ message = NoMessage /\ Len(frames) = 0 /\ Len(saved) = 0
  BY DEF Init
<1>3. StackOK(frames, saved) /\ StaticOK(frames, world, refund)
  BY <1>2 DEF StackOK, StaticOK
<1>4. ContractFresh /\ MessageOK
  BY <1>2 DEF ContractFresh, MessageOK
<1>5. NoEtherCreated
  <2>1. FirstWorld \in World
    BY DEF FirstWorld, World, Account
  <2>2. Ether(FirstWorld) \in Nat
    BY <2>1, EtherBounds DEF Solvent
  <2>3. world = FirstWorld
    BY DEF Init
  <2> QED BY <1>2, <2>2, <2>3 DEF NoEtherCreated
<1> QED BY <1>1, <1>3, <1>4, <1>5 DEF IInv

LEMMA StepInv ==
  ASSUME IInv, Solvent, [Next]_vars
  PROVE  IInv'
<1>1. Types'
  <2>1. Backed
    BY LenProperties DEF IInv, StackOK, Types, Backed, CheckpointsSuffice
  <2>2. CASE UNCHANGED vars
    BY <2>1, <2>2 DEF vars, Backed, Types
  <2>3. CASE End
    BY <2>1, <2>3, FinishBacked DEF End, Backed
  <2>4. CASE \E sender \in Address, to \in Address \union {NoAddress}, value \in Value,
               isStatic \in BOOLEAN : Run(sender, to, value, isStatic)
    BY <2>1, <2>4, RunBacked DEF Backed
  <2> QED BY <2>1, <2>2, <2>3, <2>4, OpcodeBacked, ExecuteBacked DEF Next, Backed
<1>2. CASE UNCHANGED vars
  BY <1>2 DEF vars, IInv, Types, ContractFresh, MessageOK, NoEtherCreated
<1>3. CASE \E sender \in Address, to \in Address \union {NoAddress}, value \in Value,
             isStatic \in BOOLEAN : Run(sender, to, value, isStatic)
  BY <1>3, RunInv
<1>4. CASE Opcode
  BY <1>1, <1>4, StoreInv, LogInv, SelfDestructInv, CallInv, CreateInv DEF Opcode
<1>5. CASE Execute
  BY <1>5, CallStateManagerInv, ExecuteCallInv, ExecuteCreateInv DEF Execute
<1>6. CASE End
  BY <1>1, <1>6, FinishInv DEF End
<1> QED BY <1>2, <1>3, <1>4, <1>5, <1>6 DEF Next

LEMMA Invariance ==
  ASSUME Solvent
  PROVE  Spec => []IInv
<1>1. Init => IInv
  BY InitInv
<1>2. IInv /\ [Next]_vars => IInv'
  BY StepInv
<1> QED BY <1>1, <1>2, PTL DEF Spec

\* While no handler throws and nobody spends more than he has, each message
\* under way has its own checkpoint of the state manager, taken before
\* anything it did, whatever the depth (evm.ts executeMessage).
THEOREM OwnCheckpoints ==
  ASSUME Solvent
  PROVE  Spec => []CheckpointsMatch
<1>1. IInv => CheckpointsMatch
  BY DEF IInv, StackOK, CheckpointsMatch
<1> QED BY <1>1, Invariance, PTL

\* No call, reentrant, refused or failed, leaves a running frame with an old
\* copy of its own account (eei.ts _baseCall, create).
THEOREM FreshCopies ==
  ASSUME Solvent
  PROVE  Spec => []ContractFresh
<1>1. IInv => ContractFresh
  BY DEF IInv
<1> QED BY <1>1, Invariance, PTL

\* What runs below a static call, at any depth, moves no ether, sets no code,
\* logs, selfdestructs and refunds nothing (opFns.ts; eei.ts callStatic).
THEOREM StaticCalls ==
  ASSUME Solvent
  PROVE  Spec => []StaticMovesNothing
<1>1. IInv => StaticMovesNothing
  <2> SUFFICES ASSUME IInv, NEW i \in 2 .. Len(frames), frames[i].isStatic
               PROVE  /\ \A a \in Address :
                           /\ world[a].balance = frames[i].start[a].balance
                           /\ world[a].code = frames[i].start[a].code
                      /\ frames[i].logs = <<>>
                      /\ frames[i].selfdestruct = frames[i - 1].selfdestruct
                      /\ refund = frames[i].oldRefund
    BY DEF StaticMovesNothing
  <2> QED BY DEF IInv, StaticOK, Quiet
<1> QED BY <1>1, Invariance, PTL

\* No message, selfdestruct or revert makes ether (evm.ts _reduceSenderBalance,
\* _addToBalance; eei.ts selfDestruct).
THEOREM EtherConserved ==
  ASSUME Solvent
  PROVE  Spec => []NoEtherCreated
<1>1. IInv => NoEtherCreated
  BY DEF IInv
<1> QED BY <1>1, Invariance, PTL
-----------------------------------------------------------------------------
(* The refinement of Journal.                                              *)

JournalEntry == [world : World, logs : Seq(Address), destructed : SUBSET Address]

LEMMA EntriesType ==
  ASSUME NEW fr \in Seq(Frame)
  PROVE  /\ EntriesOf(fr) \in Seq(JournalEntry)
         /\ Len(EntriesOf(fr)) = Len(fr)
         /\ \A i \in 1 .. Len(fr) :
              EntriesOf(fr)[i] = [world |-> fr[i].start, logs |-> LogsUpTo(fr, i - 1),
                                  destructed |-> DestructedUpTo(fr, i - 1)]
         /\ \A n \in 0 .. Len(fr) : /\ LogsUpTo(fr, n) \in Seq(Address)
                                    /\ DestructedUpTo(fr, n) \in SUBSET Address
<1>1. Len(fr) \in Nat /\ \A i \in 1 .. Len(fr) : fr[i] \in Frame
  BY LenProperties, ElementOfSeq
<1>2. \A n \in 0 .. Len(fr) : LogsUpTo(fr, n) \in Seq(Address)
  BY LogsType
<1>3. ASSUME NEW n \in 0 .. Len(fr) PROVE DestructedUpTo(fr, n) \in SUBSET Address
  <2>1. CASE n = 0
    BY <2>1 DEF DestructedUpTo
  <2>2. CASE n # 0
    <3>1. n \in 1 .. Len(fr)
      BY <1>1, <2>2
    <3> QED BY <1>1, <2>2, <3>1 DEF DestructedUpTo, Frame
  <2> QED BY <2>1, <2>2
<1> DEFINE entry(i) == [world |-> fr[i].start, logs |-> LogsUpTo(fr, i - 1),
                        destructed |-> DestructedUpTo(fr, i - 1)]
<1>4. \A i \in 1 .. Len(fr) : entry(i) \in JournalEntry
  <2> SUFFICES ASSUME NEW i \in 1 .. Len(fr) PROVE entry(i) \in JournalEntry
    OBVIOUS
  <2>1. i - 1 \in 0 .. Len(fr)
    BY <1>1
  <2>2. fr[i].start \in World
    BY <1>1 DEF Frame
  <2> QED BY <1>2, <1>3, <2>1, <2>2 DEF JournalEntry
<1>5. EntriesOf(fr) = [i \in 1 .. Len(fr) |-> entry(i)]
  BY DEF EntriesOf
<1> HIDE DEF entry
<1>6. EntriesOf(fr) \in [1 .. Len(fr) -> JournalEntry]
  BY <1>4, <1>5
<1>7. EntriesOf(fr) \in Seq(JournalEntry)
  BY <1>1, <1>6, SeqDef
<1>8. Len(EntriesOf(fr)) = Len(fr)
  <2>1. 1 .. Len(fr) = 1 .. Len(EntriesOf(fr)) /\ Len(EntriesOf(fr)) \in Nat
    BY <1>5, <1>7, LenProperties
  <2> QED BY <1>1, <2>1
<1> QED BY <1>2, <1>3, <1>5, <1>7, <1>8 DEF entry

\* Two stacks that differ above the (n - 1)st frame have the same entries up to
\* the nth, if they began alike.
LEMMA EntriesAgree ==
  ASSUME NEW fr \in Seq(Frame), NEW gr \in Seq(Frame), NEW n \in Nat,
         n <= Len(fr), n <= Len(gr),
         \A i \in 1 .. n - 1 : gr[i] = fr[i],
         \A i \in 1 .. n : gr[i].start = fr[i].start
  PROVE  /\ \A i \in 1 .. n : EntriesOf(gr)[i] = EntriesOf(fr)[i]
         /\ n > 0 => LogsUpTo(gr, n - 1) = LogsUpTo(fr, n - 1)
<1>0. Len(fr) \in Nat /\ Len(gr) \in Nat
  BY LenProperties
<1>1. ASSUME NEW i \in 1 .. n
      PROVE  LogsUpTo(gr, i - 1) = LogsUpTo(fr, i - 1)
  <2>1. i - 1 \in Nat /\ \A j \in 1 .. i - 1 : j \in 1 .. n - 1
    OBVIOUS
  <2>2. \A j \in 1 .. i - 1 : gr[j].logs = fr[j].logs
    BY <2>1
  <2> QED BY <2>1, <2>2, LogsAgree
<1>2. ASSUME NEW i \in 1 .. n
      PROVE  DestructedUpTo(gr, i - 1) = DestructedUpTo(fr, i - 1)
  <2>1. i - 1 = 0 \/ i - 1 \in 1 .. n - 1
    OBVIOUS
  <2> QED BY <2>1 DEF DestructedUpTo
<1>3. ASSUME NEW i \in 1 .. n PROVE EntriesOf(gr)[i] = EntriesOf(fr)[i]
  <2>1. i \in 1 .. Len(fr) /\ i \in 1 .. Len(gr)
    BY <1>0
  <2>2. EntriesOf(fr)[i] = [world |-> fr[i].start, logs |-> LogsUpTo(fr, i - 1),
                            destructed |-> DestructedUpTo(fr, i - 1)]
    BY <2>1, EntriesType
  <2>3. EntriesOf(gr)[i] = [world |-> gr[i].start, logs |-> LogsUpTo(gr, i - 1),
                            destructed |-> DestructedUpTo(gr, i - 1)]
    BY <2>1, EntriesType
  <2> QED BY <1>1, <1>2, <2>2, <2>3
<1>4. n > 0 => n \in 1 .. n
  OBVIOUS
<1> QED BY <1>1, <1>3, <1>4

LEMMA Unmoved ==
  ASSUME UNCHANGED <<world, frames, answer, report>>
  PROVE  UNCHANGED Messages!vars
BY Unfolded DEF Messages!vars

LEMMA BeginOpens ==
  ASSUME IInv, Types', NEW a, NEW w, NEW status, Begin(a, w, status)
  PROVE  Messages!Open
<1> DEFINE n == Len(frames)
           new == [world |-> world, logs |-> LogsUpTo(frames, n),
                   destructed |-> DestructedUpTo(frames, n)]
<1>1. /\ frames \in Seq(Frame) /\ n \in Nat /\ world \in World
      /\ frames' \in Seq(Frame)
  BY LenProperties DEF IInv, Types
<1>2. /\ Len(frames') = n + 1
      /\ \A i \in 1 .. n : frames'[i] = frames[i]
      /\ frames'[n + 1].start = world
      /\ frames'[n + 1].logs = <<>>
      /\ frames'[n + 1].selfdestruct = IF frames = <<>> THEN {} ELSE Top(frames).selfdestruct
      /\ UNCHANGED <<answer, report>>
  BY <1>1 DEF Begin, Pushed
<1>3. new \in JournalEntry /\ LogsUpTo(frames, n) \in Seq(Address)
  <2>1. n \in 0 .. n
    BY <1>1
  <2> QED BY <1>1, <2>1, EntriesType DEF JournalEntry
<1>4. LogsUpTo(frames', n) = LogsUpTo(frames, n)
  BY <1>1, <1>2, LogsAgree
<1>5. LogsUpTo(frames', n + 1) = LogsUpTo(frames, n)
  <2>1. n + 1 \in Nat \ {0} /\ n + 1 - 1 = n
    BY <1>1
  <2>2. LogsUpTo(frames', n + 1) = LogsUpTo(frames', n + 1 - 1) \o frames'[n + 1].logs
    <3>1. PICK k \in Nat \ {0} : k = n + 1
      BY <2>1
    <3>2. LogsUpTo(frames', k) = LogsUpTo(frames', k - 1) \o frames'[k].logs
      BY LogsStep
    <3> QED BY <3>1, <3>2
  <2>3. LogsUpTo(frames, n) \o <<>> = LogsUpTo(frames, n)
    BY <1>3, ConcatEmptySeq
  <2> QED BY <1>2, <1>4, <2>1, <2>2, <2>3
<1>6. DestructedUpTo(frames', n + 1) = DestructedUpTo(frames, n)
  <2>1. frames = <<>> <=> n = 0
    BY <1>1, EmptySeq
  <2> QED BY <1>1, <1>2, <2>1 DEF DestructedUpTo, Top
<1>7. EntriesOf(frames') = Append(EntriesOf(frames), new)
  <2> DEFINE old == EntriesOf(frames)
             all == EntriesOf(frames')
  <2>1. /\ old \in Seq(JournalEntry) /\ Len(old) = n
        /\ all \in Seq(JournalEntry) /\ Len(all) = n + 1
    BY <1>1, <1>2, EntriesType
  <2>2. \A i \in 1 .. n : all[i] = old[i]
    <3>1. n <= Len(frames) /\ n <= Len(frames') /\ \A i \in 1 .. n - 1 : i \in 1 .. n
      BY <1>1, <1>2
    <3>2. (\A i \in 1 .. n - 1 : frames'[i] = frames[i])
            /\ \A i \in 1 .. n : frames'[i].start = frames[i].start
      BY <1>2, <3>1
    <3> HIDE DEF n
    <3> QED BY <1>1, <3>1, <3>2, EntriesAgree
  <2>3. all[n + 1] = new
    <3>1. n + 1 \in 1 .. Len(frames') /\ n + 1 - 1 = n
      BY <1>1, <1>2
    <3>2. all[n + 1] = [world |-> frames'[n + 1].start, logs |-> LogsUpTo(frames', n + 1 - 1),
                        destructed |-> DestructedUpTo(frames', n + 1 - 1)]
      <4>1. PICK k \in 1 .. Len(frames') : k = n + 1
        BY <3>1
      <4>2. all[k] = [world |-> frames'[k].start, logs |-> LogsUpTo(frames', k - 1),
                      destructed |-> DestructedUpTo(frames', k - 1)]
        BY <1>1, EntriesType
      <4> QED BY <4>1, <4>2
    <3>3. DestructedUpTo(frames', n) = DestructedUpTo(frames, n)
      <4>1. n = 0 \/ n \in 1 .. n
        BY <1>1
      <4> QED BY <1>2, <4>1 DEF DestructedUpTo
    <3> QED BY <1>2, <1>4, <3>1, <3>2, <3>3
  <2> HIDE DEF old, all, new
  <2>4. /\ Append(old, new) \in Seq(JournalEntry) /\ Len(Append(old, new)) = n + 1
        /\ \A i \in 1 .. n : Append(old, new)[i] = old[i]
        /\ Append(old, new)[n + 1] = new
    BY <1>3, <2>1, PushFacts
  <2>5. \A i \in 1 .. n + 1 : all[i] = Append(old, new)[i]
    BY <1>1, <2>2, <2>3, <2>4
  <2>6. all = Append(old, new)
    BY <2>1, <2>4, <2>5, SeqEqual
  <2> QED BY <2>6 DEF all, old
<1> HIDE DEF n
<1> QED BY <1>2, <1>5, <1>6, <1>7, Unfolded DEF Messages!Open, Messages!Entry, n

\* The running frame logs or selfdestructs, or changes accounts.
LEMMA TopActs ==
  ASSUME Types, frames # <<>>, NEW g \in Frame, NEW b \in Address,
         g.start = Top(frames).start,
         g.logs = Top(frames).logs \/ g.logs = Append(Top(frames).logs, b),
         Top(frames).selfdestruct \subseteq g.selfdestruct,
         frames' = Replace(frames, g), UNCHANGED <<answer, report>>
  PROVE  Messages!Act
<1> DEFINE n == Len(frames)
           L == LogsUpTo(frames, n)
           M == LogsUpTo(frames', n)
<1>1. /\ frames \in Seq(Frame) /\ n \in Nat \ {0} /\ Top(frames) = frames[n]
      /\ frames[n] \in Frame
  <2>1. frames \in Seq(Frame) /\ frames # <<>>
    BY DEF Types
  <2>2. /\ Len(frames) \in Nat \ {0} /\ Top(frames) = frames[Len(frames)]
        /\ Top(frames) \in Frame
    BY ONLY <2>1, PopFacts
  <2> QED BY <2>1, <2>2
<1>2. /\ frames' \in Seq(Frame) /\ Len(frames') = n /\ frames'[n] = g
      /\ \A i \in 1 .. n - 1 : frames'[i] = frames[i]
  <2>1. frames \in Seq(Frame) /\ frames # <<>> /\ g \in Frame
    BY <1>1
  <2>2. /\ Replace(frames, g) \in Seq(Frame) /\ Len(Replace(frames, g)) = Len(frames)
        /\ Replace(frames, g)[Len(frames)] = g
        /\ \A i \in 1 .. Len(frames) - 1 : Replace(frames, g)[i] = frames[i]
    BY ONLY <2>1, ReplaceFacts
  <2> QED BY <2>2
<1>3. \A i \in 1 .. n : frames'[i].start = frames[i].start
  <2>1. \A i \in 1 .. n : i = n \/ i \in 1 .. n - 1
    BY <1>1
  <2> QED BY <1>1, <1>2, <2>1
<1>4. EntriesOf(frames') = EntriesOf(frames) /\ LogsUpTo(frames', n - 1) = LogsUpTo(frames, n - 1)
  <2>1. n <= Len(frames) /\ n <= Len(frames') /\ n > 0 /\ n \in Nat
    BY <1>1, <1>2
  <2>2. /\ \A i \in 1 .. n : EntriesOf(frames')[i] = EntriesOf(frames)[i]
        /\ LogsUpTo(frames', n - 1) = LogsUpTo(frames, n - 1)
    <3> HIDE DEF n
    <3> QED BY <1>1, <1>2, <1>3, <2>1, EntriesAgree
  <2>3. /\ EntriesOf(frames') \in Seq(JournalEntry) /\ Len(EntriesOf(frames')) = n
        /\ EntriesOf(frames) \in Seq(JournalEntry) /\ Len(EntriesOf(frames)) = n
    BY <1>1, <1>2, EntriesType
  <2> HIDE DEF n
  <2> QED BY <2>2, <2>3, SeqEqual
<1>5. /\ L = LogsUpTo(frames, n - 1) \o Top(frames).logs
      /\ M = LogsUpTo(frames, n - 1) \o g.logs
      /\ LogsUpTo(frames, n - 1) \in Seq(Address) /\ L \in Seq(Address)
  <2>1. n - 1 \in 0 .. n /\ n \in 0 .. n
    BY <1>1
  <2>2. LogsUpTo(frames', n) = LogsUpTo(frames', n - 1) \o frames'[n].logs
    BY <1>1, LogsStep
  <2>3. LogsUpTo(frames, n) = LogsUpTo(frames, n - 1) \o frames[n].logs
    BY <1>1, LogsStep
  <2> QED BY <1>1, <1>2, <1>4, <2>1, <2>2, <2>3, EntriesType
<1> HIDE DEF L, M
<1>6. Len(L) <= Len(M) /\ SubSeq(M, 1, Len(L)) = L
  <2>1. CASE g.logs = Top(frames).logs
    <3>1. M = L
      BY <1>5, <2>1
    <3>2. Len(L) \in Nat /\ SubSeq(L, 1, Len(L)) = L
      BY <1>5, LenProperties, SubSeqFull
    <3> QED BY <3>1, <3>2
  <2>2. CASE g.logs = Append(Top(frames).logs, b)
    <3> DEFINE K == LogsUpTo(frames, n - 1)
               l == Top(frames).logs
    <3>1. K \in Seq(Address) /\ l \in Seq(Address) /\ L = K \o l /\ M = K \o Append(l, b)
      BY <1>1, <1>5, <2>2 DEF Frame
    <3> HIDE DEF K, l
    <3>2. <<b>> \in Seq(Address) /\ Append(l, b) = l \o <<b>>
      BY <3>1, AppendIsConcat
    <3>3. M = L \o <<b>>
      BY <3>1, <3>2, ConcatAssociative
    <3>4. M = Append(L, b)
      BY <1>5, <3>3, AppendIsConcat
    <3>5. /\ M \in Seq(Address) /\ Len(M) = Len(L) + 1 /\ Len(L) \in Nat
          /\ \A i \in 1 .. Len(L) : M[i] = L[i]
      <4>1. /\ Append(L, b) \in Seq(Address) /\ Len(Append(L, b)) = Len(L) + 1
            /\ Len(L) \in Nat
            /\ \A i \in 1 .. Len(L) : Append(L, b)[i] = L[i]
        <5>1. L \in Seq(Address) /\ b \in Address
          BY <1>5
        <5> QED BY ONLY <5>1, AppendProperties, LenProperties
      <4> QED BY <3>4, <4>1
    <3>6. \A i \in 1 .. Len(L) : M[i] \in Address
      BY <1>5, <3>5, ElementOfSeq
    <3>7. /\ SubSeq(M, 1, Len(L)) \in Seq(Address)
          /\ Len(SubSeq(M, 1, Len(L))) = Len(L)
          /\ \A i \in 1 .. Len(L) : SubSeq(M, 1, Len(L))[i] = M[i]
      <4> DEFINE k == Len(L)
      <4>1. k \in Int /\ 1 \in Int /\ k - 1 + 1 = k /\ (IF 1 <= k THEN k - 1 + 1 ELSE 0) = k
            /\ \A i \in 1 .. k : M[i] \in Address /\ 1 + i - 1 = i
        BY <3>5, <3>6
      <4> HIDE DEF k
      <4>2. /\ SubSeq(M, 1, k) \in Seq(Address)
            /\ Len(SubSeq(M, 1, k)) = IF 1 <= k THEN k - 1 + 1 ELSE 0
            /\ \A i \in 1 .. k - 1 + 1 : SubSeq(M, 1, k)[i] = M[1 + i - 1]
        BY <4>1, SubSeqProperties
      <4>3. \A i \in 1 .. k : SubSeq(M, 1, k)[i] = M[i]
        BY <4>1, <4>2
      <4> QED BY <4>1, <4>2, <4>3 DEF k
    <3>8. \A i \in 1 .. Len(L) : SubSeq(M, 1, Len(L))[i] = L[i]
      BY <3>5, <3>7
    <3>9. SubSeq(M, 1, Len(L)) = L
      BY <1>5, <3>7, <3>8, SeqEqual
    <3> QED BY <3>5, <3>9
  <2> QED BY <2>1, <2>2
<1>7. DestructedUpTo(frames, n) \subseteq DestructedUpTo(frames', n)
  BY <1>1, <1>2 DEF DestructedUpTo
<1>8. EntriesOf(frames) # <<>>
  <2>1. EntriesOf(frames) \in Seq(JournalEntry) /\ Len(EntriesOf(frames)) = n
    BY <1>1, EntriesType
  <2> QED BY <1>1, <2>1, EmptySeq
<1> HIDE DEF n
<1> QED BY <1>2, <1>4, <1>6, <1>7, <1>8, Unfolded DEF Messages!Act, L, M, n

LEMMA FinishJournal ==
  ASSUME IInv, Solvent, Types', NEW thrown \in BOOLEAN,
         NEW deposit \in {"none", "stored", "fails"}, NEW zero \in BOOLEAN,
         Finish(thrown, deposit, zero)
  PROVE  Messages!Next
<1> DEFINE n == Len(frames)
           f == Top(frames)
           failed == thrown \/ deposit = "fails"
<1>1. /\ frames # <<>> /\ frames \in Seq(Frame) /\ frames' \in Seq(Frame)
      /\ n \in Nat \ {0} /\ f = frames[n] /\ f \in Frame
      /\ IF failed THEN world' = f.start
         ELSE IF deposit = "stored" THEN f.isCreate
         ELSE world' = world
      /\ answer' = IF failed THEN "failed" ELSE "ok"
      /\ world \in World
  BY EndedWorld, StackShape DEF IInv, Types, Finish
<1>2. /\ EntriesOf(frames) \in Seq(JournalEntry) /\ Len(EntriesOf(frames)) = n
      /\ EntriesOf(frames)[n] = [world |-> f.start, logs |-> LogsUpTo(frames, n - 1),
                                 destructed |-> DestructedUpTo(frames, n - 1)]
  <2>1. n \in 1 .. n
    BY <1>1
  <2> QED BY <1>1, <2>1, EntriesType
<1>3. CASE n = 1
  <2>1. ~f.isCreate
    BY <1>1, <1>3 DEF IInv, StackOK
  <2>2. deposit = "none" /\ failed = thrown
    BY <2>1 DEF Finish
  <2>3. /\ frames' = <<>>
        /\ report'.selfdestruct = IF thrown THEN {} ELSE f.selfdestruct
    <3>1. \A logs, selfdestruct, tFailed, aFalse :
            Reported(logs, selfdestruct, tFailed, aFalse).selfdestruct = selfdestruct
      BY DEF Reported
    <3> QED BY <1>3, <3>1 DEF Finish, Depth
  <2>4. Len(frames') = 0
    BY <2>3
  <2>5. LogsUpTo(frames', Len(frames')) = <<>> /\ DestructedUpTo(frames', Len(frames')) = {}
    BY <2>4, LogsStep DEF DestructedUpTo
  <2>6. EntriesOf(frames') = <<>>
    <3>1. EntriesOf(frames') \in Seq(JournalEntry) /\ Len(EntriesOf(frames')) = 0
      BY <1>1, <2>4, EntriesType
    <3> QED BY <3>1, EmptySeq
  <2>7. DestructedUpTo(frames, n) = f.selfdestruct
    BY <1>1 DEF DestructedUpTo
  <2>8. \/ /\ answer' = "ok" /\ report'.selfdestruct = DestructedUpTo(frames, n)
           /\ world' = world
        \/ /\ answer' = "failed" /\ report'.selfdestruct = {}
           /\ world' = EntriesOf(frames)[n].world
    BY <1>1, <1>2, <2>2, <2>3, <2>7
  <2> HIDE DEF n, f, failed
  <2>9. Messages!Finish
    BY <1>2, <1>3, <2>5, <2>6, <2>8, Unfolded DEF Messages!Finish, Messages!Opened, n
  <2> QED BY <2>9 DEF Messages!Next
<1>4. CASE n # 1
  <2> DEFINE p == frames[n - 1]
             g == Top(frames')
  <2>1. /\ n - 1 \in 1 .. n - 1 /\ n - 1 \in 1 .. n /\ n - 1 \in Nat \ {0}
        /\ p \in Frame /\ g \in Frame
        /\ g.start = p.start
        /\ IF failed THEN g = p
           ELSE /\ g.logs = p.logs \o f.logs
                /\ g.selfdestruct = p.selfdestruct \union f.selfdestruct
        /\ Len(frames') = n - 1 /\ frames'[n - 1] = g
        /\ \A i \in 1 .. n - 2 : frames'[i] = frames[i]
    BY <1>4, Returned
  <2>2. n > 1 /\ n - 1 + 1 = n /\ n - 1 - 1 = n - 2
    <3>1. n \in Nat \ {0} /\ n # 1
      BY <1>1, <1>4
    <3> HIDE DEF n
    <3> QED BY ONLY <3>1
  <2>3. UNCHANGED report
    BY <1>1, <1>4 DEF Finish, Depth
  <2>4. \A i \in 1 .. n - 1 : frames'[i].start = frames[i].start
    <3>1. \A i \in 1 .. n - 1 : i = n - 1 \/ i \in 1 .. n - 2
      BY <1>1
    <3> HIDE DEF g
    <3> QED BY <2>1, <3>1
  <2>5. /\ \A i \in 1 .. n - 1 : EntriesOf(frames')[i] = EntriesOf(frames)[i]
        /\ LogsUpTo(frames', n - 2) = LogsUpTo(frames, n - 2)
    <3> DEFINE m == n - 1
    <3>1. /\ m \in Nat /\ m <= Len(frames) /\ m <= Len(frames') /\ m > 0 /\ m - 1 = n - 2
          /\ \A i \in 1 .. m - 1 : frames'[i] = frames[i]
          /\ \A i \in 1 .. m : frames'[i].start = frames[i].start
      BY <1>1, <2>1, <2>4
    <3> HIDE DEF m
    <3>2. /\ \A i \in 1 .. m : EntriesOf(frames')[i] = EntriesOf(frames)[i]
          /\ LogsUpTo(frames', m - 1) = LogsUpTo(frames, m - 1)
      BY <1>1, <3>1, EntriesAgree
    <3> QED BY <3>1, <3>2 DEF m
  <2>6. EntriesOf(frames') = SubSeq(EntriesOf(frames), 1, n - 1)
    <3> DEFINE old == EntriesOf(frames)
               all == EntriesOf(frames')
               m == n - 1
    <3>1. /\ all \in Seq(JournalEntry) /\ Len(all) = m
          /\ old \in Seq(JournalEntry) /\ Len(old) = n
          /\ m \in Nat /\ \A i \in 1 .. m : i \in 1 .. n
      BY SMTT(30), <1>1, <1>2, <2>1, EntriesType
    <3>2. \A i \in 1 .. m : all[i] = old[i]
      BY <2>5
    <3> HIDE DEF old, all, m
    <3>3. \A i \in 1 .. m : old[i] \in JournalEntry
      BY <3>1, ElementOfSeq
    <3>4. m \in Int /\ 1 \in Int /\ (IF 1 <= m THEN m - 1 + 1 ELSE 0) = m
            /\ m - 1 + 1 = m /\ \A i \in 1 .. m : 1 + i - 1 = i
      BY <3>1
    <3>5. /\ SubSeq(old, 1, m) \in Seq(JournalEntry)
          /\ Len(SubSeq(old, 1, m)) = IF 1 <= m THEN m - 1 + 1 ELSE 0
          /\ \A i \in 1 .. m - 1 + 1 : SubSeq(old, 1, m)[i] = old[1 + i - 1]
      BY <3>3, <3>4, SubSeqProperties
    <3>6. Len(SubSeq(old, 1, m)) = m /\ \A i \in 1 .. m : all[i] = SubSeq(old, 1, m)[i]
      BY <3>2, <3>4, <3>5
    <3>7. all = SubSeq(old, 1, m)
      BY <3>1, <3>5, <3>6, SeqEqual
    <3> QED BY <3>7 DEF old, all, m
  <2>7. /\ LogsUpTo(frames', n - 1) = LogsUpTo(frames, n - 2) \o g.logs
        /\ LogsUpTo(frames, n - 1) = LogsUpTo(frames, n - 2) \o p.logs
        /\ LogsUpTo(frames, n) = LogsUpTo(frames, n - 1) \o f.logs
        /\ LogsUpTo(frames, n - 2) \in Seq(Address)
    <3>1. PICK m \in Nat \ {0} : m = n - 1
      BY <2>1
    <3>2. /\ LogsUpTo(frames', m) = LogsUpTo(frames', m - 1) \o frames'[m].logs
          /\ LogsUpTo(frames, m) = LogsUpTo(frames, m - 1) \o frames[m].logs
          /\ LogsUpTo(frames, n) = LogsUpTo(frames, n - 1) \o frames[n].logs
      <4> HIDE DEF n
      <4> QED BY <1>1, LogsStep
    <3>3. m - 1 = n - 2 /\ n - 2 \in 0 .. Len(frames)
      BY <1>1, <3>1
    <3>4. LogsUpTo(frames, n - 2) \in Seq(Address)
      BY <1>1, <3>3, LogsType
    <3> HIDE DEF g, f
    <3> QED BY <1>1, <2>1, <2>5, <3>1, <3>2, <3>3, <3>4
  <2>8. /\ DestructedUpTo(frames', n - 1) = g.selfdestruct
        /\ DestructedUpTo(frames, n - 1) = p.selfdestruct
        /\ DestructedUpTo(frames, n) = f.selfdestruct
        /\ p.selfdestruct \subseteq f.selfdestruct
    <3>1. n - 1 # 0 /\ n # 0
      BY <1>1, <2>1
    <3>2. p.selfdestruct \subseteq frames[n - 1 + 1].selfdestruct
      BY <2>1 DEF IInv, StackOK
    <3> HIDE DEF g
    <3> QED BY <1>1, <2>1, <2>2, <3>1, <3>2 DEF DestructedUpTo
  <2>9. CASE failed
    <3>1. /\ LogsUpTo(frames', n - 1) = LogsUpTo(frames, n - 1)
          /\ DestructedUpTo(frames', n - 1) = DestructedUpTo(frames, n - 1)
          /\ world' = f.start /\ answer' = "failed"
      <4> HIDE DEF g
      <4> QED BY <1>1, <2>1, <2>7, <2>8, <2>9
    <3> HIDE DEF n, f
    <3>2. Messages!Fail
      BY <1>2, <2>1, <2>2, <2>3, <2>6, <3>1, Unfolded
         DEF Messages!Fail, Messages!Opened, Messages!Pop, n
    <3> QED BY <3>2 DEF Messages!Next
  <2>10. CASE ~failed
    <3>1. LogsUpTo(frames', n - 1) = LogsUpTo(frames, n)
      <4>1. f.logs \in Seq(Address) /\ p.logs \in Seq(Address)
        BY <1>1, <2>1 DEF Frame
      <4> DEFINE K == LogsUpTo(frames, n - 2)
                 l == p.logs
                 o == f.logs
      <4>2. /\ LogsUpTo(frames', n - 1) = K \o (l \o o)
            /\ LogsUpTo(frames, n) = (K \o l) \o o
            /\ K \in Seq(Address) /\ l \in Seq(Address) /\ o \in Seq(Address)
        <5> HIDE DEF g, f, p
        <5> QED BY <2>1, <2>7, <2>10, <4>1
      <4> HIDE DEF K, l, o
      <4>3. (K \o l) \o o = K \o (l \o o)
        BY ONLY SMTT(30), <4>2, ConcatAssociative
      <4> QED BY <4>2, <4>3
    <3>2. DestructedUpTo(frames', n - 1) = DestructedUpTo(frames, n)
      <4> HIDE DEF g, f, p
      <4> QED BY <2>1, <2>8, <2>10
    <3>3. \E a \in DOMAIN world : world' = [world EXCEPT ![a] = world'[a]]
      <4>1. DOMAIN world = Address /\ f.address \in Address /\ OSM \in Address
        BY <1>1 DEF World, Frame
      <4>2. CASE deposit = "stored"
        <5>1. world' = [world EXCEPT ![f.address].code = TRUE]
          BY <2>10, <4>2 DEF Finish
        <5>2. world' = [world EXCEPT ![f.address] = world'[f.address]]
          BY <1>1, <4>1, <5>1 DEF World
        <5> QED BY <4>1, <5>2
      <4>3. CASE deposit # "stored"
        <5>1. world' = world
          BY <1>1, <2>10, <4>3
        <5>2. world' = [world EXCEPT ![OSM] = world'[OSM]]
          BY <1>1, <4>1, <5>1 DEF World
        <5> QED BY <4>1, <5>2
      <4> QED BY <4>2, <4>3
    <3>4. answer' = "ok"
      BY <1>1, <2>10
    <3> HIDE DEF n, f
    <3>5. Messages!Succeed
      BY <1>2, <2>1, <2>2, <2>3, <2>6, <3>1, <3>2, <3>3, <3>4, Unfolded
         DEF Messages!Succeed, Messages!Pop, n
    <3> QED BY <3>5 DEF Messages!Next
  <2> QED BY <2>9, <2>10
<1> QED BY <1>3, <1>4

LEMMA OpcodeActs ==
  ASSUME IInv, Types', Opcode
  PROVE  [Messages!Next]_(Messages!vars)
<1> DEFINE f == Top(frames)
<1>1. Types /\ frames # <<>>
  BY DEF IInv, Opcode, SStore, Log, SelfDestruct, Call, Create, Step, Running
<1>2. f \in Frame /\ OSM \in Address /\ world' \in World
  <2>1. frames \in Seq(Frame)
    BY <1>1 DEF Types
  <2> QED BY <1>1, <2>1, PopFacts DEF Types
<1>3. /\ f.address \in Address /\ f.contract \in Account
      /\ f.logs \in Seq(Address) /\ f.selfdestruct \in SUBSET Address
  BY <1>2 DEF Frame
<1>4. ASSUME NEW v \in {0, 1}, SStore(v) PROVE Messages!Act
  <2> DEFINE g == [f EXCEPT !.contract = world'[f.address]]
  <2>1. frames' = Replace(frames, g) /\ UNCHANGED <<answer, report>>
    BY <1>4 DEF SStore, outermost
  <2>2. world'[f.address] \in Account
    BY <1>2, <1>3, WorldType
  <2>3. /\ g \in Frame /\ g.start = f.start /\ g.logs = f.logs
        /\ g.selfdestruct = f.selfdestruct
    BY <1>2, <2>2 DEF Frame
  <2> HIDE DEF g
  <2> QED BY <1>1, <1>2, <2>1, <2>3, TopActs
<1>5. CASE Log
  <2> DEFINE g == [f EXCEPT !.logs = Append(@, f.address)]
  <2>1. frames' = Replace(frames, g) /\ UNCHANGED <<answer, report>>
    BY <1>5 DEF Log, outermost
  <2>2. Append(f.logs, f.address) \in Seq(Address)
    BY <1>3, PushFacts
  <2>3. /\ g \in Frame /\ g.start = f.start /\ g.logs = Append(f.logs, f.address)
        /\ g.selfdestruct = f.selfdestruct
    BY <1>2, <2>2 DEF Frame
  <2> HIDE DEF g
  <2> QED BY <1>1, <1>3, <2>1, <2>3, TopActs DEF Messages!Next
<1>6. ASSUME NEW a \in Address, SelfDestruct(a) PROVE Messages!Act
  <2> DEFINE g == [f EXCEPT !.selfdestruct = @ \union {f.address}, !.status = "stopped"]
  <2>1. frames' = Replace(frames, g) /\ UNCHANGED <<answer, report>>
    BY <1>6 DEF SelfDestruct, outermost
  <2>2. /\ g \in Frame /\ g.start = f.start /\ g.logs = f.logs
        /\ f.selfdestruct \subseteq g.selfdestruct
    BY <1>2, <1>3 DEF Frame
  <2> HIDE DEF g
  <2> QED BY <1>1, <1>2, <2>1, <2>2, TopActs
<1>7. EntriesOf(frames) # <<>>
  <2>1. frames \in Seq(Frame)
    BY <1>1 DEF Types
  <2>2. EntriesOf(frames) \in Seq(JournalEntry) /\ Len(EntriesOf(frames)) # 0
    BY <1>1, <2>1, EntriesType, EmptySeq
  <2> QED BY <2>2, EmptySeq
<1>8. ASSUME UNCHANGED <<world, frames, report>>, UNCHANGED answer \/ answer' = "failed"
      PROVE  [Messages!Next]_(Messages!vars)
  <2>1. CASE UNCHANGED answer
    BY <1>8, <2>1, Unmoved
  <2>2. CASE answer' = "failed"
    <3>1. Messages!Refuse
      BY <1>7, <1>8, <2>2, Unfolded DEF Messages!Refuse
    <3> QED BY <3>1 DEF Messages!Next
  <2> QED BY <1>8, <2>1, <2>2
<1>9. ASSUME NEW kind \in {"call", "callcode", "delegatecall", "staticcall"},
             NEW a \in Address, NEW v \in Value, Call(kind, a, v)
      PROVE  [Messages!Next]_(Messages!vars)
  <2>1. UNCHANGED <<world, frames, report>> /\ (UNCHANGED answer \/ answer' = "failed")
    BY <1>9 DEF Call, outermost
  <2> QED BY <1>8, <2>1
<1>10. ASSUME NEW v \in Value, Create(v) PROVE [Messages!Next]_(Messages!vars)
  <2> DEFINE bumped == [f.contract EXCEPT !.nonce = @ + 1]
             g == [f EXCEPT !.contract = bumped]
  <2>1. \/ answer' = "failed" /\ UNCHANGED <<world, frames, report>>
        \/ frames' = Replace(frames, g) /\ UNCHANGED <<answer, report>>
    BY <1>10 DEF Create, outermost
  <2>2. CASE answer' = "failed" /\ UNCHANGED <<world, frames, report>>
    BY <1>8, <2>2
  <2>3. CASE frames' = Replace(frames, g) /\ UNCHANGED <<answer, report>>
    <3>1. bumped \in Account
      BY SMTT(30), <1>3 DEF Account
    <3>2. /\ g \in Frame /\ g.start = f.start /\ g.logs = f.logs
          /\ g.selfdestruct = f.selfdestruct
      <4> HIDE DEF bumped
      <4> QED BY <1>2, <3>1 DEF Frame
    <3> HIDE DEF g
    <3>3. Messages!Act
      BY <1>1, <1>2, <2>3, <3>2, TopActs
    <3> QED BY <3>3 DEF Messages!Next
  <2> QED BY <2>1, <2>2, <2>3
<1> QED BY <1>4, <1>5, <1>6, <1>9, <1>10 DEF Opcode, Messages!Next

LEMMA InitJournal == Init => Messages!Init
<1> SUFFICES ASSUME Init PROVE Messages!Init
  OBVIOUS
<1>1. frames = <<>> /\ Len(frames) = 0 /\ answer = "none" /\ report.selfdestruct = {}
  BY DEF Init, NoReport
<1>2. LogsUpTo(frames, Len(frames)) = <<>> /\ DestructedUpTo(frames, Len(frames)) = {}
  BY <1>1, LogsStep DEF DestructedUpTo
<1>3. EntriesOf(frames) = <<>>
  <2>1. frames \in Seq(Frame)
    BY <1>1, EmptySeq
  <2>2. EntriesOf(frames) \in Seq(JournalEntry) /\ Len(EntriesOf(frames)) = 0
    BY <1>1, <2>1, EntriesType
  <2> QED BY <2>2, EmptySeq
<1> QED BY <1>1, <1>2, <1>3, Unfolded DEF Messages!Init

LEMMA NextJournal ==
  ASSUME IInv, Solvent, [Next]_vars
  PROVE  [Messages!Next]_(Messages!vars)
<1>1. Types'
  BY StepInv DEF IInv
<1>2. CASE UNCHANGED vars
  BY <1>2, Unmoved DEF vars
<1>3. CASE \E sender \in Address, to \in Address \union {NoAddress}, value \in Value,
             isStatic \in BOOLEAN : Run(sender, to, value, isStatic)
  BY <1>3, Unmoved DEF Run
<1>4. CASE Opcode
  BY <1>1, <1>4, OpcodeActs
<1>5. CASE Execute
  <2>1. \E a, w, status : Begin(a, w, status)
    BY <1>5, CallStateManagerInv, ExecuteCallInv, ExecuteCreateInv DEF Execute
  <2> QED BY <1>1, <2>1, BeginOpens DEF Messages!Next
<1>6. CASE End
  BY <1>1, <1>6, FinishJournal DEF End
<1> QED BY <1>2, <1>3, <1>4, <1>5, <1>6 DEF Next

\* Calls and creations, refused, nested, reentrant or failed, leave accounts,
\* logs and the list of selfdestructs as a journal of nested messages would
\* (evm.ts executeMessage, runInterpreter; eei.ts _baseCall, create).
THEOREM Journaled ==
  ASSUME Solvent
  PROVE  Spec => ImplementsJournal
<1>1. Init => Messages!Init
  BY InitJournal
<1>2. IInv /\ [Next]_vars => [Messages!Next]_(Messages!vars)
  BY NextJournal
<1> QED BY <1>1, <1>2, Invariance, PTL DEF Spec, ImplementsJournal, Messages!Spec
=============================================================================
