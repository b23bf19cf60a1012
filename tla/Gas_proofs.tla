----------------------------- MODULE Gas_proofs -----------------------------
(***************************************************************************)
(* Theorems about gas.                                                     *)
(*                                                                         *)
(* Of Gas: memory is paid for, callers can pay for their callees, and work *)
(* for the gas of the outermost message, for all prices, limits, regions   *)
(* of memory and any depth.                                                *)
(*                                                                         *)
(* The argument: a message under way is covered by what its caller has     *)
(* left, and what was done since it was entered is what its own gas went   *)
(* down by, or less.  So what was done before a message and the message's  *)
(* whole limit together never exceed what its caller was given in the same *)
(* sense, and by transitivity the limit of the outermost one.              *)
(*                                                                         *)
(* Of Sstore: types, what writes are metered against, and that the refund  *)
(* counter suffices, for every set of slots and values, prices and depth   *)
(* of messages.                                                            *)
(*                                                                         *)
(* The argument: with net metering, the counter always covers a clearing   *)
(* refund for each slot that was not zero at the start and is zero now.    *)
(* That a failure keeps this true needs the same of every message under    *)
(* way, with the storage and counter it would bring back.                  *)
(***************************************************************************)
EXTENDS Gas, Sstore, Sums, SequenceTheorems

USE ConstantsAssumption DEF ConstantsAssumption
-----------------------------------------------------------------------------
\* A frame while its charges are added up, before they are compared with what
\* it had.
Draft == [create : BOOLEAN, out : Region, limit : Nat, gas : Int,
          words : Nat, paid : Nat, memory : Nat, before : Nat]

FrameSound(f) ==
  /\ f.gas <= f.limit
  /\ f.memory <= f.words
  /\ f.paid = MemoryCost(f.words)

\* f goes on as g.
Continues(f, g) ==
  /\ g \in Draft
  /\ FrameSound(g)
  /\ g.limit = f.limit /\ g.before = f.before
  /\ g.create = f.create /\ g.out = f.out
  /\ g.gas <= f.gas
  /\ f.words <= g.words

\* What was done, up to the moment when done is the work, is paid by frame f.
Pays(f, done) == done <= f.before + f.limit - f.gas

\* A frame and the one it has called.
Linked(caller, callee) ==
  /\ callee.limit <= caller.gas
  /\ Reach(callee.out) <= caller.words

Accounted(st, done) ==
  /\ \A i \in 1..Len(st) - 1 : Pays(st[i], st[i + 1].before)
  /\ \A i \in 1..Len(st) : st[i].before + st[i].limit <= st[1].limit
  /\ st # <<>> => Pays(st[Len(st)], done)

StackSound(st, done, over) ==
  /\ st \in Seq(Frame)
  /\ \A i \in 1..Len(st) : FrameSound(st[i])
  /\ \A i \in 1..Len(st) - 1 : Linked(st[i], st[i + 1])
  /\ over = "no" => Accounted(st, done)

IInv ==
  /\ TypeOK
  /\ StackSound(frames, work, overdrawn)
  /\ overdrawn \in {"no", "new_precompile"}
  /\ frames = <<>> /\ overdrawn = "no" => work <= used
-----------------------------------------------------------------------------
(* Arithmetic.                                                             *)

\* Whole parts are natural numbers, not above the whole.
LEMMA DivType == \A a \in Nat, d \in Nat \ {0} : a \div d \in Nat /\ a \div d <= a
  OBVIOUS

\* Dividing keeps order.
LEMMA DivMonotone ==
  \A a, b \in Nat, d \in Nat \ {0} : a <= b => a \div d <= b \div d
  OBVIOUS

\* Products of natural numbers are natural numbers.
LEMMA ProductType == \A a, b \in Nat : a * b \in Nat
  OBVIOUS

\* Multiplying keeps order.
LEMMA ProductMonotone == \A a, b, c \in Nat : a <= b => a * c <= b * c
  OBVIOUS

\* Squaring keeps order.
LEMMA SquareMonotone == \A a, b \in Nat : a <= b => a * a <= b * b
  OBVIOUS

\* What a frame spends on work it does is the work it pays for.
LEMMA SpentIsPaid ==
  \A w, has, left, b, l \in Nat :
    left <= has =>
      /\ w + has - left \in Nat
      /\ w <= b + l - has => w + has - left <= b + l - left
  OBVIOUS

\* What a callee is charged covers what it did.
LEMMA AnsweredIsPaid ==
  \A w, has, u, s, b, l \in Nat :
    w <= s + u /\ s <= b + l - has => w <= b + l - (has - u)
  OBVIOUS

\* What a callee may do is covered by what its caller may.
LEMMA LimitIsCovered ==
  \A b, l, has, s, limit, top \in Nat :
    b + l <= top /\ s <= b + l - has /\ limit <= has => s + limit <= top
  OBVIOUS

\* More memory costs more (subMemUsage).
LEMMA MemoryCostMonotone ==
  ASSUME NEW a \in Nat, NEW b \in Nat, a <= b
  PROVE  MemoryCost(a) \in Nat /\ MemoryCost(b) \in Nat /\ MemoryCost(a) <= MemoryCost(b)
<1>1. a * MemoryFee \in Nat /\ b * MemoryFee \in Nat /\ a * MemoryFee <= b * MemoryFee
  BY ProductType, ProductMonotone
<1>2. a * a \in Nat /\ b * b \in Nat /\ a * a <= b * b
  BY ProductType, SquareMonotone
<1>3. /\ (a * a) \div QuadCoeffDiv \in Nat
      /\ (b * b) \div QuadCoeffDiv \in Nat
      /\ (a * a) \div QuadCoeffDiv <= (b * b) \div QuadCoeffDiv
  BY <1>2, DivType, DivMonotone
<1> QED
  BY <1>1, <1>3 DEF MemoryCost

\* A call gets no more than there is (maxCallGas).
LEMMA CallGasBounded ==
  ASSUME NEW request \in Nat, NEW gas \in Nat
  PROVE  MaxCallGas(request, gas) \in Nat /\ MaxCallGas(request, gas) <= gas
<1>1. gas \div Reserve \in Nat /\ gas \div Reserve <= gas
  BY DivType
<1> QED
  BY <1>1 DEF MaxCallGas
-----------------------------------------------------------------------------
(* One frame.                                                              *)

\* A region ends at some word (subMemUsage).
LEMMA ReachType ==
  ASSUME NEW r \in [offset : Nat, length : Nat]
  PROVE  Reach(r) \in Nat
  BY DEF Reach

\* What a call returns is written within the region it was paid for.
LEMMA OutputInRegion ==
  ASSUME NEW r \in Region, NEW returned \in Nat
  PROVE  /\ Output(r, returned) \in [offset : Nat, length : Nat]
         /\ Reach(Output(r, returned)) <= Reach(r)
  BY DEF Output, Reach

\* Growing memory costs gas, and covers the region (subMemUsage).
LEMMA GrownContinues ==
  ASSUME NEW f \in Draft, FrameSound(f), NEW r \in Region
  PROVE  Continues(f, Grown(f, r)) /\ Reach(r) <= Grown(f, r).words
<1> DEFINE reach == Reach(r)
<1>1. reach \in Nat
  BY ReachType
<1>2. CASE reach <= f.words
  BY <1>1, <1>2 DEF Grown, Continues, Draft
<1>3. CASE reach > f.words
  <2>1. /\ MemoryCost(reach) \in Nat /\ f.paid \in Nat
        /\ f.paid <= MemoryCost(reach)
    BY <1>1, <1>3, MemoryCostMonotone DEF FrameSound, Draft
  <2>2. Larger(f.paid, MemoryCost(reach)) = MemoryCost(reach)
    BY <2>1 DEF Larger
  <2>3. When(MemoryCost(reach) > f.paid, MemoryCost(reach) - f.paid) \in Nat
    BY <2>1 DEF When
  <2> DEFINE cost == When(MemoryCost(reach) > f.paid, MemoryCost(reach) - f.paid)
  <2>4. Grown(f, r) = [f EXCEPT !.gas = @ - cost, !.words = reach, !.paid = MemoryCost(reach)]
    BY <1>1, <1>3, <2>2 DEF Grown, Draft
  <2> HIDE DEF cost, reach
  <2>5. cost \in Nat
    BY <2>3 DEF cost, reach
  <2>6. /\ Grown(f, r) \in Draft
        /\ Grown(f, r).limit = f.limit /\ Grown(f, r).before = f.before
        /\ Grown(f, r).create = f.create /\ Grown(f, r).out = f.out
        /\ Grown(f, r).gas = f.gas - cost /\ f.gas \in Int
        /\ Grown(f, r).words = reach /\ Grown(f, r).memory = f.memory
        /\ Grown(f, r).paid = MemoryCost(reach)
    <3>1. Grown(f, r) = [create |-> f.create, out |-> f.out, limit |-> f.limit,
                         gas |-> f.gas - cost, words |-> reach,
                         paid |-> MemoryCost(reach), memory |-> f.memory,
                         before |-> f.before]
      BY <2>4 DEF Draft
    <3> QED
      BY <1>1, <2>1, <2>5, <3>1 DEF Draft
  <2>7. f.gas <= f.limit /\ f.memory <= f.words
    BY DEF FrameSound
  <2>8. f.limit \in Nat /\ f.words \in Nat /\ f.memory \in Nat
    BY DEF Draft
  <2>9. FrameSound(Grown(f, r))
    BY <1>1, <1>3, <2>5, <2>6, <2>7, <2>8 DEF FrameSound
  <2> QED
    BY <1>1, <1>3, <2>5, <2>6, <2>8, <2>9 DEF Continues, reach
<1>4. reach <= f.words \/ reach > f.words
  BY <1>1 DEF Draft
<1> QED
  BY <1>2, <1>3, <1>4, Zenon

\* A frame that is charged has not more gas than before (useGas).
LEMMA ChargedContinues ==
  ASSUME NEW f \in Draft, FrameSound(f), NEW fee \in Nat
  PROVE  Continues(f, Charged(f, fee)) /\ Charged(f, fee).words = f.words
  BY DEF Charged, Continues, FrameSound, Draft

\* A charge takes its fee and leaves a frame, maybe one in debt (useGas).
LEMMA ChargedFields ==
  ASSUME NEW f \in Draft, NEW fee \in Int
  PROVE  /\ Charged(f, fee) \in Draft
         /\ Charged(f, fee).gas = f.gas - fee
         /\ f.gas \in Int
  BY DEF Charged, Draft

\* A charge after another is one, and what is given is a charge less.
LEMMA ChargedTwice ==
  ASSUME NEW f \in Draft, NEW first \in Int, NEW second \in Int
  PROVE  Charged(Charged(f, first), second) = Charged(f, first + second)
<1>1. Charged(f, first) = [create |-> f.create, out |-> f.out, limit |-> f.limit,
        gas |-> f.gas - first, words |-> f.words, paid |-> f.paid,
        memory |-> f.memory, before |-> f.before]
  BY DEF Charged, Draft
<1>2. Charged(f, first + second) = [create |-> f.create, out |-> f.out,
        limit |-> f.limit, gas |-> f.gas - (first + second), words |-> f.words,
        paid |-> f.paid, memory |-> f.memory, before |-> f.before]
  BY DEF Charged, Draft
<1>3. (f.gas - first) - second = f.gas - (first + second)
  BY DEF Draft
<1> DEFINE g == Charged(f, first)
<1>4. g = [create |-> f.create, out |-> f.out, limit |-> f.limit,
        gas |-> f.gas - first, words |-> f.words, paid |-> f.paid,
        memory |-> f.memory, before |-> f.before]
  BY <1>1
<1> HIDE DEF g
<1>5. [g EXCEPT !.gas = @ - second] = [create |-> f.create, out |-> f.out,
        limit |-> f.limit, gas |-> f.gas - first - second, words |-> f.words,
        paid |-> f.paid, memory |-> f.memory, before |-> f.before]
  BY <1>4
<1> QED
  BY <1>2, <1>3, <1>5 DEF Charged, g

\* What is given, as the stipend of a call, is a charge below zero.
LEMMA GivenIsCharged ==
  ASSUME NEW f \in Draft, NEW amount \in Int
  PROVE  [f EXCEPT !.gas = @ + amount] = Charged(f, -amount)
  BY DEF Charged, Draft

\* Memory may grow where it was paid for (Memory.extend).
LEMMA ExtendedContinues ==
  ASSUME NEW f \in Draft, FrameSound(f), NEW r \in [offset : Nat, length : Nat],
         Reach(r) <= f.words
  PROVE  Continues(f, Extended(f, r)) /\ Extended(f, r).gas = f.gas
  BY ReachType DEF Extended, Larger, Continues, FrameSound, Draft

\* Charges and growths add up.
LEMMA ContinuesTransitive ==
  ASSUME NEW f \in Draft, NEW g, NEW h, Continues(f, g), Continues(g, h)
  PROVE  Continues(f, h)
  BY DEF Continues, Draft

\* A frame is a draft, and a draft without debt is a frame.
LEMMA DraftOfFrame ==
  /\ \A f \in Frame : f \in Draft /\ f.gas \in Nat
  /\ \A f \in Draft : f.gas >= 0 => f \in Frame
  BY DEF Draft, Frame

\* What was done before a callee and its limit are within what its caller may do.
LEMMA CalleeCovered ==
  ASSUME NEW caller \in Frame, NEW callee \in Frame, NEW most \in Nat,
         caller.before + caller.limit <= most,
         Pays(caller, callee.before), Linked(caller, callee)
  PROVE  callee.before + callee.limit <= most
<1>1. /\ caller.before \in Nat /\ caller.limit \in Nat /\ caller.gas \in Nat
      /\ callee.before \in Nat /\ callee.limit \in Nat
  BY DEF Frame
<1>2. /\ callee.before <= caller.before + caller.limit - caller.gas
      /\ callee.limit <= caller.gas
  BY DEF Pays, Linked
<1> QED
  BY <1>1, <1>2, LimitIsCovered
-----------------------------------------------------------------------------
(* The stack of frames.                                                    *)

Below(st) == SubSeq(st, 1, Len(st) - 1)
Top(st) == st[Len(st)]

\* The stack under the innermost frame.
LEMMA BelowElements ==
  ASSUME NEW st \in Seq(Frame), st # <<>>
  PROVE  /\ Below(st) \in Seq(Frame)
         /\ Len(st) \in Nat \ {0}
         /\ Len(Below(st)) = Len(st) - 1
         /\ \A i \in 1..Len(st) - 1 : Below(st)[i] = st[i]
         /\ Top(st) \in Frame
<1>1. Len(st) \in Nat \ {0}
  BY EmptySeq
<1>2. \A i \in 1..Len(st) : st[i] \in Frame
  BY ElementOfSeq
<1> DEFINE n == Len(st)
<1> HIDE DEF n
<1>3. n - 1 \in Int /\ \A i \in 1..(n - 1) : st[i] \in Frame
  BY <1>1, <1>2 DEF n
<1>4. /\ SubSeq(st, 1, n - 1) \in Seq(Frame)
      /\ Len(SubSeq(st, 1, n - 1)) = IF 1 <= n - 1 THEN n - 1 - 1 + 1 ELSE 0
      /\ \A i \in 1..(n - 1 - 1 + 1) : SubSeq(st, 1, n - 1)[i] = st[1 + i - 1]
  BY <1>3, SubSeqProperties
<1>5. n \in Nat \ {0} /\ Below(st) = SubSeq(st, 1, n - 1)
  BY <1>1 DEF n, Below
<1>6. (IF 1 <= n - 1 THEN n - 1 - 1 + 1 ELSE 0) = n - 1
  BY <1>5
<1>7. \A i \in 1..n - 1 : Below(st)[i] = st[i]
  <2> TAKE i \in 1..n - 1
  <2>1. i \in 1..(n - 1 - 1 + 1) /\ 1 + i - 1 = i
    BY <1>5
  <2> QED
    BY <1>4, <1>5, <2>1
<1> QED
  BY <1>1, <1>2, <1>4, <1>5, <1>6, <1>7 DEF Top, n

\* The stack with another innermost frame.
LEMMA TopReplaced ==
  ASSUME NEW st \in Seq(Frame), st # <<>>, NEW f \in Frame
  PROVE  LET new == Append(Below(st), f)
         IN  /\ new \in Seq(Frame)
             /\ new # <<>>
             /\ Len(st) \in Nat \ {0}
             /\ Len(new) = Len(st)
             /\ \A i \in 1..Len(st) - 1 : new[i] = st[i]
             /\ new[Len(st)] = f
<1>1. /\ Below(st) \in Seq(Frame)
      /\ Len(st) \in Nat \ {0}
      /\ Len(Below(st)) = Len(st) - 1
      /\ \A i \in 1..Len(st) - 1 : Below(st)[i] = st[i]
  BY BelowElements
<1>2. /\ Append(Below(st), f) \in Seq(Frame)
      /\ Len(Append(Below(st), f)) = Len(Below(st)) + 1
      /\ \A i \in 1..Len(Below(st)) : Append(Below(st), f)[i] = Below(st)[i]
      /\ Append(Below(st), f)[Len(Below(st)) + 1] = f
      /\ Append(Below(st), f) # <<>>
  BY <1>1, AppendProperties
<1> QED
  BY <1>1, <1>2

\* The innermost frame goes on, and has paid for what it did.
LEMMA GoesOnSound ==
  ASSUME NEW st, NEW done, NEW over, StackSound(st, done, over), st # <<>>,
         NEW f \in Frame, FrameSound(f),
         f.limit = Top(st).limit, f.before = Top(st).before, f.out = Top(st).out,
         NEW after, NEW over2,
         over2 = "no" => over = "no" /\ Pays(f, after)
  PROVE  StackSound(Append(Below(st), f), after, over2)
<1> DEFINE new == Append(Below(st), f)
           n == Len(st)
<1>1. /\ st \in Seq(Frame)
      /\ \A i \in 1..n : FrameSound(st[i])
      /\ \A i \in 1..n - 1 : Linked(st[i], st[i + 1])
      /\ over = "no" => Accounted(st, done)
  BY DEF StackSound
<1>2. /\ new \in Seq(Frame)
      /\ new # <<>>
      /\ n \in Nat \ {0}
      /\ Len(new) = n
      /\ \A i \in 1..n - 1 : new[i] = st[i]
      /\ new[n] = f
  BY <1>1, TopReplaced
<1>3. f.limit = st[n].limit /\ f.before = st[n].before /\ f.out = st[n].out
  BY DEF Top
<1> HIDE DEF new, n
<1>4. \A i \in 1..n : FrameSound(new[i])
  BY <1>1, <1>2
<1>5. \A i \in 1..n - 1 : Linked(new[i], new[i + 1])
  <2> TAKE i \in 1..n - 1
  <2>1. Linked(st[i], st[i + 1]) /\ new[i] = st[i]
    BY <1>1, <1>2
  <2>2. new[i + 1].limit = st[i + 1].limit /\ new[i + 1].out = st[i + 1].out
    BY <1>2, <1>3
  <2> QED
    BY <2>1, <2>2 DEF Linked
<1>6. ASSUME over2 = "no" PROVE Accounted(new, after)
  <2>1. Accounted(st, done) /\ Pays(f, after)
    BY <1>1, <1>6
  <2>2. ASSUME NEW i \in 1..n - 1 PROVE Pays(new[i], new[i + 1].before)
    <3>1. Pays(st[i], st[i + 1].before) /\ new[i] = st[i]
      BY <1>2, <2>1 DEF Accounted, n
    <3>2. new[i + 1].before = st[i + 1].before
      BY <1>2, <1>3
    <3> QED
      BY <3>1, <3>2
  <2>3. ASSUME NEW i \in 1..n PROVE new[i].before + new[i].limit <= new[1].limit
    <3>1. st[i].before + st[i].limit <= st[1].limit
      BY <2>1 DEF Accounted, n
    <3>2. /\ new[i].before = st[i].before /\ new[i].limit = st[i].limit
          /\ new[1].limit = st[1].limit
      BY <1>2, <1>3
    <3> QED
      BY <3>1, <3>2
  <2> QED
    BY <1>2, <2>1, <2>2, <2>3 DEF Accounted
<1> QED
  BY <1>2, <1>4, <1>5, <1>6 DEF StackSound, new

\* The innermost frame enters a message it can pay for.
LEMMA PushSound ==
  ASSUME NEW st, NEW done \in Nat, NEW over, StackSound(st, done, over), st # <<>>,
         NEW g \in Frame, FrameSound(g), Linked(Top(st), g),
         g.gas = g.limit, g.before = done
  PROVE  StackSound(Append(st, g), done, over)
<1> DEFINE new == Append(st, g)
           n == Len(st)
<1>1. /\ st \in Seq(Frame)
      /\ \A i \in 1..n : FrameSound(st[i])
      /\ \A i \in 1..n - 1 : Linked(st[i], st[i + 1])
      /\ over = "no" => Accounted(st, done)
  BY DEF StackSound
<1>2. n \in Nat \ {0}
  BY <1>1, EmptySeq
<1>3. \A i \in 1..n : st[i] \in Frame
  BY <1>1, ElementOfSeq
<1>4. /\ new \in Seq(Frame)
      /\ new # <<>>
      /\ Len(new) = n + 1
      /\ \A i \in 1..n : new[i] = st[i]
      /\ new[n + 1] = g
  BY <1>1, AppendProperties
<1>5. Linked(st[n], g)
  BY DEF Top
<1> HIDE DEF new
<1>6. \A i \in 1..n + 1 : FrameSound(new[i])
  <2> TAKE i \in 1..n + 1
  <2>1. CASE i = n + 1
    BY <1>4, <2>1
  <2>2. CASE i # n + 1
    <3>1. i \in 1..n
      BY <1>2, <2>2
    <3> QED
      BY <1>1, <1>4, <3>1
  <2> QED
    BY <2>1, <2>2
<1>7. \A i \in 1..n : Linked(new[i], new[i + 1])
  <2> TAKE i \in 1..n
  <2>1. CASE i = n
    BY <1>2, <1>4, <1>5, <2>1
  <2>2. CASE i # n
    <3>1. i \in 1..n - 1 /\ i + 1 \in 1..n
      BY <1>2, <2>2
    <3> QED
      BY <1>1, <1>4, <3>1
  <2> QED
    BY <2>1, <2>2
<1>8. ASSUME over = "no" PROVE Accounted(new, done)
  <2>1. /\ \A i \in 1..n - 1 : Pays(st[i], st[i + 1].before)
        /\ \A i \in 1..n : st[i].before + st[i].limit <= st[1].limit
        /\ Pays(st[n], done)
    BY <1>1, <1>2, <1>8 DEF Accounted
  <2>2. ASSUME NEW i \in 1..n PROVE Pays(new[i], new[i + 1].before)
    <3>1. CASE i = n
      BY <1>2, <1>4, <2>1, <3>1
    <3>2. CASE i # n
      <4>1. i \in 1..n - 1 /\ i + 1 \in 1..n
        BY <1>2, <3>2
      <4> QED
        BY <1>4, <2>1, <4>1
    <3> QED
      BY <3>1, <3>2
  <2>3. g.before + g.limit <= st[1].limit
    <3>1. st[n] \in Frame /\ st[1] \in Frame
      BY <1>2, <1>3
    <3>2. /\ st[n].before + st[n].limit <= st[1].limit
          /\ Pays(st[n], g.before) /\ Linked(st[n], g)
      BY <1>2, <1>5, <2>1
    <3>3. st[1].limit \in Nat
      BY <3>1 DEF Frame
    <3> QED
      BY <3>1, <3>2, <3>3, CalleeCovered, Zenon
  <2>4. \A i \in 1..n + 1 : new[i].before + new[i].limit <= new[1].limit
    BY <1>2, <1>4, <2>1, <2>3
  <2>5. Pays(g, done)
    BY DEF Pays, Frame
  <2> QED
    BY <1>2, <1>4, <2>2, <2>4, <2>5 DEF Accounted
<1>9. \A i \in 1..Len(new) - 1 : Linked(new[i], new[i + 1])
  BY <1>2, <1>4, <1>7
<1> QED
  BY <1>4, <1>6, <1>8, <1>9 DEF StackSound, new

\* What is left when the innermost frame has ended is sound as it was when the
\* message was entered.
LEMMA PopSound ==
  ASSUME NEW st, NEW done, NEW over, StackSound(st, done, over), st # <<>>
  PROVE  StackSound(Below(st), Top(st).before, over)
<1> DEFINE new == Below(st)
           n == Len(st)
<1>1. /\ st \in Seq(Frame)
      /\ \A i \in 1..n : FrameSound(st[i])
      /\ \A i \in 1..n - 1 : Linked(st[i], st[i + 1])
      /\ over = "no" => Accounted(st, done)
  BY DEF StackSound
<1>2. /\ new \in Seq(Frame)
      /\ n \in Nat \ {0}
      /\ Len(new) = n - 1
      /\ \A i \in 1..n - 1 : new[i] = st[i]
  BY <1>1, BelowElements
<1>3. Top(st) = st[n]
  BY DEF Top
<1> HIDE DEF new, n
<1>4. \A i \in 1..n - 1 : FrameSound(new[i])
  BY <1>1, <1>2
<1>5. \A i \in 1..(n - 1) - 1 : Linked(new[i], new[i + 1])
  <2> TAKE i \in 1..(n - 1) - 1
  <2>1. i \in 1..n - 1 /\ i + 1 \in 1..n - 1
    BY <1>2
  <2> QED
    BY <1>1, <1>2, <2>1
<1>6. ASSUME over = "no" PROVE Accounted(new, st[n].before)
  <2>1. /\ \A i \in 1..n - 1 : Pays(st[i], st[i + 1].before)
        /\ \A i \in 1..n : st[i].before + st[i].limit <= st[1].limit
    BY <1>1, <1>6 DEF Accounted, n
  <2>2. ASSUME NEW i \in 1..(n - 1) - 1 PROVE Pays(new[i], new[i + 1].before)
    <3>1. i \in 1..n - 1 /\ i + 1 \in 1..n - 1
      BY <1>2
    <3> QED
      BY <1>2, <2>1, <3>1
  <2>3. ASSUME NEW i \in 1..n - 1 PROVE new[i].before + new[i].limit <= new[1].limit
    <3>1. i \in 1..n /\ 1 \in 1..n - 1
      BY <1>2
    <3> QED
      BY <1>2, <2>1, <3>1
  <2>4. new # <<>> => Pays(new[n - 1], st[n].before)
    <3>1. ASSUME new # <<>> PROVE n - 1 \in 1..n - 1 /\ (n - 1) + 1 = n
      <4>1. Len(new) \in Nat \ {0}
        BY <1>2, <3>1, EmptySeq
      <4> QED
        BY <1>2, <4>1
    <3> QED
      BY <1>2, <2>1, <3>1
  <2> QED
    BY <1>2, <2>2, <2>3, <2>4 DEF Accounted
<1> QED
  BY <1>2, <1>3, <1>4, <1>5, <1>6 DEF StackSound, new
-----------------------------------------------------------------------------
(* Steps.                                                                  *)

\* The running frame.
LEMMA RunningFrame ==
  ASSUME IInv, frames # <<>>
  PROVE  /\ Innermost \in Frame /\ Innermost \in Draft
         /\ FrameSound(Innermost)
         /\ Innermost = Top(frames) /\ Outer = Below(frames)
         /\ frames \in Seq(Frame) /\ work \in Nat
         /\ StackSound(frames, work, overdrawn)
         /\ overdrawn = "no" => Pays(Innermost, work)
<1>1. /\ frames \in Seq(Frame) /\ work \in Nat
      /\ StackSound(frames, work, overdrawn)
  BY DEF IInv, TypeOK
<1>2. Len(frames) \in Nat \ {0}
  BY <1>1, EmptySeq
<1>3. frames[Len(frames)] \in Frame
  BY <1>1, <1>2, ElementOfSeq
<1>4. FrameSound(frames[Len(frames)])
  BY <1>1, <1>2 DEF StackSound
<1>5. overdrawn = "no" => Pays(frames[Len(frames)], work)
  BY <1>1 DEF StackSound, Accounted
<1> QED
  BY <1>1, <1>3, <1>4, <1>5, DraftOfFrame DEF Innermost, Outer, Top, Below

\* The running frame goes on, or traps.
LEMMA GoOnSound ==
  ASSUME IInv, Running, NEW f, Continues(Innermost, f), NEW throws \in BOOLEAN,
         GoOn(f, throws)
  PROVE  IInv'
<1>1. /\ Innermost \in Frame /\ Innermost \in Draft
      /\ Innermost = Top(frames) /\ Outer = Below(frames)
      /\ frames \in Seq(Frame) /\ work \in Nat /\ frames # <<>>
      /\ StackSound(frames, work, overdrawn)
      /\ overdrawn = "no" => Pays(Innermost, work)
  BY RunningFrame DEF Running
<1>2. CASE Trap
  BY <1>2 DEF Trap, IInv, TypeOK
<1>3. CASE /\ f.gas >= 0
           /\ frames' = Append(Outer, f)
           /\ work' = WorkAfter(f)
           /\ UNCHANGED <<trapped, used, overdrawn>>
  <2>1. /\ f \in Frame /\ FrameSound(f)
        /\ f.limit = Top(frames).limit /\ f.before = Top(frames).before
        /\ f.out = Top(frames).out
        /\ f.gas <= Innermost.gas
    BY <1>1, <1>3, DraftOfFrame DEF Continues
  <2>2. /\ work' = work + Innermost.gas - f.gas
        /\ Innermost.gas \in Nat /\ Innermost.before \in Nat /\ Innermost.limit \in Nat
        /\ f.gas \in Nat
    BY <1>1, <1>3, <2>1 DEF WorkAfter, Frame
  <2>3. /\ work' \in Nat
        /\ work <= f.before + f.limit - Innermost.gas => work' <= f.before + f.limit - f.gas
    <3>1. f.before \in Nat /\ f.limit \in Nat /\ work \in Nat
      BY <1>1, <2>1 DEF Frame
    <3> QED
      BY <2>1, <2>2, <3>1, SpentIsPaid
  <2>4. ASSUME overdrawn' = "no" PROVE overdrawn = "no" /\ Pays(f, work')
    <3>1. overdrawn = "no" /\ Pays(Innermost, work)
      BY <1>1, <1>3, <2>4
    <3>2. work <= f.before + f.limit - Innermost.gas
      BY <1>1, <2>1, <3>1 DEF Pays
    <3> QED
      BY <2>3, <3>1, <3>2 DEF Pays
  <2>5. StackSound(frames', work', overdrawn')
    BY <1>1, <1>3, <2>1, <2>4, GoesOnSound
  <2>6. frames' # <<>> /\ frames' \in Seq(Frame)
    BY <1>1, <1>3, <2>1, TopReplaced
  <2> QED
    BY <1>3, <2>3, <2>5, <2>6 DEF IInv, TypeOK
<1>4. f.gas \in Int
  BY DEF Continues, Draft
<1> QED
  BY <1>2, <1>3, <1>4 DEF GoOn

\* The caller goes on after an answer it can pay for.
LEMMA ResumeSound ==
  ASSUME NEW st, NEW done, StackSound(st, done, overdrawn), st # <<>>,
         overdrawn \in {"no", "new_precompile"},
         NEW f \in Frame, FrameSound(f),
         f.limit = Top(st).limit, f.before = Top(st).before, f.out = Top(st).out,
         NEW create \in BOOLEAN, NEW out \in Region, Reach(out) <= f.words,
         NEW gasUsed \in Nat, NEW returned \in Nat, NEW callee,
         gasUsed <= f.gas \/ callee = "new_precompile",
         overdrawn = "no" => Pays(Charged(f, gasUsed), work'),
         Resume(Below(st), f, create, out, gasUsed, returned, callee)
  PROVE  /\ StackSound(frames', work', overdrawn')
         /\ frames' # <<>> /\ frames' \in Seq(Frame)
         /\ trapped' \in BOOLEAN
         /\ overdrawn' \in {"no", "new_precompile"}
<1> DEFINE charged == Charged(f, gasUsed)
           writesTo == ~create /\ returned > 0
           resumed == IF writesTo THEN Extended(charged, Output(out, returned)) ELSE charged
<1>1. st \in Seq(Frame) /\ f \in Draft
  BY DraftOfFrame DEF StackSound
<1>2. Continues(f, charged) /\ charged.words = f.words /\ charged.gas \in Int
  <2>1. Continues(f, charged) /\ charged.words = f.words
    BY <1>1, ChargedContinues
  <2> HIDE DEF charged
  <2> QED
    BY <2>1 DEF Continues, Draft
<1>5. f.gas \in Nat /\ charged.gas = f.gas - gasUsed
  BY DEF Charged, Frame
<1>6. f.words \in Nat /\ f.memory \in Nat /\ f.limit \in Nat
  BY DEF Frame
<1>3. CASE charged.gas < 0
  <2> DEFINE g == [f EXCEPT !.gas = 0]
  <2>1. /\ frames' = Append(Below(st), g)
        /\ trapped' = TRUE /\ overdrawn' = callee
    BY <1>3 DEF Resume
  <2>2. callee = "new_precompile"
    BY <1>3, <1>5
  <2>3. /\ g \in Frame /\ FrameSound(g)
        /\ g.limit = Top(st).limit /\ g.before = Top(st).before /\ g.out = Top(st).out
    <3>1. /\ g \in Frame /\ g.gas = 0
          /\ g.limit = f.limit /\ g.before = f.before /\ g.out = f.out
          /\ g.memory = f.memory /\ g.words = f.words /\ g.paid = f.paid
      BY DEF Frame
    <3> HIDE DEF g
    <3> QED
      BY <1>6, <3>1 DEF FrameSound
  <2>4. StackSound(frames', work', overdrawn')
    <3> HIDE DEF g
    <3> QED
      BY <2>1, <2>2, <2>3, GoesOnSound
  <2>5. frames' # <<>> /\ frames' \in Seq(Frame)
    <3> HIDE DEF g
    <3> QED
      BY <1>1, <2>1, <2>3, TopReplaced
  <2> QED
    BY <2>1, <2>2, <2>4, <2>5
<1>4. CASE charged.gas >= 0
  <2>1. /\ frames' = Append(Below(st), resumed)
        /\ trapped' = (writesTo /\ Inexact(out))
        /\ overdrawn' = overdrawn
    <3>1. ~(charged.gas < 0)
      BY <1>2, <1>4
    <3> QED
      BY <3>1, Zenon DEF Resume
  <2>2. Continues(f, resumed) /\ resumed.gas = charged.gas
    <3>1. CASE writesTo
      <4>1. /\ Output(out, returned) \in [offset : Nat, length : Nat]
            /\ Reach(Output(out, returned)) <= Reach(out)
            /\ Reach(Output(out, returned)) \in Nat /\ Reach(out) \in Nat
        BY OutputInRegion, ReachType
      <4>2. Reach(Output(out, returned)) <= charged.words
        <5> HIDE DEF charged
        <5> QED
          BY <1>2, <1>6, <4>1
      <4>3. charged \in Draft /\ FrameSound(charged)
        BY <1>2 DEF Continues
      <4>4. /\ Continues(charged, Extended(charged, Output(out, returned)))
            /\ Extended(charged, Output(out, returned)).gas = charged.gas
        BY <4>1, <4>2, <4>3, ExtendedContinues
      <4> HIDE DEF charged
      <4> QED
        BY <1>1, <1>2, <3>1, <4>4, ContinuesTransitive
    <3>2. CASE ~writesTo
      BY <1>2, <3>2
    <3> QED
      BY <3>1, <3>2
  <2> HIDE DEF resumed, writesTo
  <2>3. /\ resumed \in Frame /\ FrameSound(resumed)
        /\ resumed.limit = Top(st).limit /\ resumed.before = Top(st).before
        /\ resumed.out = Top(st).out
    BY <1>4, <2>2, DraftOfFrame DEF Continues
  <2>4. overdrawn' = "no" => overdrawn = "no" /\ Pays(resumed, work')
    BY <1>2, <2>1, <2>2 DEF Pays, Continues
  <2>5. StackSound(frames', work', overdrawn')
    BY <2>1, <2>3, <2>4, GoesOnSound
  <2>6. frames' # <<>> /\ frames' \in Seq(Frame)
    BY <1>1, <2>1, <2>3, TopReplaced
  <2> QED
    BY <2>1, <2>5, <2>6, Zenon
<1> QED
  BY <1>2, <1>3, <1>4

\* The innermost frame ends, and what was done since it was entered is in what
\* it is charged for.
LEMMA AnswerSound ==
  ASSUME IInv, frames # <<>>,
         NEW gasUsed \in Nat, NEW returned \in Nat, gasUsed <= Innermost.limit,
         work' \in Nat,
         overdrawn = "no" => work' <= Innermost.before + gasUsed,
         Answer(gasUsed, returned)
  PROVE  IInv'
<1>1. /\ Innermost \in Frame /\ Innermost = Top(frames) /\ Outer = Below(frames)
      /\ frames \in Seq(Frame)
      /\ StackSound(frames, work, overdrawn)
      /\ used \in Nat /\ overdrawn \in {"no", "new_precompile"}
  BY RunningFrame DEF IInv, TypeOK
<1>2. /\ Outer \in Seq(Frame)
      /\ Len(frames) \in Nat \ {0}
      /\ Len(Outer) = Len(frames) - 1
      /\ \A i \in 1..Len(frames) - 1 : Outer[i] = frames[i]
  BY <1>1, BelowElements
<1>3. /\ Innermost.before \in Nat /\ Innermost.limit \in Nat
      /\ Innermost.create \in BOOLEAN /\ Innermost.out \in Region
  BY <1>1 DEF Frame
<1>4. CASE Outer = <<>>
  <2>1. /\ frames' = <<>> /\ trapped' = FALSE /\ used' = gasUsed
        /\ overdrawn' = overdrawn
    BY <1>4 DEF Answer
  <2>2. overdrawn = "no" => Innermost.before = 0
    <3>1. Len(frames) = 1
      BY <1>2, <1>4, EmptySeq
    <3>2. overdrawn = "no" => frames[1].before + frames[1].limit <= frames[1].limit
      BY <1>1, <3>1 DEF StackSound, Accounted
    <3> QED
      BY <1>1, <1>3, <3>1, <3>2 DEF Top
  <2>3. <<>> \in Seq(Frame) /\ Len(<<>>) = 0
    BY EmptySeq
  <2>4. StackSound(frames', work', overdrawn')
    BY <2>1, <2>3 DEF StackSound, Accounted
  <2>5. overdrawn' = "no" => work' <= used'
    BY <1>3, <2>1, <2>2
  <2> QED
    BY <1>1, <2>1, <2>3, <2>4, <2>5 DEF IInv, TypeOK
<1>5. CASE Outer # <<>>
  <2> DEFINE f == Top(Outer)
             n == Len(frames)
  <2>1. StackSound(Outer, Innermost.before, overdrawn)
    BY <1>1, PopSound
  <2>2. n - 1 \in 1..n - 1 /\ (n - 1) + 1 = n /\ n - 1 \in 1..Len(Outer)
    BY <1>2, <1>5, EmptySeq
  <2>3. f = frames[n - 1] /\ f = Outer[Len(Outer)]
    BY <1>2, <2>2 DEF Top
  <2>4. f \in Frame /\ FrameSound(f)
    BY <1>2, <2>1, <2>2, ElementOfSeq DEF StackSound, Top
  <2>5. Innermost.limit <= f.gas /\ Reach(Innermost.out) <= f.words
    BY <1>1, <2>2, <2>3 DEF StackSound, Linked, Top
  <2>6. overdrawn = "no" => Pays(f, Innermost.before)
    BY <2>1, <1>5 DEF StackSound, Accounted, Top
  <2>7. /\ Resume(Below(Outer), f, Innermost.create, Innermost.out, gasUsed,
                  returned, "contract")
        /\ used' = used
    BY <1>5, <2>3 DEF Answer, Below
  <2> HIDE DEF f, n
  <2>8. /\ f.gas \in Nat /\ f.before \in Nat /\ f.limit \in Nat
        /\ Charged(f, gasUsed).gas = f.gas - gasUsed
        /\ Charged(f, gasUsed).before = f.before
        /\ Charged(f, gasUsed).limit = f.limit
    BY <2>4 DEF Frame, Charged
  <2>9. ASSUME overdrawn = "no" PROVE Pays(Charged(f, gasUsed), work')
    <3>2. Innermost.before <= f.before + f.limit - f.gas
      BY <2>6, <2>9 DEF Pays
    <3>3. work' <= Innermost.before + gasUsed
      BY <2>9
    <3>4. work' <= f.before + f.limit - (f.gas - gasUsed)
      BY <1>3, <2>8, <3>2, <3>3, AnsweredIsPaid
    <3> QED
      BY <2>8, <3>4 DEF Pays
  <2>10. gasUsed <= f.gas
    BY <1>3, <2>5, <2>8
  <2>11. /\ StackSound(frames', work', overdrawn')
         /\ frames' # <<>> /\ frames' \in Seq(Frame)
         /\ trapped' \in BOOLEAN
         /\ overdrawn' \in {"no", "new_precompile"}
    <3>1. f = Top(Outer)
      BY DEF f
    <3> QED
      BY <1>1, <1>3, <1>5, <2>1, <2>4, <2>5, <2>7, <2>9, <2>10, <3>1, ResumeSound
  <2> QED
    BY <1>1, <2>7, <2>11 DEF IInv, TypeOK
<1> QED
  BY <1>4, <1>5

\* The running frame goes on as f and gets an answer at once.
LEMMA AnswerAtOnceSound ==
  ASSUME IInv, Running, NEW f, Continues(Innermost, f), f.gas >= 0,
         NEW create \in BOOLEAN, NEW out \in Region, Reach(out) <= f.words,
         NEW gasUsed \in Nat, NEW done \in Nat, done <= gasUsed,
         NEW returned \in Nat, NEW callee,
         gasUsed <= f.gas \/ callee = "new_precompile",
         AnswerAtOnce(f, create, out, gasUsed, done, returned, callee)
  PROVE  IInv'
<1>1. /\ Innermost \in Frame
      /\ Innermost = Top(frames) /\ Outer = Below(frames)
      /\ work \in Nat /\ frames # <<>>
      /\ StackSound(frames, work, overdrawn)
      /\ overdrawn = "no" => Pays(Innermost, work)
      /\ used \in Nat /\ overdrawn \in {"no", "new_precompile"}
  BY RunningFrame DEF Running, IInv, TypeOK
<1>2. /\ f \in Frame /\ FrameSound(f) /\ f.gas <= Innermost.gas
      /\ f.limit = Top(frames).limit /\ f.before = Top(frames).before
      /\ f.out = Top(frames).out
      /\ f.limit = Innermost.limit /\ f.before = Innermost.before
  BY <1>1, DraftOfFrame DEF Continues
<1>3. /\ Resume(Below(frames), f, create, out, gasUsed, returned, callee)
      /\ work' = work + Innermost.gas - f.gas + done
      /\ used' = used
  BY <1>1 DEF AnswerAtOnce, WorkAfter
<1>4. /\ f.gas \in Nat /\ f.before \in Nat /\ f.limit \in Nat
      /\ Innermost.gas \in Nat
      /\ Charged(f, gasUsed).gas = f.gas - gasUsed
      /\ Charged(f, gasUsed).before = f.before
      /\ Charged(f, gasUsed).limit = f.limit
  BY <1>1, <1>2 DEF Frame, Charged
<1>5. work' \in Nat
  <2>1. work + Innermost.gas - f.gas \in Nat
    BY <1>1, <1>2, <1>4, SpentIsPaid
  <2> QED
    BY <1>3, <2>1
<1>6. ASSUME overdrawn = "no" PROVE Pays(Charged(f, gasUsed), work')
  <2>1. work <= f.before + f.limit - Innermost.gas
    BY <1>1, <1>2, <1>6 DEF Pays
  <2>2. work' <= f.before + f.limit - (f.gas - gasUsed)
    <3>1. /\ work \in Nat /\ Innermost.gas \in Nat /\ f.gas \in Nat
          /\ f.before \in Nat /\ f.limit \in Nat
      BY <1>1, <1>4
    <3>2. /\ work + Innermost.gas - f.gas \in Nat
          /\ work + Innermost.gas - f.gas <= f.before + f.limit - f.gas
      BY <1>2, <2>1, <3>1, SpentIsPaid
    <3> DEFINE total == work + Innermost.gas - f.gas
    <3> HIDE DEF total
    <3>3. total + done <= f.before + f.limit - (f.gas - gasUsed)
      BY <3>1, <3>2 DEF total
    <3> QED
      BY <1>3, <3>3 DEF total
  <2> QED
    BY <1>4, <2>2 DEF Pays
<1>7. /\ StackSound(frames', work', overdrawn')
      /\ frames' # <<>> /\ frames' \in Seq(Frame)
      /\ trapped' \in BOOLEAN
      /\ overdrawn' \in {"no", "new_precompile"}
  BY <1>1, <1>2, <1>3, <1>6, ResumeSound
<1> QED
  BY <1>1, <1>3, <1>5, <1>7 DEF IInv, TypeOK

\* The frame of a message that is entered.
Fresh(create, out, limit, done) ==
  [create |-> create, out |-> out, limit |-> limit, gas |-> limit,
   words |-> 0, paid |-> 0, memory |-> 0, before |-> done]

\* It has all of its gas, and no memory.
LEMMA FreshFrame ==
  ASSUME NEW create \in BOOLEAN, NEW out \in Region, NEW limit \in Nat, NEW done \in Nat
  PROVE  /\ Fresh(create, out, limit, done) \in Frame
         /\ FrameSound(Fresh(create, out, limit, done))
         /\ Fresh(create, out, limit, done).gas = limit
         /\ Fresh(create, out, limit, done).limit = limit
         /\ Fresh(create, out, limit, done).before = done
         /\ Fresh(create, out, limit, done).out = out
<1> DEFINE g == Fresh(create, out, limit, done)
<1>1. MemoryCost(0) = 0
  BY DEF MemoryCost
<1>2. g \in Frame
  BY DEF Frame, Fresh
<1>3. /\ g.gas = limit /\ g.limit = limit /\ g.before = done /\ g.out = out
      /\ g.words = 0 /\ g.paid = 0 /\ g.memory = 0
  BY DEF Fresh
<1> HIDE DEF g
<1>4. FrameSound(g)
  BY <1>1, <1>3 DEF FrameSound
<1> QED
  BY <1>2, <1>3, <1>4 DEF g

\* The running frame goes on as f and enters a message it can pay for.
LEMMA SendSound ==
  ASSUME IInv, Running, NEW f, Continues(Innermost, f), f.gas >= 0,
         NEW create \in BOOLEAN, NEW out \in Region, Reach(out) <= f.words,
         NEW limit \in Nat, limit <= f.gas,
         Send(f, create, out, limit)
  PROVE  IInv'
<1>1. /\ Innermost \in Frame
      /\ Innermost = Top(frames) /\ Outer = Below(frames)
      /\ work \in Nat /\ frames # <<>> /\ frames \in Seq(Frame)
      /\ StackSound(frames, work, overdrawn)
      /\ overdrawn = "no" => Pays(Innermost, work)
  BY RunningFrame DEF Running
<1>2. /\ f \in Frame /\ FrameSound(f) /\ f.gas <= Innermost.gas
      /\ f.limit = Top(frames).limit /\ f.before = Top(frames).before
      /\ f.out = Top(frames).out
      /\ f.limit = Innermost.limit /\ f.before = Innermost.before
  BY <1>1, DraftOfFrame DEF Continues
<1>3. /\ frames' = Pushed(Append(Below(frames), f), create, out, limit, work')
      /\ work' = work + Innermost.gas - f.gas
      /\ trapped' = trapped /\ used' = used /\ overdrawn' = overdrawn
  BY <1>1 DEF Send, WorkAfter
<1>4. /\ f.gas \in Nat /\ f.before \in Nat /\ f.limit \in Nat
      /\ Innermost.gas \in Nat
  BY <1>1, <1>2 DEF Frame
<1>5. /\ work' \in Nat
      /\ work <= f.before + f.limit - Innermost.gas => work' <= f.before + f.limit - f.gas
  BY <1>1, <1>2, <1>3, <1>4, SpentIsPaid
<1>6. ASSUME overdrawn = "no" PROVE Pays(f, work')
  <2>1. work <= f.before + f.limit - Innermost.gas
    BY <1>1, <1>2, <1>6 DEF Pays
  <2> QED
    BY <1>5, <2>1 DEF Pays
<1> DEFINE st == Append(Below(frames), f)
<1>7. StackSound(st, work', overdrawn)
  <2>1. overdrawn = "no" => overdrawn = "no" /\ Pays(f, work')
    BY <1>6
  <2> QED
    BY <1>1, <1>2, <2>1, GoesOnSound
<1>8. st \in Seq(Frame) /\ st # <<>> /\ Top(st) = f
  BY <1>1, <1>2, TopReplaced DEF Top
<1> HIDE DEF st
<1> DEFINE g == Fresh(create, out, limit, work')
<1>9. /\ frames' = Append(st, g)
      /\ g \in Frame /\ FrameSound(g)
      /\ g.gas = g.limit /\ g.limit = limit /\ g.before = work' /\ g.out = out
  <2>1. frames' = Append(st, g)
    BY <1>3, Zenon DEF Pushed, Fresh, st
  <2>2. /\ g \in Frame /\ FrameSound(g)
        /\ g.gas = limit /\ g.limit = limit /\ g.before = work' /\ g.out = out
    <3> DEFINE done == work'
    <3>1. done \in Nat
      BY <1>5
    <3> HIDE DEF done
    <3>2. /\ Fresh(create, out, limit, done) \in Frame
          /\ FrameSound(Fresh(create, out, limit, done))
          /\ Fresh(create, out, limit, done).gas = limit
          /\ Fresh(create, out, limit, done).limit = limit
          /\ Fresh(create, out, limit, done).before = done
          /\ Fresh(create, out, limit, done).out = out
      BY <3>1, FreshFrame
    <3> QED
      BY <3>2, Zenon DEF done
  <2> QED
    BY <2>1, <2>2
<1> HIDE DEF g
<1>10. Linked(Top(st), g)
  BY <1>8, <1>9 DEF Linked
<1>11. StackSound(frames', work', overdrawn')
  <2>1. StackSound(Append(st, g), work', overdrawn)
    BY <1>5, <1>7, <1>8, <1>9, <1>10, PushSound, Zenon
  <2> QED
    BY <1>3, <1>9, <2>1
<1>12. frames' \in Seq(Frame) /\ frames' # <<>>
  BY <1>8, <1>9, AppendProperties
<1> QED
  BY <1>3, <1>5, <1>11, <1>12 DEF IInv, TypeOK
-----------------------------------------------------------------------------
(* Actions.                                                                *)

\* An outermost message begins (executeMessage).
LEMMA BeginSound ==
  ASSUME IInv, NEW limit \in GasLimit, Begin(limit)
  PROVE  IInv'
<1> DEFINE g == Fresh(FALSE, NoRegion, limit, 0)
<1>1. /\ frames' = Append(<<>>, g)
      /\ work' = 0 /\ used' = 0 /\ overdrawn' = "no" /\ trapped' = trapped
  BY DEF Begin, Pushed, Fresh
<1>2. limit \in Nat /\ FALSE \in BOOLEAN /\ NoRegion \in Region /\ 0 \in Nat
  OBVIOUS
<1>3. /\ g \in Frame /\ FrameSound(g)
      /\ g.gas = limit /\ g.limit = limit /\ g.before = 0
  <2> PICK create \in BOOLEAN : create = FALSE
    OBVIOUS
  <2>1. /\ Fresh(create, NoRegion, limit, 0) \in Frame
        /\ FrameSound(Fresh(create, NoRegion, limit, 0))
        /\ Fresh(create, NoRegion, limit, 0).gas = limit
        /\ Fresh(create, NoRegion, limit, 0).limit = limit
        /\ Fresh(create, NoRegion, limit, 0).before = 0
    BY <1>2, FreshFrame
  <2> QED
    BY <2>1, Zenon
<1> HIDE DEF g
<1> DEFINE st == Append(<<>>, g)
<1>4. st \in Seq(Frame) /\ st # <<>> /\ Len(st) = 1 /\ st[1] = g
  BY <1>3
<1> HIDE DEF st
<1>5. Accounted(st, 0)
  BY <1>2, <1>3, <1>4 DEF Accounted, Pays
<1>6. StackSound(st, 0, "no")
  BY <1>3, <1>4, <1>5 DEF StackSound
<1> QED
  BY <1>1, <1>4, <1>6 DEF IInv, TypeOK, st

\* An opcode that reads memory, or none.
LEMMA ReadSound ==
  ASSUME IInv, NEW fee \in OpFee, NEW region \in Region, Read(fee, region)
  PROVE  IInv'
<1> DEFINE grown == Grown(Innermost, region)
           throws == region.length > 0 /\ Inexact(region)
<1>1. Running /\ GoOn(Charged(grown, fee), throws)
  BY DEF Read
<1>2. Innermost \in Draft /\ FrameSound(Innermost)
  BY <1>1, RunningFrame DEF Running
<1>3. Continues(Innermost, grown)
  BY <1>2, GrownContinues
<1>4. Continues(Innermost, Charged(grown, fee))
  <2> HIDE DEF grown
  <2>1. grown \in Draft /\ FrameSound(grown) /\ fee \in Nat
    BY <1>3 DEF Continues
  <2>2. Continues(grown, Charged(grown, fee))
    BY <2>1, ChargedContinues
  <2> QED
    BY <1>2, <1>3, <2>2, ContinuesTransitive
<1>5. throws \in BOOLEAN
  OBVIOUS
<1> HIDE DEF grown, throws
<1> QED
  BY <1>1, <1>4, <1>5, GoOnSound

\* An opcode that writes memory.
LEMMA WriteSound ==
  ASSUME IInv, NEW fee \in OpFee, NEW region \in Region, Write(fee, region)
  PROVE  IInv'
<1> DEFINE grown == Grown(Innermost, region)
           charged == Charged(grown, fee)
           throws == Inexact(region)
<1>1. Running /\ GoOn(Extended(charged, region), throws)
  BY DEF Write
<1>2. Innermost \in Draft /\ FrameSound(Innermost)
  BY <1>1, RunningFrame DEF Running
<1>3. Continues(Innermost, grown) /\ Reach(region) <= grown.words
  BY <1>2, GrownContinues
<1>4. Continues(Innermost, charged) /\ Reach(region) <= charged.words
  <2> HIDE DEF grown
  <2>1. grown \in Draft /\ FrameSound(grown) /\ fee \in Nat
    BY <1>3 DEF Continues
  <2>2. Continues(grown, charged) /\ charged.words = grown.words
    BY <2>1, ChargedContinues
  <2> QED
    BY <1>2, <1>3, <2>2, ContinuesTransitive
<1> HIDE DEF charged
<1>5. Continues(Innermost, Extended(charged, region))
  <2>1. charged \in Draft /\ FrameSound(charged)
        /\ region \in [offset : Nat, length : Nat]
    BY <1>4 DEF Continues
  <2>2. Continues(charged, Extended(charged, region))
    BY <1>4, <2>1, ExtendedContinues
  <2> QED
    BY <1>2, <1>4, <2>2, ContinuesTransitive
<1>6. throws \in BOOLEAN
  BY DEF Inexact
<1> HIDE DEF throws
<1> QED
  BY <1>1, <1>5, <1>6, GoOnSound

\* An exception ends a message.
LEMMA FailSound ==
  ASSUME IInv, Fail
  PROVE  IInv'
<1>1. frames # <<>> /\ Answer(Innermost.limit, 0) /\ work' = work
  BY DEF Fail
<1>2. /\ Innermost \in Frame /\ FrameSound(Innermost) /\ work \in Nat
      /\ overdrawn = "no" => Pays(Innermost, work)
  BY <1>1, RunningFrame
<1>3. Innermost.limit \in Nat /\ Innermost.gas \in Nat /\ Innermost.before \in Nat
  BY <1>2 DEF Frame
<1>4. overdrawn = "no" => work' <= Innermost.before + Innermost.limit
  BY <1>1, <1>2, <1>3 DEF Pays
<1> QED
  BY <1>1, <1>2, <1>3, <1>4, AnswerSound

\* A message returns, or reverts; a creation pays for its code.
LEMMA EndSound ==
  ASSUME IInv, NEW region \in Region, NEW reverts \in BOOLEAN, NEW tooLong \in BOOLEAN,
         End(region, reverts, tooLong)
  PROVE  IInv'
<1> DEFINE f == Grown(Innermost, region)
           deposit == When(Innermost.create /\ ~reverts, CreateData * region.length)
           total == f.limit - f.gas + deposit
<1>1. Running /\ frames # <<>>
  BY DEF End, Running
<1>2. /\ Innermost \in Frame /\ Innermost \in Draft /\ FrameSound(Innermost)
      /\ work \in Nat
      /\ overdrawn = "no" => Pays(Innermost, work)
  BY <1>1, RunningFrame
<1>3. Continues(Innermost, f)
  BY <1>2, GrownContinues
<1>4. deposit \in Nat /\ (~Innermost.create => deposit = 0) /\ region.length \in Nat
  <2>1. region.length \in Nat
    OBVIOUS
  <2>2. CreateData * region.length \in Nat
    BY <2>1, ProductType
  <2> QED
    BY <2>1, <2>2 DEF When
<1>5. CASE Trap
  BY <1>5 DEF Trap, IInv, TypeOK
<1>6. CASE f.gas >= 0 /\ Answer(f.limit, 0) /\ work' = WorkAfter(f)
  <2> HIDE DEF f
  <2>1. /\ f.limit = Innermost.limit /\ f.gas <= Innermost.gas /\ f.gas \in Nat
    BY <1>3, <1>6 DEF Continues, Draft
  <2>2. /\ Innermost.limit \in Nat /\ Innermost.gas \in Nat /\ Innermost.before \in Nat
    BY <1>2 DEF Frame
  <2>3. work' = work + Innermost.gas - f.gas
    BY <1>6 DEF WorkAfter
  <2>4. work' \in Nat
    BY <1>2, <2>1, <2>2, <2>3
  <2>5. overdrawn = "no" => work' <= Innermost.before + Innermost.limit
    BY <1>2, <2>1, <2>2, <2>3 DEF Pays
  <2> QED
    BY <1>1, <1>6, <2>1, <2>2, <2>4, <2>5, AnswerSound
<1>7. CASE /\ f.gas >= 0
           /\ ~(f.create /\ (total > f.limit \/ tooLong))
           /\ Answer(total, region.length)
           /\ work' = WorkAfter(f) + deposit
  <2> HIDE DEF f, deposit
  <2>1. /\ f.limit = Innermost.limit /\ f.gas <= Innermost.gas /\ f.gas \in Nat
        /\ f.create = Innermost.create /\ f.gas <= f.limit
    BY <1>3, <1>7 DEF Continues, Draft, FrameSound
  <2>2. /\ Innermost.limit \in Nat /\ Innermost.gas \in Nat /\ Innermost.before \in Nat
    BY <1>2 DEF Frame
  <2>3. total \in Nat /\ total <= Innermost.limit
    BY <1>4, <1>7, <2>1, <2>2
  <2>4. work' = work + Innermost.gas - f.gas + deposit
    BY <1>7 DEF WorkAfter
  <2>5. work' \in Nat
    BY <1>2, <1>4, <2>1, <2>2, <2>4
  <2>6. overdrawn = "no" => work' <= Innermost.before + total
    BY <1>2, <1>4, <2>1, <2>2, <2>4 DEF Pays
  <2> HIDE DEF total
  <2> QED
    BY <1>1, <1>4, <1>7, <2>3, <2>5, <2>6, AnswerSound
<1>8. f.gas \in Int
  BY <1>3 DEF Continues, Draft
<1> QED
  BY <1>5, <1>6, <1>7, <1>8 DEF End

\* What a call may cost is paid for before its gas limit is set, and the stipend
\* is less than what giving ether costs.
LEMMA CallSound ==
  ASSUME IInv, NEW c \in CallArguments, Call(c)
  PROVE  IInv'
<1> DEFINE once == Grown(Innermost, c.in)
           grown == Grown(once, c.out)
           base == CallFee + When(c.value, ValueFee)
           stipend == When(c.value, Stipend)
           forNew == When(c.new, NewAccountFee)
           allowed == MaxCallGas(c.request, Charged(grown, base).gas)
           afterNew == Charged(Charged(grown, base), forNew)
           f == [afterNew EXCEPT !.gas = @ + stipend]
           callee == IF c.new THEN "new_precompile" ELSE "precompile"
<1>1. Running
  BY DEF Call
<1>2. Innermost \in Draft /\ FrameSound(Innermost)
  BY <1>1, RunningFrame DEF Running
<1>3. /\ c.in \in Region /\ c.out \in Region /\ c.request \in Nat
      /\ c.value \in BOOLEAN /\ c.new \in BOOLEAN
      /\ c.new => c.value
  BY DEF CallArguments
<1>4. Continues(Innermost, grown) /\ Reach(c.out) <= grown.words
  <2>1. Continues(Innermost, once)
    BY <1>2, <1>3, GrownContinues
  <2> HIDE DEF once
  <2>2. Continues(once, grown) /\ Reach(c.out) <= grown.words
    <3>1. once \in Draft /\ FrameSound(once)
      BY <2>1 DEF Continues
    <3> QED
      BY <1>3, <3>1, GrownContinues
  <2> HIDE DEF grown
  <2> QED
    BY <1>2, <2>1, <2>2, ContinuesTransitive
<1>5. grown \in Draft /\ FrameSound(grown)
  BY <1>4 DEF Continues
<1> HIDE DEF grown
<1>6. /\ base \in Nat /\ stipend \in Nat /\ forNew \in Nat
      /\ stipend <= base /\ (~c.new => forNew = 0)
  BY <1>3 DEF When
<1> HIDE DEF base, stipend, forNew
<1>7. /\ Charged(grown, base).gas = grown.gas - base /\ grown.gas \in Int
      /\ afterNew.gas = grown.gas - base - forNew
      /\ f = Charged(grown, base + forNew - stipend)
      /\ f.gas = grown.gas - base - forNew + stipend
  <2> DEFINE charged == Charged(grown, base)
  <2>0. base \in Int /\ forNew \in Int
    BY <1>6
  <2>1. charged \in Draft /\ charged.gas = grown.gas - base /\ grown.gas \in Int
    BY <1>5, <2>0, ChargedFields, Zenon
  <2>2. afterNew \in Draft /\ afterNew = Charged(grown, base + forNew)
    BY <1>5, <2>0, <2>1, ChargedFields, ChargedTwice, Zenon
  <2> HIDE DEF charged, afterNew
  <2>3. f = Charged(grown, base + forNew + (-stipend))
    <3>1. -stipend \in Int /\ base + forNew \in Int
      BY <1>6
    <3>2. f = Charged(afterNew, -stipend)
      BY <1>6, <2>2, GivenIsCharged
    <3> HIDE DEF f
    <3> QED
      BY <1>5, <2>2, <3>1, <3>2, ChargedTwice
  <2>4. /\ base + forNew + (-stipend) = base + forNew - stipend
        /\ base + forNew \in Int /\ base + forNew - stipend \in Int
    BY <1>6
  <2>5. /\ Charged(grown, base + forNew).gas = grown.gas - (base + forNew)
        /\ Charged(grown, base + forNew - stipend).gas = grown.gas - (base + forNew - stipend)
    BY <1>5, <2>4, ChargedFields
  <2>6. /\ grown.gas - (base + forNew - stipend) = grown.gas - base - forNew + stipend
        /\ grown.gas - (base + forNew) = grown.gas - base - forNew
    BY <1>6, <2>1
  <2> HIDE DEF f
  <2> QED
    BY <2>1, <2>2, <2>3, <2>4, <2>5, <2>6 DEF charged
<1>8. Call(c) => \/ Trap
                 \/ /\ ~(afterNew.gas < 0)
                    /\ \/ \E returned \in Returned :
                            AnswerAtOnce(f, FALSE, c.out, 0, 0, returned, "no_code")
                       \/ \E cost \in 0..(allowed + stipend), returned \in Returned :
                            AnswerAtOnce(f, FALSE, c.out, cost, cost, returned, callee)
                       \/ AnswerAtOnce(f, FALSE, c.out, allowed + stipend, 0, 0, callee)
                       \/ ~c.new /\ Send(f, FALSE, c.out, allowed + stipend)
  BY Zenon DEF Call, CallCharged, grown, base, stipend, forNew
<1> DEFINE fee == base + forNew - stipend
<1>9. CASE Trap
  BY <1>9 DEF Trap, IInv, TypeOK
<1>10. CASE ~(afterNew.gas < 0)
  <2>0. afterNew.gas >= 0
    BY <1>6, <1>7, <1>10
  <2>1. Continues(Innermost, f) /\ f.gas >= 0 /\ f.gas \in Nat /\ Reach(c.out) <= f.words
    <3>1. fee \in Nat
      BY <1>6
    <3> HIDE DEF fee
    <3>2. Continues(grown, Charged(grown, fee)) /\ Charged(grown, fee).words = grown.words
      BY <1>5, <3>1, ChargedContinues
    <3>3. f = Charged(grown, fee)
      BY <1>7 DEF fee
    <3>4. f.gas >= 0 /\ f.gas \in Nat
      BY <1>6, <1>7, <2>0
    <3> HIDE DEF f
    <3> QED
      BY <1>2, <1>4, <3>2, <3>3, <3>4, ContinuesTransitive
  <2>2. allowed \in Nat /\ allowed <= grown.gas - base
    <3>1. Charged(grown, base).gas \in Nat
      BY <1>6, <1>7, <2>0
    <3> QED
      BY <1>3, <1>7, <3>1, CallGasBounded
  <2>3. /\ allowed + stipend \in Nat
        /\ ~c.new => allowed + stipend <= f.gas
    BY <1>6, <1>7, <2>2
  <2>4. allowed + stipend <= f.gas \/ callee = "new_precompile"
    BY <2>3
  <2> DEFINE limit == allowed + stipend
  <2> HIDE DEF f, callee, limit, afterNew
  <2>5. /\ limit \in Nat /\ (~c.new => limit <= f.gas)
        /\ limit <= f.gas \/ callee = "new_precompile"
    BY <2>3, <2>4 DEF limit
  <2>6. FALSE \in BOOLEAN /\ 0 \in Nat /\ 0 <= 0 /\ 0 <= f.gas
    BY <2>1
  <2>7. ASSUME NEW returned \in Returned,
               AnswerAtOnce(f, FALSE, c.out, 0, 0, returned, "no_code")
        PROVE  IInv'
    <3>1. returned \in Nat
      BY DEF Returned
    <3> QED
      BY <1>1, <1>3, <2>1, <2>6, <2>7, <3>1, AnswerAtOnceSound, Zenon
  <2>8. ASSUME NEW cost \in 0..limit, NEW returned \in Returned,
               AnswerAtOnce(f, FALSE, c.out, cost, cost, returned, callee)
        PROVE  IInv'
    <3>1. /\ returned \in Nat /\ cost \in Nat /\ cost <= cost
          /\ cost <= f.gas \/ callee = "new_precompile"
      BY <2>1, <2>5 DEF Returned
    <3> QED
      BY <1>1, <1>3, <2>1, <2>6, <2>8, <3>1, AnswerAtOnceSound, Zenon
  <2>9. ASSUME AnswerAtOnce(f, FALSE, c.out, limit, 0, 0, callee)
        PROVE  IInv'
    <3>1. 0 <= limit
      BY <2>5
    <3> QED
      BY <1>1, <1>3, <2>1, <2>5, <2>6, <2>9, <3>1, AnswerAtOnceSound, Zenon
  <2>10. ASSUME ~c.new, Send(f, FALSE, c.out, limit)
         PROVE  IInv'
    BY <1>1, <1>3, <2>1, <2>5, <2>6, <2>10, SendSound, Zenon
  <2> QED
    BY <1>8, <1>9, <2>7, <2>8, <2>9, <2>10, Zenon DEF limit
<1> QED
  BY <1>8, <1>9, <1>10

\* CREATE and CREATE2.
LEMMA CreateSound ==
  ASSUME IInv, NEW region \in Region, NEW hashing \in OpFee \union {0},
         Create(region, hashing)
  PROVE  IInv'
<1> DEFINE grown == Grown(Innermost, region)
           fee == CreateFee + hashing
           f == Charged(grown, fee)
           limit == MaxCallGas(f.gas, f.gas)
<1>1. Running
  BY DEF Create
<1>2. Innermost \in Draft /\ FrameSound(Innermost)
  BY <1>1, RunningFrame DEF Running
<1>3. Continues(Innermost, f) /\ f.gas \in Int
  <2>1. Continues(Innermost, grown)
    BY <1>2, GrownContinues
  <2>2. fee \in Nat
    OBVIOUS
  <2> HIDE DEF grown, fee
  <2>3. Continues(grown, f)
    BY <2>1, <2>2, ChargedContinues DEF Continues
  <2> HIDE DEF f
  <2> QED
    BY <1>2, <2>1, <2>3, ContinuesTransitive DEF Continues, Draft
<1>4. \/ Trap
      \/ /\ ~(f.gas < 0)
         /\ \/ AnswerAtOnce(f, TRUE, NoRegion, 0, 0, 0, "no_code")
            \/ AnswerAtOnce(f, TRUE, NoRegion, limit, 0, 0, "collision")
            \/ Send(f, TRUE, NoRegion, limit)
  BY Zenon DEF Create
<1>5. CASE Trap
  BY <1>5 DEF Trap, IInv, TypeOK
<1>6. CASE ~(f.gas < 0)
  <2> HIDE DEF f
  <2>0. f.gas >= 0 /\ f.gas \in Nat
    BY <1>3, <1>6
  <2>1. limit \in Nat /\ limit <= f.gas
    BY <2>0, CallGasBounded
  <2>2. NoRegion \in Region /\ Reach(NoRegion) <= f.words
    BY <1>3 DEF Reach, NoRegion, Continues, Draft
  <2>3. TRUE \in BOOLEAN /\ 0 \in Nat /\ 0 <= 0 /\ 0 <= f.gas /\ 0 <= limit
    BY <2>0, <2>1
  <2> HIDE DEF limit
  <2>4. ASSUME AnswerAtOnce(f, TRUE, NoRegion, 0, 0, 0, "no_code") PROVE IInv'
    BY <1>1, <1>3, <2>0, <2>2, <2>3, <2>4, AnswerAtOnceSound, Zenon
  <2>5. ASSUME AnswerAtOnce(f, TRUE, NoRegion, limit, 0, 0, "collision") PROVE IInv'
    BY <1>1, <1>3, <2>0, <2>1, <2>2, <2>3, <2>5, AnswerAtOnceSound, Zenon
  <2>6. ASSUME Send(f, TRUE, NoRegion, limit) PROVE IInv'
    BY <1>1, <1>3, <2>0, <2>1, <2>2, <2>3, <2>6, SendSound, Zenon
  <2> QED
    BY <1>4, <1>5, <2>4, <2>5, <2>6, Zenon
<1> QED
  BY <1>4, <1>5, <1>6
-----------------------------------------------------------------------------
(* Theorems.                                                               *)

\* What holds of a step: it keeps the invariant.
LEMMA StepSound ==
  ASSUME IInv, [Next]_vars
  PROVE  IInv'
<1>1. ASSUME NEW fee \in OpFee, NEW region \in Region, Read(fee, region) PROVE IInv'
  BY <1>1, ReadSound
<1>2. ASSUME NEW fee \in OpFee, NEW region \in Region, Write(fee, region) PROVE IInv'
  BY <1>2, WriteSound
<1>3. ASSUME NEW region \in Region, NEW reverts \in BOOLEAN, NEW tooLong \in BOOLEAN,
             End(region, reverts, tooLong)
      PROVE  IInv'
  BY <1>3, EndSound
<1>4. ASSUME NEW c \in CallArguments, Call(c) PROVE IInv'
  BY <1>4, CallSound
<1>5. ASSUME NEW region \in Region, NEW hashing \in OpFee \union {0},
             Create(region, hashing)
      PROVE  IInv'
  BY <1>5, CreateSound
<1>6. CASE Fail
  BY <1>6, FailSound
<1>7. ASSUME NEW limit \in GasLimit, Begin(limit) PROVE IInv'
  BY <1>7, BeginSound
<1>8. CASE UNCHANGED vars
  BY <1>8 DEF vars, IInv, TypeOK
<1> QED
  BY <1>1, <1>2, <1>3, <1>4, <1>5, <1>6, <1>7, <1>8 DEF Next, Step

\* The stack of messages is sound in every state: each one's memory is paid for,
\* its caller has what it may be charged, and what was done is accounted for
\* (evm.ts, eei.ts, opFns.ts).
THEOREM Invariance == Spec => []IInv
<1>1. Init => IInv
  <2> SUFFICES ASSUME Init PROVE IInv
    OBVIOUS
  <2>1. <<>> \in Seq(Frame) /\ Len(<<>>) = 0
    BY EmptySeq
  <2>2. StackSound(frames, work, overdrawn)
    BY <2>1 DEF Init, StackSound, Accounted
  <2>3. TypeOK
    BY <2>1 DEF Init, TypeOK
  <2>4. /\ overdrawn \in {"no", "new_precompile"}
        /\ frames = <<>> /\ overdrawn = "no" => work <= used
    BY DEF Init
  <2> QED
    BY <2>2, <2>3, <2>4, Zenon DEF IInv
<1>2. IInv /\ [Next]_vars => IInv'
  BY StepSound
<1> QED
  BY <1>1, <1>2, PTL DEF Spec

\* The gas left in a message is never below zero: a charge it cannot pay traps
\* before the message goes on (eei.ts useGas).
THEOREM Types == Spec => []TypeOK
<1>1. IInv => TypeOK
  BY DEF IInv
<1> QED
  BY <1>1, Invariance, PTL

\* Memory is never longer than what was paid for, and paid for once, for all
\* prices and all regions (memory.ts; opFns.ts subMemUsage, writeCallOutput).
THEOREM Memory == Spec => []MemoryIsPaid
<1>1. IInv => MemoryIsPaid
  BY DEF IInv, StackSound, FrameSound, MemoryIsPaid
<1> QED
  BY <1>1, Invariance, PTL

\* At any depth of calls, a caller has what its callee may be charged, and is
\* charged more only for a precompile that was an empty account (opFns.ts
\* maxCallGas, eei.ts _baseCall).
THEOREM Callees == Spec => []CalleeIsCovered
<1>1. IInv => CalleeIsCovered
  BY DEF IInv, StackSound, Linked, CalleeIsCovered
<1> QED
  BY <1>1, Invariance, PTL

\* At any depth of calls, the gas of the outermost message pays for all the work,
\* for all prices with a stipend that is not above what giving ether costs
\* (evm.ts, eei.ts).
THEOREM Work == Spec => []WorkIsPaid
<1>1. IInv => WorkIsPaid
  <2> SUFFICES ASSUME IInv, overdrawn = "no"
               PROVE  /\ frames = <<>> => work <= used
                      /\ frames # <<>> => work <= frames[1].limit
    BY DEF WorkIsPaid
  <2>1. frames = <<>> => work <= used
    BY DEF IInv
  <2>2. ASSUME frames # <<>> PROVE work <= frames[1].limit
    <3> DEFINE n == Len(frames)
    <3>1. /\ Innermost \in Frame /\ frames \in Seq(Frame) /\ work \in Nat
          /\ Pays(Innermost, work)
      BY <2>2, RunningFrame
    <3>2. n \in Nat \ {0}
      BY <2>2, <3>1, EmptySeq
    <3>3. frames[n].before + frames[n].limit <= frames[1].limit
      BY <3>2 DEF IInv, StackSound, Accounted
    <3>4. frames[1] \in Frame
      BY <3>1, <3>2, ElementOfSeq
    <3>5. Innermost.before + Innermost.limit <= frames[1].limit
      BY <3>3 DEF Innermost
    <3>6. /\ frames[1].limit \in Nat
          /\ Innermost.before \in Nat /\ Innermost.limit \in Nat /\ Innermost.gas \in Nat
      BY <3>1, <3>4 DEF Frame
    <3> QED
      BY <3>1, <3>5, <3>6 DEF Pays
  <2> QED
    BY <2>1, <2>2
<1> QED
  BY <1>1, Invariance, PTL

-----------------------------------------------------------------------------
(* Writes to storage.                                                      *)

HIDE ConstantsAssumption DEF ConstantsAssumption
USE SlotsAssumption
-----------------------------------------------------------------------------
\* The slots that were not zero in storage from and are in storage st, and the
\* refunds given for them under fork f.
Cleared(from, st) == {s \in Slot : from[s] # Zero /\ st[s] = Zero}
Owed(f, from, st) == Fee[f].clearRefund * Cardinality(Cleared(from, st))

\* What a message holds, or would bring back, covers what is owed.
RefundCovers ==
  Net =>
    /\ error = "none" => refund >= Owed(fork, start, storage)
    /\ \A i \in 1..Len(messages) :
         messages[i].refund >= Owed(fork, start, messages[i].storage)

\* A slot that was not read has the value of storage from in storage st.
ReadIfChanged(orig, from, st) == \A s \in Slot : orig[s] = Unread => st[s] = from[s]

\* OriginalIsStart, level by level.
OriginalsCached ==
  Net =>
    /\ \A s \in Slot : original[s] \in {start[s], Unread}
    /\ ReadIfChanged(original, start, storage)
    /\ \A i \in 1..Len(messages) : ReadIfChanged(original, start, messages[i].storage)

\* What each slot should have cost by now, and that gas paid, less the refund
\* counter, comes to that and a fee for each of n writes.
Costs(f, from, st) == [s \in Slot |-> NetCost(Fee[f], from[s], st[s])]
Balances(f, from, st, paid, back, n) ==
  paid - back = n * Fee[f].dirty + Total(Slot, Costs(f, from, st))

\* CostIsNet, level by level.
CostsBalance ==
  Net =>
    /\ error = "none" => Balances(fork, start, storage, spent, refund, writes)
    /\ \A i \in 1..Len(messages) :
         Balances(fork, start, messages[i].storage, messages[i].spent, messages[i].refund,
                  messages[i].writes)

IdleIsSound == messages = <<>> => error = "none"

SstoreInv ==
  /\ SstoreTypeOK
  /\ OriginalsCached
  /\ RefundCovers
  /\ CostsBalance
  /\ RefundSuffices
  /\ IdleIsSound
-----------------------------------------------------------------------------
(* Lemmas.                                                                 *)

LEMMA FeeType == ASSUME fork \in Fork PROVE Fee[fork] \in Prices
  OBVIOUS

\* What a write is charged is a natural number of each kind.
LEMMA ChargeType ==
  ASSUME SstoreTypeOK, NEW s \in Slot, NEW value \in Value
  PROVE  ChargeOf(s, value) \in [gas : Nat, given : Nat, taken : Nat]
<1>1. Fee[fork] \in Prices
  BY FeeType DEF SstoreTypeOK
<1> QED
  BY <1>1 DEF Prices, ChargeOf, NetCharge, PlainCharge, Charge, AmountIf

\* Without net metering nothing is taken back.
LEMMA PlainTakesNothing ==
  ASSUME NEW s \in Slot, NEW value \in Value, fork \notin NetMetered
  PROVE  ChargeOf(s, value).taken = 0
  BY DEF ChargeOf, PlainCharge, Charge

\* The slots cleared before and after a write differ at most in its slot.
LEMMA ClearedByWrite ==
  ASSUME SstoreTypeOK, NEW s \in Slot, NEW value \in Value
  PROVE  LET before == Cleared(start, storage)
             after == Cleared(start, [storage EXCEPT ![s] = value])
             rest == before \ {s}
         IN  /\ Cardinality(rest) \in Nat
             /\ Cardinality(before) = IF start[s] # Zero /\ storage[s] = Zero
                                      THEN Cardinality(rest) + 1 ELSE Cardinality(rest)
             /\ Cardinality(after) = IF start[s] # Zero /\ value = Zero
                                     THEN Cardinality(rest) + 1 ELSE Cardinality(rest)
<1> DEFINE before == Cleared(start, storage)
           after == Cleared(start, [storage EXCEPT ![s] = value])
           rest == before \ {s}
<1>1. IsFiniteSet(rest) /\ Cardinality(rest) \in Nat
  <2>1. rest \in SUBSET Slot
    BY DEF Cleared
  <2> QED
    BY <2>1, FS_Subset, FS_CardinalityType
<1>2. before = IF start[s] # Zero /\ storage[s] = Zero THEN rest \union {s} ELSE rest
  BY DEF Cleared
<1>3. after = IF start[s] # Zero /\ value = Zero THEN rest \union {s} ELSE rest
  BY DEF Cleared, SstoreTypeOK, Storage
<1>4. Cardinality(rest \union {s}) = Cardinality(rest) + 1
  BY <1>1, FS_AddElement
<1> HIDE DEF before, after, rest
<1>5. QED
  BY <1>1, <1>2, <1>3, <1>4 DEF before, after, rest

\* With net metering against the start, the counter covers a write, and covers
\* what is cleared after it.
LEMMA WriteIsCovered ==
  ASSUME SstoreTypeOK, OriginalsCached, Net, refund >= Owed(fork, start, storage),
         NEW s \in Slot, NEW value \in Value
  PROVE  LET charge == ChargeOf(s, value) IN
           /\ refund >= charge.taken
           /\ refund - charge.taken + charge.given
                >= Owed(fork, start, [storage EXCEPT ![s] = value])
<1> DEFINE charge == ChargeOf(s, value)
           Price == Fee[fork].clearRefund
           before == Cardinality(Cleared(start, storage))
           after == Cardinality(Cleared(start, [storage EXCEPT ![s] = value]))
           n == Cardinality(Cleared(start, storage) \ {s})
<1>1. Original(s) = start[s]
  BY DEF OriginalsCached, Original, ReadIfChanged, SstoreTypeOK
<1>2. Price \in Nat /\ refund \in Nat /\ charge.taken \in Nat /\ charge.given \in Nat
  BY FeeType, ChargeType DEF SstoreTypeOK, Prices
<1>3. n \in Nat
  BY ClearedByWrite
<1>4. before = IF start[s] # Zero /\ storage[s] = Zero THEN n + 1 ELSE n
  BY ClearedByWrite
<1>5. after = IF start[s] # Zero /\ value = Zero THEN n + 1 ELSE n
  BY ClearedByWrite
<1>6. charge = NetCharge(Fee[fork], start[s], storage[s], value)
  BY <1>1 DEF Net, ChargeOf
<1>7. charge.taken = IF start[s] # Zero /\ storage[s] = Zero /\ value # Zero
                     THEN Price ELSE 0
  BY <1>6 DEF NetCharge, Charge, AmountIf
<1>8. /\ start[s] # Zero /\ value = Zero /\ storage[s] # Zero => charge.given >= Price
      /\ charge.given >= 0
  <2>1. Fee[fork] \in Prices
    BY FeeType DEF SstoreTypeOK
  <2> QED
    BY <1>6, <2>1 DEF NetCharge, Charge, AmountIf, Prices
<1>9. Price * (n + 1) = Price * n + Price /\ Price * n >= 0
  BY <1>2, <1>3
<1>10. refund >= Price * before
  BY DEF Owed
<1>11. refund >= charge.taken /\ refund - charge.taken + charge.given >= Price * after
  <2> DEFINE owed == Price * n
  <2>1. owed \in Nat
    BY <1>2, <1>3
  <2>2. Price * before = IF start[s] # Zero /\ storage[s] = Zero THEN owed + Price ELSE owed
    BY <1>4, <1>9
  <2>3. Price * after = IF start[s] # Zero /\ value = Zero THEN owed + Price ELSE owed
    BY <1>5, <1>9
  <2> HIDE DEF owed, before, after, charge
  <2> QED
    BY <1>2, <1>7, <1>8, <1>10, <2>1, <2>2, <2>3
<1> QED
  BY <1>11 DEF Owed
-----------------------------------------------------------------------------
(* What writes cost.                                                       *)

LEMMA CostsType ==
  ASSUME fork \in Fork, NEW st
  PROVE  Costs(fork, start, st) \in [Slot -> Int]
<1>1. Fee[fork] \in Prices
  BY FeeType
<1> SUFFICES ASSUME NEW s \in Slot PROVE NetCost(Fee[fork], start[s], st[s]) \in Int
  BY DEF Costs
<1> QED
  BY <1>1 DEF Prices, NetCost, AmountIf

\* A storage that is as at the start should have cost nothing.
LEMMA NothingPaid ==
  ASSUME fork \in Fork, NEW from
  PROVE  Balances(fork, from, from, 0, 0, 0)
<1> DEFINE costs == Costs(fork, from, from)
<1>1. costs \in [Slot -> Nat] /\ \A s \in Slot : costs[s] = 0
  BY DEF Costs, NetCost
<1>2. Units(Slot, costs) = {}
  BY <1>1 DEF Units
<1> HIDE DEF costs
<1>3. Total(Slot, costs) = 0
  BY <1>1, <1>2, TotalIsUnits, FS_EmptySet
<1>4. Fee[fork].dirty \in Nat
  BY FeeType DEF Prices
<1> QED
  BY <1>3, <1>4 DEF Balances, costs

\* A write is charged the fee of a dirty one and the change of what its slot
\* should cost: every case of updateSstoreGas.
LEMMA ChargeIsChange ==
  ASSUME fork \in NetMetered, NEW orig, NEW current, NEW value,
         NEW charge, charge = NetCharge(Fee[fork], orig, current, value)
  PROVE  charge.gas + charge.taken - charge.given
           = Fee[fork].dirty + NetCost(Fee[fork], orig, value)
                             - NetCost(Fee[fork], orig, current)
<1> DEFINE fee == Fee[fork]
<1>1. fee \in Prices
  BY FeeType
<1>2. /\ fee.noop = fee.dirty
      /\ fee.init = fee.dirty + fee.initRefund
      /\ fee.clean = fee.dirty + fee.cleanRefund
  BY NetPrices
<1>3. /\ fee.dirty \in Nat /\ fee.initRefund \in Nat
      /\ fee.cleanRefund \in Nat /\ fee.clearRefund \in Nat
  BY <1>1 DEF Prices
<1> HIDE DEF fee
<1>4. CASE current = value
  BY <1>2, <1>3, <1>4 DEF NetCharge, Charge, NetCost, AmountIf, fee
<1>5. CASE current # value /\ orig = current
  BY <1>2, <1>3, <1>5 DEF NetCharge, Charge, NetCost, AmountIf, fee
<1>6. CASE current # value /\ orig # current
  BY <1>2, <1>3, <1>6 DEF NetCharge, Charge, NetCost, AmountIf, fee
<1> QED
  BY <1>4, <1>5, <1>6

LEMMA WriteBalances ==
  ASSUME SstoreTypeOK, OriginalsCached, Net, NEW s \in Slot, NEW value \in Value,
         NEW charge, charge = ChargeOf(s, value),
         Balances(fork, start, storage, spent, refund, writes)
  PROVE  Balances(fork, start, [storage EXCEPT ![s] = value],
                  spent + charge.gas, refund - charge.taken + charge.given, writes + 1)
<1> DEFINE st == [storage EXCEPT ![s] = value]
           before == Costs(fork, start, storage)
           after == Costs(fork, start, st)
           dirty == Fee[fork].dirty
<1>1. Original(s) = start[s]
  BY DEF OriginalsCached, Original, ReadIfChanged, SstoreTypeOK
<1>2. charge = NetCharge(Fee[fork], start[s], storage[s], value)
  BY <1>1 DEF Net, ChargeOf
<1>3. st[s] = value /\ \A x \in Slot \ {s} : st[x] = storage[x]
  BY DEF SstoreTypeOK, Storage
<1>4. /\ before[s] = NetCost(Fee[fork], start[s], storage[s])
      /\ after[s] = NetCost(Fee[fork], start[s], value)
      /\ \A x \in Slot \ {s} : before[x] = after[x]
  BY <1>3 DEF Costs
<1>5. before \in [Slot -> Int] /\ after \in [Slot -> Int]
  BY CostsType DEF SstoreTypeOK
<1>6. charge.gas + charge.taken - charge.given = dirty + after[s] - before[s]
  BY <1>2, <1>4, ChargeIsChange DEF Net
<1>7. /\ dirty \in Nat /\ spent \in Nat /\ refund \in Nat /\ writes \in Nat
      /\ charge.gas \in Nat /\ charge.taken \in Nat /\ charge.given \in Nat
  BY FeeType, ChargeType DEF SstoreTypeOK, Prices
<1>8. before[s] \in Int /\ after[s] \in Int
  BY <1>5
<1>9. spent - refund = writes * dirty + Total(Slot, before)
  BY DEF Balances
<1> HIDE DEF st, before, after, dirty
<1>10. /\ Total(Slot, before) \in Int
       /\ Total(Slot, after) = Total(Slot, before) + after[s] - before[s]
  BY <1>4, <1>5, DifferenceChanges
<1>11. (writes + 1) * dirty = writes * dirty + dirty /\ writes * dirty \in Nat
  BY <1>7
<1>12. (spent + charge.gas) - (refund - charge.taken + charge.given)
         = (writes + 1) * dirty + Total(Slot, after)
  <2> DEFINE product == writes * dirty
             whole == Total(Slot, before)
             gas == charge.gas
             taken == charge.taken
             given == charge.given
  <2> HIDE DEF product, whole, gas, taken, given
  <2>1. /\ (writes + 1) * dirty = product + dirty /\ product \in Nat /\ dirty \in Nat
        /\ Total(Slot, after) = whole + after[s] - before[s] /\ whole \in Int
        /\ gas + taken - given = dirty + after[s] - before[s]
        /\ spent - refund = product + whole
    BY <1>6, <1>7, <1>9, <1>10, <1>11 DEF product, whole, gas, taken, given
  <2>2. gas \in Nat /\ taken \in Nat /\ given \in Nat
    BY <1>7 DEF gas, taken, given
  <2>3. (spent + gas) - (refund - taken + given)
          = product + dirty + (whole + after[s] - before[s])
    BY <1>7, <1>8, <2>1, <2>2
  <2> QED
    BY <2>1, <2>3 DEF gas, taken, given
<1> QED
  BY ONLY Zenon, <1>12 DEF Balances, st, after, dirty
-----------------------------------------------------------------------------
(* Sequences of messages.                                                    *)

LEMMA AppendFrame ==
  ASSUME NEW F \in Seq(Message), NEW f \in Message
  PROVE  /\ Append(F, f) \in Seq(Message)
         /\ Len(Append(F, f)) = Len(F) + 1
         /\ Append(F, f) # <<>>
         /\ \A i \in 1..Len(F) + 1 :
              Append(F, f)[i] = IF i = Len(F) + 1 THEN f ELSE F[i]
  OBVIOUS

LEMMA PopFrame ==
  ASSUME messages \in Seq(Message), messages # <<>>
  PROVE  /\ OuterMessages \in Seq(Message)
         /\ Len(OuterMessages) = Len(messages) - 1
         /\ \A i \in 1..Len(OuterMessages) : i \in 1..Len(messages) /\ OuterMessages[i] = messages[i]
         /\ Len(messages) \in 1..Len(messages)
         /\ LastMessage \in Message
<1> DEFINE n == Len(messages)
<1>1. n \in Nat \ {0} /\ \A i \in 1..n : messages[i] \in Message
  BY EmptySeq, LenProperties
<1>2. LastMessage \in Message
  BY <1>1 DEF LastMessage
<1> HIDE DEF n
<1>3. n - 1 \in Int /\ \A i \in 1..(n - 1) : messages[i] \in Message
  BY <1>1
<1>4. /\ SubSeq(messages, 1, n - 1) \in Seq(Message)
      /\ Len(SubSeq(messages, 1, n - 1)) = IF 1 <= n - 1 THEN n - 1 - 1 + 1 ELSE 0
      /\ \A i \in 1..(n - 1 - 1 + 1) : SubSeq(messages, 1, n - 1)[i] = messages[1 + i - 1]
  BY <1>3, SubSeqProperties
<1>5. (IF 1 <= n - 1 THEN n - 1 - 1 + 1 ELSE 0) = n - 1
  BY <1>1
<1>6. OuterMessages = SubSeq(messages, 1, n - 1)
  BY DEF OuterMessages, n
<1>7. OuterMessages \in Seq(Message) /\ Len(OuterMessages) = n - 1
  BY <1>4, <1>5, <1>6, Zenon
<1>8. \A i \in 1..(n - 1) : OuterMessages[i] = messages[i]
  BY <1>1, <1>4, <1>6
<1>9. n \in 1..n /\ \A i \in 1..(n - 1) : i \in 1..n
  BY <1>1
<1> QED
  BY <1>2, <1>7, <1>8, <1>9 DEF n
-----------------------------------------------------------------------------
(* RefundTypes.                                                                  *)

LEMMA TypeInit == InitSstore => SstoreTypeOK
  BY DEF InitSstore, SstoreTypeOK, NothingRead, Storage

\* The three ways a write can end, apart from the rest of it.
LEMMA WriteEnds ==
  ASSUME NEW s \in Slot, NEW value \in Value, Sstore(s, value),
         NEW charge, charge = ChargeOf(s, value)
  PROVE  \/ /\ Exhausted(charge)
            /\ refund' = 0
            /\ error' = "refund exhausted"
            /\ UNCHANGED <<storage, spent, writes>>
         \/ /\ ~Exhausted(charge)
            /\ refund' = refund \/ refund' = refund - charge.taken + charge.given
            /\ error' = "out of gas"
            /\ UNCHANGED <<storage, spent, writes>>
         \/ /\ ~Exhausted(charge)
            /\ refund' = refund - charge.taken + charge.given
            /\ storage' = [storage EXCEPT ![s] = value]
            /\ spent' = spent + charge.gas
            /\ writes' = writes + 1
            /\ error' = error
  BY Zenon DEF Sstore

LEMMA WriteRest ==
  ASSUME NEW s \in Slot, NEW value \in Value, Sstore(s, value)
  PROVE  /\ Writing
         /\ count' = count + 1
         /\ UNCHANGED <<fork, messages, start, regular>>
         /\ original' = IF fork \in NetMetered THEN [original EXCEPT ![s] = Original(s)]
                                               ELSE original
  BY Zenon DEF Sstore

LEMMA CounterType ==
  ASSUME NEW r \in Nat, NEW t \in Nat, NEW g \in Nat, ~(r < t)
  PROVE  r - t + g \in Nat
  OBVIOUS

LEMMA TypeWrite ==
  ASSUME SstoreTypeOK, NEW s \in Slot, NEW value \in Value, Sstore(s, value)
  PROVE  SstoreTypeOK'
<1>1. PICK charge \in [gas : Nat, given : Nat, taken : Nat] : charge = ChargeOf(s, value)
  BY ChargeType
<1>2. Original(s) \in Value \union {Unread}
  BY DEF SstoreTypeOK, Original, Storage
<1>3. original' \in [Slot -> Value \union {Unread}]
  BY <1>2, WriteRest DEF SstoreTypeOK
<1>4. /\ refund \in Nat /\ spent \in Nat /\ writes \in Nat
      /\ charge.gas \in Nat /\ charge.given \in Nat /\ charge.taken \in Nat
      /\ 0 \in Nat
  BY DEF SstoreTypeOK
<1>5. ~Exhausted(charge) => refund - charge.taken + charge.given \in Nat
  BY <1>4, CounterType DEF Exhausted
<1>6. refund' \in Nat /\ error' \in {"none", "out of gas", "refund exhausted"}
  BY <1>1, <1>4, <1>5, WriteEnds, Zenon DEF SstoreTypeOK
<1>7. spent + charge.gas \in Nat /\ writes + 1 \in Nat
  BY <1>4
<1>8. spent' \in Nat /\ writes' \in Nat
  BY <1>1, <1>4, <1>7, WriteEnds, Zenon
<1>9. storage' \in Storage
  <2>1. [storage EXCEPT ![s] = value] \in Storage
    BY DEF SstoreTypeOK, Storage
  <2> QED
    BY <1>1, <2>1, WriteEnds, Zenon DEF SstoreTypeOK
<1>10. count' \in Nat
  <2>1. count \in Nat
    BY DEF SstoreTypeOK
  <2>2. count + 1 \in Nat
    BY <2>1
  <2> QED
    BY <2>2, WriteRest, Zenon
<1>11. UNCHANGED <<fork, messages, start, regular>>
  BY WriteRest
<1> QED
  BY <1>3, <1>6, <1>8, <1>9, <1>10, <1>11 DEF SstoreTypeOK

LEMMA TypeNext == SstoreTypeOK /\ [NextSstore]_sstoreVars => SstoreTypeOK'
<1> SUFFICES ASSUME SstoreTypeOK, [NextSstore]_sstoreVars PROVE SstoreTypeOK'
  OBVIOUS
<1>1. ASSUME NEW entry \in {"tx", "call"}, BeginCall(entry) PROVE SstoreTypeOK'
  <2>1. [storage |-> storage, refund |-> refund', spent |-> spent',
         writes |-> writes'] \in Message
    BY <1>1 DEF BeginCall, SstoreTypeOK, Message
  <2> QED
    BY <1>1, <2>1, AppendFrame DEF BeginCall, WithMessage, SstoreTypeOK, NothingRead
<1>2. CASE Enter
  <2>1. [storage |-> storage, refund |-> refund', spent |-> spent',
         writes |-> writes'] \in Message
    BY <1>2 DEF Enter, metered, SstoreTypeOK, Message
  <2> QED
    BY <1>2, <2>1, AppendFrame DEF Enter, WithMessage, metered, SstoreTypeOK
<1>3. ASSUME NEW s \in Slot, NEW value \in Value, Sstore(s, value) PROVE SstoreTypeOK'
  BY <1>3, TypeWrite
<1>4. CASE Return
  BY <1>4, PopFrame DEF Return, Writing, metered, SstoreTypeOK
<1>5. CASE FailMessage
  BY <1>5, PopFrame DEF FailMessage, Undone, SstoreTypeOK, Message
<1>6. CASE FailDeposit
  BY <1>6, PopFrame DEF FailDeposit, Writing, Undone, SstoreTypeOK, Message
<1>7. CASE UNCHANGED sstoreVars
  BY <1>7 DEF sstoreVars, metered, SstoreTypeOK
<1> QED
  BY <1>1, <1>2, <1>3, <1>4, <1>5, <1>6, <1>7 DEF NextSstore
-----------------------------------------------------------------------------
(* The invariant.                                                          *)

\* Nothing is owed for a storage that is as at the start.
LEMMA NothingOwed ==
  ASSUME fork \in Fork
  PROVE  Owed(fork, start, start) = 0
<1>1. Cleared(start, start) = {}
  BY DEF Cleared
<1>2. Fee[fork].clearRefund \in Nat
  BY FeeType DEF Prices
<1> QED
  BY <1>1, <1>2, FS_EmptySet DEF Owed

LEMMA InitInv == InitSstore => SstoreInv
<1> SUFFICES ASSUME InitSstore PROVE SstoreInv
  OBVIOUS
<1>1. SstoreTypeOK
  BY TypeInit
<1>2. messages = <<>> /\ storage = start /\ refund = 0 /\ error = "none" /\ original = NothingRead
  BY DEF InitSstore
<1>3. Len(messages) = 0 /\ 1..Len(messages) = {}
  BY <1>2
<1>4. OriginalsCached
  BY <1>2, <1>3 DEF OriginalsCached, ReadIfChanged, NothingRead
<1>5. Owed(fork, start, storage) = 0
  BY <1>1, <1>2, NothingOwed DEF SstoreTypeOK
<1>6. RefundCovers
  BY <1>2, <1>3, <1>5 DEF RefundCovers
<1>7. CostsBalance
  <2>1. spent = 0 /\ writes = 0 /\ fork \in Fork
    BY DEF InitSstore
  <2>2. Balances(fork, start, storage, spent, refund, writes)
    BY <1>2, <2>1, NothingPaid
  <2> QED
    BY <1>3, <2>2 DEF CostsBalance
<1> QED
  BY <1>1, <1>2, <1>4, <1>6, <1>7 DEF SstoreInv, RefundSuffices, IdleIsSound

\* An entry point begins with nothing owed and nothing read, or irregularly.
LEMMA BeginInv ==
  ASSUME SstoreInv, SstoreTypeOK', NEW entry \in {"tx", "call"}, BeginCall(entry)
  PROVE  SstoreInv'
<1> DEFINE f == [storage |-> storage, refund |-> refund', spent |-> spent',
                 writes |-> writes']
<1>1. /\ messages = <<>> /\ error' = "none" /\ start' = storage /\ storage' = storage
      /\ refund' = 0 /\ messages' = Append(messages, f) /\ fork' = fork
      /\ regular' = (original' = NothingRead)
  BY DEF BeginCall, SstoreInv, IdleIsSound, WithMessage
<1>2. messages' = <<f>> /\ Len(messages') = 1 /\ messages'[1] = f
  BY <1>1
<1>3. \A i \in 1..Len(messages') : messages'[i].storage = storage /\ messages'[i].refund = 0
  BY <1>1, <1>2
<1>4. Owed(fork, storage, storage) = 0
  <2>1. start' = storage' /\ fork' \in Fork
    BY <1>1 DEF SstoreInv, SstoreTypeOK
  <2>2. Cleared(storage, storage) = {}
    BY DEF Cleared
  <2>3. Fee[fork].clearRefund \in Nat
    BY FeeType DEF Prices, SstoreInv, SstoreTypeOK
  <2> QED
    BY <2>2, <2>3, FS_EmptySet DEF Owed
<1>5. OriginalsCached'
  <2> SUFFICES ASSUME Net' PROVE OriginalsCached'
    BY DEF OriginalsCached
  <2>1. original' = NothingRead
    BY <1>1 DEF Net
  <2> QED
    BY <1>1, <1>3, <2>1 DEF OriginalsCached, ReadIfChanged, NothingRead
<1>6. RefundCovers'
  BY <1>1, <1>3, <1>4 DEF RefundCovers
<1>7. CostsBalance'
  <2>1. spent' = 0 /\ writes' = 0 /\ fork \in Fork
    BY DEF BeginCall, SstoreInv, SstoreTypeOK
  <2>2. \A i \in 1..Len(messages') : messages'[i].spent = 0 /\ messages'[i].writes = 0
    BY <1>2, <2>1
  <2>3. Balances(fork, storage, storage, 0, 0, 0)
    BY <2>1, NothingPaid
  <2> QED
    BY <1>1, <1>3, <2>1, <2>2, <2>3, Zenon DEF CostsBalance
<1> QED
  BY <1>1, <1>2, <1>5, <1>6, <1>7 DEF SstoreInv, RefundSuffices, IdleIsSound

\* Entering a message records the storage and the counter of the running one.
LEMMA EnterInv ==
  ASSUME SstoreInv, SstoreTypeOK', Enter
  PROVE  SstoreInv'
<1> DEFINE f == [storage |-> storage, refund |-> refund', spent |-> spent',
                 writes |-> writes']
           n == Len(messages)
<1>1. /\ UNCHANGED <<fork, storage, original, refund, error, start, regular>>
      /\ messages' = Append(messages, f) /\ error = "none"
  BY DEF Enter, WithMessage, metered, Writing
<1>2. messages \in Seq(Message) /\ f \in Message /\ n \in Nat
  BY <1>1 DEF Enter, metered, SstoreInv, SstoreTypeOK, Message
<1>3. /\ messages' # <<>> /\ Len(messages') = n + 1
      /\ \A i \in 1..(n + 1) : messages'[i] = IF i = n + 1 THEN f ELSE messages[i]
  BY <1>1, <1>2, AppendFrame
<1>4. /\ f.storage = storage /\ f.refund = refund /\ f.spent = spent /\ f.writes = writes
      /\ spent' = spent /\ writes' = writes
  BY <1>1 DEF Enter, metered
<1> HIDE DEF f, n
<1>5. \A i \in 1..Len(messages') : messages'[i] = f \/ (i \in 1..n /\ messages'[i] = messages[i])
  BY <1>2, <1>3
<1>6. OriginalsCached'
  BY <1>1, <1>4, <1>5, Zenon DEF SstoreInv, OriginalsCached, Net, n
<1>7. RefundCovers'
  BY <1>1, <1>4, <1>5, Zenon DEF SstoreInv, RefundCovers, Net, n
<1>8. CostsBalance'
  BY <1>1, <1>4, <1>5, Zenon DEF SstoreInv, CostsBalance, Net, n
<1> QED
  BY <1>1, <1>3, <1>6, <1>7, <1>8 DEF SstoreInv, RefundSuffices, IdleIsSound

\* The message that ends leaves what holds of the outer ones.
LEMMA OuterKeeps ==
  ASSUME messages \in Seq(Message), messages # <<>>, messages' = OuterMessages,
         UNCHANGED <<fork, original, start, regular>>,
         OriginalsCached, RefundCovers, CostsBalance, Net
  PROVE  /\ ReadIfChanged(original, start, LastMessage.storage)
         /\ LastMessage.refund >= Owed(fork, start, LastMessage.storage)
         /\ Balances(fork, start, LastMessage.storage, LastMessage.spent, LastMessage.refund,
                     LastMessage.writes)
         /\ \A i \in 1..Len(messages') :
              /\ ReadIfChanged(original, start, messages'[i].storage)
              /\ messages'[i].refund >= Owed(fork, start, messages'[i].storage)
              /\ Balances(fork, start, messages'[i].storage, messages'[i].spent,
                          messages'[i].refund, messages'[i].writes)
<1>1. /\ Len(messages) \in 1..Len(messages)
      /\ \A i \in 1..Len(messages') : i \in 1..Len(messages) /\ messages'[i] = messages[i]
  BY PopFrame
<1> QED
  BY <1>1, Zenon DEF OriginalsCached, RefundCovers, CostsBalance, LastMessage

LEMMA ReturnInv ==
  ASSUME SstoreInv, SstoreTypeOK', Return
  PROVE  SstoreInv'
<1>1. /\ messages # <<>> /\ messages' = OuterMessages /\ error = "none"
      /\ UNCHANGED <<fork, storage, original, refund, error, start, regular, spent, writes>>
  BY DEF Return, Writing, metered
<1>2. messages \in Seq(Message)
  BY DEF SstoreInv, SstoreTypeOK
<1>3. OriginalsCached' /\ RefundCovers' /\ CostsBalance'
  BY <1>1, <1>2, OuterKeeps, Zenon DEF SstoreInv, OriginalsCached, RefundCovers, CostsBalance, Net
<1> QED
  BY <1>1, <1>3 DEF SstoreInv, RefundSuffices, IdleIsSound

\* A failure brings back a storage and a counter that covers it.
LEMMA FailInv ==
  ASSUME SstoreInv, SstoreTypeOK', FailMessage
  PROVE  SstoreInv'
<1>1. /\ messages # <<>> /\ messages' = OuterMessages /\ error' = "none"
      /\ storage' = LastMessage.storage /\ refund' = LastMessage.refund
      /\ spent' = LastMessage.spent /\ writes' = LastMessage.writes
      /\ UNCHANGED <<fork, original, start, regular>>
  BY DEF FailMessage, Undone
<1>2. messages \in Seq(Message)
  BY DEF SstoreInv, SstoreTypeOK
<1>3. OriginalsCached' /\ RefundCovers' /\ CostsBalance'
  BY <1>1, <1>2, OuterKeeps, Zenon DEF SstoreInv, OriginalsCached, RefundCovers, CostsBalance, Net
<1> QED
  BY <1>1, <1>3 DEF SstoreInv, RefundSuffices, IdleIsSound

LEMMA FailDepositInv ==
  ASSUME SstoreInv, SstoreTypeOK', FailDeposit
  PROVE  SstoreInv'
<1>1. regular' = FALSE /\ error' = "none"
  BY DEF FailDeposit, Undone
<1> QED
  BY <1>1 DEF SstoreInv, OriginalsCached, RefundCovers, CostsBalance, RefundSuffices,
              IdleIsSound, Net

\* A write caches the original value before it changes the slot, and the counter
\* covers what it takes back.
LEMMA WriteInv ==
  ASSUME SstoreInv, SstoreTypeOK', NEW s \in Slot, NEW value \in Value, Sstore(s, value)
  PROVE  SstoreInv'
<1>1. PICK charge \in [gas : Nat, given : Nat, taken : Nat] : charge = ChargeOf(s, value)
  BY ChargeType DEF SstoreInv
<1>2. /\ messages # <<>> /\ error = "none"
      /\ fork' = fork /\ messages' = messages /\ start' = start /\ regular' = regular
      /\ original' = IF fork \in NetMetered THEN [original EXCEPT ![s] = Original(s)]
                                            ELSE original
  BY WriteRest DEF Writing
<1>3. storage' = storage \/ storage' = [storage EXCEPT ![s] = value]
  BY <1>1, WriteEnds, Zenon
<1>4. SstoreTypeOK /\ OriginalsCached /\ RefundCovers
  BY DEF SstoreInv
<1>5. refund \in Nat /\ charge.taken \in Nat
  BY <1>4 DEF SstoreTypeOK
<1>6. Net' <=> Net
  BY <1>2 DEF Net
<1>7. regular => ~Exhausted(charge)
  <2>1. CASE Net
    <3>1. refund >= charge.taken
      BY <1>1, <1>2, <1>4, <2>1, WriteIsCovered, Zenon DEF RefundCovers
    <3> QED
      BY <1>5, <3>1 DEF Exhausted
  <2>2. CASE regular /\ ~Net
    <3>1. charge.taken = 0
      BY <1>1, <2>2, PlainTakesNothing DEF Net
    <3> QED
      BY <1>5, <3>1 DEF Exhausted
  <2> QED
    BY <2>1, <2>2
<1>8. OriginalsCached'
  <2> SUFFICES ASSUME Net PROVE OriginalsCached'
    BY <1>6 DEF OriginalsCached
  <2>1. start[s] \in Value /\ start[s] # Unread /\ original \in [Slot -> Value \union {Unread}]
    <3>1. start \in [Slot -> Value] /\ original \in [Slot -> Value \union {Unread}]
      BY <1>4 DEF SstoreTypeOK, Storage
    <3> QED
      BY <3>1, SlotsAssumption DEF SlotsAssumption
  <2>2. Original(s) = start[s]
    BY <1>4 DEF OriginalsCached, Original, ReadIfChanged, SstoreTypeOK
  <2>3. original' = [original EXCEPT ![s] = start[s]]
    BY <1>2, <2>2 DEF Net
  <2>4. \A x \in Slot : original'[x] = IF x = s THEN start[s] ELSE original[x]
    BY <2>1, <2>3
  <2>5. \A x \in Slot : original'[x] = Unread => x # s /\ original[x] = Unread
    BY <2>1, <2>4
  <2>6. \A x \in Slot : x # s => storage'[x] = storage[x]
    BY <1>3, <1>4 DEF SstoreTypeOK, Storage
  <2>7. \A x \in Slot : original'[x] \in {start'[x], Unread}
    BY <1>2, <1>4, <2>4 DEF OriginalsCached
  <2>8. ReadIfChanged(original', start', storage')
    BY <1>2, <1>4, <2>5, <2>6 DEF OriginalsCached, ReadIfChanged
  <2>9. \A i \in 1..Len(messages') : ReadIfChanged(original', start', messages'[i].storage)
    BY <1>2, <1>4, <2>5, Zenon DEF OriginalsCached, ReadIfChanged
  <2> QED
    BY <2>7, <2>8, <2>9 DEF OriginalsCached
<1>9. RefundCovers'
  <2> SUFFICES ASSUME Net PROVE RefundCovers'
    BY <1>6 DEF RefundCovers
  <2>1. refund - charge.taken + charge.given
          >= Owed(fork, start, [storage EXCEPT ![s] = value])
    BY <1>1, <1>2, <1>4, WriteIsCovered, Zenon DEF RefundCovers
  <2>2. error' = "none" => refund' >= Owed(fork', start', storage')
    <3>1. error' = "none" => /\ refund' = refund - charge.taken + charge.given
                             /\ storage' = [storage EXCEPT ![s] = value]
      <4>1. "refund exhausted" # "none" /\ "out of gas" # "none"
        OBVIOUS
      <4> QED
        BY <1>1, <4>1, WriteEnds, Zenon
    <3> QED
      BY <1>2, <2>1, <3>1, Zenon
  <2> QED
    BY <1>2, <1>4, <2>2, Zenon DEF RefundCovers, Net
<1>10. RefundSuffices'
  <2>1. "out of gas" # "refund exhausted" /\ "none" # "refund exhausted"
    OBVIOUS
  <2> QED
    BY <1>1, <1>2, <1>7, <2>1, WriteEnds, Zenon DEF RefundSuffices
<1>11. IdleIsSound'
  BY <1>2 DEF IdleIsSound
<1>12. CostsBalance'
  <2> SUFFICES ASSUME Net PROVE CostsBalance'
    BY <1>6 DEF CostsBalance
  <2>1. Balances(fork, start, [storage EXCEPT ![s] = value],
                 spent + charge.gas, refund - charge.taken + charge.given, writes + 1)
    <3>1. Balances(fork, start, storage, spent, refund, writes)
      BY <1>2 DEF SstoreInv, CostsBalance
    <3> QED
      BY <1>1, <1>4, <3>1, WriteBalances
  <2>2. error' = "none" => /\ refund' = refund - charge.taken + charge.given
                           /\ storage' = [storage EXCEPT ![s] = value]
                           /\ spent' = spent + charge.gas
                           /\ writes' = writes + 1
    <3>1. "refund exhausted" # "none" /\ "out of gas" # "none"
      OBVIOUS
    <3> QED
      BY <1>1, <3>1, WriteEnds, Zenon
  <2>3. error' = "none" => Balances(fork', start', storage', spent', refund', writes')
    BY <1>2, <2>1, <2>2, Zenon
  <2>4. CostsBalance
    BY DEF SstoreInv
  <2> QED
    BY <1>2, <2>3, <2>4, Zenon DEF CostsBalance, Net
<1> QED
  BY <1>8, <1>9, <1>10, <1>11, <1>12 DEF SstoreInv

LEMMA StutterInv ==
  ASSUME SstoreInv, UNCHANGED sstoreVars
  PROVE  SstoreInv'
  BY DEF sstoreVars, metered, SstoreInv, SstoreTypeOK, OriginalsCached, RefundCovers, CostsBalance,
         RefundSuffices, IdleIsSound, Net
-----------------------------------------------------------------------------
(* The theorems.                                                           *)

\* The inductive invariant holds in every state (opFns.ts updateSstoreGas;
\* stateManager.ts getOriginalContractStorage; evm.ts runInterpreter).
THEOREM SstoreInvariance == SstoreSpec => []SstoreInv
<1>1. SstoreInv /\ [NextSstore]_sstoreVars => SstoreInv'
  <2> SUFFICES ASSUME SstoreInv, [NextSstore]_sstoreVars PROVE SstoreInv'
    OBVIOUS
  <2>1. SstoreTypeOK'
    BY TypeNext DEF SstoreInv
  <2>2. ASSUME NEW entry \in {"tx", "call"}, BeginCall(entry) PROVE SstoreInv'
    BY <2>1, <2>2, BeginInv
  <2>3. CASE Enter
    BY <2>1, <2>3, EnterInv
  <2>4. ASSUME NEW s \in Slot, NEW value \in Value, Sstore(s, value) PROVE SstoreInv'
    BY <2>1, <2>4, WriteInv
  <2>5. CASE Return
    BY <2>1, <2>5, ReturnInv
  <2>6. CASE FailMessage
    BY <2>1, <2>6, FailInv
  <2>7. CASE FailDeposit
    BY <2>1, <2>7, FailDepositInv
  <2>8. CASE UNCHANGED sstoreVars
    BY <2>8, StutterInv
  <2> QED
    BY <2>2, <2>3, <2>4, <2>5, <2>6, <2>7, <2>8 DEF NextSstore
<1> QED
  BY InitInv, <1>1, PTL DEF SstoreSpec

\* Every variable keeps its type (the state of opFns.ts, eei.ts, stateManager.ts).
THEOREM RefundTypes == SstoreSpec => []SstoreTypeOK
<1>1. SstoreInv => SstoreTypeOK
  BY DEF SstoreInv
<1> QED
  BY <1>1, SstoreInvariance, PTL

\* Writes are metered against the values of the transaction's start, through any
\* reverts (stateManager.ts getOriginalContractStorage; runTx.ts).
THEOREM Originals == SstoreSpec => []OriginalIsStart
<1>1. SstoreInv => OriginalIsStart
  <2> SUFFICES ASSUME SstoreInv, Net, NEW s \in Slot
               PROVE  /\ original[s] \in {start[s], Unread}
                      /\ original[s] = Unread => Levels(s) = {start[s]}
    BY DEF OriginalIsStart
  <2>1. original[s] \in {start[s], Unread}
    BY DEF SstoreInv, OriginalsCached
  <2>2. ASSUME original[s] = Unread PROVE Levels(s) = {start[s]}
    <3>1. storage[s] = start[s]
      BY <2>2 DEF SstoreInv, OriginalsCached, ReadIfChanged
    <3>2. \A i \in 1..Len(messages) : messages[i].storage[s] = start[s]
      BY <2>2, Zenon DEF SstoreInv, OriginalsCached, ReadIfChanged
    <3> QED
      BY <3>1, <3>2 DEF Levels
  <2> QED
    BY <2>1, <2>2
<1> QED
  BY <1>1, SstoreInvariance, PTL

\* The refund counter never has to go below zero, unless a code deposit failed
\* or the originals are of an earlier runCall (opFns.ts, eei.ts subRefund).
THEOREM Sufficiency == SstoreSpec => []RefundSuffices
<1>1. SstoreInv => RefundSuffices
  BY DEF SstoreInv
<1> QED
  BY <1>1, SstoreInvariance, PTL

\* The sum that CostIsNet states is the one of the invariant.
LEMMA SumIsTotal ==
  SumOfCosts(Fee[fork]) = Total(Slot, Costs(fork, start, storage))
<1> DEFINE pick(S) == CHOOSE x \in S : TRUE
           cost(s) == NetCost(Fee[fork], start[s], storage[s])
           costs == Costs(fork, start, storage)
<1>1. SumOfCosts(Fee[fork]) =
        (CHOOSE it : it = [S \in SUBSET Slot |->
           IF S = {} THEN 0 ELSE cost(pick(S)) + it[S \ {pick(S)}]])[Slot]
  BY DEF SumOfCosts, MapThenSumSet, MapThenFoldSet
<1>2. Total(Slot, costs) =
        (CHOOSE it : it = [S \in SUBSET Slot |->
           IF S = {} THEN 0 ELSE costs[pick(S)] + it[S \ {pick(S)}]])[Slot]
  BY DEF Total, Recursion
<1>3. \A S \in SUBSET Slot : S # {} => costs[pick(S)] = cost(pick(S))
  BY DEF Costs
<1> HIDE DEF pick, cost, costs
<1>4. ASSUME NEW it
      PROVE  [S \in SUBSET Slot |-> IF S = {} THEN 0 ELSE cost(pick(S)) + it[S \ {pick(S)}]]
               = [S \in SUBSET Slot |-> IF S = {} THEN 0 ELSE costs[pick(S)] + it[S \ {pick(S)}]]
  BY <1>3
<1>5. (CHOOSE it : it = [S \in SUBSET Slot |->
         IF S = {} THEN 0 ELSE cost(pick(S)) + it[S \ {pick(S)}]])
        = (CHOOSE it : it = [S \in SUBSET Slot |->
             IF S = {} THEN 0 ELSE costs[pick(S)] + it[S \ {pick(S)}]])
  BY <1>4
<1> QED
  BY <1>1, <1>2, <1>5 DEF costs

\* With the prices of the net metering proposals, the gas of the writes less the
\* refunds is a fee per write and what the change from first to last value costs,
\* through messages that fail (opFns.ts updateSstoreGas; evm.ts runInterpreter).
THEOREM NetCosts == SstoreSpec => []CostIsNet
<1>1. SstoreInv => CostIsNet
  <2> SUFFICES ASSUME SstoreInv, Net, error = "none"
               PROVE  spent - refund = writes * Fee[fork].dirty + SumOfCosts(Fee[fork])
    BY DEF CostIsNet
  <2>1. Balances(fork, start, storage, spent, refund, writes)
    BY DEF SstoreInv, CostsBalance
  <2> QED
    BY <2>1, SumIsTotal, Zenon DEF Balances
<1> QED
  BY <1>1, SstoreInvariance, PTL
=============================================================================
