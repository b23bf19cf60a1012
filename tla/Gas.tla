-------------------------------- MODULE Gas --------------------------------
(***************************************************************************)
(* Gas and memory of nested messages: the gas counter (eei.ts), the        *)
(* metering of memory and of calls (opFns.ts), memory.ts, and what a       *)
(* message is charged for when it ends (evm.ts).                           *)
(*                                                                         *)
(* Memory, and what is read or returned, is measured in words.  Which code *)
(* runs is arbitrary, and so is when it fails for other reasons than gas.  *)
(***************************************************************************)
EXTENDS Integers, Sequences

CONSTANTS
  GasLimit,   \* gas limits of the messages a VM is given
  Request,    \* gas limits a contract may ask for in a call
  OpFee,      \* what an opcode that is no call may cost, memory aside
  CallFee, CreateFee, ValueFee, Stipend, NewAccountFee, CreateData,
  MemoryFee, QuadCoeffDiv,
  Reserve,    \* a call may have all but one of so many parts (64)
  Region,     \* the parts of memory that opcodes access
  SafeOffset, \* the first offset BN.toNumber refuses (2^53)
  MaxDepth    \* stackLimit

VARIABLES
  frames,     \* messages being executed, outermost first
  trapped,    \* the innermost one has an exception
  used,       \* gasUsed of the last outermost message
  \* For the properties only:
  work,       \* gas charged for what was done, also if it was reverted since
  overdrawn   \* how a caller came to be charged more than it had left

vars == <<frames, trapped, used, work, overdrawn>>
-----------------------------------------------------------------------------
NoRegion == [offset |-> 0, length |-> 0]
Returned == {r.length : r \in Region}   \* how much a message returns

\* out: where the caller wants what the message returns.  words, paid:
\* memoryWordCount, highestMemCost.  before is not in the code: the work done
\* when the message was entered.
Frame == [create : BOOLEAN, out : Region, limit : Nat, gas : Nat,
          words : Nat, paid : Nat, memory : Nat, before : Nat]

ASSUME ConstantsAssumption ==
  /\ GasLimit \subseteq Nat /\ Request \subseteq Nat
  /\ OpFee \subseteq Nat \ {0}
  /\ CallFee \in Nat \ {0} /\ CreateFee \in Nat \ {0}
  /\ Stipend \in Nat /\ ValueFee \in Nat /\ Stipend <= ValueFee
  /\ NewAccountFee \in Nat /\ CreateData \in Nat
  /\ MemoryFee \in Nat /\ QuadCoeffDiv \in Nat \ {0}
  /\ Reserve \in Nat \ {0}
  /\ Region \subseteq [offset : Nat, length : Nat] /\ NoRegion \in Region
  /\ SafeOffset \in Nat /\ MaxDepth \in Nat

Running == frames # <<>> /\ ~trapped
Innermost == frames[Len(frames)]
Outer == SubSeq(frames, 1, Len(frames) - 1)
When(condition, amount) == IF condition THEN amount ELSE 0
Larger(a, b) == IF a > b THEN a ELSE b
-----------------------------------------------------------------------------
(* Memory.                                                                 *)

\* The words a region ends at; an access of length zero reaches nothing.
Reach(region) == IF region.length = 0 THEN 0 ELSE region.offset + region.length

MemoryCost(n) == n * MemoryFee + (n * n) \div QuadCoeffDiv

\* Mutant: memory is charged for anew each time.
GrownAnew(f, region) ==
  LET reach == Reach(region)
  IN  IF reach <= f.words THEN f
      ELSE [f EXCEPT !.gas = @ - MemoryCost(reach), !.words = reach,
                     !.paid = @ + MemoryCost(reach)]

\* subMemUsage: the growth is paid for.
Grown(f, region) ==
  LET reach == Reach(region)
      cost == MemoryCost(reach)
  IN  IF reach <= f.words THEN f
      ELSE [f EXCEPT !.gas = @ - When(cost > f.paid, cost - f.paid),
                     !.words = reach,
                     !.paid = Larger(@, cost)]

\* Memory.extend.
Extended(f, region) == [f EXCEPT !.memory = Larger(@, Reach(region))]

\* An offset becomes a number; BN.toNumber throws where that is not exact.
Inexact(region) == region.offset >= SafeOffset
-----------------------------------------------------------------------------
Init ==
  /\ frames = <<>>
  /\ trapped = FALSE
  /\ used = 0
  /\ work = 0
  /\ overdrawn = "no"

Pushed(below, create, out, limit, done) ==
  Append(below, [create |-> create, out |-> out, limit |-> limit, gas |-> limit,
                 words |-> 0, paid |-> 0, memory |-> 0, before |-> done])

\* executeMessage for an outermost message, up to its interpreter.
Begin(limit) ==
  /\ frames = <<>>
  /\ frames' = Pushed(<<>>, FALSE, NoRegion, limit, 0)
  /\ work' = 0
  /\ used' = 0
  /\ overdrawn' = "no"
  /\ UNCHANGED trapped

\* A handler has thrown: the frame does not go on.
Trap ==
  /\ trapped' = TRUE
  /\ UNCHANGED <<frames, used, work, overdrawn>>

\* What the innermost frame has paid for when it goes on as f.
WorkAfter(f) == work + Innermost.gas - f.gas

\* A handler goes on as f, unless its charges came to more than there was.
GoOn(f, throws) ==
  IF f.gas < 0 \/ throws
  THEN Trap
  ELSE /\ frames' = Append(Outer, f)
       /\ work' = WorkAfter(f)
       /\ UNCHANGED <<trapped, used, overdrawn>>

Charged(f, fee) == [f EXCEPT !.gas = @ - fee]

\* runStep for the opcodes that read memory, or none (length zero).
Read(fee, region) ==
  /\ Running
  /\ GoOn(Charged(Grown(Innermost, region), fee), region.length > 0 /\ Inexact(region))

\* Those that write memory convert the offset also of an empty region.
Write(fee, region) ==
  /\ Running
  /\ GoOn(Extended(Charged(Grown(Innermost, region), fee), region), Inexact(region))
-----------------------------------------------------------------------------
(* Answers: a message was charged gasUsed and returned so many words.      *)

\* Mutant: all of what was returned is written.
OutputWhole(region, returned) ==
  [offset |-> region.offset, length |-> returned]

\* writeCallOutput: the part of the region that is written.
Output(region, returned) ==
  [offset |-> region.offset,
   length |-> IF returned < region.length THEN returned ELSE region.length]

\* Mutant: the caller is not charged.
ResumeUncharged(below, f, create, out, gasUsed, returned, callee) ==
  /\ frames' = Append(below, f)
  /\ UNCHANGED <<trapped, overdrawn>>

\* The caller, which is f, with those below it on the stack, goes on after an
\* answer as _baseCall, create and the handler of the opcode do.
Resume(below, f, create, out, gasUsed, returned, callee) ==
  LET writes == ~create /\ returned > 0
      charged == Charged(f, gasUsed)
      resumed == IF writes THEN Extended(charged, Output(out, returned)) ELSE charged
  IN  IF charged.gas < 0
      THEN /\ frames' = Append(below, [f EXCEPT !.gas = 0])
           /\ trapped' = TRUE
           /\ overdrawn' = callee
      ELSE /\ frames' = Append(below, resumed)
           /\ trapped' = (writes /\ Inexact(out))
           /\ UNCHANGED overdrawn

\* A frame ends.
Answer(gasUsed, returned) ==
  IF Outer = <<>>
  THEN /\ frames' = <<>>
       /\ trapped' = FALSE
       /\ used' = gasUsed
       /\ UNCHANGED overdrawn
  ELSE /\ Resume(SubSeq(Outer, 1, Len(Outer) - 1), Outer[Len(Outer)],
                 Innermost.create, Innermost.out, gasUsed, returned, "contract")
       /\ UNCHANGED used

\* An exception takes all the gas of the message (runInterpreter).
Fail ==
  /\ frames # <<>>
  /\ Answer(Innermost.limit, 0)
  /\ UNCHANGED work

\* STOP, RETURN and SELFDESTRUCT, or REVERT; a creation that succeeds pays for
\* its code, and fails if it cannot or if what it returns is too long.
End(region, reverts, tooLong) ==
  LET f == Grown(Innermost, region)
      deposit == When(Innermost.create /\ ~reverts, CreateData * region.length)
      total == f.limit - f.gas + deposit
  IN  /\ Running
      /\ IF f.gas < 0 \/ (region.length > 0 /\ Inexact(region))
         THEN Trap
         ELSE IF f.create /\ (total > f.limit \/ tooLong)
         THEN /\ Answer(f.limit, 0)
              /\ work' = WorkAfter(f)
         ELSE /\ Answer(total, region.length)
              /\ work' = WorkAfter(f) + deposit
-----------------------------------------------------------------------------
(* Calls and creations.                                                    *)

\* Mutant: a call may have more than there is.
MaxCallGasWhole(request, gas) == request

\* maxCallGas.
MaxCallGas(request, gas) ==
  LET allowed == gas - gas \div Reserve
  IN  IF request > allowed THEN allowed ELSE request

\* Mutant: calls have no base fee.
CallChargedFree(c) ==
  Charged(Grown(Grown(Innermost, c.in), c.out), When(c.value, ValueFee))

\* CALL, CALLCODE, DELEGATECALL and STATICCALL before the gas limit is known.
CallCharged(c) ==
  Charged(Grown(Grown(Innermost, c.in), c.out), CallFee + When(c.value, ValueFee))

\* A message that executeMessage answers without an interpreter: refused, to an
\* account without code or OVM_StateManager, a precompile, a collision.
AnswerAtOnce(f, create, out, gasUsed, done, returned, callee) ==
  /\ Resume(Outer, f, create, out, gasUsed, returned, callee)
  /\ work' = WorkAfter(f) + done
  /\ UNCHANGED used

Send(f, create, out, limit) ==
  /\ Len(frames) < MaxDepth
  /\ frames' = Pushed(Append(Outer, f), create, out, limit, WorkAfter(f))
  /\ work' = WorkAfter(f)
  /\ UNCHANGED <<trapped, used, overdrawn>>

CallArguments ==
  {c \in [value : BOOLEAN, new : BOOLEAN, request : Request, in : Region, out : Region] :
     c.new => c.value}

\* c.new: the callee is an empty account, and CALL gives it ether.
Call(c) ==
  LET charged == CallCharged(c)
      stipend == When(c.value, Stipend)
      limit == MaxCallGas(c.request, charged.gas) + stipend
      forNew == Charged(charged, When(c.new, NewAccountFee))
      f == [forNew EXCEPT !.gas = @ + stipend]
      precompile == IF c.new THEN "new_precompile" ELSE "precompile"
  IN  /\ Running
      /\ IF forNew.gas < 0 \/ (c.in.length > 0 /\ Inexact(c.in))
         THEN Trap
         ELSE \/ \E returned \in Returned :
                   AnswerAtOnce(f, FALSE, c.out, 0, 0, returned, "no_code")
              \/ \E cost \in 0..limit, returned \in Returned :
                   AnswerAtOnce(f, FALSE, c.out, cost, cost, returned, precompile)
              \/ AnswerAtOnce(f, FALSE, c.out, limit, 0, 0, precompile)
              \/ ~c.new /\ Send(f, FALSE, c.out, limit)

\* CREATE and CREATE2, which pays for hashing.
Create(region, hashing) ==
  LET f == Charged(Grown(Innermost, region), CreateFee + hashing)
      limit == MaxCallGas(f.gas, f.gas)
  IN  /\ Running
      /\ IF f.gas < 0 \/ (region.length > 0 /\ Inexact(region))
         THEN Trap
         ELSE \/ AnswerAtOnce(f, TRUE, NoRegion, 0, 0, 0, "no_code")
              \/ AnswerAtOnce(f, TRUE, NoRegion, limit, 0, 0, "collision")
              \/ Send(f, TRUE, NoRegion, limit)

Step ==
  \/ \E fee \in OpFee, region \in Region : Read(fee, region)
  \/ \E fee \in OpFee, region \in Region : Write(fee, region)
  \/ \E region \in Region, reverts, tooLong \in BOOLEAN : End(region, reverts, tooLong)
  \/ \E c \in CallArguments : Call(c)
  \/ \E region \in Region, hashing \in OpFee \union {0} : Create(region, hashing)
  \/ Fail

Next == Step \/ \E limit \in GasLimit : Begin(limit)

\* A message that has begun goes on.
Spec == Init /\ [][Next]_vars /\ WF_vars(Step)
-----------------------------------------------------------------------------
(* Properties.                                                             *)

TypeOK ==
  /\ frames \in Seq(Frame)
  /\ trapped \in BOOLEAN
  /\ used \in Nat /\ work \in Nat
  /\ overdrawn \in {"no", "contract", "no_code", "precompile", "new_precompile", "collision"}

\* Memory is never longer than what was paid for, whatever calls return, and
\* no word of it is paid for twice (memory.ts; opFns.ts subMemUsage and
\* writeCallOutput).
MemoryIsPaid ==
  \A i \in 1..Len(frames) :
    /\ frames[i].memory <= frames[i].words
    /\ frames[i].paid = MemoryCost(frames[i].words)

\* The caller has what its callee may be charged, all the way up, and is never
\* charged more, but for a precompile that was an empty account and is given
\* ether: the new account is paid for after the limit of the call was set
\* (opFns.ts CALL; eei.ts _baseCall).
CalleeIsCovered ==
  /\ \A i \in 1..Len(frames) - 1 : frames[i + 1].limit <= frames[i].gas
  /\ overdrawn \in {"no", "new_precompile"}

\* The gas of the outermost message pays for all the work done below it, also in
\* messages that failed, and its gasUsed says so: stipends and what is given back
\* make no gas (evm.ts, eei.ts).
WorkIsPaid ==
  overdrawn = "no" =>
    /\ frames = <<>> => work <= used
    /\ frames # <<>> => work <= frames[1].limit

\* Every message ends, since it runs out of gas: no code keeps a VM busy
\* (interpreter.ts run, evm.ts).
Halts == frames # <<>> ~> frames = <<>>
=============================================================================
