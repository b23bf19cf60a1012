-------------------------- MODULE Execution_proofs --------------------------
(***************************************************************************)
(* Theorems of Execution, for every code, hardfork and start: a run that   *)
(* starts at an instruction never executes the data of a PUSH; all that is *)
(* on the stack is a word, and the memory that exists has been charged.    *)
(* For every request: a precompile stays within its gas.  For every hash:  *)
(* the bloom of a block has the bits of its logs and no others; modexp is  *)
(* what EIP-198 says; and Blake2 on halves is Blake2 on words.             *)
(***************************************************************************)
EXTENDS Execution, Sums, SequenceTheorems

LEMMA WidthIsNatural ==
  ASSUME NEW byte \in 0 .. 255 PROVE Width(byte) \in Nat
BY DEF Width

----------------------------------------------------------------------------
(* Starts is a fixed point: the recursive definition has a solution, the   *)
(* least set that is closed under After, so that CHOOSE picks a solution.  *)

LEMMA StartsEquation ==
  ASSUME NEW code, NEW fork, Len(code) \in Nat
  PROVE  /\ Starts(code, fork) \subseteq 0 .. Len(code)
         /\ 0 \in Starts(code, fork)
         /\ \A before, at \in 0 .. Len(code) :
              /\ before \in Starts(code, fork)
              /\ before < at
              /\ After(code, fork, before) = at
              => at \in Starts(code, fork)
<1> DEFINE D == 0 .. Len(code)
           Follows(before, at) == before \in 0 .. at - 1 /\ After(code, fork, before) = at
           Closed(S) == /\ 0 \in S
                        /\ \A at \in D : (\E before \in S : Follows(before, at)) => at \in S
           Reached == {at \in D : \A S \in SUBSET D : Closed(S) => at \in S}
           Solves(f) == f = [at \in D |-> \/ at = 0
                                          \/ \E before \in 0 .. at - 1 :
                                               After(code, fork, before) = at /\ f[before]]
           least == [at \in D |-> at \in Reached]
<1>1. Closed(Reached)
  <2>1. 0 \in Reached
    OBVIOUS
  <2>2. ASSUME NEW at \in D, NEW before \in Reached, Follows(before, at)
        PROVE  at \in Reached
    <3>1. ASSUME NEW S \in SUBSET D, Closed(S) PROVE at \in S
      <4>1. before \in S
        BY <3>1
      <4> QED BY <4>1, <3>1, <2>2
    <3> QED BY <3>1
  <2> QED BY <2>1, <2>2
<1>2. ASSUME NEW at \in Reached, at # 0
      PROVE  \E before \in Reached : Follows(before, at)
  <2>1. SUFFICES ASSUME ~ \E before \in Reached : Follows(before, at) PROVE FALSE
    OBVIOUS
  <2>2. Closed(Reached \ {at})
    BY <1>1, <1>2, <2>1
  <2>3. Reached \ {at} \in SUBSET D
    OBVIOUS
  <2> QED BY <2>2, <2>3
<1>3. Solves(least)
  <2> DEFINE right(at) == \/ at = 0
                          \/ \E before \in 0 .. at - 1 :
                               After(code, fork, before) = at /\ least[before]
  <2>1. ASSUME NEW at \in D PROVE (at \in Reached) <=> right(at)
    <3>1. ASSUME at \in Reached PROVE right(at)
      <4>1. CASE at = 0
        BY <4>1
      <4>2. CASE at # 0
        <5>1. PICK before \in Reached : Follows(before, at)
          BY <1>2, <3>1, <4>2
        <5>2. before \in D /\ least[before]
          OBVIOUS
        <5> QED BY <5>1, <5>2
      <4> QED BY <4>1, <4>2
    <3>2. ASSUME right(at) PROVE at \in Reached
      <4>1. CASE at = 0
        BY <4>1, <1>1
      <4>2. ASSUME NEW before \in 0 .. at - 1,
                   After(code, fork, before) = at, least[before]
            PROVE  at \in Reached
        <5>1. before \in D
          OBVIOUS
        <5>2. before \in Reached
          BY <5>1, <4>2
        <5> QED BY <5>2, <4>2, <1>1
      <4> QED BY <3>2, <4>1, <4>2
    <3> QED BY <3>1, <3>2
  <2>2. ASSUME NEW at \in D PROVE (at \in Reached) = right(at)
    <3> DEFINE p == at \in Reached
               q == right(at)
    <3>1. p \in BOOLEAN /\ q \in BOOLEAN
      BY SMT
    <3>2. p <=> q
      BY <2>1
    <3> HIDE DEF p, q
    <3>3. p = q
      BY <3>1, <3>2, SMT
    <3> QED BY <3>3 DEF p, q
  <2> HIDE DEF Reached, right
  <2>3. [at \in D |-> at \in Reached] = [at \in D |-> right(at)]
    BY <2>2, Zenon
  <2> USE DEF right
  <2> QED BY <2>3, Zenon
<1> DEFINE begins == CHOOSE f : Solves(f)
<1>4. Solves(begins)
  BY <1>3
<1>5. Starts(code, fork) = {at \in D : begins[at]}
  BY DEF Starts
<1> HIDE DEF begins
<1>6. ASSUME NEW at \in D
      PROVE  begins[at] <=> \/ at = 0
                            \/ \E before \in 0 .. at - 1 :
                                 After(code, fork, before) = at /\ begins[before]
  BY <1>4
<1>7. 0 \in Starts(code, fork)
  BY <1>5, <1>6
<1>8. ASSUME NEW before \in D, NEW at \in D, before \in Starts(code, fork), before < at,
             After(code, fork, before) = at
      PROVE  at \in Starts(code, fork)
  <2>1. begins[before] /\ before \in 0 .. at - 1
    BY <1>5, <1>8
  <2> QED BY <1>5, <1>6, <1>8, <2>1
<1> QED BY <1>5, <1>7, <1>8

----------------------------------------------------------------------------
(* The inductive invariant: what the validation has found so far are       *)
(* instructions, and so is the position it looks at next.                  *)

Boundaries == Starts(job.code, job.fork)

IInv ==
  /\ job \in Job
  /\ scan \in Nat
  /\ scan <= Len(job.code) => scan \in Boundaries
  /\ validJumps \subseteq Boundaries
  /\ programCounter \in Nat
  /\ status = "validating" => programCounter = job.pc
  /\ OnBoundary

LEMMA JobFacts ==
  ASSUME job \in Job
  PROVE  /\ Len(job.code) \in Nat
         /\ job.pc \in Nat
         /\ \A at \in Nat : at < Len(job.code) => CodeByte(at) \in 0 .. 255
<1>1. job.code \in Seq(0 .. 255) /\ job.pc \in Nat
  BY JobAssumption
<1> DEFINE code == job.code
<1>2. code \in Seq(0 .. 255)
  BY <1>1
<1> HIDE DEF code
<1>3. ASSUME NEW at \in Nat, at < Len(code) PROVE code[at + 1] \in 0 .. 255
  <2> DEFINE B == 0 .. 255
  <2> HIDE DEF B
  <2>1. code \in Seq(B) /\ at + 1 \in 1 .. Len(code)
    BY <1>2, <1>3 DEF B
  <2>2. code[at + 1] \in B
    BY <2>1
  <2> QED BY <2>2 DEF B
<1> QED BY <1>1, <1>2, <1>3 DEF CodeByte, code

LEMMA BoundariesInCode ==
  ASSUME job \in Job
  PROVE  Boundaries \subseteq 0 .. Len(job.code) /\ 0 \in Boundaries
<1>1. Len(job.code) \in Nat
  BY JobFacts
<1> QED BY <1>1, StartsEquation DEF Boundaries

\* Behind an instruction there is the next one, or the end of the code.
LEMMA NextBoundary ==
  ASSUME job \in Job, NEW at \in Nat, at < Len(job.code)
  PROVE  /\ After(job.code, job.fork, at) \in Nat
         /\ at \in Boundaries /\ After(job.code, job.fork, at) <= Len(job.code)
              => After(job.code, job.fork, at) \in Boundaries
<1> DEFINE next == After(job.code, job.fork, at)
<1>1. /\ Len(job.code) \in Nat
      /\ CodeByte(at) \in 0 .. 255
  BY JobFacts
<1>2. Width(CodeByte(at)) \in Nat
  BY <1>1, WidthIsNatural
<1>3. next \in Nat /\ at < next
  BY <1>2 DEF After, CodeByte
<1>4. ASSUME at \in Boundaries, next <= Len(job.code) PROVE next \in Boundaries
  <2>1. at \in 0 .. Len(job.code) /\ next \in 0 .. Len(job.code)
    BY <1>1, <1>3, <1>4
  <2> HIDE DEF next
  <2>2. at < next /\ After(job.code, job.fork, at) = next
    BY <1>3 DEF next
  <2> QED BY <1>1, <1>4, <2>1, <2>2, StartsEquation DEF Boundaries
<1> QED BY <1>3, <1>4

\* A handler that goes on behind its instruction stays among instructions.
LEMMA GoesOn ==
  ASSUME IInv, Running,
         programCounter' = After(job.code, job.fork, programCounter),
         UNCHANGED <<job, scan, validJumps>>,
         status' \in {"running", "stopped"}
  PROVE  IInv'
<1>1. /\ programCounter' \in Nat
      /\ programCounter \in Boundaries /\ programCounter' <= Len(job.code)
           => programCounter' \in Boundaries
  BY NextBoundary DEF IInv, Running
<1>2. job.pc \in Boundaries => programCounter \in Boundaries
  BY JobFacts DEF IInv, Running, OnBoundary, Boundaries
<1> QED BY <1>1, <1>2 DEF IInv, OnBoundary, Boundaries

LEMMA Continued ==
  ASSUME IInv, Running, Op # "PUSH",
         programCounter' = programCounter + 1,
         UNCHANGED <<job, scan, validJumps>>,
         status' \in {"running", "stopped"}
  PROVE  IInv'
<1>1. programCounter' = After(job.code, job.fork, programCounter)
  <2>1. Name(job.fork, job.code[programCounter + 1]) # "PUSH"
    BY DEF Op, CodeName, CodeByte
  <2> QED BY <2>1 DEF After, IInv
<1> QED BY <1>1, GoesOn

\* A handler that any other part of Executes and Continues describes.
LEMMA Handled ==
  ASSUME IInv, NEW op, op # "PUSH", Executes(op), Continues
  PROVE  IInv'
<1>1. Running /\ Op = op /\ UNCHANGED <<job, scan, validJumps>>
  BY DEF Executes
<1>2. programCounter' = programCounter + 1 /\ status' \in {"running", "stopped"}
  BY <1>1 DEF Continues, Running
<1> QED BY <1>1, <1>2, Continued

----------------------------------------------------------------------------
(* The steps.                                                              *)

LEMMA InitInvariant == Init => IInv
<1> SUFFICES ASSUME Init PROVE IInv
  OBVIOUS
<1> QED BY JobFacts, BoundariesInCode DEF Init, Activation, IInv, OnBoundary

LEMMA FindJumpDestInvariant ==
  ASSUME IInv, FindJumpDest PROVE IInv'
<1>1. /\ status' = "validating" /\ UNCHANGED <<job, programCounter>>
      /\ scan' = After(job.code, job.fork, scan)
      /\ validJumps' \subseteq validJumps \cup {scan}
      /\ scan < Len(job.code)
  BY DEF FindJumpDest, After, CodeName, CodeByte
<1>2. scan \in Boundaries
  BY <1>1, JobFacts DEF IInv
<1>3. scan' \in Nat /\ (scan' <= Len(job.code) => scan' \in Boundaries)
  BY <1>1, <1>2, NextBoundary DEF IInv
<1>4. validJumps' \subseteq Boundaries
  BY <1>1, <1>2 DEF IInv
<1>5. /\ job' \in Job /\ programCounter' \in Nat
      /\ status' = "validating" => programCounter' = job.pc'
  BY <1>1 DEF IInv, FindJumpDest
<1>6. OnBoundary'
  BY <1>1 DEF OnBoundary
<1>7. Boundaries' = Boundaries
  BY <1>1 DEF Boundaries
<1>8. scan' \in Nat /\ (scan' <= Len(job'.code) => scan' \in Boundaries')
  BY <1>1, <1>3, <1>7
<1>9. validJumps' \subseteq Boundaries'
  BY <1>4, <1>7
<1> QED BY <1>5, <1>6, <1>8, <1>9 DEF IInv

LEMMA StartInvariant ==
  ASSUME IInv, Start PROVE IInv'
<1>1. status = "validating" /\ UNCHANGED <<job, scan, validJumps, programCounter>>
      /\ status' \in {"running", "refused"}
  BY DEF Start
<1>2. programCounter' = job.pc
  BY <1>1 DEF IInv
<1> QED BY <1>1, <1>2 DEF IInv, OnBoundary, Boundaries

LEMMA StoppedInvariant ==
  ASSUME IInv, status' = "stopped",
         UNCHANGED <<job, scan, validJumps, programCounter>>
  PROVE  IInv'
BY DEF IInv, OnBoundary, Boundaries

LEMMA PushInvariant ==
  ASSUME IInv, Push PROVE IInv'
<1>1. /\ Running /\ Op = "PUSH" /\ UNCHANGED <<job, scan, validJumps, status>>
      /\ programCounter' = programCounter + 1 + OpWidth
  BY DEF Push, Executes
<1>2. programCounter' = After(job.code, job.fork, programCounter)
  BY <1>1 DEF After, Op, OpWidth, CodeName, CodeByte
<1>3. status' \in {"running", "stopped"}
  BY <1>1 DEF Running
<1> QED BY <1>1, <1>2, <1>3, GoesOn

\* A jump goes to what the validation has found.
LEMMA JumpInvariant ==
  ASSUME IInv, NEW op \in {"JUMP", "JUMPI", "JUMPDEST"}, Jump(op) PROVE IInv'
<1>1. /\ Running /\ Op = op /\ Refusal(op) = NoError
      /\ UNCHANGED <<job, scan, validJumps, status>>
      /\ programCounter' = IF Jumps(op) THEN Top(1) ELSE programCounter + 1
  BY DEF Jump, Executes
<1>2. status' \in {"running", "stopped"}
  BY <1>1 DEF Running
<1>3. CASE ~Jumps(op)
  BY <1>1, <1>2, <1>3, Continued
<1>4. CASE Jumps(op)
  <2>1. JumpIsValid(Top(1))
    BY <1>1, <1>4 DEF Refusal, NoError
  <2>2. programCounter' \in Boundaries
    BY <1>1, <1>4, <2>1 DEF JumpIsValid, IInv
  <2>3. programCounter' \in Nat
    BY <2>2, BoundariesInCode, JobFacts DEF IInv
  <2> QED BY <1>1, <2>2, <2>3 DEF IInv, OnBoundary, Boundaries, Running
<1> QED BY <1>3, <1>4

LEMMA FinishInvariant ==
  ASSUME IInv, NEW op \in {"STOP", "RETURN", "REVERT"}, Finish(op) PROVE IInv'
<1>1. /\ Running /\ Op # "PUSH" /\ UNCHANGED <<job, scan, validJumps>>
      /\ programCounter' = programCounter + 1 /\ status' \in {"running", "stopped"}
  BY DEF Finish
<1> QED BY <1>1, Continued

LEMMA CallMessageInvariant ==
  ASSUME IInv, NEW op \in CallOps, NEW answer, CallMessage(op, answer) PROVE IInv'
<1>1. Running /\ Op = op /\ UNCHANGED <<job, scan, validJumps>> /\ Continues
  BY DEF CallMessage, MessageAnswered
<1>2. Op # "PUSH"
  BY <1>1 DEF CallOps
<1>3. programCounter' = programCounter + 1 /\ status' \in {"running", "stopped"}
  BY <1>1 DEF Continues, Running
<1> QED BY <1>1, <1>2, <1>3, Continued

LEMMA LoseAnswerInvariant ==
  ASSUME IInv, NEW op \in CallOps, NEW answer, LoseAnswer(op, answer) PROVE IInv'
<1>1. /\ Running /\ Op = op /\ UNCHANGED <<job, scan, validJumps>>
      /\ programCounter' = programCounter + 1 /\ status' \in {"running", "stopped"}
  BY DEF LoseAnswer, MessageAnswered
<1>2. Op # "PUSH"
  BY <1>1 DEF CallOps
<1> QED BY <1>1, <1>2, Continued

LEMMA NotPush ==
  /\ "PUSH" \notin PushingOps
  /\ "PUSH" \notin CopyOps
BY DEF PushingOps, CopyOps, ComputingOps, ArithmeticOps, ComparisonOps,
       BitwiseOps, ModularOps, UnaryOps, EnvOps, LookupOps, SizeOps

LEMMA HandleInvariant ==
  ASSUME IInv, Handle PROVE IInv'
<1>1. CASE \E op \in PushingOps : PushResult(op)
  BY <1>1, NotPush, Handled DEF PushResult
<1>2. CASE Pop \/ Dup \/ Swap \/ Log
  BY <1>2, Handled DEF Pop, Dup, Swap, Log
<1>3. CASE Push
  BY <1>3, PushInvariant
<1>4. CASE \E op \in {"JUMP", "JUMPI", "JUMPDEST"} : Jump(op)
  BY <1>4, JumpInvariant
<1>5. CASE \E op \in {"MSTORE", "MSTORE8"} : StoreWord(op)
  BY <1>5, Handled DEF StoreWord
<1>6. CASE \E op \in CopyOps : Copy(op)
  BY <1>6, NotPush, Handled DEF Copy
<1>7. CASE \E op \in {"STOP", "RETURN", "REVERT"} : Finish(op)
  BY <1>7, FinishInvariant
<1>8. CASE \E op \in CallOps, answer \in Answer :
             CallMessage(op, answer) \/ LoseAnswer(op, answer)
  BY <1>8, CallMessageInvariant, LoseAnswerInvariant
<1> QED BY <1>1, <1>2, <1>3, <1>4, <1>5, <1>6, <1>7, <1>8 DEF Handle

LEMMA StepInvariant == IInv /\ [Next]_vars => IInv'
<1> SUFFICES ASSUME IInv, [Next]_vars PROVE IInv'
  OBVIOUS
<1>1. CASE FindJumpDest
  BY <1>1, FindJumpDestInvariant
<1>2. CASE Start
  BY <1>2, StartInvariant
<1>3. CASE EndOfCode \/ Trap
  BY <1>3, StoppedInvariant DEF EndOfCode, Trap
<1>4. CASE Handle
  BY <1>4, HandleInvariant
<1>5. CASE UNCHANGED vars
  BY <1>5 DEF vars, IInv, OnBoundary, Boundaries
<1> QED BY <1>1, <1>2, <1>3, <1>4, <1>5 DEF Next

\* The inductive invariant holds of every run of every code.
THEOREM RunInvariant == Spec => []IInv
<1> QED BY InitInvariant, StepInvariant, PTL DEF Spec

----------------------------------------------------------------------------
(* Numbers.                                                                *)

LEMMA DivType == \A a \in Nat, d \in Nat \ {0} : a \div d \in Nat /\ a \div d <= a
OBVIOUS
LEMMA DivMonotone == \A a, b \in Nat, d \in Nat \ {0} : a <= b => a \div d <= b \div d
OBVIOUS
LEMMA DivBounds == \A a \in Nat, d \in Nat \ {0} : a < (a \div d) * d + d
OBVIOUS
LEMMA ModType == \A a \in Nat, d \in Nat \ {0} : a % d \in 0 .. d - 1
OBVIOUS
LEMMA ProductType == \A a, b \in Nat : a * b \in Nat
OBVIOUS
LEMMA ProductMonotone == \A a, b, c \in Nat : a <= b => a * c <= b * c
OBVIOUS

LEMMA Sizes ==
  /\ ByteBits \in Nat \ {0} /\ WordBytes \in Nat \ {0}
  /\ WordBits \in Nat /\ WordBits >= 1 /\ WordBits >= ByteBits
BY WordsAssumption DEF WordBits

\* A power whose exponent is not above the bits of a word.
LEMMA PowerType ==
  ASSUME NEW n \in Nat, n <= WordBits
  PROVE  2 ^ n \in Nat \ {0}
BY PowersAssumption, Sizes

LEMMA WordType ==
  /\ TwoPow \in Nat /\ TwoPow >= 2 /\ MaxInteger \in Nat /\ 1 <= MaxInteger
  /\ Word = 0 .. TwoPow - 1 /\ Word \subseteq Nat /\ {0, 1} \subseteq Word
<1>1. TwoPow \in Nat \ {0}
  BY PowerType, Sizes DEF TwoPow
<1>2. 2 ^ (1 + (WordBits - 1)) = 2 ^ 1 * 2 ^ (WordBits - 1)
  <2>1. 1 \in 0 .. WordBits /\ WordBits - 1 \in 0 .. WordBits
    BY Sizes
  <2> QED BY <2>1, PowersAssumption, Zenon
<1>3. 2 ^ (WordBits - 1) \in Nat \ {0} /\ 1 + (WordBits - 1) = WordBits /\ 2 ^ 1 = 2
  BY PowerType, Sizes
<1>4. TwoPow >= 2
  BY <1>2, <1>3 DEF TwoPow
<1> QED BY <1>1, <1>4 DEF MaxInteger, Word

LEMMA ByteType ==
  /\ 2 ^ ByteBits \in Nat \ {0} /\ 0 \in Byte /\ Byte \subseteq Nat
  /\ \A x \in Nat : x % 2 ^ ByteBits \in Byte
<1>1. 2 ^ ByteBits \in Nat \ {0}
  BY PowerType, Sizes
<1>2. PICK range \in Nat \ {0} : range = 2 ^ ByteBits
  BY <1>1
<1>3. /\ 0 \in 0 .. range - 1 /\ 0 .. range - 1 \subseteq Nat
      /\ \A x \in Nat : x % range \in 0 .. range - 1
  BY ModType
<1> QED BY <1>1, <1>2, <1>3, Zenon DEF Byte

----------------------------------------------------------------------------
(* Sums of powers.                                                         *)

PowerSum(S) == MapThenSumSet(LAMBDA n : 2 ^ n, S)

LEMMA PowerSumType ==
  ASSUME NEW S \in SUBSET (0 .. WordBits - 1)
  PROVE  PowerSum(S) \in Nat
<1> DEFINE pick(s) == CHOOSE x \in s : TRUE
           f == [n \in S |-> 2 ^ n]
<1>1. PowerSum(S) =
        (CHOOSE it : it = [s \in SUBSET S |->
           IF s = {} THEN 0 ELSE 2 ^ pick(s) + it[s \ {pick(s)}]])[S]
  BY DEF PowerSum, MapThenSumSet, MapThenFoldSet
<1>2. Total(S, f) =
        (CHOOSE it : it = [s \in SUBSET S |->
           IF s = {} THEN 0 ELSE f[pick(s)] + it[s \ {pick(s)}]])[S]
  BY DEF Total, Recursion
<1>3. \A s \in SUBSET S : s # {} => f[pick(s)] = 2 ^ pick(s)
  OBVIOUS
<1>4. f \in [S -> Nat]
  BY PowerType, Sizes
<1>5. IsFiniteSet(S)
  <2>1. IsFiniteSet(0 .. WordBits - 1)
    BY Sizes, FS_Interval
  <2> QED BY <2>1, FS_Subset
<1> HIDE DEF pick, f
<1>6. ASSUME NEW it
      PROVE  [s \in SUBSET S |-> IF s = {} THEN 0 ELSE 2 ^ pick(s) + it[s \ {pick(s)}]]
               = [s \in SUBSET S |-> IF s = {} THEN 0 ELSE f[pick(s)] + it[s \ {pick(s)}]]
  BY <1>3
<1>7. (CHOOSE it : it = [s \in SUBSET S |->
         IF s = {} THEN 0 ELSE 2 ^ pick(s) + it[s \ {pick(s)}]])
        = (CHOOSE it : it = [s \in SUBSET S |->
             IF s = {} THEN 0 ELSE f[pick(s)] + it[s \ {pick(s)}]])
  BY <1>6
<1> QED BY <1>1, <1>2, <1>4, <1>5, <1>7, TotalType

LEMMA BitsType ==
  ASSUME NEW x, NEW y
  PROVE  /\ BitAnd(x, y) \in Nat /\ BitOr(x, y) \in Nat /\ BitXor(x, y) \in Nat
         /\ Notn(x) \in Nat
<1>1. BitAnd(x, y) = PowerSum({n \in 0 .. WordBits - 1 : Bit(x, n) = 1 /\ Bit(y, n) = 1})
  BY Zenon DEF BitAnd, FromBits, PowerSum
<1>2. BitOr(x, y) = PowerSum({n \in 0 .. WordBits - 1 : Bit(x, n) = 1 \/ Bit(y, n) = 1})
  BY Zenon DEF BitOr, FromBits, PowerSum
<1>3. BitXor(x, y) = PowerSum({n \in 0 .. WordBits - 1 : Bit(x, n) # Bit(y, n)})
  BY Zenon DEF BitXor, FromBits, PowerSum
<1>4. Notn(x) = PowerSum({n \in 0 .. WordBits - 1 : Bit(x, n) = 0})
  BY Zenon DEF Notn, FromBits, PowerSum
<1> QED BY <1>1, <1>2, <1>3, <1>4, PowerSumType

----------------------------------------------------------------------------
(* What is computed is a natural number.                                   *)

LEMMA FromTwosType ==
  ASSUME NEW x \in Word
  PROVE  FromTwos(x) \in Int /\ (x # 0 => FromTwos(x) # 0)
BY BitsType, WordType DEF FromTwos

LEMMA ToTwosType ==
  ASSUME NEW x \in Int
  PROVE  ToTwos(x) \in Nat
BY BitsType DEF ToTwos

LEMMA AbsType == \A x \in Int : Abs(x) \in Nat /\ (x # 0 => Abs(x) # 0)
BY DEF Abs

LEMMA BytesAbove ==
  ASSUME NEW k \in Nat, k < WordBytes
  PROVE  k * ByteBits \in Nat /\ k * ByteBits <= WordBits - ByteBits
<1> DEFINE rest == WordBytes - k - 1
<1>1. rest \in Nat /\ WordBytes = k + 1 + rest
  BY Sizes
<1> HIDE DEF rest
<1>2. WordBits = ByteBits * k + ByteBits + ByteBits * rest
  BY <1>1, Sizes DEF WordBits
<1>3. ByteBits * rest \in Nat /\ ByteBits * k \in Nat /\ ByteBits * k = k * ByteBits
  BY <1>1, Sizes, ProductType
<1> QED BY <1>2, <1>3, Sizes

\* The recursion of the modular power has a solution, and its values are words.
LEMMA PowerModuloType ==
  ASSUME NEW x \in Word, NEW n \in Nat
  PROVE  PowerModulo(x, n) \in Nat
<1> DEFINE next(value) == (value * x) % TwoPow
           Solves(f, m) == f = [k \in 0 .. m |-> IF k = 0 THEN 1 ELSE next(f[k - 1])]
           power == CHOOSE f : Solves(f, n)
<1>1. \A value \in Nat : next(value) \in Nat
  BY WordType, ProductType, ModType
<1> HIDE DEF next
<1>2. \E f : Solves(f, n)
  <2> DEFINE Bad == {m \in Nat : ~\E f : Solves(f, m)}
  <2> SUFFICES ASSUME n \in Bad PROVE FALSE
    OBVIOUS
  <2>1. PICK m \in Bad : \A k \in Bad : m <= k
    <3>1. Bad \in SUBSET Nat /\ Bad # {}
      OBVIOUS
    <3> HIDE DEF Bad
    <3> QED BY <3>1, Least
  <2>2. m \in Nat /\ ~\E f : Solves(f, m)
    OBVIOUS
  <2>3. CASE m = 0
    <3>1. Solves([k \in 0 .. 0 |-> 1], 0)
      OBVIOUS
    <3> QED BY <2>2, <2>3, <3>1
  <2>4. CASE m # 0
    <3>1. m - 1 \in Nat /\ m - 1 \notin Bad
      <4>1. m - 1 \in Nat /\ ~(m <= m - 1)
        BY <2>2, <2>4
      <4> HIDE DEF Bad
      <4> QED BY <2>1, <4>1
    <3>2. PICK f : Solves(f, m - 1)
      BY <3>1
    <3> DEFINE g == [k \in 0 .. m |-> IF k < m THEN f[k] ELSE next(f[m - 1])]
    <3>3. ASSUME NEW k \in 0 .. m
          PROVE  g[k] = IF k = 0 THEN 1 ELSE next(g[k - 1])
      BY <2>2, <2>4, <3>2
    <3>4. Solves(g, m)
      BY <3>3
    <3> QED BY <2>2, <3>4
  <2> QED BY <2>3, <2>4
<1>3. Solves(power, n)
  BY <1>2
<1> HIDE DEF power
<1>4. ASSUME NEW k \in 0 .. n, power[k] \notin Nat PROVE FALSE
  <2> DEFINE Bad == {m \in 0 .. n : power[m] \notin Nat}
  <2>1. PICK m \in Bad : \A j \in Bad : m <= j
    <3>1. Bad \in SUBSET Nat /\ Bad # {}
      BY <1>4
    <3> HIDE DEF Bad
    <3> QED BY <3>1, Least
  <2>2. m \in 0 .. n /\ power[m] \notin Nat /\ power[m] = IF m = 0 THEN 1 ELSE next(power[m - 1])
    BY <1>3
  <2>3. m # 0 /\ m - 1 \in 0 .. n /\ m - 1 \notin Bad
    BY <2>1, <2>2
  <2>4. power[m - 1] \in Nat
    BY <2>3
  <2> QED BY <1>1, <2>2, <2>3, <2>4
<1>5. PowerModulo(x, n) = power[n]
  BY DEF PowerModulo, power, next
<1> QED BY <1>4, <1>5

LEMMA ArithmeticType ==
  ASSUME NEW op \in ArithmeticOps, NEW a \in Word, NEW b \in Word
  PROVE  Arithmetic(op, a, b) \in Nat
<1>1. a \in Nat /\ b \in Nat /\ TwoPow \in Nat \ {0}
  BY WordType
<1>2. (a + b) % TwoPow \in Nat /\ (a * b) % TwoPow \in Nat
  BY <1>1, ModType, ProductType
<1>3. SUB(a, b) \in Nat
  BY <1>1, ToTwosType DEF SUB
<1>4. b # 0 => a \div b \in Nat /\ a % b \in Nat
  BY <1>1, DivType, ModType
<1>5. SDIV(a, b) \in Nat
  <2>1. CASE b # 0
    <3>1. /\ FromTwos(a) \in Int /\ Abs(FromTwos(a)) \in Nat
          /\ FromTwos(b) \in Int /\ Abs(FromTwos(b)) \in Nat \ {0}
      BY <2>1, FromTwosType, AbsType
    <3>2. Div(FromTwos(a), FromTwos(b)) \in Int
      BY <3>1, DivType DEF Div
    <3> QED BY <1>1, <2>1, <3>2, ToTwosType DEF SDIV
  <2> QED BY <1>1, <2>1 DEF SDIV
<1>6. SMOD(a, b) \in Nat
  <2>1. CASE b # 0
    <3>1. /\ FromTwos(a) \in Int /\ Abs(FromTwos(a)) \in Nat
          /\ FromTwos(b) \in Int /\ Abs(FromTwos(b)) \in Nat \ {0}
      BY <2>1, FromTwosType, AbsType
    <3>2. Abs(FromTwos(a)) % Abs(FromTwos(b)) \in Nat
      BY <3>1, ModType
    <3> QED BY <1>1, <2>1, <3>1, <3>2, ToTwosType DEF SMOD
  <2> QED BY <1>1, <2>1 DEF SMOD
<1>7. EXP(a, b) \in Nat
  BY <1>1, PowerModuloType DEF EXP
<1>8. SIGNEXTEND(a, b) \in Nat
  BY <1>1, BitsType DEF SIGNEXTEND
<1> QED BY <1>1, <1>2, <1>3, <1>4, <1>5, <1>6, <1>7, <1>8 DEF Arithmetic, ArithmeticOps

LEMMA FlagType == \A holds : Flag(holds) \in {0, 1}
BY DEF Flag

LEMMA Bitwise2Type ==
  ASSUME NEW op \in BitwiseOps, NEW a \in Word, NEW b \in Word
  PROVE  Bitwise2(op, a, b) \in Nat
<1>1. a \in Nat /\ b \in Nat
  BY WordType
<1>2. BYTE(a, b) \in Nat
  <2>1. CASE a < WordBytes
    <3> DEFINE places == (WordBytes - 1 - a) * ByteBits
    <3>1. WordBytes - 1 - a \in Nat /\ WordBytes - 1 - a < WordBytes
      BY <1>1, <2>1, Sizes
    <3>2. places \in Nat /\ places <= WordBits
      BY <3>1, BytesAbove, Sizes
    <3> HIDE DEF places
    <3>3. 2 ^ places \in Nat \ {0}
      BY <3>2, PowerType
    <3>4. b \div 2 ^ places \in Nat
      BY <1>1, <3>3, DivType
    <3>5. (b \div 2 ^ places) % 2 ^ ByteBits \in Nat
      BY <3>4, ByteType
    <3> QED BY <1>1, <2>1, <3>5, Sizes DEF BYTE, places
  <2> QED BY <1>1, <2>1, Sizes DEF BYTE
<1>3. SHL(a, b) \in Nat
  BY BitsType DEF SHL
<1>4. SHR(a, b) \in Nat
  <2>1. CASE a < WordBits
    <3>1. 2 ^ a \in Nat \ {0}
      BY <1>1, <2>1, Sizes, PowerType
    <3>2. b \div 2 ^ a \in Nat
      BY <1>1, <3>1, DivType
    <3> QED BY <1>1, <3>2 DEF SHR
  <2> QED BY <1>1, <2>1, Sizes DEF SHR
<1>5. SAR(a, b) \in Nat
  BY <1>4, BitsType, WordType DEF SAR
<1> QED BY <1>2, <1>3, <1>4, <1>5, BitsType DEF Bitwise2, BitwiseOps

LEMMA ModularType ==
  ASSUME NEW op, NEW a \in Word, NEW b \in Word, NEW c \in Word
  PROVE  Modular(op, a, b, c) \in Nat
<1>1. a \in Nat /\ b \in Nat /\ c \in Nat
  BY WordType
<1>2. a + b \in Nat /\ a * b \in Nat
  BY <1>1, ProductType
<1>3. c # 0 => (a + b) % c \in Nat /\ (a * b) % c \in Nat
  BY <1>1, <1>2, ModType
<1> QED BY <1>1, <1>3 DEF Modular

\* What the handlers compute from words is never negative: what looks negative
\* on the way has been brought back by toTwos.
LEMMA ComputedType ==
  ASSUME NEW op \in ComputingOps, NEW args, args[1] \in Word,
         op \notin UnaryOps => args[2] \in Word,
         op \in ModularOps => args[3] \in Word
  PROVE  Computed(op, args) \in Nat
<1>1. CASE op \in ArithmeticOps
  <2>1. Computed(op, args) = Arithmetic(op, args[1], args[2]) /\ op \notin UnaryOps
    BY <1>1 DEF Computed, ArithmeticOps, ComparisonOps, BitwiseOps, ModularOps, UnaryOps
  <2> QED BY <1>1, <2>1, ArithmeticType
<1>2. CASE op \in ComparisonOps
  <2>1. Computed(op, args) = Comparison(op, args[1], args[2])
    BY <1>2 DEF Computed, ArithmeticOps, ComparisonOps, BitwiseOps, ModularOps, UnaryOps
  <2>2. Comparison(op, args[1], args[2]) \in Nat
    BY <1>2, FlagType DEF Comparison, ComparisonOps
  <2> QED BY <2>1, <2>2
<1>3. CASE op \in BitwiseOps
  <2>1. Computed(op, args) = Bitwise2(op, args[1], args[2]) /\ op \notin UnaryOps
    BY <1>3 DEF Computed, ArithmeticOps, ComparisonOps, BitwiseOps, ModularOps, UnaryOps
  <2> QED BY <1>3, <2>1, Bitwise2Type
<1>4. CASE op \in ModularOps
  <2>1. Computed(op, args) = Modular(op, args[1], args[2], args[3]) /\ op \notin UnaryOps
    BY <1>4 DEF Computed, ArithmeticOps, ComparisonOps, BitwiseOps, ModularOps, UnaryOps
  <2> QED BY <1>4, <2>1, ModularType
<1>5. CASE op \in UnaryOps
  <2>1. Computed(op, args) \in {Flag(args[1] = 0), Notn(args[1])}
    BY <1>5 DEF Computed, ArithmeticOps, ComparisonOps, BitwiseOps, ModularOps, UnaryOps
  <2> QED BY <2>1, FlagType, BitsType
<1> QED BY <1>1, <1>2, <1>3, <1>4, <1>5 DEF ComputingOps

----------------------------------------------------------------------------
(* Bytes.                                                                  *)

LEMMA FiniteSequence ==
  ASSUME NEW S, NEW n \in Int, NEW f \in [1 .. n -> S]
  PROVE  f \in Seq(S) /\ Len(f) = IF n >= 0 THEN n ELSE 0
<1>1. CASE n >= 0
  BY <1>1
<1>2. CASE n < 0
  <2>1. 1 .. n = 1 .. 0 /\ 0 \in Nat
    BY <1>2
  <2>2. f \in [1 .. 0 -> S]
    BY <2>1
  <2> QED BY <1>2, <2>2
<1> QED BY <1>1, <1>2

LEMMA ReadType ==
  ASSUME NEW mem \in Seq(Byte), NEW offset \in Nat, NEW size \in Nat
  PROVE  Read(mem, offset, size) \in Seq(Byte) /\ Len(Read(mem, offset, size)) = size
<1>1. Read(mem, offset, size) \in [1 .. size -> Byte]
  BY ByteType DEF Read
<1> QED BY <1>1, FiniteSequence

LEMMA ToBytesType ==
  ASSUME NEW word \in Nat
  PROVE  ToBytes(word) \in Seq(Byte) /\ Len(ToBytes(word)) = WordBytes
<1>1. ASSUME NEW n \in 1 .. WordBytes
      PROVE  (word \div 2 ^ ((WordBytes - n) * ByteBits)) % 2 ^ ByteBits \in Byte
  <2> DEFINE places == (WordBytes - n) * ByteBits
  <2>1. WordBytes - n \in Nat /\ WordBytes - n < WordBytes
    BY Sizes
  <2>2. places \in Nat /\ places <= WordBits
    BY <2>1, BytesAbove, Sizes
  <2> HIDE DEF places
  <2>3. 2 ^ places \in Nat \ {0}
    BY <2>2, PowerType
  <2>4. word \div 2 ^ places \in Nat
    BY <2>3, DivType
  <2> QED BY <2>4, ByteType DEF places
<1>2. ToBytes(word) \in [1 .. WordBytes -> Byte]
  BY <1>1 DEF ToBytes
<1> QED BY <1>2, FiniteSequence, Sizes

LEMMA WordsForType ==
  ASSUME NEW n \in Nat
  PROVE  /\ WordsFor(n) \in Nat
         /\ n <= WordsFor(n) * WordBytes
         /\ \A m \in Nat : n <= m => WordsFor(n) <= WordsFor(m)
<1>1. WordBytes \in Nat \ {0} /\ n + WordBytes - 1 \in Nat
  BY Sizes
<1>2. WordsFor(n) \in Nat
  BY <1>1, DivType DEF WordsFor
<1>3. n <= WordsFor(n) * WordBytes
  <2> DEFINE q == WordsFor(n)
             product == q * WordBytes
  <2>1. n + WordBytes - 1 < product + WordBytes
    BY <1>1, DivBounds DEF WordsFor
  <2>2. product \in Nat
    BY <1>1, <1>2, ProductType
  <2> HIDE DEF product
  <2>3. n <= product
    BY <1>1, <2>1, <2>2
  <2> QED BY <2>3 DEF product
<1>4. ASSUME NEW m \in Nat, n <= m PROVE WordsFor(n) <= WordsFor(m)
  <2>1. m + WordBytes - 1 \in Nat /\ n + WordBytes - 1 <= m + WordBytes - 1
    BY <1>1, <1>4
  <2> QED BY <1>1, <2>1, DivMonotone DEF WordsFor
<1> QED BY <1>2, <1>3, <1>4

\* A memory that grows, grows to the end of a word.
LEMMA ExtendedType ==
  ASSUME NEW mem \in Seq(Byte), NEW offset \in Nat, NEW size \in Nat
  PROVE  /\ Extended(mem, offset, size) \in Seq(Byte)
         /\ size = 0 => Extended(mem, offset, size) = mem
         /\ \/ Len(Extended(mem, offset, size)) = Len(mem)
            \/ Len(Extended(mem, offset, size)) = WordsFor(offset + size) * WordBytes
<1> DEFINE end == WordsFor(offset + size) * WordBytes
           zeros == [n \in 1 .. end - Len(mem) |-> 0]
<1>1. end \in Nat
  <2>1. offset + size \in Nat
    OBVIOUS
  <2>2. WordsFor(offset + size) \in Nat /\ WordBytes \in Nat
    BY <2>1, WordsForType, Sizes
  <2> QED BY <2>2, ProductType
<1> HIDE DEF end
<1>2. zeros \in [1 .. end - Len(mem) -> Byte] /\ end - Len(mem) \in Int /\ Len(mem) \in Nat
  BY <1>1, ByteType
<1> HIDE DEF zeros
<1>3. zeros \in Seq(Byte) /\ Len(zeros) = IF end - Len(mem) >= 0 THEN end - Len(mem) ELSE 0
  <2> DEFINE n == end - Len(mem)
  <2> HIDE DEF n
  <2> QED BY <1>2, FiniteSequence DEF n
<1>4. mem \o zeros \in Seq(Byte) /\ Len(mem \o zeros) = Len(mem) + Len(zeros)
  BY <1>3
<1>5. Len(mem \o zeros) = Len(mem) \/ Len(mem \o zeros) = end
  BY <1>1, <1>3, <1>4
<1>6. Extended(mem, offset, size) = IF size = 0 THEN mem ELSE mem \o zeros
  BY DEF Extended, zeros, end
<1> QED BY <1>4, <1>5, <1>6 DEF end

LEMMA WrittenType ==
  ASSUME NEW mem \in Seq(Byte), NEW offset \in Nat, NEW bytes \in Seq(Byte)
  PROVE  Written(mem, offset, bytes) \in Seq(Byte) /\ Len(Written(mem, offset, bytes)) = Len(mem)
<1>1. DOMAIN mem = 1 .. Len(mem) /\ Len(mem) \in Nat /\ \A n \in DOMAIN bytes : bytes[n] \in Byte
  OBVIOUS
<1>2. Written(mem, offset, bytes) \in [1 .. Len(mem) -> Byte]
  BY <1>1 DEF Written
<1> QED BY <1>1, <1>2, FiniteSequence

LEMMA DataSliceType ==
  ASSUME NEW data \in Seq(Byte), NEW offset \in Nat, NEW length \in Nat
  PROVE  DataSlice(data, offset, length) \in Seq(Byte)
         /\ Len(DataSlice(data, offset, length)) = length
<1> DEFINE from == IF offset > Len(data) THEN Len(data) ELSE offset
           end == IF from + length > Len(data) THEN Len(data) ELSE from + length
           slice == SubSeq(data, from + 1, end)
           zeros == [n \in 1 .. length - Len(slice) |-> 0]
<1>1. from \in Nat /\ end \in Nat /\ from <= end /\ end <= Len(data) /\ end - from <= length
  OBVIOUS
<1>2. DataSlice(data, offset, length) = slice \o zeros
  BY DEF DataSlice
<1> HIDE DEF from, end
<1>3. slice \in Seq(Byte) /\ Len(slice) = end - from
  <2>1. \A n \in from + 1 .. end : data[n] \in Byte
    BY <1>1
  <2>2. /\ SubSeq(data, from + 1, end) \in Seq(Byte)
        /\ Len(SubSeq(data, from + 1, end))
             = IF from + 1 <= end THEN end - (from + 1) + 1 ELSE 0
    BY <1>1, <2>1, SubSeqProperties
  <2> QED BY <1>1, <2>2
<1> HIDE DEF slice
<1> DEFINE missing == length - Len(slice)
<1>4. missing \in Int /\ missing >= 0
  BY <1>1, <1>3
<1>5. zeros \in [1 .. missing -> Byte]
  BY ByteType
<1> HIDE DEF zeros, missing
<1>6. zeros \in Seq(Byte) /\ Len(zeros) = missing
  BY <1>4, <1>5, FiniteSequence
<1>7. slice \o zeros \in Seq(Byte) /\ Len(slice \o zeros) = Len(slice) + Len(zeros)
  BY <1>3, <1>6
<1>8. Len(slice) + Len(zeros) = length
  BY <1>1, <1>3, <1>6 DEF missing
<1> QED BY <1>2, <1>7, <1>8

\* What a sequence of bytes is worth, as a sum over its places.
LEMMA FromBytesIsTotal ==
  ASSUME NEW bytes \in Seq(Byte)
  PROVE  FromBytes(bytes)
           = Total(1 .. Len(bytes),
                   [n \in 1 .. Len(bytes) |-> bytes[n] * 2 ^ ((Len(bytes) - n) * ByteBits)])
<1> DEFINE pick(s) == CHOOSE x \in s : TRUE
           worth(n) == bytes[n] * 2 ^ ((Len(bytes) - n) * ByteBits)
           D == 1 .. Len(bytes)
           f == [n \in D |-> worth(n)]
<1>1. FromBytes(bytes) =
        (CHOOSE it : it = [s \in SUBSET D |->
           IF s = {} THEN 0 ELSE worth(pick(s)) + it[s \ {pick(s)}]])[D]
  <2>1. DOMAIN bytes = D
    OBVIOUS
  <2>2. FromBytes(bytes) =
          (CHOOSE it : it = [s \in SUBSET DOMAIN bytes |->
             IF s = {} THEN 0 ELSE worth(pick(s)) + it[s \ {pick(s)}]])[DOMAIN bytes]
    BY DEF FromBytes, MapThenSumSet, MapThenFoldSet
  <2> HIDE DEF worth, pick, D
  <2> QED BY <2>1, <2>2
<1>2. Total(D, f) =
        (CHOOSE it : it = [s \in SUBSET D |->
           IF s = {} THEN 0 ELSE f[pick(s)] + it[s \ {pick(s)}]])[D]
  BY DEF Total, Recursion
<1>3. \A s \in SUBSET D : s # {} => f[pick(s)] = worth(pick(s))
  OBVIOUS
<1> HIDE DEF pick, f, worth, D
<1>4. ASSUME NEW it
      PROVE  [s \in SUBSET D |-> IF s = {} THEN 0 ELSE worth(pick(s)) + it[s \ {pick(s)}]]
               = [s \in SUBSET D |-> IF s = {} THEN 0 ELSE f[pick(s)] + it[s \ {pick(s)}]]
  BY <1>3
<1>5. (CHOOSE it : it = [s \in SUBSET D |->
         IF s = {} THEN 0 ELSE worth(pick(s)) + it[s \ {pick(s)}]])
        = (CHOOSE it : it = [s \in SUBSET D |->
             IF s = {} THEN 0 ELSE f[pick(s)] + it[s \ {pick(s)}]])
  BY <1>4
<1>6. FromBytes(bytes) = Total(D, f)
  BY <1>1, <1>2, <1>5
<1> QED BY <1>6 DEF f, worth, D

\* Places of a sequence no longer than a word.
LEMMA PlacesType ==
  ASSUME NEW d \in Nat, d <= WordBytes
  PROVE  d * ByteBits \in Nat /\ d * ByteBits <= WordBits
<1>1. CASE d < WordBytes
  BY <1>1, BytesAbove, Sizes
<1>2. CASE d = WordBytes
  <2>1. WordBytes * ByteBits = ByteBits * WordBytes
    BY Sizes
  <2> QED BY <1>2, <2>1, Sizes DEF WordBits
<1> QED BY <1>1, <1>2, Sizes

\* The bytes of a sequence no longer than a word are worth a word.
LEMMA FromBytesType ==
  ASSUME NEW bytes \in Seq(Byte), Len(bytes) <= WordBytes
  PROVE  FromBytes(bytes) \in Word
<1> DEFINE L == Len(bytes)
           f == [n \in 1 .. L |-> bytes[n] * 2 ^ ((L - n) * ByteBits)]
           size(d) == Cardinality(Units((L - d + 1) .. L, f))
           range(d) == 2 ^ (d * ByteBits)
<1>1. L \in Nat /\ L <= WordBytes /\ FromBytes(bytes) = Total(1 .. L, f)
  BY FromBytesIsTotal
<1>2. \A d \in 0 .. L : range(d) \in Nat \ {0}
  <2> SUFFICES ASSUME NEW d \in 0 .. L PROVE range(d) \in Nat \ {0}
    OBVIOUS
  <2>1. d \in Nat /\ d <= WordBytes
    BY <1>1, Sizes
  <2> QED BY <2>1, PlacesType, PowerType
<1>3. ASSUME NEW n \in 1 .. L
      PROVE  f[n] \in Nat /\ f[n] <= (2 ^ ByteBits - 1) * range(L - n)
  <2> DEFINE b == bytes[n]
             r == range(L - n)
             top == 2 ^ ByteBits - 1
  <2>1. b \in 0 .. top
    <3>1. bytes[n] \in Byte
      <4> HIDE DEF f
      <4> QED BY <1>1
    <3> QED BY <3>1, Zenon DEF Byte
  <2>2. L - n \in 0 .. L /\ f[n] = b * r
    BY <1>1
  <2>3. r \in Nat /\ top \in Nat
    <3>1. r \in Nat
      BY <1>2, <2>2
    <3>2. top \in Nat
      <4>1. PICK p \in Nat \ {0} : p = 2 ^ ByteBits
        BY ByteType
      <4>2. top = p - 1
        BY <4>1, Zenon
      <4> QED BY <4>1, <4>2
    <3> QED BY <3>1, <3>2, Zenon
  <2> HIDE DEF b, r, top, f
  <2>4. b * r \in Nat /\ b * r <= top * r
    BY <2>1, <2>3, ProductType, ProductMonotone
  <2> QED BY <2>2, <2>4 DEF r, top
<1>4. f \in [1 .. L -> Nat] /\ IsFiniteSet(1 .. L)
  <2>1. IsFiniteSet(1 .. L)
    BY <1>1, FS_Interval
  <2>2. \A n \in 1 .. L : f[n] \in Nat
    BY <1>3
  <2> QED BY <2>1, <2>2
<1>5. Total(1 .. L, f) = Cardinality(Units(1 .. L, f))
  <2> HIDE DEF f, L
  <2> QED BY <1>4, TotalIsUnits
<1>6. \A d \in 0 .. L : size(d) \in Nat
  <2> SUFFICES ASSUME NEW d \in 0 .. L PROVE size(d) \in Nat
    OBVIOUS
  <2>1. (L - d + 1) .. L \in SUBSET (1 .. L)
    BY <1>1
  <2> HIDE DEF f, L
  <2> QED BY <1>4, <2>1, UnitsFinite
<1>7. ASSUME NEW d \in 1 .. L
      PROVE  /\ size(d) = f[L - d + 1] + size(d - 1)
             /\ range(d) = 2 ^ ByteBits * range(d - 1)
  <2> DEFINE s == (L - d + 1) .. L
             x == L - d + 1
  <2>1. s \in SUBSET (1 .. L) /\ x \in s /\ s \ {x} = (L - (d - 1) + 1) .. L
    BY <1>1
  <2>2. size(d) = f[L - d + 1] + size(d - 1)
    <3> HIDE DEF f, L
    <3>1. Cardinality(Units(s, f)) = f[x] + Cardinality(Units(s \ {x}, f))
      <4> HIDE DEF s, x
      <4> QED BY <1>4, <2>1, UnitsSplit
    <3> QED BY <2>1, <3>1
  <2>3. d * ByteBits = ByteBits + (d - 1) * ByteBits
    BY <1>1, Sizes
  <2>4. ByteBits \in 0 .. WordBits /\ (d - 1) * ByteBits \in 0 .. WordBits
    <3>1. d - 1 \in Nat /\ d - 1 <= WordBytes
      BY <1>1, Sizes
    <3> QED BY <3>1, PlacesType, Sizes
  <2>5. 2 ^ (ByteBits + (d - 1) * ByteBits) = 2 ^ ByteBits * 2 ^ ((d - 1) * ByteBits)
    BY <2>4, PowersAssumption
  <2> QED BY <2>2, <2>3, <2>5
<1>8. size(0) = 0
  <2>1. Units((L - 0 + 1) .. L, f) = {}
    BY <1>1 DEF Units
  <2> QED BY <2>1, FS_EmptySet
<1>9. \A d \in 0 .. L : size(d) < range(d)
  <2> DEFINE Bad == {d \in 0 .. L : ~(size(d) < range(d))}
  <2> SUFFICES ASSUME Bad # {} PROVE FALSE
    OBVIOUS
  <2>1. PICK d \in Bad : \A k \in Bad : d <= k
    <3>1. Bad \in SUBSET Nat
      BY <1>1
    <3> HIDE DEF Bad
    <3> QED BY <3>1, Least
  <2>2. d \in 0 .. L /\ ~(size(d) < range(d))
    OBVIOUS
  <2> HIDE DEF size, range
  <2>3. d # 0
    BY <1>1, <1>2, <1>8, <2>2
  <2>4. d \in 1 .. L /\ d - 1 \in 0 .. L
    BY <1>1, <2>2, <2>3
  <2>5. size(d - 1) < range(d - 1)
    <3>1. d - 1 \notin Bad
      <4>1. ~(d <= d - 1)
        BY <1>1, <2>2
      <4> HIDE DEF Bad
      <4> QED BY <2>1, <4>1
    <3> QED BY <2>4, <3>1
  <2> DEFINE v == f[L - d + 1]
             r == range(d - 1)
             p == 2 ^ ByteBits
  <2>6. v \in Nat /\ v <= (p - 1) * r
    <3>1. L - d + 1 \in 1 .. L /\ L - (L - d + 1) = d - 1
      BY <1>1, <2>4
    <3> HIDE DEF f, L
    <3> QED BY <1>3, <3>1
  <2>7. size(d) = v + size(d - 1) /\ range(d) = p * r
    BY <1>7, <2>4
  <2>8. r \in Nat /\ p \in Nat \ {0} /\ size(d - 1) \in Nat
    BY <1>2, <1>6, <2>4, ByteType
  <2> HIDE DEF v, r, p
  <2>9. (p - 1) * r = p * r - r /\ p * r \in Int
    BY <2>8
  <2>10. size(d) < p * r
    BY <2>5, <2>6, <2>7, <2>8, <2>9 DEF r
  <2> QED BY <2>2, <2>7, <2>10
<1>10. size(L) = Cardinality(Units(1 .. L, f))
  <2>1. L - L + 1 = 1
    BY <1>1
  <2> HIDE DEF f, L
  <2> QED BY <2>1
<1>11. range(L) <= TwoPow
  <2> DEFINE places == L * ByteBits
             rest == WordBits - places
  <2>1. places \in Nat /\ places <= WordBits
    BY <1>1, PlacesType
  <2>2. rest \in Nat /\ rest <= WordBits /\ places + rest = WordBits
    BY <2>1, Sizes
  <2> HIDE DEF places, rest
  <2>3. 2 ^ WordBits = 2 ^ places * 2 ^ rest
    <3>1. places \in 0 .. WordBits /\ rest \in 0 .. WordBits
      BY <2>1, <2>2, Sizes
    <3>2. 2 ^ (places + rest) = 2 ^ places * 2 ^ rest
      BY <3>1, PowersAssumption
    <3> QED BY <2>2, <3>2
  <2>4. 2 ^ places \in Nat \ {0} /\ 2 ^ rest \in Nat \ {0}
    BY <2>1, <2>2, PowerType
  <2> DEFINE p == 2 ^ places
             q == 2 ^ rest
  <2> HIDE DEF p, q
  <2>5. p \in Nat \ {0} /\ q \in Nat \ {0}
    BY <2>4 DEF p, q
  <2>6. 1 * p <= q * p
    BY <2>5, ProductMonotone
  <2>7. p <= p * q
    BY <2>5, <2>6
  <2> QED BY <2>3, <2>7 DEF TwoPow, p, q, places
<1>12. size(L) \in Nat /\ size(L) < range(L) /\ range(L) \in Nat
  <2>1. L \in 0 .. L
    BY <1>1
  <2> HIDE DEF size, range
  <2> QED BY <1>2, <1>6, <1>9, <2>1
<1>13. FromBytes(bytes) = size(L)
  BY <1>1, <1>5, <1>10, Zenon
<1> HIDE DEF size, range
<1> QED BY <1>11, <1>12, <1>13, WordType

----------------------------------------------------------------------------
(* What opcodes cost at least, take and need.                              *)

HandledOps == PushingOps \cup CopyOps \cup CallOps
                \cup {"POP", "PUSH", "DUP", "SWAP", "LOG", "JUMP", "JUMPI",
                      "JUMPDEST", "MSTORE", "MSTORE8", "STOP", "RETURN", "REVERT"}

LEMMA FeeClassType ==
  /\ DOMAIN FeeClass = 1 .. 15
  /\ \A n \in 1 .. 15 : FeeClass[n][1] \in Nat
BY DEF FeeClass

LEMMA Classified ==
  ASSUME NEW op \in HandledOps
  PROVE  \E n \in DOMAIN FeeClass : op \in FeeClass[n][2]
<1> USE DEF FeeClass
<1>1. CASE op \in ArithmeticOps
  BY <1>1 DEF ArithmeticOps
<1>2. CASE op \in ComparisonOps \cup UnaryOps
  BY <1>2 DEF ComparisonOps, UnaryOps
<1>3. CASE op \in BitwiseOps \cup ModularOps
  BY <1>3 DEF BitwiseOps, ModularOps
<1>4. CASE op \in EnvOps
  BY <1>4 DEF EnvOps
<1>5. CASE op \in LookupOps \cup SizeOps
  BY <1>5 DEF LookupOps, SizeOps
<1>6. CASE op \in {"CALLDATALOAD", "PC", "MSIZE", "GAS", "MLOAD", "SHA3"}
  BY <1>6
<1>7. CASE op \in CopyOps \cup CallOps
  BY <1>7 DEF CopyOps, CallOps
<1>8. CASE op \in {"POP", "PUSH", "DUP", "SWAP", "LOG", "JUMP", "JUMPI",
                   "JUMPDEST", "MSTORE", "MSTORE8", "STOP", "RETURN", "REVERT"}
  BY <1>8
<1> HIDE DEF FeeClass
<1> QED BY <1>1, <1>2, <1>3, <1>4, <1>5, <1>6, <1>7, <1>8
        DEF HandledOps, PushingOps, ComputingOps

LEMMA FeeType ==
  ASSUME NEW fork, NEW op \in HandledOps
  PROVE  Fee(fork, op) \in Nat
<1>1. (CHOOSE n \in DOMAIN FeeClass : op \in FeeClass[n][2]) \in 1 .. 15
  BY Classified, FeeClassType
<1>2. FeeClass[CHOOSE n \in DOMAIN FeeClass : op \in FeeClass[n][2]][1] \in Nat
  BY <1>1, FeeClassType
<1>3. \A o \in DOMAIN FeeIstanbul : FeeIstanbul[o] \in Nat
  BY DEF FeeIstanbul
<1> QED BY <1>2, <1>3 DEF Fee

\* What each handler pops.
LEMMA PopsOf ==
  ASSUME NEW op
  PROVE  /\ op \in ComputingOps =>
              Pops(op) = IF op \in ModularOps THEN 3 ELSE IF op \in UnaryOps THEN 1 ELSE 2
         /\ op \in {"SHA3", "MSTORE", "MSTORE8", "JUMPI", "RETURN", "REVERT"} => Pops(op) = 2
         /\ op \in CopyOps => Pops(op) = IF op = "EXTCODECOPY" THEN 4 ELSE 3
         /\ op \in LookupOps \cup {"CALLDATALOAD", "MLOAD", "JUMP", "POP"} => Pops(op) = 1
         /\ op \in CallOps => Pops(op) = 6
         /\ op = "LOG" => Pops(op) = 2 + OpWidth
         /\ op \in EnvOps \cup SizeOps \cup {"PC", "MSIZE", "GAS", "PUSH", "DUP", "SWAP",
                                             "JUMPDEST", "STOP"} => Pops(op) = 0
BY DEF Pops, ComputingOps, ModularOps, UnaryOps, ArithmeticOps, ComparisonOps, BitwiseOps,
       CopyOps, LookupOps, CallOps, EnvOps, SizeOps

----------------------------------------------------------------------------
(* What a handler finds that has not been refused.                         *)

\* The inductive invariant of the types; memory is charged before it is written.
Typed == /\ IInv /\ TypeOK /\ lastReturned \in Seq(Byte) /\ MemoryIsCharged

\* The handler of op goes on: it is the opcode there, and nothing is wrong.
Accepted(op) == /\ Running /\ Op = op /\ Refusal(op) = NoError /\ op \in HandledOps

LEMMA AcceptedFacts ==
  ASSUME Typed, NEW op, Accepted(op)
  PROVE  /\ OpWidth \in Nat /\ Pops(op) \in Nat /\ Needs(op) \in Nat
         /\ Len(stack) \in Nat /\ Needs(op) <= Len(stack) /\ Pops(op) <= Len(stack)
         /\ ~(gasLeft < Fee(job.fork, op)) /\ ~(gasLeft < Cost(op))
         /\ op \in PushingOps => ~(Pushed(op) > MaxInteger)
         /\ Grows(op) => ~(Len(stack) - Pops(op) > StackLimit - 1)
<1>1. OpWidth \in Nat
  <2>1. programCounter \in Nat /\ programCounter < Len(job.code) /\ job \in Job
    BY DEF Typed, IInv, Accepted, Running
  <2>2. CodeByte(programCounter) \in 0 .. 255
    BY <2>1, JobFacts
  <2> QED BY <2>2, WidthIsNatural DEF OpWidth
<1>2. Len(stack) \in Nat
  BY DEF Typed, TypeOK
<1>3. Pops(op) \in Nat
  BY <1>1, PopsOf DEF Accepted, HandledOps, PushingOps
<1>4. Needs(op) \in Nat /\ Pops(op) <= Needs(op)
  <2>1. op \in {"DUP", "SWAP"} => Pops(op) = 0
    BY PopsOf
  <2> QED BY <1>1, <1>3, <2>1 DEF Needs
<1>5. /\ ~(Len(stack) < Needs(op))
      /\ ~(gasLeft < Fee(job.fork, op)) /\ ~(gasLeft < Cost(op))
      /\ ~(op \in PushingOps /\ Pushed(op) > MaxInteger)
      /\ ~(Grows(op) /\ Len(stack) - Pops(op) > StackLimit - 1)
  BY Zenon DEF Accepted, Refusal, NoError
<1> QED BY <1>1, <1>2, <1>3, <1>4, <1>5

LEMMA TopType ==
  ASSUME Typed, NEW n \in Nat \ {0}, n <= Len(stack)
  PROVE  Top(n) \in Word /\ Top(n) \in Nat
<1>1. stack \in Seq(Word) /\ Len(stack) + 1 - n \in 1 .. Len(stack)
  BY DEF Typed, TypeOK
<1>2. stack[Len(stack) + 1 - n] \in Word
  BY <1>1
<1> QED BY <1>2, WordType DEF Top

LEMMA PoppedType ==
  ASSUME Typed, NEW n \in Nat, n <= Len(stack)
  PROVE  Popped(n) \in Seq(Word) /\ Len(Popped(n)) = Len(stack) - n
<1>1. stack \in Seq(Word) /\ Len(stack) \in Nat
  BY DEF Typed, TypeOK
<1>2. \A i \in 1 .. Len(stack) - n : stack[i] \in Word
  BY <1>1
<1>3. /\ SubSeq(stack, 1, Len(stack) - n) \in Seq(Word)
      /\ Len(SubSeq(stack, 1, Len(stack) - n))
           = IF 1 <= Len(stack) - n THEN Len(stack) - n - 1 + 1 ELSE 0
  BY <1>1, <1>2, SubSeqProperties
<1> QED BY <1>1, <1>3 DEF Popped

----------------------------------------------------------------------------
(* The memory a handler asks for.                                          *)

LEMMA RegionsOf ==
  ASSUME NEW op
  PROVE  /\ op \in {"MLOAD", "MSTORE"} => Regions(op) = {<<Top(1), WordBytes>>}
         /\ op = "MSTORE8" => Regions(op) = {<<Top(1), 1>>}
         /\ op \in {"SHA3", "LOG", "RETURN", "REVERT"} => Regions(op) = {<<Top(1), Top(2)>>}
         /\ op \in CopyOps =>
              Regions(op) = IF op = "EXTCODECOPY" THEN {<<Top(2), Top(4)>>}
                                                  ELSE {<<Top(1), Top(3)>>}
         /\ op \in CallOps => Regions(op) = {<<Top(3), Top(4)>>, <<Top(5), Top(6)>>}
         /\ op \notin {"MLOAD", "MSTORE", "MSTORE8", "SHA3", "LOG", "RETURN", "REVERT"}
                      \cup CopyOps \cup CallOps => Regions(op) = {}
<1> DEFINE load == {<<Top(1), WordBytes>>}
           byte == {<<Top(1), 1>>}
           slice == {<<Top(1), Top(2)>>}
           copy == {<<Top(1), Top(3)>>}
           extCopy == {<<Top(2), Top(4)>>}
           calls == CallRegions
<1>1. calls = {<<Top(3), Top(4)>>, <<Top(5), Top(6)>>}
  BY DEF CallRegions
<1>2. Regions(op) =
        CASE op = "MLOAD" \/ op = "MSTORE" -> load
          [] op = "MSTORE8" -> byte
          [] op \in {"SHA3", "LOG", "RETURN", "REVERT"} -> slice
          [] op \in CopyOps \ {"EXTCODECOPY"} -> copy
          [] op = "EXTCODECOPY" -> extCopy
          [] op \in CallOps -> calls
          [] OTHER -> {}
  BY Zenon DEF Regions
<1> HIDE DEF load, byte, slice, copy, extCopy, calls
<1>3. /\ op \in {"MLOAD", "MSTORE"} => Regions(op) = load
      /\ op = "MSTORE8" => Regions(op) = byte
      /\ op \in {"SHA3", "LOG", "RETURN", "REVERT"} => Regions(op) = slice
      /\ op \in CopyOps => Regions(op) = IF op = "EXTCODECOPY" THEN extCopy ELSE copy
      /\ op \in CallOps => Regions(op) = calls
      /\ op \notin {"MLOAD", "MSTORE", "MSTORE8", "SHA3", "LOG", "RETURN", "REVERT"}
                   \cup CopyOps \cup CallOps => Regions(op) = {}
  BY <1>2 DEF CopyOps, CallOps
<1> QED BY <1>1, <1>3, Zenon DEF load, byte, slice, copy, extCopy

LEMMA Pair ==
  ASSUME NEW a \in Nat, NEW b \in Nat, NEW c \in Nat, NEW d \in Nat,
         NEW S, S \subseteq {<<a, b>>, <<c, d>>}
  PROVE  \E p, q \in Nat \X Nat : S \subseteq {p, q}
<1>1. <<a, b>> \in Nat \X Nat /\ <<c, d>> \in Nat \X Nat
  OBVIOUS
<1> QED BY <1>1, Zenon

LEMMA RegionsType ==
  ASSUME Typed, NEW op, Accepted(op)
  PROVE  \E p, q \in Nat \X Nat : Regions(op) \subseteq {p, q}
<1> DEFINE Within(a, b, c, d) == Regions(op) \subseteq {<<a, b>>, <<c, d>>}
<1> SUFFICES \E a, b, c, d \in Nat : Within(a, b, c, d)
  BY Pair, Zenon
<1>1. WordBytes \in Nat /\ 0 \in Nat /\ 1 \in Nat
  BY Sizes
<1>2. CASE op \in {"MLOAD", "MSTORE", "MSTORE8"}
  <2>1. Top(1) \in Nat
    <3>1. Pops(op) >= 1
      BY <1>2, PopsOf
    <3> QED BY <3>1, AcceptedFacts, TopType
  <2>2. Within(Top(1), WordBytes, Top(1), 1)
    <3>1. Regions(op) = {<<Top(1), WordBytes>>} \/ Regions(op) = {<<Top(1), 1>>}
      BY <1>2, RegionsOf, Zenon
    <3> QED BY <3>1, Zenon
  <2> HIDE DEF Within
  <2> QED BY <1>1, <2>1, <2>2
<1>3. CASE op \in {"SHA3", "LOG", "RETURN", "REVERT"}
  <2>1. Top(1) \in Nat /\ Top(2) \in Nat
    <3>1. Pops(op) >= 2
      BY <1>3, PopsOf, AcceptedFacts
    <3> QED BY <3>1, AcceptedFacts, TopType
  <2>2. Within(Top(1), Top(2), Top(1), Top(2))
    BY <1>3, RegionsOf, Zenon
  <2> HIDE DEF Within
  <2> QED BY <2>1, <2>2
<1>4. CASE op \in CopyOps
  <2>1. Pops(op) = IF op = "EXTCODECOPY" THEN 4 ELSE 3
    BY <1>4, PopsOf
  <2>2. CASE op = "EXTCODECOPY"
    <3>1. Top(2) \in Nat /\ Top(4) \in Nat
      BY <2>1, <2>2, AcceptedFacts, TopType
    <3>2. Within(Top(2), Top(4), Top(2), Top(4))
      BY <1>4, <2>2, RegionsOf, Zenon
    <3> HIDE DEF Within
    <3> QED BY <3>1, <3>2
  <2>3. CASE op # "EXTCODECOPY"
    <3>1. Top(1) \in Nat /\ Top(3) \in Nat
      BY <2>1, <2>3, AcceptedFacts, TopType
    <3>2. Within(Top(1), Top(3), Top(1), Top(3))
      BY <1>4, <2>3, RegionsOf, Zenon
    <3> HIDE DEF Within
    <3> QED BY <3>1, <3>2
  <2> QED BY <2>2, <2>3
<1>5. CASE op \in CallOps
  <2>1. Top(3) \in Nat /\ Top(4) \in Nat /\ Top(5) \in Nat /\ Top(6) \in Nat
    BY <1>5, PopsOf, AcceptedFacts, TopType
  <2>2. Within(Top(3), Top(4), Top(5), Top(6))
    BY <1>5, RegionsOf, Zenon
  <2> HIDE DEF Within
  <2> QED BY <2>1, <2>2
<1>6. CASE op \notin {"MLOAD", "MSTORE", "MSTORE8", "SHA3", "LOG", "RETURN", "REVERT"}
                     \cup CopyOps \cup CallOps
  <2>1. Within(0, 0, 0, 0)
    BY <1>6, RegionsOf, Zenon
  <2> HIDE DEF Within
  <2> QED BY <1>1, <2>1
<1> HIDE DEF Within
<1> QED BY <1>2, <1>3, <1>4, <1>5, <1>6

LEMMA MaxOfThree ==
  ASSUME NEW a \in Nat, NEW b \in Nat, NEW c \in Nat, NEW S \in SUBSET {a, b, c}, S # {}
  PROVE  Max(S) \in S /\ \A y \in S : Max(S) >= y
<1>1. \E x \in S : \A y \in S : x >= y
  <2>1. S \in SUBSET Nat /\ \A x \in S : x = a \/ x = b \/ x = c
    OBVIOUS
  <2>2. CASE a \in S /\ (b \in S => a >= b) /\ (c \in S => a >= c)
    BY <2>1, <2>2
  <2>3. CASE b \in S /\ (a \in S => b >= a) /\ (c \in S => b >= c)
    BY <2>1, <2>3
  <2>4. CASE c \in S /\ (a \in S => c >= a) /\ (b \in S => c >= b)
    BY <2>1, <2>4
  <2>5. a \in S \/ b \in S \/ c \in S
    BY <2>1
  <2> QED BY <2>2, <2>3, <2>4, <2>5
<1> QED BY <1>1 DEF Max

LEMMA WordsTouchedType ==
  ASSUME Typed, NEW op, Accepted(op)
  PROVE  /\ WordsTouched(op) \in Nat
         /\ memoryWordCount <= WordsTouched(op)
         /\ \A r \in Regions(op) : r[2] # 0 => WordsFor(r[1] + r[2]) <= WordsTouched(op)
<1>1. PICK p, q \in Nat \X Nat : Regions(op) \subseteq {p, q}
  BY RegionsType
<1> DEFINE asked == {WordsFor(r[1] + r[2]) : r \in {s \in Regions(op) : s[2] # 0}}
           S == {memoryWordCount} \cup asked
           a == memoryWordCount
           b == WordsFor(p[1] + p[2])
           c == WordsFor(q[1] + q[2])
<1>2. a \in Nat
  BY DEF Typed, TypeOK
<1>3. b \in Nat /\ c \in Nat
  <2>1. p[1] + p[2] \in Nat /\ q[1] + q[2] \in Nat
    OBVIOUS
  <2> QED BY <2>1, WordsForType
<1>4. S \in SUBSET {a, b, c} /\ S # {} /\ a \in S
  BY <1>1
<1>5. \A r \in Regions(op) : r[2] # 0 => WordsFor(r[1] + r[2]) \in S
  OBVIOUS
<1>6. WordsTouched(op) = Max(S)
  BY DEF WordsTouched
<1> HIDE DEF S, a, b, c
<1>7. Max(S) \in S /\ \A y \in S : Max(S) >= y
  BY <1>2, <1>3, <1>4, MaxOfThree
<1>8. S \subseteq Nat
  BY <1>2, <1>3, <1>4
<1> QED BY <1>4, <1>5, <1>6, <1>7, <1>8 DEF a

LEMMA MemoryCostType ==
  ASSUME NEW m \in Nat, NEW n \in Nat, m <= n
  PROVE  MemoryCost(m) \in Nat /\ MemoryCost(n) \in Nat /\ MemoryCost(m) <= MemoryCost(n)
<1> DEFINE price == Price.memory
           divisor == Price.quadCoeffDiv
<1>1. price \in Nat /\ divisor \in Nat \ {0}
  BY EnvironmentAssumption
<1> HIDE DEF price, divisor
<1>2. /\ m * price \in Nat /\ n * price \in Nat /\ m * price <= n * price
      /\ m * m \in Nat /\ n * n \in Nat
  BY <1>1, ProductType, ProductMonotone
<1>3. m * m <= n * n
  <2>1. m * m <= n * m /\ m * n <= n * n /\ m * n = n * m
    BY ProductMonotone
  <2> QED BY <1>2, <2>1, ProductType
<1>4. /\ (m * m) \div divisor \in Nat /\ (n * n) \div divisor \in Nat
      /\ (m * m) \div divisor <= (n * n) \div divisor
  BY <1>1, <1>2, <1>3, DivType, DivMonotone
<1> DEFINE u == (m * m) \div divisor
           v == (n * n) \div divisor
           x == m * price
           y == n * price
<1>5. MemoryCost(m) = x + u /\ MemoryCost(n) = y + v
  BY DEF MemoryCost, price, divisor
<1>6. x \in Nat /\ y \in Nat /\ u \in Nat /\ v \in Nat /\ x <= y /\ u <= v
  BY <1>2, <1>4
<1> HIDE DEF u, v, x, y
<1> QED BY <1>5, <1>6

LEMMA ByteLengthType ==
  ASSUME NEW x \in Word
  PROVE  ByteLength(x) \in Nat
<1> DEFINE Fits == {n \in 0 .. WordBytes : x < 2 ^ (n * ByteBits)}
<1>1. WordBytes \in Fits
  <2>1. WordBytes * ByteBits = WordBits
    BY Sizes DEF WordBits
  <2>2. x < TwoPow
    BY WordType
  <2>3. WordBytes \in 0 .. WordBytes
    BY Sizes
  <2> QED BY <2>1, <2>2, <2>3, Zenon DEF TwoPow
<1>2. PICK m \in Fits : \A k \in Fits : m <= k
  <2>1. Fits \in SUBSET Nat
    BY Sizes
  <2> HIDE DEF Fits
  <2> QED BY <1>1, <2>1, Least
<1>3. m \in 0 .. WordBytes /\ m \in Nat /\ x < 2 ^ (m * ByteBits)
  BY Sizes
<1>4. m # 0 => x >= 2 ^ ((m - 1) * ByteBits)
  <2> SUFFICES ASSUME m # 0 PROVE x >= 2 ^ ((m - 1) * ByteBits)
    OBVIOUS
  <2>1. m - 1 \in 0 .. WordBytes /\ m - 1 \in Nat /\ m - 1 <= WordBytes /\ ~(m <= m - 1)
    BY <1>3, Sizes
  <2>2. ~(x < 2 ^ ((m - 1) * ByteBits))
    BY <1>2, <2>1
  <2>3. 2 ^ ((m - 1) * ByteBits) \in Nat
    BY <2>1, PlacesType, PowerType
  <2> QED BY <2>2, <2>3, WordType
<1>5. \E n \in 0 .. WordBytes : /\ x < 2 ^ (n * ByteBits)
                                /\ n = 0 \/ x >= 2 ^ ((n - 1) * ByteBits)
  <2> HIDE DEF Fits
  <2> QED BY <1>3, <1>4, Zenon
<1>6. ByteLength(x) \in 0 .. WordBytes
  BY <1>5, Zenon DEF ByteLength
<1> QED BY <1>6

LEMMA ArgumentCostType ==
  ASSUME Typed, NEW op, Accepted(op)
  PROVE  ArgumentCost(op) \in Nat
<1>1. \A of \in {"memory", "expByte", "sha3Word", "copy", "logTopic", "logData"} :
        Price[of] \in Nat
  BY EnvironmentAssumption
<1>2. CASE op = "EXP"
  <2>1. Top(2) \in Word
    <3>1. op \in ComputingOps /\ op \notin ModularOps /\ op \notin UnaryOps
      BY <1>2 DEF ComputingOps, ArithmeticOps, ModularOps, UnaryOps
    <3>2. Pops(op) = 2
      BY <3>1, PopsOf
    <3> QED BY <3>2, AcceptedFacts, TopType
  <2>2. ByteLength(Top(2)) \in Nat /\ Price.expByte \in Nat
    BY <1>1, <2>1, ByteLengthType
  <2>3. ArgumentCost(op) = Price.expByte * ByteLength(Top(2))
    BY <1>2 DEF ArgumentCost, CopyOps
  <2> QED BY <2>2, <2>3, ProductType
<1>3. CASE op = "SHA3"
  <2>1. Top(2) \in Nat
    <3>1. Pops(op) = 2
      BY <1>3, PopsOf
    <3> QED BY <3>1, AcceptedFacts, TopType
  <2>2. WordsFor(Top(2)) \in Nat /\ Price.sha3Word \in Nat
    BY <1>1, <2>1, WordsForType
  <2>3. ArgumentCost(op) = Price.sha3Word * WordsFor(Top(2))
    BY <1>3 DEF ArgumentCost, CopyOps
  <2> QED BY <2>2, <2>3, ProductType
<1>4. CASE op \in CopyOps
  <2>1. Top(Pops(op)) \in Nat
    <3>1. Pops(op) \in Nat \ {0}
      BY <1>4, PopsOf
    <3> QED BY <3>1, AcceptedFacts, TopType
  <2>2. WordsFor(Top(Pops(op))) \in Nat /\ Price.copy \in Nat
    BY <1>1, <2>1, WordsForType
  <2>3. ArgumentCost(op) = Price.copy * WordsFor(Top(Pops(op)))
    BY <1>4 DEF ArgumentCost, CopyOps
  <2> QED BY <2>2, <2>3, ProductType
<1>5. CASE op = "LOG"
  <2>1. Top(2) \in Nat /\ OpWidth \in Nat
    <3>1. Pops(op) >= 2
      BY <1>5, PopsOf, AcceptedFacts
    <3> QED BY <3>1, AcceptedFacts, TopType
  <2>2. Price.logTopic \in Nat /\ Price.logData \in Nat
    BY <1>1
  <2>3. Price.logTopic * OpWidth \in Nat /\ Price.logData * Top(2) \in Nat
    BY <2>1, <2>2, ProductType
  <2>4. ArgumentCost(op) = Price.logTopic * OpWidth + Price.logData * Top(2)
    BY <1>5 DEF ArgumentCost, CopyOps
  <2> QED BY <2>3, <2>4
<1>6. CASE op \notin CopyOps \cup {"EXP", "SHA3", "LOG"}
  BY <1>6 DEF ArgumentCost
<1> QED BY <1>2, <1>3, <1>4, <1>5, <1>6

\* What a handler costs is not negative, and the gas for it is there.
LEMMA CostType ==
  ASSUME Typed, NEW op, Accepted(op)
  PROVE  Cost(op) \in Nat /\ Cost(op) <= gasLeft
<1> DEFINE fee == Fee(job.fork, op)
           argument == ArgumentCost(op)
           before == MemoryCost(memoryWordCount)
           after == MemoryCost(WordsTouched(op))
<1>1. fee \in Nat
  BY FeeType DEF Accepted
<1>2. argument \in Nat
  BY ArgumentCostType
<1>3. before \in Nat /\ after \in Nat /\ before <= after
  <2>1. memoryWordCount \in Nat
    BY DEF Typed, TypeOK
  <2> QED BY <2>1, WordsTouchedType, MemoryCostType
<1>4. Cost(op) = fee + argument + after - before
  BY DEF Cost
<1> HIDE DEF fee, argument, before, after
<1>5. Cost(op) \in Nat
  BY <1>1, <1>2, <1>3, <1>4
<1>6. gasLeft \in Nat
  BY DEF Typed, TypeOK
<1> QED BY <1>5, <1>6, AcceptedFacts

----------------------------------------------------------------------------
(* What a handler pushes.                                                  *)

\* The hash is a number: the theorems about types depend on it.
HashesAreNumbers == \A bytes \in Seq(Byte) : Keccak(bytes) \in Nat

LEMMA PushedOf ==
  ASSUME NEW op
  PROVE  /\ op \in ComputingOps => Pushed(op) = Computed(op, Args(Pops(op)))
         /\ op \in EnvOps => Pushed(op) = Env[op]
         /\ op = "BLOCKHASH" => Pushed(op) = BlockHash(Top(1))
         /\ op \in LookupOps \ {"BLOCKHASH"} => Pushed(op) = Lookup[op][Top(1)]
         /\ op = "CALLDATALOAD" => Pushed(op) = DataWord(Top(1))
         /\ op = "CALLDATASIZE" => Pushed(op) = Len(CallData)
         /\ op = "CODESIZE" => Pushed(op) = Len(job.code)
         /\ op = "RETURNDATASIZE" => Pushed(op) = Len(lastReturned)
         /\ op = "PC" => Pushed(op) = programCounter
         /\ op = "MSIZE" => Pushed(op) = memoryWordCount * WordBytes
         /\ op = "GAS" => Pushed(op) = gasLeft - Fee(job.fork, op)
         /\ op = "MLOAD" => Pushed(op) = FromBytes(Read(memory, Top(1), WordBytes))
         /\ op = "SHA3" => Pushed(op) = Keccak(Read(memory, Top(1), Top(2)))
<1> DEFINE computed == Computed(op, Args(Pops(op)))
           environment == Env[op]
           blockHash == BlockHash(Top(1))
           found == Lookup[op][Top(1)]
           word == DataWord(Top(1))
           given == Len(CallData)
           size == Len(job.code)
           returned == Len(lastReturned)
           touched == memoryWordCount * WordBytes
           gas == gasLeft - Fee(job.fork, op)
           loaded == FromBytes(Read(memory, Top(1), WordBytes))
           hash == Keccak(Read(memory, Top(1), Top(2)))
<1>1. Pushed(op) =
        CASE op \in ComputingOps -> computed
          [] op \in EnvOps -> environment
          [] op = "BLOCKHASH" -> blockHash
          [] op \in LookupOps \ {"BLOCKHASH"} -> found
          [] op = "CALLDATALOAD" -> word
          [] op = "CALLDATASIZE" -> given
          [] op = "CODESIZE" -> size
          [] op = "RETURNDATASIZE" -> returned
          [] op = "PC" -> programCounter
          [] op = "MSIZE" -> touched
          [] op = "GAS" -> gas
          [] op = "MLOAD" -> loaded
          [] op = "SHA3" -> hash
  BY Zenon DEF Pushed
<1> HIDE DEF computed, environment, blockHash, found, word, given, size, returned, touched,
             gas, loaded, hash
<1>2. /\ op \in ComputingOps => Pushed(op) = computed
      /\ op \in EnvOps => Pushed(op) = environment
      /\ op = "BLOCKHASH" => Pushed(op) = blockHash
      /\ op \in LookupOps \ {"BLOCKHASH"} => Pushed(op) = found
      /\ op = "CALLDATALOAD" => Pushed(op) = word
      /\ op = "CALLDATASIZE" => Pushed(op) = given
      /\ op = "CODESIZE" => Pushed(op) = size
      /\ op = "RETURNDATASIZE" => Pushed(op) = returned
      /\ op = "PC" => Pushed(op) = programCounter
      /\ op = "MSIZE" => Pushed(op) = touched
      /\ op = "GAS" => Pushed(op) = gas
      /\ op = "MLOAD" => Pushed(op) = loaded
      /\ op = "SHA3" => Pushed(op) = hash
  BY <1>1 DEF ComputingOps, ArithmeticOps, ComparisonOps, BitwiseOps, ModularOps, UnaryOps,
              EnvOps, LookupOps
<1> QED BY <1>2 DEF computed, environment, blockHash, found, word, given, size, returned,
                    touched, gas, loaded, hash

\* What a handler that has not been refused pushes is a word.
LEMMA PushedType ==
  ASSUME Typed, HashesAreNumbers, NEW op \in PushingOps, Accepted(op)
  PROVE  Pushed(op) \in Word
<1>1. CASE op \in ComputingOps
  <2> DEFINE args == Args(Pops(op))
  <2>1. Pops(op) = IF op \in ModularOps THEN 3 ELSE IF op \in UnaryOps THEN 1 ELSE 2
    BY <1>1, PopsOf
  <2>2. Pops(op) \in 1 .. 3 /\ Pops(op) <= Len(stack)
    BY <2>1, AcceptedFacts
  <2>3. \A k \in 1 .. Pops(op) : args[k] \in Word
    <3> SUFFICES ASSUME NEW k \in 1 .. Pops(op) PROVE args[k] \in Word
      OBVIOUS
    <3>1. k \in Nat \ {0} /\ k <= Len(stack)
      BY <2>2, AcceptedFacts
    <3>2. args[k] = Top(k)
      BY DEF Args
    <3> QED BY <3>1, <3>2, TopType
  <2> HIDE DEF args
  <2>4. 1 \in 1 .. Pops(op)
    BY <2>2
  <2>5. /\ op \notin UnaryOps => 2 \in 1 .. Pops(op)
        /\ op \in ModularOps => 3 \in 1 .. Pops(op)
    BY <2>1
  <2>6. Computed(op, args) \in Nat
    BY <1>1, <2>3, <2>4, <2>5, ComputedType
  <2>7. Pushed(op) \in Nat
    BY <1>1, <2>6, PushedOf DEF args
  <2> QED BY <2>7, AcceptedFacts, WordType DEF Word
<1>2. CASE op \in EnvOps
  BY <1>2, PushedOf, EnvironmentAssumption
<1>3. CASE op \in LookupOps
  <2>1. Top(1) \in Word
    BY <1>3, PopsOf, AcceptedFacts, TopType
  <2>2. Lookup[op] \in [Word -> Word]
    BY <1>3, EnvironmentAssumption
  <2>3. Lookup[op][Top(1)] \in Word
    BY <2>1, <2>2
  <2>4. CASE op = "BLOCKHASH"
    BY <2>3, <2>4, PushedOf, WordType DEF BlockHash
  <2>5. CASE op # "BLOCKHASH"
    BY <1>3, <2>3, <2>5, PushedOf
  <2> QED BY <2>4, <2>5
<1>4. CASE op \in {"CALLDATALOAD", "MLOAD"}
  <2>1. Top(1) \in Nat
    BY <1>4, PopsOf, AcceptedFacts, TopType
  <2>2. WordBytes \in Nat
    BY Sizes
  <2>3. CASE op = "MLOAD"
    <3>1. memory \in Seq(Byte)
      BY DEF Typed, TypeOK
    <3>2. FromBytes(Read(memory, Top(1), WordBytes)) \in Word
      BY <2>1, <2>2, <3>1, ReadType, FromBytesType
    <3> QED BY <2>3, <3>2, PushedOf
  <2>4. CASE op = "CALLDATALOAD"
    <3>1. CallData \in Seq(Byte)
      BY EnvironmentAssumption
    <3>2. FromBytes(DataSlice(CallData, Top(1), WordBytes)) \in Word
      BY <2>1, <2>2, <3>1, DataSliceType, FromBytesType
    <3> QED BY <2>4, <3>2, PushedOf, WordType DEF DataWord
  <2> QED BY <1>4, <2>3, <2>4
<1>5. CASE op \in SizeOps \cup {"PC", "MSIZE", "GAS", "SHA3"}
  <2>1. /\ CallData \in Seq(Byte) /\ lastReturned \in Seq(Byte)
        /\ memoryWordCount \in Nat /\ programCounter \in Nat /\ gasLeft \in Nat
        /\ memory \in Seq(Byte) /\ WordBytes \in Nat
    BY EnvironmentAssumption, Sizes DEF Typed, TypeOK
  <2>2. Len(job.code) \in Nat /\ Len(CallData) \in Nat /\ Len(lastReturned) \in Nat
    <3>1. Len(job.code) \in Nat
      BY JobFacts DEF Typed, IInv
    <3> QED BY <2>1, <3>1
  <2>3. memoryWordCount * WordBytes \in Nat
    BY <2>1, ProductType
  <2>4. gasLeft - Fee(job.fork, op) \in Nat
    <3>1. Fee(job.fork, op) \in Nat
      BY FeeType DEF Accepted
    <3> QED BY <2>1, <3>1, AcceptedFacts
  <2>5. op = "SHA3" => Keccak(Read(memory, Top(1), Top(2))) \in Nat
    <3> SUFFICES ASSUME op = "SHA3" PROVE Keccak(Read(memory, Top(1), Top(2))) \in Nat
      OBVIOUS
    <3>1. Top(1) \in Nat /\ Top(2) \in Nat
      BY PopsOf, AcceptedFacts, TopType
    <3> QED BY <2>1, <3>1, ReadType DEF HashesAreNumbers
  <2>6. Pushed(op) \in Nat
    BY <1>5, <2>1, <2>2, <2>3, <2>4, <2>5, PushedOf DEF SizeOps
  <2> QED BY <2>6, AcceptedFacts, WordType DEF Word
<1> QED BY <1>1, <1>2, <1>3, <1>4, <1>5 DEF PushingOps

----------------------------------------------------------------------------
(* The parts of the invariant that a handler changes.                      *)

LEMMA PushOne ==
  ASSUME Typed, NEW op, Accepted(op), Grows(op), NEW word \in Word,
         NEW rest \in Seq(Word), Len(rest) = Len(stack) - Pops(op),
         stack' = Append(rest, word)
  PROVE  stack' \in Seq(Word) /\ Len(stack') <= StackLimit
<1>1. Len(rest) <= StackLimit - 1
  BY AcceptedFacts, StackLimitAssumption
<1>2. Append(rest, word) \in Seq(Word) /\ Len(Append(rest, word)) = Len(rest) + 1
  OBVIOUS
<1> QED BY <1>1, <1>2, StackLimitAssumption

LEMMA PopSome ==
  ASSUME Typed, NEW op, Accepted(op), stack' = Popped(Pops(op))
  PROVE  stack' \in Seq(Word) /\ Len(stack') <= StackLimit
<1>1. /\ Popped(Pops(op)) \in Seq(Word) /\ Len(Popped(Pops(op))) = Len(stack) - Pops(op)
      /\ Pops(op) \in Nat /\ Len(stack) \in Nat /\ Len(stack) <= StackLimit
  BY AcceptedFacts, PoppedType DEF Typed, TypeOK
<1> QED BY <1>1, StackLimitAssumption

LEMMA GasCharged ==
  ASSUME Typed, NEW op, Accepted(op), NEW used \in Nat, used <= gasLeft - Cost(op),
         gasLeft' = gasLeft - Cost(op) - used, memoryWordCount' = WordsTouched(op),
         UNCHANGED <<job, scan, validJumps>>
  PROVE  /\ gasLeft' \in 0 .. job'.gasLimit /\ memoryWordCount' \in Nat
         /\ job'.gasLimit \in Nat /\ scan' \in Nat
         /\ validJumps' \subseteq 0 .. Len(job'.code) - 1
<1>1. Cost(op) \in Nat /\ Cost(op) <= gasLeft
  BY CostType
<1>2. gasLeft \in 0 .. job.gasLimit /\ job.gasLimit \in Nat /\ scan \in Nat
      /\ validJumps \subseteq 0 .. Len(job.code) - 1
  BY DEF Typed, TypeOK
<1>3. gasLeft - Cost(op) - used \in 0 .. job.gasLimit
  BY <1>1, <1>2
<1> QED BY <1>2, <1>3, WordsTouchedType

\* Memory that stays as it is stays charged: what is charged only grows.
LEMMA MemoryStays ==
  ASSUME Typed, NEW op, Accepted(op), memoryWordCount' = WordsTouched(op), memory' = memory
  PROVE  memory' \in Seq(Byte) /\ MemoryIsCharged'
<1>1. /\ memory \in Seq(Byte) /\ Len(memory) <= memoryWordCount * WordBytes
      /\ memoryWordCount \in Nat /\ WordBytes \in Nat
  BY Sizes DEF Typed, TypeOK, MemoryIsCharged
<1>2. WordsTouched(op) \in Nat /\ memoryWordCount <= WordsTouched(op)
  BY WordsTouchedType
<1>3. /\ memoryWordCount * WordBytes <= WordsTouched(op) * WordBytes
      /\ memoryWordCount * WordBytes \in Nat /\ WordsTouched(op) * WordBytes \in Nat
  BY <1>1, <1>2, ProductMonotone, ProductType
<1> DEFINE a == memoryWordCount * WordBytes
           b == WordsTouched(op) * WordBytes
<1>4. Len(memory) <= a /\ a <= b /\ a \in Nat /\ b \in Nat /\ Len(memory) \in Nat
  BY <1>1, <1>3
<1>5. Len(memory') <= b
  <2> HIDE DEF a, b
  <2> QED BY <1>4
<1> QED BY <1>1, <1>5 DEF MemoryIsCharged

\* What is written lies in a region that the handler has charged.
LEMMA MemoryWritten ==
  ASSUME Typed, NEW op, Accepted(op), memoryWordCount' = WordsTouched(op),
         NEW offset \in Nat, NEW bytes \in Seq(Byte), Store(offset, bytes),
         NEW size \in Nat, Len(bytes) <= size, <<offset, size>> \in Regions(op)
  PROVE  memory' \in Seq(Byte) /\ MemoryIsCharged'
<1> DEFINE mem == Extended(memory, offset, Len(bytes))
           end == WordsFor(offset + Len(bytes)) * WordBytes
<1>1. memory \in Seq(Byte) /\ Len(bytes) \in Nat /\ WordBytes \in Nat
  BY Sizes DEF Typed, TypeOK
<1>2. /\ mem \in Seq(Byte)
      /\ Len(bytes) = 0 => mem = memory
      /\ Len(mem) = Len(memory) \/ Len(mem) = end
  BY <1>1, ExtendedType
<1>3. memory' \in Seq(Byte) /\ Len(memory') = Len(mem)
  <2>1. memory' = Written(mem, offset, bytes)
    BY DEF Store
  <2> HIDE DEF mem
  <2> QED BY <1>2, <2>1, WrittenType
<1>4. Len(memory) <= WordsTouched(op) * WordBytes
  <2>1. Len(memory) <= memoryWordCount * WordBytes /\ memoryWordCount \in Nat
    BY DEF Typed, TypeOK, MemoryIsCharged
  <2>2. WordsTouched(op) \in Nat /\ memoryWordCount <= WordsTouched(op)
    BY WordsTouchedType
  <2> DEFINE a == memoryWordCount * WordBytes
             b == WordsTouched(op) * WordBytes
  <2>3. a <= b /\ a \in Nat /\ b \in Nat
    BY <1>1, <2>1, <2>2, ProductMonotone, ProductType
  <2>4. Len(memory) <= a /\ Len(memory) \in Nat
    BY <1>1, <2>1
  <2> HIDE DEF a, b
  <2>5. Len(memory) <= b
    BY <2>3, <2>4
  <2> QED BY <2>5 DEF b
<1>5. CASE Len(mem) = Len(memory)
  <2>1. Len(memory') <= memoryWordCount' * WordBytes
    BY <1>3, <1>4, <1>5
  <2> QED BY <1>3, <2>1 DEF MemoryIsCharged
<1>6. CASE Len(bytes) # 0 /\ Len(mem) = end
  <2>1. offset + Len(bytes) \in Nat /\ offset + size \in Nat /\ size # 0
        /\ offset + Len(bytes) <= offset + size
    BY <1>1, <1>6
  <2>2. /\ WordsFor(offset + Len(bytes)) \in Nat /\ WordsFor(offset + size) \in Nat
        /\ WordsFor(offset + Len(bytes)) <= WordsFor(offset + size)
    BY <2>1, WordsForType
  <2>3. WordsFor(offset + size) <= WordsTouched(op) /\ WordsTouched(op) \in Nat
    <3>1. \A r \in Regions(op) : r[2] # 0 => WordsFor(r[1] + r[2]) <= WordsTouched(op)
      BY WordsTouchedType
    <3>2. <<offset, size>>[1] = offset /\ <<offset, size>>[2] = size
      OBVIOUS
    <3>3. WordsFor(offset + size) <= WordsTouched(op)
      BY <2>1, <3>1, <3>2
    <3> QED BY <3>3, WordsTouchedType
  <2>4. WordsFor(offset + Len(bytes)) <= WordsTouched(op)
    BY <2>2, <2>3
  <2>5. end <= WordsTouched(op) * WordBytes
    BY <1>1, <2>2, <2>3, <2>4, ProductMonotone
  <2>6. Len(memory') <= memoryWordCount' * WordBytes
    BY <1>3, <1>6, <2>5
  <2> QED BY <1>3, <2>6 DEF MemoryIsCharged
<1> QED BY <1>2, <1>5, <1>6

----------------------------------------------------------------------------
(* The steps keep what is on the stack and in the memory typed.            *)

\* The table has no other row with DUP.
LEMMA DupByte ==
  ASSUME NEW fork, NEW byte \in 0 .. 255, Name(fork, byte) = "DUP"
  PROVE  byte \in 128 .. 143
<1> DEFINE Other(name) == name # "DUP"
<1>1. /\ \A n \in 1 .. 12 : Other(Row0[n])
      /\ \A n \in 1 .. 14 : Other(Row1[n])
      /\ \A n \in 1 .. 16 : Other(Row3[n])
      /\ \A n \in 1 .. 6 : Other(Row4[n])
      /\ \A n \in 1 .. 2 : Other(Row4Istanbul[n])
      /\ \A n \in 1 .. 12 : Other(Row5[n])
      /\ \A n \in 1 .. 6 : Other(RowF[n])
  BY DEF Row0, Row1, Row3, Row4, Row4Istanbul, Row5, RowF
<1>2. /\ byte \in 0 .. 11 => byte + 1 \in 1 .. 12
      /\ byte \in 16 .. 29 => byte - 15 \in 1 .. 14
      /\ byte \in 48 .. 63 => byte - 47 \in 1 .. 16
      /\ byte \in 64 .. 69 => byte - 63 \in 1 .. 6
      /\ byte \in 70 .. 71 => byte - 69 \in 1 .. 2
      /\ byte \in 80 .. 91 => byte - 79 \in 1 .. 12
      /\ byte \in 240 .. 245 => byte - 239 \in 1 .. 6
  OBVIOUS
<1> QED BY <1>1, <1>2 DEF Name

LEMMA MinOfTwo ==
  ASSUME NEW a \in Nat, NEW b \in Nat
  PROVE  Min({a, b}) = IF a <= b THEN a ELSE b
<1> DEFINE least == IF a <= b THEN a ELSE b
<1>1. least \in {a, b} /\ \A y \in {a, b} : least <= y
  OBVIOUS
<1>2. \A x \in {a, b} : (\A y \in {a, b} : x <= y) => x = least
  OBVIOUS
<1> HIDE DEF least
<1>3. Min({a, b}) = least
  BY <1>1, <1>2 DEF Min
<1> QED BY <1>3 DEF least

\* What has to be shown of the step of a handler.
LEMMA HandledTyped ==
  ASSUME Typed, IInv', NEW op, Accepted(op), NEW used \in Nat, used <= gasLeft - Cost(op),
         gasLeft' = gasLeft - Cost(op) - used, memoryWordCount' = WordsTouched(op),
         UNCHANGED <<job, scan, validJumps>>,
         stack' \in Seq(Word), Len(stack') <= StackLimit,
         memory' \in Seq(Byte), MemoryIsCharged', lastReturned' \in Seq(Byte),
         status' \in {"running", "stopped"}
  PROVE  Typed'
<1>1. programCounter' \in Nat
  BY DEF IInv
<1>2. /\ gasLeft' \in 0 .. job'.gasLimit /\ memoryWordCount' \in Nat
      /\ job'.gasLimit \in Nat /\ scan' \in Nat
      /\ validJumps' \subseteq 0 .. Len(job'.code) - 1
  BY GasCharged
<1>3. TypeOK'
  BY <1>1, <1>2 DEF TypeOK
<1> QED BY <1>3 DEF Typed

LEMMA ExecutesTyped ==
  ASSUME Typed, IInv', NEW op \in HandledOps, Executes(op),
         stack' \in Seq(Word), Len(stack') <= StackLimit,
         memory' \in Seq(Byte), MemoryIsCharged', lastReturned' \in Seq(Byte),
         UNCHANGED status
  PROVE  Typed'
<1>1. /\ Accepted(op) /\ gasLeft' = gasLeft - Cost(op) /\ memoryWordCount' = WordsTouched(op)
      /\ UNCHANGED <<job, scan, validJumps>> /\ status' \in {"running", "stopped"}
  BY DEF Executes, Accepted, Running
<1>2. Cost(op) \in Nat /\ Cost(op) <= gasLeft /\ gasLeft \in Nat
  BY <1>1, CostType DEF Typed, TypeOK
<1>3. 0 \in Nat /\ 0 <= gasLeft - Cost(op) /\ gasLeft' = gasLeft - Cost(op) - 0
  BY <1>1, <1>2
<1> QED BY <1>1, <1>3, HandledTyped

\* A handler that leaves the memory alone.
LEMMA StaysTyped ==
  ASSUME Typed, IInv', NEW op \in HandledOps, Executes(op),
         stack' \in Seq(Word), Len(stack') <= StackLimit,
         UNCHANGED <<memory, lastReturned, status>>
  PROVE  Typed'
<1>1. Accepted(op) /\ memoryWordCount' = WordsTouched(op)
  BY DEF Executes, Accepted
<1>2. memory' \in Seq(Byte) /\ MemoryIsCharged'
  BY <1>1, MemoryStays
<1>3. lastReturned' \in Seq(Byte)
  BY DEF Typed
<1> QED BY <1>2, <1>3, ExecutesTyped

LEMMA PushResultTyped ==
  ASSUME Typed, HashesAreNumbers, IInv', NEW op \in PushingOps, PushResult(op) PROVE Typed'
<1>1. /\ op \in HandledOps /\ Executes(op) /\ Accepted(op) /\ Grows(op)
      /\ stack' = Append(Popped(Pops(op)), Pushed(op))
      /\ UNCHANGED <<memory, lastReturned, status>>
  BY DEF PushResult, Executes, Accepted, HandledOps, Grows, Continues
<1>2. Pushed(op) \in Word
  BY <1>1, PushedType
<1>3. Popped(Pops(op)) \in Seq(Word) /\ Len(Popped(Pops(op))) = Len(stack) - Pops(op)
  BY <1>1, AcceptedFacts, PoppedType
<1>4. stack' \in Seq(Word) /\ Len(stack') <= StackLimit
  BY <1>1, <1>2, <1>3, PushOne
<1> QED BY <1>1, <1>4, StaysTyped

LEMMA PopTyped ==
  ASSUME Typed, IInv', Pop PROVE Typed'
<1>1. /\ "POP" \in HandledOps /\ Executes("POP") /\ Accepted("POP")
      /\ stack' = Popped(Pops("POP")) /\ UNCHANGED <<memory, lastReturned, status>>
  BY PopsOf DEF Pop, Executes, Accepted, HandledOps, Continues
<1>2. stack' \in Seq(Word) /\ Len(stack') <= StackLimit
  BY <1>1, PopSome
<1> QED BY <1>1, <1>2, StaysTyped

\* The bytes of the code, by position.
LEMMA CodeType ==
  ASSUME Typed
  PROVE  /\ Len(job.code) \in Nat /\ DOMAIN job.code = 1 .. Len(job.code)
         /\ job.code \in [1 .. Len(job.code) -> Nat]
<1> DEFINE code == job.code
           B == 0 .. 255
<1>1. code \in Seq(B)
  BY JobAssumption DEF Typed, IInv
<1>2. B \subseteq Nat
  OBVIOUS
<1> HIDE DEF code, B
<1>3. Len(code) \in Nat /\ DOMAIN code = 1 .. Len(code) /\ code \in [1 .. Len(code) -> B]
  BY <1>1
<1>4. code \in [1 .. Len(code) -> Nat]
  BY <1>2, <1>3
<1> QED BY <1>3, <1>4 DEF code

\* A byte of code counts as much as a byte of memory.
LEMMA CodeBytesType ==
  ASSUME Typed, NEW from \in Nat \ {0}, NEW to \in Nat, to <= Len(job.code)
  PROVE  LET taken == SubSeq(job.code, from, to) IN
         /\ [n \in DOMAIN taken |-> taken[n] % 2 ^ ByteBits] \in Seq(Byte)
         /\ Len([n \in DOMAIN taken |-> taken[n] % 2 ^ ByteBits])
              = IF from <= to THEN to - from + 1 ELSE 0
<1> DEFINE code == job.code
           taken == SubSeq(job.code, from, to)
           bytes == [n \in DOMAIN taken |-> taken[n] % 2 ^ ByteBits]
<1>1. code \in Seq(Nat)
  <2> HIDE DEF code
  <2> QED BY CodeType, FiniteSequence DEF code
<1>2. /\ taken \in Seq(Nat)
      /\ Len(taken) = IF from <= to THEN to - from + 1 ELSE 0
  <2> HIDE DEF code
  <2>1. \A i \in from .. to : code[i] \in Nat
    BY <1>1 DEF code
  <2>2. /\ SubSeq(code, from, to) \in Seq(Nat)
        /\ Len(SubSeq(code, from, to)) = IF from <= to THEN to - from + 1 ELSE 0
    BY <2>1, SubSeqProperties
  <2> QED BY <2>2 DEF code
<1> HIDE DEF taken
<1>3. bytes \in [1 .. Len(taken) -> Byte] /\ Len(taken) \in Nat
  BY <1>2, ByteType
<1> HIDE DEF bytes
<1>4. bytes \in Seq(Byte) /\ Len(bytes) = Len(taken)
  BY <1>3, FiniteSequence
<1> QED BY <1>2, <1>4 DEF bytes, taken

LEMMA PushTyped ==
  ASSUME Typed, IInv', Push PROVE Typed'
<1> DEFINE end == Min({programCounter + 1 + OpWidth, Len(job.code)})
           taken == SubSeq(job.code, programCounter + 2, end)
           bytes == [n \in DOMAIN taken |-> taken[n] % 2 ^ ByteBits]
<1>1. /\ "PUSH" \in HandledOps /\ Executes("PUSH") /\ Accepted("PUSH") /\ Grows("PUSH")
      /\ stack' = Append(stack, FromBytes(bytes))
      /\ UNCHANGED <<memory, lastReturned, status>>
  BY DEF Push, Executes, Accepted, HandledOps, Grows
<1>2. /\ programCounter \in Nat /\ Len(job.code) \in Nat /\ OpWidth \in Nat
      /\ programCounter < Len(job.code)
  BY <1>1, JobFacts, AcceptedFacts DEF Typed, IInv, Accepted, Running
<1>3. OpWidth <= WordBytes
  <2>1. programCounter + 1 \in DOMAIN job.code
    <3>1. job.code \in Seq(0 .. 255)
      BY JobAssumption DEF Typed, IInv
    <3>2. DOMAIN job.code = 1 .. Len(job.code)
      BY <3>1
    <3> QED BY <1>2, <3>2
  <2>2. Name(job.fork, job.code[programCounter + 1]) = "PUSH"
    BY <1>1 DEF Accepted, Op, CodeName, CodeByte
  <2>3. Width(job.code[programCounter + 1]) <= WordBytes
    BY <2>1, <2>2, JobAssumption DEF Typed, IInv
  <2> QED BY <2>3 DEF OpWidth, CodeByte
<1>4. end \in Nat /\ end <= Len(job.code) /\ end <= programCounter + 1 + OpWidth
  BY <1>2, MinOfTwo
<1> HIDE DEF end
<1>5. /\ bytes \in Seq(Byte)
      /\ Len(bytes) = IF programCounter + 2 <= end THEN end - (programCounter + 2) + 1 ELSE 0
  <2>1. programCounter + 2 \in Nat \ {0}
    BY <1>2
  <2> QED BY <1>4, <2>1, CodeBytesType
<1> HIDE DEF bytes
<1>6. Len(bytes) <= WordBytes
  BY <1>2, <1>3, <1>4, <1>5, Sizes
<1>7. FromBytes(bytes) \in Word
  BY <1>5, <1>6, FromBytesType
<1>8. stack \in Seq(Word) /\ Len(stack) = Len(stack) - Pops("PUSH")
  BY PopsOf DEF Typed, TypeOK
<1>9. stack' \in Seq(Word) /\ Len(stack') <= StackLimit
  BY <1>1, <1>7, <1>8, PushOne
<1> QED BY <1>1, <1>9, StaysTyped

LEMMA DupTyped ==
  ASSUME Typed, IInv', Dup PROVE Typed'
<1>1. /\ "DUP" \in HandledOps /\ Executes("DUP") /\ Accepted("DUP") /\ Grows("DUP")
      /\ stack' = Append(stack, Top(OpWidth))
      /\ UNCHANGED <<memory, lastReturned, status>>
  BY DEF Dup, Executes, Accepted, HandledOps, Grows, Continues
<1>2. OpWidth \in Nat \ {0}
  <2>1. CodeByte(programCounter) \in 0 .. 255
    BY <1>1, JobFacts DEF Typed, IInv, Accepted, Running
  <2>2. CodeByte(programCounter) \in 128 .. 143
    <3>1. Name(job.fork, CodeByte(programCounter)) = "DUP"
      BY <1>1 DEF Accepted, Op, CodeName
    <3> QED BY <2>1, <3>1, DupByte
  <2> QED BY <2>2 DEF OpWidth, Width
<1>3. OpWidth <= Len(stack)
  BY <1>1, AcceptedFacts DEF Needs
<1>4. Top(OpWidth) \in Word
  BY <1>2, <1>3, TopType
<1>5. stack \in Seq(Word) /\ Len(stack) = Len(stack) - Pops("DUP")
  BY PopsOf DEF Typed, TypeOK
<1>6. stack' \in Seq(Word) /\ Len(stack') <= StackLimit
  BY <1>1, <1>4, <1>5, PushOne
<1> QED BY <1>1, <1>6, StaysTyped

LEMMA SwapTyped ==
  ASSUME Typed, IInv', Swap PROVE Typed'
<1>1. /\ "SWAP" \in HandledOps /\ Executes("SWAP") /\ Accepted("SWAP")
      /\ stack' = Swapped(OpWidth) /\ UNCHANGED <<memory, lastReturned, status>>
  BY DEF Swap, Executes, Accepted, HandledOps, Continues
<1>2. OpWidth \in Nat /\ OpWidth + 1 <= Len(stack)
  BY <1>1, AcceptedFacts DEF Needs
<1>3. stack \in Seq(Word) /\ Len(stack) <= StackLimit
  BY DEF Typed, TypeOK
<1>4. Swapped(OpWidth) \in Seq(Word) /\ Len(Swapped(OpWidth)) = Len(stack)
  <2>1. Len(stack) \in 1 .. Len(stack) /\ Len(stack) - OpWidth \in 1 .. Len(stack)
    BY <1>2, <1>3
  <2>2. stack[Len(stack)] \in Word /\ stack[Len(stack) - OpWidth] \in Word
    BY <1>3, <2>1
  <2> QED BY <1>3, <2>1, <2>2 DEF Swapped
<1> QED BY <1>1, <1>3, <1>4, StaysTyped

LEMMA JumpTyped ==
  ASSUME Typed, IInv', NEW op \in {"JUMP", "JUMPI", "JUMPDEST"}, Jump(op) PROVE Typed'
<1>1. /\ op \in HandledOps /\ Executes(op) /\ Accepted(op)
      /\ stack' = Popped(Pops(op)) /\ UNCHANGED <<memory, lastReturned, status>>
  BY DEF Jump, Executes, Accepted, HandledOps
<1>2. stack' \in Seq(Word) /\ Len(stack') <= StackLimit
  BY <1>1, PopSome
<1> QED BY <1>1, <1>2, StaysTyped

LEMMA LogTyped ==
  ASSUME Typed, IInv', Log PROVE Typed'
<1>1. /\ "LOG" \in HandledOps /\ Executes("LOG") /\ Accepted("LOG")
      /\ stack' = Popped(Pops("LOG")) /\ UNCHANGED <<memory, lastReturned, status>>
  BY DEF Log, Executes, Accepted, HandledOps, Continues
<1>2. stack' \in Seq(Word) /\ Len(stack') <= StackLimit
  BY <1>1, PopSome
<1> QED BY <1>1, <1>2, StaysTyped

LEMMA StoreWordTyped ==
  ASSUME Typed, IInv', NEW op \in {"MSTORE", "MSTORE8"}, StoreWord(op) PROVE Typed'
<1> DEFINE bytes == IF op = "MSTORE" THEN ToBytes(Top(2)) ELSE <<Top(2) % 2 ^ ByteBits>>
           size == IF op = "MSTORE" THEN WordBytes ELSE 1
<1>1. /\ op \in HandledOps /\ Executes(op) /\ Accepted(op)
      /\ Store(Top(1), bytes) /\ memoryWordCount' = WordsTouched(op)
      /\ stack' = Popped(2) /\ UNCHANGED <<lastReturned, status>>
  BY DEF StoreWord, Executes, Accepted, HandledOps, Continues
<1>2. Pops(op) = 2
  BY PopsOf
<1>3. Top(1) \in Nat /\ Top(2) \in Nat
  BY <1>1, <1>2, AcceptedFacts, TopType
<1>4. stack' \in Seq(Word) /\ Len(stack') <= StackLimit
  BY <1>1, <1>2, PopSome
<1>5. bytes \in Seq(Byte) /\ Len(bytes) = size
  <2>1. CASE op = "MSTORE"
    BY <1>3, <2>1, ToBytesType
  <2>2. CASE op # "MSTORE"
    <3>1. Top(2) % 2 ^ ByteBits \in Byte
      BY <1>3, ByteType
    <3> DEFINE byte == Top(2) % 2 ^ ByteBits
    <3> HIDE DEF byte
    <3>2. <<byte>> \in Seq(Byte) /\ Len(<<byte>>) = 1
      BY <3>1 DEF byte
    <3> QED BY <2>2, <3>2 DEF byte
  <2> QED BY <2>1, <2>2
<1>6. <<Top(1), size>> \in Regions(op) /\ size \in Nat
  <2>1. CASE op = "MSTORE"
    BY <2>1, RegionsOf, Sizes
  <2>2. CASE op = "MSTORE8"
    BY <2>2, RegionsOf
  <2> QED BY <2>1, <2>2
<1> HIDE DEF bytes, size
<1>7. memory' \in Seq(Byte) /\ MemoryIsCharged'
  <2>1. Len(bytes) <= size
    BY <1>5, <1>6
  <2> QED BY <1>1, <1>3, <1>5, <1>6, <2>1, MemoryWritten
<1>8. lastReturned' \in Seq(Byte)
  BY <1>1 DEF Typed
<1> QED BY <1>1, <1>4, <1>7, <1>8, ExecutesTyped

LEMMA SourceType ==
  ASSUME Typed, NEW op \in CopyOps
  PROVE  Source(op) \in Seq(Byte)
<1> DEFINE bytes == [n \in DOMAIN job.code |-> job.code[n] % 2 ^ ByteBits]
<1>1. bytes \in Seq(Byte)
  <2>1. \A n \in DOMAIN job.code : job.code[n] % 2 ^ ByteBits \in Byte
    BY CodeType, ByteType
  <2>2. bytes \in [1 .. Len(job.code) -> Byte] /\ Len(job.code) \in Nat
    BY <2>1, CodeType
  <2> HIDE DEF bytes
  <2> QED BY <2>2, FiniteSequence
<1>2. CallData \in Seq(Byte) /\ ExtCode \in Seq(Byte) /\ lastReturned \in Seq(Byte)
  BY EnvironmentAssumption DEF Typed
<1>3. Source(op) =
        CASE op = "CALLDATACOPY" -> CallData
          [] op = "CODECOPY" -> bytes
          [] op = "RETURNDATACOPY" -> lastReturned
          [] op = "EXTCODECOPY" -> ExtCode
  BY Zenon DEF Source
<1> HIDE DEF bytes
<1> QED BY <1>1, <1>2, <1>3 DEF CopyOps

LEMMA CopyTyped ==
  ASSUME Typed, IInv', NEW op \in CopyOps, Copy(op) PROVE Typed'
<1> DEFINE n == Pops(op)
           bytes == DataSlice(Source(op), Top(n - 1), Top(n))
<1>1. /\ op \in HandledOps /\ Executes(op) /\ Accepted(op)
      /\ Store(Top(n - 2), bytes) /\ memoryWordCount' = WordsTouched(op)
      /\ stack' = Popped(Pops(op)) /\ UNCHANGED <<lastReturned, status>>
  BY DEF Copy, Executes, Accepted, HandledOps, Continues
<1>2. n = IF op = "EXTCODECOPY" THEN 4 ELSE 3
  BY PopsOf
<1>3. Top(n - 2) \in Nat /\ Top(n - 1) \in Nat /\ Top(n) \in Nat
  <2>1. n \in {3, 4} /\ n <= Len(stack)
    BY <1>1, <1>2, AcceptedFacts
  <2> HIDE DEF n
  <2>2. /\ n \in Nat \ {0} /\ n - 1 \in Nat \ {0} /\ n - 2 \in Nat \ {0}
        /\ n - 1 <= Len(stack) /\ n - 2 <= Len(stack)
    BY <2>1, <1>1, AcceptedFacts
  <2> QED BY <2>1, <2>2, TopType
<1>4. stack' \in Seq(Word) /\ Len(stack') <= StackLimit
  BY <1>1, PopSome
<1>5. bytes \in Seq(Byte) /\ Len(bytes) = Top(n)
  BY <1>3, SourceType, DataSliceType
<1>6. <<Top(n - 2), Top(n)>> \in Regions(op)
  <2>1. CASE op = "EXTCODECOPY"
    <3>1. n = 4 /\ Regions(op) = {<<Top(2), Top(4)>>}
      BY <1>2, <2>1, RegionsOf
    <3>2. n - 2 = 2
      BY <3>1
    <3> HIDE DEF n
    <3> QED BY <3>1, <3>2
  <2>2. CASE op # "EXTCODECOPY"
    <3>1. n = 3 /\ Regions(op) = {<<Top(1), Top(3)>>}
      BY <1>2, <2>2, RegionsOf
    <3>2. n - 2 = 1
      BY <3>1
    <3> HIDE DEF n
    <3> QED BY <3>1, <3>2
  <2> QED BY <2>1, <2>2
<1> HIDE DEF bytes, n
<1>7. memory' \in Seq(Byte) /\ MemoryIsCharged'
  <2>1. Len(bytes) <= Top(n)
    BY <1>3, <1>5
  <2> QED BY <1>1, <1>3, <1>5, <1>6, <2>1, MemoryWritten
<1>8. lastReturned' \in Seq(Byte)
  BY <1>1 DEF Typed
<1> QED BY <1>1, <1>4, <1>7, <1>8, ExecutesTyped

LEMMA FinishTyped ==
  ASSUME Typed, IInv', NEW op \in {"STOP", "RETURN", "REVERT"}, Finish(op) PROVE Typed'
<1>1. /\ Accepted(op) /\ gasLeft' = gasLeft - Cost(op) /\ memoryWordCount' = WordsTouched(op)
      /\ stack' = Popped(Pops(op)) /\ status' = "stopped"
      /\ UNCHANGED <<job, scan, validJumps, memory, lastReturned>>
  BY DEF Finish, Accepted, HandledOps
<1>2. stack' \in Seq(Word) /\ Len(stack') <= StackLimit
  BY <1>1, PopSome
<1>3. memory' \in Seq(Byte) /\ MemoryIsCharged'
  BY <1>1, MemoryStays
<1>4. Cost(op) \in Nat /\ Cost(op) <= gasLeft /\ gasLeft \in Nat
  BY <1>1, CostType DEF Typed, TypeOK
<1>5. 0 \in Nat /\ 0 <= gasLeft - Cost(op) /\ gasLeft' = gasLeft - Cost(op) - 0
  BY <1>1, <1>4
<1>6. lastReturned' \in Seq(Byte)
  BY <1>1 DEF Typed
<1> QED BY <1>1, <1>2, <1>3, <1>5, <1>6, HandledTyped

\* A message uses no more gas than its caller has left.
LEMMA AnswerPaid ==
  ASSUME Typed, NEW op \in CallOps, NEW answer \in Answer, MessageAnswered(op, answer)
  PROVE  answer.gasUsed <= gasLeft - Cost(op)
<1> DEFINE left == gasLeft - Cost(op)
<1>1. Accepted(op) /\ answer.gasUsed <= MaxCallGas(op)
  BY DEF MessageAnswered, Accepted, HandledOps
<1>2. answer.gasUsed \in Nat /\ Pops(op) = 6
  BY EnvironmentAssumption, PopsOf
<1>3. Top(1) \in Nat
  BY <1>1, <1>2, AcceptedFacts, TopType
<1>4. left \in Nat
  BY <1>1, CostType DEF Typed, TypeOK
<1> HIDE DEF left
<1>5. left \div 64 \in Nat /\ left \div 64 <= left
  BY <1>4, DivType
<1> DEFINE most == left - left \div 64
<1>6. most \in Nat /\ most <= left
  BY <1>4, <1>5
<1>7. MaxCallGas(op) = Min({Top(1), most})
  BY DEF MaxCallGas, left
<1> HIDE DEF most
<1>8. MaxCallGas(op) \in Nat /\ MaxCallGas(op) <= most
  BY <1>3, <1>6, <1>7, MinOfTwo
<1>9. answer.gasUsed <= left
  BY <1>1, <1>2, <1>4, <1>6, <1>8
<1> QED BY <1>9 DEF left

LEMMA CallMessageTyped ==
  ASSUME Typed, IInv', NEW op \in CallOps, NEW answer \in Answer, CallMessage(op, answer)
  PROVE  Typed'
<1> DEFINE size == Min({Len(answer.data), Top(6)})
           bytes == DataSlice(answer.data, 0, size)
           left == gasLeft - Cost(op)
<1>1. /\ Accepted(op) /\ Grows(op) /\ answer.gasUsed <= MaxCallGas(op)
      /\ gasLeft' = gasLeft - Cost(op) - answer.gasUsed /\ memoryWordCount' = WordsTouched(op)
      /\ lastReturned' = answer.data /\ Store(Top(5), bytes)
      /\ stack' = Append(Popped(6), Flag(answer.success))
      /\ UNCHANGED <<job, scan, validJumps>> /\ status' \in {"running", "stopped"}
  BY DEF CallMessage, MessageAnswered, Accepted, HandledOps, Grows, Continues, Running
<1>2. answer.data \in Seq(Byte) /\ answer.gasUsed \in Nat
  BY EnvironmentAssumption
<1>3. Pops(op) = 6
  BY PopsOf
<1>4. Top(1) \in Nat /\ Top(5) \in Nat /\ Top(6) \in Nat
  BY <1>1, <1>3, AcceptedFacts, TopType
<1>5. answer.gasUsed <= left
  BY AnswerPaid DEF CallMessage
<1>6. size \in Nat /\ size <= Top(6)
  <2>1. Len(answer.data) \in Nat
    BY <1>2
  <2> QED BY <1>4, <2>1, MinOfTwo
<1> HIDE DEF size
<1>7. bytes \in Seq(Byte) /\ Len(bytes) = size
  BY <1>2, <1>6, DataSliceType
<1> HIDE DEF bytes
<1>8. memory' \in Seq(Byte) /\ MemoryIsCharged'
  <2>1. <<Top(5), Top(6)>> \in Regions(op)
    BY RegionsOf, Zenon
  <2>2. Len(bytes) <= Top(6)
    BY <1>6, <1>7
  <2> QED BY <1>1, <1>4, <1>7, <2>1, <2>2, MemoryWritten
<1>9. stack' \in Seq(Word) /\ Len(stack') <= StackLimit
  <2>1. Popped(6) \in Seq(Word) /\ Len(Popped(6)) = Len(stack) - Pops(op)
    BY <1>1, <1>3, AcceptedFacts, PoppedType
  <2>2. Flag(answer.success) \in Word
    BY FlagType, WordType
  <2> QED BY <1>1, <2>1, <2>2, PushOne
<1>10. lastReturned' \in Seq(Byte)
  BY <1>1, <1>2
<1> QED BY <1>1, <1>2, <1>5, <1>8, <1>9, <1>10, HandledTyped

LEMMA LoseAnswerTyped ==
  ASSUME Typed, IInv', NEW op \in CallOps, NEW answer \in Answer, LoseAnswer(op, answer)
  PROVE  Typed'
<1>1. /\ Accepted(op) /\ gasLeft' = gasLeft - Cost(op) - answer.gasUsed
      /\ memoryWordCount' = WordsTouched(op) /\ lastReturned' = answer.data
      /\ stack' = Popped(6) /\ status' = "stopped"
      /\ UNCHANGED <<job, scan, validJumps, memory>>
  BY DEF LoseAnswer, MessageAnswered, Accepted, HandledOps
<1>2. answer.data \in Seq(Byte) /\ answer.gasUsed \in Nat /\ Pops(op) = 6
  BY EnvironmentAssumption, PopsOf
<1>3. stack' \in Seq(Word) /\ Len(stack') <= StackLimit
  BY <1>1, <1>2, PopSome
<1>4. memory' \in Seq(Byte) /\ MemoryIsCharged'
  BY <1>1, MemoryStays
<1>5. answer.gasUsed <= gasLeft - Cost(op)
  BY AnswerPaid DEF LoseAnswer
<1>6. lastReturned' \in Seq(Byte)
  BY <1>1, <1>2
<1> QED BY <1>1, <1>2, <1>3, <1>4, <1>5, <1>6, HandledTyped

LEMMA HandleTyped ==
  ASSUME Typed, HashesAreNumbers, IInv', Handle PROVE Typed'
<1>1. CASE \E op \in PushingOps : PushResult(op)
  BY <1>1, PushResultTyped
<1>2. CASE Pop \/ Push \/ Dup \/ Swap \/ Log
  BY <1>2, PopTyped, PushTyped, DupTyped, SwapTyped, LogTyped
<1>3. CASE \E op \in {"JUMP", "JUMPI", "JUMPDEST"} : Jump(op)
  BY <1>3, JumpTyped
<1>4. CASE \E op \in {"MSTORE", "MSTORE8"} : StoreWord(op)
  BY <1>4, StoreWordTyped
<1>5. CASE \E op \in CopyOps : Copy(op)
  BY <1>5, CopyTyped
<1>6. CASE \E op \in {"STOP", "RETURN", "REVERT"} : Finish(op)
  BY <1>6, FinishTyped
<1>7. CASE \E op \in CallOps, answer \in Answer :
             CallMessage(op, answer) \/ LoseAnswer(op, answer)
  BY <1>7, CallMessageTyped, LoseAnswerTyped
<1> QED BY <1>1, <1>2, <1>3, <1>4, <1>5, <1>6, <1>7 DEF Handle

\* A step that runs no handler.
LEMMA IdleTyped ==
  ASSUME Typed, IInv', job' = job, runVars' = runVars,
         scan' \in Nat, validJumps' \subseteq 0 .. Len(job.code) - 1,
         status' \in {"validating", "running", "stopped", "refused"}
  PROVE  Typed'
<1>1. programCounter' \in Nat
  BY DEF IInv
<1>2. /\ stack' = stack /\ memory' = memory /\ memoryWordCount' = memoryWordCount
      /\ gasLeft' = gasLeft /\ lastReturned' = lastReturned
  BY DEF runVars
<1>3. TypeOK'
  BY <1>1, <1>2 DEF Typed, TypeOK
<1>4. MemoryIsCharged'
  BY <1>2 DEF Typed, MemoryIsCharged
<1>5. lastReturned' \in Seq(Byte)
  BY <1>2 DEF Typed
<1> QED BY <1>3, <1>4, <1>5 DEF Typed

LEMMA InitTyped == Init => Typed
<1> SUFFICES ASSUME Init PROVE Typed
  OBVIOUS
<1>1. IInv
  BY InitInvariant
<1>2. /\ job.gasLimit \in Nat /\ scan = 0 /\ validJumps = {} /\ stack = <<>>
      /\ memory = <<>> /\ memoryWordCount = 0 /\ gasLeft = job.gasLimit
      /\ lastReturned = <<>> /\ status = "validating"
  BY JobAssumption DEF Init, Activation
<1>3. TypeOK
  BY <1>1, <1>2, StackLimitAssumption DEF TypeOK, IInv
<1>4. MemoryIsCharged
  <2>1. 0 * WordBytes = 0
    BY Sizes
  <2> QED BY <1>2, <2>1 DEF MemoryIsCharged
<1> QED BY <1>1, <1>2, <1>3, <1>4 DEF Typed

LEMMA StepTyped ==
  ASSUME HashesAreNumbers
  PROVE  Typed /\ [Next]_vars => Typed'
<1> SUFFICES ASSUME Typed, [Next]_vars PROVE Typed'
  OBVIOUS
<1>1. IInv'
  BY StepInvariant DEF Typed
<1>2. /\ scan \in Nat /\ validJumps \subseteq 0 .. Len(job.code) - 1
      /\ status \in {"validating", "running", "stopped", "refused"}
  BY DEF Typed, TypeOK
<1>3. CASE FindJumpDest
  <2>1. /\ job' = job /\ runVars' = runVars /\ status' = status
        /\ scan < Len(job.code) /\ validJumps' \subseteq validJumps \cup {scan}
    BY <1>3 DEF FindJumpDest
  <2>2. scan' \in Nat
    BY <1>1 DEF IInv
  <2>3. Len(job.code) \in Nat
    BY JobFacts DEF Typed, IInv
  <2>4. validJumps' \subseteq 0 .. Len(job.code) - 1
    BY <1>2, <2>1, <2>3
  <2> QED BY <1>1, <1>2, <2>1, <2>2, <2>4, IdleTyped
<1>4. CASE Start
  BY <1>1, <1>2, <1>4, IdleTyped DEF Start
<1>5. CASE EndOfCode \/ Trap
  BY <1>1, <1>2, <1>5, IdleTyped DEF EndOfCode, Trap
<1>6. CASE Handle
  BY <1>1, <1>6, HandleTyped
<1>7. CASE UNCHANGED vars
  BY <1>1, <1>2, <1>7, IdleTyped DEF vars
<1> QED BY <1>3, <1>4, <1>5, <1>6, <1>7 DEF Next

\* The inductive invariant of the types: with OnBoundary's, that what a message
\* returned is bytes, and that the memory that is written has been charged.
THEOREM RunsAreTyped == HashesAreNumbers => (Spec => []Typed)
<1> SUFFICES ASSUME HashesAreNumbers PROVE Spec => []Typed
  OBVIOUS
<1> QED BY InitTyped, StepTyped, PTL DEF Spec

----------------------------------------------------------------------------
(* Precompiled contracts: the charge is a natural number.                   *)

\* The largest of a number and of others below a bound.
LEMMA MaxOfSome ==
  ASSUME NEW S \in SUBSET Int, NEW n \in Int, S # {}, \A x \in S : x <= n
  PROVE  Max(S) \in S /\ \A y \in S : Max(S) >= y
<1> DEFINE Below == {n - x : x \in S}
<1>1. Below \in SUBSET Nat /\ Below # {}
  <2>1. \A x \in S : n - x \in Nat
    OBVIOUS
  <2> QED BY <2>1
<1>2. PICK m \in Below : \A k \in Below : m <= k
  <2> HIDE DEF Below
  <2> QED BY <1>1, Least
<1>3. PICK x \in S : m = n - x
  OBVIOUS
<1>4. ASSUME NEW y \in S PROVE x >= y
  <2>1. n - y \in Below
    OBVIOUS
  <2>2. m <= n - y
    <3> HIDE DEF Below
    <3> QED BY <1>2, <2>1
  <2> QED BY <1>3, <2>2
<1> HIDE DEF Below
<1> QED BY <1>4 DEF Max

LEMMA MaxOfTwo ==
  ASSUME NEW a \in Int, NEW b \in Int
  PROVE  Max({a, b}) = IF a >= b THEN a ELSE b
<1> DEFINE n == IF a >= b THEN a ELSE b
<1>1. Max({a, b}) \in {a, b} /\ \A y \in {a, b} : Max({a, b}) >= y
  <2>1. n \in Int /\ {a, b} \in SUBSET Int /\ {a, b} # {} /\ \A x \in {a, b} : x <= n
    OBVIOUS
  <2> HIDE DEF n
  <2> QED BY <2>1, MaxOfSome
<1> QED BY <1>1

\* The bytes of data between two positions.
LEMMA SliceType ==
  ASSUME NEW data \in Seq(Byte), NEW from \in Nat, NEW to \in Nat, from <= to
  PROVE  Slice(data, from, to) \in Seq(Byte) /\ Len(Slice(data, from, to)) <= to - from
<1> DEFINE end == Min({to, Len(data)})
<1>1. end = IF to <= Len(data) THEN to ELSE Len(data)
  BY MinOfTwo
<1>2. end \in Nat /\ end <= to /\ end <= Len(data)
  BY <1>1
<1> HIDE DEF end
<1>3. \A n \in from + 1 .. end : data[n] \in Byte
  BY <1>2
<1>4. /\ SubSeq(data, from + 1, end) \in Seq(Byte)
      /\ Len(SubSeq(data, from + 1, end)) = IF from + 1 <= end THEN end - (from + 1) + 1 ELSE 0
  BY <1>2, <1>3, SubSeqProperties
<1>5. Len(SubSeq(data, from + 1, end)) <= to - from
  BY <1>2, <1>4
<1>6. Slice(data, from, to) = SubSeq(data, from + 1, end)
  BY DEF Slice, end
<1> QED BY <1>4, <1>5, <1>6

LEMMA LengthType ==
  ASSUME NEW data \in Seq(Byte), NEW n \in Nat
  PROVE  Number(Slice(data, n * WordBytes, (n + 1) * WordBytes)) \in Nat
<1> DEFINE from == n * WordBytes
           to == (n + 1) * WordBytes
           slice == Slice(data, from, to)
<1>1. from \in Nat /\ to \in Nat /\ to - from = WordBytes
  BY Sizes
<1> HIDE DEF from, to
<1>2. slice \in Seq(Byte) /\ Len(slice) <= WordBytes
  <2>1. from <= to
    BY <1>1, Sizes
  <2>2. slice \in Seq(Byte) /\ Len(slice) <= to - from
    BY <1>1, <2>1, SliceType
  <2> QED BY <1>1, <2>2
<1> HIDE DEF slice
<1>3. FromBytes(slice) \in Nat
  BY <1>2, FromBytesType, WordType
<1> QED BY <1>3 DEF Number, slice, from, to

LEMMA LengthsType ==
  ASSUME NEW data \in Seq(Byte)
  PROVE  /\ Number(Slice(data, 0, WordBytes)) \in Nat
         /\ Number(Slice(data, WordBytes, 2 * WordBytes)) \in Nat
         /\ Number(Slice(data, 2 * WordBytes, 3 * WordBytes)) \in Nat
<1>1. /\ 0 * WordBytes = 0 /\ (0 + 1) * WordBytes = WordBytes /\ 1 * WordBytes = WordBytes
      /\ (1 + 1) * WordBytes = 2 * WordBytes /\ (2 + 1) * WordBytes = 3 * WordBytes
  BY Sizes
<1>2. /\ Number(Slice(data, 0 * WordBytes, (0 + 1) * WordBytes)) \in Nat
      /\ Number(Slice(data, 1 * WordBytes, (1 + 1) * WordBytes)) \in Nat
      /\ Number(Slice(data, 2 * WordBytes, (2 + 1) * WordBytes)) \in Nat
  BY LengthType
<1> QED BY <1>1, <1>2

LEMMA MultComplexityType ==
  ASSUME NEW x \in Nat
  PROVE  MultComplexity(x) \in Nat
<1>1. PICK y \in Nat : y = x * x
  BY ProductType
<1>2. y \div 4 \in Nat /\ y \div 16 \in Nat
  BY <1>1, DivType
<1>3. x > 64 => 96 * x - 3072 \in Nat
  OBVIOUS
<1>4. x > 1024 => 480 * x - 199680 \in Nat
  OBVIOUS
<1>5. PICK p \in Nat, q \in Nat : p = y \div 4 /\ q = y \div 16
  BY <1>2
<1>6. MultComplexity(x) = IF x <= 64 THEN y
                          ELSE IF x <= 1024 THEN p + 96 * x - 3072
                          ELSE q + 480 * x - 199680
  BY <1>1, <1>5 DEF MultComplexity
<1> QED BY <1>3, <1>4, <1>6

LEMMA BitLengthType ==
  ASSUME NEW x
  PROVE  BitLength(x) \in Int
<1> DEFINE S == {-1} \cup {n \in 0 .. WordBits - 1 : Bit(x, n) = 1}
<1>1. S \in SUBSET Int /\ S # {} /\ \A n \in S : n <= WordBits
  BY Sizes
<1>2. WordBits \in Int /\ BitLength(x) = Max(S)
  BY Sizes DEF BitLength
<1> HIDE DEF S
<1> QED BY <1>1, <1>2, MaxOfSome

LEMMA AdjustedType ==
  ASSUME NEW data \in Seq(Byte)
  PROVE  AdjustedExponentLength(data) \in Nat
<1> DEFINE expLen == Number(Slice(data, WordBytes, 2 * WordBytes))
           first == Number(Padded(data, 3 * WordBytes + Number(Slice(data, 0, WordBytes)),
                                  WordBytes))
           surplus == Max({WordBytes - expLen, 0})
           bitLen == BitLength(first \div 2 ^ (ByteBits * surplus))
<1>1. expLen \in Nat
  BY LengthsType
<1>2. bitLen \in Int
  <2> HIDE DEF first, surplus
  <2> QED BY BitLengthType
<1>3. AdjustedExponentLength(data)
        = ByteBits * Max({expLen - WordBytes, 0}) + Max({bitLen, 0})
  BY DEF AdjustedExponentLength
<1> HIDE DEF expLen, bitLen
<1>4. Max({expLen - WordBytes, 0}) \in Nat /\ Max({bitLen, 0}) \in Nat
  <2>1. expLen - WordBytes \in Int
    BY <1>1, Sizes
  <2> QED BY <1>2, <2>1, MaxOfTwo
<1>5. PICK a \in Nat, b \in Nat : a = Max({expLen - WordBytes, 0}) /\ b = Max({bitLen, 0})
  BY <1>4
<1>6. ByteBits * a \in Nat
  BY ProductType, Sizes
<1> QED BY <1>3, <1>5, <1>6

----------------------------------------------------------------------------
(* A charge that is compared with the limit is within it.                   *)

Within(limit, answer) ==
  /\ answer.gasUsed \in 0 .. limit
  /\ answer.exception # "NONE" => answer.gasUsed = limit /\ answer.returnValue = <<>>

LEMMA OutOfGasWithin ==
  ASSUME NEW limit \in Nat, NEW error
  PROVE  Within(limit, ExecResult(limit, error, <<>>)) /\ Within(limit, OOGResult(limit))
BY DEF Within, OOGResult, ExecResult

LEMMA ChargedWithin ==
  ASSUME NEW limit \in Nat, NEW gasUsed \in Nat, NEW outcome,
         \/ outcome = OOGResult(limit)
         \/ \E answer : outcome = Executed(gasUsed, answer)
  PROVE  Within(limit, Charged(limit, gasUsed, outcome))
<1>1. Within(limit, OOGResult(limit))
  BY OutOfGasWithin
<1>2. ASSUME ~(limit < gasUsed), NEW answer
      PROVE  Within(limit, Executed(gasUsed, answer))
  BY <1>2 DEF Within, Executed, ExecResult
<1> QED BY <1>1, <1>2 DEF Charged

LEMMA ModexpWithin ==
  ASSUME NEW limit \in Nat, NEW data \in Seq(Byte)
  PROVE  Within(limit, Modexp(data, limit))
<1> DEFINE bLen == Number(Slice(data, 0, WordBytes))
           eLen == Number(Slice(data, WordBytes, 2 * WordBytes))
           mLen == Number(Slice(data, 2 * WordBytes, 3 * WordBytes))
           bStart == 3 * WordBytes
           eStart == bStart + bLen
           mStart == eStart + eLen
           gasUsed == (Max({AdjustedExponentLength(data), 1}) * MultComplexity(Max({bLen, mLen})))
                        \div PrecompilePrice.modexpGquaddivisor
           modulus == Number(Padded(data, mStart, mLen))
           power == ExpMod(Number(Padded(data, bStart, bLen)),
                           Number(Padded(data, eStart, eLen)), modulus)
           value == BigEndian(IF modulus = 0 THEN 0 ELSE power, mLen)
           outcome == IF bLen = 0 THEN Executed(gasUsed, <<0>>)
                      ELSE IF mLen = 0 THEN Executed(gasUsed, <<>>)
                      ELSE IF Max({bLen, eLen, mLen}) > MaxSize THEN OOGResult(limit)
                      ELSE Executed(gasUsed, value)
<1>1. Modexp(data, limit) = Charged(limit, gasUsed, outcome)
  BY DEF Modexp
<1>2. bLen \in Nat /\ mLen \in Nat /\ AdjustedExponentLength(data) \in Nat
  BY LengthsType, AdjustedType
<1>3. gasUsed \in Nat
  <2>1. PICK a \in Nat : a = Max({AdjustedExponentLength(data), 1})
    BY <1>2, MaxOfTwo
  <2>2. PICK l \in Nat : l = Max({bLen, mLen})
    <3> HIDE DEF bLen, mLen
    <3> QED BY <1>2, MaxOfTwo
  <2>3. PICK c \in Nat : c = MultComplexity(l)
    BY MultComplexityType
  <2>4. PICK d \in Nat \ {0} : d = PrecompilePrice["modexpGquaddivisor"]
    BY PrecompilePriceAssumption
  <2>5. gasUsed = (a * c) \div d
    BY <2>1, <2>2, <2>3, <2>4
  <2>6. (a * c) \div d \in Nat
    BY ProductType, DivType
  <2> QED BY <2>5, <2>6
<1>4. \/ outcome = OOGResult(limit)
      \/ \E answer : outcome = Executed(gasUsed, answer)
  <2> HIDE DEF bLen, eLen, mLen, gasUsed, value
  <2> QED OBVIOUS
<1> HIDE DEF gasUsed, outcome
<1> QED BY <1>1, <1>3, <1>4, ChargedWithin

LEMMA Blake2fWithin ==
  ASSUME NEW limit \in Nat, NEW data, data.rounds \in Nat
  PROVE  Within(limit, Blake2fRun(data, limit))
<1> DEFINE gasUsed == PrecompilePrice.blake2Round * data.rounds
           output == F(data.h, data.m, data.t, data.lastByte = 1, data.rounds)
           outcome == Executed(gasUsed, [n \in 1 .. 16 |-> output[n - 1]])
<1>1. Blake2fRun(data, limit) = IF data.length # 213 \/ data.lastByte \notin {0, 1}
                                THEN ExecResult(limit, "OUT_OF_RANGE", <<>>)
                                ELSE Charged(limit, gasUsed, outcome)
  BY DEF Blake2fRun
<1>2. gasUsed \in Nat
  BY PrecompilePriceAssumption, ProductType
<1> HIDE DEF gasUsed, output
<1>3. Within(limit, Charged(limit, gasUsed, outcome))
  BY <1>2, ChargedWithin
<1> QED BY <1>1, <1>3, OutOfGasWithin

LEMMA ChargeType ==
  ASSUME NEW name \in Libraries, NEW size \in Nat
  PROVE  Charge(name, size) \in Nat
<1>1. PICK w \in Nat : w = WordsOf(size)
  <2>1. size + WordBytes - 1 \in Nat
    BY Sizes
  <2> QED BY <2>1, Sizes, DivType DEF WordsOf
<1>2. PICK k \in Nat : k = size \div (6 * WordBytes)
  <2>1. 6 * WordBytes \in Nat \ {0}
    BY Sizes
  <2> QED BY <2>1, DivType
<1>3. /\ PrecompilePrice.sha256Word * w \in Nat /\ PrecompilePrice.ripemd160Word * w \in Nat
      /\ PrecompilePrice.identityWord * w \in Nat /\ PrecompilePrice.ecPairingWord * k \in Nat
  BY PrecompilePriceAssumption, ProductType
<1>4. CASE name = "ecrecover"
  BY <1>4, PrecompilePriceAssumption DEF Charge
<1>5. CASE name = "sha256"
  BY <1>1, <1>3, <1>5, PrecompilePriceAssumption DEF Charge
<1>6. CASE name = "ripemd160"
  BY <1>1, <1>3, <1>6, PrecompilePriceAssumption DEF Charge
<1>7. CASE name = "identity"
  BY <1>1, <1>3, <1>7, PrecompilePriceAssumption DEF Charge
<1>8. CASE name = "ecadd"
  BY <1>8, PrecompilePriceAssumption DEF Charge
<1>9. CASE name = "ecmul"
  BY <1>9, PrecompilePriceAssumption DEF Charge
<1>10. CASE name = "ecpairing"
  BY <1>2, <1>3, <1>10, PrecompilePriceAssumption DEF Charge
<1> QED BY <1>4, <1>5, <1>6, <1>7, <1>8, <1>9, <1>10 DEF Libraries, Curves

LEMMA LibraryWithin ==
  ASSUME NEW limit \in Nat, NEW name \in Libraries, NEW data \in Seq(Byte)
  PROVE  Within(limit, Library(name, data, limit))
<1> DEFINE gasUsed == Charge(name, Len(data))
           found == External(name, data)
           wanted == IF name = "ecpairing" THEN WordBytes ELSE 2 * WordBytes
           outcome == IF name = "identity" THEN Executed(gasUsed, data)
                      ELSE IF name \in Curves /\ Len(found) # wanted THEN OOGResult(limit)
                      ELSE Executed(gasUsed, found)
<1>1. Library(name, data, limit) = Charged(limit, gasUsed, outcome)
  BY DEF Library
<1>2. gasUsed \in Nat
  <2>1. Len(data) \in Nat
    OBVIOUS
  <2> QED BY <2>1, ChargeType
<1>3. \/ outcome = OOGResult(limit)
      \/ \E answer : outcome = Executed(gasUsed, answer)
  <2> HIDE DEF gasUsed, found, wanted
  <2> QED OBVIOUS
<1> HIDE DEF gasUsed, outcome
<1> QED BY <1>1, <1>2, <1>3, ChargedWithin

LEMMA PrecompileWithin ==
  ASSUME NEW r \in Request
  PROVE  Within(r.gasLimit, Precompile(r.name, r.data, r.gasLimit))
<1>1. r.gasLimit \in Nat
  BY RequestAssumption
<1>2. CASE r.name = "blake2f" /\ r.data.rounds \in Nat
  <2>1. Precompile(r.name, r.data, r.gasLimit) = Blake2fRun(r.data, r.gasLimit)
    BY <1>2 DEF Precompile
  <2> QED BY <1>1, <1>2, <2>1, Blake2fWithin
<1>3. CASE r.name = "modexp" /\ r.data \in Seq(Byte)
  <2>1. Precompile(r.name, r.data, r.gasLimit) = Modexp(r.data, r.gasLimit)
    BY <1>3 DEF Precompile
  <2> QED BY <1>1, <1>3, <2>1, ModexpWithin
<1>4. CASE r.name \in Libraries /\ r.data \in Seq(Byte)
  <2>1. Precompile(r.name, r.data, r.gasLimit) = Library(r.name, r.data, r.gasLimit)
    BY <1>4 DEF Precompile, Libraries, Curves
  <2> QED BY <1>1, <1>4, <2>1, LibraryWithin
<1> QED BY <1>2, <1>3, <1>4, RequestAssumption

----------------------------------------------------------------------------
(* A call of a precompile waits and is answered; other code is run.         *)

Called ==
  \/ request = NoRequest /\ result = NoResult
  \/ /\ request \in Request /\ job = NoCode /\ Activation
     /\ result # NoResult =>
          result = Precompile(request.name, request.data, request.gasLimit)

LEMMA InitCalled == InitExecution => Called
BY DEF InitExecution, Called

LEMMA StepCalled == Called /\ [NextExecution]_allVars => Called'
<1> SUFFICES ASSUME Called, [NextExecution]_allVars PROVE Called'
  OBVIOUS
<1>1. ASSUME job = NoCode, Activation, vars' = vars PROVE job' = NoCode /\ Activation'
  BY <1>1 DEF vars, runVars, Activation
<1>2. CASE RunPrecompile
  <2>1. /\ request # NoRequest /\ vars' = vars /\ request' = request
        /\ result' = Precompile(request.name, request.data, request.gasLimit)
    BY <1>2 DEF RunPrecompile
  <2>2. request \in Request /\ job = NoCode /\ Activation
    BY <2>1 DEF Called
  <2> QED BY <1>1, <2>1, <2>2 DEF Called
<1>3. CASE RunInterpreter
  <2>1. request = NoRequest /\ request' = request /\ result' = result
    BY <1>3 DEF RunInterpreter
  <2> QED BY <2>1, RequestAssumption DEF Called
<1>4. CASE UNCHANGED allVars
  <2>1. vars' = vars /\ request' = request /\ result' = result
    BY <1>4 DEF allVars
  <2> QED BY <1>1, <2>1 DEF Called
<1> QED BY <1>2, <1>3, <1>4 DEF NextExecution

\* Every call of a precompile is answered by the one it names, and no code is run
\* for it.
THEOREM Answers == ExecutionSpec => []Called
BY InitCalled, StepCalled, PTL DEF ExecutionSpec

\* No precompile uses more gas than it is given, and one that fails uses all of
\* it and answers nothing (see PrecompileWithinLimit; lib/evm/precompiles).
THEOREM PrecompilesPaid == ExecutionSpec => []PrecompileWithinLimit
<1>1. Called => PrecompileWithinLimit
  <2> SUFFICES ASSUME Called, result # NoResult
               PROVE  Within(request.gasLimit, result)
    BY DEF PrecompileWithinLimit, Within
  <2>1. request \in Request
        /\ result = Precompile(request.name, request.data, request.gasLimit)
    BY DEF Called
  <2> QED BY <2>1, PrecompileWithin
<1> QED BY <1>1, Answers, PTL

----------------------------------------------------------------------------
(* What a run leaves of logs: topics are words.                             *)

LogType == [topics : Seq(Word), data : Seq(Byte)]
Logged == Typed /\ logs \in Seq(LogType)

LEMMA LogLogged ==
  ASSUME Logged, Log PROVE logs' \in Seq(LogType)
<1> DEFINE topics == [k \in 1 .. OpWidth |-> Top(k + 2)]
           bytes == Read(memory, Top(1), Top(2))
<1>1. /\ Accepted("LOG") /\ Typed
      /\ logs' = Append(logs, [topics |-> topics, data |-> bytes])
  BY DEF Log, Executes, Accepted, HandledOps, Logged
<1>2. /\ Pops("LOG") = 2 + OpWidth /\ OpWidth \in Nat /\ Len(stack) \in Nat
      /\ Pops("LOG") <= Len(stack)
  BY <1>1, AcceptedFacts, PopsOf
<1>3. topics \in Seq(Word)
  <2>1. ASSUME NEW k \in 1 .. OpWidth PROVE Top(k + 2) \in Word
    <3>1. k + 2 \in Nat \ {0} /\ k + 2 <= Len(stack)
      BY <1>2
    <3> QED BY <1>1, <3>1, TopType
  <2>2. topics \in [1 .. OpWidth -> Word]
    BY <2>1
  <2> HIDE DEF topics
  <2> QED BY <1>2, <2>2, FiniteSequence
<1>4. bytes \in Seq(Byte)
  <2>1. Top(1) \in Nat /\ Top(2) \in Nat
    BY <1>1, <1>2, TopType
  <2> QED BY <1>1, <2>1, ReadType DEF Typed, TypeOK
<1> HIDE DEF topics, bytes
<1>5. [topics |-> topics, data |-> bytes] \in LogType
  BY <1>3, <1>4 DEF LogType
<1> HIDE DEF LogType
<1> QED BY <1>1, <1>5 DEF Logged

LEMMA StepLogged ==
  ASSUME HashesAreNumbers
  PROVE  Logged /\ [Next]_vars => Logged'
<1> SUFFICES ASSUME Logged, [Next]_vars PROVE Logged'
  OBVIOUS
<1>1. Typed'
  BY StepTyped DEF Logged
<1>2. logs \in Seq(LogType)
  BY DEF Logged
<1>3. CASE logs' = logs
  BY <1>1, <1>2, <1>3 DEF Logged
<1>4. CASE Log
  BY <1>1, <1>4, LogLogged DEF Logged
<1>5. ASSUME NEW op \in CallOps, NEW answer \in Answer,
             CallMessage(op, answer) \/ LoseAnswer(op, answer)
      PROVE  Logged'
  <2>1. logs' = logs \o answer.logs
    BY <1>5 DEF CallMessage, LoseAnswer, MessageAnswered
  <2>2. answer.logs \in Seq(LogType)
    BY EnvironmentAssumption DEF LogType
  <2> HIDE DEF LogType
  <2>3. logs' \in Seq(LogType)
    BY <1>2, <2>1, <2>2
  <2> QED BY <1>1, <2>3 DEF Logged
<1>6. CASE FindJumpDest \/ Start \/ EndOfCode \/ Trap \/ UNCHANGED vars
  <2>1. logs' = logs
    BY <1>6 DEF FindJumpDest, Start, EndOfCode, Trap, vars, runVars
  <2> QED BY <1>3, <2>1
<1>7. CASE Handle
  <2>1. CASE \E op \in PushingOps : PushResult(op)
    BY <1>3, <2>1 DEF PushResult
  <2>2. CASE Pop \/ Push \/ Dup \/ Swap
    BY <1>3, <2>2 DEF Pop, Push, Dup, Swap
  <2>3. CASE \/ \E op \in {"JUMP", "JUMPI", "JUMPDEST"} : Jump(op)
             \/ \E op \in {"MSTORE", "MSTORE8"} : StoreWord(op)
             \/ \E op \in CopyOps : Copy(op)
             \/ \E op \in {"STOP", "RETURN", "REVERT"} : Finish(op)
    BY <1>3, <2>3 DEF Jump, StoreWord, Copy, Finish
  <2> QED BY <1>4, <1>5, <1>7, <2>1, <2>2, <2>3 DEF Handle
<1> QED BY <1>6, <1>7 DEF Next

----------------------------------------------------------------------------
(* Execution runs code as Interpreter says.                                *)

LEMMA BeginsRun == InitExecution => (request = NoRequest => Logged /\ IInv)
<1> SUFFICES ASSUME InitExecution, request = NoRequest PROVE Logged /\ IInv
  OBVIOUS
<1>1. Init
  BY RequestAssumption DEF InitExecution, Init
<1>2. logs = <<>>
  BY <1>1 DEF Init, Activation
<1> QED BY <1>1, <1>2, InitTyped, InitInvariant DEF Logged

LEMMA StepsRun == [NextExecution]_allVars /\ request' = NoRequest
                    => request = NoRequest /\ [Next]_vars
<1> SUFFICES ASSUME [NextExecution]_allVars, request' = NoRequest
             PROVE  request = NoRequest /\ [Next]_vars
  OBVIOUS
<1>1. CASE RunPrecompile
  BY <1>1 DEF RunPrecompile
<1>2. CASE RunInterpreter
  BY <1>2 DEF RunInterpreter
<1>3. CASE UNCHANGED allVars
  BY <1>3 DEF allVars
<1> QED BY <1>1, <1>2, <1>3 DEF NextExecution

LEMMA RunsStay ==
  ExecutionSpec => [](Called /\ (request = NoRequest => IInv))
<1> DEFINE I == request = NoRequest => IInv
<1>1. InitExecution => I
  BY BeginsRun
<1>2. I /\ [NextExecution]_allVars => I'
  <2> SUFFICES ASSUME I, [NextExecution]_allVars, request' = NoRequest PROVE IInv'
    OBVIOUS
  <2> QED BY StepsRun, StepInvariant
<1> HIDE DEF I
<1>3. ExecutionSpec => []I
  BY <1>1, <1>2, PTL DEF ExecutionSpec
<1>4. Called /\ I => Called /\ (request = NoRequest => IInv)
  BY DEF I
<1> QED BY <1>3, <1>4, Answers, PTL

LEMMA RunsStayTyped ==
  HashesAreNumbers => (ExecutionSpec => [](Called /\ (request = NoRequest => Logged)))
<1> SUFFICES ASSUME HashesAreNumbers
             PROVE  ExecutionSpec => [](Called /\ (request = NoRequest => Logged))
  OBVIOUS
<1> DEFINE I == request = NoRequest => Logged
<1>1. InitExecution => I
  BY BeginsRun
<1>2. I /\ [NextExecution]_allVars => I'
  <2> SUFFICES ASSUME I, [NextExecution]_allVars, request' = NoRequest PROVE Logged'
    OBVIOUS
  <2> QED BY StepsRun, StepLogged
<1> HIDE DEF I
<1>3. ExecutionSpec => []I
  BY <1>1, <1>2, PTL DEF ExecutionSpec
<1>4. Called /\ I => Called /\ (request = NoRequest => Logged)
  BY DEF I
<1> QED BY <1>3, <1>4, Answers, PTL

\* A call of a precompile leaves the interpreter as it was.
LEMMA IdleRun ==
  ASSUME Called, request # NoRequest
  PROVE  OnBoundary /\ TypeOK /\ MemoryIsCharged /\ status # "stopped"
<1>1. job = NoCode /\ Activation
  BY DEF Called
<1>2. /\ job.gasLimit = 0 /\ scan = 0 /\ programCounter = 0 /\ validJumps = {} /\ stack = <<>>
      /\ memory = <<>> /\ memoryWordCount = 0 /\ gasLeft = 0 /\ status = "validating"
  BY <1>1 DEF Activation, NoCode
<1>3. TypeOK
  BY <1>2, StackLimitAssumption DEF TypeOK
<1>4. MemoryIsCharged
  <2>1. 0 * WordBytes = 0
    BY Sizes
  <2> QED BY <1>2, <2>1 DEF MemoryIsCharged
<1> QED BY <1>2, <1>3, <1>4 DEF OnBoundary

\* Data of a PUSH is never executed, whatever the code is and jumps to, and however
\* often code is validated (_getValidJumpDests, jumpIsValid).
THEOREM NeverInsideData == ExecutionSpec => []OnBoundary
<1>1. Called /\ (request = NoRequest => IInv) => OnBoundary
  BY IdleRun DEF IInv
<1> QED BY <1>1, RunsStay, PTL

\* Whatever the code, every value that a handler leaves on the stack is a word,
\* the stack keeps its limit, and the gas left is never negative nor more than
\* was given (stack.ts push, opFns.ts, eei.ts useGas).
THEOREM WordsOnly == HashesAreNumbers => (ExecutionSpec => []TypeOK)
<1> SUFFICES ASSUME HashesAreNumbers PROVE ExecutionSpec => []TypeOK
  OBVIOUS
<1>1. Called /\ (request = NoRequest => Logged) => TypeOK
  BY IdleRun DEF Logged, Typed
<1> QED BY <1>1, RunsStayTyped, PTL

\* Memory is never written before it is charged, by a handler or by the answer
\* of a message: subMemUsage has counted the region (opFns.ts).
THEOREM MemoryPaidFor == HashesAreNumbers => (ExecutionSpec => []MemoryIsCharged)
<1> SUFFICES ASSUME HashesAreNumbers PROVE ExecutionSpec => []MemoryIsCharged
  OBVIOUS
<1>1. Called /\ (request = NoRequest => Logged) => MemoryIsCharged
  BY IdleRun DEF Logged, Typed
<1> QED BY <1>1, RunsStayTyped, PTL

----------------------------------------------------------------------------
(* Folds: a recursion on the intervals from one has a solution.             *)

Folded(it, step, base, n) ==
  \A s \in SUBSET (1 .. n) :
    it[s] = IF s = {} THEN base ELSE step[<<it[s \ {Max(s)}], Max(s)>>]

LEMMA MaxInside ==
  ASSUME NEW n \in Nat, NEW s \in SUBSET (1 .. n), s # {}
  PROVE  Max(s) \in s /\ \A y \in s : Max(s) >= y
<1>1. s \in SUBSET Int /\ n \in Int /\ \A x \in s : x <= n
  OBVIOUS
<1> QED BY <1>1, MaxOfSome

LEMMA MaxIsLast ==
  ASSUME NEW n \in Nat, NEW s \in SUBSET (1 .. n), n \in s
  PROVE  Max(s) = n
<1>1. PICK m : m = Max(s)
  OBVIOUS
<1>2. m \in s /\ \A y \in s : m >= y
  BY <1>1, MaxInside
<1>3. m \in 1 .. n /\ m >= n
  BY <1>2
<1> QED BY <1>1, <1>3

LEMMA FoldExists ==
  ASSUME NEW n \in Nat, NEW X, NEW base \in X, NEW step \in [X \X (1 .. n) -> X]
  PROVE  \E it \in [SUBSET (1 .. n) -> X] : Folded(it, step, base, n)
<1> DEFINE Exists(m) == \E it \in [SUBSET (1 .. m) -> X] : Folded(it, step, base, m)
           S == {m \in 0 .. n : ~Exists(m)}
<1> SUFFICES ASSUME S # {} PROVE FALSE
  <2>1. n \in 0 .. n
    OBVIOUS
  <2>2. S = {} => Exists(n)
    <3> HIDE DEF Exists
    <3> QED BY <2>1
  <2> QED BY <2>2
<1>1. PICK m \in S : \A k \in S : m <= k
  <2>1. S \in SUBSET Nat
    OBVIOUS
  <2> HIDE DEF S
  <2> QED BY <2>1, Least
<1>2. m \in 0 .. n /\ ~Exists(m)
  OBVIOUS
<1>3. m # 0
  <2> DEFINE it == [s \in SUBSET (1 .. 0) |-> base]
  <2>1. \A s \in SUBSET (1 .. 0) : s = {}
    OBVIOUS
  <2>2. it \in [SUBSET (1 .. 0) -> X] /\ \A s \in SUBSET (1 .. 0) : it[s] = base
    OBVIOUS
  <2> HIDE DEF it
  <2>3. Folded(it, step, base, 0)
    BY ONLY <2>1, <2>2 DEF Folded
  <2>4. Exists(0)
    BY <2>2, <2>3
  <2> QED BY <1>2, <2>4
<1>4. PICK k \in 0 .. n : k = m - 1 /\ m = k + 1 /\ m \in 1 .. n
  <2>1. m - 1 \in 0 .. n /\ m = (m - 1) + 1 /\ m \in 1 .. n
    BY <1>2, <1>3
  <2> QED BY <2>1
<1>5. Exists(k)
  <2>1. ~(m <= k)
    BY <1>4
  <2>2. k \notin S
    <3> HIDE DEF S
    <3> QED BY <1>1, <2>1
  <2> QED BY <2>2
<1>6. PICK it \in [SUBSET (1 .. k) -> X] : Folded(it, step, base, k)
  BY <1>5
<1> DEFINE g == [s \in SUBSET (1 .. m) |->
                   IF m \in s THEN step[<<it[s \ {m}], m>>] ELSE it[s]]
<1>7. ASSUME NEW s \in SUBSET (1 .. m), m \notin s PROVE s \in SUBSET (1 .. k)
  <2>1. ASSUME NEW x \in s PROVE x \in 1 .. k
    <3>1. x \in 1 .. m /\ x # m
      BY <1>7
    <3> QED BY <1>4, <3>1
  <2> QED BY <2>1
<1>8. g \in [SUBSET (1 .. m) -> X]
  <2>1. ASSUME NEW s \in SUBSET (1 .. m), m \in s PROVE step[<<it[s \ {m}], m>>] \in X
    <3>1. s \ {m} \in SUBSET (1 .. k)
      <4>1. s \ {m} \in SUBSET (1 .. m) /\ m \notin s \ {m}
        OBVIOUS
      <4> QED BY <1>7, <4>1
    <3> QED BY <1>4, <3>1
  <2>2. ASSUME NEW s \in SUBSET (1 .. m), m \notin s PROVE it[s] \in X
    BY <1>7, <2>2
  <2> QED BY <2>1, <2>2
<1>9. ASSUME NEW s \in SUBSET (1 .. m)
      PROVE  g[s] = IF s = {} THEN base ELSE step[<<g[s \ {Max(s)}], Max(s)>>]
  <2>1. g[s] = IF m \in s THEN step[<<it[s \ {m}], m>>] ELSE it[s]
    OBVIOUS
  <2>2. CASE m \in s
    <3>1. Max(s) = m
      BY <1>4, <2>2, MaxIsLast
    <3>2. s \ {m} \in SUBSET (1 .. m) /\ m \notin s \ {m}
      OBVIOUS
    <3>3. g[s \ {m}] = it[s \ {m}]
      BY <3>2
    <3> HIDE DEF g
    <3> QED BY <2>1, <2>2, <3>1, <3>3
  <2>3. CASE m \notin s
    <3>1. s \in SUBSET (1 .. k)
      BY <1>7, <2>3
    <3>2. it[s] = IF s = {} THEN base ELSE step[<<it[s \ {Max(s)}], Max(s)>>]
      BY ONLY <1>6, <3>1 DEF Folded
    <3>3. PICK x : x = Max(s)
      OBVIOUS
    <3>4. s \ {x} \in SUBSET (1 .. m) /\ m \notin s \ {x}
      BY <2>3
    <3>5. g[s \ {x}] = it[s \ {x}]
      BY <3>4
    <3> HIDE DEF g
    <3> QED BY <2>1, <2>3, <3>2, <3>3, <3>5
  <2> QED BY <2>2, <2>3
<1> HIDE DEF g
<1>10. Folded(g, step, base, m)
  BY ONLY <1>9 DEF Folded
<1> QED BY <1>2, <1>8, <1>10

\* What a solution is on the first elements, when it is one as long as its values
\* are of X.
FoldsIn(it, X, step, base, n) ==
  /\ base \in X /\ step \in [X \X (1 .. n) -> X]
  /\ it[{}] = base
  /\ \A s \in SUBSET (1 .. n) :
       s # {} /\ it[s \ {Max(s)}] \in X => it[s] = step[<<it[s \ {Max(s)}], Max(s)>>]

OnPrefixes(it, X, step, base, n) ==
  /\ it[1 .. 0] = base
  /\ \A k \in 0 .. n : it[1 .. k] \in X
  /\ \A k \in 1 .. n : it[1 .. k] = step[<<it[1 .. k - 1], k>>]

LEMMA FoldOnPrefixes ==
  ASSUME NEW n \in Nat, NEW X, NEW base, NEW step, NEW it, FoldsIn(it, X, step, base, n)
  PROVE  OnPrefixes(it, X, step, base, n)
<1>0. base \in X /\ step \in [X \X (1 .. n) -> X]
  BY DEF FoldsIn
<1>1. it[1 .. 0] = base
  <2>1. 1 .. 0 = {}
    OBVIOUS
  <2> QED BY <2>1 DEF FoldsIn
<1>2. ASSUME NEW k \in 1 .. n, it[1 .. k - 1] \in X
      PROVE  it[1 .. k] = step[<<it[1 .. k - 1], k>>] /\ it[1 .. k] \in X
  <2>1. k \in Nat /\ k \in 1 .. k /\ 1 .. k \in SUBSET (1 .. n) /\ 1 .. k # {}
    OBVIOUS
  <2>2. (1 .. k) \ {k} = 1 .. k - 1
    <3>1. ASSUME NEW x PROVE x \in (1 .. k) \ {k} <=> x \in 1 .. k - 1
      BY <2>1
    <3> QED BY <3>1
  <2>3. Max(1 .. k) = k
    BY <2>1, MaxIsLast
  <2>4. PICK s \in SUBSET (1 .. n) : s = 1 .. k
    BY <2>1
  <2>5. s # {} /\ Max(s) = k /\ s \ {Max(s)} = 1 .. k - 1
    BY <2>1, <2>2, <2>3, <2>4
  <2>6. it[s] = step[<<it[s \ {Max(s)}], Max(s)>>]
    BY <1>2, <2>5 DEF FoldsIn
  <2>7. it[1 .. k] = step[<<it[1 .. k - 1], k>>]
    BY ONLY <2>4, <2>5, <2>6
  <2> QED BY <1>0, <1>2, <2>7
<1>3. ASSUME NEW k \in 0 .. n, it[1 .. k] \notin X PROVE FALSE
  <2> DEFINE S == {j \in 0 .. n : it[1 .. j] \notin X}
  <2>1. PICK m \in S : \A j \in S : m <= j
    <3>1. S \in SUBSET Nat /\ S # {}
      BY <1>3
    <3> HIDE DEF S
    <3> QED BY <3>1, Least
  <2>2. m \in 0 .. n /\ it[1 .. m] \notin X
    OBVIOUS
  <2>3. m # 0
    BY <1>0, <1>1, <2>2
  <2>4. m \in 1 .. n /\ m - 1 \in 0 .. n /\ ~(m <= m - 1)
    BY <2>2, <2>3
  <2>5. m - 1 \notin S
    <3> HIDE DEF S
    <3> QED BY <2>1, <2>4
  <2>6. it[1 .. m - 1] \in X
    BY <2>4, <2>5
  <2> QED BY <1>2, <2>2, <2>4, <2>6
<1>4. ASSUME NEW k \in 1 .. n PROVE it[1 .. k] = step[<<it[1 .. k - 1], k>>]
  <2>1. k - 1 \in 0 .. n
    OBVIOUS
  <2>2. it[1 .. k - 1] \in X
    BY <1>3, <2>1
  <2> QED BY <1>2, <2>2
<1> QED BY <1>1, <1>3, <1>4 DEF OnPrefixes

----------------------------------------------------------------------------
(* The bits of a byte.                                                      *)

LEMMA PowersSum ==
  ASSUME NEW S
  PROVE  PowerSum(S) = Total(S, [n \in S |-> 2 ^ n])
<1> DEFINE pick(s) == CHOOSE x \in s : TRUE
           f == [n \in S |-> 2 ^ n]
<1>1. PowerSum(S) =
        (CHOOSE it : it = [s \in SUBSET S |->
           IF s = {} THEN 0 ELSE 2 ^ pick(s) + it[s \ {pick(s)}]])[S]
  BY DEF PowerSum, MapThenSumSet, MapThenFoldSet
<1>2. Total(S, f) =
        (CHOOSE it : it = [s \in SUBSET S |->
           IF s = {} THEN 0 ELSE f[pick(s)] + it[s \ {pick(s)}]])[S]
  BY DEF Total, Recursion
<1>3. \A s \in SUBSET S : s # {} => f[pick(s)] = 2 ^ pick(s)
  OBVIOUS
<1> HIDE DEF pick, f
<1>4. ASSUME NEW it
      PROVE  [s \in SUBSET S |-> IF s = {} THEN 0 ELSE 2 ^ pick(s) + it[s \ {pick(s)}]]
               = [s \in SUBSET S |-> IF s = {} THEN 0 ELSE f[pick(s)] + it[s \ {pick(s)}]]
  BY <1>3
<1>5. (CHOOSE it : it = [s \in SUBSET S |->
         IF s = {} THEN 0 ELSE 2 ^ pick(s) + it[s \ {pick(s)}]])
        = (CHOOSE it : it = [s \in SUBSET S |->
             IF s = {} THEN 0 ELSE f[pick(s)] + it[s \ {pick(s)}]])
  BY <1>4
<1>6. PowerSum(S) = Total(S, f)
  BY <1>1, <1>2, <1>5
<1> QED BY <1>6 DEF f

LEMMA SmallPowers ==
  /\ 2 ^ 0 = 1 /\ 2 ^ 1 = 2 /\ 2 ^ 2 = 4 /\ 2 ^ 3 = 8 /\ 2 ^ 4 = 16 /\ 2 ^ 5 = 32
  /\ 2 ^ 6 = 64 /\ 2 ^ 7 = 128
  /\ \A n \in 0 .. 7 : 2 ^ n \in Nat \ {0}
<1>1. /\ 2 ^ 0 = 1 /\ 2 ^ 1 = 2 /\ 2 ^ 2 = 4 /\ 2 ^ 3 = 8 /\ 2 ^ 4 = 16 /\ 2 ^ 5 = 32
      /\ 2 ^ 6 = 64 /\ 2 ^ 7 = 128
  OBVIOUS
<1>2. \A n \in 0 .. 7 : n = 0 \/ n = 1 \/ n = 2 \/ n = 3 \/ n = 4 \/ n = 5 \/ n = 6 \/ n = 7
  OBVIOUS
<1> QED BY <1>1, <1>2

LEMMA ByteSum ==
  ASSUME NEW S \in SUBSET (0 .. 7)
  PROVE  \E b \in [0 .. 7 -> {0, 1}] :
           /\ \A k \in 0 .. 7 : b[k] = 1 <=> k \in S
           /\ PowerSum(S) = b[0] + 2 * b[1] + 4 * b[2] + 8 * b[3] + 16 * b[4] + 32 * b[5]
                              + 64 * b[6] + 128 * b[7]
<1> DEFINE f == [n \in S |-> 2 ^ n]
           b == [k \in 0 .. 7 |-> IF k \in S THEN 1 ELSE 0]
           part(k) == {n \in S : n < k}
           size(k) == Cardinality(Units(part(k), f))
<1>1. (\A n \in 0 .. 7 : 2 ^ n \in Nat) /\ \A n \in S : n \in 0 .. 7
  BY SmallPowers
<1>2. f \in [S -> Nat] /\ IsFiniteSet(S)
  <2>1. IsFiniteSet(0 .. 7)
    <3>1. 0 \in Int /\ 7 \in Int
      OBVIOUS
    <3> QED BY <3>1, FS_Interval
  <2> QED BY <1>1, <2>1, FS_Subset
<1>3. PowerSum(S) = Cardinality(Units(S, f))
  BY <1>2, PowersSum, TotalIsUnits
<1>4. \A k : size(k) \in Nat
  <2> SUFFICES ASSUME NEW k PROVE size(k) \in Nat
    OBVIOUS
  <2>1. part(k) \in SUBSET S
    OBVIOUS
  <2> HIDE DEF f, part
  <2> QED BY <1>2, <2>1, UnitsFinite
<1>5. ASSUME NEW k \in 0 .. 7
      PROVE  size(k + 1) = size(k) + IF k \in S THEN 2 ^ k ELSE 0
  <2>1. CASE k \in S
    <3>1. part(k + 1) \in SUBSET S /\ k \in part(k + 1) /\ part(k + 1) \ {k} = part(k)
      <4>1. \A n \in S : n < k + 1 <=> n < k \/ n = k
        BY <1>1
      <4>2. k < k + 1 /\ ~(k < k)
        OBVIOUS
      <4> QED BY <2>1, <4>1, <4>2
    <3>2. f[k] = 2 ^ k
      BY <2>1
    <3>3. size(k + 1) = f[k] + size(k)
      <4>1. PICK s \in SUBSET S : s = part(k + 1)
        BY <3>1
      <4>2. k \in s /\ s \ {k} = part(k)
        BY <3>1, <4>1
      <4> HIDE DEF f, part
      <4>3. Cardinality(Units(s, f)) = f[k] + Cardinality(Units(s \ {k}, f))
        BY <1>2, <4>2, UnitsSplit
      <4> QED BY <4>1, <4>2, <4>3
    <3>4. PICK p \in Nat, c \in Nat : p = 2 ^ k /\ c = size(k)
      BY <1>1, <1>4
    <3> HIDE DEF f, size
    <3> QED BY <2>1, <3>2, <3>3, <3>4
  <2>2. CASE k \notin S
    <3>1. part(k + 1) = part(k)
      <4>1. \A n \in S : n # k /\ (n < k + 1 <=> n < k \/ n = k)
        BY <1>1, <2>2
      <4> QED BY <4>1
    <3>2. PICK c \in Nat : c = size(k)
      BY <1>4
    <3> HIDE DEF f, part
    <3> QED BY <2>2, <3>1, <3>2
  <2> QED BY <2>1, <2>2
<1>6. size(0) = 0 /\ part(8) = S
  <2>1. \A n \in S : ~(n < 0) /\ n < 8
    BY <1>1
  <2>2. part(0) = {} /\ part(8) = S
    BY <2>1
  <2>3. Units(part(0), f) = {}
    <3> HIDE DEF f, part
    <3> QED BY <2>2 DEF Units
  <2> HIDE DEF f, part
  <2> QED BY <2>2, <2>3, FS_EmptySet
<1>7. b \in [0 .. 7 -> {0, 1}] /\ \A k \in 0 .. 7 : b[k] = 1 <=> k \in S
  OBVIOUS
<1>8. ASSUME NEW k \in 0 .. 7
      PROVE  (IF k \in S THEN 2 ^ k ELSE 0) = 2 ^ k * b[k]
  BY <1>1
<1> DEFINE add(k) == IF k \in S THEN 2 ^ k ELSE 0
<1>9. /\ 0 \in 0 .. 7 /\ 1 \in 0 .. 7 /\ 2 \in 0 .. 7 /\ 3 \in 0 .. 7
      /\ 4 \in 0 .. 7 /\ 5 \in 0 .. 7 /\ 6 \in 0 .. 7 /\ 7 \in 0 .. 7
  OBVIOUS
<1>10. /\ add(0) = b[0] /\ add(1) = 2 * b[1] /\ add(2) = 4 * b[2] /\ add(3) = 8 * b[3]
       /\ add(4) = 16 * b[4] /\ add(5) = 32 * b[5] /\ add(6) = 64 * b[6]
       /\ add(7) = 128 * b[7]
  BY <1>7, <1>9
<1>11. /\ size(1) = size(0) + add(0) /\ size(2) = size(1) + add(1)
       /\ size(3) = size(2) + add(2) /\ size(4) = size(3) + add(3)
       /\ size(5) = size(4) + add(4) /\ size(6) = size(5) + add(5)
       /\ size(7) = size(6) + add(6) /\ size(8) = size(7) + add(7)
  <2>1. /\ 0 + 1 = 1 /\ 1 + 1 = 2 /\ 2 + 1 = 3 /\ 3 + 1 = 4 /\ 4 + 1 = 5 /\ 5 + 1 = 6
        /\ 6 + 1 = 7 /\ 7 + 1 = 8
    OBVIOUS
  <2>2. \A k \in 0 .. 7 : size(k + 1) = size(k) + add(k)
    BY <1>5
  <2> HIDE DEF size, add
  <2> QED BY <1>9, <2>1, <2>2
<1>12. PowerSum(S) = size(8)
  BY <1>3, <1>6
<1>13. /\ b[0] \in Int /\ b[1] \in Int /\ b[2] \in Int /\ b[3] \in Int
       /\ b[4] \in Int /\ b[5] \in Int /\ b[6] \in Int /\ b[7] \in Int
  BY <1>9
<1>14. size(0) = 0
  BY <1>6
<1> HIDE DEF size, add, b
<1>15. PowerSum(S) = b[0] + 2 * b[1] + 4 * b[2] + 8 * b[3] + 16 * b[4] + 32 * b[5]
                       + 64 * b[6] + 128 * b[7]
  BY ONLY <1>10, <1>11, <1>12, <1>13, <1>14
<1> QED BY <1>7, <1>15

\* A sum of powers below a byte has the bits it is a sum of.
LEMMA ByteBitsOf ==
  ASSUME NEW S \in SUBSET (0 .. 7)
  PROVE  /\ PowerSum(S) \in 0 .. 255
         /\ \A n \in 0 .. 7 : HasBit(PowerSum(S), n) <=> n \in S
<1>1. PICK b \in [0 .. 7 -> {0, 1}] :
           /\ \A k \in 0 .. 7 : b[k] = 1 <=> k \in S
           /\ PowerSum(S) = b[0] + 2 * b[1] + 4 * b[2] + 8 * b[3] + 16 * b[4] + 32 * b[5]
                              + 64 * b[6] + 128 * b[7]
  BY ByteSum
<1>2. PICK b0 \in {0, 1}, b1 \in {0, 1}, b2 \in {0, 1}, b3 \in {0, 1},
           b4 \in {0, 1}, b5 \in {0, 1}, b6 \in {0, 1}, b7 \in {0, 1} :
             /\ b0 = b[0] /\ b1 = b[1] /\ b2 = b[2] /\ b3 = b[3]
             /\ b4 = b[4] /\ b5 = b[5] /\ b6 = b[6] /\ b7 = b[7]
  OBVIOUS
<1> DEFINE x == b0 + 2 * b1 + 4 * b2 + 8 * b3 + 16 * b4 + 32 * b5 + 64 * b6 + 128 * b7
<1>3. PowerSum(S) = x
  BY <1>1, <1>2
<1>4. x \in 0 .. 255
  BY ONLY TRUE
<1>5. /\ HasBit(x, 0) <=> b0 = 1
      /\ HasBit(x, 1) <=> b1 = 1
      /\ HasBit(x, 2) <=> b2 = 1
      /\ HasBit(x, 3) <=> b3 = 1
      /\ HasBit(x, 4) <=> b4 = 1
      /\ HasBit(x, 5) <=> b5 = 1
      /\ HasBit(x, 6) <=> b6 = 1
      /\ HasBit(x, 7) <=> b7 = 1
  <2>1. (x \div 1) % 2 = b0 /\ (x \div 2) % 2 = b1 /\ (x \div 4) % 2 = b2
    BY ONLY TRUE
  <2>2. (x \div 8) % 2 = b3 /\ (x \div 16) % 2 = b4 /\ (x \div 32) % 2 = b5
    BY ONLY TRUE
  <2>3. (x \div 64) % 2 = b6 /\ (x \div 128) % 2 = b7
    BY ONLY TRUE
  <2> HIDE DEF x
  <2> QED BY <2>1, <2>2, <2>3, SmallPowers DEF HasBit
<1> HIDE DEF x
<1>6. ASSUME NEW n \in 0 .. 7 PROVE HasBit(x, n) <=> n \in S
  <2>1. n = 0 \/ n = 1 \/ n = 2 \/ n = 3 \/ n = 4 \/ n = 5 \/ n = 6 \/ n = 7
    OBVIOUS
  <2>2. /\ b0 = 1 <=> 0 \in S
        /\ b1 = 1 <=> 1 \in S
        /\ b2 = 1 <=> 2 \in S
        /\ b3 = 1 <=> 3 \in S
        /\ b4 = 1 <=> 4 \in S
        /\ b5 = 1 <=> 5 \in S
        /\ b6 = 1 <=> 6 \in S
        /\ b7 = 1 <=> 7 \in S
    BY <1>1, <1>2
  <2> QED BY <1>5, <2>1, <2>2
<1> QED BY <1>3, <1>4, <1>6

LEMMA ByteOrIs ==
  ASSUME NEW x, NEW y
  PROVE  /\ ByteOr(x, y) \in 0 .. 255
         /\ \A n \in 0 .. 7 : HasBit(ByteOr(x, y), n) <=> HasBit(x, n) \/ HasBit(y, n)
<1> DEFINE S == {n \in 0 .. 7 : HasBit(x, n) \/ HasBit(y, n)}
<1>1. ByteOr(x, y) = PowerSum(S)
  BY DEF ByteOr, PowerSum
<1>2. S \in SUBSET (0 .. 7) /\ \A n \in 0 .. 7 : n \in S <=> HasBit(x, n) \/ HasBit(y, n)
  OBVIOUS
<1> HIDE DEF S
<1> QED BY <1>1, <1>2, ByteBitsOf

LEMMA OneBit ==
  ASSUME NEW k \in 0 .. 7
  PROVE  \A n \in 0 .. 7 : HasBit(2 ^ k, n) <=> n = k
<1>1. \A n \in 0 .. 7 : n = 0 \/ n = 1 \/ n = 2 \/ n = 3 \/ n = 4 \/ n = 5 \/ n = 6 \/ n = 7
  OBVIOUS
<1>2. /\ 2 ^ 0 = 1 /\ 2 ^ 1 = 2 /\ 2 ^ 2 = 4 /\ 2 ^ 3 = 8 /\ 2 ^ 4 = 16 /\ 2 ^ 5 = 32
      /\ 2 ^ 6 = 64 /\ 2 ^ 7 = 128
  BY SmallPowers
<1>3. ASSUME NEW x \in Int
      PROVE  /\ HasBit(x, 0) <=> (x \div 1) % 2 = 1
             /\ HasBit(x, 1) <=> (x \div 2) % 2 = 1
             /\ HasBit(x, 2) <=> (x \div 4) % 2 = 1
             /\ HasBit(x, 3) <=> (x \div 8) % 2 = 1
             /\ HasBit(x, 4) <=> (x \div 16) % 2 = 1
             /\ HasBit(x, 5) <=> (x \div 32) % 2 = 1
             /\ HasBit(x, 6) <=> (x \div 64) % 2 = 1
             /\ HasBit(x, 7) <=> (x \div 128) % 2 = 1
  BY <1>2 DEF HasBit
<1>4. CASE k = 0
  BY <1>1, <1>2, <1>3, <1>4
<1>5. CASE k = 1
  BY <1>1, <1>2, <1>3, <1>5
<1>6. CASE k = 2
  BY <1>1, <1>2, <1>3, <1>6
<1>7. CASE k = 3
  BY <1>1, <1>2, <1>3, <1>7
<1>8. CASE k = 4
  BY <1>1, <1>2, <1>3, <1>8
<1>9. CASE k = 5
  BY <1>1, <1>2, <1>3, <1>9
<1>10. CASE k = 6
  BY <1>1, <1>2, <1>3, <1>10
<1>11. CASE k = 7
  BY <1>1, <1>2, <1>3, <1>11
<1> QED BY <1>1, <1>4, <1>5, <1>6, <1>7, <1>8, <1>9, <1>10, <1>11

LEMMA NoBit == \A n \in 0 .. 7 : ~HasBit(0, n)
<1> SUFFICES ASSUME NEW n \in 0 .. 7 PROVE ~HasBit(0, n)
  OBVIOUS
<1>1. PICK p \in Nat \ {0} : p = 2 ^ n
  BY SmallPowers
<1>2. 0 \div p = 0 /\ 0 % 2 = 0
  OBVIOUS
<1> QED BY <1>1, <1>2 DEF HasBit

----------------------------------------------------------------------------
(* The bits of a filter.                                                    *)

LEMMA FilterSize == BloomBytes \in Nat \ {0}
<1>1. PICK n \in 0 .. 8 : BloomBytes = 2 ^ n
  BY BloomAssumption
<1>2. CASE n = 8
  <2>1. 2 ^ 8 = 256
    OBVIOUS
  <2> QED BY <1>1, <1>2, <2>1
<1>3. CASE n # 8
  <2>1. n \in 0 .. 7
    BY <1>3
  <2> QED BY <1>1, <2>1, SmallPowers
<1> QED BY <1>2, <1>3

\* The byte and the place of a bit.
LEMMA PlaceOf ==
  ASSUME NEW bit \in 0 .. 8 * BloomBytes - 1
  PROVE  /\ Index(bit \div 8) \in 0 .. BloomBytes - 1 /\ bit % 8 \in 0 .. 7
         /\ Index(bit \div 8) = (8 * BloomBytes - 1 - bit) \div 8
         /\ bit = 8 * (BloomBytes - Index(bit \div 8) - 1) + (bit % 8)
<1>1. PICK size \in Nat \ {0} : size = BloomBytes
  BY FilterSize
<1>2. PICK q \in Int, r \in Int : q = bit \div 8 /\ r = bit % 8
  OBVIOUS
<1>3. bit = 8 * q + r /\ 0 <= r /\ r <= 7 /\ 0 <= bit /\ bit <= 8 * size - 1
  BY <1>1, <1>2
<1>4. 0 <= q /\ q <= size - 1
  BY <1>3
<1>5. (8 * size - 1 - bit) \div 8 = size - q - 1
  <2>1. PICK z \in Int : z = 8 * size - 1 - bit
    BY <1>3
  <2>2. z = 8 * (size - q - 1) + (7 - r)
    BY <1>3, <2>1
  <2>3. PICK y \in Int : y = size - q - 1
    OBVIOUS
  <2>4. PICK t \in 0 .. 7 : t = 7 - r
    BY <1>3
  <2>5. z = 8 * y + t
    BY <2>2, <2>3, <2>4
  <2>6. z \div 8 = y
    BY ONLY <2>5
  <2> QED BY <2>1, <2>3, <2>6
<1>6. Index(bit \div 8) = size - q - 1
  BY <1>1, <1>2 DEF Index
<1>7. bit = 8 * (size - (size - q - 1) - 1) + r
  BY <1>3
<1> QED BY <1>1, <1>2, <1>3, <1>4, <1>5, <1>6, <1>7

LEMMA BitsAre ==
  ASSUME NEW v, NEW bit \in 0 .. 8 * BloomBytes - 1
  PROVE  bit \in BitsOf(v) <=> HasBit(v[Index(bit \div 8)], bit % 8)
BY PlaceOf DEF BitsOf

LEMMA BitsWithin ==
  ASSUME NEW v
  PROVE  BitsOf(v) \subseteq 0 .. 8 * BloomBytes - 1
BY DEF BitsOf

LEMMA LocationIs ==
  ASSUME NEW e \in Word, NEW i \in 0 .. 2
  PROVE  Location(e, i) \in 0 .. 8 * BloomBytes - 1
<1> DEFINE hash == BloomHash(e)
           B == 0 .. 255
<1>1. hash \in Seq(B) /\ Len(hash) >= 6
  BY BloomHashAssumption
<1>2. 2 * i + 1 \in 1 .. Len(hash) /\ 2 * i + 2 \in 1 .. Len(hash)
  <2>1. PICK l \in Nat : l = Len(hash)
    BY <1>1
  <2> HIDE DEF hash
  <2> QED BY <1>1, <2>1
<1>3. hash[2 * i + 1] \in B /\ hash[2 * i + 2] \in B
  <2> HIDE DEF hash, B
  <2> QED BY <1>1, <1>2
<1>4. PICK a \in Nat, b \in Nat : a = hash[2 * i + 1] /\ b = hash[2 * i + 2]
  <2>1. B \subseteq Nat
    OBVIOUS
  <2> HIDE DEF hash, B
  <2> QED BY <1>3, <2>1
<1>5. PICK d \in Nat \ {0} : d = 8 * BloomBytes
  BY FilterSize
<1>6. (256 * a + b) % d \in 0 .. d - 1
  <2>1. 256 * a + b \in Nat
    OBVIOUS
  <2> QED BY <2>1, ModType
<1> QED BY <1>4, <1>5, <1>6 DEF Location

\* One step of add.
WithBit(v, loc) == [v EXCEPT ![Index(loc \div 8)] = ByteOr(@, 2 ^ (loc % 8))]

LEMMA WithBitIs ==
  ASSUME NEW v \in BitVector, NEW loc \in 0 .. 8 * BloomBytes - 1
  PROVE  WithBit(v, loc) \in BitVector /\ BitsOf(WithBit(v, loc)) = BitsOf(v) \cup {loc}
<1> DEFINE at == Index(loc \div 8)
           power == 2 ^ (loc % 8)
           w == WithBit(v, loc)
<1>1. at \in 0 .. BloomBytes - 1 /\ loc % 8 \in 0 .. 7
  BY PlaceOf
<1>2. \A n \in 0 .. 7 : HasBit(power, n) <=> n = loc % 8
  BY <1>1, OneBit
<1> HIDE DEF power
<1>3. /\ w \in [0 .. BloomBytes - 1 -> 0 .. 255] /\ w[at] = ByteOr(v[at], power)
      /\ \A n \in 0 .. BloomBytes - 1 : n # at => w[n] = v[n]
  <2>1. w = [v EXCEPT ![at] = ByteOr(v[at], power)]
    BY DEF WithBit, power
  <2>2. ByteOr(v[at], power) \in 0 .. 255
    BY ByteOrIs
  <2> HIDE DEF w, at
  <2> QED BY <1>1, <2>1, <2>2 DEF BitVector
<1>4. ASSUME NEW bit \in 0 .. 8 * BloomBytes - 1
      PROVE  bit \in BitsOf(w) <=> bit \in BitsOf(v) \/ bit = loc
  <2> DEFINE of == Index(bit \div 8)
             k == bit % 8
  <2>1. of \in 0 .. BloomBytes - 1 /\ k \in 0 .. 7
    BY PlaceOf
  <2>2. bit = loc <=> of = at /\ k = loc % 8
    <3>1. /\ bit = 8 * (BloomBytes - of - 1) + k
          /\ loc = 8 * (BloomBytes - at - 1) + (loc % 8)
      BY PlaceOf
    <3> QED BY <3>1
  <2>3. /\ bit \in BitsOf(w) <=> HasBit(w[of], k)
        /\ bit \in BitsOf(v) <=> HasBit(v[of], k)
    BY BitsAre
  <2>4. HasBit(w[of], k) <=> HasBit(v[of], k) \/ (of = at /\ k = loc % 8)
    <3> HIDE DEF of, k, at, w
    <3>1. CASE of = at
      <4>1. HasBit(ByteOr(v[at], power), k) <=> HasBit(v[at], k) \/ HasBit(power, k)
        BY <2>1, ByteOrIs
      <4> QED BY <1>2, <1>3, <2>1, <3>1, <4>1
    <3>2. CASE of # at
      BY <1>3, <2>1, <3>2
    <3> QED BY <3>1, <3>2
  <2> HIDE DEF of, k, at, w
  <2> QED BY <2>2, <2>3, <2>4
<1>5. BitsOf(w) = BitsOf(v) \cup {loc}
  <2>1. BitsOf(w) \subseteq 0 .. 8 * BloomBytes - 1 /\ BitsOf(v) \subseteq 0 .. 8 * BloomBytes - 1
    BY BitsWithin
  <2> HIDE DEF w
  <2> QED BY <1>4, <2>1
<1> QED BY <1>3, <1>5 DEF BitVector

LEMMA OrIs ==
  ASSUME NEW v \in BitVector, NEW w \in BitVector
  PROVE  Or(v, w) \in BitVector /\ BitsOf(Or(v, w)) = BitsOf(v) \cup BitsOf(w)
<1> DEFINE D == 0 .. BloomBytes - 1
           u == Or(v, w)
<1>1. u \in BitVector /\ \A n \in D : u[n] = ByteOr(v[n], w[n])
  <2>1. \A n \in D : ByteOr(v[n], w[n]) \in 0 .. 255
    BY ByteOrIs
  <2> QED BY <2>1 DEF Or, BitVector
<1>2. ASSUME NEW bit \in 0 .. 8 * BloomBytes - 1
      PROVE  bit \in BitsOf(u) <=> bit \in BitsOf(v) \/ bit \in BitsOf(w)
  <2> DEFINE of == Index(bit \div 8)
             k == bit % 8
  <2>1. of \in D /\ k \in 0 .. 7
    BY PlaceOf
  <2>2. /\ bit \in BitsOf(u) <=> HasBit(u[of], k)
        /\ bit \in BitsOf(v) <=> HasBit(v[of], k)
        /\ bit \in BitsOf(w) <=> HasBit(w[of], k)
    BY BitsAre
  <2>3. HasBit(ByteOr(v[of], w[of]), k) <=> HasBit(v[of], k) \/ HasBit(w[of], k)
    <3> HIDE DEF of, k
    <3> QED BY <2>1, ByteOrIs
  <2> HIDE DEF of, k, u
  <2> QED BY <1>1, <2>1, <2>2, <2>3
<1>3. BitsOf(u) = BitsOf(v) \cup BitsOf(w)
  <2>1. /\ BitsOf(u) \subseteq 0 .. 8 * BloomBytes - 1
        /\ BitsOf(v) \subseteq 0 .. 8 * BloomBytes - 1
        /\ BitsOf(w) \subseteq 0 .. 8 * BloomBytes - 1
    BY BitsWithin
  <2> HIDE DEF u
  <2> QED BY <1>2, <2>1
<1> QED BY <1>1, <1>3

LEMMA NoBitsIs == NoBits \in BitVector /\ BitsOf(NoBits) = {}
<1>1. NoBits \in BitVector /\ \A n \in 0 .. BloomBytes - 1 : NoBits[n] = 0
  BY DEF NoBits, BitVector
<1>2. ASSUME NEW bit \in 0 .. 8 * BloomBytes - 1 PROVE bit \notin BitsOf(NoBits)
  BY <1>1, PlaceOf, BitsAre, NoBit
<1> QED BY <1>1, <1>2, BitsWithin

----------------------------------------------------------------------------
(* A fold that adds bits adds the bits of all it goes over.                 *)

AddsBits(step, bits, n) ==
  /\ step \in [BitVector \X (1 .. n) -> BitVector]
  /\ \A v \in BitVector, k \in 1 .. n : BitsOf(step[<<v, k>>]) = BitsOf(v) \cup bits[k]

Gathers(it, base, bits, n) ==
  /\ it[1 .. n] \in BitVector
  /\ BitsOf(it[1 .. n]) = BitsOf(base) \cup UNION {bits[k] : k \in 1 .. n}

LEMMA FoldBits ==
  ASSUME NEW n \in Nat, NEW base \in BitVector, NEW step, NEW bits, AddsBits(step, bits, n),
         NEW it, FoldsIn(it, BitVector, step, base, n)
  PROVE  Gathers(it, base, bits, n)
<1> DEFINE Sum(k) == BitsOf(base) \cup UNION {bits[j] : j \in 1 .. k}
<1>1. /\ it[1 .. 0] = base
      /\ \A k \in 0 .. n : it[1 .. k] \in BitVector
      /\ \A k \in 1 .. n : it[1 .. k] = step[<<it[1 .. k - 1], k>>]
  <2> HIDE DEF Sum
  <2>1. OnPrefixes(it, BitVector, step, base, n)
    BY FoldOnPrefixes
  <2> QED BY <2>1 DEF OnPrefixes
<1>2. ASSUME NEW k \in 0 .. n, BitsOf(it[1 .. k]) # Sum(k) PROVE FALSE
  <2> DEFINE S == {j \in 0 .. n : BitsOf(it[1 .. j]) # Sum(j)}
  <2>1. PICK m \in S : \A j \in S : m <= j
    <3>1. S \in SUBSET Nat /\ S # {}
      BY <1>2
    <3> HIDE DEF S
    <3> QED BY <3>1, Least
  <2>2. m \in 0 .. n /\ BitsOf(it[1 .. m]) # Sum(m)
    OBVIOUS
  <2>3. m # 0
    <3>1. 1 .. 0 = {}
      OBVIOUS
    <3>2. Sum(0) = BitsOf(base)
      BY <3>1
    <3> HIDE DEF Sum
    <3> QED BY <1>1, <2>2, <3>2
  <2>4. m \in 1 .. n /\ m - 1 \in 0 .. n /\ ~(m <= m - 1)
    BY <2>2, <2>3
  <2>5. m - 1 \notin S
    <3> HIDE DEF S
    <3> QED BY <2>1, <2>4
  <2>6. BitsOf(it[1 .. m - 1]) = Sum(m - 1)
    BY <2>4, <2>5
  <2>7. BitsOf(it[1 .. m]) = Sum(m - 1) \cup bits[m]
    <3>1. it[1 .. m] = step[<<it[1 .. m - 1], m>>] /\ it[1 .. m - 1] \in BitVector
      BY <1>1, <2>4
    <3> HIDE DEF Sum
    <3> QED BY ONLY <2>4, <2>6, <3>1, AddsBits(step, bits, n) DEF AddsBits
  <2>8. Sum(m) = Sum(m - 1) \cup bits[m]
    <3>1. \A j : j \in 1 .. m <=> j \in 1 .. m - 1 \/ j = m
      BY <2>4
    <3> QED BY <3>1
  <2> QED BY <2>2, <2>7, <2>8
<1>3. n \in 0 .. n
  OBVIOUS
<1> QED BY <1>1, <1>2, <1>3 DEF Gathers

----------------------------------------------------------------------------
(* The folds of the bloom: each solves its recursion.                       *)

Bits(e) == {Location(e, i) : i \in 0 .. 2}

LEMMA AddIs ==
  ASSUME NEW v \in BitVector, NEW e \in Word
  PROVE  Add(v, e) \in BitVector /\ BitsOf(Add(v, e)) = BitsOf(v) \cup Bits(e)
<1> DEFINE D == 1 .. 3
           Place(k) == Location(e, <<0, 1, 2>>[k])
           step == [p \in BitVector \X D |-> WithBit(p[1], Place(p[2]))]
           bits == [k \in D |-> {Place(k)}]
           Solves(it) == it = [s \in SUBSET D |->
                           IF s = {} THEN v ELSE WithBit(it[s \ {Max(s)}], Place(Max(s)))]
           c == CHOOSE it : Solves(it)
<1>1. ASSUME NEW k \in D PROVE Place(k) \in 0 .. 8 * BloomBytes - 1
  <2>1. <<0, 1, 2>>[k] \in 0 .. 2
    OBVIOUS
  <2> QED BY <2>1, LocationIs
<1>2. UNION {bits[k] : k \in D} = Bits(e)
  <2>1. \A i : i \in 0 .. 2 <=> \E k \in D : i = <<0, 1, 2>>[k]
    <3>1. <<0, 1, 2>>[1] = 0 /\ <<0, 1, 2>>[2] = 1 /\ <<0, 1, 2>>[3] = 2
      OBVIOUS
    <3>2. D = {1, 2, 3} /\ 0 .. 2 = {0, 1, 2}
      OBVIOUS
    <3> QED BY ONLY <3>1, <3>2
  <2>2. UNION {bits[k] : k \in D} = {Place(k) : k \in D}
    <3> HIDE DEF Place
    <3> QED OBVIOUS
  <2>3. {Place(k) : k \in D} = Bits(e)
    BY <2>1 DEF Bits
  <2> QED BY <2>2, <2>3
<1>3. AddsBits(step, bits, 3)
  <2>1. ASSUME NEW w \in BitVector, NEW k \in D
        PROVE  /\ step[<<w, k>>] = WithBit(w, Place(k)) /\ step[<<w, k>>] \in BitVector
               /\ BitsOf(step[<<w, k>>]) = BitsOf(w) \cup bits[k]
    <3>1. step[<<w, k>>] = WithBit(w, Place(k)) /\ bits[k] = {Place(k)}
      <4> HIDE DEF Place
      <4> QED OBVIOUS
    <3>2. /\ WithBit(w, Place(k)) \in BitVector
          /\ BitsOf(WithBit(w, Place(k))) = BitsOf(w) \cup {Place(k)}
      BY <1>1, WithBitIs
    <3> HIDE DEF step, bits, Place
    <3> QED BY <3>1, <3>2
  <2>2. step \in [BitVector \X D -> BitVector]
    <3>1. ASSUME NEW p \in BitVector \X D PROVE WithBit(p[1], Place(p[2])) \in BitVector
      BY <1>1, WithBitIs
    <3> HIDE DEF Place, D
    <3> QED BY <3>1
  <2> HIDE DEF step, bits
  <2> QED BY <2>1, <2>2 DEF AddsBits
<1>4. ASSUME NEW w \in BitVector, NEW k \in D PROVE step[<<w, k>>] = WithBit(w, Place(k))
  <2> HIDE DEF Place
  <2> QED OBVIOUS
<1>5. step \in [BitVector \X D -> BitVector]
  BY <1>3 DEF AddsBits
<1> HIDE DEF step, bits, Place
<1>6. \E it : Solves(it)
  <2>1. PICK it \in [SUBSET D -> BitVector] : Folded(it, step, v, 3)
    BY <1>5, FoldExists
  <2>2. ASSUME NEW s \in SUBSET D
        PROVE  it[s] = IF s = {} THEN v ELSE WithBit(it[s \ {Max(s)}], Place(Max(s)))
    <3>1. it[s] = IF s = {} THEN v ELSE step[<<it[s \ {Max(s)}], Max(s)>>]
      BY ONLY <2>1, s \in SUBSET D DEF Folded
    <3>2. ASSUME s # {} PROVE it[s \ {Max(s)}] \in BitVector /\ Max(s) \in D
      <4>1. Max(s) \in s
        BY <3>2, MaxInside
      <4> HIDE DEF D
      <4> QED BY <2>1, <4>1
    <3> QED BY ONLY <1>4, <3>1, <3>2
  <2>3. it = [s \in SUBSET D |-> it[s]]
    BY <2>1
  <2>4. [s \in SUBSET D |-> it[s]]
          = [s \in SUBSET D |-> IF s = {} THEN v ELSE WithBit(it[s \ {Max(s)}], Place(Max(s)))]
    BY <2>2
  <2> QED BY ONLY <2>3, <2>4
<1>7. Solves(c)
  BY ONLY <1>6
<1>8. Add(v, e) = c[D]
  <2>1. DOMAIN <<0, 1, 2>> = D
    OBVIOUS
  <2>2. Add(v, e) = (CHOOSE i : i = [s \in SUBSET (DOMAIN <<0, 1, 2>>) |->
            IF s = {} THEN v ELSE WithBit(i[s \ {Max(s)}], Location(e, <<0, 1, 2>>[Max(s)]))])
               [DOMAIN <<0, 1, 2>>]
    BY DEF Add, FoldLeft, MapThenFoldSet, WithBit
  <2> QED BY ONLY <2>1, <2>2 DEF Place
<1> HIDE DEF c
<1>9. FoldsIn(c, BitVector, step, v, 3)
  <2>1. ASSUME NEW s \in SUBSET D
        PROVE  c[s] = IF s = {} THEN v ELSE WithBit(c[s \ {Max(s)}], Place(Max(s)))
    BY ONLY <1>7, s \in SUBSET D
  <2>2. ASSUME NEW s \in SUBSET D, s # {}, c[s \ {Max(s)}] \in BitVector
        PROVE  c[s] = step[<<c[s \ {Max(s)}], Max(s)>>]
    <3>1. Max(s) \in D
      BY <2>2, MaxInside
    <3> QED BY ONLY <1>4, <2>1, <2>2, <3>1
  <2>3. c[{}] = v
    BY ONLY <2>1
  <2> QED BY ONLY <1>5, <2>2, <2>3, v \in BitVector DEF FoldsIn
<1>10. /\ c[1 .. 3] \in BitVector
       /\ BitsOf(c[1 .. 3]) = BitsOf(v) \cup UNION {bits[k] : k \in 1 .. 3}
  <2>1. PICK st, bt, it, n : st = step /\ bt = bits /\ it = c /\ n = 3
    OBVIOUS
  <2>4. n \in Nat
    BY ONLY <2>1
  <2>2. AddsBits(st, bt, n) /\ FoldsIn(it, BitVector, st, v, n)
    BY ONLY <1>3, <1>9, <2>1
  <2>3. Gathers(it, v, bt, n)
    BY ONLY <2>2, <2>4, v \in BitVector, FoldBits
  <2> QED BY ONLY <2>1, <2>3 DEF Gathers
<1> QED BY ONLY <1>2, <1>8, <1>10

LogOf == [address : Word, topics : Seq(Word)]
WithLog(v, log) == FoldLeft(Add, Add(v, log.address), log.topics)
LogBits(log) == Bits(log.address) \cup UNION {Bits(log.topics[j]) : j \in 1 .. Len(log.topics)}
LogsBits(log) == UNION {LogBits(log[j]) : j \in 1 .. Len(log)}

LEMMA TopicsAdd ==
  ASSUME NEW base \in BitVector, NEW seq \in Seq(Word)
  PROVE  /\ FoldLeft(Add, base, seq) \in BitVector
         /\ BitsOf(FoldLeft(Add, base, seq))
              = BitsOf(base) \cup UNION {Bits(seq[k]) : k \in 1 .. Len(seq)}
<1> DEFINE D == 1 .. Len(seq)
           Taken(w, k) == Add(w, seq[k])
           step == [p \in BitVector \X D |-> Taken(p[1], p[2])]
           bits == [k \in D |-> Bits(seq[k])]
           Solves(it) == it = [s \in SUBSET D |->
                           IF s = {} THEN base ELSE Taken(it[s \ {Max(s)}], Max(s))]
           c == CHOOSE it : Solves(it)
<1>0. Len(seq) \in Nat /\ DOMAIN seq = D /\ \A k \in D : seq[k] \in Word
  OBVIOUS
<1>1. ASSUME NEW w \in BitVector, NEW k \in D
      PROVE  /\ Taken(w, k) \in BitVector
             /\ BitsOf(Taken(w, k)) = BitsOf(w) \cup Bits(seq[k])
  BY <1>0, AddIs
<1> HIDE DEF D
<1>2. UNION {bits[k] : k \in D} = UNION {Bits(seq[k]) : k \in D}
  OBVIOUS
<1>3. ASSUME NEW w \in BitVector, NEW k \in D
      PROVE  step[<<w, k>>] = Taken(w, k) /\ bits[k] = Bits(seq[k])
  <2> HIDE DEF Taken
  <2> QED OBVIOUS
<1>4. step \in [BitVector \X D -> BitVector]
  <2>1. ASSUME NEW p \in BitVector \X D PROVE Taken(p[1], p[2]) \in BitVector
    BY <1>1
  <2> HIDE DEF Taken
  <2> QED BY <2>1
<1> HIDE DEF step, bits, Taken
<1>5. AddsBits(step, bits, Len(seq))
  <2>1. ASSUME NEW w \in BitVector, NEW k \in D
        PROVE  BitsOf(step[<<w, k>>]) = BitsOf(w) \cup bits[k]
    BY ONLY <1>1, <1>3, w \in BitVector, k \in D
  <2> QED BY ONLY <1>4, <2>1 DEF AddsBits, D
<1>6. \E it : Solves(it)
  <2>1. PICK it \in [SUBSET D -> BitVector] : Folded(it, step, base, Len(seq))
    BY <1>0, <1>4, FoldExists DEF D
  <2>2. ASSUME NEW s \in SUBSET D
        PROVE  it[s] = IF s = {} THEN base ELSE Taken(it[s \ {Max(s)}], Max(s))
    <3>1. it[s] = IF s = {} THEN base ELSE step[<<it[s \ {Max(s)}], Max(s)>>]
      BY ONLY <2>1, s \in SUBSET D DEF Folded, D
    <3>2. ASSUME s # {} PROVE it[s \ {Max(s)}] \in BitVector /\ Max(s) \in D
      <4>1. Max(s) \in s
        BY <1>0, <3>2, MaxInside DEF D
      <4> QED BY <2>1, <4>1
    <3> QED BY ONLY <1>3, <3>1, <3>2
  <2>3. it = [s \in SUBSET D |-> it[s]]
    BY <2>1
  <2>4. [s \in SUBSET D |-> it[s]]
          = [s \in SUBSET D |-> IF s = {} THEN base ELSE Taken(it[s \ {Max(s)}], Max(s))]
    BY <2>2
  <2> QED BY ONLY <2>3, <2>4
<1>7. Solves(c)
  BY ONLY <1>6
<1>8. FoldLeft(Add, base, seq) = c[D]
  <2>1. FoldLeft(Add, base, seq) = (CHOOSE i : i = [s \in SUBSET (DOMAIN seq) |->
            IF s = {} THEN base ELSE Add(i[s \ {Max(s)}], seq[Max(s)])])[DOMAIN seq]
    BY DEF FoldLeft, MapThenFoldSet
  <2> QED BY ONLY <1>0, <2>1 DEF Taken
<1> HIDE DEF c
<1>9. FoldsIn(c, BitVector, step, base, Len(seq))
  <2>1. ASSUME NEW s \in SUBSET D
        PROVE  c[s] = IF s = {} THEN base ELSE Taken(c[s \ {Max(s)}], Max(s))
    BY ONLY <1>7, s \in SUBSET D
  <2>2. ASSUME NEW s \in SUBSET D, s # {}, c[s \ {Max(s)}] \in BitVector
        PROVE  c[s] = step[<<c[s \ {Max(s)}], Max(s)>>]
    <3>1. Max(s) \in D
      BY <1>0, <2>2, MaxInside DEF D
    <3> QED BY ONLY <1>3, <2>1, <2>2, <3>1
  <2>3. c[{}] = base
    BY ONLY <2>1
  <2> QED BY ONLY <1>4, <2>2, <2>3, base \in BitVector DEF FoldsIn, D
<1>10. c[D] \in BitVector /\ BitsOf(c[D]) = BitsOf(base) \cup UNION {bits[k] : k \in D}
  <2>1. PICK st, bt, it, n : st = step /\ bt = bits /\ it = c /\ n = Len(seq)
    OBVIOUS
  <2>2. AddsBits(st, bt, n) /\ FoldsIn(it, BitVector, st, base, n) /\ n \in Nat
    BY ONLY <1>0, <1>5, <1>9, <2>1
  <2>3. Gathers(it, base, bt, n)
    BY ONLY <2>2, base \in BitVector, FoldBits
  <2> QED BY ONLY <2>1, <2>3 DEF D, Gathers
<1> QED BY ONLY <1>2, <1>8, <1>10 DEF D

LEMMA WithLogIs ==
  ASSUME NEW v \in BitVector, NEW log \in LogOf
  PROVE  WithLog(v, log) \in BitVector /\ BitsOf(WithLog(v, log)) = BitsOf(v) \cup LogBits(log)
<1>1. log.address \in Word /\ log.topics \in Seq(Word)
  BY DEF LogOf
<1>2. PICK base \in BitVector : base = Add(v, log.address)
  BY <1>1, AddIs
<1>3. BitsOf(base) = BitsOf(v) \cup Bits(log.address)
  BY <1>1, <1>2, AddIs
<1>4. /\ FoldLeft(Add, base, log.topics) \in BitVector
      /\ BitsOf(FoldLeft(Add, base, log.topics))
           = BitsOf(base) \cup UNION {Bits(log.topics[k]) : k \in 1 .. Len(log.topics)}
  BY <1>1, TopicsAdd
<1> QED BY ONLY <1>2, <1>3, <1>4 DEF WithLog, LogBits

LEMMA LogsAdd ==
  ASSUME NEW base \in BitVector, NEW seq \in Seq(LogOf)
  PROVE  /\ FoldLeft(WithLog, base, seq) \in BitVector
         /\ BitsOf(FoldLeft(WithLog, base, seq))
              = BitsOf(base) \cup UNION {LogBits(seq[k]) : k \in 1 .. Len(seq)}
<1> DEFINE D == 1 .. Len(seq)
           Taken(w, k) == WithLog(w, seq[k])
           step == [p \in BitVector \X D |-> Taken(p[1], p[2])]
           bits == [k \in D |-> LogBits(seq[k])]
           Solves(it) == it = [s \in SUBSET D |->
                           IF s = {} THEN base ELSE Taken(it[s \ {Max(s)}], Max(s))]
           c == CHOOSE it : Solves(it)
<1>0. Len(seq) \in Nat /\ DOMAIN seq = D /\ \A k \in D : seq[k] \in LogOf
  OBVIOUS
<1>1. ASSUME NEW w \in BitVector, NEW k \in D
      PROVE  /\ Taken(w, k) \in BitVector
             /\ BitsOf(Taken(w, k)) = BitsOf(w) \cup LogBits(seq[k])
  BY <1>0, WithLogIs
<1> HIDE DEF D
<1>2. UNION {bits[k] : k \in D} = UNION {LogBits(seq[k]) : k \in D}
  OBVIOUS
<1>3. ASSUME NEW w \in BitVector, NEW k \in D
      PROVE  step[<<w, k>>] = Taken(w, k) /\ bits[k] = LogBits(seq[k])
  <2> HIDE DEF Taken
  <2> QED OBVIOUS
<1>4. step \in [BitVector \X D -> BitVector]
  <2>1. ASSUME NEW p \in BitVector \X D PROVE Taken(p[1], p[2]) \in BitVector
    BY <1>1
  <2> HIDE DEF Taken
  <2> QED BY <2>1
<1> HIDE DEF step, bits, Taken
<1>5. AddsBits(step, bits, Len(seq))
  <2>1. ASSUME NEW w \in BitVector, NEW k \in D
        PROVE  BitsOf(step[<<w, k>>]) = BitsOf(w) \cup bits[k]
    BY ONLY <1>1, <1>3, w \in BitVector, k \in D
  <2> QED BY ONLY <1>4, <2>1 DEF AddsBits, D
<1>6. \E it : Solves(it)
  <2>1. PICK it \in [SUBSET D -> BitVector] : Folded(it, step, base, Len(seq))
    BY <1>0, <1>4, FoldExists DEF D
  <2>2. ASSUME NEW s \in SUBSET D
        PROVE  it[s] = IF s = {} THEN base ELSE Taken(it[s \ {Max(s)}], Max(s))
    <3>1. it[s] = IF s = {} THEN base ELSE step[<<it[s \ {Max(s)}], Max(s)>>]
      BY ONLY <2>1, s \in SUBSET D DEF Folded, D
    <3>2. ASSUME s # {} PROVE it[s \ {Max(s)}] \in BitVector /\ Max(s) \in D
      <4>1. Max(s) \in s
        BY <1>0, <3>2, MaxInside DEF D
      <4> QED BY <2>1, <4>1
    <3> QED BY ONLY <1>3, <3>1, <3>2
  <2>3. it = [s \in SUBSET D |-> it[s]]
    BY <2>1
  <2>4. [s \in SUBSET D |-> it[s]]
          = [s \in SUBSET D |-> IF s = {} THEN base ELSE Taken(it[s \ {Max(s)}], Max(s))]
    BY <2>2
  <2> QED BY ONLY <2>3, <2>4
<1>7. Solves(c)
  BY ONLY <1>6
<1>8. FoldLeft(WithLog, base, seq) = c[D]
  <2>1. FoldLeft(WithLog, base, seq) = (CHOOSE i : i = [s \in SUBSET (DOMAIN seq) |->
            IF s = {} THEN base ELSE WithLog(i[s \ {Max(s)}], seq[Max(s)])])[DOMAIN seq]
    BY DEF FoldLeft, MapThenFoldSet
  <2> QED BY ONLY <1>0, <2>1 DEF Taken
<1> HIDE DEF c
<1>9. FoldsIn(c, BitVector, step, base, Len(seq))
  <2>1. ASSUME NEW s \in SUBSET D
        PROVE  c[s] = IF s = {} THEN base ELSE Taken(c[s \ {Max(s)}], Max(s))
    BY ONLY <1>7, s \in SUBSET D
  <2>2. ASSUME NEW s \in SUBSET D, s # {}, c[s \ {Max(s)}] \in BitVector
        PROVE  c[s] = step[<<c[s \ {Max(s)}], Max(s)>>]
    <3>1. Max(s) \in D
      BY <1>0, <2>2, MaxInside DEF D
    <3> QED BY ONLY <1>3, <2>1, <2>2, <3>1
  <2>3. c[{}] = base
    BY ONLY <2>1
  <2> QED BY ONLY <1>4, <2>2, <2>3, base \in BitVector DEF FoldsIn, D
<1>10. c[D] \in BitVector /\ BitsOf(c[D]) = BitsOf(base) \cup UNION {bits[k] : k \in D}
  <2>1. PICK st, bt, it, n : st = step /\ bt = bits /\ it = c /\ n = Len(seq)
    OBVIOUS
  <2>2. AddsBits(st, bt, n) /\ FoldsIn(it, BitVector, st, base, n) /\ n \in Nat
    BY ONLY <1>0, <1>5, <1>9, <2>1
  <2>3. Gathers(it, base, bt, n)
    BY ONLY <2>2, base \in BitVector, FoldBits
  <2> QED BY ONLY <2>1, <2>3 DEF D, Gathers
<1> QED BY ONLY <1>2, <1>8, <1>10 DEF D

LEMMA TxLogsBloomIs ==
  ASSUME NEW log \in Seq(LogOf)
  PROVE  TxLogsBloom(log) \in BitVector /\ BitsOf(TxLogsBloom(log)) = LogsBits(log)
<1>1. TxLogsBloom(log) = FoldLeft(WithLog, NoBits, log)
  BY DEF TxLogsBloom, WithLog, FoldLeft, MapThenFoldSet
<1>2. PICK base \in BitVector : base = NoBits /\ BitsOf(base) = {}
  BY NoBitsIs
<1> QED BY <1>1, <1>2, LogsAdd DEF LogsBits

WithBloom(v, log) == Or(v, TxLogsBloom(log))

LEMMA WithBloomIs ==
  ASSUME NEW v \in BitVector, NEW log \in Seq(LogOf)
  PROVE  /\ WithBloom(v, log) \in BitVector
         /\ BitsOf(WithBloom(v, log)) = BitsOf(v) \cup LogsBits(log)
BY TxLogsBloomIs, OrIs DEF WithBloom

LEMMA BloomsAdd ==
  ASSUME NEW base \in BitVector, NEW seq \in Seq(Seq(LogOf))
  PROVE  /\ FoldLeft(WithBloom, base, seq) \in BitVector
         /\ BitsOf(FoldLeft(WithBloom, base, seq))
              = BitsOf(base) \cup UNION {LogsBits(seq[k]) : k \in 1 .. Len(seq)}
<1> DEFINE D == 1 .. Len(seq)
           Taken(w, k) == WithBloom(w, seq[k])
           step == [p \in BitVector \X D |-> Taken(p[1], p[2])]
           bits == [k \in D |-> LogsBits(seq[k])]
           Solves(it) == it = [s \in SUBSET D |->
                           IF s = {} THEN base ELSE Taken(it[s \ {Max(s)}], Max(s))]
           c == CHOOSE it : Solves(it)
<1>0. Len(seq) \in Nat /\ DOMAIN seq = D /\ \A k \in D : seq[k] \in Seq(LogOf)
  OBVIOUS
<1>1. ASSUME NEW w \in BitVector, NEW k \in D
      PROVE  /\ Taken(w, k) \in BitVector
             /\ BitsOf(Taken(w, k)) = BitsOf(w) \cup LogsBits(seq[k])
  BY <1>0, WithBloomIs
<1> HIDE DEF D
<1>2. UNION {bits[k] : k \in D} = UNION {LogsBits(seq[k]) : k \in D}
  OBVIOUS
<1>3. ASSUME NEW w \in BitVector, NEW k \in D
      PROVE  step[<<w, k>>] = Taken(w, k) /\ bits[k] = LogsBits(seq[k])
  <2> HIDE DEF Taken
  <2> QED OBVIOUS
<1>4. step \in [BitVector \X D -> BitVector]
  <2>1. ASSUME NEW p \in BitVector \X D PROVE Taken(p[1], p[2]) \in BitVector
    BY <1>1
  <2> HIDE DEF Taken
  <2> QED BY <2>1
<1> HIDE DEF step, bits, Taken
<1>5. AddsBits(step, bits, Len(seq))
  <2>1. ASSUME NEW w \in BitVector, NEW k \in D
        PROVE  BitsOf(step[<<w, k>>]) = BitsOf(w) \cup bits[k]
    BY ONLY <1>1, <1>3, w \in BitVector, k \in D
  <2> QED BY ONLY <1>4, <2>1 DEF AddsBits, D
<1>6. \E it : Solves(it)
  <2>1. PICK it \in [SUBSET D -> BitVector] : Folded(it, step, base, Len(seq))
    BY <1>0, <1>4, FoldExists DEF D
  <2>2. ASSUME NEW s \in SUBSET D
        PROVE  it[s] = IF s = {} THEN base ELSE Taken(it[s \ {Max(s)}], Max(s))
    <3>1. it[s] = IF s = {} THEN base ELSE step[<<it[s \ {Max(s)}], Max(s)>>]
      BY ONLY <2>1, s \in SUBSET D DEF Folded, D
    <3>2. ASSUME s # {} PROVE it[s \ {Max(s)}] \in BitVector /\ Max(s) \in D
      <4>1. Max(s) \in s
        BY <1>0, <3>2, MaxInside DEF D
      <4> QED BY <2>1, <4>1
    <3> QED BY ONLY <1>3, <3>1, <3>2
  <2>3. it = [s \in SUBSET D |-> it[s]]
    BY <2>1
  <2>4. [s \in SUBSET D |-> it[s]]
          = [s \in SUBSET D |-> IF s = {} THEN base ELSE Taken(it[s \ {Max(s)}], Max(s))]
    BY <2>2
  <2> QED BY ONLY <2>3, <2>4
<1>7. Solves(c)
  BY ONLY <1>6
<1>8. FoldLeft(WithBloom, base, seq) = c[D]
  <2>1. FoldLeft(WithBloom, base, seq) = (CHOOSE i : i = [s \in SUBSET (DOMAIN seq) |->
            IF s = {} THEN base ELSE WithBloom(i[s \ {Max(s)}], seq[Max(s)])])[DOMAIN seq]
    BY DEF FoldLeft, MapThenFoldSet
  <2> QED BY ONLY <1>0, <2>1 DEF Taken
<1> HIDE DEF c
<1>9. FoldsIn(c, BitVector, step, base, Len(seq))
  <2>1. ASSUME NEW s \in SUBSET D
        PROVE  c[s] = IF s = {} THEN base ELSE Taken(c[s \ {Max(s)}], Max(s))
    BY ONLY <1>7, s \in SUBSET D
  <2>2. ASSUME NEW s \in SUBSET D, s # {}, c[s \ {Max(s)}] \in BitVector
        PROVE  c[s] = step[<<c[s \ {Max(s)}], Max(s)>>]
    <3>1. Max(s) \in D
      BY <1>0, <2>2, MaxInside DEF D
    <3> QED BY ONLY <1>3, <2>1, <2>2, <3>1
  <2>3. c[{}] = base
    BY ONLY <2>1
  <2> QED BY ONLY <1>4, <2>2, <2>3, base \in BitVector DEF FoldsIn, D
<1>10. c[D] \in BitVector /\ BitsOf(c[D]) = BitsOf(base) \cup UNION {bits[k] : k \in D}
  <2>1. PICK st, bt, it, n : st = step /\ bt = bits /\ it = c /\ n = Len(seq)
    OBVIOUS
  <2>2. AddsBits(st, bt, n) /\ FoldsIn(it, BitVector, st, base, n) /\ n \in Nat
    BY ONLY <1>0, <1>5, <1>9, <2>1
  <2>3. Gathers(it, base, bt, n)
    BY ONLY <2>2, base \in BitVector, FoldBits
  <2> QED BY ONLY <2>1, <2>3 DEF D, Gathers
<1> QED BY ONLY <1>2, <1>8, <1>10 DEF D

LEMMA BlockBloomIs ==
  ASSUME NEW first \in Seq(LogOf), NEW second \in Seq(LogOf)
  PROVE  /\ BlockBloom(<<first, second>>) \in BitVector
         /\ BitsOf(BlockBloom(<<first, second>>)) = LogsBits(first) \cup LogsBits(second)
<1> DEFINE seq == <<first, second>>
<1>1. BlockBloom(seq) = FoldLeft(WithBloom, NoBits, seq)
  BY DEF BlockBloom, WithBloom, FoldLeft, MapThenFoldSet
<1>2. seq \in Seq(Seq(LogOf)) /\ Len(seq) = 2 /\ seq[1] = first /\ seq[2] = second
  OBVIOUS
<1>3. PICK base \in BitVector : base = NoBits /\ BitsOf(base) = {}
  BY NoBitsIs
<1> HIDE DEF seq
<1>4. /\ BlockBloom(seq) \in BitVector
      /\ BitsOf(BlockBloom(seq)) = UNION {LogsBits(seq[k]) : k \in 1 .. 2}
  <2>1. /\ FoldLeft(WithBloom, base, seq) \in BitVector
        /\ BitsOf(FoldLeft(WithBloom, base, seq))
             = BitsOf(base) \cup UNION {LogsBits(seq[k]) : k \in 1 .. Len(seq)}
    BY ONLY <1>2, base \in BitVector, BloomsAdd
  <2> QED BY ONLY <1>1, <1>2, <1>3, <2>1
<1>5. UNION {LogsBits(seq[k]) : k \in 1 .. 2} = LogsBits(first) \cup LogsBits(second)
  <2>1. 1 .. 2 = {1, 2}
    OBVIOUS
  <2> QED BY ONLY <1>2, <2>1
<1> QED BY <1>4, <1>5 DEF seq

----------------------------------------------------------------------------
(* The bloom of a block, and what check finds in it.                        *)

LEMMA CheckIs ==
  ASSUME NEW v, NEW e \in Word, Bits(e) \subseteq BitsOf(v)
  PROVE  Check(v, e)
<1>1. ASSUME NEW i \in 0 .. 2
      PROVE  HasBit(v[Index(Location(e, i) \div 8)], Location(e, i) % 8)
  <2>1. Location(e, i) \in 0 .. 8 * BloomBytes - 1 /\ Location(e, i) \in BitsOf(v)
    BY LocationIs DEF Bits
  <2> QED BY <2>1, BitsAre
<1> QED BY <1>1 DEF Check

\* A log is found by its address and all its topics.
LEMMA LogIsFound ==
  ASSUME NEW v, NEW log \in LogOf, LogBits(log) \subseteq BitsOf(v)
  PROVE  MultiCheck(v, <<log.address>> \o log.topics)
<1> DEFINE keys == <<log.address>> \o log.topics
<1>1. log.address \in Word /\ log.topics \in Seq(Word)
  BY DEF LogOf
<1>2. ASSUME NEW n \in DOMAIN keys PROVE keys[n] \in Word /\ Bits(keys[n]) \subseteq BitsOf(v)
  <2>1. n \in 1 .. 1 + Len(log.topics)
    BY <1>1
  <2>2. CASE n = 1
    <3>1. keys[n] = log.address
      BY <1>1, <2>2
    <3> QED BY <1>1, <3>1 DEF LogBits
  <2>3. CASE n # 1
    <3>1. PICK j \in 1 .. Len(log.topics) : j = n - 1
      BY <1>1, <2>1, <2>3
    <3>2. keys[n] = log.topics[j]
      BY <1>1, <2>1, <2>3, <3>1
    <3>3. log.topics[j] \in Word
      BY <1>1
    <3> HIDE DEF keys
    <3> QED BY <3>2, <3>3 DEF LogBits
  <2> QED BY <2>2, <2>3
<1> HIDE DEF keys
<1>3. MultiCheck(v, keys)
  BY <1>2, CheckIs DEF MultiCheck
<1> QED BY <1>3 DEF keys

LEMMA SplitBits ==
  ASSUME NEW L \in Seq(LogOf), NEW n \in 0 .. Len(L)
  PROVE  /\ SubSeq(L, 1, n) \in Seq(LogOf) /\ SubSeq(L, n + 1, Len(L)) \in Seq(LogOf)
         /\ LogsBits(SubSeq(L, 1, n)) \cup LogsBits(SubSeq(L, n + 1, Len(L))) = LogsBits(L)
<1>1. PICK l \in Nat : l = Len(L) /\ n \in 0 .. l /\ \A k \in 1 .. l : L[k] \in LogOf
  OBVIOUS
<1> DEFINE first == SubSeq(L, 1, n)
           second == SubSeq(L, n + 1, l)
<1> HIDE DEF LogOf
<1>2. first \in Seq(LogOf) /\ Len(first) = n /\ \A k \in 1 .. n : first[k] = L[k]
  <2>1. \A k \in 1 .. n : L[k] \in LogOf
    BY <1>1
  <2> QED BY <1>1, <2>1, SubSeqProperties
<1>3. /\ second \in Seq(LogOf) /\ Len(second) = l - n
      /\ \A k \in 1 .. l - n : second[k] = L[n + k]
  <2>1. \A k \in n + 1 .. l : L[k] \in LogOf
    BY <1>1
  <2> QED BY <1>1, <2>1, SubSeqProperties
<1> HIDE DEF first, second
<1>4. ASSUME NEW bit
      PROVE  bit \in LogsBits(L) <=> bit \in LogsBits(first) \/ bit \in LogsBits(second)
  <2>1. bit \in LogsBits(L) <=> \E k \in 1 .. l : bit \in LogBits(L[k])
    BY <1>1 DEF LogsBits
  <2>2. bit \in LogsBits(first) <=> \E k \in 1 .. n : bit \in LogBits(L[k])
    BY <1>2 DEF LogsBits
  <2>3. bit \in LogsBits(second) <=> \E k \in 1 .. l - n : bit \in LogBits(L[n + k])
    BY <1>3 DEF LogsBits
  <2>4. ASSUME NEW k \in 1 .. l, bit \in LogBits(L[k]), k \notin 1 .. n
        PROVE  \E j \in 1 .. l - n : bit \in LogBits(L[n + j])
    <3>1. PICK j \in 1 .. l - n : n + j = k
      <4>1. k - n \in 1 .. l - n /\ n + (k - n) = k
        BY <1>1, <2>4
      <4> QED BY <4>1
    <3> QED BY <2>4, <3>1
  <2>5. (\A k \in 1 .. n : k \in 1 .. l) /\ (\A j \in 1 .. l - n : n + j \in 1 .. l)
    BY <1>1
  <2> QED BY ONLY <2>1, <2>2, <2>3, <2>4, <2>5
<1> QED BY <1>1, <1>2, <1>3, <1>4 DEF first, second

\* The bloom is exact when the logs are as they should be.
LEMMA BloomOfLogs ==
  ASSUME Logged
  PROVE  BloomExact
<1> DEFINE L == LogsOfBlock
           elements(log) == {log.address} \cup {log.topics[k] : k \in DOMAIN log.topics}
<1>1. /\ DOMAIN logs = 1 .. Len(logs) /\ Len(logs) \in Nat
      /\ L \in Seq(LogOf) /\ Len(L) = Len(logs) /\ \A k \in DOMAIN logs : L[k] \in LogOf
  <2>1. logs \in Seq(LogType) /\ DOMAIN logs = 1 .. Len(logs) /\ Len(logs) \in Nat
    BY DEF Logged
  <2>2. ASSUME NEW k \in 1 .. Len(logs) PROVE L[k] \in LogOf
    <3>1. Env["ADDRESS"] \in Word
      BY EnvironmentAssumption DEF EnvOps
    <3>2. logs[k] \in LogType
      BY <2>1
    <3>3. logs[k].topics \in Seq(Word)
      BY <3>2 DEF LogType
    <3> QED BY <2>1, <3>1, <3>3 DEF LogsOfBlock, LogOf
  <2>3. L \in [1 .. Len(logs) -> LogOf]
    BY <2>1, <2>2 DEF LogsOfBlock
  <2> HIDE DEF L
  <2>4. L \in Seq(LogOf) /\ Len(L) = Len(logs)
    BY <2>1, <2>3, FiniteSequence
  <2> QED BY <2>1, <2>2, <2>4
<1>2. BloomBits(UNION {elements(L[k]) : k \in DOMAIN logs}) = LogsBits(L)
  <2>1. ASSUME NEW k \in DOMAIN logs
        PROVE  \A bit : bit \in LogBits(L[k]) <=> \E e \in elements(L[k]) : bit \in Bits(e)
    <3>1. DOMAIN L[k].topics = 1 .. Len(L[k].topics)
      BY <1>1 DEF LogOf
    <3> HIDE DEF L
    <3> QED BY <3>1 DEF LogBits
  <2> HIDE DEF L, elements
  <2>2. ASSUME NEW E PROVE \A bit : bit \in BloomBits(E) <=> \E e \in E : bit \in Bits(e)
    BY DEF BloomBits, Bits
  <2>3. ASSUME NEW bit
        PROVE  bit \in LogsBits(L) <=> \E k \in DOMAIN logs : bit \in LogBits(L[k])
    BY <1>1 DEF LogsBits
  <2>4. ASSUME NEW bit
        PROVE  bit \in BloomBits(UNION {elements(L[k]) : k \in DOMAIN logs})
                 <=> \E k \in DOMAIN logs : \E e \in elements(L[k]) : bit \in Bits(e)
    BY <2>2
  <2>5. ASSUME NEW bit
        PROVE  bit \in BloomBits(UNION {elements(L[k]) : k \in DOMAIN logs})
                 <=> bit \in LogsBits(L)
    BY ONLY <2>1, <2>3, <2>4
  <2> QED BY <2>5
<1>3. ASSUME NEW n \in 0 .. Len(logs)
      PROVE  LET bloom == BlockBloom(<<SubSeq(L, 1, n), SubSeq(L, n + 1, Len(logs))>>)
             IN  /\ BitsOf(bloom) = BloomBits(UNION {elements(L[k]) : k \in DOMAIN logs})
                 /\ \A k \in DOMAIN logs : MultiCheck(bloom, <<L[k].address>> \o L[k].topics)
  <2> DEFINE bloom == BlockBloom(<<SubSeq(L, 1, n), SubSeq(L, n + 1, Len(logs))>>)
  <2> HIDE DEF L, elements
  <2>1. BitsOf(bloom) = LogsBits(L)
    <3>1. n \in 0 .. Len(L) /\ L \in Seq(LogOf)
      BY <1>1
    <3>2. PICK first, second : first = SubSeq(L, 1, n) /\ second = SubSeq(L, n + 1, Len(L))
      OBVIOUS
    <3>3. /\ first \in Seq(LogOf) /\ second \in Seq(LogOf)
          /\ LogsBits(first) \cup LogsBits(second) = LogsBits(L)
      BY ONLY <3>1, <3>2, SplitBits
    <3>4. BitsOf(BlockBloom(<<first, second>>)) = LogsBits(first) \cup LogsBits(second)
      BY ONLY <3>3, BlockBloomIs
    <3> QED BY ONLY <1>1, <3>2, <3>3, <3>4
  <2> HIDE DEF bloom
  <2>2. ASSUME NEW k \in DOMAIN logs PROVE MultiCheck(bloom, <<L[k].address>> \o L[k].topics)
    <3>1. LogBits(L[k]) \subseteq BitsOf(bloom)
      BY <1>1, <2>1 DEF LogsBits
    <3> QED BY <1>1, <3>1, LogIsFound
  <2> QED BY <1>2, <2>1, <2>2 DEF bloom
<1> QED BY <1>3 DEF BloomExact

\* Of whatever words a hash is made, and however the logs of a run are divided among
\* transactions, the bloom of their block has their bits and no others, and every log
\* is found in it.
THEOREM BloomIsExact == HashesAreNumbers => (ExecutionSpec => []BloomExact)
<1> SUFFICES ASSUME HashesAreNumbers PROVE ExecutionSpec => []BloomExact
  OBVIOUS
<1>1. Called /\ (request = NoRequest => Logged) => BloomExact
  <2> SUFFICES ASSUME Called, request = NoRequest => Logged PROVE BloomExact
    OBVIOUS
  <2>1. CASE request = NoRequest
    BY <2>1, BloomOfLogs
  <2>2. CASE request # NoRequest
    BY <2>2, IdleRun DEF BloomExact
  <2> QED BY <2>1, <2>2
<1> QED BY <1>1, RunsStayTyped, PTL

----------------------------------------------------------------------------
(* Numbers of any length, from the front.                                   *)

\* A recursion over an interval has a solution.
Recurses(f, step, base, n) == f[0] = base /\ \A k \in 1 .. n : f[k] = step[<<f[k - 1], k>>]

LEMMA RecursionExists ==
  ASSUME NEW n \in Nat, NEW X, NEW base \in X, NEW step \in [X \X (1 .. n) -> X]
  PROVE  \E f \in [0 .. n -> X] : Recurses(f, step, base, n)
<1>1. PICK it \in [SUBSET (1 .. n) -> X] : Folded(it, step, base, n)
  BY FoldExists
<1>2. FoldsIn(it, X, step, base, n)
  BY <1>1 DEF Folded, FoldsIn
<1>3. OnPrefixes(it, X, step, base, n)
  BY <1>2, FoldOnPrefixes
<1> DEFINE f == [k \in 0 .. n |-> it[1 .. k]]
<1>4. f \in [0 .. n -> X] /\ f[0] = base
  BY <1>3 DEF OnPrefixes
<1>5. ASSUME NEW k \in 1 .. n PROVE f[k] = step[<<f[k - 1], k>>]
  <2>1. k \in 0 .. n /\ k - 1 \in 0 .. n
    OBVIOUS
  <2>2. f[k] = it[1 .. k] /\ f[k - 1] = it[1 .. k - 1]
    BY <2>1
  <2> HIDE DEF f
  <2> QED BY <1>3, <2>2 DEF OnPrefixes
<1> HIDE DEF f
<1> QED BY <1>4, <1>5 DEF Recurses

ByteAt(data, n) == IF n <= Len(data) THEN data[n] ELSE 0

LEMMA ByteAtType ==
  ASSUME NEW data \in Seq(Byte), NEW n \in Nat \ {0}
  PROVE  ByteAt(data, n) \in Byte
BY ByteType DEF ByteAt

LEMMA FieldStep ==
  ASSUME NEW data \in Seq(Byte), NEW from \in Nat
  PROVE  /\ FieldOf(data, from, 0) = 0
         /\ \A k \in Nat : FieldOf(data, from, k) \in Nat
         /\ \A k \in Nat \ {0} : FieldOf(data, from, k)
              = FieldOf(data, from, k - 1) * 2 ^ ByteBits + ByteAt(data, from + k)
<1> DEFINE Longer(value, k) == value * 2 ^ ByteBits + ByteAt(data, from + k)
           Solves(f, n) == f = [k \in 0 .. n |-> IF k = 0 THEN 0 ELSE Longer(f[k - 1], k)]
           Solved(f, n) == f[0] = 0 /\ \A k \in 1 .. n : f[k] = Longer(f[k - 1], k)
           c(n) == CHOOSE f : Solves(f, n)
<1>1. \A value \in Nat, k \in Nat \ {0} : Longer(value, k) \in Nat
  <2> SUFFICES ASSUME NEW value \in Nat, NEW k \in Nat \ {0} PROVE Longer(value, k) \in Nat
    OBVIOUS
  <2>1. PICK b \in Nat, r \in Nat : b = ByteAt(data, from + k) /\ r = 2 ^ ByteBits
    <3>1. ByteAt(data, from + k) \in Byte
      BY ByteAtType
    <3> QED BY <3>1, ByteType
  <2>2. value * r \in Nat
    BY ProductType
  <2> QED BY <2>1, <2>2
<1>2. \A n : FieldOf(data, from, n) = c(n)[n]
  BY DEF FieldOf, ByteAt
<1> HIDE DEF Longer
<1>3. ASSUME NEW n \in Nat
      PROVE  Solved(c(n), n) /\ \E f \in [0 .. n -> Nat] : Solved(f, n)
  <2> DEFINE step == [p \in Nat \X (1 .. n) |-> Longer(p[1], p[2])]
  <2>1. step \in [Nat \X (1 .. n) -> Nat]
    <3>1. ASSUME NEW p \in Nat \X (1 .. n) PROVE Longer(p[1], p[2]) \in Nat
      <4>1. p[1] \in Nat /\ p[2] \in Nat \ {0}
        OBVIOUS
      <4> QED BY <1>1, <4>1
    <3> QED BY <3>1
  <2>2. PICK f \in [0 .. n -> Nat] :
          f[0] = 0 /\ \A k \in 1 .. n : f[k] = step[<<f[k - 1], k>>]
    <3> HIDE DEF step
    <3>1. \E f \in [0 .. n -> Nat] : Recurses(f, step, 0, n)
      BY <2>1, RecursionExists
    <3> QED BY <3>1 DEF Recurses
  <2>3. ASSUME NEW k \in 1 .. n PROVE f[k] = Longer(f[k - 1], k)
    <3>1. f[k - 1] \in Nat
      <4>1. k - 1 \in 0 .. n
        OBVIOUS
      <4> QED BY <4>1
    <3>2. step[<<f[k - 1], k>>] = Longer(f[k - 1], k)
      BY <3>1
    <3> HIDE DEF step
    <3> QED BY <2>2, <3>2
  <2>4. Solves(f, n)
    <3>1. f = [k \in 0 .. n |-> f[k]]
      OBVIOUS
    <3>2. \A k \in 0 .. n : f[k] = IF k = 0 THEN 0 ELSE Longer(f[k - 1], k)
      BY <2>2, <2>3
    <3> QED BY <3>1, <3>2
  <2>5. Solves(c(n), n)
    BY <2>4
  <2>6. Solved(c(n), n)
    <3> HIDE DEF c
    <3>1. \A k \in 0 .. n : c(n)[k] = IF k = 0 THEN 0 ELSE Longer(c(n)[k - 1], k)
      BY <2>5
    <3> QED BY <3>1
  <2> QED BY <2>2, <2>3, <2>6
<1> HIDE DEF c
<1>4. ASSUME NEW f, NEW g, NEW n \in Nat, NEW m \in Nat, Solved(f, n), Solved(g, m),
             NEW i \in 0 .. n, i \in 0 .. m, f[i] # g[i]
      PROVE  FALSE
  <2> DEFINE S == {j \in 0 .. i : f[j] # g[j]}
  <2>1. PICK j \in S : \A k \in S : j <= k
    <3>1. S \in SUBSET Nat /\ S # {}
      BY <1>4
    <3> HIDE DEF S
    <3> QED BY <3>1, Least
  <2>2. j \in 0 .. i /\ f[j] # g[j] /\ j # 0
    BY <1>4
  <2>3. j - 1 \in 0 .. i /\ ~(j <= j - 1) /\ j \in 1 .. n /\ j \in 1 .. m
    BY <1>4, <2>2
  <2>4. f[j - 1] = g[j - 1]
    BY <2>1, <2>3
  <2> QED BY <1>4, <2>2, <2>3, <2>4
<1> HIDE DEF Solved
<1>5. ASSUME NEW n \in Nat PROVE FieldOf(data, from, n) \in Nat
  <2>1. PICK f \in [0 .. n -> Nat] : Solved(f, n)
    BY <1>3
  <2>2. n \in 0 .. n /\ Solved(c(n), n)
    BY <1>3
  <2>3. f[n] = c(n)[n]
    BY <1>4, <2>1, <2>2
  <2> QED BY <1>2, <2>1, <2>2, <2>3
<1>6. ASSUME NEW n \in Nat \ {0}
      PROVE  FieldOf(data, from, n) = Longer(FieldOf(data, from, n - 1), n)
  <2>1. n \in Nat /\ n - 1 \in Nat /\ n - 1 \in 0 .. n /\ n - 1 \in 0 .. n - 1 /\ n \in 1 .. n
    OBVIOUS
  <2>2. Solved(c(n), n) /\ Solved(c(n - 1), n - 1)
    BY <1>3, <2>1
  <2>3. c(n)[n - 1] = c(n - 1)[n - 1]
    BY <1>4, <2>1, <2>2
  <2>4. c(n)[n] = Longer(c(n)[n - 1], n)
    BY <2>1, <2>2 DEF Solved
  <2> QED BY <1>2, <2>3, <2>4
<1>7. FieldOf(data, from, 0) = 0
  <2>1. Solved(c(0), 0)
    BY <1>3
  <2> QED BY <1>2, <2>1 DEF Solved
<1> QED BY <1>5, <1>6, <1>7 DEF Longer

LEMMA DivIs ==
  ASSUME NEW w \in Nat, NEW p \in Nat \ {0}, NEW v \in Nat, v * p <= w, w < (v + 1) * p
  PROVE  w \div p = v
<1>1. PICK q \in Nat : q = w \div p /\ w < q * p + p
  BY DivType, DivBounds
<1>2. q * p <= w
  BY <1>1
<1>3. (q + 1) * p = q * p + p
  BY ONLY q \in Nat, p \in Nat \ {0}
<1>4. ~(q + 1 <= v)
  <2>1. q + 1 <= v => (q + 1) * p <= v * p
    BY ProductMonotone
  <2>2. PICK x \in Nat, y \in Nat : x = (q + 1) * p /\ y = v * p
    BY ProductType
  <2> QED BY <1>1, <1>3, <2>1, <2>2
<1>5. ~(v + 1 <= q)
  <2>1. v + 1 <= q => (v + 1) * p <= q * p
    BY ProductMonotone
  <2>2. PICK x \in Nat, y \in Nat : x = (v + 1) * p /\ y = q * p
    BY ProductType
  <2> QED BY <1>2, <2>1, <2>2
<1> QED BY <1>1, <1>4, <1>5

\* The worth of the place behind which n bytes follow.
Place(n) == 2 ^ (n * ByteBits)
Short(n) == n \in Nat /\ (n <= MaxSize \/ n <= WordBytes)

LEMMA PlaceIs ==
  /\ Place(0) = 1
  /\ \A n : Short(n) => Place(n) \in Nat \ {0}
  /\ \A n \in Nat : Short(n + 1) => Short(n) /\ Place(n + 1) = Place(n) * 2 ^ ByteBits
<1>1. Place(0) = 1
  <2>1. 0 * ByteBits = 0 /\ 2 ^ 0 = 1
    BY Sizes
  <2> QED BY <2>1 DEF Place
<1>2. ASSUME NEW n, Short(n) PROVE Place(n) \in Nat \ {0}
  <2>1. CASE n <= MaxSize
    <3>1. n \in 0 .. MaxSize
      BY <1>2, <2>1, LongNumbersAssumption DEF Short
    <3>2. 2 ^ (n * ByteBits) >= 1
      BY <3>1, LongNumbersAssumption
    <3>3. n * ByteBits \in Nat
      BY <1>2, Sizes, ProductType DEF Short
    <3>4. 2 ^ (n * ByteBits) \in Int
      BY <3>3
    <3> QED BY <3>2, <3>4 DEF Place
  <2>2. CASE n <= WordBytes
    <3>1. n * ByteBits \in Nat /\ n * ByteBits <= WordBits
      BY <1>2, <2>2, PlacesType DEF Short
    <3> QED BY <3>1, PowerType DEF Place
  <2> QED BY <1>2, <2>1, <2>2 DEF Short
<1>3. ASSUME NEW n \in Nat, Short(n + 1)
      PROVE  Short(n) /\ Place(n + 1) = Place(n) * 2 ^ ByteBits
  <2>1. CASE n + 1 <= MaxSize
    <3>1. n \in 0 .. MaxSize
      BY <2>1, LongNumbersAssumption
    <3> QED BY <3>1, LongNumbersAssumption DEF Place, Short
  <2>2. CASE n + 1 <= WordBytes
    <3>1. n * ByteBits \in 0 .. WordBits /\ ByteBits \in 0 .. WordBits
      <4>1. n <= WordBytes
        BY <2>2, Sizes
      <4> QED BY <4>1, PlacesType, Sizes
    <3>2. (n + 1) * ByteBits = n * ByteBits + ByteBits
      BY Sizes
    <3>3. 2 ^ (n * ByteBits + ByteBits) = 2 ^ (n * ByteBits) * 2 ^ ByteBits
      BY <3>1, PowersAssumption, Zenon
    <3> QED BY <2>2, <3>2, <3>3, Sizes DEF Place, Short
  <2> QED BY <1>3, <2>1, <2>2 DEF Short
<1> QED BY <1>1, <1>2, <1>3

\* The number of a sequence of bytes is what reading them one after the other makes.
LEMMA NumberIsField ==
  ASSUME NEW data \in Seq(Byte), NEW from \in Nat, NEW bytes \in Seq(Byte),
         Short(Len(bytes)), \A n \in 1 .. Len(bytes) : bytes[n] = ByteAt(data, from + n)
  PROVE  Number(bytes) = FieldOf(data, from, Len(bytes))
<1> DEFINE L == Len(bytes)
           f == [n \in 1 .. L |-> bytes[n] * Place(L - n)]
           sum(k) == Cardinality(Units(1 .. k, f))
           value(k) == FieldOf(data, from, k)
<1>1. L \in Nat /\ Short(L)
  OBVIOUS
<1>2. \A k \in 0 .. L : Short(L - k) /\ Place(L - k) \in Nat \ {0}
  <2>1. ASSUME NEW k \in 0 .. L PROVE Short(L - k)
    BY <1>1, LongNumbersAssumption, Sizes DEF Short
  <2> QED BY <2>1, PlaceIs
<1>3. ASSUME NEW n \in 1 .. L PROVE bytes[n] \in Nat /\ f[n] = bytes[n] * Place(L - n) /\ f[n] \in Nat
  <2>1. bytes[n] \in Nat
    <3>1. bytes[n] \in Byte
      OBVIOUS
    <3> QED BY <3>1, ByteType
  <2>2. f[n] = bytes[n] * Place(L - n)
    OBVIOUS
  <2>3. Place(L - n) \in Nat
    <3>1. n \in 0 .. L
      BY <1>1
    <3> QED BY <1>2, <3>1
  <2> HIDE DEF f
  <2> QED BY <2>1, <2>2, <2>3, ProductType
<1>4. f \in [1 .. L -> Nat] /\ IsFiniteSet(1 .. L)
  <2>1. IsFiniteSet(1 .. L)
    BY <1>1, FS_Interval
  <2>2. f \in [1 .. L -> Nat]
    BY <1>3
  <2> QED BY <2>1, <2>2
<1>5. Number(bytes) = Total(1 .. L, f)
  BY FromBytesIsTotal DEF Number, Place
<1> HIDE DEF f, L
<1>6. Number(bytes) = sum(L)
  BY <1>4, <1>5, TotalIsUnits
<1>7. sum(0) = 0
  <2>1. 1 .. 0 = {}
    OBVIOUS
  <2>2. Units(1 .. 0, f) = {}
    BY <2>1 DEF Units
  <2> QED BY <2>2, FS_EmptySet
<1>8. ASSUME NEW k \in 1 .. L PROVE sum(k) = f[k] + sum(k - 1) /\ sum(k - 1) \in Nat
  <2>1. 1 .. k \in SUBSET (1 .. L) /\ k \in 1 .. k /\ (1 .. k) \ {k} = 1 .. k - 1
        /\ 1 .. k - 1 \in SUBSET (1 .. L)
    BY <1>1
  <2>2. PICK s, t : s = 1 .. k /\ t = 1 .. k - 1
    OBVIOUS
  <2>3. Cardinality(Units(s, f)) = f[k] + Cardinality(Units(s \ {k}, f))
    <3>1. s \in SUBSET (1 .. L) /\ k \in s
      BY ONLY <2>1, <2>2
    <3> QED BY ONLY <1>4, <3>1, UnitsSplit
  <2>4. Cardinality(Units(t, f)) \in Nat
    BY ONLY <1>4, <2>1, <2>2, UnitsFinite
  <2> QED BY ONLY <2>1, <2>2, <2>3, <2>4
<1>9. ASSUME NEW k \in 1 .. L, sum(k - 1) = value(k - 1) * Place(L - (k - 1))
      PROVE  sum(k) = value(k) * Place(L - k)
  <2>1. PICK p \in Nat, r \in Nat, v \in Nat, b \in Nat :
          p = Place(L - k) /\ r = 2 ^ ByteBits /\ v = value(k - 1) /\ b = bytes[k]
    <3>1. k \in 0 .. L /\ k - 1 \in Nat
      BY <1>1
    <3>2. Place(L - k) \in Nat /\ value(k - 1) \in Nat
      BY <1>2, <3>1, FieldStep
    <3>3. bytes[k] \in Nat
      BY <1>3
    <3> QED BY <3>2, <3>3, ByteType
  <2>2. Place(L - (k - 1)) = p * r
    <3>1. L - k \in Nat /\ L - (k - 1) = (L - k) + 1 /\ k - 1 \in 0 .. L
      BY <1>1
    <3>2. Short((L - k) + 1)
      BY <1>2, <3>1
    <3> QED BY <2>1, <3>1, <3>2, PlaceIs
  <2>3. value(k) = v * r + b
    <3>1. k \in Nat \ {0} /\ bytes[k] = ByteAt(data, from + k)
      BY <1>1 DEF L
    <3>2. value(k) = value(k - 1) * 2 ^ ByteBits + ByteAt(data, from + k)
      BY <3>1, FieldStep
    <3> HIDE DEF value
    <3> QED BY <2>1, <3>1, <3>2
  <2>4. sum(k) = b * p + v * (p * r)
    BY <1>3, <1>8, <1>9, <2>1, <2>2
  <2>5. b * p + v * (p * r) = (v * r + b) * p
    BY ONLY p \in Nat, r \in Nat, v \in Nat, b \in Nat
  <2> QED BY <2>1, <2>3, <2>4, <2>5
<1> HIDE DEF sum, value
<1>10. ASSUME NEW k \in 0 .. L, sum(k) # value(k) * Place(L - k) PROVE FALSE
  <2> DEFINE S == {j \in 0 .. L : sum(j) # value(j) * Place(L - j)}
  <2>1. PICK j \in S : \A i \in S : j <= i
    <3>1. S \in SUBSET Nat /\ S # {}
      <4>1. S \subseteq 0 .. L /\ k \in S
        BY <1>10
      <4>2. 0 .. L \subseteq Nat
        BY <1>1
      <4> HIDE DEF S
      <4> QED BY <4>1, <4>2
    <3> HIDE DEF S
    <3> QED BY <3>1, Least
  <2>2. j \in 0 .. L /\ sum(j) # value(j) * Place(L - j)
    OBVIOUS
  <2>3. j # 0
    <3>1. value(0) = 0 /\ Place(L - 0) \in Nat
      <4>1. 0 \in 0 .. L
        BY <1>1
      <4> QED BY <1>2, <4>1, FieldStep DEF value
    <3> QED BY <1>7, <2>2, <3>1
  <2>4. j \in 1 .. L /\ j - 1 \in 0 .. L /\ ~(j <= j - 1)
    BY <1>1, <2>2, <2>3
  <2>5. j - 1 \notin S
    <3> HIDE DEF S
    <3> QED BY <2>1, <2>4
  <2>6. sum(j - 1) = value(j - 1) * Place(L - (j - 1))
    BY <2>4, <2>5
  <2> QED BY <1>9, <2>2, <2>4, <2>6
<1>11. sum(L) = value(L) * Place(0)
  <2>1. L \in 0 .. L /\ L - L = 0
    BY <1>1
  <2> QED BY <1>10, <2>1
<1>12. value(L) \in Nat
  BY <1>1, FieldStep DEF value
<1> QED BY <1>6, <1>11, <1>12, PlaceIs DEF value, L

\* The first bytes of a field are what is left of it when the others are shifted out.
LEMMA FieldPrefix ==
  ASSUME NEW data \in Seq(Byte), NEW from \in Nat, NEW j \in Nat, NEW m \in Nat, Short(m)
  PROVE  /\ FieldOf(data, from, j + m) \div Place(m) = FieldOf(data, from, j)
         /\ FieldOf(data, from, j + m) < (FieldOf(data, from, j) + 1) * Place(m)
<1> DEFINE value(k) == FieldOf(data, from, k)
           Bounded(i) == value(j) * Place(i) <= value(j + i)
                         /\ value(j + i) < (value(j) + 1) * Place(i)
<1>1. \A i \in 0 .. m : Short(i) /\ Place(i) \in Nat \ {0}
  <2>1. \A i \in 0 .. m : Short(i)
    BY LongNumbersAssumption, Sizes DEF Short
  <2> QED BY <2>1, PlaceIs
<1>2. \A k \in Nat : value(k) \in Nat
  BY FieldStep
<1>3. Bounded(0)
  <2>1. PICK v \in Nat : v = value(j) /\ j + 0 = j
    BY <1>2
  <2> QED BY <2>1, PlaceIs
<1>4. ASSUME NEW i \in Nat, i + 1 <= m, Bounded(i) PROVE Bounded(i + 1)
  <2>1. PICK p \in Nat, r \in Nat, v \in Nat, w \in Nat, b \in Nat :
          /\ p = Place(i) /\ r = 2 ^ ByteBits /\ v = value(j) /\ w = value(j + i)
          /\ b = ByteAt(data, from + (j + i + 1)) /\ b <= r - 1
    <3>1. Place(i) \in Nat
      BY <1>1, <1>4
    <3>2. value(j) \in Nat /\ value(j + i) \in Nat
      <4>1. j + i \in Nat
        OBVIOUS
      <4> HIDE DEF value
      <4> QED BY <1>2, <4>1
    <3>3. ByteAt(data, from + (j + i + 1)) \in Byte
      BY ByteAtType
    <3>4. PICK r \in Nat, b \in Nat : r = 2 ^ ByteBits /\ b = ByteAt(data, from + (j + i + 1))
      BY <3>3, ByteType
    <3>5. b \in 0 .. r - 1
      BY <3>3, <3>4, Zenon DEF Byte
    <3>6. b <= r - 1
      BY <3>5
    <3> HIDE DEF value
    <3> QED BY ONLY <3>1, <3>2, <3>4, <3>6
  <2>2. Place(i + 1) = p * r
    <3>1. Short(i + 1)
      BY <1>1, <1>4
    <3> QED BY <2>1, <3>1, PlaceIs
  <2>3. value(j + (i + 1)) = w * r + b
    <3>1. j + i + 1 \in Nat \ {0} /\ (j + i + 1) - 1 = j + i /\ j + (i + 1) = j + i + 1
      OBVIOUS
    <3> HIDE DEF value
    <3>2. value(j + i + 1) = value((j + i + 1) - 1) * 2 ^ ByteBits + ByteAt(data, from + (j + i + 1))
      BY <3>1, FieldStep DEF value
    <3> QED BY <2>1, <3>1, <3>2
  <2>4. v * p <= w /\ w < (v + 1) * p
    BY <1>4, <2>1
  <2>5. v * (p * r) <= w * r + b
    <3>1. (v * p) * r <= w * r
      <4>1. PICK x \in Nat : x = v * p
        BY ProductType
      <4> QED BY <2>4, <4>1, ProductMonotone
    <3>2. (v * p) * r = v * (p * r)
      BY ONLY p \in Nat, r \in Nat, v \in Nat
    <3>3. PICK y \in Nat : y = w * r
      BY ProductType
    <3> QED BY <3>1, <3>2, <3>3
  <2>6. w * r + b < (v + 1) * (p * r)
    <3>1. PICK x \in Nat : x = (v + 1) * p
      BY ProductType
    <3>2. (w + 1) * r <= x * r
      BY <2>4, <3>1, ProductMonotone
    <3>3. (w + 1) * r = w * r + r /\ x * r = (v + 1) * (p * r)
      <4>1. ((v + 1) * p) * r = (v + 1) * (p * r)
        BY ONLY p \in Nat, r \in Nat, v \in Nat
      <4>2. (w + 1) * r = w * r + r
        BY ONLY w \in Nat, r \in Nat
      <4> QED BY <3>1, <4>1, <4>2
    <3>4. PICK y \in Nat, z \in Nat : y = w * r /\ z = x * r
      BY ProductType
    <3>5. y + b < z
      <4>1. y + r <= z
        BY ONLY <3>2, <3>3, <3>4
      <4>2. b <= r - 1 /\ b \in Nat /\ r \in Nat
        BY <2>1
      <4> QED BY ONLY <3>4, <4>1, <4>2
    <3> QED BY ONLY <3>3, <3>4, <3>5
  <2> HIDE DEF value
  <2> QED BY <2>1, <2>2, <2>3, <2>5, <2>6
<1> HIDE DEF value
<1>5. ASSUME NEW i \in 0 .. m, ~Bounded(i) PROVE FALSE
  <2> DEFINE S == {k \in 0 .. m : ~Bounded(k)}
  <2>1. PICK k \in S : \A l \in S : k <= l
    <3>1. S \in SUBSET Nat /\ S # {}
      BY <1>5
    <3> HIDE DEF S
    <3> QED BY <3>1, Least
  <2> HIDE DEF Bounded
  <2>2. k \in 0 .. m /\ ~Bounded(k) /\ k # 0
    BY <1>3
  <2>3. k - 1 \in 0 .. m /\ ~(k <= k - 1) /\ k - 1 \in Nat /\ (k - 1) + 1 = k
    BY <2>2
  <2>4. k - 1 \notin S
    <3> HIDE DEF S
    <3> QED BY <2>1, <2>3
  <2>5. Bounded(k - 1)
    BY <2>3, <2>4
  <2> QED BY <1>4, <2>2, <2>3, <2>5
<1>6. PICK p \in Nat \ {0}, v \in Nat, w \in Nat :
        p = Place(m) /\ v = value(j) /\ w = value(j + m) /\ v * p <= w /\ w < (v + 1) * p
  <2>1. m \in 0 .. m /\ value(j) \in Nat /\ value(j + m) \in Nat
    <3>1. m \in 0 .. m /\ j + m \in Nat
      OBVIOUS
    <3> QED BY <1>2, <3>1
  <2> QED BY <1>1, <1>5, <2>1
<1>7. w \div p = v
  BY <1>6, DivIs
<1> QED BY <1>6, <1>7 DEF value

----------------------------------------------------------------------------
(* Powers modulo a number.                                                  *)

PowerFrom(start, c, m, e) ==
  LET power[k \in 0 .. e] == IF k = 0 THEN start ELSE (power[k - 1] * c) % m
  IN  power[e]
Powers(g, start, c, m, e) == g[0] = start /\ \A k \in 1 .. e : g[k] = (g[k - 1] * c) % m

\* What a power is does not depend on the solution of its recursion.
LEMMA PowerIs ==
  ASSUME NEW start \in Nat, NEW c \in Nat, NEW m \in Nat \ {0}, NEW e \in Nat,
         NEW g \in [0 .. e -> Nat], Powers(g, start, c, m, e)
  PROVE  PowerFrom(start, c, m, e) = g[e]
<1> DEFINE next(v) == (v * c) % m
           Solves(f) == f = [k \in 0 .. e |-> IF k = 0 THEN start ELSE next(f[k - 1])]
           power == CHOOSE f : Solves(f)
<1>0. g[0] = start /\ \A k \in 1 .. e : g[k] = next(g[k - 1])
  BY DEF Powers
<1> HIDE DEF next
<1>1. Solves(g)
  <2>1. g = [k \in 0 .. e |-> g[k]]
    OBVIOUS
  <2>2. \A k \in 0 .. e : g[k] = IF k = 0 THEN start ELSE next(g[k - 1])
    BY <1>0
  <2> QED BY <2>1, <2>2
<1>2. Solves(power)
  BY <1>1
<1> HIDE DEF power
<1>3. \A k \in 0 .. e : power[k] = IF k = 0 THEN start ELSE next(power[k - 1])
  BY <1>2
<1>4. ASSUME NEW i \in 0 .. e, power[i] # g[i] PROVE FALSE
  <2> DEFINE S == {j \in 0 .. e : power[j] # g[j]}
  <2>1. PICK j \in S : \A k \in S : j <= k
    <3>1. S \in SUBSET Nat /\ S # {}
      <4>1. S \subseteq 0 .. e /\ i \in S
        BY <1>4
      <4> HIDE DEF S
      <4> QED BY <4>1
    <3> HIDE DEF S
    <3> QED BY <3>1, Least
  <2>2. j \in 0 .. e /\ power[j] # g[j]
    OBVIOUS
  <2>3. j # 0
    BY <1>0, <1>3, <2>2
  <2>4. j \in 1 .. e /\ j - 1 \in 0 .. e /\ ~(j <= j - 1)
    BY <2>2, <2>3
  <2>5. j - 1 \notin S
    <3> HIDE DEF S
    <3> QED BY <2>1, <2>4
  <2>6. power[j - 1] = g[j - 1]
    BY <2>4, <2>5
  <2>7. power[j] = next(power[j - 1])
    BY <1>3, <2>2, <2>3
  <2> QED BY <1>0, <2>2, <2>4, <2>6, <2>7
<1>5. power[e] = g[e]
  <2>1. e \in 0 .. e
    OBVIOUS
  <2> QED BY <1>4, <2>1
<1> QED BY <1>5 DEF PowerFrom, power, next

LEMMA ModOfRest ==
  ASSUME NEW p \in Nat, NEW b \in Nat, NEW m \in Nat \ {0}
  PROVE  (p * (b % m)) % m = (p * b) % m
<1>1. PICK q \in Nat, r \in Nat : q = b \div m /\ r = b % m /\ b = q * m + r
  OBVIOUS
<1>2. PICK x \in Nat, y \in Nat : x = p * r /\ y = p * q
  BY ProductType
<1>3. p * b = x + y * m
  <2>1. p * (q * m + r) = p * r + (p * q) * m
    BY ONLY p \in Nat, q \in Nat, m \in Nat, r \in Nat
  <2> QED BY <1>1, <1>2, <2>1
<1>4. x % m = (x + y * m) % m
  <2>1. PICK d \in Nat, s \in 0 .. m - 1 : s \in Nat /\ d = x \div m /\ s = x % m /\ x = d * m + s
    OBVIOUS
  <2>2. x + y * m = (d + y) * m + s
    <3>1. (d + y) * m = d * m + y * m
      BY ONLY y \in Nat, m \in Nat, d \in Nat
    <3>2. PICK u \in Nat, v \in Nat : u = d * m /\ v = y * m
      BY ProductType
    <3>3. x + v = u + v + s
      BY <2>1, <3>2
    <3> QED BY <3>1, <3>2, <3>3
  <2>3. PICK w \in Nat : w = d + y
    OBVIOUS
  <2>4. (w * m + s) % m = s
    BY ONLY w \in Nat, m \in Nat \ {0}, s \in 0 .. m - 1
  <2> QED BY <2>1, <2>2, <2>3, <2>4
<1> QED BY <1>1, <1>2, <1>3, <1>4

\* The power of a reduction context is the one of the EIP, modulo anything.
LEMMA ExpModIs ==
  ASSUME NEW base \in Nat, NEW e \in Nat, NEW m \in Nat \ {0}
  PROVE  ExpMod(base, e, m) = PowerFrom(1 % m, base, m, e)
<1> DEFINE step == [p \in Nat \X (1 .. e) |-> (p[1] * base) % m]
<1>1. step \in [Nat \X (1 .. e) -> Nat]
  <2>1. ASSUME NEW p \in Nat \X (1 .. e) PROVE (p[1] * base) % m \in Nat
    <3>1. PICK v \in Nat : v = p[1]
      OBVIOUS
    <3>2. PICK x \in Nat : x = v * base
      BY ProductType
    <3>3. x % m \in 0 .. m - 1
      BY ModType
    <3> QED BY <3>1, <3>2, <3>3
  <2> QED BY <2>1
<1>2. 1 % m \in Nat
  BY ModType
<1>3. PICK g \in [0 .. e -> Nat] : Recurses(g, step, 1 % m, e)
  <2> HIDE DEF step
  <2> QED BY <1>1, <1>2, RecursionExists
<1>4. g[0] = 1 % m
  BY <1>3 DEF Recurses
<1>5. ASSUME NEW k \in 1 .. e PROVE g[k - 1] \in Nat /\ g[k] = (g[k - 1] * base) % m
  <2>1. k - 1 \in 0 .. e
    OBVIOUS
  <2>2. g[k - 1] \in Nat
    BY <2>1
  <2>3. step[<<g[k - 1], k>>] = (g[k - 1] * base) % m
    BY <2>2
  <2> HIDE DEF step
  <2> QED BY <1>3, <2>2, <2>3 DEF Recurses
<1> HIDE DEF step
<1>6. PowerFrom(1 % m, base, m, e) = g[e]
  <2>1. Powers(g, 1 % m, base, m, e)
    BY <1>4, <1>5 DEF Powers
  <2>2. PICK start \in Nat : start = 1 % m
    BY <1>2
  <2>3. PowerFrom(start, base, m, e) = g[e]
    BY ONLY <2>1, <2>2, base \in Nat, m \in Nat \ {0}, e \in Nat, g \in [0 .. e -> Nat], PowerIs
  <2> QED BY <2>2, <2>3
<1>7. ExpMod(base, e, m) = g[e]
  <2>1. CASE e = 0
    <3>1. ExpMod(base, e, m) = 1 % m
      BY <2>1 DEF ExpMod
    <3> QED BY <1>4, <2>1, <3>1
  <2>2. CASE e # 0 /\ m = 1
    <3>1. ExpMod(base, e, m) = 0
      BY <2>2 DEF ExpMod
    <3>2. e \in 1 .. e
      BY <2>2
    <3>3. PICK x \in Nat : x = g[e - 1] * base
      BY <1>5, <3>2, ProductType
    <3>4. g[e] = x % 1
      BY <1>5, <2>2, <3>2, <3>3
    <3> QED BY <3>1, <3>4
  <2>3. CASE e # 0 /\ m # 1
    <3>1. ExpMod(base, e, m) = RedPow(base % m, e, m) /\ 1 % m = 1
      BY <2>3 DEF ExpMod
    <3>2. PICK c \in Nat : c = base % m
      <4>1. base % m \in 0 .. m - 1
        BY ModType
      <4> QED BY <4>1
    <3>3. ASSUME NEW k \in 1 .. e PROVE g[k] = (g[k - 1] * c) % m
      <4>1. PICK v \in Nat : v = g[k - 1] /\ g[k] = (v * base) % m
        BY <1>5
      <4>2. (v * (base % m)) % m = (v * base) % m
        BY ModOfRest
      <4> QED BY <3>2, <4>1, <4>2
    <3>4. g[0] = 1
      BY <1>4, <3>1
    <3>5. PowerFrom(1, c, m, e) = g[e]
      <4>1. Powers(g, 1, c, m, e)
        BY <3>3, <3>4 DEF Powers
      <4> QED BY <4>1, PowerIs
    <3>6. RedPow(c, e, m) = PowerFrom(1, c, m, e)
      BY DEF RedPow, PowerFrom
    <3> QED BY <3>1, <3>2, <3>5, <3>6
  <2> QED BY <2>1, <2>2, <2>3
<1> QED BY <1>6, <1>7

----------------------------------------------------------------------------
(* The highest bit.                                                         *)

LEMMA PowersGrow ==
  ASSUME NEW m \in 0 .. WordBits, NEW n \in 0 .. WordBits, m <= n
  PROVE  2 ^ m <= 2 ^ n
<1>1. n - m \in 0 .. WordBits /\ m + (n - m) = n
  BY Sizes
<1>2. 2 ^ n = 2 ^ m * 2 ^ (n - m)
  BY <1>1, PowersAssumption, Zenon
<1>3. PICK a \in Nat, b \in Nat \ {0} : a = 2 ^ m /\ b = 2 ^ (n - m)
  BY <1>1, PowerType
<1>4. 1 * a <= b * a
  BY ProductMonotone
<1>5. a * b = b * a
  BY ONLY a \in Nat, b \in Nat
<1> QED BY <1>2, <1>3, <1>4, <1>5

LEMMA NextPower ==
  ASSUME NEW n \in 0 .. WordBits
  PROVE  2 ^ (n + 1) = 2 * 2 ^ n
<1>1. 2 ^ (1 + n) = 2 ^ 1 * 2 ^ n
  <2>1. 1 \in 0 .. WordBits
    BY Sizes
  <2> QED BY <2>1, PowersAssumption, Zenon
<1>2. 2 ^ 1 = 2 /\ 1 + n = n + 1
  OBVIOUS
<1> QED BY <1>1, <1>2

\* The index of the highest bit of a word, or 0, however it is looked for.
IsHighest(x, n) == n \in 0 .. WordBits /\ (n = 0 \/ 2 ^ n <= x) /\ x < 2 ^ (n + 1)

LEMMA HighestIs ==
  ASSUME NEW x \in Word
  PROVE  /\ Max({BitLength(x), 0}) \in 0 .. WordBits
         /\ \A n : IsHighest(x, n) <=> n = Max({BitLength(x), 0})
<1>1. PICK n \in 0 .. WordBits : x < 2 ^ n /\ \A k \in 0 .. WordBits : x < 2 ^ k => n <= k
  <2> DEFINE S == {k \in 0 .. WordBits : x < 2 ^ k}
  <2>1. S \in SUBSET Nat /\ WordBits \in S
    <3>1. x < 2 ^ WordBits
      <4>1. x \in 0 .. TwoPow - 1
        BY WordType
      <4> QED BY <4>1, WordType DEF TwoPow
    <3> QED BY <3>1, Sizes
  <2> HIDE DEF S
  <2>2. PICK n \in S : \A k \in S : n <= k
    BY <2>1, Least
  <2> QED BY <2>2 DEF S
<1>2. x \in Nat
  BY WordType
<1> DEFINE high == IF n = 0 THEN 0 ELSE n - 1
<1>3. high \in 0 .. WordBits /\ (high = 0 \/ 2 ^ high <= x) /\ x < 2 ^ (high + 1)
  <2>1. CASE n = 0
    <3>1. 2 ^ 0 = 1 /\ 2 ^ (0 + 1) = 2
      OBVIOUS
    <3> QED BY <1>1, <1>2, <2>1, <3>1, Sizes
  <2>2. CASE n # 0
    <3>1. n - 1 \in 0 .. WordBits /\ ~(n <= n - 1) /\ n - 1 + 1 = n
      BY <1>1, Sizes, <2>2
    <3>2. ~(x < 2 ^ (n - 1))
      BY <1>1, <3>1
    <3>3. 2 ^ (n - 1) \in Nat
      BY <3>1, PowerType
    <3> QED BY <1>1, <1>2, <2>2, <3>1, <3>2, <3>3
  <2> QED BY <2>1, <2>2
<1>4. ASSUME NEW k \in 0 .. WordBits, n <= k PROVE x < 2 ^ k
  <2>1. 2 ^ n <= 2 ^ k
    BY <1>4, PowersGrow
  <2>2. 2 ^ n \in Nat /\ 2 ^ k \in Nat
    BY PowerType
  <2> QED BY <1>1, <1>2, <2>1, <2>2
<1>5. ASSUME NEW k, IsHighest(x, k) PROVE k = high
  <2>1. k \in 0 .. WordBits /\ (k = 0 \/ 2 ^ k <= x) /\ x < 2 ^ (k + 1)
    BY <1>5 DEF IsHighest
  <2>2. k = 0 \/ ~(n <= k)
    <3>1. 2 ^ k \in Nat
      BY <2>1, PowerType
    <3> QED BY <1>2, <1>4, <2>1, <3>1
  <2>3. n <= k + 1
    <3>1. CASE k = WordBits
      BY <1>1, <3>1, Sizes
    <3>2. CASE k # WordBits
      BY <1>1, <2>1, <3>2, Sizes
    <3> QED BY <3>1, <3>2
  <2> QED BY <1>1, <2>1, <2>2, <2>3
<1>6. IsHighest(x, high)
  BY <1>3 DEF IsHighest
<1>7. \A k \in 0 .. WordBits - 1 : n <= k => Bit(x, k) # 1
  <2> SUFFICES ASSUME NEW k \in 0 .. WordBits - 1, n <= k PROVE Bit(x, k) # 1
    OBVIOUS
  <2>1. k \in 0 .. WordBits
    BY Sizes
  <2>2. x < 2 ^ k
    BY <1>4, <2>1
  <2>3. PICK p \in Nat \ {0} : p = 2 ^ k
    BY <2>1, PowerType
  <2>4. x \div p = 0
    BY <1>2, <2>2, <2>3
  <2> QED BY <2>3, <2>4 DEF Bit
<1>8. n # 0 => n - 1 \in 0 .. WordBits - 1 /\ Bit(x, n - 1) = 1
  <2> SUFFICES ASSUME n # 0 PROVE n - 1 \in 0 .. WordBits - 1 /\ Bit(x, n - 1) = 1
    OBVIOUS
  <2>1. n - 1 \in 0 .. WordBits /\ n - 1 + 1 = n /\ ~(n <= n - 1)
    BY <1>1, Sizes
  <2>2. PICK p \in Nat \ {0} : p = 2 ^ (n - 1) /\ 2 ^ n = 2 * p
    <3>1. 2 ^ (n - 1) \in Nat \ {0} /\ 2 ^ (n - 1 + 1) = 2 * 2 ^ (n - 1)
      BY <2>1, PowerType, NextPower
    <3> QED BY <2>1, <3>1
  <2>3. 1 * p <= x /\ x < (1 + 1) * p
    <3>1. ~(x < p)
      BY <1>1, <2>1, <2>2
    <3> QED BY <1>1, <1>2, <2>2, <3>1
  <2>4. x \div p = 1
    BY <1>2, <2>3, DivIs
  <2> QED BY <1>1, Sizes, <2>1, <2>2, <2>4 DEF Bit
<1> DEFINE S == {-1} \cup {k \in 0 .. WordBits - 1 : Bit(x, k) = 1}
<1>9. BitLength(x) = n - 1
  <2>1. S \in SUBSET Int /\ n - 1 \in S /\ n \in Int
    BY <1>1, <1>8, Sizes
  <2>2. \A k \in S : k <= n - 1
    BY <1>1, <1>7, Sizes
  <2> HIDE DEF S
  <2>3. Max(S) \in S /\ Max(S) >= n - 1
    <3>1. n - 1 \in Int /\ S # {}
      BY <2>1
    <3> QED BY <2>1, <2>2, <3>1, MaxOfSome
  <2>4. Max(S) = n - 1
    <3>1. Max(S) \in Int /\ Max(S) <= n - 1
      BY <2>1, <2>2, <2>3
    <3> QED BY <1>1, <2>3, <3>1
  <2> QED BY <2>4 DEF BitLength, S
<1>10. Max({BitLength(x), 0}) = high
  <2>1. n - 1 \in Int
    BY <1>1
  <2> QED BY <1>1, <1>9, <2>1, MaxOfTwo
<1> HIDE DEF high
<1> QED BY <1>3, <1>5, <1>6, <1>10

----------------------------------------------------------------------------
(* What modexp reads are the fields of the EIP.                             *)

LEMMA SliceIsField ==
  ASSUME NEW data \in Seq(Byte), NEW from \in Nat, NEW to \in Nat, to = from + WordBytes,
         to <= Len(data)
  PROVE  Number(Slice(data, from, to)) = FieldOf(data, from, WordBytes)
<1>1. Min({to, Len(data)}) = to
  <2>1. Len(data) \in Nat
    OBVIOUS
  <2> QED BY <2>1, MinOfTwo
<1>2. Slice(data, from, to) = SubSeq(data, from + 1, to)
  BY <1>1 DEF Slice
<1>3. PICK bytes : bytes = SubSeq(data, from + 1, to)
  OBVIOUS
<1>4. /\ bytes \in Seq(Byte) /\ Len(bytes) = WordBytes
      /\ \A n \in 1 .. WordBytes : bytes[n] = data[from + n]
  <2>1. PICK w \in Nat \ {0}, m \in Int : w = WordBytes /\ m = from + 1 /\ to - m + 1 = w /\ m <= to
    BY Sizes
  <2>2. to \in Int /\ \A n \in m .. to : data[n] \in Byte
    BY <2>1
  <2>3. /\ SubSeq(data, m, to) \in Seq(Byte)
        /\ Len(SubSeq(data, m, to)) = IF m <= to THEN to - m + 1 ELSE 0
        /\ \A n \in 1 .. to - m + 1 : SubSeq(data, m, to)[n] = data[m + n - 1]
    BY <2>2, SubSeqProperties
  <2>4. bytes \in Seq(Byte) /\ Len(bytes) = w /\ \A n \in 1 .. w : bytes[n] = data[m + n - 1]
    BY <1>3, <2>1, <2>3
  <2>5. \A n \in 1 .. w : m + n - 1 = from + n
    BY <2>1
  <2> QED BY <2>1, <2>4, <2>5
<1>5. \A n \in 1 .. Len(bytes) : bytes[n] = ByteAt(data, from + n)
  <2>1. \A n \in 1 .. WordBytes : from + n <= Len(data)
    BY Sizes
  <2> QED BY <1>4, <2>1 DEF ByteAt
<1>6. Short(WordBytes)
  BY Sizes DEF Short
<1>7. Number(bytes) = FieldOf(data, from, WordBytes)
  BY <1>4, <1>5, <1>6, NumberIsField
<1> QED BY <1>2, <1>3, <1>7

LEMMA PaddedIsField ==
  ASSUME NEW data \in Seq(Byte), NEW from \in Nat, NEW size, Short(size)
  PROVE  Number(Padded(data, from, size)) = FieldOf(data, from, size)
<1>1. PICK bytes : bytes = Padded(data, from, size)
  OBVIOUS
<1>2. size \in Nat
  BY DEF Short
<1>3. bytes = [n \in 1 .. size |-> ByteAt(data, from + n)]
  BY <1>1 DEF Padded, ByteAt
<1>4. \A n \in 1 .. size : ByteAt(data, from + n) \in Byte
  <2> SUFFICES ASSUME NEW n \in 1 .. size PROVE ByteAt(data, from + n) \in Byte
    OBVIOUS
  <2>1. from + n \in Nat \ {0}
    BY <1>2
  <2> QED BY <2>1, ByteAtType
<1>5. bytes \in [1 .. size -> Byte]
  BY <1>3, <1>4
<1>6. bytes \in Seq(Byte) /\ Len(bytes) = size
  BY <1>2, <1>5, FiniteSequence
<1>7. \A n \in 1 .. Len(bytes) : bytes[n] = ByteAt(data, from + n)
  BY <1>3, <1>6
<1> QED BY <1>1, <1>6, <1>7, NumberIsField

LEMMA HeadIsWord ==
  ASSUME NEW data \in Seq(Byte), NEW from \in Nat
  PROVE  FieldOf(data, from, WordBytes) \in Word
<1>1. Short(WordBytes)
  BY Sizes DEF Short
<1>2. FieldOf(data, from, 0 + WordBytes) < (FieldOf(data, from, 0) + 1) * Place(WordBytes)
  BY <1>1, Sizes, FieldPrefix
<1>3. 0 + WordBytes = WordBytes /\ FieldOf(data, from, 0) = 0
      /\ FieldOf(data, from, WordBytes) \in Nat
  <2>1. WordBytes \in Nat /\ 0 + WordBytes = WordBytes
    BY Sizes
  <2> QED BY <2>1, FieldStep
<1>4. Place(WordBytes) = TwoPow
  <2>1. WordBytes * ByteBits = ByteBits * WordBytes
    BY Sizes
  <2> QED BY <2>1 DEF Place, TwoPow, WordBits
<1>5. FieldOf(data, from, WordBytes) < TwoPow
  <2>1. PICK t \in Nat : t = TwoPow /\ (0 + 1) * t = t
    BY WordType
  <2> QED BY <1>2, <1>3, <1>4, <2>1
<1> QED BY <1>3, <1>5, WordType

Beyond(e) == IF e <= WordBytes THEN 0 ELSE ByteBits * (e - WordBytes)
HeadOf(data, b, e) == FieldOf(data, 3 * WordBytes + b, e) \div 2 ^ Beyond(e)

\* The length of the exponent, adjusted: the code shifts its first word by what
\* it is too long, the EIP the whole exponent by all but a word.
LEMMA AdjustedIs ==
  ASSUME NEW data \in Seq(Byte), Len(data) >= 3 * WordBytes,
         NEW b \in Nat, b = FieldOf(data, 0, WordBytes),
         NEW e \in 0 .. MaxSize, e = FieldOf(data, WordBytes, WordBytes)
  PROVE  /\ HeadOf(data, b, e) \in Word
         /\ AdjustedExponentLength(data) = Max({BitLength(HeadOf(data, b, e)), 0}) + Beyond(e)
<1>0. PICK beyond, head :
        /\ beyond = Beyond(e) /\ head = HeadOf(data, b, e)
        /\ beyond = (IF e <= WordBytes THEN 0 ELSE ByteBits * (e - WordBytes))
        /\ head = FieldOf(data, 3 * WordBytes + b, e) \div 2 ^ beyond
  BY DEF Beyond, HeadOf
<1> DEFINE from == 3 * WordBytes + b
           first == FieldOf(data, from, WordBytes)
           surplus == Max({WordBytes - e, 0})
<1>1. from \in Nat /\ first \in Word /\ e \in Nat
  <2>1. from \in Nat /\ e \in Nat
    BY Sizes
  <2> HIDE DEF from
  <2> QED BY <2>1, HeadIsWord
<1>2. /\ Number(Slice(data, 0, WordBytes)) = b
      /\ Number(Slice(data, WordBytes, 2 * WordBytes)) = e
      /\ Number(Padded(data, from, WordBytes)) = first
  <2>1. Number(Slice(data, 0, WordBytes)) = b
    <3>1. 0 \in Nat /\ WordBytes \in Nat /\ WordBytes = 0 + WordBytes /\ WordBytes <= Len(data)
      BY Sizes
    <3> QED BY <3>1, SliceIsField
  <2>2. Number(Slice(data, WordBytes, 2 * WordBytes)) = e
    <3>1. /\ WordBytes \in Nat /\ 2 * WordBytes \in Nat
          /\ 2 * WordBytes = WordBytes + WordBytes /\ 2 * WordBytes <= Len(data)
      BY Sizes
    <3> QED BY <3>1, SliceIsField
  <2>3. Short(WordBytes)
    BY Sizes DEF Short
  <2> HIDE DEF from
  <2> QED BY <1>1, <2>1, <2>2, <2>3, PaddedIsField DEF from
<1>3. AdjustedExponentLength(data)
        = ByteBits * Max({e - WordBytes, 0})
            + Max({BitLength(first \div 2 ^ (ByteBits * surplus)), 0})
  BY <1>2 DEF AdjustedExponentLength
<1> HIDE DEF from, first
<1>4. /\ surplus = IF e <= WordBytes THEN WordBytes - e ELSE 0
      /\ Max({e - WordBytes, 0}) = IF e <= WordBytes THEN 0 ELSE e - WordBytes
  <2>1. PICK w \in Nat : w = WordBytes
    BY Sizes
  <2>2. w - e \in Int /\ e - w \in Int
    BY <1>1
  <2>3. /\ Max({w - e, 0}) = IF w - e >= 0 THEN w - e ELSE 0
        /\ Max({e - w, 0}) = IF e - w >= 0 THEN e - w ELSE 0
    <3>1. 0 \in Int
      OBVIOUS
    <3> QED BY ONLY <2>2, <3>1, MaxOfTwo
  <2>4. (w - e >= 0 <=> e <= w) /\ (e - w >= 0 <=> e = w \/ ~(e <= w)) /\ (e = w => e - w = 0)
    BY <1>1
  <2> QED BY <2>1, <2>3, <2>4
<1> HIDE DEF surplus
<1>5. ByteBits * Max({e - WordBytes, 0}) = beyond /\ beyond \in Nat
  <2>1. CASE e <= WordBytes
    BY <1>0, <1>4, <2>1, Sizes
  <2>2. CASE ~(e <= WordBytes)
    <3>1. e - WordBytes \in Nat
      <4>1. PICK w \in Nat : w = WordBytes
        BY Sizes
      <4> QED BY <1>1, <2>2, <4>1
    <3> QED BY <1>0, <1>4, <2>2, <3>1, Sizes, ProductType
  <2> QED BY <2>1, <2>2
<1>6. head = first \div 2 ^ (ByteBits * surplus) /\ head \in Word
  <2>1. first \in Nat /\ first \in 0 .. TwoPow - 1 /\ TwoPow \in Nat
    BY <1>1, WordType
  <2>2. CASE e <= WordBytes
    <3>1. /\ surplus \in Nat /\ Short(surplus) /\ e + surplus = WordBytes
          /\ ByteBits * surplus = surplus * ByteBits
      BY <1>1, <1>4, <2>2, Sizes DEF Short
    <3>2. first \div Place(surplus) = FieldOf(data, from, e)
      <4>1. FieldOf(data, from, e + surplus) \div Place(surplus) = FieldOf(data, from, e)
        BY <1>1, <3>1, FieldPrefix
      <4> QED BY <3>1, <4>1 DEF first
    <3>3. head = FieldOf(data, from, e)
      <4>1. PICK x \in Nat : x = FieldOf(data, from, e)
        BY <1>1, FieldStep
      <4>2. beyond = 0
        BY <1>0, <2>2
      <4>3. head = x \div 2 ^ 0
        BY <1>0, <4>1, <4>2 DEF from
      <4>4. 2 ^ 0 = 1 /\ x \div 1 = x
        OBVIOUS
      <4> QED BY <4>1, <4>3, <4>4
    <3>4. PICK p \in Nat \ {0} : p = Place(surplus)
      BY <3>1, PlaceIs
    <3>5. head \in Nat /\ head <= first
      BY <2>1, <3>2, <3>3, <3>4, DivType
    <3> QED BY <2>1, <3>1, <3>2, <3>3, <3>5, WordType DEF Place
  <2>3. CASE ~(e <= WordBytes)
    <3>1. PICK m \in Nat : m = e - WordBytes
      BY <1>1, <2>3, Sizes
    <3>2. Short(m) /\ WordBytes + m = e /\ ByteBits * m = m * ByteBits /\ surplus = 0
      <4>1. PICK w \in Nat : w = WordBytes
        BY Sizes
      <4>2. w + m = e
        BY <1>1, <3>1, <4>1
      <4>3. m <= MaxSize
        BY <1>1, <4>2, LongNumbersAssumption
      <4>4. ByteBits * m = m * ByteBits
        BY Sizes
      <4>5. surplus = 0
        BY <1>4, <2>3
      <4> QED BY <4>1, <4>2, <4>3, <4>4, <4>5 DEF Short
    <3>3. FieldOf(data, from, WordBytes + m) \div Place(m) = first
      BY <1>1, <3>2, Sizes, FieldPrefix DEF first
    <3>4. head = first
      BY <1>0, <2>3, <3>1, <3>2, <3>3 DEF Place, from
    <3>5. ByteBits * surplus = 0 /\ 2 ^ 0 = 1 /\ first \div 1 = first
      BY <2>1, <3>2, Sizes
    <3> QED BY <1>1, <3>4, <3>5
  <2> QED BY <2>2, <2>3
<1>7. PICK x \in Nat : x = Max({BitLength(head), 0})
  BY <1>6, HighestIs
<1>8. AdjustedExponentLength(data) = beyond + x
  BY <1>3, <1>5, <1>6, <1>7
<1>9. beyond + x = x + beyond
  BY <1>5
<1> QED BY <1>0, <1>6, <1>7, <1>8, <1>9

----------------------------------------------------------------------------
(* modexp is EIP-198.                                                       *)

\* What the precompile answers, by the EIP.
ByEip(data, limit) ==
  IF limit < Eip198(data).gas THEN OOGResult(limit)
  ELSE Executed(Eip198(data).gas, BigEndian(Eip198(data).value, Eip198(data).length))

LEMMA ModexpIs ==
  ASSUME NEW data \in Seq(Byte), NEW limit \in Nat, Len(data) >= 3 * WordBytes,
         NEW b \in 0 .. MaxSize, NEW e \in 0 .. MaxSize, NEW m \in 0 .. MaxSize,
         b = FieldOf(data, 0, WordBytes), e = FieldOf(data, WordBytes, WordBytes),
         m = FieldOf(data, 2 * WordBytes, WordBytes), b # 0
  PROVE  Modexp(data, limit) = ByEip(data, limit)
<1> DEFINE bStart == 3 * WordBytes
           eStart == bStart + b
           mStart == eStart + e
           base == FieldOf(data, bStart, b)
           exponent == FieldOf(data, eStart, e)
           modulus == FieldOf(data, mStart, m)
           beyond == Beyond(e)
           head == HeadOf(data, b, e)
           highest == CHOOSE n \in 0 .. WordBits :
                        (n = 0 \/ 2 ^ n <= head) /\ head < 2 ^ (n + 1)
           adjusted == highest + beyond
           longest == IF b < m THEN m ELSE b
           complexity == IF longest <= 64 THEN longest * longest
                         ELSE IF longest <= 1024
                         THEN (longest * longest) \div 4 + 96 * longest - 3072
                         ELSE (longest * longest) \div 16 + 480 * longest - 199680
           gas == (complexity * (IF adjusted > 1 THEN adjusted ELSE 1))
                    \div PrecompilePrice.modexpGquaddivisor
           value == IF modulus = 0 THEN 0 ELSE PowerFrom(1 % modulus, base, modulus, exponent)
           gasUsed == (Max({AdjustedExponentLength(data), 1}) * MultComplexity(Max({b, m})))
                        \div PrecompilePrice.modexpGquaddivisor
           power == ExpMod(base, exponent, modulus)
           outcome == IF b = 0 THEN Executed(gasUsed, <<0>>)
                      ELSE IF m = 0 THEN Executed(gasUsed, <<>>)
                      ELSE IF Max({b, e, m}) > MaxSize THEN OOGResult(limit)
                      ELSE Executed(gasUsed, BigEndian(IF modulus = 0 THEN 0 ELSE power, m))
<1>1. b \in Nat /\ e \in Nat /\ m \in Nat /\ Short(b) /\ Short(e) /\ Short(m)
  <2>1. MaxSize \in Nat
    BY LongNumbersAssumption
  <2> QED BY <2>1 DEF Short
<1>2. bStart \in Nat /\ eStart \in Nat /\ mStart \in Nat
  BY <1>1, Sizes
<1>3. base \in Nat /\ exponent \in Nat /\ modulus \in Nat
  <2> HIDE DEF bStart, eStart, mStart
  <2> QED BY <1>1, <1>2, FieldStep
<1>4. /\ Number(Slice(data, 0, WordBytes)) = b
      /\ Number(Slice(data, WordBytes, 2 * WordBytes)) = e
      /\ Number(Slice(data, 2 * WordBytes, 3 * WordBytes)) = m
  <2>1. PICK w \in Nat : w = WordBytes
    BY Sizes
  <2>2. /\ 0 \in Nat /\ w = 0 + w /\ 2 * w = w + w /\ 3 * w = 2 * w + w
        /\ 2 * w \in Nat /\ 3 * w \in Nat
        /\ w <= Len(data) /\ 2 * w <= Len(data) /\ 3 * w <= Len(data)
    BY <2>1
  <2> QED BY <2>1, <2>2, SliceIsField
<1>5. /\ Number(Padded(data, bStart, b)) = base
      /\ Number(Padded(data, eStart, e)) = exponent
      /\ Number(Padded(data, mStart, m)) = modulus
  <2> HIDE DEF bStart, eStart, mStart
  <2> QED BY <1>1, <1>2, PaddedIsField
<1>6. Modexp(data, limit) = Charged(limit, gasUsed, outcome)
  BY <1>4, <1>5 DEF Modexp
<1>7. /\ Eip198(data).gas = gas
      /\ Eip198(data).length = m
      /\ Eip198(data).value = value
  BY DEF Eip198, PowerFrom, Beyond, HeadOf
<1>8. gasUsed = gas
  <2>1. AdjustedExponentLength(data) = adjusted /\ adjusted \in Nat
    <3>1. head \in Word /\ AdjustedExponentLength(data) = Max({BitLength(head), 0}) + beyond
      BY <1>1, AdjustedIs
    <3> HIDE DEF head, beyond
    <3>2. PICK h \in 0 .. WordBits : h = Max({BitLength(head), 0}) /\ \A n : IsHighest(head, n) <=> n = h
      BY <3>1, HighestIs
    <3>3. highest = h
      <4>1. \A n \in 0 .. WordBits :
              (n = 0 \/ 2 ^ n <= head) /\ head < 2 ^ (n + 1) <=> n = h
        BY <3>2 DEF IsHighest
      <4> QED BY <4>1
    <3> HIDE DEF highest
    <3>4. beyond \in Nat
      <4>1. PICK w \in Nat, k \in Nat : w = WordBytes /\ k = ByteBits
        BY Sizes
      <4>2. ~(e <= w) => e - w \in Nat
        BY <1>1
      <4>3. ~(e <= w) => k * (e - w) \in Nat
        BY <4>2, ProductType
      <4> QED BY <4>1, <4>3 DEF beyond, Beyond
    <3>5. h + beyond \in Nat
      BY ONLY <3>4, h \in 0 .. WordBits, Sizes
    <3> QED BY <3>1, <3>2, <3>3, <3>5
  <2>2. PICK a \in Nat : a = AdjustedExponentLength(data)
    BY <2>1
  <2>3. Max({a, 1}) = IF a > 1 THEN a ELSE 1
    BY MaxOfTwo
  <2>4. MultComplexity(Max({b, m})) = complexity
    <3>1. Max({b, m}) = longest /\ longest \in Nat
      BY <1>1, MaxOfTwo
    <3> HIDE DEF longest
    <3> QED BY <3>1 DEF MultComplexity
  <2> HIDE DEF complexity, adjusted
  <2>5. PICK c \in Nat : c = complexity
    <3>1. Max({b, m}) \in Nat
      BY <1>1, MaxOfTwo
    <3> QED BY <2>4, <3>1, MultComplexityType
  <2>6. PICK l \in Nat : l = Max({a, 1})
    BY <2>3
  <2>7. l * c = c * l
    OBVIOUS
  <2> QED BY <2>1, <2>2, <2>3, <2>4, <2>5, <2>6, <2>7
<1>9. outcome = Executed(gas, BigEndian(value, m))
  <2>1. (IF modulus = 0 THEN 0 ELSE power) = value
    <3> HIDE DEF base, exponent, modulus
    <3> QED BY <1>3, ExpModIs
  <2> HIDE DEF gas, gasUsed, value, modulus, power
  <2>2. CASE m = 0
    <3>1. BigEndian(value, m) = <<>>
      BY <2>2 DEF BigEndian
    <3> QED BY <1>8, <2>2, <3>1
  <2>3. CASE m # 0
    <3>1. ~(Max({b, e, m}) > MaxSize)
      <4>1. {b, e, m} \in SUBSET Int /\ {b, e, m} # {} /\ MaxSize \in Int
            /\ \A x \in {b, e, m} : x <= MaxSize
        BY <1>1, LongNumbersAssumption
      <4>2. Max({b, e, m}) \in {b, e, m}
        BY <4>1, MaxOfSome
      <4> QED BY <1>1, <4>1, <4>2
    <3> QED BY <1>8, <2>1, <2>3, <3>1
  <2> QED BY <2>2, <2>3
<1> HIDE DEF gas, gasUsed, outcome, value
<1> QED BY <1>6, <1>7, <1>8, <1>9 DEF Charged, ByEip

\* A call of modexp with lengths that a buffer can have is answered with what the
\* EIP says of data that goes on with zeros, at the EIP's price (05-modexp.ts).
THEOREM ModexpIsEip198 == ExecutionSpec => []ModexpExact
<1>1. Called => ModexpExact
  <2> SUFFICES ASSUME Called, Answered("modexp"),
                      Len(request.data) >= 3 * WordBytes,
                      FieldOf(request.data, 0 * WordBytes, WordBytes) # 0,
                      \A n \in 0 .. 2 : FieldOf(request.data, n * WordBytes, WordBytes) <= MaxSize
               PROVE  result = ByEip(request.data, request.gasLimit)
    BY DEF ModexpExact, ByEip
  <2>1. /\ request \in Request /\ request.name = "modexp"
        /\ result = Precompile(request.name, request.data, request.gasLimit)
    BY RequestAssumption DEF Called, Answered
  <2>2. request.gasLimit \in Nat /\ request.data \in Seq(Byte)
    BY <2>1, RequestAssumption
  <2>3. result = Modexp(request.data, request.gasLimit)
    BY <2>1 DEF Precompile
  <2>4. PICK data \in Seq(Byte), limit \in Nat : data = request.data /\ limit = request.gasLimit
    BY <2>2
  <2>5. PICK b \in Nat, e \in Nat, m \in Nat :
          /\ b = FieldOf(data, 0, WordBytes) /\ e = FieldOf(data, WordBytes, WordBytes)
          /\ m = FieldOf(data, 2 * WordBytes, WordBytes)
    <3>1. 0 \in Nat /\ WordBytes \in Nat /\ 2 * WordBytes \in Nat
      BY Sizes
    <3> QED BY <3>1, FieldStep
  <2>6. b <= MaxSize /\ e <= MaxSize /\ m <= MaxSize /\ b # 0
    <3>1. 0 * WordBytes = 0 /\ 1 * WordBytes = WordBytes
      BY Sizes
    <3>2. 0 \in 0 .. 2 /\ 1 \in 0 .. 2 /\ 2 \in 0 .. 2
      OBVIOUS
    <3>3. /\ FieldOf(data, 0 * WordBytes, WordBytes) <= MaxSize
          /\ FieldOf(data, 1 * WordBytes, WordBytes) <= MaxSize
          /\ FieldOf(data, 2 * WordBytes, WordBytes) <= MaxSize
      BY <2>4, <3>2
    <3> QED BY <2>4, <2>5, <3>1, <3>3
  <2>7. b \in 0 .. MaxSize /\ e \in 0 .. MaxSize /\ m \in 0 .. MaxSize
    BY <2>5, <2>6, LongNumbersAssumption
  <2>8. Modexp(data, limit) = ByEip(data, limit)
    BY <2>4, <2>5, <2>6, <2>7, ModexpIs
  <2> QED BY <2>3, <2>4, <2>8
<1> QED BY <1>1, Answers, PTL

----------------------------------------------------------------------------
(* Bits of numbers of any width.                                            *)

\* The powers of two up to a width, of which the words have one and their halves
\* another.
Powered(w) ==
  /\ w \in Nat
  /\ \A m, n \in 0 .. w : 2 ^ m >= 1 /\ 2 ^ (m + n) = 2 ^ m * 2 ^ n

LEMMA DivModIs ==
  ASSUME NEW q \in Nat, NEW p \in Nat \ {0}, NEW r \in Nat, r < p
  PROVE  (q * p + r) \div p = q /\ (q * p + r) % p = r
<1>1. (q * p + r) \div p = q
  <2>1. PICK x \in Nat, y \in Nat : x = q * p /\ y = (q + 1) * p /\ y = x + p
    <3>1. (q + 1) * p = q * p + p
      BY ONLY q \in Nat, p \in Nat
    <3> QED BY <3>1, ProductType
  <2>2. PICK z \in Nat : z = x + r /\ x <= z /\ z < y
    BY <2>1
  <2> QED BY <2>1, <2>2, DivIs
<1>2. (q * p + r) % p = r
  BY ONLY q \in Nat, p \in Nat \ {0}, r \in 0 .. p - 1
<1> QED BY <1>1, <1>2

LEMMA DivModOf ==
  ASSUME NEW x \in Nat, NEW p \in Nat \ {0}
  PROVE  x \div p \in Nat /\ x % p \in 0 .. p - 1 /\ x = ((x \div p) * p) + (x % p)
OBVIOUS

LEMMA PoweredFacts ==
  ASSUME NEW w, Powered(w)
  PROVE  /\ 2 ^ 0 = 1
         /\ \A n \in 0 .. w : 2 ^ n \in Nat \ {0}
         /\ \A n \in 0 .. w : n < w => 2 ^ (n + 1) = 2 * 2 ^ n
         /\ \A m, n \in 0 .. w : m <= n => 2 ^ n = 2 ^ (n - m) * 2 ^ m /\ 2 ^ m <= 2 ^ n
<1>0. w \in Nat /\ 2 ^ 0 = 1 /\ 2 ^ 1 = 2
  BY DEF Powered
<1>1. \A n \in 0 .. w : 2 ^ n \in Nat \ {0}
  BY DEF Powered
<1>2. ASSUME NEW n \in 0 .. w, n < w PROVE 2 ^ (n + 1) = 2 * 2 ^ n
  <2>1. 1 \in 0 .. w /\ 1 + n = n + 1
    BY <1>0, <1>2
  <2>2. 2 ^ (1 + n) = 2 ^ 1 * 2 ^ n
    BY <2>1, Zenon DEF Powered
  <2> QED BY <1>0, <2>1, <2>2
<1>3. ASSUME NEW m \in 0 .. w, NEW n \in 0 .. w, m <= n
      PROVE  2 ^ n = 2 ^ (n - m) * 2 ^ m /\ 2 ^ m <= 2 ^ n
  <2>1. n - m \in 0 .. w /\ (n - m) + m = n
    BY <1>0, <1>3
  <2>2. 2 ^ ((n - m) + m) = 2 ^ (n - m) * 2 ^ m
    BY <2>1, Zenon DEF Powered
  <2>3. PICK a \in Nat \ {0}, b \in Nat : a = 2 ^ (n - m) /\ b = 2 ^ m
    BY <1>1, <2>1
  <2>4. 1 * b <= a * b
    BY ProductMonotone
  <2> QED BY <2>1, <2>2, <2>3, <2>4
<1> QED BY <1>0, <1>1, <1>2, <1>3

LEMMA WordPowered == Powered(WordBits)
BY PowersAssumption, Sizes DEF Powered

\* A sum of powers, without the highest and with it.
LEMMA SumNone == PowerSum({}) = 0
<1> DEFINE f == [n \in {} |-> 2 ^ n]
<1>1. f \in [{} -> Nat] /\ IsFiniteSet({})
  BY FS_EmptySet
<1>2. Units({}, f) = {}
  BY DEF Units
<1>3. Total({}, f) = Cardinality(Units({}, f))
  <2> HIDE DEF f
  <2> QED BY <1>1, TotalIsUnits
<1>4. PowerSum({}) = Total({}, f)
  BY PowersSum
<1> QED BY <1>2, <1>3, <1>4, FS_EmptySet

LEMMA SumMore ==
  ASSUME NEW w, Powered(w), NEW S \in SUBSET (0 .. w), NEW k \in 0 .. w, k \notin S
  PROVE  PowerSum(S \cup {k}) = PowerSum(S) + 2 ^ k /\ PowerSum(S) \in Nat
<1> DEFINE T == S \cup {k}
           f == [n \in T |-> 2 ^ n]
           g == [n \in S |-> 2 ^ n]
<1>1. w \in Nat
  BY DEF Powered
<1>2. \A n \in T : 2 ^ n \in Nat
  BY PoweredFacts
<1>3. f \in [T -> Nat] /\ g \in [S -> Nat]
  BY <1>2
<1>4. IsFiniteSet(T) /\ IsFiniteSet(S)
  <2>1. IsFiniteSet(0 .. w)
    <3>1. 0 \in Int /\ w \in Int
      BY <1>1
    <3> QED BY <3>1, FS_Interval
  <2>2. T \in SUBSET (0 .. w)
    OBVIOUS
  <2> HIDE DEF T
  <2> QED BY <2>1, <2>2, FS_Subset
<1>5. T \in SUBSET T /\ S \in SUBSET T /\ S \in SUBSET S /\ k \in T /\ T \ {k} = S
  OBVIOUS
<1>6. f[k] = 2 ^ k
  OBVIOUS
<1>7. Units(S, f) = Units(S, g)
  BY DEF Units
<1>8. PowerSum(T) = Total(T, f) /\ PowerSum(S) = Total(S, g)
  BY PowersSum
<1> HIDE DEF T, f, g
<1>9. Total(T, f) = Cardinality(Units(T, f)) /\ Total(S, g) = Cardinality(Units(S, g))
  BY <1>3, <1>4, TotalIsUnits
<1>10. Cardinality(Units(T, f)) = f[k] + Cardinality(Units(T \ {k}, f))
  BY ONLY <1>3, <1>4, <1>5, UnitsSplit
<1>11. Cardinality(Units(S, g)) \in Nat
  BY ONLY <1>3, <1>4, <1>5, UnitsFinite
<1>12. 2 ^ k \in Nat
  BY PoweredFacts
<1>13. PICK a \in Nat, b \in Nat : a = 2 ^ k /\ b = Cardinality(Units(S, g))
  BY <1>11, <1>12
<1> QED BY <1>5, <1>6, <1>7, <1>8, <1>9, <1>10, <1>13 DEF T

\* A number and a multiple of a power have the same bits below the power.
LEMMA LowBit ==
  ASSUME NEW w, Powered(w), NEW k \in 0 .. w, NEW n \in 0 .. k - 1, NEW x \in Nat, NEW c \in Nat
  PROVE  Bit(x + c * 2 ^ k, n) = Bit(x, n)
<1>1. w \in Nat /\ n \in 0 .. w /\ n <= k - 1 /\ k - 1 \in 0 .. w /\ k - 1 < w
  BY DEF Powered
<1>2. PICK p \in Nat \ {0}, e \in Nat \ {0} :
        p = 2 ^ n /\ e = 2 ^ (k - 1 - n) /\ 2 ^ (k - 1) = e * p
  <2>1. k - 1 - n \in 0 .. w
    BY <1>1
  <2> QED BY <1>1, <2>1, PoweredFacts
<1>3. 2 ^ k = 2 * (e * p)
  <2>1. 2 ^ (k - 1 + 1) = 2 * 2 ^ (k - 1) /\ k - 1 + 1 = k
    BY <1>1, PoweredFacts
  <2> QED BY <1>2, <2>1
<1>4. PICK q \in Nat, r \in Nat : q = x \div p /\ r = x % p /\ r < p /\ x = q * p + r
  <2>1. x \div p \in Nat /\ x % p \in 0 .. p - 1 /\ x = ((x \div p) * p) + (x % p)
    BY DivModOf
  <2> QED BY <2>1
<1>5. PICK d \in Nat : d = c * e
  BY ProductType
<1>6. x + c * (2 * (e * p)) = (q + 2 * d) * p + r
  <2>1. c * (2 * (e * p)) = (2 * (c * e)) * p
    BY ONLY c \in Nat, e \in Nat, p \in Nat
  <2>2. (q + 2 * d) * p = q * p + (2 * d) * p
    BY ONLY q \in Nat, d \in Nat, p \in Nat
  <2>3. PICK y \in Nat, z \in Nat : y = q * p /\ z = (2 * d) * p
    BY ProductType
  <2> QED BY <1>4, <1>5, <2>1, <2>2, <2>3
<1>7. (x + c * 2 ^ k) \div p = q + 2 * d
  <2>1. q + 2 * d \in Nat
    OBVIOUS
  <2>2. ((q + 2 * d) * p + r) \div p = q + 2 * d
    BY <1>4, <2>1, DivModIs
  <2> QED BY <1>3, <1>6, <2>2
<1>8. (q + 2 * d) % 2 = q % 2
  OBVIOUS
<1> QED BY <1>2, <1>4, <1>7, <1>8 DEF Bit

\* A digit of two above a number.
LEMMA HighBit ==
  ASSUME NEW w, Powered(w), NEW k \in 0 .. w, NEW x \in Nat, x < 2 ^ k, NEW c \in {0, 1}
  PROVE  Bit(x + c * 2 ^ k, k) = c
<1>1. PICK p \in Nat \ {0} : p = 2 ^ k
  BY PoweredFacts
<1>2. (c * p + x) \div p = c
  BY <1>1, DivModIs
<1>3. c * p + x = x + c * p
  <2>1. PICK y \in Nat : y = c * p
    BY ProductType
  <2> QED BY <2>1
<1>4. c % 2 = c
  OBVIOUS
<1> QED BY <1>1, <1>2, <1>3, <1>4 DEF Bit

\* A sum of powers has the bits it is a sum of.
SumHasBits(w, S) ==
  /\ PowerSum(S) \in Nat /\ PowerSum(S) < 2 ^ w
  /\ \A n \in 0 .. w - 1 : Bit(PowerSum(S), n) = IF n \in S THEN 1 ELSE 0

LEMMA SumBits ==
  ASSUME NEW w, Powered(w), NEW S \in SUBSET (0 .. w - 1)
  PROVE  SumHasBits(w, S)
<1> DEFINE Good(k) == \A T \in SUBSET (0 .. k - 1) : SumHasBits(k, T)
<1>1. w \in Nat
  BY DEF Powered
<1>2. Good(0)
  <2> SUFFICES ASSUME NEW T \in SUBSET (0 .. 0 - 1) PROVE SumHasBits(0, T)
    OBVIOUS
  <2>1. T = {} /\ 0 .. 0 - 1 = {}
    OBVIOUS
  <2> QED BY <2>1, SumNone, PoweredFacts DEF SumHasBits
<1>3. ASSUME NEW k \in 0 .. w, k < w, Good(k) PROVE Good(k + 1)
  <2> SUFFICES ASSUME NEW T \in SUBSET (0 .. (k + 1) - 1) PROVE SumHasBits(k + 1, T)
    OBVIOUS
  <2> DEFINE R == T \ {k}
             c == IF k \in T THEN 1 ELSE 0
  <2>1. R \in SUBSET (0 .. k - 1)
    BY <1>1
  <2>2. PICK x \in Nat, p \in Nat \ {0} :
          /\ x = PowerSum(R) /\ p = 2 ^ k /\ x < p /\ 2 ^ (k + 1) = 2 * p
          /\ \A n \in 0 .. k - 1 : Bit(x, n) = IF n \in R THEN 1 ELSE 0
    BY <1>3, <2>1, PoweredFacts DEF SumHasBits
  <2>3. PowerSum(T) = x + c * p
    <3>1. CASE k \in T
      <4>1. R \in SUBSET (0 .. w) /\ k \notin R /\ T = R \cup {k}
        BY <1>1, <2>1, <3>1
      <4>2. PowerSum(R \cup {k}) = PowerSum(R) + 2 ^ k
        BY <4>1, SumMore
      <4>3. c = 1
        BY <3>1
      <4> HIDE DEF R, c
      <4>4. T = R \cup {k}
        BY <4>1
      <4>5. PowerSum(T) = x + p
        BY ONLY <2>2, <4>2, <4>4
      <4> QED BY <4>3, <4>5
    <3>2. CASE k \notin T
      <4>1. R = T /\ c = 0
        BY <3>2
      <4> HIDE DEF R, c
      <4>2. PowerSum(T) = x
        BY ONLY <2>2, <4>1
      <4> QED BY <4>1, <4>2
    <3> QED BY <3>1, <3>2
  <2>4. c \in {0, 1}
    OBVIOUS
  <2>5. PowerSum(T) \in Nat /\ PowerSum(T) < 2 ^ (k + 1)
    BY <2>2, <2>3
  <2>6. ASSUME NEW n \in 0 .. (k + 1) - 1
        PROVE  Bit(PowerSum(T), n) = IF n \in T THEN 1 ELSE 0
    <3>1. CASE n = k
      <4>1. Bit(x + c * 2 ^ k, k) = c
        BY <2>2, HighBit
      <4> QED BY <2>2, <2>3, <3>1, <4>1
    <3>2. CASE n # k
      <4>1. n \in 0 .. k - 1 /\ (n \in R <=> n \in T)
        BY <3>2
      <4>2. c \in Nat
        OBVIOUS
      <4>3. Bit(x + c * 2 ^ k, n) = Bit(x, n)
        BY <4>1, <4>2, LowBit
      <4> QED BY <2>2, <2>3, <4>1, <4>3
    <3> QED BY <3>1, <3>2
  <2> QED BY <2>5, <2>6 DEF SumHasBits
<1> HIDE DEF Good
<1>4. \A k \in 0 .. w : Good(k)
  <2> SUFFICES ASSUME NEW i \in 0 .. w, ~Good(i) PROVE FALSE
    OBVIOUS
  <2> DEFINE B == {k \in 0 .. w : ~Good(k)}
  <2>1. PICK k \in B : \A j \in B : k <= j
    <3>1. B \in SUBSET Nat /\ B # {}
      OBVIOUS
    <3> HIDE DEF B
    <3> QED BY <3>1, Least
  <2>2. k \in 0 .. w /\ ~Good(k) /\ k # 0
    BY <1>2
  <2>3. k - 1 \in 0 .. w /\ k - 1 < w /\ (k - 1) + 1 = k /\ ~(k <= k - 1)
    BY <1>1, <2>2
  <2>4. k - 1 \notin B
    <3> HIDE DEF B
    <3> QED BY <2>1, <2>3
  <2>5. Good(k - 1)
    BY <2>3, <2>4
  <2> QED BY <1>3, <2>2, <2>3, <2>5
<1>5. Good(w)
  BY <1>1, <1>4
<1> QED BY <1>5 DEF Good

\* The bits of a number below a width sum up to what the width leaves of it.
LEMMA BitsSum ==
  ASSUME NEW w, Powered(w), NEW y \in Nat
  PROVE  PowerSum({n \in 0 .. w - 1 : Bit(y, n) = 1}) = y % 2 ^ w
<1> DEFINE S(k) == {n \in 0 .. k - 1 : Bit(y, n) = 1}
           Good(k) == PowerSum(S(k)) = y % 2 ^ k
<1>1. w \in Nat
  BY DEF Powered
<1>2. Good(0)
  <2>1. S(0) = {}
    OBVIOUS
  <2>2. 2 ^ 0 = 1 /\ y % 1 = 0
    BY PoweredFacts
  <2> QED BY <2>1, <2>2, SumNone
<1>3. ASSUME NEW k \in 0 .. w, k < w, Good(k) PROVE Good(k + 1)
  <2>1. PICK p \in Nat \ {0} : p = 2 ^ k /\ 2 ^ (k + 1) = 2 * p
    BY <1>3, PoweredFacts
  <2>2. PICK q \in Nat, r \in Nat : q = y \div p /\ r = y % p /\ r < p /\ y = q * p + r
    <3>1. y \div p \in Nat /\ y % p \in 0 .. p - 1 /\ y = ((y \div p) * p) + (y % p)
      BY DivModOf
    <3> QED BY <3>1
  <2>3. PICK d \in Nat, c \in {0, 1} : q = 2 * d + c /\ c = q % 2
    OBVIOUS
  <2>4. Bit(y, k) = c
    BY <2>1, <2>2, <2>3 DEF Bit
  <2>5. y % (2 * p) = c * p + r
    <3>1. PICK z \in Nat, s \in Nat \ {0} : z = c * p + r /\ s = 2 * p /\ z < s
      BY <2>2, <2>3
    <3>2. y = d * s + z
      <4>1. (2 * d + c) * p = d * (2 * p) + c * p
        BY ONLY d \in Nat, c \in Nat, p \in Nat
      <4>2. c \in Nat
        OBVIOUS
      <4>3. PICK u \in Nat, v \in Nat, t \in Nat : u = d * s /\ v = c * p /\ t = q * p
        BY <4>2, ProductType
      <4>4. t = u + v
        BY <2>3, <3>1, <4>1, <4>3
      <4>5. y = t + r /\ z = v + r
        BY <2>2, <3>1, <4>3
      <4>6. y = u + z
        BY ONLY <4>4, <4>5, u \in Nat, v \in Nat, r \in Nat
      <4> QED BY <4>3, <4>6
    <3>3. (d * s + z) % s = z
      BY <3>1, DivModIs
    <3> QED BY <3>1, <3>2, <3>3
  <2>6. PowerSum(S(k + 1)) = r + c * p
    <3>1. PowerSum(S(k)) = r
      BY <1>3, <2>1, <2>2
    <3>2. CASE c = 1
      <4>1. S(k + 1) = S(k) \cup {k} /\ k \notin S(k) /\ S(k) \in SUBSET (0 .. w)
        BY <1>1, <2>4, <3>2
      <4> HIDE DEF S
      <4>2. PowerSum(S(k) \cup {k}) = PowerSum(S(k)) + 2 ^ k
        BY <4>1, SumMore
      <4> QED BY <2>1, <3>1, <3>2, <4>1, <4>2
    <3>3. CASE c = 0
      <4>1. S(k + 1) = S(k)
        BY <1>1, <2>4, <3>3
      <4> HIDE DEF S
      <4> QED BY <2>1, <3>1, <3>3, <4>1
    <3> QED BY <3>2, <3>3
  <2>7. r + c * p = c * p + r
    BY <2>2, <2>3
  <2> QED BY <2>1, <2>5, <2>6, <2>7
<1> HIDE DEF Good
<1>4. \A k \in 0 .. w : Good(k)
  <2> SUFFICES ASSUME NEW i \in 0 .. w, ~Good(i) PROVE FALSE
    OBVIOUS
  <2> DEFINE B == {k \in 0 .. w : ~Good(k)}
  <2>1. PICK k \in B : \A j \in B : k <= j
    <3>1. B \in SUBSET Nat /\ B # {}
      OBVIOUS
    <3> HIDE DEF B
    <3> QED BY <3>1, Least
  <2>2. k \in 0 .. w /\ ~Good(k) /\ k # 0
    BY <1>2
  <2>3. k - 1 \in 0 .. w /\ k - 1 < w /\ (k - 1) + 1 = k /\ ~(k <= k - 1)
    BY <1>1, <2>2
  <2>4. k - 1 \notin B
    <3> HIDE DEF B
    <3> QED BY <2>1, <2>3
  <2>5. Good(k - 1)
    BY <2>3, <2>4
  <2> QED BY <1>3, <2>2, <2>3, <2>5
<1>5. Good(w)
  BY <1>1, <1>4
<1> QED BY <1>5 DEF Good

\* Below a width that has its powers, every width has them.
LEMMA PoweredBelow ==
  ASSUME NEW w, Powered(w), NEW k \in 0 .. w
  PROVE  Powered(k)
<1>1. \A m \in 0 .. k : m \in 0 .. w
  BY DEF Powered
<1>2. k \in Nat
  BY DEF Powered
<1>3. \A m, n \in 0 .. w : 2 ^ m >= 1 /\ 2 ^ (m + n) = 2 ^ m * 2 ^ n
  BY Zenon DEF Powered
<1>4. \A m, n \in 0 .. k : 2 ^ m >= 1 /\ 2 ^ (m + n) = 2 ^ m * 2 ^ n
  BY <1>1, <1>3, Zenon
<1> QED BY <1>2, <1>4, Zenon DEF Powered

\* The sum of the powers of two at which two numbers have different bits.
LEMMA XorIsSum ==
  ASSUME NEW w, Powered(w), NEW x \in Nat, NEW y \in Nat
  PROVE  XorOf(x, y, w) = PowerSum({n \in 0 .. w - 1 : Bit(x, n) # Bit(y, n)})
<1> DEFINE A == 0 .. w - 1
           S == {n \in A : Bit(x, n) # Bit(y, n)}
           pick(s) == CHOOSE n \in s : TRUE
           Term(n) == IF Bit(x, n) = Bit(y, n) THEN 0 ELSE 2 ^ n
           f == [n \in A |-> Term(n)]
           g == [n \in S |-> 2 ^ n]
<1>1. XorOf(x, y, w) =
        (CHOOSE it : it = [s \in SUBSET A |->
           IF s = {} THEN 0 ELSE Term(pick(s)) + it[s \ {pick(s)}]])[A]
  BY DEF XorOf, MapThenSumSet, MapThenFoldSet, Bit
<1>2. Total(A, f) =
        (CHOOSE it : it = [s \in SUBSET A |->
           IF s = {} THEN 0 ELSE f[pick(s)] + it[s \ {pick(s)}]])[A]
  BY DEF Total, Recursion
<1>3. \A s \in SUBSET A : s # {} => f[pick(s)] = Term(pick(s))
  OBVIOUS
<1>4. f \in [A -> Nat] /\ g \in [S -> Nat]
  <2>1. \A n \in A : n \in 0 .. w /\ 2 ^ n \in Nat
    BY PoweredFacts DEF Powered
  <2> QED BY <2>1
<1>5. Units(A, f) = Units(S, g)
  <2>1. ASSUME NEW u PROVE u \in Units(A, f) <=> u \in Units(S, g)
    <3>1. CASE u \in A \X Nat
      <4>1. PICK n \in A, k \in Nat : u = <<n, k>>
        BY <3>1
      <4>2. CASE n \in S
        BY <4>1, <4>2 DEF Units
      <4>3. CASE n \notin S
        <5>1. f[n] = 0
          BY <4>3
        <5>2. ~(k \in 1 .. 0)
          OBVIOUS
        <5> HIDE DEF S, A, f, g
        <5> QED BY <4>1, <4>3, <5>1, <5>2 DEF Units
      <4> QED BY <4>2, <4>3
    <3>2. CASE u \notin A \X Nat
      <4>1. S \subseteq A
        OBVIOUS
      <4> HIDE DEF S, A, f, g
      <4> QED BY <3>2, <4>1 DEF Units
    <3> QED BY <3>1, <3>2
  <2> QED BY <2>1
<1>6. IsFiniteSet(A) /\ IsFiniteSet(S)
  <2>1. IsFiniteSet(A)
    BY FS_Interval DEF Powered
  <2> QED BY <2>1, FS_Subset
<1>7. PowerSum(S) = Total(S, g)
  BY PowersSum
<1> HIDE DEF pick, f, Term
<1>8. ASSUME NEW it
      PROVE  [s \in SUBSET A |-> IF s = {} THEN 0 ELSE Term(pick(s)) + it[s \ {pick(s)}]]
               = [s \in SUBSET A |-> IF s = {} THEN 0 ELSE f[pick(s)] + it[s \ {pick(s)}]]
  BY <1>3
<1>9. (CHOOSE it : it = [s \in SUBSET A |->
         IF s = {} THEN 0 ELSE Term(pick(s)) + it[s \ {pick(s)}]])
        = (CHOOSE it : it = [s \in SUBSET A |->
             IF s = {} THEN 0 ELSE f[pick(s)] + it[s \ {pick(s)}]])
  BY <1>8
<1>10. XorOf(x, y, w) = Total(A, f)
  BY <1>1, <1>2, <1>9
<1> HIDE DEF A, S, g
<1>11. Total(A, f) = Total(S, g)
  BY <1>4, <1>5, <1>6, TotalIsUnits
<1> QED BY <1>7, <1>10, <1>11 DEF S, A

\* The bits of an exclusive or.
LEMMA XorBits ==
  ASSUME NEW w, Powered(w), NEW x \in Nat, NEW y \in Nat
  PROVE  /\ XorOf(x, y, w) \in 0 .. 2 ^ w - 1
         /\ \A n \in 0 .. w - 1 :
              Bit(XorOf(x, y, w), n) = IF Bit(x, n) # Bit(y, n) THEN 1 ELSE 0
<1> DEFINE S == {n \in 0 .. w - 1 : Bit(x, n) # Bit(y, n)}
<1>1. XorOf(x, y, w) = PowerSum(S)
  BY XorIsSum
<1>2. SumHasBits(w, S)
  BY SumBits
<1>3. 2 ^ w \in Nat
  BY PoweredFacts DEF Powered
<1>4. PowerSum(S) \in 0 .. 2 ^ w - 1
  <2> HIDE DEF S
  <2> QED BY <1>2, <1>3 DEF SumHasBits
<1>5. \A n \in 0 .. w - 1 : Bit(PowerSum(S), n) = IF Bit(x, n) # Bit(y, n) THEN 1 ELSE 0
  <2>1. \A n \in 0 .. w - 1 : n \in S <=> Bit(x, n) # Bit(y, n)
    OBVIOUS
  <2> HIDE DEF S
  <2> QED BY <1>2, <2>1 DEF SumHasBits
<1> QED BY <1>1, <1>4, <1>5

\* Numbers are their bits.
LEMMA SameBits ==
  ASSUME NEW w, Powered(w), NEW x \in 0 .. 2 ^ w - 1, NEW y \in 0 .. 2 ^ w - 1,
         \A n \in 0 .. w - 1 : Bit(x, n) = 1 <=> Bit(y, n) = 1
  PROVE  x = y
<1>1. PICK p \in Nat \ {0} : p = 2 ^ w
  BY PoweredFacts DEF Powered
<1>2. x \in Nat /\ y \in Nat /\ x < p /\ y < p
  BY <1>1
<1>3. x % p = x /\ y % p = y
  BY <1>2
<1>4. {n \in 0 .. w - 1 : Bit(x, n) = 1} = {n \in 0 .. w - 1 : Bit(y, n) = 1}
  OBVIOUS
<1>5. /\ PowerSum({n \in 0 .. w - 1 : Bit(x, n) = 1}) = x % 2 ^ w
      /\ PowerSum({n \in 0 .. w - 1 : Bit(y, n) = 1}) = y % 2 ^ w
  BY <1>2, BitsSum
<1> QED BY <1>1, <1>3, <1>4, <1>5

----------------------------------------------------------------------------
(* Words of two halves.                                                     *)

\* A word of two halves, the low one first.
Joined(lo, hi) == lo + hi * 2 ^ HalfBits

LEMMA HalfFacts ==
  /\ HalfBits \in Nat \ {0} /\ 2 * HalfBits \in Nat
  /\ Powered(HalfBits) /\ Powered(2 * HalfBits)
  /\ 2 ^ HalfBits \in Nat \ {0} /\ 2 ^ (2 * HalfBits) = 2 ^ HalfBits * 2 ^ HalfBits
  /\ 2 ^ (2 * HalfBits) \in Nat \ {0}
  /\ Half \subseteq Nat /\ 0 \in Half
<1>1. HalfBits \in Nat \ {0} /\ HalfBits \in 0 .. 2 * HalfBits /\ 2 * HalfBits \in Nat
      /\ 2 * HalfBits = HalfBits + HalfBits /\ 2 * HalfBits \in 0 .. 2 * HalfBits
  BY HalvesAssumption
<1>2. Powered(2 * HalfBits)
  BY <1>1, HalvesAssumption DEF Powered
<1>3. Powered(HalfBits)
  BY <1>1, <1>2, PoweredBelow
<1>4. 2 ^ HalfBits \in Nat \ {0} /\ 2 ^ (2 * HalfBits) \in Nat \ {0}
  BY <1>1, <1>2, PoweredFacts
<1>5. 2 ^ (2 * HalfBits) = 2 ^ HalfBits * 2 ^ HalfBits
  BY <1>1, HalvesAssumption
<1>6. Half \subseteq Nat /\ 0 \in Half
  BY <1>4 DEF Half
<1> QED BY <1>1, <1>2, <1>3, <1>4, <1>5, <1>6

LEMMA QuarterFacts ==
  /\ 4 * Quarter = HalfBits
  /\ 2 * Quarter \in 1 .. HalfBits - 1 /\ 3 * Quarter \in 1 .. HalfBits - 1
BY HalvesAssumption DEF Quarter

\* The halves of a word.
LEMMA PairIs ==
  ASSUME NEW lo \in Half, NEW hi \in Half
  PROVE  /\ Joined(lo, hi) \in 0 .. 2 ^ (2 * HalfBits) - 1 /\ Joined(lo, hi) \in Nat
         /\ Joined(lo, hi) \div 2 ^ HalfBits = hi /\ Joined(lo, hi) % 2 ^ HalfBits = lo
<1>1. PICK p \in Nat \ {0} : p = 2 ^ HalfBits /\ 2 ^ (2 * HalfBits) = p * p
  BY HalfFacts
<1>2. lo \in Nat /\ hi \in Nat /\ lo < p /\ hi <= p - 1
  BY <1>1 DEF Half
<1>3. PICK h \in Nat : h = hi * p
  BY <1>2, ProductType
<1>4. h <= (p - 1) * p
  BY <1>1, <1>2, <1>3, ProductMonotone
<1>5. (p - 1) * p = p * p - p /\ p * p \in Nat
  BY <1>1
<1>6. Joined(lo, hi) = h + lo /\ Joined(lo, hi) \in Nat
  BY <1>1, <1>2, <1>3 DEF Joined
<1>7. Joined(lo, hi) < p * p
  BY <1>2, <1>3, <1>4, <1>5, <1>6
<1>8. (h + lo) \div p = hi /\ (h + lo) % p = lo
  BY <1>1, <1>2, <1>3, DivModIs
<1> QED BY <1>1, <1>5, <1>6, <1>7, <1>8

LEMMA PairBits ==
  ASSUME NEW lo \in Half, NEW hi \in Half, NEW n \in 0 .. HalfBits - 1
  PROVE  Bit(Joined(lo, hi), n) = Bit(lo, n) /\ Bit(Joined(lo, hi), HalfBits + n) = Bit(hi, n)
<1>1. /\ HalfBits \in Nat /\ n \in 0 .. 2 * HalfBits /\ HalfBits \in 0 .. 2 * HalfBits
      /\ lo \in Nat /\ hi \in Nat /\ HalfBits \in 0 .. HalfBits
  BY HalfFacts
<1>2. Bit(Joined(lo, hi), n) = Bit(lo, n)
  BY <1>1, HalfFacts, LowBit DEF Joined
<1>3. PICK p \in Nat \ {0}, q \in Nat \ {0} :
        p = 2 ^ HalfBits /\ q = 2 ^ n /\ 2 ^ (HalfBits + n) = p * q
  BY <1>1, HalfFacts, PoweredFacts, HalvesAssumption
<1>4. PICK z \in Nat : z = Joined(lo, hi) /\ z \div p = hi
  BY <1>3, PairIs
<1>5. z \div (p * q) = (z \div p) \div q
  <2>1. PICK a \in Nat, r \in Nat : a = z \div p /\ r < p /\ z = (a * p) + r
    <3>1. z \div p \in Nat /\ z % p \in 0 .. p - 1 /\ z = ((z \div p) * p) + (z % p)
      BY <1>3, <1>4, DivModOf
    <3>2. z % p \in Nat /\ z % p < p
      BY <1>3, <3>1
    <3> QED BY <3>1, <3>2
  <2>2. PICK b \in Nat, s \in Nat : b = a \div q /\ s <= q - 1 /\ a = (b * q) + s
    <3>1. a \div q \in Nat /\ a % q \in 0 .. q - 1 /\ a = ((a \div q) * q) + (a % q)
      BY <1>3, <2>1, DivModOf
    <3>2. a % q \in Nat /\ a % q <= q - 1
      BY <1>3, <3>1
    <3> QED BY <3>1, <3>2
  <2>3. PICK t \in Nat : t = s * p
    BY <2>2, ProductType
  <2>4. t <= (q - 1) * p
    BY <1>3, <2>2, <2>3, ProductMonotone
  <2>5. PICK u \in Nat \ {0} : u = p * q /\ (q - 1) * p = u - p
    <3>1. p * q \in Nat /\ p * q # 0
      BY <1>3, ProductType
    <3> QED BY <1>3, <3>1
  <2>6. t + r < u /\ t + r \in Nat
    BY <1>3, <2>1, <2>3, <2>4, <2>5
  <2>7. a * p = (b * u) + t
    <3>1. a * p = ((b * q) * p) + (s * p)
      BY <1>3, <2>2
    <3>2. (b * q) * p = b * (p * q)
      BY <1>3, <2>2
    <3> QED BY <2>3, <2>5, <3>1, <3>2
  <2>8. z = (b * u) + (t + r)
    <3>1. b * u \in Nat
      BY <2>2, <2>5, ProductType
    <3> QED BY <2>1, <2>3, <2>7, <3>1
  <2>9. z \div u = b
    BY <2>2, <2>5, <2>6, <2>8, DivModIs
  <2> QED BY <2>1, <2>2, <2>5, <2>9
<1>6. (z \div (p * q)) = hi \div q
  BY <1>4, <1>5
<1> QED BY <1>2, <1>3, <1>4, <1>6 DEF Bit

\* Exclusive or, by halves.
LEMMA XorIs ==
  ASSUME NEW x \in Half, NEW y \in Half
  PROVE  Xor(x, y) = XorOf(x, y, HalfBits) /\ Xor(x, y) \in Half
<1>1. Xor(x, y) = XorOf(x, y, HalfBits)
  BY DEF Xor, XorTable
<1>2. XorOf(x, y, HalfBits) \in Half
  BY HalfFacts, XorBits DEF Half
<1> QED BY <1>1, <1>2

\* The bits of an exclusive or of halves.
LEMMA XorBit ==
  ASSUME NEW x \in Half, NEW y \in Half, NEW n \in 0 .. HalfBits - 1
  PROVE  Bit(Xor(x, y), n) = IF Bit(x, n) # Bit(y, n) THEN 1 ELSE 0
<1>1. PICK w : w = HalfBits /\ Powered(w)
  BY HalfFacts
<1>2. x \in Nat /\ y \in Nat /\ n \in 0 .. w - 1
  BY <1>1, HalfFacts
<1>3. Bit(XorOf(x, y, w), n) = IF Bit(x, n) # Bit(y, n) THEN 1 ELSE 0
  BY <1>1, <1>2, XorBits
<1> QED BY <1>1, <1>3, XorIs

XorsByHalves(x0, x1, y0, y1) ==
  WXor(Joined(x0, x1), Joined(y0, y1)) = Joined(Xor(x0, y0), Xor(x1, y1))

LEMMA PairXor ==
  ASSUME NEW x0 \in Half, NEW x1 \in Half, NEW y0 \in Half, NEW y1 \in Half
  PROVE  XorsByHalves(x0, x1, y0, y1)
<1> DEFINE w == 2 * HalfBits
           a == WXor(Joined(x0, x1), Joined(y0, y1))
           b == Joined(Xor(x0, y0), Xor(x1, y1))
<1>1. Xor(x0, y0) \in Half /\ Xor(x1, y1) \in Half
  BY XorIs
<1>2. Joined(x0, x1) \in Nat /\ Joined(y0, y1) \in Nat
  BY PairIs
<1>3. /\ a \in 0 .. 2 ^ w - 1
      /\ \A n \in 0 .. w - 1 :
           Bit(a, n) = IF Bit(Joined(x0, x1), n) # Bit(Joined(y0, y1), n) THEN 1 ELSE 0
  BY <1>2, HalfFacts, XorBits DEF WXor, WordBits2
<1>4. b \in 0 .. 2 ^ w - 1
  BY <1>1, PairIs
<1> HIDE DEF a, b
<1>5. ASSUME NEW n \in 0 .. w - 1 PROVE Bit(a, n) = 1 <=> Bit(b, n) = 1
  <2>1. CASE n \in 0 .. HalfBits - 1
    <3>1. /\ Bit(Joined(x0, x1), n) = Bit(x0, n) /\ Bit(Joined(y0, y1), n) = Bit(y0, n)
          /\ Bit(b, n) = Bit(Xor(x0, y0), n)
      BY <1>1, <2>1, PairBits DEF b
    <3>2. Bit(Xor(x0, y0), n) = IF Bit(x0, n) # Bit(y0, n) THEN 1 ELSE 0
      BY <2>1, XorBit
    <3> QED BY <1>3, <3>1, <3>2
  <2>2. CASE n \notin 0 .. HalfBits - 1
    <3>1. PICK k \in 0 .. HalfBits - 1 : n = HalfBits + k
      <4>1. n - HalfBits \in 0 .. HalfBits - 1 /\ n = HalfBits + (n - HalfBits)
        BY <2>2, HalfFacts
      <4> QED BY <4>1
    <3>2. /\ Bit(Joined(x0, x1), n) = Bit(x1, k) /\ Bit(Joined(y0, y1), n) = Bit(y1, k)
          /\ Bit(b, n) = Bit(Xor(x1, y1), k)
      BY <1>1, <3>1, PairBits DEF b
    <3>3. Bit(Xor(x1, y1), k) = IF Bit(x1, k) # Bit(y1, k) THEN 1 ELSE 0
      BY <3>1, XorBit
    <3> QED BY <1>3, <3>2, <3>3
  <2> QED BY <2>1, <2>2
<1>6. a = b
  <2>1. Powered(w)
    BY HalfFacts
  <2> HIDE DEF w
  <2> QED BY <1>3, <1>4, <1>5, <2>1, SameBits
<1> QED BY <1>6 DEF a, b, XorsByHalves

\* A sum with carry is the sum of the words.
LEMMA PairPlus ==
  ASSUME NEW x0 \in Half, NEW x1 \in Half, NEW y0 \in Half, NEW y1 \in Half
  PROVE  /\ (x0 + y0) % 2 ^ HalfBits \in Half
         /\ (x1 + y1 + Carry(x0 + y0)) % 2 ^ HalfBits \in Half
         /\ Plus(Joined(x0, x1), Joined(y0, y1))
              = Joined((x0 + y0) % 2 ^ HalfBits, (x1 + y1 + Carry(x0 + y0)) % 2 ^ HalfBits)
<1>1. PICK p \in Nat \ {0} : p = 2 ^ HalfBits /\ 2 ^ (2 * HalfBits) = p * p
  BY HalfFacts
<1>2. x0 \in Nat /\ x1 \in Nat /\ y0 \in Nat /\ y1 \in Nat
  BY HalfFacts
<1>3. PICK s \in Nat, c \in Nat, r \in 0 .. p - 1 :
        s = x0 + y0 /\ c = s \div p /\ r = s % p /\ s = c * p + r
  <2>1. PICK s \in Nat : s = x0 + y0
    BY <1>2
  <2>2. s \div p \in Nat /\ s % p \in 0 .. p - 1 /\ s = ((s \div p) * p) + (s % p)
    BY <2>1, DivModOf
  <2> QED BY <2>1, <2>2
<1>4. PICK u \in Nat, d \in Nat, q \in 0 .. p - 1 :
        u = x1 + y1 + c /\ d = u \div p /\ q = u % p /\ u = d * p + q
  <2>1. PICK u \in Nat : u = x1 + y1 + c
    BY <1>2, <1>3
  <2>2. u \div p \in Nat /\ u % p \in 0 .. p - 1 /\ u = ((u \div p) * p) + (u % p)
    BY <2>1, DivModOf
  <2> QED BY <2>1, <2>2
<1>5. c = Carry(x0 + y0)
  BY <1>1, <1>3 DEF Carry
<1>6. r \in Half /\ q \in Half
  BY <1>1, <1>3, <1>4 DEF Half
<1>7. PICK z \in Nat : z = Joined(r, q) /\ z \in 0 .. p * p - 1
  BY <1>1, <1>6, PairIs
<1>8. Joined(x0, x1) + Joined(y0, y1) = d * (p * p) + z
  <2>1. Joined(x0, x1) + Joined(y0, y1) = s + (x1 + y1) * p
    BY <1>1, <1>2, <1>3 DEF Joined
  <2>2. s + (x1 + y1) * p = r + u * p
    <3>1. u * p = (x1 + y1) * p + c * p
      BY <1>1, <1>2, <1>3, <1>4
    <3>2. PICK e \in Nat, f \in Nat, g \in Nat : e = u * p /\ f = (x1 + y1) * p /\ g = c * p
      <4>1. p \in Nat /\ u \in Nat /\ c \in Nat /\ x1 + y1 \in Nat
        BY <1>2
      <4>2. u * p \in Nat /\ (x1 + y1) * p \in Nat /\ c * p \in Nat
        BY <4>1, ProductType
      <4> QED BY <4>2
    <3>3. e = f + g /\ s = g + r
      BY <1>3, <3>1, <3>2
    <3>4. s + f = r + e
      BY <3>3, <3>2
    <3> QED BY <3>2, <3>4
  <2>3. u * p = d * (p * p) + q * p
    <3>1. u * p = (d * p) * p + q * p
      BY <1>1, <1>4
    <3>2. (d * p) * p = d * (p * p)
      BY <1>1, <1>4
    <3> QED BY <3>1, <3>2
  <2>4. z = r + q * p
    BY <1>1, <1>7 DEF Joined
  <2>5. PICK e \in Nat, f \in Nat : e = q * p /\ f = d * (p * p)
    <3>1. q \in Nat /\ d \in Nat /\ p * p \in Nat
      BY <1>4, ProductType
    <3>2. q * p \in Nat /\ d * (p * p) \in Nat
      BY <3>1, ProductType
    <3> QED BY <3>2
  <2>6. Joined(x0, x1) + Joined(y0, y1) = r + (f + e)
    BY <2>1, <2>2, <2>3, <2>5
  <2>7. z = r + e /\ r \in Nat
    BY <1>3, <2>4, <2>5
  <2>8. r + (f + e) = f + z
    BY <2>5, <2>7
  <2> QED BY <2>5, <2>6, <2>8
<1>9. (d * (p * p) + z) % (p * p) = z
  <2>1. p * p \in Nat \ {0}
    BY <1>1, HalfFacts
  <2>2. PICK w \in Nat \ {0} : w = p * p
    BY <2>1
  <2>3. z < w /\ d \in Nat
    BY <1>4, <1>7, <2>2
  <2>4. (d * w + z) % w = z
    BY <2>2, <2>3, DivModIs
  <2> QED BY <2>2, <2>4
<1>10. Plus(Joined(x0, x1), Joined(y0, y1)) = z
  BY <1>1, <1>8, <1>9 DEF Plus, WordBits2
<1> QED BY <1>1, <1>3, <1>4, <1>5, <1>6, <1>7, <1>10

\* A number and a multiple of a power above it have no bits in common.
LEMMA XorApart ==
  ASSUME NEW k \in 0 .. HalfBits, NEW x \in Nat, x < 2 ^ k, NEW c \in Nat, c * 2 ^ k \in Half
  PROVE  x + c * 2 ^ k \in Half /\ x \in Half /\ Xor(x, c * 2 ^ k) = x + c * 2 ^ k
<1>1. PICK w : w = HalfBits /\ Powered(w) /\ w \in Nat
  BY HalfFacts
<1>2. PICK p \in Nat \ {0}, q \in Nat \ {0}, o \in Nat \ {0} :
        p = 2 ^ w /\ q = 2 ^ k /\ o = 2 ^ (w - k) /\ p = o * q
  <2>1. k \in 0 .. w /\ w \in 0 .. w /\ w - k \in 0 .. w /\ k <= w
    BY <1>1
  <2> QED BY <1>1, <2>1, PoweredFacts
<1>3. PICK y \in Nat : y = c * q /\ y < p
  BY <1>1, <1>2, HalfFacts DEF Half
<1>4. x < q
  BY <1>2
<1>5. c < o
  <2>1. ASSUME c >= o PROVE FALSE
    <3>1. o * q <= c * q
      BY <1>2, <2>1, ProductMonotone
    <3> QED BY <1>2, <1>3, <3>1
  <2> QED BY <1>2, <2>1
<1>6. x + y < p /\ x + y \in Nat
  <2>1. (c + 1) * q <= o * q
    BY <1>2, <1>5, ProductMonotone
  <2>2. (c + 1) * q = y + q
    BY <1>2, <1>3
  <2> QED BY <1>2, <1>3, <1>4, <2>1, <2>2
<1>7. x \in Half /\ y \in Half /\ x + y \in Half
  <2>1. x < p
    BY <1>3, <1>6
  <2> QED BY <1>1, <1>2, <1>3, <1>6, <2>1 DEF Half
<1>8. ASSUME NEW n \in 0 .. w - 1
      PROVE  Bit(x + y, n) = IF Bit(x, n) # Bit(y, n) THEN 1 ELSE 0
  <2>1. CASE n < k
    <3>1. n \in 0 .. k - 1 /\ k \in 0 .. w
      BY <1>1, <2>1
    <3>2. Bit(x + c * 2 ^ k, n) = Bit(x, n)
      BY <1>1, <3>1, LowBit
    <3>3. Bit(0 + c * 2 ^ k, n) = Bit(0, n)
      BY <1>1, <3>1, LowBit
    <3>4. 0 + c * 2 ^ k = y /\ x + c * 2 ^ k = x + y
      BY <1>2, <1>3
    <3>5. Bit(0, n) = 0
      <4>1. PICK t \in Nat \ {0} : t = 2 ^ n
        BY <1>1, PoweredFacts
      <4>2. 0 \div t = 0
        <5>1. 0 * t + 0 = 0 /\ 0 < t
          OBVIOUS
        <5> QED BY <5>1, DivModIs
      <4> QED BY <4>1, <4>2 DEF Bit
    <3>6. Bit(x, n) \in {0, 1}
      <4>1. x \div 2 ^ n \in Nat
        <5>1. PICK t \in Nat \ {0} : t = 2 ^ n
          BY <1>1, PoweredFacts
        <5> QED BY <5>1, DivType
      <4> QED BY <4>1 DEF Bit
    <3> QED BY <3>2, <3>3, <3>4, <3>5, <3>6
  <2>2. CASE ~(n < k)
    <3>1. PICK t \in Nat \ {0}, r \in Nat \ {0} : t = 2 ^ n /\ r = 2 ^ (n - k) /\ t = r * q
      <4>1. n \in 0 .. w /\ k \in 0 .. w /\ n - k \in 0 .. w /\ k <= n
        BY <1>1, <2>2
      <4> QED BY <1>1, <1>2, <4>1, PoweredFacts
    <3>2. \A m \in Nat : m < q => (m + y) \div t = c \div r
      <4> SUFFICES ASSUME NEW m \in Nat, m < q PROVE (m + y) \div t = c \div r
        OBVIOUS
      <4>1. PICK a \in Nat, b \in 0 .. r - 1 : a = c \div r /\ c = a * r + b
        <5>1. c \div r \in Nat /\ c % r \in 0 .. r - 1 /\ c = ((c \div r) * r) + (c % r)
          BY <3>1, DivModOf
        <5> QED BY <5>1
      <4>2. y = a * t + b * q
        <5>1. c * q = (a * r) * q + b * q
          BY <1>2, <3>1, <4>1
        <5>2. (a * r) * q = a * (r * q)
          BY <1>2, <3>1, <4>1
        <5> QED BY <1>3, <3>1, <5>1, <5>2
      <4>3. PICK e \in Nat : e = b * q /\ e <= t - q
        <5>1. b <= r - 1 /\ b \in Nat /\ r - 1 \in Nat
          BY <3>1, <4>1
        <5>2. b * q <= (r - 1) * q
          BY <1>2, <5>1, ProductMonotone
        <5>3. (r - 1) * q = t - q
          BY <1>2, <3>1
        <5> QED BY <1>2, <5>1, <5>2, <5>3, ProductType
      <4>4. m + e \in Nat /\ m + e < t
        BY <1>2, <3>1, <4>3
      <4>5. m + y = a * t + (m + e)
        <5>1. a * t \in Nat
          BY <3>1, <4>1, ProductType
        <5> QED BY <4>2, <4>3, <5>1
      <4>6. (a * t + (m + e)) \div t = a
        <5>1. PICK f \in Nat : f = m + e /\ f < t
          BY <4>4
        <5>2. (a * t + f) \div t = a
          BY <3>1, <4>1, <5>1, DivModIs
        <5> QED BY <5>1, <5>2
      <4> QED BY <4>1, <4>5, <4>6
    <3>3. (x + y) \div t = c \div r /\ y \div t = c \div r
      <4>1. 0 + y = y /\ 0 < q
        BY <1>2, <1>3
      <4>2. (0 + y) \div t = c \div r
        BY <3>2, <4>1
      <4> QED BY <1>4, <3>2, <4>1, <4>2
    <3>4. x \div t = 0
      <4>1. 0 * t + x = x /\ x < t
        <5>1. q <= t
          <6>1. 1 * q <= r * q
            BY <1>2, <3>1, ProductMonotone
          <6> QED BY <1>2, <3>1, <6>1
        <5> QED BY <1>2, <1>4, <3>1, <5>1
      <4> QED BY <3>1, <4>1, DivModIs
    <3>5. c \div r \in Nat
      BY <3>1, DivType
    <3>6. (c \div r) % 2 \in {0, 1}
      BY <3>5
    <3> QED BY <3>1, <3>3, <3>4, <3>6 DEF Bit
  <2> QED BY <1>1, <1>4, <2>1, <2>2
<1>9. Xor(x, y) = x + y
  <2>1. Xor(x, y) \in 0 .. 2 ^ w - 1 /\ x + y \in 0 .. 2 ^ w - 1
    BY <1>1, <1>7, XorIs DEF Half
  <2>2. \A n \in 0 .. w - 1 : Bit(Xor(x, y), n) = 1 <=> Bit(x + y, n) = 1
    BY <1>1, <1>7, <1>8, XorBit
  <2> QED BY <1>1, <2>1, <2>2, SameBits
<1> QED BY <1>2, <1>3, <1>7, <1>9

\* The powers at a place within a half.
LEMMA PowersAt ==
  ASSUME NEW n \in 1 .. HalfBits - 1
  PROVE  /\ HalfBits - n \in 1 .. HalfBits - 1
         /\ \E a \in Nat \ {0}, b \in Nat \ {0} :
              /\ a = 2 ^ n /\ b = 2 ^ (HalfBits - n) /\ 2 ^ HalfBits = a * b
              /\ 2 ^ (2 * HalfBits - n) = b * 2 ^ HalfBits
<1>1. PICK h \in Nat : h = HalfBits
  BY HalfFacts
<1>2. h - n \in 1 .. h - 1 /\ n \in Nat /\ h - n \in Nat
  BY <1>1
<1>3. /\ n \in 0 .. 2 * h /\ h - n \in 0 .. 2 * h /\ h \in 0 .. 2 * h
      /\ n + (h - n) = h /\ (h - n) + h = 2 * h - n
  BY <1>1, <1>2
<1>4. 2 ^ h = 2 ^ n * 2 ^ (h - n) /\ 2 ^ (2 * h - n) = 2 ^ (h - n) * 2 ^ h
  <2>1. /\ 2 ^ (n + (h - n)) = 2 ^ n * 2 ^ (h - n)
        /\ 2 ^ ((h - n) + h) = 2 ^ (h - n) * 2 ^ h
    BY <1>1, <1>3, HalvesAssumption
  <2> QED BY <1>3, <2>1
<1>5. 2 ^ n \in Nat \ {0} /\ 2 ^ (h - n) \in Nat \ {0}
  BY <1>1, <1>3, HalfFacts, PoweredFacts
<1> QED BY <1>1, <1>2, <1>4, <1>5

\* What a half becomes that is shifted to the right and filled from another.
Filled(x, y, n) == x \div 2 ^ n + (y % 2 ^ n) * 2 ^ (HalfBits - n)

LEMMA FilledIs ==
  ASSUME NEW n \in 1 .. HalfBits - 1, NEW x \in Half, NEW y \in Half
  PROVE  /\ Filled(x, y, n) \in Half
         /\ Xor(x \div 2 ^ n, Shifted(y, HalfBits - n)) = Filled(x, y, n)
<1>1. PICK a \in Nat \ {0}, b \in Nat \ {0} :
        a = 2 ^ n /\ b = 2 ^ (HalfBits - n) /\ 2 ^ HalfBits = a * b
  BY PowersAt
<1>2. x \in Nat /\ y \in Nat /\ x < a * b /\ y < a * b /\ a * b \in Nat \ {0}
  BY <1>1, HalfFacts DEF Half
<1>3. PICK q \in Nat, r \in 0 .. a - 1 : q = y \div a /\ r = y % a /\ y = q * a + r
  <2>1. y \div a \in Nat /\ y % a \in 0 .. a - 1 /\ y = ((y \div a) * a) + (y % a)
    BY <1>2, DivModOf
  <2> QED BY <2>1
<1>4. PICK s \in Nat : s = r * b /\ s < a * b
  <2>1. r \in Nat /\ b \in Nat /\ a - 1 \in Nat /\ r <= a - 1
    BY <1>3
  <2>2. r * b <= (a - 1) * b /\ r * b \in Nat
    BY <2>1, ProductMonotone, ProductType
  <2>3. (a - 1) * b = a * b - b
    BY <1>1
  <2> QED BY <1>1, <1>2, <2>2, <2>3
<1>5. Shifted(y, HalfBits - n) = s
  <2>1. y * b = q * (a * b) + s
    <3>1. y * b = (q * a) * b + r * b
      BY <1>1, <1>3
    <3>2. (q * a) * b = q * (a * b)
      BY <1>1, <1>3
    <3> QED BY <1>4, <3>1, <3>2
  <2>2. PICK p \in Nat \ {0} : p = a * b
    BY <1>2
  <2>3. (q * p + s) % p = s
    BY <1>3, <1>4, <2>2, DivModIs
  <2> QED BY <1>1, <2>1, <2>2, <2>3 DEF Shifted
<1>6. PICK z \in Nat : z = x \div a /\ z < b
  <2>1. PICK z \in Nat, t \in Nat : z = x \div a /\ x = z * a + t
    <3>1. x \div a \in Nat /\ x % a \in 0 .. a - 1 /\ x = ((x \div a) * a) + (x % a)
      BY <1>2, DivModOf
    <3>2. x % a \in Nat
      BY <3>1
    <3> QED BY <3>1, <3>2
  <2>2. ASSUME z >= b PROVE FALSE
    <3>1. b * a <= z * a /\ z * a \in Nat
      BY <1>1, <2>1, <2>2, ProductMonotone, ProductType
    <3>2. b * a = a * b
      BY <1>1
    <3> QED BY <1>2, <2>1, <3>1, <3>2
  <2> QED BY <1>1, <2>1, <2>2
<1>7. s \in Half
  BY <1>1, <1>2, <1>4 DEF Half
<1>8. z + s \in Half /\ Xor(z, s) = z + s
  <2>1. PICK k \in 0 .. HalfBits : k = HalfBits - n
    <3>1. HalfBits - n \in 0 .. HalfBits
      BY HalfFacts
    <3> QED BY <3>1
  <2>2. z < 2 ^ k /\ r \in Nat /\ r * 2 ^ k \in Half /\ s = r * 2 ^ k
    BY <1>1, <1>3, <1>4, <1>6, <1>7, <2>1
  <2> QED BY <2>2, XorApart
<1> QED BY <1>1, <1>3, <1>4, <1>5, <1>6, <1>8 DEF Filled

\* A rotation of a word moves bits from each half to the other.
LEMMA PairRotated ==
  ASSUME NEW n \in 1 .. HalfBits - 1, NEW x0 \in Half, NEW x1 \in Half
  PROVE  Rotated(Joined(x0, x1), n) = Joined(Filled(x0, x1, n), Filled(x1, x0, n))
<1>1. PICK a \in Nat \ {0}, b \in Nat \ {0}, p \in Nat \ {0} :
        /\ a = 2 ^ n /\ b = 2 ^ (HalfBits - n) /\ p = 2 ^ HalfBits /\ p = a * b
        /\ 2 ^ (2 * HalfBits - n) = b * p
  BY HalfFacts, PowersAt
<1>2. x0 \in Nat /\ x1 \in Nat
  BY HalfFacts
<1>3. ASSUME NEW x \in Nat
      PROVE  \E q \in Nat, r \in Nat :
               q = x \div a /\ r = x % a /\ r < a /\ x = q * a + r
  <2>1. x \div a \in Nat /\ x % a \in 0 .. a - 1 /\ x = ((x \div a) * a) + (x % a)
    BY DivModOf
  <2>2. x % a \in Nat /\ x % a < a
    BY <2>1
  <2> QED BY <2>1, <2>2
<1>4. PICK q0 \in Nat, r0 \in Nat : q0 = x0 \div a /\ r0 = x0 % a /\ r0 < a /\ x0 = q0 * a + r0
  BY <1>2, <1>3
<1>5. PICK q1 \in Nat, r1 \in Nat : q1 = x1 \div a /\ r1 = x1 % a /\ r1 < a /\ x1 = q1 * a + r1
  BY <1>2, <1>3
<1>6. PICK u \in Nat, v \in Nat : u = x1 * b /\ v = q0 + u
  <2>1. x1 * b \in Nat
    BY <1>2, ProductType
  <2> QED BY <2>1
<1>7. Joined(x0, x1) = v * a + r0
  <2>1. x1 * p = u * a
    BY <1>1, <1>2, <1>6
  <2>2. v * a = q0 * a + u * a
    BY <1>1, <1>6
  <2>3. q0 * a \in Nat /\ u * a \in Nat
    BY <1>4, <1>6, ProductType
  <2> QED BY <1>1, <1>4, <2>1, <2>2, <2>3 DEF Joined
<1>8. Joined(x0, x1) \div a = v /\ Joined(x0, x1) % a = r0
  <2>1. (v * a + r0) \div a = v /\ (v * a + r0) % a = r0
    BY <1>4, <1>6, DivModIs
  <2> QED BY <1>7, <2>1
<1>9. Rotated(Joined(x0, x1), n) = v + r0 * (b * p)
  BY <1>1, <1>8 DEF Rotated, WordBits2
<1>10. u = q1 * p + r1 * b
  <2>1. u = (q1 * a) * b + r1 * b
    BY <1>1, <1>5, <1>6
  <2>2. (q1 * a) * b = q1 * (a * b)
    BY <1>1, <1>5
  <2> QED BY <1>1, <2>1, <2>2
<1>11. Filled(x0, x1, n) = q0 + r1 * b /\ Filled(x1, x0, n) = q1 + r0 * b
  BY <1>1, <1>4, <1>5 DEF Filled
<1>12. (q1 + r0 * b) * p = q1 * p + r0 * (b * p)
  <2>1. PICK e \in Nat : e = r0 * b
    BY <1>4, ProductType
  <2>2. (q1 + e) * p = q1 * p + e * p
    BY ONLY <2>1, q1 \in Nat, e \in Nat, p \in Nat
  <2>3. e * p = r0 * (b * p)
    <3>1. (r0 * b) * p = r0 * (b * p)
      BY ONLY r0 \in Nat, b \in Nat, p \in Nat
    <3> QED BY <2>1, <3>1
  <2> QED BY <2>1, <2>2, <2>3
<1>13. PICK e \in Nat, f \in Nat, g \in Nat : e = q1 * p /\ f = r1 * b /\ g = r0 * (b * p)
  <2>1. b * p \in Nat
    BY ProductType
  <2>2. q1 * p \in Nat /\ r1 * b \in Nat /\ r0 * (b * p) \in Nat
    BY <1>4, <1>5, <2>1, ProductType
  <2> QED BY <2>2
<1>14. Rotated(Joined(x0, x1), n) = (q0 + f) + (e + g)
  BY <1>4, <1>6, <1>9, <1>10, <1>13
<1> QED BY <1>1, <1>11, <1>12, <1>13, <1>14 DEF Joined

\* A rotation by a half swaps the halves.
LEMMA PairSwapped ==
  ASSUME NEW x0 \in Half, NEW x1 \in Half
  PROVE  Rotated(Joined(x0, x1), HalfBits) = Joined(x1, x0)
<1>1. WordBits2 - HalfBits = HalfBits
  BY HalfFacts DEF WordBits2
<1>2. Rotated(Joined(x0, x1), HalfBits) = x1 + x0 * 2 ^ HalfBits
  BY <1>1, PairIs DEF Rotated
<1> QED BY <1>2 DEF Joined

\* A rotation to the right by all bits but one is one to the left by one.
LEMMA PairTurned ==
  ASSUME NEW x0 \in Half, NEW x1 \in Half
  PROVE  Rotated(Joined(x0, x1), WordBits2 - 1)
           = Joined(Filled(x1, x0, HalfBits - 1), Filled(x0, x1, HalfBits - 1))
<1>1. PICK n \in 1 .. HalfBits - 1 :
        n = HalfBits - 1 /\ HalfBits - n = 1 /\ WordBits2 - 1 = HalfBits + n
        /\ WordBits2 - (WordBits2 - 1) = 1
  BY HalvesAssumption, QuarterFacts DEF WordBits2
<1>2. PICK a \in Nat \ {0}, p \in Nat \ {0} :
        a = 2 ^ n /\ 2 ^ 1 = 2 /\ p = 2 ^ HalfBits /\ p = a * 2 /\ 2 ^ (HalfBits + n) = p * a
  <2>1. 2 ^ 1 = 2
    BY SmallPowers
  <2>2. n \in 0 .. 2 * HalfBits /\ HalfBits \in 0 .. 2 * HalfBits
    BY HalfFacts
  <2>3. 2 ^ (HalfBits + n) = 2 ^ HalfBits * 2 ^ n
    BY <2>2, HalvesAssumption
  <2>4. PICK a \in Nat \ {0}, b \in Nat \ {0} :
          a = 2 ^ n /\ b = 2 ^ (HalfBits - n) /\ 2 ^ HalfBits = a * b
    BY PowersAt
  <2>5. b = 2
    BY <1>1, <2>1, <2>4
  <2> QED BY <2>1, <2>3, <2>4, <2>5, HalfFacts
<1>3. x0 \in Nat /\ x1 \in Nat /\ x0 < p
  BY <1>2, HalfFacts DEF Half
<1>4. ASSUME NEW x \in Nat
      PROVE  \E q \in Nat, r \in Nat :
               q = x \div a /\ r = x % a /\ r <= a - 1 /\ x = q * a + r
  <2>1. x \div a \in Nat /\ x % a \in 0 .. a - 1 /\ x = ((x \div a) * a) + (x % a)
    BY DivModOf
  <2>2. x % a \in Nat /\ x % a <= a - 1
    BY <2>1
  <2> QED BY <2>1, <2>2
<1>5. PICK q0 \in Nat, r0 \in Nat :
        q0 = x0 \div a /\ r0 = x0 % a /\ r0 <= a - 1 /\ x0 = q0 * a + r0
  BY <1>3, <1>4
<1>6. PICK q1 \in Nat, r1 \in Nat :
        q1 = x1 \div a /\ r1 = x1 % a /\ r1 <= a - 1 /\ x1 = q1 * a + r1
  BY <1>3, <1>4
<1>7. PICK w \in Nat \ {0}, e \in Nat : w = p * a /\ e = r1 * p /\ e <= w - p
  <2>1. r1 * p <= (a - 1) * p /\ r1 * p \in Nat /\ p * a \in Nat /\ p * a # 0
    <3>1. a - 1 \in Nat
      OBVIOUS
    <3>2. r1 * p <= (a - 1) * p /\ r1 * p \in Nat /\ p * a \in Nat
      BY <1>6, <3>1, ProductMonotone, ProductType
    <3> QED BY <1>2, <3>2
  <2>2. (a - 1) * p = p * a - p
    BY <1>2
  <2> QED BY <2>1, <2>2
<1>8. Joined(x0, x1) = q1 * w + (e + x0)
  <2>1. x1 * p = (q1 * a) * p + r1 * p
    BY <1>2, <1>6
  <2>2. (q1 * a) * p = q1 * (p * a)
    BY <1>2, <1>6
  <2>3. q1 * w \in Nat
    BY <1>6, ProductType
  <2> QED BY <1>2, <1>3, <1>7, <2>1, <2>2, <2>3 DEF Joined
<1>9. Joined(x0, x1) \div w = q1 /\ Joined(x0, x1) % w = e + x0
  <2>1. e + x0 \in Nat /\ e + x0 < w
    BY <1>2, <1>3, <1>7
  <2>2. PICK f \in Nat : f = e + x0 /\ f < w
    BY <2>1
  <2>3. (q1 * w + f) \div w = q1 /\ (q1 * w + f) % w = f
    BY ONLY <2>2, q1 \in Nat, w \in Nat \ {0}, f \in Nat, DivModIs
  <2> QED BY <1>8, <2>2, <2>3
<1>10. Rotated(Joined(x0, x1), WordBits2 - 1) = q1 + (e + x0) * 2
  <2>1. 2 ^ (WordBits2 - 1) = w /\ 2 ^ (WordBits2 - (WordBits2 - 1)) = 2
    BY <1>1, <1>2, <1>7
  <2> QED BY <1>9, <2>1 DEF Rotated
<1>11. /\ Filled(x1, x0, HalfBits - 1) = q1 + r0 * 2
       /\ Filled(x0, x1, HalfBits - 1) = q0 + r1 * 2
  BY <1>1, <1>2, <1>5, <1>6 DEF Filled
<1>12. (q0 + r1 * 2) * p = q0 * p + e * 2
  <2>1. (q0 + r1 * 2) * p = q0 * p + (r1 * 2) * p
    <3>1. PICK f \in Nat : f = r1 * 2
      BY <1>6
    <3>2. (q0 + f) * p = q0 * p + f * p
      BY ONLY q0 \in Nat, f \in Nat, p \in Nat
    <3> QED BY <3>1, <3>2
  <2>2. (r1 * 2) * p = (r1 * p) * 2
    BY ONLY r1 \in Nat, p \in Nat
  <2> QED BY <1>7, <2>1, <2>2
<1>13. q0 * p = (q0 * a) * 2
  BY <1>2, <1>5
<1>14. PICK g \in Nat : g = q0 * a
  BY <1>5, ProductType
<1> QED BY <1>2, <1>5, <1>6, <1>7, <1>10, <1>11, <1>12, <1>13, <1>14 DEF Joined

----------------------------------------------------------------------------
(* The steps of B2B_G.                                                      *)

Halves == [0 .. 31 -> Half]

LEMMA WholesAre ==
  ASSUME NEW v \in Halves
  PROVE  /\ \A k \in 0 .. 15 : v[2 * k] \in Half /\ v[2 * k + 1] \in Half
         /\ Wholes(v, 16) \in [0 .. 15 -> Nat]
         /\ \A k \in 0 .. 15 : Wholes(v, 16)[k] = Joined(v[2 * k], v[2 * k + 1])
<1>1. \A k \in 0 .. 15 : v[2 * k] \in Half /\ v[2 * k + 1] \in Half
  <2> SUFFICES ASSUME NEW k \in 0 .. 15 PROVE v[2 * k] \in Half /\ v[2 * k + 1] \in Half
    OBVIOUS
  <2>1. 2 * k \in 0 .. 31 /\ 2 * k + 1 \in 0 .. 31
    OBVIOUS
  <2> QED BY <2>1 DEF Halves
<1>2. Wholes(v, 16) = [k \in 0 .. 15 |-> Joined(v[2 * k], v[2 * k + 1])]
  BY DEF Wholes, Whole, Joined
<1>3. \A k \in 0 .. 15 : Joined(v[2 * k], v[2 * k + 1]) \in Nat
  BY <1>1, PairIs
<1> QED BY <1>1, <1>2, <1>3

\* What writes a half of a word and then the other writes a word.
LEMMA PutStands ==
  ASSUME NEW v \in Halves, NEW k \in 0 .. 15, NEW lo \in Half, NEW hi \in Half
  PROVE  /\ [v EXCEPT ![2 * k] = lo, ![2 * k + 1] = hi] \in Halves
         /\ Wholes([v EXCEPT ![2 * k] = lo, ![2 * k + 1] = hi], 16)
              = [Wholes(v, 16) EXCEPT ![k] = Joined(lo, hi)]
<1> DEFINE u == [v EXCEPT ![2 * k] = lo, ![2 * k + 1] = hi]
<1>1. 2 * k \in 0 .. 31 /\ 2 * k + 1 \in 0 .. 31 /\ 2 * k # 2 * k + 1
  OBVIOUS
<1>2. u \in Halves
  BY <1>1 DEF Halves
<1>3. u[2 * k] = lo /\ u[2 * k + 1] = hi
  BY <1>1 DEF Halves
<1>4. \A j \in 0 .. 15 : j # k => u[2 * j] = v[2 * j] /\ u[2 * j + 1] = v[2 * j + 1]
  <2> SUFFICES ASSUME NEW j \in 0 .. 15, j # k
               PROVE  u[2 * j] = v[2 * j] /\ u[2 * j + 1] = v[2 * j + 1]
    OBVIOUS
  <2>1. /\ 2 * j \in 0 .. 31 /\ 2 * j + 1 \in 0 .. 31
        /\ 2 * j # 2 * k /\ 2 * j # 2 * k + 1 /\ 2 * j + 1 # 2 * k /\ 2 * j + 1 # 2 * k + 1
    OBVIOUS
  <2> QED BY <1>1, <2>1 DEF Halves
<1> HIDE DEF u
<1>5. \A j \in 0 .. 15 : Wholes(u, 16)[j] = [Wholes(v, 16) EXCEPT ![k] = Joined(lo, hi)][j]
  <2> SUFFICES ASSUME NEW j \in 0 .. 15
               PROVE  Wholes(u, 16)[j] = [Wholes(v, 16) EXCEPT ![k] = Joined(lo, hi)][j]
    OBVIOUS
  <2>1. /\ Wholes(u, 16)[j] = Joined(u[2 * j], u[2 * j + 1])
        /\ Wholes(v, 16)[j] = Joined(v[2 * j], v[2 * j + 1])
        /\ Wholes(v, 16) \in [0 .. 15 -> Nat]
    BY <1>2, WholesAre
  <2>2. CASE j = k
    BY <1>3, <2>1, <2>2
  <2>3. CASE j # k
    BY <1>4, <2>1, <2>3
  <2> QED BY <2>2, <2>3
<1>6. Wholes(u, 16) = [j \in 0 .. 15 |-> Wholes(u, 16)[j]]
  BY DEF Wholes
<1>7. [Wholes(v, 16) EXCEPT ![k] = Joined(lo, hi)]
        = [j \in 0 .. 15 |-> [Wholes(v, 16) EXCEPT ![k] = Joined(lo, hi)][j]]
  BY DEF Wholes
<1>8. Wholes(u, 16) = [Wholes(v, 16) EXCEPT ![k] = Joined(lo, hi)]
  BY ONLY <1>5, <1>6, <1>7
<1> QED BY <1>2, <1>8 DEF u

\* Each step of B2B_G stands for one on words.
Becomes(v, u, k, word) == u \in Halves /\ Wholes(u, 16) = [Wholes(v, 16) EXCEPT ![k] = word]

LEMMA AddStands ==
  ASSUME NEW v \in Halves, NEW k \in 0 .. 15, NEW lo \in Half, NEW hi \in Half
  PROVE  Becomes(v, Add64(v, 2 * k, lo, hi), k, Plus(Wholes(v, 16)[k], Joined(lo, hi)))
<1> DEFINE o0 == v[2 * k] + lo
           o1 == v[2 * k + 1] + hi + Carry(o0)
<1>1. v[2 * k] \in Half /\ v[2 * k + 1] \in Half
      /\ Wholes(v, 16)[k] = Joined(v[2 * k], v[2 * k + 1])
  BY WholesAre
<1>2. /\ o0 % 2 ^ HalfBits \in Half /\ o1 % 2 ^ HalfBits \in Half
      /\ Plus(Wholes(v, 16)[k], Joined(lo, hi)) = Joined(o0 % 2 ^ HalfBits, o1 % 2 ^ HalfBits)
  <2>1. PICK x0 \in Half, x1 \in Half : x0 = v[2 * k] /\ x1 = v[2 * k + 1]
    BY <1>1
  <2>2. /\ (x0 + lo) % 2 ^ HalfBits \in Half
        /\ (x1 + hi + Carry(x0 + lo)) % 2 ^ HalfBits \in Half
        /\ Plus(Joined(x0, x1), Joined(lo, hi))
             = Joined((x0 + lo) % 2 ^ HalfBits, (x1 + hi + Carry(x0 + lo)) % 2 ^ HalfBits)
    BY PairPlus
  <2> QED BY <1>1, <2>1, <2>2
<1>3. Add64(v, 2 * k, lo, hi)
        = [v EXCEPT ![2 * k] = o0 % 2 ^ HalfBits, ![2 * k + 1] = o1 % 2 ^ HalfBits]
  BY DEF Add64
<1> HIDE DEF o0, o1
<1> QED BY <1>2, <1>3, PutStands DEF Becomes

LEMMA SumStands ==
  ASSUME NEW v \in Halves, NEW a \in 0 .. 15, NEW b \in 0 .. 15
  PROVE  Becomes(v, ADD64AA(v, 2 * a, 2 * b), a, Plus(Wholes(v, 16)[a], Wholes(v, 16)[b]))
<1>1. v[2 * b] \in Half /\ v[2 * b + 1] \in Half
      /\ Wholes(v, 16)[b] = Joined(v[2 * b], v[2 * b + 1])
  BY WholesAre
<1> QED BY <1>1, AddStands DEF ADD64AA

\* The exclusive or of two words of v, by halves.
LEMMA MixIs ==
  ASSUME NEW v \in Halves, NEW d \in 0 .. 15, NEW a \in 0 .. 15
  PROVE  /\ Xor(v[2 * d], v[2 * a]) \in Half /\ Xor(v[2 * d + 1], v[2 * a + 1]) \in Half
         /\ WXor(Wholes(v, 16)[d], Wholes(v, 16)[a])
              = Joined(Xor(v[2 * d], v[2 * a]), Xor(v[2 * d + 1], v[2 * a + 1]))
<1>1. /\ v[2 * d] \in Half /\ v[2 * d + 1] \in Half
      /\ Wholes(v, 16)[d] = Joined(v[2 * d], v[2 * d + 1])
  BY WholesAre
<1>2. /\ v[2 * a] \in Half /\ v[2 * a + 1] \in Half
      /\ Wholes(v, 16)[a] = Joined(v[2 * a], v[2 * a + 1])
  BY WholesAre
<1>3. PICK x0 \in Half, x1 \in Half, y0 \in Half, y1 \in Half :
        x0 = v[2 * d] /\ x1 = v[2 * d + 1] /\ y0 = v[2 * a] /\ y1 = v[2 * a + 1]
  BY <1>1, <1>2
<1>4. /\ Xor(x0, y0) \in Half /\ Xor(x1, y1) \in Half
      /\ WXor(Joined(x0, x1), Joined(y0, y1)) = Joined(Xor(x0, y0), Xor(x1, y1))
  <2>1. XorsByHalves(x0, x1, y0, y1)
    BY PairXor
  <2> QED BY <2>1, XorIs DEF XorsByHalves
<1> QED BY <1>1, <1>2, <1>3, <1>4

LEMMA SwapStands ==
  ASSUME NEW v \in Halves, NEW d \in 0 .. 15, NEW a \in 0 .. 15
  PROVE  Becomes(v, SwapHalves(v, 2 * d, 2 * a), d,
                 Rotated(WXor(Wholes(v, 16)[d], Wholes(v, 16)[a]), 4 * Quarter))
<1>1. PICK x0 \in Half, x1 \in Half :
        /\ x0 = Xor(v[2 * d], v[2 * a]) /\ x1 = Xor(v[2 * d + 1], v[2 * a + 1])
        /\ WXor(Wholes(v, 16)[d], Wholes(v, 16)[a]) = Joined(x0, x1)
  BY MixIs
<1>2. Rotated(Joined(x0, x1), 4 * Quarter) = Joined(x1, x0)
  BY QuarterFacts, PairSwapped
<1>3. SwapHalves(v, 2 * d, 2 * a) = [v EXCEPT ![2 * d] = x1, ![2 * d + 1] = x0]
  BY <1>1 DEF SwapHalves
<1> QED BY <1>1, <1>2, <1>3, PutStands DEF Becomes

LEMMA RotateStands ==
  ASSUME NEW v \in Halves, NEW d \in 0 .. 15, NEW a \in 0 .. 15, NEW n \in 1 .. HalfBits - 1
  PROVE  Becomes(v, RotateBy(v, 2 * d, 2 * a, n), d,
                 Rotated(WXor(Wholes(v, 16)[d], Wholes(v, 16)[a]), n))
<1>1. PICK x0 \in Half, x1 \in Half :
        /\ x0 = Xor(v[2 * d], v[2 * a]) /\ x1 = Xor(v[2 * d + 1], v[2 * a + 1])
        /\ WXor(Wholes(v, 16)[d], Wholes(v, 16)[a]) = Joined(x0, x1)
  BY MixIs
<1>2. Rotated(Joined(x0, x1), n) = Joined(Filled(x0, x1, n), Filled(x1, x0, n))
  BY PairRotated
<1>3. RotateBy(v, 2 * d, 2 * a, n)
        = [v EXCEPT ![2 * d] = Filled(x0, x1, n), ![2 * d + 1] = Filled(x1, x0, n)]
  <2>1. /\ Xor(x0 \div 2 ^ n, Shifted(x1, HalfBits - n)) = Filled(x0, x1, n)
        /\ Xor(x1 \div 2 ^ n, Shifted(x0, HalfBits - n)) = Filled(x1, x0, n)
    BY FilledIs
  <2> QED BY <1>1, <2>1 DEF RotateBy
<1>4. Filled(x0, x1, n) \in Half /\ Filled(x1, x0, n) \in Half
  BY FilledIs
<1> QED BY <1>1, <1>2, <1>3, <1>4, PutStands DEF Becomes

LEMMA TurnStands ==
  ASSUME NEW v \in Halves, NEW d \in 0 .. 15, NEW a \in 0 .. 15
  PROVE  Becomes(v, RotateLeft(v, 2 * d, 2 * a), d,
                 Rotated(WXor(Wholes(v, 16)[d], Wholes(v, 16)[a]), WordBits2 - 1))
<1>1. PICK x0 \in Half, x1 \in Half :
        /\ x0 = Xor(v[2 * d], v[2 * a]) /\ x1 = Xor(v[2 * d + 1], v[2 * a + 1])
        /\ WXor(Wholes(v, 16)[d], Wholes(v, 16)[a]) = Joined(x0, x1)
  BY MixIs
<1>2. PICK n \in 1 .. HalfBits - 1 : n = HalfBits - 1 /\ HalfBits - n = 1
  BY QuarterFacts, HalfFacts
<1>3. Rotated(Joined(x0, x1), WordBits2 - 1) = Joined(Filled(x1, x0, n), Filled(x0, x1, n))
  BY <1>2, PairTurned
<1>4. RotateLeft(v, 2 * d, 2 * a)
        = [v EXCEPT ![2 * d] = Filled(x1, x0, n), ![2 * d + 1] = Filled(x0, x1, n)]
  <2>1. /\ Xor(x1 \div 2 ^ n, Shifted(x0, HalfBits - n)) = Filled(x1, x0, n)
        /\ Xor(x0 \div 2 ^ n, Shifted(x1, HalfBits - n)) = Filled(x0, x1, n)
    BY FilledIs
  <2> QED BY <1>1, <1>2, <2>1 DEF RotateLeft
<1>5. Filled(x0, x1, n) \in Half /\ Filled(x1, x0, n) \in Half
  BY FilledIs
<1> QED BY <1>1, <1>3, <1>4, <1>5, PutStands DEF Becomes

LEMMA BecomesAt ==
  ASSUME NEW v \in Halves, NEW u, NEW k \in 0 .. 15, NEW word, Becomes(v, u, k, word)
  PROVE  /\ u \in Halves /\ Wholes(u, 16)[k] = word
         /\ \A j \in 0 .. 15 : j # k => Wholes(u, 16)[j] = Wholes(v, 16)[j]
<1>1. Wholes(v, 16) \in [0 .. 15 -> Nat]
  BY WholesAre
<1> QED BY <1>1 DEF Becomes

\* The words at four places, and all others.
Holds(v, W, a, b, c, d, atA, atB, atC, atD) ==
  /\ v \in Halves
  /\ Wholes(v, 16)[a] = atA /\ Wholes(v, 16)[b] = atB
  /\ Wholes(v, 16)[c] = atC /\ Wholes(v, 16)[d] = atD
  /\ \A j \in 0 .. 15 \ {a, b, c, d} : Wholes(v, 16)[j] = W[j]

\* B2B_G on halves is G on words, of four different words of v and any two of mw.
MixesAsG(v, mw, a, b, c, d, x, y) ==
  /\ B2B_G(v, mw, 2 * a, 2 * b, 2 * c, 2 * d, 2 * x, 2 * y) \in Halves
  /\ Wholes(B2B_G(v, mw, 2 * a, 2 * b, 2 * c, 2 * d, 2 * x, 2 * y), 16)
       = G(Wholes(v, 16), a, b, c, d, Wholes(mw, 16)[x], Wholes(mw, 16)[y])

LEMMA GStands ==
  ASSUME NEW v \in Halves, NEW mw \in Halves,
         NEW a \in 0 .. 15, NEW b \in 0 .. 15, NEW c \in 0 .. 15, NEW d \in 0 .. 15,
         a # b, a # c, a # d, b # c, b # d, c # d,
         NEW x \in 0 .. 15, NEW y \in 0 .. 15
  PROVE  MixesAsG(v, mw, a, b, c, d, x, y)
<1> DEFINE W == Wholes(v, 16)
           X == Wholes(mw, 16)[x]
           Y == Wholes(mw, 16)[y]
           At(u, p, q, r, s) == Holds(u, W, a, b, c, d, p, q, r, s)
<1>1. PICK x0 \in Half, x1 \in Half, y0 \in Half, y1 \in Half :
        /\ x0 = mw[2 * x] /\ x1 = mw[2 * x + 1] /\ X = Joined(x0, x1)
        /\ y0 = mw[2 * y] /\ y1 = mw[2 * y + 1] /\ Y = Joined(y0, y1)
  <2>1. mw[2 * x] \in Half /\ mw[2 * x + 1] \in Half /\ X = Joined(mw[2 * x], mw[2 * x + 1])
    BY WholesAre
  <2>2. mw[2 * y] \in Half /\ mw[2 * y + 1] \in Half /\ Y = Joined(mw[2 * y], mw[2 * y + 1])
    BY WholesAre
  <2> QED BY <2>1, <2>2
<1>2. PICK n3 \in 1 .. HalfBits - 1, n2 \in 1 .. HalfBits - 1 :
        n3 = 3 * Quarter /\ n2 = 2 * Quarter
  BY QuarterFacts
<1> DEFINE u1 == ADD64AA(v, 2 * a, 2 * b)
           v1 == Add64(u1, 2 * a, x0, x1)
           v2 == SwapHalves(v1, 2 * d, 2 * a)
           u2 == ADD64AA(v2, 2 * c, 2 * d)
           v3 == RotateBy(u2, 2 * b, 2 * c, n3)
           u3 == ADD64AA(v3, 2 * a, 2 * b)
           v4 == Add64(u3, 2 * a, y0, y1)
           v5 == RotateBy(v4, 2 * d, 2 * a, n2)
           u5 == ADD64AA(v5, 2 * c, 2 * d)
           v6 == RotateLeft(u5, 2 * b, 2 * c)
           a0 == Plus(W[a], W[b])
           a1 == Plus(a0, X)
           d1 == Rotated(WXor(W[d], a1), 4 * Quarter)
           c1 == Plus(W[c], d1)
           b1 == Rotated(WXor(W[b], c1), n3)
           a3 == Plus(a1, b1)
           a2 == Plus(a3, Y)
           d2 == Rotated(WXor(d1, a2), n2)
           c2 == Plus(c1, d2)
           b2 == Rotated(WXor(b1, c2), WordBits2 - 1)
<1>3. B2B_G(v, mw, 2 * a, 2 * b, 2 * c, 2 * d, 2 * x, 2 * y) = v6
  BY <1>1, <1>2 DEF B2B_G
<1>4. G(W, a, b, c, d, X, Y) = [W EXCEPT ![a] = a2, ![b] = b2, ![c] = c2, ![d] = d2]
  BY <1>2 DEF G
<1>5. At(v, W[a], W[b], W[c], W[d])
  BY DEF Holds
<1> HIDE DEF W, X, Y, u1, v1, v2, u2, v3, u3, v4, v5, u5, v6, a0, a1, d1, c1, b1, a3, a2, d2, c2, b2
<1> DEFINE Apart == /\ a \in 0 .. 15 /\ b \in 0 .. 15 /\ c \in 0 .. 15 /\ d \in 0 .. 15
                    /\ a # b /\ a # c /\ a # d /\ b # c /\ b # d /\ c # d
<1>6. Apart
  OBVIOUS
<1>7. ASSUME NEW u \in Halves, NEW t, NEW word, NEW p, NEW q, NEW r, NEW s, At(u, p, q, r, s)
      PROVE  /\ Becomes(u, t, a, word) => At(t, word, q, r, s)
             /\ Becomes(u, t, b, word) => At(t, p, word, r, s)
             /\ Becomes(u, t, c, word) => At(t, p, q, word, s)
             /\ Becomes(u, t, d, word) => At(t, p, q, r, word)
  <2>1. ASSUME NEW k \in {a, b, c, d}, Becomes(u, t, k, word)
        PROVE  /\ t \in Halves /\ Wholes(t, 16)[k] = word
               /\ \A j \in 0 .. 15 : j # k => Wholes(t, 16)[j] = Wholes(u, 16)[j]
    <3>1. k \in 0 .. 15
      BY <1>6
    <3> QED BY <2>1, <3>1, BecomesAt
  <2> HIDE DEF Apart
  <2>2. CASE Becomes(u, t, a, word)
    BY ONLY <1>6, <1>7, <2>1, <2>2 DEF Holds, Apart
  <2> QED BY ONLY <1>6, <1>7, <2>1 DEF Holds, Apart
<1> HIDE DEF Apart
<1>11. u1 \in Halves /\ At(u1, a0, W[b], W[c], W[d])
  <2>1. Becomes(v, u1, a, a0)
    BY SumStands DEF u1, a0, W
  <2> QED BY <1>5, <1>7, <2>1 DEF Becomes
<1>12. v1 \in Halves /\ At(v1, a1, W[b], W[c], W[d])
  <2>1. Becomes(u1, v1, a, a1)
    BY <1>1, <1>11, AddStands DEF v1, a1, Holds
  <2> QED BY <1>7, <1>11, <2>1 DEF Becomes
<1>13. v2 \in Halves /\ At(v2, a1, W[b], W[c], d1)
  <2>1. Becomes(v1, v2, d, d1)
    BY <1>12, SwapStands DEF v2, d1, Holds
  <2> QED BY <1>7, <1>12, <2>1 DEF Becomes
<1>14. u2 \in Halves /\ At(u2, a1, W[b], c1, d1)
  <2>1. Becomes(v2, u2, c, c1)
    BY <1>13, SumStands DEF u2, c1, Holds
  <2> QED BY <1>7, <1>13, <2>1 DEF Becomes
<1>15. v3 \in Halves /\ At(v3, a1, b1, c1, d1)
  <2>1. Becomes(u2, v3, b, b1)
    BY <1>14, RotateStands DEF v3, b1, Holds
  <2> QED BY <1>7, <1>14, <2>1 DEF Becomes
<1>16. u3 \in Halves /\ At(u3, a3, b1, c1, d1)
  <2>1. Becomes(v3, u3, a, a3)
    BY <1>15, SumStands DEF u3, a3, Holds
  <2> QED BY <1>7, <1>15, <2>1 DEF Becomes
<1>17. v4 \in Halves /\ At(v4, a2, b1, c1, d1)
  <2>1. Becomes(u3, v4, a, a2)
    BY <1>1, <1>16, AddStands DEF v4, a2, Holds
  <2> QED BY <1>7, <1>16, <2>1 DEF Becomes
<1>18. v5 \in Halves /\ At(v5, a2, b1, c1, d2)
  <2>1. Becomes(v4, v5, d, d2)
    BY <1>17, RotateStands DEF v5, d2, Holds
  <2> QED BY <1>7, <1>17, <2>1 DEF Becomes
<1>19. u5 \in Halves /\ At(u5, a2, b1, c2, d2)
  <2>1. Becomes(v5, u5, c, c2)
    BY <1>18, SumStands DEF u5, c2, Holds
  <2> QED BY <1>7, <1>18, <2>1 DEF Becomes
<1>20. v6 \in Halves /\ At(v6, a2, b2, c2, d2)
  <2>1. Becomes(u5, v6, b, b2)
    BY <1>19, TurnStands DEF v6, b2, Holds
  <2> QED BY <1>7, <1>19, <2>1 DEF Becomes
<1>21. Wholes(v6, 16) = [W EXCEPT ![a] = a2, ![b] = b2, ![c] = c2, ![d] = d2]
  <2>1. W \in [0 .. 15 -> Nat] /\ Wholes(v6, 16) \in [0 .. 15 -> Nat]
    BY <1>20, WholesAre DEF W
  <2>2. \A j \in 0 .. 15 :
          Wholes(v6, 16)[j] = [W EXCEPT ![a] = a2, ![b] = b2, ![c] = c2, ![d] = d2][j]
    BY ONLY <1>6, <1>20, <2>1 DEF Holds, Apart
  <2> QED BY ONLY <2>1, <2>2
<1> QED BY <1>3, <1>4, <1>20, <1>21 DEF W, X, Y, MixesAsG

----------------------------------------------------------------------------
(* A round is a fold of its mixings.                                        *)

\* Two folds whose steps match have results that match.
Matches(f, X, step, otherStep, n) ==
  \A x \in X, k \in 1 .. n : f[step[<<x, k>>]] = otherStep[<<f[x], k>>]

LEMMA FoldsMatch ==
  ASSUME NEW n \in Nat, NEW X, NEW Y, NEW base, NEW step, NEW it, FoldsIn(it, X, step, base, n),
         NEW other, NEW otherStep, NEW otherIt, FoldsIn(otherIt, Y, otherStep, other, n),
         NEW f, f[base] = other, Matches(f, X, step, otherStep, n)
  PROVE  it[1 .. n] \in X /\ f[it[1 .. n]] = otherIt[1 .. n]
<1>1. OnPrefixes(it, X, step, base, n) /\ OnPrefixes(otherIt, Y, otherStep, other, n)
  BY FoldOnPrefixes
<1> DEFINE S == {k \in 0 .. n : f[it[1 .. k]] # otherIt[1 .. k]}
<1>2. ASSUME S # {} PROVE FALSE
  <2>1. PICK k \in S : \A j \in S : k <= j
    <3>1. S \in SUBSET Nat
      OBVIOUS
    <3> HIDE DEF S
    <3> QED BY <1>2, <3>1, Least
  <2>2. k \in 0 .. n /\ f[it[1 .. k]] # otherIt[1 .. k]
    BY <2>1
  <2>3. k # 0
    BY <1>1, <2>2 DEF OnPrefixes
  <2>4. k \in 1 .. n /\ k - 1 \in 0 .. n /\ ~(k <= k - 1)
    BY <2>2, <2>3
  <2>5. f[it[1 .. k - 1]] = otherIt[1 .. k - 1]
    BY <2>1, <2>4
  <2>6. /\ it[1 .. k - 1] \in X /\ it[1 .. k] = step[<<it[1 .. k - 1], k>>]
        /\ otherIt[1 .. k] = otherStep[<<otherIt[1 .. k - 1], k>>]
    BY <1>1, <2>4 DEF OnPrefixes
  <2> QED BY <2>2, <2>4, <2>5, <2>6 DEF Matches
<1>3. n \in 0 .. n
  OBVIOUS
<1> QED BY <1>1, <1>2, <1>3 DEF OnPrefixes

----------------------------------------------------------------------------
(* The table of the words that are mixed.                                   *)

Row(n, k) == 4 * k + ((n - 1 + (IF n <= 4 THEN 0 ELSE 1) * k) % 4)

LEMMA MixesAre ==
  /\ DOMAIN Mixes = 1 .. 8
  /\ \A n \in 1 .. 8 :
       /\ \A k \in 0 .. 3 : Row(n, k) \in 0 .. 15 /\ Mixes[n][k + 1] = 2 * Row(n, k)
       /\ Row(n, 0) # Row(n, 1) /\ Row(n, 0) # Row(n, 2) /\ Row(n, 0) # Row(n, 3)
       /\ Row(n, 1) # Row(n, 2) /\ Row(n, 1) # Row(n, 3) /\ Row(n, 2) # Row(n, 3)
<1>1. DOMAIN Mixes = 1 .. 8
  BY DEF Mixes
<1>2. ASSUME NEW n \in 1 .. 8
      PROVE  /\ Row(n, 0) \in 0 .. 3 /\ Row(n, 1) \in 4 .. 7 /\ Row(n, 2) \in 8 .. 11
             /\ Row(n, 3) \in 12 .. 15
  BY DEF Row
<1>3. ASSUME NEW n \in 1 .. 8
      PROVE  /\ Mixes[n][1] = 2 * Row(n, 0) /\ Mixes[n][2] = 2 * Row(n, 1)
             /\ Mixes[n][3] = 2 * Row(n, 2) /\ Mixes[n][4] = 2 * Row(n, 3)
  <2>1. n \in {1, 2, 3, 4, 5, 6, 7, 8}
    OBVIOUS
  <2>2. CASE n = 1 BY <2>2 DEF Mixes, Row
  <2>3. CASE n = 2 BY <2>3 DEF Mixes, Row
  <2>4. CASE n = 3 BY <2>4 DEF Mixes, Row
  <2>5. CASE n = 4 BY <2>5 DEF Mixes, Row
  <2>6. CASE n = 5 BY <2>6 DEF Mixes, Row
  <2>7. CASE n = 6 BY <2>7 DEF Mixes, Row
  <2>8. CASE n = 7 BY <2>8 DEF Mixes, Row
  <2>9. CASE n = 8 BY <2>9 DEF Mixes, Row
  <2> QED BY <2>1, <2>2, <2>3, <2>4, <2>5, <2>6, <2>7, <2>8, <2>9
<1>4. ASSUME NEW n \in 1 .. 8, NEW k \in 0 .. 3
      PROVE  Row(n, k) \in 0 .. 15 /\ Mixes[n][k + 1] = 2 * Row(n, k)
  <2>1. k = 0 \/ k = 1 \/ k = 2 \/ k = 3
    OBVIOUS
  <2> QED BY <1>2, <1>3, <2>1
<1>5. ASSUME NEW n \in 1 .. 8
      PROVE  /\ Row(n, 0) # Row(n, 1) /\ Row(n, 0) # Row(n, 2) /\ Row(n, 0) # Row(n, 3)
             /\ Row(n, 1) # Row(n, 2) /\ Row(n, 1) # Row(n, 3) /\ Row(n, 2) # Row(n, 3)
  BY <1>2
<1> QED BY <1>1, <1>4, <1>5

LEMMA SigmaIs ==
  ASSUME NEW i \in Nat, NEW j \in 1 .. 16
  PROVE  Sigma[(i % 10) + 1][j] \in 0 .. 15
<1>1. PICK r : r = (i % 10) + 1 /\ r \in 1 .. 10
  OBVIOUS
<1>2. CASE r = 1 BY <1>2 DEF Sigma
<1>3. CASE r = 2 BY <1>3 DEF Sigma
<1>4. CASE r = 3 BY <1>4 DEF Sigma
<1>5. CASE r = 4 BY <1>5 DEF Sigma
<1>6. CASE r = 5 BY <1>6 DEF Sigma
<1>7. CASE r = 6 BY <1>7 DEF Sigma
<1>8. CASE r = 7 BY <1>8 DEF Sigma
<1>9. CASE r = 8 BY <1>9 DEF Sigma
<1>10. CASE r = 9 BY <1>10 DEF Sigma
<1>11. CASE r = 10 BY <1>11 DEF Sigma
<1>12. r \in {1, 2, 3, 4, 5, 6, 7, 8, 9, 10}
  BY <1>1
<1> QED BY <1>1, <1>2, <1>3, <1>4, <1>5, <1>6, <1>7, <1>8, <1>9, <1>10, <1>11, <1>12

\* The words that the halves of v can stand for.
Words == {Wholes(v, 16) : v \in Halves}

\* One mixing of a round, of the code and of the standard.
MixOf(w, mw, i, n) ==
  B2B_G(w, mw, Mixes[n][1], Mixes[n][2], Mixes[n][3], Mixes[n][4],
        2 * Sigma[(i % 10) + 1][2 * n - 1], 2 * Sigma[(i % 10) + 1][2 * n])
TurnOf(w, m, i, n) ==
  G(w, Row(n, 0), Row(n, 1), Row(n, 2), Row(n, 3),
    m[Sigma[(i % 10) + 1][2 * n - 1]], m[Sigma[(i % 10) + 1][2 * n]])

MixSteps(mw, i) == [p \in Halves \X (1 .. 8) |-> MixOf(p[1], mw, i, p[2])]
TurnSteps(m, i) == [p \in Words \X (1 .. 8) |-> TurnOf(p[1], m, i, p[2])]

LEMMA MixStands ==
  ASSUME NEW w \in Halves, NEW mw \in Halves, NEW i \in Nat, NEW n \in 1 .. 8
  PROVE  /\ MixOf(w, mw, i, n) \in Halves
         /\ Wholes(MixOf(w, mw, i, n), 16) = TurnOf(Wholes(w, 16), Wholes(mw, 16), i, n)
<1>1. PICK a \in 0 .. 15, b \in 0 .. 15, c \in 0 .. 15, d \in 0 .. 15 :
        /\ a = Row(n, 0) /\ b = Row(n, 1) /\ c = Row(n, 2) /\ d = Row(n, 3)
        /\ Mixes[n][1] = 2 * a /\ Mixes[n][2] = 2 * b
        /\ Mixes[n][3] = 2 * c /\ Mixes[n][4] = 2 * d
        /\ a # b /\ a # c /\ a # d /\ b # c /\ b # d /\ c # d
  <2>1. /\ 0 \in 0 .. 3 /\ 1 \in 0 .. 3 /\ 2 \in 0 .. 3 /\ 3 \in 0 .. 3
        /\ 0 + 1 = 1 /\ 1 + 1 = 2 /\ 2 + 1 = 3 /\ 3 + 1 = 4
    OBVIOUS
  <2>2. /\ Row(n, 0) \in 0 .. 15 /\ Mixes[n][0 + 1] = 2 * Row(n, 0)
        /\ Row(n, 1) \in 0 .. 15 /\ Mixes[n][1 + 1] = 2 * Row(n, 1)
        /\ Row(n, 2) \in 0 .. 15 /\ Mixes[n][2 + 1] = 2 * Row(n, 2)
        /\ Row(n, 3) \in 0 .. 15 /\ Mixes[n][3 + 1] = 2 * Row(n, 3)
    BY ONLY <2>1, n \in 1 .. 8, MixesAre
  <2>3. /\ Row(n, 0) # Row(n, 1) /\ Row(n, 0) # Row(n, 2) /\ Row(n, 0) # Row(n, 3)
        /\ Row(n, 1) # Row(n, 2) /\ Row(n, 1) # Row(n, 3) /\ Row(n, 2) # Row(n, 3)
    BY ONLY n \in 1 .. 8, MixesAre
  <2>4. /\ Mixes[n][1] = 2 * Row(n, 0) /\ Mixes[n][2] = 2 * Row(n, 1)
        /\ Mixes[n][3] = 2 * Row(n, 2) /\ Mixes[n][4] = 2 * Row(n, 3)
    BY ONLY <2>1, <2>2
  <2> QED BY ONLY <2>2, <2>3, <2>4
<1>2. PICK x \in 0 .. 15, y \in 0 .. 15 :
        x = Sigma[(i % 10) + 1][2 * n - 1] /\ y = Sigma[(i % 10) + 1][2 * n]
  <2>1. 2 * n - 1 \in 1 .. 16 /\ 2 * n \in 1 .. 16
    OBVIOUS
  <2> QED BY <2>1, SigmaIs
<1>3. MixesAsG(w, mw, a, b, c, d, x, y)
  BY <1>1, GStands
<1> QED BY <1>1, <1>2, <1>3 DEF MixOf, TurnOf, MixesAsG

LEMMA TurnType ==
  ASSUME NEW mw \in Halves, NEW i \in Nat, NEW w \in Words, NEW n \in 1 .. 8
  PROVE  TurnOf(w, Wholes(mw, 16), i, n) \in Words
<1>1. PICK v \in Halves : w = Wholes(v, 16)
  BY DEF Words
<1>2. /\ MixOf(v, mw, i, n) \in Halves
      /\ Wholes(MixOf(v, mw, i, n), 16) = TurnOf(Wholes(v, 16), Wholes(mw, 16), i, n)
  BY MixStands
<1>3. Wholes(MixOf(v, mw, i, n), 16) \in Words
  BY <1>2 DEF Words
<1> QED BY <1>1, <1>2, <1>3

\* A round is a fold of its mixings.
LEMMA RoundFolds ==
  ASSUME NEW v \in Halves, NEW mw \in Halves, NEW i \in Nat
  PROVE  \E it :
           /\ FoldsIn(it, Halves, MixSteps(mw, i), v, 8)
           /\ Round(v, mw, i) = it[1 .. 8]
<1> DEFINE D == 1 .. 8
           Taken(w, k) == MixOf(w, mw, i, k)
           step == [p \in Halves \X D |-> Taken(p[1], p[2])]
           Solves(it) == it = [s \in SUBSET D |->
                           IF s = {} THEN v ELSE Taken(it[s \ {Max(s)}], Max(s))]
           c == CHOOSE it : Solves(it)
           seq == [k \in DOMAIN Mixes |-> k]
<1>0. DOMAIN seq = D /\ \A k \in D : seq[k] = k
  BY MixesAre
<1>1. ASSUME NEW w \in Halves, NEW k \in D
      PROVE  Taken(w, k) \in Halves
  BY MixStands
<1>2. Round(v, mw, i) = (CHOOSE i_ : i_ = [s \in SUBSET D |->
            IF s = {} THEN v ELSE Taken(i_[s \ {Max(s)}], seq[Max(s)])])[D]
  <2>1. Round(v, mw, i) = (CHOOSE i_ : i_ = [s \in SUBSET (DOMAIN seq) |->
            IF s = {} THEN v ELSE Taken(i_[s \ {Max(s)}], seq[Max(s)])])[DOMAIN seq]
    BY DEF Round, MixOf, FoldLeftDomain, FoldLeft, MapThenFoldSet
  <2> HIDE DEF seq, D, Taken
  <2> QED BY ONLY <1>0, <2>1
<1> HIDE DEF D, seq, Taken
<1>3. ASSUME NEW s \in SUBSET D, s # {} PROVE Max(s) \in s /\ Max(s) \in D
  <2>1. Max(s) \in s
    BY <1>3, MaxInside DEF D
  <2> QED BY <2>1
<1>4. Round(v, mw, i) = c[D]
  <2>1. ASSUME NEW j
        PROVE  [s \in SUBSET D |->
                  IF s = {} THEN v ELSE Taken(j[s \ {Max(s)}], seq[Max(s)])]
                 = [s \in SUBSET D |->
                      IF s = {} THEN v ELSE Taken(j[s \ {Max(s)}], Max(s))]
    BY ONLY <1>0, <1>3
  <2>2. (CHOOSE i_ : i_ = [s \in SUBSET D |->
            IF s = {} THEN v ELSE Taken(i_[s \ {Max(s)}], seq[Max(s)])])
          = (CHOOSE i_ : i_ = [s \in SUBSET D |->
                IF s = {} THEN v ELSE Taken(i_[s \ {Max(s)}], Max(s))])
    BY ONLY <2>1
  <2> QED BY ONLY <1>2, <2>2
<1>5. step \in [Halves \X D -> Halves]
  <2>1. ASSUME NEW p \in Halves \X D PROVE Taken(p[1], p[2]) \in Halves
    BY <1>1
  <2> QED BY <2>1
<1>6. ASSUME NEW w \in Halves, NEW k \in D PROVE step[<<w, k>>] = Taken(w, k)
  OBVIOUS
<1> HIDE DEF step
<1>7. \E it : Solves(it)
  <2>1. PICK it \in [SUBSET D -> Halves] : Folded(it, step, v, 8)
    <3>1. 8 \in Nat /\ v \in Halves
      OBVIOUS
    <3> QED BY <1>5, <3>1, FoldExists DEF D
  <2>2. ASSUME NEW s \in SUBSET D
        PROVE  it[s] = IF s = {} THEN v ELSE Taken(it[s \ {Max(s)}], Max(s))
    <3>1. it[s] = IF s = {} THEN v ELSE step[<<it[s \ {Max(s)}], Max(s)>>]
      BY ONLY <2>1, s \in SUBSET D DEF Folded, D
    <3>2. ASSUME s # {} PROVE it[s \ {Max(s)}] \in Halves /\ Max(s) \in D
      BY <1>3, <2>1, <3>2
    <3> QED BY ONLY <1>6, <3>1, <3>2
  <2>3. it = [s \in SUBSET D |-> it[s]]
    BY <2>1
  <2>4. [s \in SUBSET D |-> it[s]]
          = [s \in SUBSET D |-> IF s = {} THEN v ELSE Taken(it[s \ {Max(s)}], Max(s))]
    BY <2>2
  <2> QED BY ONLY <2>3, <2>4
<1>8. Solves(c)
  BY ONLY <1>7
<1> HIDE DEF c
<1>9. FoldsIn(c, Halves, step, v, 8)
  <2>1. ASSUME NEW s \in SUBSET D
        PROVE  c[s] = IF s = {} THEN v ELSE Taken(c[s \ {Max(s)}], Max(s))
    BY ONLY <1>8, s \in SUBSET D
  <2>2. ASSUME NEW s \in SUBSET D, s # {}, c[s \ {Max(s)}] \in Halves
        PROVE  c[s] = step[<<c[s \ {Max(s)}], Max(s)>>]
    BY ONLY <1>3, <1>6, <2>1, <2>2
  <2>3. c[{}] = v
    BY ONLY <2>1
  <2>4. v \in Halves
    OBVIOUS
  <2> QED BY ONLY <1>5, <2>2, <2>3, <2>4 DEF FoldsIn, D
<1> QED BY ONLY <1>4, <1>9 DEF D, step, Taken, MixSteps

LEMMA StandardFolds ==
  ASSUME NEW w0 \in Words, NEW mw \in Halves, NEW i \in Nat, NEW m, m = Wholes(mw, 16)
  PROVE  \E it :
           /\ FoldsIn(it, Words, TurnSteps(m, i), w0, 8)
           /\ StandardRound(w0, m, i) = it[1 .. 8]
<1> DEFINE D == 1 .. 8
           Taken(w, k) == TurnOf(w, m, i, k)
           step == [p \in Words \X D |-> Taken(p[1], p[2])]
           Solves(it) == it = [s \in SUBSET D |->
                           IF s = {} THEN w0 ELSE Taken(it[s \ {Max(s)}], Max(s))]
           c == CHOOSE it : Solves(it)
           seq == [k \in DOMAIN [n \in 1 .. 8 |-> n] |-> k]
<1>0. DOMAIN seq = D /\ \A k \in D : seq[k] = k
  OBVIOUS
<1>1. ASSUME NEW w \in Words, NEW k \in D
      PROVE  Taken(w, k) \in Words
  BY TurnType
<1>2. StandardRound(w0, m, i) = (CHOOSE i_ : i_ = [s \in SUBSET D |->
            IF s = {} THEN w0 ELSE Taken(i_[s \ {Max(s)}], seq[Max(s)])])[D]
  <2>1. StandardRound(w0, m, i) = (CHOOSE i_ : i_ = [s \in SUBSET (DOMAIN seq) |->
            IF s = {} THEN w0 ELSE Taken(i_[s \ {Max(s)}], seq[Max(s)])])[DOMAIN seq]
    BY DEF StandardRound, TurnOf, Row, FoldLeftDomain, FoldLeft, MapThenFoldSet
  <2> HIDE DEF seq, D, Taken
  <2> QED BY ONLY <1>0, <2>1
<1> HIDE DEF D, seq, Taken
<1>3. ASSUME NEW s \in SUBSET D, s # {} PROVE Max(s) \in s /\ Max(s) \in D
  <2>1. Max(s) \in s
    BY <1>3, MaxInside DEF D
  <2> QED BY <2>1
<1>4. StandardRound(w0, m, i) = c[D]
  <2>1. ASSUME NEW j
        PROVE  [s \in SUBSET D |->
                  IF s = {} THEN w0 ELSE Taken(j[s \ {Max(s)}], seq[Max(s)])]
                 = [s \in SUBSET D |->
                      IF s = {} THEN w0 ELSE Taken(j[s \ {Max(s)}], Max(s))]
    BY ONLY <1>0, <1>3
  <2>2. (CHOOSE i_ : i_ = [s \in SUBSET D |->
            IF s = {} THEN w0 ELSE Taken(i_[s \ {Max(s)}], seq[Max(s)])])
          = (CHOOSE i_ : i_ = [s \in SUBSET D |->
                IF s = {} THEN w0 ELSE Taken(i_[s \ {Max(s)}], Max(s))])
    BY ONLY <2>1
  <2> QED BY ONLY <1>2, <2>2
<1>5. step \in [Words \X D -> Words]
  <2>1. ASSUME NEW p \in Words \X D PROVE Taken(p[1], p[2]) \in Words
    BY <1>1
  <2> QED BY <2>1
<1>6. ASSUME NEW w \in Words, NEW k \in D PROVE step[<<w, k>>] = Taken(w, k)
  OBVIOUS
<1> HIDE DEF step
<1>7. \E it : Solves(it)
  <2>1. PICK it \in [SUBSET D -> Words] : Folded(it, step, w0, 8)
    <3>1. 8 \in Nat /\ w0 \in Words
      OBVIOUS
    <3> QED BY <1>5, <3>1, FoldExists DEF D
  <2>2. ASSUME NEW s \in SUBSET D
        PROVE  it[s] = IF s = {} THEN w0 ELSE Taken(it[s \ {Max(s)}], Max(s))
    <3>1. it[s] = IF s = {} THEN w0 ELSE step[<<it[s \ {Max(s)}], Max(s)>>]
      BY ONLY <2>1, s \in SUBSET D DEF Folded, D
    <3>2. ASSUME s # {} PROVE it[s \ {Max(s)}] \in Words /\ Max(s) \in D
      BY <1>3, <2>1, <3>2
    <3> QED BY ONLY <1>6, <3>1, <3>2
  <2>3. it = [s \in SUBSET D |-> it[s]]
    BY <2>1
  <2>4. [s \in SUBSET D |-> it[s]]
          = [s \in SUBSET D |-> IF s = {} THEN w0 ELSE Taken(it[s \ {Max(s)}], Max(s))]
    BY <2>2
  <2> QED BY ONLY <2>3, <2>4
<1>8. Solves(c)
  BY ONLY <1>7
<1> HIDE DEF c
<1>9. FoldsIn(c, Words, step, w0, 8)
  <2>1. ASSUME NEW s \in SUBSET D
        PROVE  c[s] = IF s = {} THEN w0 ELSE Taken(c[s \ {Max(s)}], Max(s))
    BY ONLY <1>8, s \in SUBSET D
  <2>2. ASSUME NEW s \in SUBSET D, s # {}, c[s \ {Max(s)}] \in Words
        PROVE  c[s] = step[<<c[s \ {Max(s)}], Max(s)>>]
    BY ONLY <1>3, <1>6, <2>1, <2>2
  <2>3. c[{}] = w0
    BY ONLY <2>1
  <2>4. w0 \in Words
    OBVIOUS
  <2> QED BY ONLY <1>5, <2>2, <2>3, <2>4 DEF FoldsIn, D
<1> QED BY ONLY <1>4, <1>9 DEF D, step, Taken, TurnSteps

\* A round on halves is a round on words.
LEMMA RoundStands ==
  ASSUME NEW v \in Halves, NEW mw \in Halves, NEW i \in Nat
  PROVE  /\ Round(v, mw, i) \in Halves
         /\ Wholes(Round(v, mw, i), 16) = StandardRound(Wholes(v, 16), Wholes(mw, 16), i)
<1> DEFINE m == Wholes(mw, 16)
           w0 == Wholes(v, 16)
           step == MixSteps(mw, i)
           turn == TurnSteps(m, i)
           f == [u \in Halves |-> Wholes(u, 16)]
<1>1. PICK it : FoldsIn(it, Halves, step, v, 8) /\ Round(v, mw, i) = it[1 .. 8]
  BY RoundFolds
<1>2. w0 \in Words
  BY DEF Words
<1>3. PICK other : FoldsIn(other, Words, turn, w0, 8) /\ StandardRound(w0, m, i) = other[1 .. 8]
  <2>1. PICK n, z : n = m /\ z = w0
    OBVIOUS
  <2>2. z \in Words /\ n = Wholes(mw, 16)
    BY <1>2, <2>1
  <2>3. \E other :
          /\ FoldsIn(other, Words, TurnSteps(n, i), z, 8)
          /\ StandardRound(z, n, i) = other[1 .. 8]
    BY ONLY <2>2, mw \in Halves, i \in Nat, StandardFolds
  <2>4. turn = TurnSteps(n, i)
    BY <2>1
  <2> HIDE DEF w0, m, turn
  <2> QED BY ONLY <2>1, <2>3, <2>4
<1>4. f[v] = w0
  OBVIOUS
<1>5. ASSUME NEW u \in Halves, NEW k \in 1 .. 8
      PROVE  f[step[<<u, k>>]] = turn[<<f[u], k>>]
  <2>1. /\ MixOf(u, mw, i, k) \in Halves
        /\ Wholes(MixOf(u, mw, i, k), 16) = TurnOf(Wholes(u, 16), m, i, k)
    BY MixStands
  <2>2. Wholes(u, 16) \in Words
    BY DEF Words
  <2>3. step[<<u, k>>] = MixOf(u, mw, i, k)
    BY DEF MixSteps
  <2>4. turn[<<Wholes(u, 16), k>>] = TurnOf(Wholes(u, 16), m, i, k)
    BY <2>2 DEF TurnSteps
  <2> HIDE DEF step, turn, m
  <2> QED BY <2>1, <2>3, <2>4
<1> HIDE DEF step, turn, f, w0, m
<1>6. it[1 .. 8] \in Halves /\ f[it[1 .. 8]] = other[1 .. 8]
  <2>1. 8 \in Nat
    OBVIOUS
  <2>2. PICK n : n = 8
    OBVIOUS
  <2>3. /\ n \in Nat /\ FoldsIn(it, Halves, step, v, n) /\ FoldsIn(other, Words, turn, w0, n)
        /\ Matches(f, Halves, step, turn, n)
    BY ONLY <1>1, <1>3, <1>5, <2>1, <2>2 DEF Matches
  <2>4. it[1 .. n] \in Halves /\ f[it[1 .. n]] = other[1 .. n]
    BY ONLY <1>4, <2>3, FoldsMatch
  <2> QED BY ONLY <2>2, <2>4
<1> QED BY <1>1, <1>3, <1>6 DEF f, w0, m

----------------------------------------------------------------------------
(* The rounds.                                                              *)

\* What F, and the compression of words, has after its rounds.
RoundsOf(v0, mw, rounds) ==
  LET mixed[i \in 0 .. rounds] ==
        IF i = 0 THEN {v0} ELSE {Round(v, mw, i - 1) : v \in mixed[i - 1]}
  IN  CHOOSE v \in mixed[rounds] : TRUE
StandardRounds(start, m, rounds) ==
  LET mixed[i \in 0 .. rounds] ==
        IF i = 0 THEN {start} ELSE {StandardRound(v, m, i - 1) : v \in mixed[i - 1]}
  IN  CHOOSE v \in mixed[rounds] : TRUE

\* One round after the other, of the code and of the standard.
RunsCode(e, v0, mw, rounds) ==
  e[0] = v0 /\ \A k \in 1 .. rounds : e[k] = Round(e[k - 1], mw, k - 1)
RunsStandard(e, start, m, rounds) ==
  e[0] = start /\ \A k \in 1 .. rounds : e[k] = StandardRound(e[k - 1], m, k - 1)

LEMMA RoundsAre ==
  ASSUME NEW rounds \in Nat, NEW v0, NEW mw, NEW X, NEW e \in [0 .. rounds -> X],
         RunsCode(e, v0, mw, rounds)
  PROVE  RoundsOf(v0, mw, rounds) = e[rounds]
<1> DEFINE Solves(g) == g = [i \in 0 .. rounds |->
                           IF i = 0 THEN {v0} ELSE {Round(v, mw, i - 1) : v \in g[i - 1]}]
           c == CHOOSE g : Solves(g)
<1>1. RoundsOf(v0, mw, rounds) = CHOOSE v \in c[rounds] : TRUE
  BY DEF RoundsOf
<1>2. \E g : Solves(g)
  <2> DEFINE g == [i \in 0 .. rounds |-> {e[i]}]
  <2>1. ASSUME NEW i \in 0 .. rounds
        PROVE  {e[i]} = IF i = 0 THEN {v0} ELSE {Round(v, mw, i - 1) : v \in g[i - 1]}
    <3>1. CASE i = 0
      BY <3>1 DEF RunsCode
    <3>2. CASE i # 0
      <4>1. i - 1 \in 0 .. rounds /\ i \in 1 .. rounds
        BY <3>2
      <4>2. g[i - 1] = {e[i - 1]} /\ e[i] = Round(e[i - 1], mw, i - 1)
        BY <4>1 DEF RunsCode
      <4> HIDE DEF g
      <4>3. {Round(v, mw, i - 1) : v \in g[i - 1]} = {Round(e[i - 1], mw, i - 1)}
        BY <4>2
      <4> QED BY <3>2, <4>2, <4>3
    <3> QED BY <3>1, <3>2
  <2>2. [i \in 0 .. rounds |-> {e[i]}]
          = [i \in 0 .. rounds |->
               IF i = 0 THEN {v0} ELSE {Round(v, mw, i - 1) : v \in g[i - 1]}]
    BY ONLY <2>1
  <2>3. Solves(g)
    BY <2>2
  <2> QED BY <2>3
<1>3. Solves(c)
  BY ONLY <1>2
<1> HIDE DEF c
<1>4. \A i \in 0 .. rounds :
        c[i] = IF i = 0 THEN {v0} ELSE {Round(v, mw, i - 1) : v \in c[i - 1]}
  BY <1>3
<1> DEFINE S == {k \in 0 .. rounds : c[k] # {e[k]}}
<1>5. ASSUME S # {} PROVE FALSE
  <2>1. PICK k \in S : \A j \in S : k <= j
    <3>1. S \in SUBSET Nat
      OBVIOUS
    <3> HIDE DEF S
    <3> QED BY <1>5, <3>1, Least
  <2>2. k \in 0 .. rounds /\ c[k] # {e[k]}
    BY <2>1
  <2>3. k # 0
    BY <1>4, <2>2 DEF RunsCode
  <2>4. k \in 1 .. rounds /\ k - 1 \in 0 .. rounds /\ ~(k <= k - 1)
    BY <2>2, <2>3
  <2>5. c[k - 1] = {e[k - 1]}
    BY <2>1, <2>4
  <2>6. c[k] = {Round(v, mw, k - 1) : v \in c[k - 1]}
    BY <1>4, <2>2, <2>3
  <2>7. c[k] = {Round(e[k - 1], mw, k - 1)}
    BY <2>5, <2>6
  <2> QED BY <2>2, <2>4, <2>7 DEF RunsCode
<1>6. c[rounds] = {e[rounds]}
  <2>1. rounds \in 0 .. rounds
    OBVIOUS
  <2> QED BY <1>5, <2>1
<1> QED BY <1>1, <1>6

LEMMA StandardRoundsAre ==
  ASSUME NEW rounds \in Nat, NEW v0, NEW m, NEW X, NEW e \in [0 .. rounds -> X],
         RunsStandard(e, v0, m, rounds)
  PROVE  StandardRounds(v0, m, rounds) = e[rounds]
<1> DEFINE Solves(g) == g = [i \in 0 .. rounds |->
                           IF i = 0 THEN {v0} ELSE {StandardRound(v, m, i - 1) : v \in g[i - 1]}]
           c == CHOOSE g : Solves(g)
<1>1. StandardRounds(v0, m, rounds) = CHOOSE v \in c[rounds] : TRUE
  BY DEF StandardRounds
<1>2. \E g : Solves(g)
  <2> DEFINE g == [i \in 0 .. rounds |-> {e[i]}]
  <2>1. ASSUME NEW i \in 0 .. rounds
        PROVE  {e[i]} = IF i = 0 THEN {v0} ELSE {StandardRound(v, m, i - 1) : v \in g[i - 1]}
    <3>1. CASE i = 0
      BY <3>1 DEF RunsStandard
    <3>2. CASE i # 0
      <4>1. i - 1 \in 0 .. rounds /\ i \in 1 .. rounds
        BY <3>2
      <4>2. g[i - 1] = {e[i - 1]} /\ e[i] = StandardRound(e[i - 1], m, i - 1)
        BY <4>1 DEF RunsStandard
      <4> HIDE DEF g
      <4>3. {StandardRound(v, m, i - 1) : v \in g[i - 1]} = {StandardRound(e[i - 1], m, i - 1)}
        BY <4>2
      <4> QED BY <3>2, <4>2, <4>3
    <3> QED BY <3>1, <3>2
  <2>2. [i \in 0 .. rounds |-> {e[i]}]
          = [i \in 0 .. rounds |->
               IF i = 0 THEN {v0} ELSE {StandardRound(v, m, i - 1) : v \in g[i - 1]}]
    BY ONLY <2>1
  <2>3. Solves(g)
    BY <2>2
  <2> QED BY <2>3
<1>3. Solves(c)
  BY ONLY <1>2
<1> HIDE DEF c
<1>4. \A i \in 0 .. rounds :
        c[i] = IF i = 0 THEN {v0} ELSE {StandardRound(v, m, i - 1) : v \in c[i - 1]}
  BY <1>3
<1> DEFINE S == {k \in 0 .. rounds : c[k] # {e[k]}}
<1>5. ASSUME S # {} PROVE FALSE
  <2>1. PICK k \in S : \A j \in S : k <= j
    <3>1. S \in SUBSET Nat
      OBVIOUS
    <3> HIDE DEF S
    <3> QED BY <1>5, <3>1, Least
  <2>2. k \in 0 .. rounds /\ c[k] # {e[k]}
    BY <2>1
  <2>3. k # 0
    BY <1>4, <2>2 DEF RunsStandard
  <2>4. k \in 1 .. rounds /\ k - 1 \in 0 .. rounds /\ ~(k <= k - 1)
    BY <2>2, <2>3
  <2>5. c[k - 1] = {e[k - 1]}
    BY <2>1, <2>4
  <2>6. c[k] = {StandardRound(v, m, k - 1) : v \in c[k - 1]}
    BY <1>4, <2>2, <2>3
  <2>7. c[k] = {StandardRound(e[k - 1], m, k - 1)}
    BY <2>5, <2>6
  <2> QED BY <2>2, <2>4, <2>7 DEF RunsStandard
<1>6. c[rounds] = {e[rounds]}
  <2>1. rounds \in 0 .. rounds
    OBVIOUS
  <2> QED BY <1>5, <2>1
<1> QED BY <1>1, <1>6


\* The rounds on halves are the rounds on words.
LEMMA RoundsStand ==
  ASSUME NEW v0 \in Halves, NEW mw \in Halves, NEW rounds \in Nat
  PROVE  /\ RoundsOf(v0, mw, rounds) \in Halves
         /\ Wholes(RoundsOf(v0, mw, rounds), 16)
              = StandardRounds(Wholes(v0, 16), Wholes(mw, 16), rounds)
<1> DEFINE step == [p \in Halves \X (1 .. rounds) |-> Round(p[1], mw, p[2] - 1)]
           m == Wholes(mw, 16)
<1>1. step \in [Halves \X (1 .. rounds) -> Halves]
  <2>1. ASSUME NEW p \in Halves \X (1 .. rounds) PROVE Round(p[1], mw, p[2] - 1) \in Halves
    <3>1. p[1] \in Halves /\ p[2] - 1 \in Nat
      OBVIOUS
    <3> QED BY <3>1, RoundStands
  <2> QED BY <2>1
<1>2. PICK e \in [0 .. rounds -> Halves] : Recurses(e, step, v0, rounds)
  <2> HIDE DEF step
  <2> QED BY <1>1, RecursionExists
<1>3. ASSUME NEW k \in 1 .. rounds
      PROVE  /\ k \in Nat /\ k - 1 \in Nat /\ k - 1 \in 0 .. rounds
             /\ e[k - 1] \in Halves /\ e[k] = Round(e[k - 1], mw, k - 1)
  <2>1. k \in Nat /\ k - 1 \in Nat /\ k - 1 \in 0 .. rounds
    OBVIOUS
  <2>2. e[k - 1] \in Halves
    BY <2>1
  <2>3. e[k] = step[<<e[k - 1], k>>]
    BY <1>2 DEF Recurses
  <2>4. step[<<e[k - 1], k>>] = Round(e[k - 1], mw, k - 1)
    BY <2>2
  <2> HIDE DEF step
  <2> QED BY <2>1, <2>2, <2>3, <2>4
<1>4. RunsCode(e, v0, mw, rounds)
  <2> HIDE DEF step
  <2> QED BY <1>2, <1>3 DEF RunsCode, Recurses
<1>5. RoundsOf(v0, mw, rounds) = e[rounds]
  BY <1>4, RoundsAre
<1> DEFINE w == [k \in 0 .. rounds |-> Wholes(e[k], 16)]
<1>6. w \in [0 .. rounds -> Words]
  BY DEF Words
<1>7. RunsStandard(w, Wholes(v0, 16), m, rounds)
  <2>1. w[0] = Wholes(v0, 16)
    <3>1. 0 \in 0 .. rounds /\ e[0] = v0
      BY <1>2 DEF Recurses
    <3> QED BY <3>1
  <2>2. ASSUME NEW k \in 1 .. rounds PROVE w[k] = StandardRound(w[k - 1], m, k - 1)
    <3>1. Wholes(Round(e[k - 1], mw, k - 1), 16) = StandardRound(Wholes(e[k - 1], 16), m, k - 1)
      BY <1>3, RoundStands
    <3>2. w[k] = Wholes(e[k], 16) /\ w[k - 1] = Wholes(e[k - 1], 16)
      BY <1>3
    <3> HIDE DEF w, m
    <3> QED BY <1>3, <3>1, <3>2
  <2> HIDE DEF w, m
  <2> QED BY <2>1, <2>2 DEF RunsStandard
<1>8. StandardRounds(Wholes(v0, 16), m, rounds) = w[rounds]
  <2>1. PICK z, n : z = Wholes(v0, 16) /\ n = m
    OBVIOUS
  <2> HIDE DEF w, m
  <2>2. StandardRounds(z, n, rounds) = w[rounds]
    BY <1>6, <1>7, <2>1, StandardRoundsAre
  <2> QED BY <2>1, <2>2
<1>9. rounds \in 0 .. rounds
  OBVIOUS
<1>10. w[rounds] = Wholes(e[rounds], 16) /\ e[rounds] \in Halves
  BY <1>9
<1> HIDE DEF w
<1> QED BY <1>5, <1>8, <1>10

----------------------------------------------------------------------------
(* What the rounds begin with.                                              *)

\* All ones.
LEMMA OnesIs ==
  /\ 2 ^ HalfBits - 1 \in Half
  /\ \A x \in Half : 2 ^ HalfBits - 1 - x \in Half
  /\ Joined(2 ^ HalfBits - 1, 2 ^ HalfBits - 1) = 2 ^ WordBits2 - 1
<1>1. PICK p \in Nat \ {0} : p = 2 ^ HalfBits /\ 2 ^ (2 * HalfBits) = p * p
  BY HalfFacts
<1>2. p - 1 \in 0 .. p - 1 /\ \A x \in 0 .. p - 1 : p - 1 - x \in 0 .. p - 1
  BY <1>1
<1>3. (p - 1) + (p - 1) * p = p * p - 1
  BY <1>1
<1> QED BY <1>1, <1>2, <1>3 DEF Half, Joined, WordBits2

\* An exclusive or with all ones is what is missing to them.
LEMMA XorOnes ==
  ASSUME NEW x \in Half
  PROVE  Xor(x, 2 ^ HalfBits - 1) = 2 ^ HalfBits - 1 - x
<1>1. PICK w : w = HalfBits /\ Powered(w) /\ w \in Nat
  BY HalfFacts
<1>2. PICK p \in Nat \ {0} : p = 2 ^ w
  BY <1>1, HalfFacts
<1>3. x \in Nat /\ x <= p - 1 /\ p - 1 \in Half /\ p - 1 - x \in Half
  BY <1>1, <1>2, OnesIs DEF Half
<1>4. ASSUME NEW y \in Nat, y <= p - 1, NEW n \in 0 .. w - 1
      PROVE  Bit(y, n) \in {0, 1} /\ Bit(p - 1 - y, n) = 1 - Bit(y, n)
  <2>1. PICK q \in Nat \ {0}, s \in Nat \ {0} : q = 2 ^ n /\ p = (2 * s) * q
    <3>1. n \in 0 .. w /\ w \in 0 .. w /\ n + 1 \in 0 .. w /\ n < w /\ w - (n + 1) \in 0 .. w
          /\ n + 1 <= w
      BY <1>1
    <3>2. PICK q \in Nat \ {0}, s \in Nat \ {0}, t \in Nat \ {0} :
            q = 2 ^ n /\ s = 2 ^ (w - (n + 1)) /\ t = 2 ^ (n + 1) /\ p = s * t /\ t = 2 * q
      BY <1>1, <1>2, <3>1, PoweredFacts
    <3>3. s * (2 * q) = (2 * s) * q
      BY ONLY q \in Nat, s \in Nat
    <3> QED BY <3>2, <3>3
  <2>2. PICK z \in Nat, r \in Nat : z = y \div q /\ r <= q - 1 /\ y = z * q + r
    <3>1. y \div q \in Nat /\ y % q \in 0 .. q - 1 /\ y = ((y \div q) * q) + (y % q)
      BY DivModOf
    <3>2. y % q \in Nat /\ y % q <= q - 1
      BY <3>1
    <3> QED BY <3>1, <3>2
  <2>3. z <= 2 * s - 1
    <3>1. ASSUME z >= 2 * s PROVE FALSE
      <4>1. (2 * s) * q <= z * q /\ z * q \in Nat
        <5>1. 2 * s \in Nat
          OBVIOUS
        <5> QED BY <2>2, <3>1, <5>1, ProductMonotone, ProductType
      <4> QED BY <1>2, <1>4, <2>1, <2>2, <4>1
    <3> QED BY <2>1, <2>2, <3>1
  <2>4. PICK c \in Nat, t \in Nat : c = 2 * s - 1 - z /\ t = q - 1 - r /\ t < q
    BY <2>1, <2>2, <2>3
  <2>5. p - 1 - y = c * q + t
    <3>1. c * q = (2 * s) * q - q - z * q
      BY ONLY <2>4, c \in Nat, q \in Nat, s \in Nat, z \in Nat
    <3>2. z * q \in Nat
      BY <2>2, ProductType
    <3> QED BY <1>2, <1>4, <2>1, <2>2, <2>4, <3>1, <3>2
  <2>6. (p - 1 - y) \div q = c
    <3>1. (c * q + t) \div q = c
      BY <2>1, <2>4, DivModIs
    <3> QED BY <2>5, <3>1
  <2>7. z % 2 \in {0, 1} /\ c % 2 = 1 - (z % 2)
    BY <2>2, <2>3, <2>4
  <2> QED BY <2>1, <2>2, <2>6, <2>7 DEF Bit
<1>5. ASSUME NEW n \in 0 .. w - 1 PROVE Bit(Xor(x, p - 1), n) = 1 <=> Bit(p - 1 - x, n) = 1
  <2>1. Bit(x, n) \in {0, 1} /\ Bit(p - 1 - x, n) = 1 - Bit(x, n)
    BY <1>3, <1>4
  <2>2. Bit(p - 1, n) = 1
    <3>1. p - 1 - 0 = p - 1 /\ 0 <= p - 1 /\ 0 \in Nat
      BY <1>2
    <3>2. Bit(p - 1, n) = 1 - Bit(0, n)
      BY <1>4, <3>1
    <3>3. PICK q \in Nat \ {0} : q = 2 ^ n
      BY <1>1, PoweredFacts
    <3>4. 0 \div q = 0
      <4>1. 0 * q + 0 = 0 /\ 0 < q
        OBVIOUS
      <4> QED BY <4>1, DivModIs
    <3> QED BY <3>2, <3>3, <3>4 DEF Bit
  <2>3. Bit(Xor(x, p - 1), n) = IF Bit(x, n) # Bit(p - 1, n) THEN 1 ELSE 0
    BY <1>1, <1>3, XorBit
  <2> QED BY <2>1, <2>2, <2>3
<1>6. Xor(x, p - 1) \in 0 .. 2 ^ w - 1 /\ p - 1 - x \in 0 .. 2 ^ w - 1
  BY <1>1, <1>3, XorIs DEF Half
<1>7. Xor(x, p - 1) = p - 1 - x
  BY <1>1, <1>5, <1>6, SameBits
<1> QED BY <1>1, <1>2, <1>7

LEMMA MessageWordsType ==
  ASSUME NEW m \in Halves
  PROVE  MessageWords(m) \in Halves
<1> DEFINE at(n) == IF n \in DOMAIN m THEN m[n] ELSE 0
<1>1. ASSUME NEW n PROVE at(n) \in Half
  BY HalfFacts DEF Halves
<1>2. ASSUME NEW x \in Half, NEW n \in 0 .. HalfBits PROVE Shifted(x, n) \in Half
  <2>1. PICK p \in Nat \ {0}, q \in Nat : p = 2 ^ HalfBits /\ q = 2 ^ n /\ x \in Nat
    BY HalfFacts, PoweredFacts
  <2>2. x * q \in Nat
    BY <2>1, ProductType
  <2>3. (x * q) % p \in 0 .. p - 1
    BY <2>1, <2>2, ModType
  <2> QED BY <2>1, <2>3 DEF Shifted, Half
<1>3. /\ Quarter \in 0 .. HalfBits /\ 2 * Quarter \in 0 .. HalfBits
      /\ 3 * Quarter \in 0 .. HalfBits
  BY HalfFacts, HalvesAssumption DEF Quarter
<1> HIDE DEF at
<1>4. ASSUME NEW i PROVE B2B_GET32(m, i) \in Half
  <2>1. PICK a \in Half, b \in Half, c \in Half, d \in Half :
          /\ a = at(i) /\ b = Shifted(at(i + 1), Quarter)
          /\ c = Shifted(at(i + 2), 2 * Quarter) /\ d = Shifted(at(i + 3), 3 * Quarter)
    BY <1>1, <1>2, <1>3
  <2>2. Xor(a, b) \in Half /\ Xor(c, d) \in Half
    BY XorIs
  <2>3. B2B_GET32(m, i) = Xor(Xor(a, b), Xor(c, d))
    BY <2>1 DEF B2B_GET32, at
  <2> QED BY <2>2, <2>3, XorIs
<1> QED BY <1>4 DEF MessageWords, Halves

\* The halves of what each word begins with.
StartWord(h, t, f, n) ==
  CASE n < 8 -> Wholes(h, 8)[n]
    [] n \in {12, 13} ->
         WXor(Joined(IV[2 * (n - 8) + 1], IV[2 * (n - 8) + 2]), Wholes(t, 2)[n - 12])
    [] n = 14 /\ f -> WXor(Joined(IV[2 * 6 + 1], IV[2 * 6 + 2]), 2 ^ WordBits2 - 1)
    [] OTHER -> Joined(IV[2 * (n - 8) + 1], IV[2 * (n - 8) + 2])

HalfWord(h, t, f, i) ==
  CASE i < 16 -> h[i]
    [] i \in 24 .. 27 -> Xor(IV[i - 15], t[i - 24])
    [] i \in 28 .. 29 /\ f -> 2 ^ HalfBits - 1 - IV[i - 15]
    [] OTHER -> IV[i - 15]

HalfWordFits(h, t, f, i) ==
  /\ i < 16 => HalfWord(h, t, f, i) = h[i]
  /\ i \in 24 .. 27 => HalfWord(h, t, f, i) = Xor(IV[i - 15], t[i - 24])
  /\ i \in 28 .. 29 /\ f => HalfWord(h, t, f, i) = 2 ^ HalfBits - 1 - IV[i - 15]
  /\ ~(i < 16) /\ i \notin 24 .. 27 /\ ~(i \in 28 .. 29 /\ f)
       => HalfWord(h, t, f, i) = IV[i - 15]

LEMMA HalfWordIs ==
  ASSUME NEW h, NEW t, NEW f \in BOOLEAN, NEW i \in 0 .. 31
  PROVE  HalfWordFits(h, t, f, i)
<1>1. /\ ~(i < 16 /\ i \in 24 .. 27) /\ ~(i < 16 /\ i \in 28 .. 29)
      /\ ~(i \in 24 .. 27 /\ i \in 28 .. 29)
  OBVIOUS
<1>2. i < 16 => HalfWord(h, t, f, i) = h[i]
  BY <1>1, Zenon DEF HalfWord
<1>3. i \in 24 .. 27 => HalfWord(h, t, f, i) = Xor(IV[i - 15], t[i - 24])
  BY <1>1, Zenon DEF HalfWord
<1>4. i \in 28 .. 29 /\ f => HalfWord(h, t, f, i) = 2 ^ HalfBits - 1 - IV[i - 15]
  BY <1>1, Zenon DEF HalfWord
<1>5. ~(i < 16) /\ i \notin 24 .. 27 /\ ~(i \in 28 .. 29 /\ f)
        => HalfWord(h, t, f, i) = IV[i - 15]
  BY Zenon DEF HalfWord
<1> QED BY <1>2, <1>3, <1>4, <1>5 DEF HalfWordFits

StartWordFits(h, t, f, n) ==
  /\ n < 8 => StartWord(h, t, f, n) = Wholes(h, 8)[n]
  /\ n \in {12, 13} =>
       StartWord(h, t, f, n)
         = WXor(Joined(IV[2 * (n - 8) + 1], IV[2 * (n - 8) + 2]), Wholes(t, 2)[n - 12])
  /\ n = 14 /\ f =>
       StartWord(h, t, f, n)
         = WXor(Joined(IV[2 * 6 + 1], IV[2 * 6 + 2]), 2 ^ WordBits2 - 1)
  /\ ~(n < 8) /\ n \notin {12, 13} /\ ~(n = 14 /\ f) =>
       StartWord(h, t, f, n) = Joined(IV[2 * (n - 8) + 1], IV[2 * (n - 8) + 2])

LEMMA StartWordIs ==
  ASSUME NEW h, NEW t, NEW f \in BOOLEAN, NEW n \in 0 .. 15
  PROVE  StartWordFits(h, t, f, n)
<1>1. /\ ~(n < 8 /\ n \in {12, 13}) /\ ~(n < 8 /\ n = 14) /\ ~(n \in {12, 13} /\ n = 14)
  OBVIOUS
<1>2. n < 8 => StartWord(h, t, f, n) = Wholes(h, 8)[n]
  BY <1>1, Zenon DEF StartWord
<1>3. n \in {12, 13} =>
        StartWord(h, t, f, n)
          = WXor(Joined(IV[2 * (n - 8) + 1], IV[2 * (n - 8) + 2]), Wholes(t, 2)[n - 12])
  BY <1>1, Zenon DEF StartWord
<1>4. n = 14 /\ f =>
        StartWord(h, t, f, n) = WXor(Joined(IV[2 * 6 + 1], IV[2 * 6 + 2]), 2 ^ WordBits2 - 1)
  BY <1>1, Zenon DEF StartWord
<1>5. ~(n < 8) /\ n \notin {12, 13} /\ ~(n = 14 /\ f) =>
        StartWord(h, t, f, n) = Joined(IV[2 * (n - 8) + 1], IV[2 * (n - 8) + 2])
  BY Zenon DEF StartWord
<1> QED BY <1>2, <1>3, <1>4, <1>5 DEF StartWordFits

----------------------------------------------------------------------------
(* Blake2 on halves is Blake2 on words.                                     *)

\* What the halves begin with is what the words begin with.
LEMMA StartStands ==
  ASSUME NEW h \in [0 .. 15 -> Half], NEW t \in [0 .. 3 -> Half], NEW f \in BOOLEAN
  PROVE  /\ WorkVariables(h, t, f) \in Halves
         /\ Wholes(WorkVariables(h, t, f), 16) = [n \in 0 .. 15 |-> StartWord(h, t, f, n)]
<1> DEFINE v == WorkVariables(h, t, f)
           P == 2 ^ HalfBits
<1>1. v = [i \in 0 .. 31 |-> HalfWord(h, t, f, i)]
  BY DEF WorkVariables, HalfWord
<1>2. ASSUME NEW i \in 0 .. 31 PROVE HalfWordFits(h, t, f, i)
  BY HalfWordIs
<1>3. ASSUME NEW n \in 0 .. 15 PROVE StartWordFits(h, t, f, n)
  BY StartWordIs
<1>4. IV \in [1 .. 16 -> Half]
  BY HalvesAssumption
<1>5. ASSUME NEW i \in 16 .. 31 PROVE IV[i - 15] \in Half
  <2>1. i - 15 \in 1 .. 16
    OBVIOUS
  <2> QED BY <1>4, <2>1
<1>6. ASSUME NEW i \in 0 .. 31 PROVE HalfWord(h, t, f, i) \in Half
  <2>1. CASE i < 16
    <3>1. i \in 0 .. 15 /\ i < 16
      BY <2>1
    <3> QED BY <1>2, <2>1, <3>1 DEF HalfWordFits
  <2>2. CASE i \in 24 .. 27
    <3>1. i - 24 \in 0 .. 3 /\ i \in 16 .. 31
      BY <2>2
    <3>2. t[i - 24] \in Half /\ IV[i - 15] \in Half
      BY <1>5, <3>1
    <3> QED BY <1>2, <2>2, <3>2, XorIs DEF HalfWordFits
  <2>3. CASE i \in 28 .. 29 /\ f
    <3>1. P - 1 - IV[i - 15] \in Half
      <4>1. i \in 16 .. 31
        BY <2>3
      <4> QED BY <1>5, <4>1, OnesIs
    <3> QED BY <1>2, <2>3, <3>1 DEF HalfWordFits
  <2>4. CASE ~(i < 16) /\ i \notin 24 .. 27 /\ ~(i \in 28 .. 29 /\ f)
    <3>1. i \in 16 .. 31
      BY <2>4
    <3> QED BY <1>2, <1>5, <2>4, <3>1 DEF HalfWordFits
  <2> QED BY <2>1, <2>2, <2>3, <2>4
<1>7. v \in Halves
  BY <1>1, <1>6 DEF Halves
<1>8. ASSUME NEW n \in 0 .. 15 PROVE Joined(v[2 * n], v[2 * n + 1]) = StartWord(h, t, f, n)
  <2>1. PICK i \in 0 .. 31, j \in 0 .. 31 : i = 2 * n /\ j = 2 * n + 1
    <3>1. 2 * n \in 0 .. 31 /\ 2 * n + 1 \in 0 .. 31
      OBVIOUS
    <3> QED BY <3>1
  <2>2. v[2 * n] = HalfWord(h, t, f, i) /\ v[2 * n + 1] = HalfWord(h, t, f, j)
    BY <1>1, <2>1
  <2>3. CASE n < 8
    <3>1. i < 16 /\ j < 16 /\ n \in 0 .. 8 - 1
      BY <2>1, <2>3
    <3>2. HalfWord(h, t, f, i) = h[i] /\ HalfWord(h, t, f, j) = h[j]
      BY <1>2, <3>1 DEF HalfWordFits
    <3>3. Wholes(h, 8)[n] = Joined(h[i], h[j])
      BY <2>1, <3>1 DEF Wholes, Whole, Joined
    <3> QED BY <1>3, <2>2, <2>3, <3>2, <3>3 DEF StartWordFits
  <2> DEFINE iv0 == IV[2 * (n - 8) + 1]
             iv1 == IV[2 * (n - 8) + 2]
  <2>4. ASSUME ~(n < 8)
        PROVE  iv0 = IV[i - 15] /\ iv1 = IV[j - 15] /\ iv0 \in Half /\ iv1 \in Half
    <3>1. /\ i - 15 = 2 * (n - 8) + 1 /\ j - 15 = 2 * (n - 8) + 2
          /\ i \in 16 .. 31 /\ j \in 16 .. 31
      BY <2>1, <2>4
    <3> QED BY <1>5, <3>1
  <2>5. CASE n \in {12, 13}
    <3>1. /\ i \in 24 .. 27 /\ j \in 24 .. 27 /\ ~(n < 8) /\ n - 12 \in 0 .. 2 - 1
          /\ i - 24 = 2 * (n - 12) /\ j - 24 = 2 * (n - 12) + 1
          /\ i - 24 \in 0 .. 3 /\ j - 24 \in 0 .. 3
      BY <2>1, <2>5
    <3>2. /\ HalfWord(h, t, f, i) = Xor(IV[i - 15], t[i - 24])
          /\ HalfWord(h, t, f, j) = Xor(IV[j - 15], t[j - 24])
      BY <1>2, <3>1 DEF HalfWordFits
    <3>3. PICK t0 \in Half, t1 \in Half : t0 = t[i - 24] /\ t1 = t[j - 24]
      BY <3>1
    <3>4. Wholes(t, 2)[n - 12] = Joined(t0, t1)
      BY <3>1, <3>3 DEF Wholes, Whole, Joined
    <3>5. iv0 = IV[i - 15] /\ iv1 = IV[j - 15] /\ iv0 \in Half /\ iv1 \in Half
      BY <2>4, <3>1
    <3>6. StartWord(h, t, f, n) = WXor(Joined(iv0, iv1), Joined(t0, t1))
      BY <1>3, <2>5, <3>4 DEF StartWordFits
    <3> HIDE DEF iv0, iv1, v
    <3>7. WXor(Joined(iv0, iv1), Joined(t0, t1)) = Joined(Xor(iv0, t0), Xor(iv1, t1))
      <4>1. XorsByHalves(iv0, iv1, t0, t1)
        BY <3>5, PairXor
      <4> QED BY <4>1 DEF XorsByHalves
    <3> QED BY ONLY <2>2, <3>2, <3>3, <3>5, <3>6, <3>7
  <2>6. CASE n = 14 /\ f
    <3>1. i \in 28 .. 29 /\ j \in 28 .. 29 /\ ~(n < 8) /\ 2 * (n - 8) = 2 * 6
      BY <2>1, <2>6
    <3>2. /\ HalfWord(h, t, f, i) = P - 1 - IV[i - 15]
          /\ HalfWord(h, t, f, j) = P - 1 - IV[j - 15]
      BY <1>2, <2>6, <3>1 DEF HalfWordFits
    <3>3. iv0 = IV[i - 15] /\ iv1 = IV[j - 15] /\ iv0 \in Half /\ iv1 \in Half
      BY <2>4, <3>1
    <3>4. StartWord(h, t, f, n) = WXor(Joined(iv0, iv1), 2 ^ WordBits2 - 1)
      BY <1>3, <2>6, <3>1 DEF StartWordFits
    <3>5. PICK o \in Half : o = P - 1 /\ Joined(o, o) = 2 ^ WordBits2 - 1
      BY OnesIs
    <3>6. WXor(Joined(iv0, iv1), Joined(o, o)) = Joined(Xor(iv0, o), Xor(iv1, o))
      <4>1. XorsByHalves(iv0, iv1, o, o)
        BY <3>3, PairXor
      <4> QED BY <4>1 DEF XorsByHalves
    <3>7. Xor(iv0, o) = P - 1 - iv0 /\ Xor(iv1, o) = P - 1 - iv1
      BY <3>3, <3>5, XorOnes
    <3> HIDE DEF P, iv0, iv1, v
    <3> QED BY ONLY <2>2, <3>2, <3>3, <3>4, <3>5, <3>6, <3>7
  <2>7. CASE ~(n < 8) /\ n \notin {12, 13} /\ ~(n = 14 /\ f)
    <3>1. /\ ~(i < 16) /\ i \notin 24 .. 27 /\ ~(i \in 28 .. 29 /\ f)
          /\ ~(j < 16) /\ j \notin 24 .. 27 /\ ~(j \in 28 .. 29 /\ f)
      BY <2>1, <2>7
    <3>2. HalfWord(h, t, f, i) = IV[i - 15] /\ HalfWord(h, t, f, j) = IV[j - 15]
      BY <1>2, <3>1 DEF HalfWordFits
    <3>3. StartWord(h, t, f, n) = Joined(iv0, iv1)
      BY <1>3, <2>7 DEF StartWordFits
    <3> QED BY <2>2, <2>4, <2>7, <3>2, <3>3
  <2> QED BY <2>3, <2>5, <2>6, <2>7
<1>9. Wholes(v, 16) = [n \in 0 .. 15 |-> Joined(v[2 * n], v[2 * n + 1])]
  BY DEF Wholes, Whole, Joined
<1> HIDE DEF v
<1>10. Wholes(v, 16) = [n \in 0 .. 15 |-> StartWord(h, t, f, n)]
  BY ONLY <1>8, <1>9
<1> QED BY <1>7, <1>10 DEF v

\* Blake2 on halves is Blake2 on words.
CompressesAs(h, m, t, f, rounds) ==
  \A n \in 0 .. 7 :
    Joined(F(h, m, t, f, rounds)[2 * n], F(h, m, t, f, rounds)[2 * n + 1])
      = Compress(Wholes(h, 8), Wholes(MessageWords(m), 16), Wholes(t, 2), f, rounds)[n]

LEMMA FIsCompress ==
  ASSUME NEW h \in [0 .. 15 -> Half], NEW m \in Halves, NEW t \in [0 .. 3 -> Half],
         NEW f \in BOOLEAN, NEW rounds \in Nat
  PROVE  CompressesAs(h, m, t, f, rounds)
<1> DEFINE mw == MessageWords(m)
           v0 == WorkVariables(h, t, f)
           start == [n \in 0 .. 15 |-> StartWord(h, t, f, n)]
           final == RoundsOf(v0, mw, rounds)
           word == StandardRounds(start, Wholes(mw, 16), rounds)
           words == Wholes(h, 8)
<1>1. F(h, m, t, f, rounds) = [i \in 0 .. 15 |-> Xor(Xor(h[i], final[i]), final[i + 16])]
  BY DEF F, RoundsOf
<1>2. Compress(words, Wholes(mw, 16), Wholes(t, 2), f, rounds)
        = [n \in 0 .. 7 |-> WXor(WXor(words[n], word[n]), word[n + 8])]
  BY DEF Compress, StandardRounds, StartWord, Joined
<1>3. mw \in Halves /\ v0 \in Halves /\ Wholes(v0, 16) = start
  BY MessageWordsType, StartStands
<1> HIDE DEF mw, v0, start
<1>4. final \in Halves /\ Wholes(final, 16) = word
  BY <1>3, RoundsStand
<1> HIDE DEF final, word, words
<1>5. ASSUME NEW n \in 0 .. 7
      PROVE  Joined(Xor(Xor(h[2 * n], final[2 * n]), final[2 * n + 16]),
                    Xor(Xor(h[2 * n + 1], final[2 * n + 1]), final[2 * n + 1 + 16]))
               = WXor(WXor(words[n], word[n]), word[n + 8])
  <2>1. /\ n \in 0 .. 15 /\ n + 8 \in 0 .. 15 /\ n \in 0 .. 8 - 1
        /\ 2 * (n + 8) = 2 * n + 16 /\ 2 * (n + 8) + 1 = 2 * n + 1 + 16
        /\ 2 * n \in 0 .. 15 /\ 2 * n + 1 \in 0 .. 15
    OBVIOUS
  <2>2. PICK a \in Half, b \in Half : a = h[2 * n] /\ b = h[2 * n + 1]
    BY <2>1
  <2>3. words[n] = Joined(a, b)
    BY <2>1, <2>2 DEF words, Wholes, Whole, Joined
  <2>4. PICK c \in Half, d \in Half :
          c = final[2 * n] /\ d = final[2 * n + 1] /\ word[n] = Joined(c, d)
    BY <1>4, <2>1, WholesAre
  <2>5. PICK k \in 0 .. 15 : k = n + 8
    BY <2>1
  <2>6. PICK p \in Half, q \in Half :
          p = final[2 * k] /\ q = final[2 * k + 1] /\ word[k] = Joined(p, q)
    BY <1>4, <2>5, WholesAre
  <2>7. PICK x \in Half, y \in Half : x = Xor(a, c) /\ y = Xor(b, d)
    BY XorIs
  <2>8. WXor(words[n], word[n]) = Joined(x, y)
    <3>1. WXor(Joined(a, b), Joined(c, d)) = Joined(Xor(a, c), Xor(b, d))
      <4>1. XorsByHalves(a, b, c, d)
        BY PairXor
      <4> QED BY <4>1 DEF XorsByHalves
    <3> QED BY ONLY <2>3, <2>4, <2>7, <3>1
  <2>9. WXor(Joined(x, y), Joined(p, q)) = Joined(Xor(x, p), Xor(y, q))
    <3>1. XorsByHalves(x, y, p, q)
      BY PairXor
    <3> QED BY <3>1 DEF XorsByHalves
  <2> QED BY <2>1, <2>2, <2>4, <2>5, <2>6, <2>7, <2>8, <2>9
<1>6. ASSUME NEW n \in 0 .. 7
      PROVE  /\ F(h, m, t, f, rounds)[2 * n]
                  = Xor(Xor(h[2 * n], final[2 * n]), final[2 * n + 16])
             /\ F(h, m, t, f, rounds)[2 * n + 1]
                  = Xor(Xor(h[2 * n + 1], final[2 * n + 1]), final[2 * n + 1 + 16])
  <2>1. PICK i \in 0 .. 15, j \in 0 .. 15 : i = 2 * n /\ j = 2 * n + 1
    <3>1. 2 * n \in 0 .. 15 /\ 2 * n + 1 \in 0 .. 15
      OBVIOUS
    <3> QED BY <3>1
  <2>2. /\ F(h, m, t, f, rounds)[i] = Xor(Xor(h[i], final[i]), final[i + 16])
        /\ F(h, m, t, f, rounds)[j] = Xor(Xor(h[j], final[j]), final[j + 16])
    BY <1>1
  <2> QED BY <2>1, <2>2
<1> QED BY <1>2, <1>5, <1>6 DEF CompressesAs, mw, words

\* Whatever the width of a half, a call of blake2f that is paid for answers what the
\* standard does with the words its halves stand for, given the message words that F
\* reads: no carry, bit or order is lost (09-blake2f.ts F).
THEOREM CompressionIsExact == ExecutionSpec => []CompressionExact
<1>1. Called => CompressionExact
  <2> SUFFICES ASSUME Called, Answered("blake2f"), result.exception = "NONE",
                      NEW n \in 0 .. 7
               PROVE  result.returnValue[2 * n + 1]
                        + result.returnValue[2 * n + 2] * 2 ^ HalfBits
                        = Compress(Wholes(request.data.h, 8),
                                   Wholes(MessageWords(request.data.m), 16),
                                   Wholes(request.data.t, 2), request.data.lastByte = 1,
                                   request.data.rounds)[n]
    BY DEF CompressionExact
  <2>1. /\ request \in Request /\ request.name = "blake2f"
        /\ result = Precompile(request.name, request.data, request.gasLimit)
    BY RequestAssumption DEF Called, Answered
  <2>2. PICK data, limit : data = request.data /\ limit = request.gasLimit
    OBVIOUS
  <2>3. /\ data.h \in [0 .. 15 -> Half] /\ data.m \in Halves /\ data.t \in [0 .. 3 -> Half]
        /\ data.rounds \in Nat
    BY <2>1, <2>2, RequestAssumption DEF Halves, Libraries, Curves
  <2>4. result = Blake2fRun(data, limit)
    BY <2>1, <2>2 DEF Precompile
  <2>5. PICK f \in BOOLEAN : f = (data.lastByte = 1)
    OBVIOUS
  <2>6. PICK output : output = F(data.h, data.m, data.t, f, data.rounds)
    OBVIOUS
  <2>7. result.returnValue = [k \in 1 .. 16 |-> output[k - 1]]
    <3>1. F(data.h, data.m, data.t, data.lastByte = 1, data.rounds) = output
      BY <2>5, <2>6
    <3> QED BY <2>4, <3>1 DEF Blake2fRun, Charged, Executed, OOGResult, ExecResult
  <2>8. /\ result.returnValue[2 * n + 1] = output[2 * n]
        /\ result.returnValue[2 * n + 2] = output[2 * n + 1]
    <3>1. PICK i \in 1 .. 16, j \in 1 .. 16 :
            i = 2 * n + 1 /\ j = 2 * n + 2 /\ i - 1 = 2 * n /\ j - 1 = 2 * n + 1
      <4>1. /\ 2 * n + 1 \in 1 .. 16 /\ 2 * n + 2 \in 1 .. 16
            /\ (2 * n + 1) - 1 = 2 * n /\ (2 * n + 2) - 1 = 2 * n + 1
        OBVIOUS
      <4> QED BY <4>1
    <3>2. result.returnValue[i] = output[i - 1] /\ result.returnValue[j] = output[j - 1]
      BY <2>7
    <3> QED BY <3>1, <3>2
  <2>9. CompressesAs(data.h, data.m, data.t, f, data.rounds)
    BY <2>3, FIsCompress
  <2>10. Joined(output[2 * n], output[2 * n + 1])
           = Compress(Wholes(data.h, 8), Wholes(MessageWords(data.m), 16),
                      Wholes(data.t, 2), f, data.rounds)[n]
    BY <2>6, <2>9 DEF CompressesAs
  <2>11. /\ result.returnValue[2 * n + 1] + result.returnValue[2 * n + 2] * 2 ^ HalfBits
              = Joined(output[2 * n], output[2 * n + 1])
         /\ f = (request.data.lastByte = 1)
    BY <2>2, <2>5, <2>8 DEF Joined
  <2> QED BY ONLY <2>2, <2>10, <2>11
<1> QED BY <1>1, Answers, PTL
=============================================================================
