---------------------------- MODULE Interpreter ----------------------------
(***************************************************************************)
(* Running bytecode: interpreter.ts, stack.ts, memory.ts, the handlers of  *)
(* opFns.ts that stay within one message, and what they ask of eei.ts.     *)
(*                                                                         *)
(* A behaviour is one activation of the interpreter, whose input, job, is  *)
(* chosen at the start: the code and the program counter to start at, the  *)
(* hardfork, the gas.  The bytes of code are opcodes; a byte that PUSH     *)
(* takes as data counts modulo the size of a byte.                         *)
(* Handlers that send messages or write storage are in Evm, Gas and        *)
(* Sstore; DELEGATECALL and STATICCALL are here for what the answer does   *)
(* to the stack, the memory and the logs of the caller.                    *)
(***************************************************************************)
EXTENDS Words, Opcodes

CONSTANTS
  Job,          \* the inputs: code, pc, fork, isStatic, gasLimit
  Env, Lookup,  \* what the environment answers: a word, a word for a word
  CallData, ExtCode,
  Answer,       \* what a message sent can come back with
  StackLimit,   \* 1024
  SafeOffset,   \* 2^53: BN.toNumber throws for this number and all above it
  Price,        \* gas prices other than the fees of Opcodes
  Keccak(_)     \* the hash of a sequence of bytes, a word

ASSUME JobAssumption ==
  \A j \in Job : /\ j.code \in Seq(0 .. 255)
                 /\ j.pc \in Nat
                 /\ j.fork \in Hardfork
                 /\ j.isStatic \in BOOLEAN
                 /\ j.gasLimit \in Nat
                 \* with words of 32 bytes, so it is for all PUSH1 .. PUSH32
                 /\ \A n \in DOMAIN j.code :
                      Name(j.fork, j.code[n]) = "PUSH" => Width(j.code[n]) <= WordBytes
ASSUME StackLimitAssumption == StackLimit \in Nat
ASSUME SafeOffsetAssumption == SafeOffset \in Nat /\ WordBytes < SafeOffset

VARIABLES
  job,
  scan,             \* i of _getValidJumpDests
  validJumps,
  programCounter,
  stack,            \* _store, the top at its end
  memory,           \* _store, a sequence of bytes
  memoryWordCount,
  gasLeft,
  lastReturned,     \* _lastReturned of the EEI
  logs,
  returnValue,
  status,           \* where run is: validating, running, stopped, refused
  exception         \* the error run returns, NoError if none

runVars == <<stack, memory, memoryWordCount, gasLeft, lastReturned, logs,
             returnValue>>
vars == <<job, scan, validJumps, programCounter, runVars, status, exception>>

NoError == "NONE"

\* An activation, once its input is known
Activation ==
  /\ scan = 0
  /\ validJumps = {}
  /\ programCounter = job.pc
  /\ stack = <<>>
  /\ memory = <<>>
  /\ memoryWordCount = 0
  /\ gasLeft = job.gasLimit
  /\ lastReturned = <<>>
  /\ logs = <<>>
  /\ returnValue = <<>>
  /\ status = "validating"
  /\ exception = NoError

Init == job \in Job /\ Activation

CodeByte(at) == job.code[at + 1]
CodeName(at) == Name(job.fork, CodeByte(at))

----------------------------------------------------------------------------
(* run: the jump destinations, then the loop. *)

\* A round of the loop of _getValidJumpDests
FindJumpDest ==
  /\ status = "validating"
  /\ scan < Len(job.code)
  /\ validJumps' = IF CodeName(scan) = "JUMPDEST" THEN validJumps \cup {scan}
                                                  ELSE validJumps
  /\ scan' = scan + 1 + IF CodeName(scan) = "PUSH" THEN Width(CodeByte(scan)) ELSE 0
  /\ UNCHANGED <<job, programCounter, runVars, status, exception>>

\* The range check before the first opcode
Start ==
  /\ status = "validating"
  /\ scan >= Len(job.code)
  /\ status' = IF programCounter # 0 /\ programCounter \notin 0 .. Len(job.code) - 1
               THEN "refused" ELSE "running"
  /\ UNCHANGED <<job, scan, validJumps, programCounter, runVars, exception>>

\* The loop ends behind the last byte of the code
EndOfCode ==
  /\ status = "running"
  /\ programCounter >= Len(job.code)
  /\ status' = "stopped"
  /\ UNCHANGED <<job, scan, validJumps, programCounter, runVars, exception>>

----------------------------------------------------------------------------
(* The stack and the memory. *)

Top(n) == stack[Len(stack) + 1 - n]
Args(n) == [k \in 1 .. n |-> Top(k)]
Popped(n) == SubSeq(stack, 1, Len(stack) - n)

\* Mutant: positions are counted from one.
SwappedFromOne(position) ==
  [stack EXCEPT ![Len(stack)] = stack[Len(stack) + 1 - position],
                ![Len(stack) + 1 - position] = stack[Len(stack)]]

\* Stack.swap, of the top and the item at position
Swapped(position) ==
  [stack EXCEPT ![Len(stack)] = stack[Len(stack) - position],
                ![Len(stack) - position] = stack[Len(stack)]]

WordsFor(bytes) == (bytes + WordBytes - 1) \div WordBytes

\* Memory.extend, Memory.write and Memory.read
Extended(mem, offset, size) ==
  IF size = 0 THEN mem
  ELSE mem \o [n \in 1 .. WordsFor(offset + size) * WordBytes - Len(mem) |-> 0]
Written(mem, offset, bytes) ==
  [n \in DOMAIN mem |-> IF n - offset \in DOMAIN bytes THEN bytes[n - offset]
                                                       ELSE mem[n]]
Read(mem, offset, size) ==
  [n \in 1 .. size |-> IF offset + n <= Len(mem) THEN mem[offset + n] ELSE 0]

Store(offset, bytes) ==
  memory' = Written(Extended(memory, offset, Len(bytes)), offset, bytes)

\* getDataSlice: length bytes of data, zeros behind its end
DataSlice(data, offset, length) ==
  LET from == IF offset > Len(data) THEN Len(data) ELSE offset
      end == IF from + length > Len(data) THEN Len(data) ELSE from + length
      slice == SubSeq(data, from + 1, end)
  IN  slice \o [n \in 1 .. length - Len(slice) |-> 0]

----------------------------------------------------------------------------
(* Opcodes by what their handlers do. *)

Op == CodeName(programCounter)
OpWidth == Width(CodeByte(programCounter))

\* What the environment knows: one word each, or one for an argument
EnvOps == {"ADDRESS", "ORIGIN", "CALLER", "CALLVALUE", "GASPRICE", "COINBASE",
           "TIMESTAMP", "NUMBER", "DIFFICULTY", "GASLIMIT", "CHAINID",
           "SELFBALANCE"}
LookupOps == {"BALANCE", "EXTCODESIZE", "EXTCODEHASH", "SLOAD", "BLOCKHASH"}
SizeOps == {"CALLDATASIZE", "CODESIZE", "RETURNDATASIZE"}
CopyOps == {"CALLDATACOPY", "CODECOPY", "RETURNDATACOPY", "EXTCODECOPY"}
CallOps == {"DELEGATECALL", "STATICCALL"}
PushingOps == ComputingOps \cup EnvOps \cup LookupOps \cup SizeOps
              \cup {"CALLDATALOAD", "PC", "MSIZE", "GAS", "MLOAD", "SHA3"}

Pops(op) ==
  CASE op \in (ComputingOps \ (ModularOps \cup UnaryOps))
              \cup {"SHA3", "MSTORE", "MSTORE8", "JUMPI", "RETURN", "REVERT"} -> 2
    [] op \in ModularOps \cup (CopyOps \ {"EXTCODECOPY"}) -> 3
    [] op \in UnaryOps \cup LookupOps
              \cup {"CALLDATALOAD", "MLOAD", "JUMP", "POP"} -> 1
    [] op = "EXTCODECOPY" -> 4
    [] op \in CallOps -> 6
    [] op = "LOG" -> 2 + OpWidth
    [] OTHER -> 0

\* The environment answers with words and bytes; nothing has a negative price.
ASSUME EnvironmentAssumption ==
  /\ Env \in [EnvOps -> Word] /\ Lookup \in [LookupOps -> [Word -> Word]]
  /\ CallData \in Seq(Byte) /\ ExtCode \in Seq(Byte)
  /\ \A answer \in Answer :
       /\ answer.data \in Seq(Byte) /\ answer.gasUsed \in Nat
       /\ answer.logs \in Seq([topics : Seq(Word), data : Seq(Byte)])
  /\ \A of \in {"memory", "expByte", "sha3Word", "copy", "logTopic", "logData"} :
       Price[of] \in Nat
  /\ Price["quadCoeffDiv"] \in Nat \ {0}

\* How deep the stack must be: DUP and SWAP reach below what they take
Needs(op) ==
  CASE op = "DUP" -> OpWidth [] op = "SWAP" -> OpWidth + 1 [] OTHER -> Pops(op)

\* CALLDATALOAD, getDataSlice's sources, BLOCKHASH
DataWord(pos) ==
  IF pos > Len(CallData) THEN 0
  ELSE FromBytes(DataSlice(CallData, pos, WordBytes))
Source(op) ==
  CASE op = "CALLDATACOPY" -> CallData
    [] op = "CODECOPY" -> [n \in DOMAIN job.code |-> job.code[n] % 2 ^ ByteBits]
    [] op = "RETURNDATACOPY" -> lastReturned
    [] op = "EXTCODECOPY" -> ExtCode
BlockHash(number) ==
  LET diff == Env["NUMBER"] - number
  IN  IF diff > 256 \/ diff <= 0 THEN 0 ELSE Lookup["BLOCKHASH"][number]

\* The value a handler pushes
Pushed(op) ==
  CASE op \in ComputingOps -> Computed(op, Args(Pops(op)))
    [] op \in EnvOps -> Env[op]
    [] op = "BLOCKHASH" -> BlockHash(Top(1))
    [] op \in LookupOps \ {"BLOCKHASH"} -> Lookup[op][Top(1)]
    [] op = "CALLDATALOAD" -> DataWord(Top(1))
    [] op = "CALLDATASIZE" -> Len(CallData)
    [] op = "CODESIZE" -> Len(job.code)
    [] op = "RETURNDATASIZE" -> Len(lastReturned)
    [] op = "PC" -> programCounter
    [] op = "MSIZE" -> memoryWordCount * WordBytes
    [] op = "GAS" -> gasLeft - Fee(job.fork, op)
    [] op = "MLOAD" -> FromBytes(Read(memory, Top(1), WordBytes))
    [] op = "SHA3" -> Keccak(Read(memory, Top(1), Top(2)))

----------------------------------------------------------------------------
(* Gas: the fee, memory that grows, and what grows with the arguments. *)

\* Mutant: only what is sent is charged.
CallRegionsIn == {<<Top(3), Top(4)>>}

\* DELEGATECALL and STATICCALL: what is sent, and where the answer goes
CallRegions == {<<Top(3), Top(4)>>, <<Top(5), Top(6)>>}

\* The parts of memory a handler passes to subMemUsage: offset and length
Regions(op) ==
  CASE op = "MLOAD" \/ op = "MSTORE" -> {<<Top(1), WordBytes>>}
    [] op = "MSTORE8" -> {<<Top(1), 1>>}
    [] op \in {"SHA3", "LOG", "RETURN", "REVERT"} -> {<<Top(1), Top(2)>>}
    [] op \in CopyOps \ {"EXTCODECOPY"} -> {<<Top(1), Top(3)>>}
    [] op = "EXTCODECOPY" -> {<<Top(2), Top(4)>>}
    [] op \in CallOps -> CallRegions
    [] OTHER -> {}

\* What BN.toNumber throws for, a plain Error that ends the frame
Inexact(region) == region[1] >= SafeOffset \/ region[2] >= SafeOffset

\* The regions a handler makes numbers of before it can do anything else: what it
\* reads unless that is empty, and what a copy writes, empty or not
Converted(op) ==
  LET regions == IF op \in CallOps THEN {<<Top(3), Top(4)>>} ELSE Regions(op)
  IN  {r \in regions : r[2] # 0 \/ op \in CopyOps}

\* subMemUsage: memoryWordCount afterwards, and its cost; highestMemCost is
\* always the cost of memoryWordCount (Gas has it as a variable of its own)
WordsTouched(op) ==
  Max({memoryWordCount} \cup
      {WordsFor(r[1] + r[2]) : r \in {q \in Regions(op) : q[2] # 0}})
MemoryCost(words) ==
  words * Price.memory + (words * words) \div Price.quadCoeffDiv

ArgumentCost(op) ==
  CASE op = "EXP" -> Price.expByte * ByteLength(Top(2))
    [] op = "SHA3" -> Price.sha3Word * WordsFor(Top(2))
    [] op \in CopyOps -> Price.copy * WordsFor(Top(Pops(op)))
    [] op = "LOG" -> Price.logTopic * OpWidth + Price.logData * Top(2)
    [] OTHER -> 0

Cost(op) ==
  Fee(job.fork, op) + ArgumentCost(op)
    + MemoryCost(WordsTouched(op)) - MemoryCost(memoryWordCount)

\* What is charged before memory is read: SHA3 and LOG charge for the length later
CostBefore(op) ==
  Cost(op) - IF op \in {"SHA3", "LOG"} THEN ArgumentCost(op) ELSE 0

----------------------------------------------------------------------------
(* What a handler traps for, the first that applies. *)

\* Mutant: any JUMPDEST will do.
JumpIsMarked(dest) == dest < Len(job.code) /\ CodeName(dest) = "JUMPDEST"

\* The range check of JUMP and JUMPI, and jumpIsValid
JumpIsValid(dest) == dest <= Len(job.code) /\ dest \in validJumps

Jumps(op) == op = "JUMP" \/ (op = "JUMPI" /\ Top(2) # 0)

Grows(op) == op \in PushingOps \cup CallOps \cup {"PUSH", "DUP"}

Unknown(op) ==
  \/ op \in {"SHL", "SHR", "SAR", "EXTCODEHASH"} /\ ~Gte(job.fork, "constantinople")
  \/ op \in {"CHAINID", "SELFBALANCE"} /\ ~Gte(job.fork, "istanbul")

Refusal(op) ==
  IF op = "INVALID" THEN "INVALID_OPCODE"
  ELSE IF gasLeft < Fee(job.fork, op) THEN "OUT_OF_GAS"
  ELSE IF job.isStatic /\ op = "LOG" THEN "STATIC_STATE_CHANGE"
  ELSE IF Len(stack) < Needs(op) THEN "STACK_UNDERFLOW"
  ELSE IF Unknown(op) THEN "INVALID_OPCODE"
  ELSE IF op = "RETURNDATACOPY" /\ Top(2) + Top(3) > Len(lastReturned) THEN "OUT_OF_GAS"
  ELSE IF gasLeft < CostBefore(op) THEN "OUT_OF_GAS"
  ELSE IF \E r \in Converted(op) : Inexact(r) THEN "INEXACT"
  ELSE IF gasLeft < Cost(op) THEN "OUT_OF_GAS"
  ELSE IF Jumps(op) /\ ~JumpIsValid(Top(1)) THEN "INVALID_JUMP"
  ELSE IF op \in PushingOps /\ Pushed(op) > MaxInteger THEN "OUT_OF_RANGE"
  ELSE IF Grows(op) /\ Len(stack) - Pops(op) > StackLimit - 1 THEN "STACK_OVERFLOW"
  ELSE NoError

----------------------------------------------------------------------------
(* runStep: one handler. *)

Running == status = "running" /\ programCounter < Len(job.code)

\* The part every handler shares: the charge and the program counter
Executes(op) ==
  /\ Running
  /\ Op = op
  /\ Refusal(op) = NoError
  /\ gasLeft' = gasLeft - Cost(op)
  /\ memoryWordCount' = WordsTouched(op)
  /\ UNCHANGED <<job, scan, validJumps, exception>>

Continues == programCounter' = programCounter + 1 /\ UNCHANGED status

\* A trap other than STOP: run returns the error
Trap ==
  /\ Running
  /\ Refusal(Op) # NoError
  /\ exception' = Refusal(Op)
  /\ status' = "stopped"
  /\ UNCHANGED <<job, scan, validJumps, programCounter, runVars>>

\* Handlers that push one value for what they pop
PushResult(op) ==
  /\ op \in PushingOps
  /\ Executes(op)
  /\ stack' = Append(Popped(Pops(op)), Pushed(op))
  /\ Continues
  /\ UNCHANGED <<memory, lastReturned, logs, returnValue>>

Pop ==
  /\ Executes("POP")
  /\ stack' = Popped(1)
  /\ Continues
  /\ UNCHANGED <<memory, lastReturned, logs, returnValue>>

\* slice ends with the code: less is pushed than the opcode says
Push ==
  LET end == Min({programCounter + 1 + OpWidth, Len(job.code)})
      taken == SubSeq(job.code, programCounter + 2, end)
  IN  /\ Executes("PUSH")
      /\ stack' = Append(stack, FromBytes([n \in DOMAIN taken |-> taken[n] % 2 ^ ByteBits]))
      /\ programCounter' = programCounter + 1 + OpWidth
      /\ UNCHANGED <<memory, lastReturned, logs, returnValue, status>>

Dup ==
  /\ Executes("DUP")
  /\ stack' = Append(stack, Top(OpWidth))
  /\ Continues
  /\ UNCHANGED <<memory, lastReturned, logs, returnValue>>

Swap ==
  /\ Executes("SWAP")
  /\ stack' = Swapped(OpWidth)
  /\ Continues
  /\ UNCHANGED <<memory, lastReturned, logs, returnValue>>

\* JUMP, JUMPI and JUMPDEST
Jump(op) ==
  /\ op \in {"JUMP", "JUMPI", "JUMPDEST"}
  /\ Executes(op)
  /\ programCounter' = IF Jumps(op) THEN Top(1) ELSE programCounter + 1
  /\ stack' = Popped(Pops(op))
  /\ UNCHANGED <<memory, lastReturned, logs, returnValue, status>>

\* MSTORE and MSTORE8
StoreWord(op) ==
  /\ op \in {"MSTORE", "MSTORE8"}
  /\ Executes(op)
  /\ Store(Top(1), IF op = "MSTORE" THEN ToBytes(Top(2))
                                    ELSE <<Top(2) % 2 ^ ByteBits>>)
  /\ stack' = Popped(2)
  /\ Continues
  /\ UNCHANGED <<lastReturned, logs, returnValue>>

\* CALLDATACOPY, CODECOPY, RETURNDATACOPY and EXTCODECOPY
Copy(op) ==
  LET n == Pops(op)
  IN  /\ op \in CopyOps
      /\ Executes(op)
      /\ Store(Top(n - 2), DataSlice(Source(op), Top(n - 1), Top(n)))
      /\ stack' = Popped(n)
      /\ Continues
      /\ UNCHANGED <<lastReturned, logs, returnValue>>

Log ==
  /\ Executes("LOG")
  /\ logs' = Append(logs, [topics |-> [k \in 1 .. OpWidth |-> Top(k + 2)],
                           data |-> Read(memory, Top(1), Top(2))])
  /\ stack' = Popped(Pops("LOG"))
  /\ Continues
  /\ UNCHANGED <<memory, lastReturned, returnValue>>

\* STOP, RETURN and REVERT end the loop by a trap
Finish(op) ==
  /\ op \in {"STOP", "RETURN", "REVERT"}
  /\ Running
  /\ Op = op
  /\ Refusal(op) = NoError
  /\ gasLeft' = gasLeft - Cost(op)
  /\ memoryWordCount' = WordsTouched(op)
  /\ returnValue' = IF op = "STOP" THEN <<>> ELSE Read(memory, Top(1), Top(2))
  /\ exception' = IF op = "REVERT" THEN "REVERT" ELSE NoError
  /\ stack' = Popped(Pops(op))
  /\ programCounter' = programCounter + 1
  /\ status' = "stopped"
  /\ UNCHANGED <<job, scan, validJumps, memory, lastReturned, logs>>

\* DELEGATECALL and STATICCALL: maxCallGas, _baseCall and writeCallOutput
MaxCallGas(op) ==
  LET left == gasLeft - Cost(op)
  IN  Min({Top(1), left - left \div 64})

\* _baseCall: the caller is charged, and keeps the answer and its logs
MessageAnswered(op, answer) ==
  /\ op \in CallOps
  /\ Running
  /\ Op = op
  /\ Refusal(op) = NoError
  /\ answer.gasUsed <= MaxCallGas(op)
  /\ gasLeft' = gasLeft - Cost(op) - answer.gasUsed
  /\ memoryWordCount' = WordsTouched(op)
  /\ lastReturned' = answer.data
  /\ logs' = logs \o answer.logs
  /\ UNCHANGED <<job, scan, validJumps, returnValue>>

\* writeCallOutput makes numbers of the region if there is anything to write, which
\* may be to an empty one
OutputInexact(answer) == answer.data # <<>> /\ Inexact(<<Top(5), Top(6)>>)

\* What fits of the answer goes to memory
CallMessage(op, answer) ==
  LET size == Min({Len(answer.data), Top(6)})
  IN  /\ MessageAnswered(op, answer)
      /\ ~OutputInexact(answer)
      /\ Store(Top(5), DataSlice(answer.data, 0, size))
      /\ stack' = Append(Popped(6), Flag(answer.success))
      /\ Continues
      /\ UNCHANGED exception

\* The message has been sent and answered when writeCallOutput throws
LoseAnswer(op, answer) ==
  /\ MessageAnswered(op, answer)
  /\ OutputInexact(answer)
  /\ stack' = Popped(6)
  /\ programCounter' = programCounter + 1
  /\ exception' = "INEXACT"
  /\ status' = "stopped"
  /\ UNCHANGED memory

Handle ==
  \/ \E op \in PushingOps : PushResult(op)
  \/ Pop \/ Push \/ Dup \/ Swap \/ Log
  \/ \E op \in {"JUMP", "JUMPI", "JUMPDEST"} : Jump(op)
  \/ \E op \in {"MSTORE", "MSTORE8"} : StoreWord(op)
  \/ \E op \in CopyOps : Copy(op)
  \/ \E op \in {"STOP", "RETURN", "REVERT"} : Finish(op)
  \/ \E op \in CallOps, answer \in Answer :
       CallMessage(op, answer) \/ LoseAnswer(op, answer)

Next == FindJumpDest \/ Start \/ EndOfCode \/ Trap \/ Handle

Spec == Init /\ [][Next]_vars

----------------------------------------------------------------------------
(* Properties. *)

\* Every value a handler pushes is a word, although it is computed as an integer
\* of any size, and the stack keeps its limit (stack.ts push, opFns.ts).
TypeOK ==
  /\ job.gasLimit \in Nat
  /\ scan \in Nat
  /\ programCounter \in Nat
  /\ validJumps \subseteq 0 .. Len(job.code) - 1
  /\ stack \in Seq(Word) /\ Len(stack) <= StackLimit
  /\ memory \in Seq(Byte)
  /\ memoryWordCount \in Nat
  /\ gasLeft \in 0 .. job.gasLimit
  /\ status \in {"validating", "running", "stopped", "refused"}

\* Where the instructions of a code begin: at its first byte, and behind an
\* instruction and its data
After(code, fork, at) ==
  at + 1 + IF Name(fork, code[at + 1]) = "PUSH" THEN Width(code[at + 1]) ELSE 0
Starts(code, fork) ==
  LET begins[at \in 0 .. Len(code)] ==
        \/ at = 0
        \/ \E before \in 0 .. at - 1 : After(code, fork, before) = at /\ begins[before]
  IN  {at \in 0 .. Len(code) : begins[at]}

\* Data of a PUSH is never executed: a run that starts at an instruction only
\* ever gets to instructions, whatever the code jumps to (_getValidJumpDests)
OnBoundary ==
  /\ status = "running"
  /\ job.pc \in Starts(job.code, job.fork)
  /\ programCounter <= Len(job.code)
  => programCounter \in Starts(job.code, job.fork)

\* The memory that exists has been paid for: each handler that writes, or has
\* a callee's answer written, has charged that region before (subMemUsage)
MemoryIsCharged == Len(memory) <= memoryWordCount * WordBytes
=============================================================================
