----------------------------- MODULE Execution -----------------------------
(***************************************************************************)
(* What EVM._executeCall does with a message once its code is loaded: a    *)
(* precompile is called with the data and the gas of the message, other    *)
(* code is given to the interpreter.                                       *)
(***************************************************************************)
EXTENDS Interpreter, Precompiles, Bloom

CONSTANTS
  Request,      \* calls of precompiles: [name, data, gasLimit]
  NoRequest, NoResult,
  Addresses     \* the addresses of memory at which a run is compared with the machine

\* What a message can bring to a precompile: bytes, of which those of blake2f are
\* taken apart as far as its fields go.
ASSUME RequestAssumption ==
  /\ NoRequest \notin Request
  /\ \A r \in Request :
       /\ r.gasLimit \in Nat
       /\ \/ /\ r.name = "blake2f" /\ r.data.rounds \in Nat /\ r.data.h \in [0 .. 15 -> Half]
             /\ r.data.m \in [0 .. 31 -> Half] /\ r.data.t \in [0 .. 3 -> Half]
          \/ r.name \in {"modexp"} \cup Libraries /\ r.data \in Seq(Byte)

\* An address and a topic are words, and a hash is six bytes or more.
ASSUME BloomHashAssumption ==
  \A word \in Word : BloomHash(word) \in Seq(0 .. 255) /\ Len(BloomHash(word)) >= 6

VARIABLES
  request,      \* the call of a precompile, or NoRequest
  result        \* its ExecResult

allVars == <<vars, request, result>>

NoCode == [code |-> <<>>, pc |-> 0, fork |-> "istanbul", isStatic |-> FALSE,
           gasLimit |-> 0]

InitExecution ==
  /\ \/ job \in Job /\ request = NoRequest
     \/ job = NoCode /\ request \in Request
  /\ Activation
  /\ result = NoResult

RunPrecompile ==
  /\ request # NoRequest /\ result = NoResult
  /\ result' = Precompile(request.name, request.data, request.gasLimit)
  /\ UNCHANGED <<vars, request>>

RunInterpreter ==
  /\ request = NoRequest
  /\ Next
  /\ UNCHANGED <<request, result>>

NextExecution == RunPrecompile \/ RunInterpreter

ExecutionSpec == InitExecution /\ [][NextExecution]_allVars

----------------------------------------------------------------------------
(* Properties. *)

Answered(name) == result # NoResult /\ request.name = name

\* A precompile never uses more gas than it was given, and one that fails uses
\* all of it: EEI._baseCall charges the caller for it and says "this should
\* always be safe" (eei.ts _baseCall, the charges of lib/evm/precompiles).
PrecompileWithinLimit ==
  result # NoResult =>
    /\ result.gasUsed \in 0 .. request.gasLimit
    /\ result.exception # "NONE" =>
         result.gasUsed = request.gasLimit /\ result.returnValue = <<>>

\* modexp charges and answers what EIP-198 says, unless the data ends within
\* the three lengths, which are then read as shorter numbers, or the base has
\* no bytes, when the answer is one byte whatever the modulus (05-modexp.ts).
ModexpExact ==
  LET eip == Eip198(request.data)
      field(n) == FieldOf(request.data, n * WordBytes, WordBytes)
  IN  /\ Answered("modexp")
      /\ Len(request.data) >= 3 * WordBytes /\ field(0) # 0
      /\ \A n \in 0 .. 2 : field(n) <= MaxSize
      =>
        result = IF request.gasLimit < eip.gas THEN OOGResult(request.gasLimit)
                 ELSE Executed(eip.gas, BigEndian(eip.value, eip.length))

\* Blake2 on halves is Blake2 on words, given the message words that F reads:
\* carries, rotations and the order of the mixing are right (09-blake2f.ts F).
CompressionExact ==
  LET data == request.data
      compressed == Compress(Wholes(data.h, 8), Wholes(MessageWords(data.m), 16),
                             Wholes(data.t, 2), data.lastByte = 1, data.rounds)
  IN  Answered("blake2f") /\ result.exception = "NONE" =>
        \A n \in 0 .. 7 :
          result.returnValue[2 * n + 1] + result.returnValue[2 * n + 2] * 2 ^ HalfBits
            = compressed[n]

LogsOfBlock == [n \in DOMAIN logs |-> [address |-> Env["ADDRESS"], topics |-> logs[n].topics]]

\* The bloom of a block is the one its logs stand for, however they are divided
\* among its transactions, and has every log: another client computes the same,
\* and whoever looks for an address with its topics finds it (bloom/index.ts;
\* runTx.ts txLogsBloom; runBlock.ts applyTransactions).
BloomExact ==
  status = "stopped" =>
    \A n \in 0 .. Len(logs) :
      LET bloom == BlockBloom(<<SubSeq(LogsOfBlock, 1, n),
                                SubSeq(LogsOfBlock, n + 1, Len(logs))>>)
          elements(log) == {log.address} \cup {log.topics[k] : k \in DOMAIN log.topics}
      IN  /\ BitsOf(bloom) = BloomBits(UNION {elements(LogsOfBlock[k]) : k \in DOMAIN logs})
          /\ \A k \in DOMAIN logs :
               MultiCheck(bloom, <<LogsOfBlock[k].address>> \o LogsOfBlock[k].topics)
----------------------------------------------------------------------------
(* What running code implements. *)

\* The run of the code is a run of the machine: its stack read from the top,
\* its memory at the Addresses, zero where nothing has been written
M == INSTANCE Machine WITH
       pc <- programCounter,
       stack <- Reverse(stack),
       mem <- [n \in Addresses |-> IF n < Len(memory) THEN memory[n + 1] ELSE 0],
       words <- memoryWordCount,
       returned <- lastReturned,
       output <- returnValue,
       fault <- exception

ImplementsMachine == M!Spec

----------------------------------------------------------------------------
(* What a comment says and the code does not do.                           *)

\* "message words": the words F mixes are the words of the message, which the
\* precompile has already read as little-endian words (09-blake2f.ts F).
MessageWordsRead ==
  Answered("blake2f") /\ result.exception = "NONE" =>
    MessageWords(request.data.m) = request.data.m
=============================================================================
