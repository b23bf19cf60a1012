------------------------------ MODULE Machine ------------------------------
(***************************************************************************)
(* What running bytecode promises: the machine of the yellow paper.  Words *)
(* are residues, read as signed numbers where an operation is signed;      *)
(* memory is zero until written; the stack has its top in front; a jump    *)
(* goes to a JUMPDEST that is an instruction.  The machine runs out of gas *)
(* whenever it likes, halts exceptionally exactly when there is a reason,  *)
(* and is free to push any word for GAS and for a PUSH that the end of the *)
(* code cuts short, which nothing can observe.                             *)
(*                                                                         *)
(* One reason is not the yellow paper's but the code's: INEXACT, an access *)
(* to memory that is located at SafeOffset or beyond.  It takes more gas   *)
(* than there is, unless it is empty: an empty copy or answer is free, and *)
(* in the yellow paper it does nothing and the machine goes on.            *)
(***************************************************************************)
EXTENDS Integers, Sequences, FiniteSetsExt, Opcodes

CONSTANTS
  ByteBits, WordBytes, StackLimit, Keccak(_),
  SafeOffset,              \* where the code's numbers end
  Env, Lookup, CallData, ExtCode, Answer,  \* as for Interpreter
  Addresses                \* the addresses of memory: the naturals, or those looked at

VARIABLES
  job, pc, stack, mem, words, returned, logs, output, status, fault

vars == <<job, pc, stack, mem, words, returned, logs, output, status, fault>>

----------------------------------------------------------------------------
(* Words. *)

Bits == ByteBits * WordBytes
Base == 2 ^ Bits
Word == 0 .. Base - 1

Residue(x) == x % Base
Signed(w) == IF w < Base \div 2 THEN w ELSE w - Base
Sign(x) == IF x < 0 THEN -1 ELSE 1

Ones(w) == {n \in 0 .. Bits - 1 : (w \div 2 ^ n) % 2 = 1}
Number(ones) == SumSet({2 ^ n : n \in ones})

\* The quotient and the rest of a division that rounds towards zero: the rest
\* is smaller than the divisor and has the sign of the dividend
Divides(x, y, q, r) ==
  /\ x = q * y + r
  /\ -Sign(y) * y < r /\ r < Sign(y) * y
  /\ r # 0 => Sign(r) = Sign(x)
Signeds == {Signed(w) : w \in Word}
Quotient(x, y) ==
  IF y = 0 THEN 0
  ELSE CHOOSE q \in Signeds \cup {Base \div 2} : \E r \in Signeds : Divides(x, y, q, r)
Rest(x, y) == IF y = 0 THEN 0 ELSE x - Quotient(x, y) * y

Power(x, n) ==
  LET power[k \in 0 .. n] == IF k = 0 THEN 1 ELSE Residue(power[k - 1] * x)
  IN  power[n]

Truth(holds) == IF holds THEN 1 ELSE 0

Numeral(bytes) ==
  LET value[n \in 0 .. Len(bytes)] ==
        IF n = 0 THEN 0 ELSE value[n - 1] * 2 ^ ByteBits + bytes[n]
  IN  value[Len(bytes)]
Digits(w) == CHOOSE bytes \in [1 .. WordBytes -> 0 .. 2 ^ ByteBits - 1] :
               Numeral(bytes) = w

\* The number whose lowest k + 1 bytes, read as a signed number, are val's
Extension(k, val) ==
  LET range == 2 ^ ((k + 1) * ByteBits)
      low == val % range
  IN  IF k >= WordBytes THEN val
      ELSE Residue(IF low < range \div 2 THEN low ELSE low - range)

\* The result of an operation on a, the top of the stack, b and c
Meaning(op, a, b, c) ==
  CASE op = "ADD" -> Residue(a + b)
    [] op = "MUL" -> Residue(a * b)
    [] op = "SUB" -> Residue(a - b)
    [] op = "DIV" -> IF b = 0 THEN 0 ELSE a \div b
    [] op = "MOD" -> IF b = 0 THEN 0 ELSE a % b
    [] op = "SDIV" -> Residue(Quotient(Signed(a), Signed(b)))
    [] op = "SMOD" -> Residue(Rest(Signed(a), Signed(b)))
    [] op = "ADDMOD" -> IF c = 0 THEN 0 ELSE (a + b) % c
    [] op = "MULMOD" -> IF c = 0 THEN 0 ELSE (a * b) % c
    [] op = "EXP" -> Power(a, b)
    [] op = "SIGNEXTEND" -> Extension(a, b)
    [] op = "LT" -> Truth(a < b)
    [] op = "GT" -> Truth(b < a)
    [] op = "SLT" -> Truth(Signed(a) < Signed(b))
    [] op = "SGT" -> Truth(Signed(b) < Signed(a))
    [] op = "EQ" -> Truth(a = b)
    [] op = "ISZERO" -> Truth(a = 0)
    [] op = "AND" -> Number(Ones(a) \cap Ones(b))
    [] op = "OR" -> Number(Ones(a) \cup Ones(b))
    [] op = "XOR" -> Number((Ones(a) \cup Ones(b)) \ (Ones(a) \cap Ones(b)))
    [] op = "NOT" -> Base - 1 - a
    [] op = "BYTE" -> IF a < WordBytes THEN Digits(b)[a + 1] ELSE 0
    [] op = "SHL" -> IF a < Bits THEN Residue(b * 2 ^ a) ELSE 0
    [] op = "SHR" -> IF a < Bits THEN b \div 2 ^ a ELSE 0
    [] op = "SAR" -> IF a < Bits THEN Residue(Signed(b) \div 2 ^ a)
                     ELSE Residue(Signed(b) \div Base)

Unary == {"ISZERO", "NOT"}
Ternary == {"ADDMOD", "MULMOD"}
Binary == {"ADD", "MUL", "SUB", "DIV", "MOD", "SDIV", "SMOD", "EXP",
           "SIGNEXTEND", "LT", "GT", "SLT", "SGT", "EQ", "AND", "OR", "XOR",
           "BYTE", "SHL", "SHR", "SAR"}

----------------------------------------------------------------------------
(* Instructions. *)

Instr(at) == Name(job.fork, job.code[at + 1])
Number1(at) == Width(job.code[at + 1])
Op == Instr(pc)
N == Number1(pc)

\* Positions of instructions: from one to the next, data of PUSH skipped
Starts ==
  LET after(at) == at + 1 + IF Instr(at) = "PUSH" THEN Number1(at) ELSE 0
      nth[n \in 0 .. Len(job.code)] ==
        IF n = 0 THEN 0
        ELSE LET last == nth[n - 1]
             IN  IF last < Len(job.code) THEN after(last) ELSE last
  IN  {nth[n] : n \in DOMAIN nth}
Target(at) ==
  at < Len(job.code) /\ Instr(at) = "JUMPDEST" /\ at \in Starts

Known == {"ADDRESS", "ORIGIN", "CALLER", "CALLVALUE", "GASPRICE", "COINBASE",
          "TIMESTAMP", "NUMBER", "DIFFICULTY", "GASLIMIT", "CHAINID",
          "SELFBALANCE"}
Asked == {"BALANCE", "EXTCODESIZE", "EXTCODEHASH", "SLOAD"}
Copies == {"CALLDATACOPY", "CODECOPY", "RETURNDATACOPY", "EXTCODECOPY"}
Subcalls == {"DELEGATECALL", "STATICCALL"}

Takes ==
  CASE Op \in Unary \cup Asked
              \cup {"BLOCKHASH", "CALLDATALOAD", "POP", "MLOAD", "JUMP"} -> 1
    [] Op \in Binary \cup {"SHA3", "MSTORE", "MSTORE8", "JUMPI", "RETURN", "REVERT"} -> 2
    [] Op \in Ternary \cup (Copies \ {"EXTCODECOPY"}) -> 3
    [] Op = "EXTCODECOPY" -> 4
    [] Op \in Subcalls -> 6
    [] Op = "LOG" -> N + 2
    [] Op = "DUP" -> N
    [] Op = "SWAP" -> N + 1
    [] OTHER -> 0
Gives ==
  CASE Op \in {"STOP", "POP", "MSTORE", "MSTORE8", "JUMP", "JUMPI", "JUMPDEST",
               "LOG", "RETURN", "REVERT"} \cup Copies -> 0
    [] Op \in {"DUP", "SWAP"} -> N + 1
    [] OTHER -> 1

Later == [SHL |-> "constantinople", SHR |-> "constantinople",
          SAR |-> "constantinople", EXTCODEHASH |-> "constantinople",
          CHAINID |-> "istanbul", SELFBALANCE |-> "istanbul"]

\* Accesses the code cannot locate: it does not look where nothing is read, but
\* where nothing is written
Far(offset, size) == offset >= SafeOffset \/ size >= SafeOffset
Distant ==
  \/ Op \in {"MLOAD", "MSTORE", "MSTORE8"} /\ stack[1] >= SafeOffset
  \/ /\ Op \in {"SHA3", "LOG", "RETURN", "REVERT"}
     /\ stack[2] # 0 /\ Far(stack[1], stack[2])
  \/ Op \in Copies \ {"EXTCODECOPY"} /\ Far(stack[1], stack[3])
  \/ Op = "EXTCODECOPY" /\ Far(stack[2], stack[4])
  \/ Op \in Subcalls /\ stack[4] # 0 /\ Far(stack[3], stack[4])

\* Why the instruction at pc cannot be executed
Reasons ==
  LET enough == Len(stack) >= Takes
      jumps == enough /\ (Op = "JUMP" \/ (Op = "JUMPI" /\ stack[2] # 0))
      beyond == /\ enough /\ Op = "RETURNDATACOPY"
                /\ stack[2] + stack[3] > Len(returned)
      unknown == \/ Op = "INVALID"
                 \/ Op \in DOMAIN Later /\ ~Gte(job.fork, Later[Op])
      overfull == enough /\ Len(stack) - Takes + Gives > StackLimit
  IN  (IF unknown THEN {"INVALID_OPCODE"} ELSE {})
        \cup (IF ~enough THEN {"STACK_UNDERFLOW"} ELSE {})
        \cup (IF overfull THEN {"STACK_OVERFLOW"} ELSE {})
        \cup (IF jumps /\ ~Target(stack[1]) THEN {"INVALID_JUMP"} ELSE {})
        \cup (IF beyond THEN {"OUT_OF_GAS"} ELSE {})
        \cup (IF job.isStatic /\ Op = "LOG" THEN {"STATIC_STATE_CHANGE"} ELSE {})
        \cup (IF enough /\ Distant THEN {"INEXACT"} ELSE {})

----------------------------------------------------------------------------
(* Memory and data. *)

At(data, n) == IF n < Len(data) THEN data[n + 1] ELSE 0
Loaded(offset, size) ==
  [n \in 1 .. size |-> IF offset + n - 1 \in Addresses THEN mem[offset + n - 1] ELSE 0]
Slice(data, offset, size) == [n \in 1 .. size |-> At(data, offset + n - 1)]
Overwrite(offset, bytes) ==
  [n \in Addresses |->
     IF n - offset \in 0 .. Len(bytes) - 1 THEN bytes[n - offset + 1] ELSE mem[n]]

\* The least number of words that covers the accesses <<offset, size>>
Covers(accesses) ==
  CHOOSE n \in words .. Max({words} \cup {a[1] + a[2] : a \in accesses}) :
    /\ \A a \in accesses : a[2] = 0 \/ a[1] + a[2] <= n * WordBytes
    /\ n = words \/ \E a \in accesses : a[2] # 0 /\ a[1] + a[2] > (n - 1) * WordBytes

DataOf(op) ==
  CASE op = "CALLDATACOPY" -> CallData
    [] op = "CODECOPY" -> [n \in DOMAIN job.code |-> job.code[n] % 2 ^ ByteBits]
    [] op = "RETURNDATACOPY" -> returned
    [] op = "EXTCODECOPY" -> ExtCode

----------------------------------------------------------------------------
(* Steps. *)

Init ==
  /\ pc = job.pc
  /\ stack = <<>>
  /\ mem = [n \in Addresses |-> 0]
  /\ words = 0
  /\ returned = <<>>
  /\ logs = <<>>
  /\ output = <<>>
  /\ status = "validating"
  /\ fault = "NONE"

Begin ==
  /\ status = "validating"
  /\ status' = IF pc \in {0} \cup 0 .. Len(job.code) - 1 THEN "running" ELSE "refused"
  /\ UNCHANGED <<job, pc, stack, mem, words, returned, logs, output, fault>>

End ==
  /\ status = "running" /\ pc >= Len(job.code)
  /\ status' = "stopped"
  /\ UNCHANGED <<job, pc, stack, mem, words, returned, logs, output, fault>>

Fail ==
  /\ status = "running" /\ pc < Len(job.code)
  /\ fault' \in Reasons \cup {"OUT_OF_GAS"}
  /\ status' = "stopped"
  /\ UNCHANGED <<job, pc, stack, mem, words, returned, logs, output>>

\* An instruction that is executed replaces what it takes, and touches memory
Replace(pushed, accesses) ==
  /\ status = "running" /\ pc < Len(job.code)
  /\ Reasons = {}
  /\ stack' = pushed \o SubSeq(stack, Takes + 1, Len(stack))
  /\ words' = Covers(accesses)
  /\ UNCHANGED job

Onwards == pc' = pc + 1 /\ UNCHANGED <<status, fault>>
Quiet == UNCHANGED <<mem, returned, logs, output>>

Pushes(word) == Replace(<<word>>, {}) /\ Onwards /\ Quiet

Compute ==
  \/ Op \in Unary /\ Pushes(Meaning(Op, stack[1], 0, 0))
  \/ Op \in Binary /\ Pushes(Meaning(Op, stack[1], stack[2], 0))
  \/ Op \in Ternary /\ Pushes(Meaning(Op, stack[1], stack[2], stack[3]))

Know ==
  \/ Op \in Known /\ Pushes(Env[Op])
  \/ Op \in Asked /\ Pushes(Lookup[Op][stack[1]])
  \/ /\ Op = "BLOCKHASH"
     /\ Pushes(IF stack[1] \in Env["NUMBER"] - 256 .. Env["NUMBER"] - 1
               THEN Lookup[Op][stack[1]] ELSE 0)
  \/ Op = "CALLDATALOAD" /\ Pushes(Numeral(Slice(CallData, stack[1], WordBytes)))
  \/ Op = "CALLDATASIZE" /\ Pushes(Len(CallData))
  \/ Op = "CODESIZE" /\ Pushes(Len(job.code))
  \/ Op = "RETURNDATASIZE" /\ Pushes(Len(returned))
  \/ Op = "PC" /\ Pushes(pc)
  \/ Op = "MSIZE" /\ Pushes(words * WordBytes)
  \/ Op = "GAS" /\ \E word \in Word : Pushes(word)

PushData ==
  LET data == [n \in 1 .. N |-> At(job.code, pc + n) % 2 ^ ByteBits]
      whole == pc + N < Len(job.code)
  IN  /\ Op = "PUSH"
      /\ \E word \in Word : (whole => word = Numeral(data)) /\ Replace(<<word>>, {})
      /\ pc' = pc + 1 + N
      /\ Quiet /\ UNCHANGED <<status, fault>>

Arrange ==
  /\ \/ Op = "POP" /\ Replace(<<>>, {})
     \/ Op = "DUP" /\ Replace(<<stack[N]>> \o SubSeq(stack, 1, N), {})
     \/ Op = "SWAP" /\ Replace(<<stack[N + 1]>> \o SubSeq(stack, 2, N) \o <<stack[1]>>, {})
  /\ Onwards /\ Quiet

Go ==
  /\ Op \in {"JUMP", "JUMPI", "JUMPDEST"}
  /\ Replace(<<>>, {})
  /\ pc' = IF Op = "JUMP" \/ (Op = "JUMPI" /\ stack[2] # 0) THEN stack[1] ELSE pc + 1
  /\ Quiet /\ UNCHANGED <<status, fault>>

Look ==
  /\ \/ /\ Op = "MLOAD"
        /\ Replace(<<Numeral(Loaded(stack[1], WordBytes))>>, {<<stack[1], WordBytes>>})
     \/ /\ Op = "SHA3"
        /\ Replace(<<Keccak(Loaded(stack[1], stack[2]))>>, {<<stack[1], stack[2]>>})
  /\ Onwards /\ Quiet

Write(offset, bytes) ==
  /\ Replace(<<>>, {<<offset, Len(bytes)>>})
  /\ mem' = Overwrite(offset, bytes)
  /\ Onwards /\ UNCHANGED <<returned, logs, output>>

Keep ==
  \/ Op = "MSTORE" /\ Write(stack[1], Digits(stack[2]))
  \/ Op = "MSTORE8" /\ Write(stack[1], <<stack[2] % 2 ^ ByteBits>>)
  \/ /\ Op \in Copies
     /\ LET k == IF Op = "EXTCODECOPY" THEN 2 ELSE 1
        IN  Write(stack[k], Slice(DataOf(Op), stack[k + 1], stack[k + 2]))

Announce ==
  /\ Op = "LOG"
  /\ Replace(<<>>, {<<stack[1], stack[2]>>})
  /\ logs' = Append(logs, [topics |-> SubSeq(stack, 3, N + 2),
                           data |-> Loaded(stack[1], stack[2])])
  /\ Onwards /\ UNCHANGED <<mem, returned, output>>

Finish ==
  /\ \/ Op = "STOP" /\ Replace(<<>>, {}) /\ output' = <<>>
     \/ /\ Op \in {"RETURN", "REVERT"}
        /\ Replace(<<>>, {<<stack[1], stack[2]>>})
        /\ output' = Loaded(stack[1], stack[2])
  /\ fault' = IF Op = "REVERT" THEN "REVERT" ELSE fault
  /\ status' = "stopped"
  /\ pc' = pc + 1
  /\ UNCHANGED <<mem, returned, logs>>

\* A message is sent and answered; the answer cannot be located, or it can
Lost(answer) == answer.data # <<>> /\ Far(stack[5], stack[6])
Hear(answer, pushed) ==
  /\ Op \in Subcalls
  /\ Replace(pushed, {<<stack[3], stack[4]>>, <<stack[5], stack[6]>>})
  /\ returned' = answer.data
  /\ logs' = logs \o answer.logs
  /\ UNCHANGED output

\* No more of the answer reaches memory than the caller has set aside
Ask(answer) ==
  /\ Hear(answer, <<Truth(answer.success)>>)
  /\ ~Lost(answer)
  /\ mem' = Overwrite(stack[5],
              SubSeq(answer.data, 1, Min({stack[6], Len(answer.data)})))
  /\ Onwards

Lose(answer) ==
  /\ Hear(answer, <<>>)
  /\ Lost(answer)
  /\ fault' = "INEXACT"
  /\ status' = "stopped"
  /\ pc' = pc + 1
  /\ UNCHANGED mem

Step ==
  /\ status = "running" /\ pc < Len(job.code)
  /\ \/ Reasons = {} /\ (Compute \/ Know \/ PushData \/ Arrange \/ Go \/ Look
                         \/ Keep \/ Announce \/ Finish)
     \/ Reasons = {} /\ \E answer \in Answer : Ask(answer) \/ Lose(answer)
     \/ Fail

Next == Begin \/ End \/ Step

Spec == Init /\ [][Next]_vars
=============================================================================
