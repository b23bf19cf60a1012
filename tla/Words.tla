------------------------------- MODULE Words -------------------------------
(***************************************************************************)
(* The words of the EVM and what the handlers of opFns.ts compute with     *)
(* them.  A value on the stack is a BN, an integer of any size; a word is  *)
(* one of WordBytes bytes of ByteBits bits (32 bytes of 8 bits in the      *)
(* code), and the handlers are responsible for staying within words.  Each *)
(* definition is the handler's own way to its result; what the result      *)
(* should be is stated in Machine.                                         *)
(***************************************************************************)
EXTENDS Integers, Sequences, FiniteSetsExt

CONSTANTS
  ByteBits,    \* bits in a byte: 8
  WordBytes    \* bytes in a word: 32

ASSUME WordsAssumption == ByteBits \in Nat \ {0} /\ WordBytes \in Nat \ {0}

WordBits == ByteBits * WordBytes

\* utils.TWO_POW256 and utils.MAX_INTEGER
TwoPow == 2 ^ WordBits
MaxInteger == TwoPow - 1
Word == 0 .. MaxInteger
Byte == 0 .. 2 ^ ByteBits - 1

\* Arithmetic: for the provers, who know the powers of given numbers only.
ASSUME PowersAssumption ==
  \A m, n \in 0 .. WordBits : 2 ^ m >= 1 /\ 2 ^ (m + n) = 2 ^ m * 2 ^ n

----------------------------------------------------------------------------
(* Operations of bn.js. *)

Abs(x) == IF x < 0 THEN -x ELSE x

\* BN.testn and the binary operations, of natural numbers of at most a word
Bit(x, n) == (x \div 2 ^ n) % 2
FromBits(Holds(_)) ==
  MapThenSumSet(LAMBDA n : 2 ^ n, {n \in 0 .. WordBits - 1 : Holds(n)})
BitAnd(x, y) == FromBits(LAMBDA n : Bit(x, n) = 1 /\ Bit(y, n) = 1)
BitOr(x, y)  == FromBits(LAMBDA n : Bit(x, n) = 1 \/ Bit(y, n) = 1)
BitXor(x, y) == FromBits(LAMBDA n : Bit(x, n) # Bit(y, n))
Notn(x)      == FromBits(LAMBDA n : Bit(x, n) = 0)

\* BN.fromTwos and BN.toTwos: two's complement, of a word and to a word
FromTwos(x) == IF Bit(x, WordBits - 1) = 1 THEN -(Notn(x) + 1) ELSE x
ToTwos(x) == IF x < 0 THEN Notn(Abs(x)) + 1 ELSE x

\* BN.div rounds towards zero
Div(x, y) ==
  LET quotient == Abs(x) \div Abs(y)
  IN  IF (x < 0) # (y < 0) THEN -quotient ELSE quotient

\* redPow modulo 2^256
PowerModulo(x, n) ==
  LET power[k \in 0 .. n] == IF k = 0 THEN 1 ELSE (power[k - 1] * x) % TwoPow
  IN  power[n]

\* BN.byteLength
ByteLength(x) ==
  CHOOSE n \in 0 .. WordBytes :
    /\ x < 2 ^ (n * ByteBits)
    /\ n = 0 \/ x >= 2 ^ ((n - 1) * ByteBits)

----------------------------------------------------------------------------
(* The handlers that compute, by name; a is the top of the stack. *)

\* Mutant: a difference stays negative.
SUBSigned(a, b) == a - b
SUB(a, b) == ToTwos(a - b)

SDIV(a, b) == IF b = 0 THEN b ELSE ToTwos(Div(FromTwos(a), FromTwos(b)))

SMOD(a, b) ==
  LET rest == Abs(FromTwos(a)) % Abs(FromTwos(b))
  IN  IF b = 0 THEN b
      ELSE ToTwos(IF FromTwos(a) < 0 THEN -rest ELSE rest)

EXP(a, b) ==
  IF b = 0 THEN 1 ELSE IF a = 0 THEN 0 ELSE PowerModulo(a, b)

SIGNEXTEND(k, val) ==
  LET signBit == k * ByteBits + ByteBits - 1
      mask == 2 ^ signBit - 1
  IN  IF k >= WordBytes - 1 THEN val
      ELSE IF Bit(val, signBit) = 1 THEN BitOr(val, Notn(mask))
      ELSE BitAnd(val, mask)

BYTE(pos, word) ==
  IF pos >= WordBytes THEN 0
  ELSE (word \div 2 ^ ((WordBytes - 1 - pos) * ByteBits)) % 2 ^ ByteBits

SHL(a, b) == IF a >= WordBits THEN 0 ELSE BitAnd(b * 2 ^ a, MaxInteger)
SHR(a, b) == IF a >= WordBits THEN 0 ELSE b \div 2 ^ a

SAR(a, b) ==
  LET signed == Bit(b, WordBits - 1) = 1
      shiftedOutWidth == WordBits - 1 - a
      mask == (MaxInteger \div 2 ^ shiftedOutWidth) * 2 ^ shiftedOutWidth
  IN  IF a >= WordBits THEN IF signed THEN MaxInteger ELSE 0
      ELSE IF signed THEN BitOr(SHR(a, b), mask) ELSE SHR(a, b)

Flag(holds) == IF holds THEN 1 ELSE 0

Arithmetic(op, a, b) ==
  CASE op = "ADD" -> (a + b) % TwoPow
    [] op = "MUL" -> (a * b) % TwoPow
    [] op = "SUB" -> SUB(a, b)
    [] op = "DIV" -> IF b = 0 THEN b ELSE a \div b
    [] op = "MOD" -> IF b = 0 THEN b ELSE a % b
    [] op = "SDIV" -> SDIV(a, b)
    [] op = "SMOD" -> SMOD(a, b)
    [] op = "EXP" -> EXP(a, b)
    [] op = "SIGNEXTEND" -> SIGNEXTEND(a, b)

Comparison(op, a, b) ==
  CASE op = "LT" -> Flag(a < b)
    [] op = "GT" -> Flag(a > b)
    [] op = "SLT" -> Flag(FromTwos(a) < FromTwos(b))
    [] op = "SGT" -> Flag(FromTwos(a) > FromTwos(b))
    [] op = "EQ" -> Flag(a = b)

Bitwise2(op, a, b) ==
  CASE op = "AND" -> BitAnd(a, b)
    [] op = "OR" -> BitOr(a, b)
    [] op = "XOR" -> BitXor(a, b)
    [] op = "BYTE" -> BYTE(a, b)
    [] op = "SHL" -> SHL(a, b)
    [] op = "SHR" -> SHR(a, b)
    [] op = "SAR" -> SAR(a, b)

Modular(op, a, b, c) ==
  IF c = 0 THEN c ELSE (IF op = "ADDMOD" THEN a + b ELSE a * b) % c

ArithmeticOps == {"ADD", "MUL", "SUB", "DIV", "MOD", "SDIV", "SMOD", "EXP",
                  "SIGNEXTEND"}
ComparisonOps == {"LT", "GT", "SLT", "SGT", "EQ"}
BitwiseOps == {"AND", "OR", "XOR", "BYTE", "SHL", "SHR", "SAR"}
ModularOps == {"ADDMOD", "MULMOD"}
UnaryOps == {"ISZERO", "NOT"}
ComputingOps ==
  ArithmeticOps \cup ComparisonOps \cup BitwiseOps \cup ModularOps \cup UnaryOps

\* What a computing handler pushes, from the values popN gives it, top first
Computed(op, args) ==
  CASE op \in ArithmeticOps -> Arithmetic(op, args[1], args[2])
    [] op \in ComparisonOps -> Comparison(op, args[1], args[2])
    [] op \in BitwiseOps -> Bitwise2(op, args[1], args[2])
    [] op \in ModularOps -> Modular(op, args[1], args[2], args[3])
    [] op = "ISZERO" -> Flag(args[1] = 0)
    [] op = "NOT" -> Notn(args[1])

----------------------------------------------------------------------------
(* Conversions between words and bytes, big-endian. *)

\* word.toArrayLike(Buffer, 'be', 32)
ToBytes(word) ==
  [n \in 1 .. WordBytes |->
     (word \div 2 ^ ((WordBytes - n) * ByteBits)) % 2 ^ ByteBits]

\* new BN(buffer), of a buffer of any length
FromBytes(bytes) ==
  MapThenSumSet(LAMBDA n : bytes[n] * 2 ^ ((Len(bytes) - n) * ByteBits),
                DOMAIN bytes)
=============================================================================
