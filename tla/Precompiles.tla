---------------------------- MODULE Precompiles ----------------------------
(***************************************************************************)
(* The precompiled contracts of lib/evm/precompiles: what each charges and *)
(* what it answers.  Elliptic curves and hashes are libraries; modexp is   *)
(* computed here.  Words and bytes have the sizes of Words.                *)
(***************************************************************************)
EXTENDS Words, Blake2f

CONSTANTS
  PrecompilePrice,   \* gas prices, by their names in the code
  External(_, _),    \* the answer of a library, empty when it refuses the data
  MaxSize            \* 2147483647, the longest number modexp takes

\* The prices of the hardforks' tables: none is negative, modexp divides by one.
ASSUME PrecompilePriceAssumption ==
  /\ \A of \in {"ecRecover", "sha256", "sha256Word", "ripemd160", "ripemd160Word", "identity",
               "identityWord", "ecAdd", "ecMul", "ecPairing", "ecPairingWord", "blake2Round"} :
       PrecompilePrice[of] \in Nat
  /\ PrecompilePrice["modexpGquaddivisor"] \in Nat \ {0}

\* Arithmetic, as PowersAssumption says of words: of numbers as long as modexp takes.
ASSUME LongNumbersAssumption ==
  /\ MaxSize \in Nat
  /\ \A n \in 0 .. MaxSize :
       /\ 2 ^ (n * ByteBits) >= 1
       /\ 2 ^ ((n + 1) * ByteBits) = 2 ^ (n * ByteBits) * 2 ^ ByteBits

ExecResult(gasUsed, exception, returnValue) ==
  [gasUsed |-> gasUsed, exception |-> exception, returnValue |-> returnValue]
OOGResult(gasLimit) == ExecResult(gasLimit, "OUT_OF_GAS", <<>>)
Executed(gasUsed, returnValue) == ExecResult(gasUsed, "NONE", returnValue)
\* Mutant: the limit is off by one.
ChargedLate(gasLimit, gasUsed, outcome) ==
  IF gasLimit + 1 < gasUsed THEN OOGResult(gasLimit) ELSE outcome

\* Every precompile: the gas is compared with the limit before the work
Charged(gasLimit, gasUsed, outcome) ==
  IF gasLimit < gasUsed THEN OOGResult(gasLimit) ELSE outcome

\* new BN(data.slice(from, to)), the bytes that are there
Slice(data, from, to) == SubSeq(data, from + 1, Min({to, Len(data)}))
Number(bytes) == FromBytes(bytes)
\* setLengthRight(data.slice(from, from + size), size)
Padded(data, from, size) ==
  [n \in 1 .. size |-> IF from + n <= Len(data) THEN data[from + n] ELSE 0]

----------------------------------------------------------------------------
(* 05-modexp.ts *)

MultComplexity(x) ==
  IF x <= 64 THEN x * x
  ELSE IF x <= 1024 THEN (x * x) \div 4 + 96 * x - 3072
  ELSE (x * x) \div 16 + 480 * x - 199680

\* Mutant: the number of bits, not the index of the highest.
BitLengthFromOne(x) == Max({-1} \cup {n + 1 : n \in {k \in 0 .. WordBits - 1 : Bit(x, k) = 1}})

\* bitLen, from -1
BitLength(x) == Max({-1} \cup {n \in 0 .. WordBits - 1 : Bit(x, n) = 1})

AdjustedExponentLength(data) ==
  LET baseLen == Number(Slice(data, 0, WordBytes))
      expLen == Number(Slice(data, WordBytes, 2 * WordBytes))
      first == Number(Padded(data, 3 * WordBytes + baseLen, WordBytes))
      surplus == Max({WordBytes - expLen, 0})
      bitLen == BitLength(first \div 2 ^ (ByteBits * surplus))
  IN  ByteBits * Max({expLen - WordBytes, 0}) + Max({bitLen, 0})

\* redPow modulo the modulus
RedPow(base, exponent, modulus) ==
  LET power[k \in 0 .. exponent] ==
        IF k = 0 THEN 1 ELSE (power[k - 1] * base) % modulus
  IN  power[exponent]
ExpMod(base, exponent, modulus) ==
  IF exponent = 0 THEN 1 % modulus
  ELSE IF modulus <= 1 THEN 0
  ELSE RedPow(base % modulus, exponent, modulus)

\* toArrayLike(Buffer, 'be', size)
BigEndian(x, size) ==
  [n \in 1 .. size |-> (x \div 2 ^ (ByteBits * (size - n))) % 2 ^ ByteBits]

Modexp(data, gasLimit) ==
  LET bLen == Number(Slice(data, 0, WordBytes))
      eLen == Number(Slice(data, WordBytes, 2 * WordBytes))
      mLen == Number(Slice(data, 2 * WordBytes, 3 * WordBytes))
      bStart == 3 * WordBytes
      eStart == bStart + bLen
      mStart == eStart + eLen
      gasUsed == (Max({AdjustedExponentLength(data), 1}) * MultComplexity(Max({bLen, mLen})))
                   \div PrecompilePrice.modexpGquaddivisor
      modulus == Number(Padded(data, mStart, mLen))
      power == ExpMod(Number(Padded(data, bStart, bLen)),
                      Number(Padded(data, eStart, eLen)), modulus)
  IN  Charged(gasLimit, gasUsed,
        IF bLen = 0 THEN Executed(gasUsed, <<0>>)
        ELSE IF mLen = 0 THEN Executed(gasUsed, <<>>)
        ELSE IF Max({bLen, eLen, mLen}) > MaxSize THEN OOGResult(gasLimit)
        ELSE Executed(gasUsed, BigEndian(IF modulus = 0 THEN 0 ELSE power, mLen)))

----------------------------------------------------------------------------
(* 09-blake2f.ts: data is its length, and when that is right its fields *)

Blake2fRun(data, gasLimit) ==
  LET gasUsed == PrecompilePrice.blake2Round * data.rounds
      output == F(data.h, data.m, data.t, data.lastByte = 1, data.rounds)
  IN  IF data.length # 213 \/ data.lastByte \notin {0, 1}
      THEN ExecResult(gasLimit, "OUT_OF_RANGE", <<>>)
      ELSE Charged(gasLimit, gasUsed, Executed(gasUsed, [n \in 1 .. 16 |-> output[n - 1]]))

----------------------------------------------------------------------------
(* The others *)

WordsOf(size) == (size + WordBytes - 1) \div WordBytes
Curves == {"ecadd", "ecmul", "ecpairing"}

\* 192 bytes, six words, are a pair of points
Charge(name, size) ==
  CASE name = "ecrecover" -> PrecompilePrice.ecRecover
    [] name = "sha256" -> PrecompilePrice.sha256 + PrecompilePrice.sha256Word * WordsOf(size)
    [] name = "ripemd160" ->
         PrecompilePrice.ripemd160 + PrecompilePrice.ripemd160Word * WordsOf(size)
    [] name = "identity" ->
         PrecompilePrice.identity + PrecompilePrice.identityWord * WordsOf(size)
    [] name = "ecadd" -> PrecompilePrice.ecAdd
    [] name = "ecmul" -> PrecompilePrice.ecMul
    [] name = "ecpairing" ->
         PrecompilePrice.ecPairing
           + PrecompilePrice.ecPairingWord * (size \div (6 * WordBytes))

\* The length of the answer shows whether the library accepted the data; what
\* ecrecover refuses is answered with nothing, and paid for
Library(name, data, gasLimit) ==
  LET gasUsed == Charge(name, Len(data))
      answer == External(name, data)
      wanted == IF name = "ecpairing" THEN WordBytes ELSE 2 * WordBytes
  IN  Charged(gasLimit, gasUsed,
        IF name = "identity" THEN Executed(gasUsed, data)
        ELSE IF name \in Curves /\ Len(answer) # wanted THEN OOGResult(gasLimit)
        ELSE Executed(gasUsed, answer))

Libraries == {"ecrecover", "sha256", "ripemd160", "identity"} \cup Curves

Precompile(name, data, gasLimit) ==
  CASE name = "modexp" -> Modexp(data, gasLimit)
    [] name = "blake2f" -> Blake2fRun(data, gasLimit)
    [] OTHER -> Library(name, data, gasLimit)

----------------------------------------------------------------------------
(* EIP-198, over data that goes on with zeros for ever.                     *)

FieldOf(data, from, size) ==
  LET value[n \in 0 .. size] ==
        IF n = 0 THEN 0
        ELSE value[n - 1] * 2 ^ ByteBits
               + IF from + n <= Len(data) THEN data[from + n] ELSE 0
  IN  value[size]

Eip198(data) ==
  LET base_ == FieldOf(data, 0, WordBytes)
      exponent_ == FieldOf(data, WordBytes, WordBytes)
      modulus_ == FieldOf(data, 2 * WordBytes, WordBytes)
      base == FieldOf(data, 3 * WordBytes, base_)
      exponent == FieldOf(data, 3 * WordBytes + base_, exponent_)
      modulus == FieldOf(data, 3 * WordBytes + base_ + exponent_, modulus_)
      beyond == IF exponent_ <= WordBytes THEN 0 ELSE ByteBits * (exponent_ - WordBytes)
      head == exponent \div 2 ^ beyond
      highest == CHOOSE n \in 0 .. WordBits :
                   (n = 0 \/ 2 ^ n <= head) /\ head < 2 ^ (n + 1)
      adjusted == highest + beyond
      longest == IF base_ < modulus_ THEN modulus_ ELSE base_
      complexity == IF longest <= 64 THEN longest * longest
                    ELSE IF longest <= 1024 THEN (longest * longest) \div 4 + 96 * longest - 3072
                    ELSE (longest * longest) \div 16 + 480 * longest - 199680
      power[n \in 0 .. exponent] ==
        IF n = 0 THEN 1 % modulus ELSE (power[n - 1] * base) % modulus
  IN  [gas |-> (complexity * (IF adjusted > 1 THEN adjusted ELSE 1))
                 \div PrecompilePrice.modexpGquaddivisor,
       length |-> modulus_,
       value |-> IF modulus = 0 THEN 0 ELSE power[exponent]]
=============================================================================
