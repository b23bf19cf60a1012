------------------------------- MODULE MCCode -------------------------------
(***************************************************************************)
(* Words of four bits, two bytes of two bits each, and the programs that   *)
(* are run on them: every operation on every pair of words, every code of  *)
(* a few bytes that jump, push and test, and families of programs for the  *)
(* stack, the memory, copies, answers, logs and the end of a run.          *)
(***************************************************************************)
EXTENDS Execution

MCAddresses == 0 .. 39

MCPrice == [memory |-> 3, quadCoeffDiv |-> 4, expByte |-> 50, sha3Word |-> 6,
            copy |-> 3, logTopic |-> 375, logData |-> 8]
MCKeccak(bytes) ==
  (MapThenSumSet(LAMBDA n : n * bytes[n], DOMAIN bytes) + Len(bytes)) % 16
\* Six bytes; BloomBytes is 4, so that five bits of each pair count
MCBloomHash(word) ==
  [n \in 1 .. 6 |-> (37 * word + 101 * n + word * word * n) % 256]

Push1(word) == <<96, word>>
Push2(word) == <<97, word \div 4, word % 4>>
Operands(words) ==
  Push2(words[1]) \o (IF Len(words) > 1 THEN Push2(words[2]) ELSE <<>>)
                  \o (IF Len(words) > 2 THEN Push2(words[3]) ELSE <<>>)
\* The arguments, top first, and the opcode
Apply(op, args) == Operands([n \in DOMAIN args |-> args[Len(args) + 1 - n]]) \o <<op>>

MCEnv == [ADDRESS |-> 1, ORIGIN |-> 2, CALLER |-> 3, CALLVALUE |-> 0,
        GASPRICE |-> 4, COINBASE |-> 6, TIMESTAMP |-> 7, NUMBER |-> 9,
        DIFFICULTY |-> 8, GASLIMIT |-> 15, CHAINID |-> 10, SELFBALANCE |-> 12]
MCLookup == [op \in {"BALANCE", "EXTCODESIZE", "EXTCODEHASH", "SLOAD", "BLOCKHASH"} |->
             [word \in 0 .. 15 |-> (3 * word + 1) % 16]]
MCCallData == <<1, 2, 3>>
MCExtCode == <<3, 0, 2, 1, 1>>
MCAnswer ==
  {[success |-> TRUE, data |-> <<3, 1, 2>>, gasUsed |-> 1,
    logs |-> <<[topics |-> <<5>>, data |-> <<2>>]>>],
   [success |-> TRUE, data |-> <<>>, gasUsed |-> 0, logs |-> <<>>],
   [success |-> FALSE, data |-> <<2>>, gasUsed |-> 3, logs |-> <<>>],
   [success |-> FALSE, data |-> <<>>, gasUsed |-> 7, logs |-> <<>>]}

Program(code) ==
  [code |-> code, pc |-> 0, fork |-> "istanbul", isStatic |-> FALSE,
   gasLimit |-> 6000]
Programs(codes) == {Program(code) : code \in codes}

----------------------------------------------------------------------------
BinaryBytes == (1 .. 7) \cup {10, 11} \cup (16 .. 20) \cup (22 .. 24) \cup (26 .. 29)
Few == {0, 1, 3, 7, 8, 15}

Computing ==
  Programs({Apply(op, <<a, b>>) : op \in BinaryBytes, a, b \in 0 .. 15}
      \cup {Apply(op, <<a, b, c>>) : op \in {8, 9}, a, b, c \in Few}
      \cup {Apply(op, <<a>>) : op \in {21, 25}, a \in 0 .. 15})

Knowing ==
  Programs({Apply(op, <<a>>) : op \in {49, 53, 59, 63, 64, 84}, a \in 0 .. 15}
      \cup {<<op>> : op \in {48, 50, 51, 52, 54, 56, 58, 61, 88, 89} \cup (65 .. 71)})
    \cup {[Program(<<90, 90>>) EXCEPT !.gasLimit = g] : g \in 0 .. 15}
    \cup {[Program(Apply(op, <<1, 9>>)) EXCEPT !.fork = fork] :
            op \in {27, 28, 29, 63, 70, 71, 12, 254}, fork \in Hardfork}

\* Codes as they come: JUMPDEST, PUSH1, PUSH2, JUMP, JUMPI, POP; as data they
\* are the words 3, 0, 1, 2, 3 and 0
Jumping ==
  {[Program(code) EXCEPT !.gasLimit = 45, !.pc = pc] :
     code \in [1 .. 4 -> {91, 96, 97, 86, 87, 80}], pc \in {0, 1, 4}}
  \cup {[Program(code) EXCEPT !.gasLimit = 45] : code \in [1 .. 6 -> {91, 96, 97, 86}]}
  \cup Programs({Push1(c) \o Push1(6) \o <<87, 97, 91, 91, 0>> : c \in 0 .. 1})

Arranging ==
  Programs({Push1(1) \o Push1(2) \o Push1(3) \o moves :
              moves \in [1 .. 3 -> {128, 130, 131, 144, 145, 146, 80}]}
      \cup {Push1(1) \o [n \in 1 .. 6 + k |-> 128] \o end :
              k \in {0, 1}, end \in {<<96, 2>>, <<48>>, <<80, 89>>}})

Remembering ==
  Programs({Apply(82, <<at, word>>) \o Apply(81, <<from>>) \o <<89>> :
              at, from \in {0, 1, 2, 3, 7}, word \in {6, 11}}
      \cup {Apply(83, <<at, 11>>) \o Apply(81, <<from>>) \o <<89>> :
              at, from \in {0, 1, 2, 5}}
      \cup {Apply(82, <<at, 11>>) \o Apply(32, <<from, size>>) :
              at \in {0, 3}, from \in {0, 2}, size \in {0, 1, 3, 6}})

Copying ==
  Programs({Apply(82, <<1, 15>>) \o Apply(op, <<at, from, size>>) \o Apply(81, <<1>>) \o <<89>> :
              op \in {55, 57}, at \in {0, 2}, from \in {0, 2, 3, 4, 15}, size \in {0, 1, 3, 6}}
      \cup {Apply(82, <<1, 15>>) \o Apply(60, <<size>>) \o <<80>>
              \o Push2(size) \o Apply(60, <<5, at, from>>) \o Apply(81, <<1>>) :
              at \in {0, 2}, from \in {0, 4}, size \in {0, 1, 3, 6}})

CallCode(op, out, size, in, inSize, gas) ==
  Push1(size) \o Push2(out) \o Push1(inSize) \o Push2(in) \o Push1(1)
    \o Push2(gas) \o <<op, 61>>

Calling ==
  {Program(Apply(82, <<0, 15>>) \o CallCode(op, out, size, 2, inSize, gas)
           \o Apply(62, <<0, from, 1>>) \o Apply(81, <<out>>) \o <<89>>) :
     out \in {0, 1, 3}, size \in {0, 2, 3}, inSize \in {0, 3},
     gas \in {2, 15}, op \in {244, 250}, from \in {0, 2, 3}}

Announcing ==
  {[Program(Apply(83, <<1, 3>>) \o Operands(<<4, 5, 6>>) \o Operands(<<7>>)
            \o Apply(op, <<from, size>>)) EXCEPT !.isStatic = static] :
     op \in 160 .. 164, from \in {0, 1}, size \in {0, 3}, static \in BOOLEAN}
  \cup Programs({Push2(b) \o Push2(a) \o Apply(162, <<0, 0>>) : a, b \in 0 .. 15}
      \cup {Push2(a) \o Apply(161, <<0, 0>>) \o Push2(b) \o Apply(161, <<0, 0>>) :
              a, b \in 0 .. 15})

Finishing ==
  Programs({Apply(82, <<1, 11>>) \o Apply(op, <<from, size>>) \o <<1>> :
              op \in {243, 253}, from \in {0, 2, 5}, size \in {0, 1, 4}}
      \cup {<<0>>, <<>>, <<96, 1, 0, 80>>})

\* Accesses on both sides of SafeOffset, empty ones and others
Reaching ==
  Programs({Apply(op, <<at, size>>) \o <<89>> :
              op \in {32, 82, 83, 160, 243, 253}, at \in {11, 12, 15}, size \in {0, 1, 12}}
      \cup {Apply(81, <<at>>) \o <<89>> : at \in {11, 12, 15}}
      \cup {Apply(op, <<at, 1, size>>) \o <<89>> :
              op \in {55, 57, 62}, at \in {11, 12, 15}, size \in {0, 1, 12}}
      \cup {Push2(size) \o Apply(60, <<5, at, 0>>) \o <<89>> :
              at \in {11, 12, 15}, size \in {0, 1, 12}}
      \cup {CallCode(op, out, size, in, inSize, 15) \o <<89>> :
              op \in {244, 250}, out, in \in {11, 12}, size, inSize \in {0, 1}})

Starving ==
  {[Program(code) EXCEPT !.gasLimit = gas] :
     code \in {Apply(32, <<12, 3>>),
               Apply(82, <<3, 11>>) \o Apply(57, <<5, 0, 4>>) \o Apply(32, <<0, 9>>),
               Apply(10, <<3, 5>>) \o Apply(83, <<8, 1>>) \o Apply(243, <<9, 3>>)},
     gas \in 0 .. 110}
  \cup {[Program(Apply(160, <<12, 1>>)) EXCEPT !.gasLimit = gas] : gas \in 400 .. 430}

----------------------------------------------------------------------------
MCJob == Computing \cup Knowing \cup Jumping \cup Arranging \cup Remembering
         \cup Copying \cup Calling \cup Reaching \cup Announcing \cup Finishing \cup Starving

----------------------------------------------------------------------------
(* Calls of precompiles.  Halves have four bits; the initial vector has the *)
(* last digit of each of its halves.                                       *)

MCIV == <<8, 7, 11, 5, 11, 2, 1, 10, 1, 15, 15, 12, 11, 11, 9, 9>>
MCPrecompilePrice ==
  [ecRecover |-> 6, sha256 |-> 2, sha256Word |-> 1, ripemd160 |-> 3, ripemd160Word |-> 2,
   identity |-> 1, identityWord |-> 1, modexpGquaddivisor |-> 3, ecAdd |-> 2, ecMul |-> 4,
   ecPairing |-> 3, ecPairingWord |-> 2, blake2Round |-> 1]
\* A library refuses data that begins with zero
MCExternal(name, data) ==
  IF data # <<>> /\ data[1] = 0 THEN <<>>
  ELSE [n \in 1 .. IF name \in {"ecadd", "ecmul"} THEN 2 * WordBytes ELSE WordBytes |-> 1]

Names == {"ecrecover", "sha256", "ripemd160", "identity", "ecadd", "ecmul", "ecpairing"}
LibraryRequest ==
  [name : Names, data : {[n \in 1 .. size |-> first] : size \in 0 .. 13, first \in {0, 1}},
   gasLimit : 0 .. 12]

Long(length) == <<length \div 4, length % 4>>
ModexpData ==
  {Long(Len(b)) \o Long(Len(e)) \o Long(Len(m)) \o b \o e \o m :
     b \in {<<>>, <<0>>, <<3>>, <<2, 1>>},
     e \in {<<>>, <<0>>, <<1>>, <<3>>, <<1, 2>>, <<0, 0, 2>>, <<1, 0, 3>>},
     m \in {<<>>, <<0>>, <<1>>, <<3>>, <<0, 2>>, <<3, 2>>, <<1, 0, 1>>}}
ModexpRequest ==
  [name : {"modexp"}, gasLimit : {0, 1, 2, 5, 100},
   data : ModexpData
            \cup {SubSeq(data, 1, k) : data \in {d \in ModexpData : Len(d) = 12}, k \in 0 .. 11}
            \cup {<<2, 1, 0, 1, 0, 1, 3, 3, 3>>, <<0, 1, 0, 1, 2, 1, 3, 3, 3>>}]

Spread(n, step) == [i \in 0 .. n |-> (step * i + (i * i) \div 3) % 16]
BlakeRequest ==
  [name : {"blake2f"}, gasLimit : {0, 3, 12},
   data : [length : {213}, rounds : {0, 1, 2, 11}, h : {Spread(15, 5)},
           m : {[i \in 0 .. 31 |-> 0], Spread(31, 7), [i \in 0 .. 31 |-> IF i = 0 THEN 5 ELSE 0]},
           t : {Spread(3, 3)}, lastByte : {0, 1, 2}]
          \cup [length : {212, 214}, rounds : {1}, h : {Spread(15, 5)}, m : {Spread(31, 7)},
                t : {Spread(3, 3)}, lastByte : {1}]]

MCRequest == LibraryRequest \cup ModexpRequest \cup BlakeRequest
=============================================================================
