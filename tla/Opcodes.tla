------------------------------ MODULE Opcodes ------------------------------
(***************************************************************************)
(* The table of opcodes.ts: the name of every byte of code, what its       *)
(* execution costs at least, and what of that depends on the hardfork.     *)
(***************************************************************************)
EXTENDS Integers, Sequences

\* The hardforks between which the table or a handler distinguishes, in order
Hardforks == <<"byzantium", "constantinople", "petersburg", "istanbul">>
Hardfork == {Hardforks[n] : n \in DOMAIN Hardforks}
Gte(fork, other) ==
  \E n, k \in DOMAIN Hardforks :
    n >= k /\ Hardforks[n] = fork /\ Hardforks[k] = other

Row0 == <<"STOP", "ADD", "MUL", "SUB", "DIV", "SDIV", "MOD", "SMOD", "ADDMOD",
          "MULMOD", "EXP", "SIGNEXTEND">>
Row1 == <<"LT", "GT", "SLT", "SGT", "EQ", "ISZERO", "AND", "OR", "XOR", "NOT",
          "BYTE", "SHL", "SHR", "SAR">>
Row3 == <<"ADDRESS", "BALANCE", "ORIGIN", "CALLER", "CALLVALUE", "CALLDATALOAD",
          "CALLDATASIZE", "CALLDATACOPY", "CODESIZE", "CODECOPY", "GASPRICE",
          "EXTCODESIZE", "EXTCODECOPY", "RETURNDATASIZE", "RETURNDATACOPY",
          "EXTCODEHASH">>
Row4 == <<"BLOCKHASH", "COINBASE", "TIMESTAMP", "NUMBER", "DIFFICULTY",
          "GASLIMIT">>
Row4Istanbul == <<"CHAINID", "SELFBALANCE">>
Row5 == <<"POP", "MLOAD", "MSTORE", "MSTORE8", "SLOAD", "SSTORE", "JUMP",
          "JUMPI", "PC", "MSIZE", "GAS", "JUMPDEST">>
RowF == <<"CREATE", "CALL", "CALLCODE", "RETURN", "DELEGATECALL", "CREATE2">>

\* A byte that is in no row is INVALID, as for lookupOpInfo
Name(fork, byte) ==
  CASE byte \in 0 .. 11 -> Row0[byte + 1]
    [] byte \in 16 .. 29 -> Row1[byte - 15]
    [] byte = 32 -> "SHA3"
    [] byte \in 48 .. 63 -> Row3[byte - 47]
    [] byte \in 64 .. 69 -> Row4[byte - 63]
    [] byte \in 70 .. 71 /\ Gte(fork, "istanbul") -> Row4Istanbul[byte - 69]
    [] byte \in 80 .. 91 -> Row5[byte - 79]
    [] byte \in 96 .. 127 -> "PUSH"
    [] byte \in 128 .. 143 -> "DUP"
    [] byte \in 144 .. 159 -> "SWAP"
    [] byte \in 160 .. 164 -> "LOG"
    [] byte \in 240 .. 245 -> RowF[byte - 239]
    [] byte = 250 -> "STATICCALL"
    [] byte = 253 -> "REVERT"
    [] byte = 255 -> "SELFDESTRUCT"
    [] OTHER -> "INVALID"

\* The number that is part of an opcode: bytes pushed, position, topics
Width(byte) ==
  CASE byte \in 96 .. 127 -> byte - 95
    [] byte \in 128 .. 143 -> byte - 127
    [] byte \in 144 .. 159 -> byte - 143
    [] byte \in 160 .. 164 -> byte - 160
    [] OTHER -> 0

FeeClass ==
  << <<0, {"STOP", "SSTORE", "RETURN", "REVERT", "INVALID"}>>,
     <<1, {"JUMPDEST"}>>,
     <<2, {"ADDRESS", "ORIGIN", "CALLER", "CALLVALUE", "CALLDATASIZE",
           "CODESIZE", "GASPRICE", "RETURNDATASIZE", "COINBASE", "TIMESTAMP",
           "NUMBER", "DIFFICULTY", "GASLIMIT", "CHAINID", "POP", "PC",
           "MSIZE", "GAS"}>>,
     <<3, {"ADD", "SUB", "LT", "GT", "SLT", "SGT", "EQ", "ISZERO", "AND", "OR",
           "XOR", "NOT", "BYTE", "SHL", "SHR", "SAR", "CALLDATALOAD",
           "CALLDATACOPY", "CODECOPY", "RETURNDATACOPY", "MLOAD", "MSTORE",
           "MSTORE8", "PUSH", "DUP", "SWAP"}>>,
     <<5, {"MUL", "DIV", "SDIV", "MOD", "SMOD", "SIGNEXTEND", "SELFBALANCE"}>>,
     <<8, {"ADDMOD", "MULMOD", "JUMP"}>>,
     <<10, {"EXP", "JUMPI"}>>,
     <<20, {"BLOCKHASH"}>>,
     <<30, {"SHA3"}>>,
     <<200, {"SLOAD"}>>,
     <<375, {"LOG"}>>,
     <<400, {"BALANCE", "EXTCODEHASH"}>>,
     <<700, {"EXTCODESIZE", "EXTCODECOPY", "CALL", "CALLCODE", "DELEGATECALL",
             "STATICCALL"}>>,
     <<5000, {"SELFDESTRUCT"}>>,
     <<32000, {"CREATE", "CREATE2"}>> >>

\* istanbulOpcodes
FeeIstanbul == [BALANCE |-> 700, EXTCODEHASH |-> 700, SLOAD |-> 800]

Fee(fork, op) ==
  IF Gte(fork, "istanbul") /\ op \in DOMAIN FeeIstanbul THEN FeeIstanbul[op]
  ELSE FeeClass[CHOOSE n \in DOMAIN FeeClass : op \in FeeClass[n][2]][1]
=============================================================================
