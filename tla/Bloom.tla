-------------------------------- MODULE Bloom --------------------------------
(***************************************************************************)
(* The bloom filter of the logs: bloom/index.ts, and how runTx.ts and      *)
(* runBlock.ts fill it.  A bit vector is a function on the indices of its  *)
(* bytes, from 0.                                                          *)
(***************************************************************************)
EXTENDS Integers, Sequences, FiniteSetsExt, SequencesExt

CONSTANTS
  BloomBytes,    \* BYTE_SIZE: 256
  BloomHash(_)   \* keccak256 of an address or a topic: a sequence of bytes

ASSUME BloomAssumption == \E n \in 0 .. 8 : BloomBytes = 2 ^ n

BitVector == [0 .. BloomBytes - 1 -> 0 .. 255]
NoBits == [n \in 0 .. BloomBytes - 1 |-> 0]

\* mask & e.readUInt16BE(i * 2), of the hash e of an element
Location(e, i) ==
  (256 * BloomHash(e)[2 * i + 1] + BloomHash(e)[2 * i + 2]) % (8 * BloomBytes)

\* Mutant: the bytes are counted from the front.
IndexFromFront(byteLoc) == byteLoc

\* The last byte has the lowest bits
Index(byteLoc) == BloomBytes - byteLoc - 1

HasBit(byte, n) == (byte \div 2 ^ n) % 2 = 1
ByteOr(x, y) ==
  MapThenSumSet(LAMBDA n : 2 ^ n, {n \in 0 .. 7 : HasBit(x, n) \/ HasBit(y, n)})

Add(bitvector, e) ==
  FoldLeft(LAMBDA v, i :
             LET loc == Location(e, i)
             IN  [v EXCEPT ![Index(loc \div 8)] = ByteOr(@, 2 ^ (loc % 8))],
           bitvector, <<0, 1, 2>>)

Check(bitvector, e) ==
  \A i \in 0 .. 2 :
    LET loc == Location(e, i)
    IN  HasBit(bitvector[Index(loc \div 8)], loc % 8)

MultiCheck(bitvector, topics) == \A n \in DOMAIN topics : Check(bitvector, topics[n])

\* The code goes on to the index behind the last byte, which is nothing to a
\* buffer
Or(bitvector, other) == [n \in DOMAIN bitvector |-> ByteOr(bitvector[n], other[n])]

----------------------------------------------------------------------------

\* The bloom of a transaction, and applyTransactions' bloom of a block
TxLogsBloom(logs) ==
  FoldLeft(LAMBDA v, log : FoldLeft(Add, Add(v, log.address), log.topics), NoBits, logs)

BlockBloom(txLogs) ==
  FoldLeft(LAMBDA v, logs : Or(v, TxLogsBloom(logs)), NoBits, txLogs)

----------------------------------------------------------------------------
(* The yellow paper: the bloom is a number, of which each address and topic *)
(* sets three bits.                                                        *)

BloomBits(elements) == UNION {{Location(e, i) : i \in 0 .. 2} : e \in elements}

\* The bits of a bit vector, the highest of its first byte first
BitsOf(bitvector) ==
  {bit \in 0 .. 8 * BloomBytes - 1 :
     HasBit(bitvector[(8 * BloomBytes - 1 - bit) \div 8], bit % 8)}
=============================================================================
