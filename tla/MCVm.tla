-------------------------------- MODULE MCVm --------------------------------
(* Instances of Vm for TLC: one transaction of each outcome and a small    *)
(* tree of blocks, good and bad.                                           *)
EXTENDS Vm

CONSTANTS em, osm, gen,                    \* accounts
          good, failing, overflowing, bad, \* transactions
          b1, b2, c2, c3,                  \* a chain, and a fork of it
          x1, h1, g1, o1,                  \* a bad transaction, header, limit; an overflow
          g2, m1                           \* no room for the second transaction; malformed

MCDump == <<em, osm>>

PerTx(g, f, o, r) ==
  [t \in Tx |-> IF t = good THEN g ELSE IF t = failing THEN f
               ELSE IF t = overflowing THEN o ELSE r]
MCOutcome == PerTx("succeeds", "fails", "overflows", "rejected")
MCWrites == PerTx({em, gen}, {em}, {osm}, {em})
MCGasLimit == PerTx(3, 3, 3, 3)
MCConsumed == PerTx(3, 5, 3, 3)
MCRefund == PerTx(2, 7, 0, 0)

MCParent == [b \in Block |-> IF b \in {b2, c2} THEN b1 ELSE IF b = c3 THEN c2 ELSE Genesis]
MCNumber == [b \in Block |-> IF b \in {b2, c2} THEN 2 ELSE IF b = c3 THEN 3 ELSE 1]
MCTransactions ==
  [b \in Block |-> CASE b = b2 -> <<failing, good>>
                     [] b = c2 -> <<failing>>
                     [] b = x1 -> <<good, bad>>
                     [] b = o1 -> <<good, overflowing>>
                     [] b = g2 -> <<good, good>>
                     [] OTHER -> <<good>>]
MCCoinbase == [b \in Block |-> IF b = c2 THEN osm ELSE gen]
MCBlockGasLimit == [b \in Block |-> IF b = g1 THEN 2 ELSE IF b = g2 THEN 4 ELSE 9]
MCHeaderGas == [b \in Block |-> IF b = b2 THEN 5 ELSE IF b = c2 THEN 3
                               ELSE IF b = g2 THEN 4 ELSE 2]

ValidRoot[b \in Block] ==
  AfterBlock(IF MCParent[b] = Genesis THEN GenesisWorld ELSE ValidRoot[MCParent[b]], b)
MCHeaderRoot == [b \in Block |-> IF b = h1 THEN GenesisWorld ELSE ValidRoot[b]]
=============================================================================
