------------------------------- MODULE Sstore -------------------------------
(***************************************************************************)
(* The metering of storage writes: SSTORE with updateSstoreGas (opFns.ts), *)
(* the refund counter (eei.ts, evm.ts) and the cache of original values    *)
(* (stateManager.ts), through nested messages that succeed or fail.        *)
(*                                                                         *)
(* Slots are those of all contracts.  Gas left is not counted: a write may *)
(* run out of it at any time.                                              *)
(***************************************************************************)
EXTENDS Integers, Sequences, FiniteSets, FiniteSetsExt

CONSTANTS
  Slot, Value, Zero,
  Unread,      \* no original value cached
  Fork,        \* the hardforks a VM may be made for
  NetMetered,  \* those with net metering: constantinople, istanbul and later
  Fee,         \* the gas prices of ethereumjs-common, per fork
  MaxMessages, \* bound: nested messages
  MaxWrites    \* bound: writes in a behaviour

VARIABLES
  fork,      \* _common.hardfork()
  storage,   \* the value of each slot
  original,  \* _originalStorageCache
  refund,    \* EVM._refund
  messages,  \* messages being executed: what their failure brings back
  error,     \* exception of the running frame
  \* For the properties only, since the entry point was called:
  start,     \* the storage it began with
  spent,     \* the gas of the writes that were not reverted
  writes,    \* how many they are
  regular,   \* no originals of an earlier call, no failed code deposit
  count      \* writes since the VM was made (bound)

metered == <<start, spent, writes, regular>>
sstoreVars == <<fork, storage, original, refund, messages, error, metered, count>>
-----------------------------------------------------------------------------
Storage == [Slot -> Value]
NothingRead == [s \in Slot |-> Unread]

Prices == [noop : Nat, init : Nat, clean : Nat, dirty : Nat,
           clearRefund : Nat, initRefund : Nat, cleanRefund : Nat]

ASSUME SlotsAssumption ==
  /\ Zero \in Value /\ Unread \notin Value
  /\ IsFiniteSet(Slot)
  /\ NetMetered \subseteq Fork
  /\ Fee \in [Fork -> Prices]
  /\ MaxMessages \in Nat /\ MaxWrites \in Nat

\* The prices of EIP-1283 and EIP-2200: the first write of a slot costs a dirty
\* one and what resetting the slot gives back, a write that changes nothing a
\* dirty one.
ASSUME NetPrices ==
  \A f \in NetMetered : LET fee == Fee[f] IN
    /\ fee.noop = fee.dirty
    /\ fee.init = fee.dirty + fee.initRefund
    /\ fee.clean = fee.dirty + fee.cleanRefund

Message == [storage : Storage, refund : Nat, spent : Nat, writes : Nat]
Writing == messages # <<>> /\ error = "none"
LastMessage == messages[Len(messages)]
OuterMessages == SubSeq(messages, 1, Len(messages) - 1)
-----------------------------------------------------------------------------
(* updateSstoreGas: what a write costs, gives to the refund counter and    *)
(* takes from it.                                                          *)

Charge(gas, given, taken) == [gas |-> gas, given |-> given, taken |-> taken]

AmountIf(condition, amount) == IF condition THEN amount ELSE 0

\* Without net metering only the change counts.
PlainCharge(fee, current, value) ==
  Charge(IF current = Zero /\ value # Zero THEN fee.init ELSE fee.clean,
         AmountIf(current # Zero /\ value = Zero, fee.clearRefund), 0)

\* Mutant: resetting a slot to a value other than zero gives nothing back.
NetChargeNoReset(fee, orig, current, value) ==
  IF current = value THEN Charge(fee.noop, 0, 0)
  ELSE IF orig = current
  THEN Charge(IF orig = Zero THEN fee.init ELSE fee.clean,
              AmountIf(orig # Zero /\ value = Zero, fee.clearRefund), 0)
  ELSE Charge(fee.dirty,
              AmountIf(orig # Zero /\ value = Zero, fee.clearRefund)
                + AmountIf(orig = value /\ orig = Zero, fee.initRefund),
              AmountIf(orig # Zero /\ current = Zero, fee.clearRefund))

\* EIP-1283 and EIP-2200: a slot is clean while it has its original value.
NetCharge(fee, orig, current, value) ==
  IF current = value THEN Charge(fee.noop, 0, 0)
  ELSE IF orig = current
  THEN Charge(IF orig = Zero THEN fee.init ELSE fee.clean,
              AmountIf(orig # Zero /\ value = Zero, fee.clearRefund), 0)
  ELSE Charge(fee.dirty,
              AmountIf(orig # Zero /\ value = Zero, fee.clearRefund)
                + AmountIf(orig = value, IF orig = Zero THEN fee.initRefund ELSE fee.cleanRefund),
              AmountIf(orig # Zero /\ current = Zero, fee.clearRefund))

\* Mutant: the value is read anew each time.
OriginalUncached(s) == storage[s]

\* getOriginalContractStorage: the first value it read.
Original(s) == IF original[s] = Unread THEN storage[s] ELSE original[s]

\* subRefund.
Exhausted(charge) == refund < charge.taken

ChargeOf(s, value) ==
  IF fork \in NetMetered THEN NetCharge(Fee[fork], Original(s), storage[s], value)
                         ELSE PlainCharge(Fee[fork], storage[s], value)
-----------------------------------------------------------------------------
InitSstore ==
  /\ fork \in Fork
  /\ storage \in Storage
  /\ original = NothingRead
  /\ refund = 0
  /\ messages = <<>>
  /\ error = "none"
  /\ start = storage
  /\ spent = 0 /\ writes = 0 /\ regular = TRUE /\ count = 0

WithMessage == Append(messages, [storage |-> storage, refund |-> refund',
                                spent |-> spent', writes |-> writes'])

\* runTx, which clears the cache, or runCall, which does not; a new EVM.
BeginCall(entry) ==
  /\ messages = <<>>
  /\ original' = IF entry = "tx" THEN NothingRead ELSE original
  /\ refund' = 0
  /\ start' = storage
  /\ spent' = 0 /\ writes' = 0 /\ regular' = (original' = NothingRead)
  /\ messages' = WithMessage
  /\ UNCHANGED <<fork, storage, error, count>>

\* A message below the running one: executeMessage and runInterpreter.
Enter ==
  /\ Writing
  /\ Len(messages) < MaxMessages
  /\ UNCHANGED <<fork, storage, original, refund, error, metered, count>>
  /\ messages' = WithMessage

\* SSTORE: the current and the original value are read, then it is charged,
\* then stored.
Sstore(s, value) ==
  LET charge == ChargeOf(s, value)
      counted == refund - charge.taken + charge.given
  IN  /\ Writing
      /\ count < MaxWrites
      /\ count' = count + 1
      /\ original' = IF fork \in NetMetered THEN [original EXCEPT ![s] = Original(s)]
                                            ELSE original
      /\ \/ \* subRefund traps.
            /\ Exhausted(charge)
            /\ refund' = 0
            /\ error' = "refund exhausted"
            /\ UNCHANGED <<storage, spent, writes>>
         \/ \* useGas traps, after the refund was counted or before.
            /\ ~Exhausted(charge)
            /\ refund' \in {refund, counted}
            /\ error' = "out of gas"
            /\ UNCHANGED <<storage, spent, writes>>
         \/ /\ ~Exhausted(charge)
            /\ refund' = counted
            /\ storage' = [storage EXCEPT ![s] = value]
            /\ spent' = spent + charge.gas
            /\ writes' = writes + 1
            /\ error' = error
      /\ UNCHANGED <<fork, messages, start, regular>>

Return ==
  /\ Writing
  /\ messages' = OuterMessages
  /\ UNCHANGED <<fork, storage, original, refund, error, metered, count>>

\* What a failure brings back: the state, and with it what its writes cost.
Undone ==
  /\ messages' = OuterMessages
  /\ storage' = LastMessage.storage
  /\ spent' = LastMessage.spent
  /\ writes' = LastMessage.writes
  /\ error' = "none"

\* Mutant: a failure does not give back the refunds.
FailKeeps ==
  /\ messages # <<>>
  /\ Undone
  /\ refund' = refund
  /\ UNCHANGED <<fork, original, start, regular, count>>

\* An exception, the frame's own or of a write: runInterpreter restores the
\* refund counter, executeMessage reverts.
FailMessage ==
  /\ messages # <<>>
  /\ Undone
  /\ refund' = LastMessage.refund
  /\ UNCHANGED <<fork, original, start, regular, count>>

\* A creation that cannot pay for its code fails after runInterpreter.
FailDeposit ==
  /\ Writing
  /\ Undone
  /\ regular' = FALSE
  /\ UNCHANGED <<fork, original, refund, start, count>>

NextSstore ==
  \/ \E entry \in {"tx", "call"} : BeginCall(entry)
  \/ Enter
  \/ \E s \in Slot, value \in Value : Sstore(s, value)
  \/ Return
  \/ FailMessage
  \/ FailDeposit

SstoreSpec == InitSstore /\ [][NextSstore]_sstoreVars
-----------------------------------------------------------------------------
(* Properties.                                                             *)

SstoreTypeOK ==
  /\ fork \in Fork
  /\ storage \in Storage
  /\ original \in [Slot -> Value \union {Unread}]
  /\ refund \in Nat
  /\ messages \in Seq(Message)
  /\ error \in {"none", "out of gas", "refund exhausted"}
  /\ start \in Storage
  /\ spent \in Nat /\ writes \in Nat /\ regular \in BOOLEAN /\ count \in Nat

Net == regular /\ fork \in NetMetered

\* The values a slot may be reverted to, and the current one.
Levels(s) == {storage[s]} \union {messages[i].storage[s] : i \in 1..Len(messages)}

\* Writes are metered against what the transaction began with: every slot that
\* differs from it, now or after any revert, has that value as its cached
\* original, unless runCall met the originals of an earlier call
\* (stateManager.ts getOriginalContractStorage; runTx.ts).
OriginalIsStart ==
  Net => \A s \in Slot :
    /\ original[s] \in {start[s], Unread}
    /\ original[s] = Unread => Levels(s) = {start[s]}

\* No write takes back more than was given before, through nested messages that
\* fail and writes that run out of gas (opFns.ts; eei.ts subRefund).
RefundSuffices == regular => error # "refund exhausted"

\* What changing a slot from orig to value should cost on the whole.
NetCost(fee, orig, value) ==
  CASE value = orig -> 0
    [] value # orig /\ orig = Zero -> fee.initRefund
    [] value # orig /\ orig # Zero -> fee.cleanRefund - AmountIf(value = Zero, fee.clearRefund)

SumOfCosts(fee) == MapThenSumSet(LAMBDA s : NetCost(fee, start[s], storage[s]), Slot)

\* Net metering: what the writes cost, less the refunds, is a fee per write and
\* what the difference between first and last values costs, whatever came
\* between (opFns.ts updateSstoreGas).
CostIsNet ==
  Net /\ error = "none" =>
    spent - refund = writes * Fee[fork].dirty + SumOfCosts(Fee[fork])
=============================================================================
