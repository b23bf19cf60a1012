# Verification of the VM

TLA+ modules, TLC configurations and TLAPS proofs for the virtual machine in
`lib/`: an Ethereum VM (`ethereumjs-vm` 4.x) in which every outermost message
goes through the OVM's `OVM_ExecutionManager` contract.  Paths below are
relative to the repository.

    tlc -config SM_nested.cfg StateManager.tla     # a run; PROJECT.json lists them
    tlapm StateManager_proofs.tla                  # and every other *_proofs.tla, and Sums.tla

## 1. The system

| Part | State it keeps | Operations | Talks to |
|---|---|---|---|
| `state/stateManager.ts` | `_trie`, `_cache`, `_storageTries`, `_touched`, `_touchedStack`, `_checkpointCount`, `_originalStorageCache` | accounts, code, storage, checkpoint / commit / revert, state roots, genesis, cleanup, copy | trie, cache; called by everything below |
| `state/cache.ts` | `_cache` (persistent tree), `_checkpoints` | get / put / del, getOrLoad, flush, checkpoint / revert / commit, clear | state trie |
| `evm/evm.ts`, `evm/message.ts` | `_refund`, `_targetMessage`, `_targetMessageResult`, `_accountMessageResult` | `executeMessage`, `_executeCall`, `_executeCreate`, `runInterpreter` | state manager, EEI, interpreter, OvmStateManager |
| `evm/eei.ts` | `_env` (with a copy of the account), `_result` (logs, selfdestruct), `_gasLeft`, `_lastReturned` | storage, log, selfdestruct, call*, create*, gas | EVM (nested messages), state manager |
| `evm/interpreter.ts`, `stack.ts`, `memory.ts`, `opFns.ts`, `opcodes.ts` | program counter, stack, memory, memory cost | one opcode at a time | EEI |
| `ovm/ovm-state-manager.ts` | none | the native handlers of `OVM_StateManager` | state manager |
| `runTx.ts`, `runBlock.ts`, `runBlockchain.ts`, `runCall.ts`, `runCode.ts` | local | transaction, block, chain, call | EVM, state manager |
| `index.ts` | `initialized`, `dump`, `contracts` | `init`, `copy`, `_emit`, entry points | all |
| `evm/precompiles/*` | none | one function each, called by `evm.ts` in place of the interpreter | - |
| `bloom/index.ts` | `bitvector` | add, check, multiCheck, or | filled by `runTx.ts`, `runBlock.ts` |
| `ovm/utils/*` | none | pure functions | - |

Everything runs in one JavaScript thread and each part awaits the one it calls.
So inside one call of the VM there is no interleaving, and the hard behaviours
are of three other kinds:

* **two copies of one fact**: the cache and the trie, `_storageTries` and the
  accounts' state roots, `_env.contract` and the account, `_touched` and the
  accounts; each must survive checkpoints, reverts, changes of root, reentrancy;
* **failure in the middle**: exceptions, reverts, code deposits, errors that
  are not VM exceptions, each after some of the state has changed and with state
  in four places to take back (accounts, logs, selfdestructs, refunds);
* **sequences nobody wrote a test for**: deep nesting, static below delegate,
  creation inside creation, genesis after a read.

Interleavings appear where calls of one object overlap: nothing in `index.ts` keeps a
second call of the VM out, and all calls share one stack of checkpoints; nor does
anything keep one call of a state manager waiting for another, and
`cleanupTouchedAccounts` itself asks for all its accounts at once.  `PROJECT.json` lists the
hazards at their lines, with the properties that cover them.

What makes each part correct:

* *State manager*: it is a ledger with nested checkpoints, as if there were no
  cache; a state root stands for the whole ledger; nothing empty stays after a
  cleanup; nothing is lost when the last checkpoint closes.
* *EVM messages*: a message that fails has not happened (accounts, logs,
  selfdestructs; `Sstore` also has the refunds); ether is moved, burned, never made; nothing below a
  static call changes the state; nesting is bounded; every message is answered.
* *Transactions, blocks*: a transaction or block that throws leaves the state as it
  was; one that is accepted took effect whole; a block runs on its parent's state
  and leaves the state its header names; gas given back is at most half.
* *Gas*: memory is paid for when it grows; a caller can pay for what it calls; the
  gas of the outermost message pays for everything, so that every message ends;
  refunds for storage never come to less than what is taken back.
* *Interpreter*: bytecode does what the machine of the yellow paper does, whatever the
  words are, but for offsets of memory that JavaScript's numbers do not have (`INEXACT`); data is never executed; memory exists only once it is charged.
* *Account cache*: what was put last is what everybody finds, whoever waits for the
  trie; a flush that is answered has written what it promised; every call is answered.
* *Precompiled contracts, bloom*: exact results, and never more gas than there is.

## 2. Modules

| Module | Models | Kind |
|---|---|---|
| `WorldState` | what the state manager promises | abstract |
| `StateManager` | `stateManager.ts` with `cache.ts` | detailed, implements `WorldState` |
| `StateManager_proofs` | theorems about `StateManager` | proofs |
| `Journal` | what executing messages promises | abstract |
| `Evm` | `evm.ts`, the calling side of `eei.ts` and `opFns.ts`, `ovm-state-manager.ts` | detailed |
| `EvmJournal` | `Evm` mapped to `Journal`; totals of ether | refinement |
| `Evm_proofs` | theorems about `Evm` and `EvmJournal` | proofs |
| `Vm` | `index.ts`, `runTx.ts`, `runBlock.ts`, `runBlockchain.ts`, `runCall.ts`, `runCode.ts` | detailed |
| `MCVm` | transactions and a tree of blocks for `Vm` | instance |
| `Vm_proofs` | theorems about `Vm` | proofs |
| `Sstore` | `updateSstoreGas` of `opFns.ts`, the refund counter, the cache of original values | detailed |
| `MCSstore` | the gas prices of three hardforks for `Sstore` | instance |
| `Gas` | `useGas` and the charges of calls in `eei.ts`, `subMemUsage`, `maxCallGas`, `writeCallOutput` and the call opcodes of `opFns.ts`, `memory.ts`, what `evm.ts` charges at the end | detailed |
| `MCGas` | the parts of a small memory for `Gas` | instance |
| `Gas_proofs` | theorems about `Gas` and `Sstore` | proofs |
| `Words` | the arithmetic of `opFns.ts` on words | operators |
| `Opcodes` | `opcodes.ts`, the table per hardfork | operators |
| `Interpreter` | `interpreter.ts`, `stack.ts`, `memory.ts`, every opcode of `opFns.ts` within a message, the getters of `eei.ts` | detailed |
| `Machine` | what running bytecode promises | abstract |
| `Blake2f`, `Precompiles` | `evm/precompiles/*` | operators |
| `Bloom` | `bloom/index.ts`, the blooms of `runTx.ts` and `runBlock.ts` | operators |
| `Execution` | a message's code given to the interpreter or to a precompile, by `evm.ts`; `Interpreter` mapped to `Machine` | composition, refinement |
| `Execution_proofs` | theorems about `Interpreter`, `Precompiles`, `Blake2f` and `Bloom` | proofs |
| `Machine_proofs` | that `Execution` implements `Machine` | proofs |
| `MCCode` | programs and requests for `Execution` | instance |
| `Cache` | `cache.ts` and the operations of `stateManager.ts` that wait for the trie, callback by callback | detailed |
| `Cache_proofs` | theorems about `Cache` | proofs |
| `Sums` | sums over finite sets, folds and recursions over sequences, for the other proofs | proofs |

`Evm` uses, in place of `StateManager`, what `StateManager` is shown to
implement: `world` and `saved` are the variables of `WorldState`.  That is how the
two compose: the refinement proved in `StateManager_proofs` is what entitles `Evm`
to a plain function for the accounts and a stack of them for the checkpoints.

### StateManager

Data.  A trie is content-addressed, so a state root *is* the mapping it stands
for, and an account's `stateRoot` is its storage; "entering a root that is in the
database" is going back to one of `heldRoots`.  An account is a `body` (nonce,
balance, code hash, all in one model value; `EmptyBody` is the empty one) and its
storage.  A cache entry is the record of `cache.ts`; `NoEntry` is a missing one.

Operations.  One action per operation of `stateManager.ts` that changes state,
with every call it makes: `Commit` and `Revert` contain the flush at the last
checkpoint (`Settle`), `GetStateRoot` the flush, `SetUnknownStateRoot` the flush
that precedes the error.  `PutAccount` is the read-change-write every caller
does; `DestroyAccount` is what runTx does to a selfdestructed contract;
`PutContractStorage` requires a body, as SSTORE runs only in a contract, except at
`Codeless` addresses, which OvmStateManager may write.  These three constants
(`Destructible`, `Codeless`, `GenesisAddress`) are not switches of the code: they
say where the rest of the VM does something after which a guarantee is gone, so
that the properties can say exactly which addresses keep it.

### Evm

The frames are the activations of `executeMessage`, outermost first.  `message` is
a message that has been built and not yet executed: opcode (`Call`, `Create`) and
`executeMessage` (`CallStateManager`, `ExecuteCall`, `ExecuteCreate`) are two steps
because `create` writes the nonce before the checkpoint.  `Finish` is the rest:
the end of `runInterpreter`, the code deposit of `_executeCreate`, commit or
revert, the rewriting of the outermost result, and what `_baseCall` or `create` do
with the answer.  What contract code computes is arbitrary, and so is when it
fails; a trap is a `Finish` with an exception.  A frame keeps `start`, the world when
its message was entered; that one field is not in the code and only the properties
use it.  Code is `TRUE` or `FALSE`, an account has one storage slot, refunds count
how often one was given (petersburg rules, the default hardfork).  The address of a
creation is read from the ExecutionManager's storage, so it is any address.

`Throws` and `Unfunded` describe the environment: whether a contract sends
`OVM_StateManager` something its handlers reject with a plain `Error`, and whether a
caller of the VM sends more ether than the sender has.  The code rules out neither.

### Vm

A call of the VM is a record of `call`: `at` is the await it has reached, `kind`
which entry point it came through, and the rest are the locals of the functions it
runs.  A step runs from one await that matters to the next, so two calls may
overlap anywhere.  `Begin` is the call of an entry point, `InitVm` and `WriteDump`
are `VM.init`, and each later step is named after the function and the part of it.
`runBlock` calls `runTx` as in the code: the same steps, with `kind` telling them where
to return (`TxAnswer`); so does `runBlockchain` with `runBlock` (`BlockAnswer`).

An account is the sequence of what was done to it, so that "nothing stays of it"
and "nothing of it is missing" can be said; a root is the world it stands for.  Under
its two variables `world` and `saved`, the ledger of `WorldState`, `Vm` keeps `trie`, the
flushed world: `generateGenesis` writes there, and `copy` copies only that.  What
contract code does is decided beforehand: `Outcome` says of every transaction whether its
message succeeds, fails (reverted, still a good transaction), is `rejected` before
it, or `overflows`, the plain `Error` of `evm.ts` 343 that leaves a checkpoint open.
`start`, the world a call began with, is only for the properties.

`MCVm` has a transaction of each outcome and ten blocks: a chain `b1`, `b2`; a fork
`c2`, `c3` of it with a longer branch; and six bad blocks, with a rejected
transaction, a wrong header, a gas limit too low for a transaction, an overflow, a gas limit
that has room for each of two transactions but not for the second after the first, and one that
`block.validate` refuses.

### Sstore

What a write to storage costs, under a hardfork with net metering (`NetMetered`:
constantinople, istanbul) or without.  `NetCharge` and `PlainCharge` are the branches
of `updateSstoreGas`, EIP-1283 and EIP-2200 as one, since they differ in prices only
(`Fee`).  The slots are those of all
contracts.  `messages` are those under way; each keeps what a failure brings back: the storage (`executeMessage`) and
the refund counter (`runInterpreter`).  Gas left is not counted, so that a write may run
out of gas at any time; because `updateSstoreGas` counts the refund before the charge, it may do
so with the counter already changed.  `BeginCall` comes through `runTx`, which clears the cache of original
values, or through `runCall`, which does not; `FailDeposit` is a creation that cannot pay
for its code, reverted without its refunds.  `regular` is false after one of the two has
spoiled the metering: `runCall` on the original values of an earlier call, or a failed
deposit.  The invariants hold while it is true; when it is not, the counter may be too low
and a write trap with refund exhausted (section 5).

### Gas

The frames are the activations of the interpreter, with the gas left, the limit, and the
three numbers of `subMemUsage` and `memory.ts`: `words` (`memoryWordCount`), `paid`
(`highestMemCost`) and the length of `memory`.  Memory is counted in words.  Which opcode
comes next and what it reads or returns is arbitrary; what it is charged is not.
`Read` and `Write` are the opcodes below calls; `Call` is CALL, CALLCODE,
DELEGATECALL and STATICCALL, `Create` is CREATE and CREATE2, `End` is STOP, RETURN,
SELFDESTRUCT and REVERT with the code deposit, and `Fail` is every exception.  `out` is the
region of the caller's memory an answer will be written to: it is paid for before the call
and written after it.

A charge that comes to more than there is traps: the handler's other charges have then no
effect, so one action adds all charges of a handler up and compares once.  A trap is a
step of its own, before `Fail`, since `runInterpreter` catches it.
Some messages are answered without an interpreter (`AnswerAtOnce`): refused for depth or
balance, without code, to `OVM_StateManager`, to a precompile, a collision.  `Inexact` is
`BN.toNumber`, which throws from 2^53 on (`SafeOffset`): memory that is accessed so far out
cannot be paid for, but an access of length zero is free, and some handlers convert its
offset all the same.

Three variables are only for the properties.  `work` is gas that was charged for something
done, also if it was reverted since, which is not the gas that is missing: a failed message
is charged its whole limit, whatever it did.  `before` is `work` when a message was
entered, and `overdrawn` says how a caller came to be charged more than it had.  The
charge for storage is one of `OpFee`; the refund counter is in `Sstore`.

### Words, Opcodes, Interpreter, Machine

A behaviour of `Interpreter` is one activation, of a `job`: code, hardfork, gas, the program
counter to start at.  Each round of `_getValidJumpDests` is a step (`FindJumpDest`), and
each opcode is one, with all its handler does: `Refusal` is the first of a handler's checks
to fail, in their order, `Cost` all it charges, and one action per shape of handler does the
rest.  So that programs can be enumerated, words are small: `ByteBits` and `WordBytes` are
2 in place of 8 and 32, and every constant the code derives from 256 or 32 follows from
them.  Opcodes keep their numbers; a byte that is data of a PUSH counts modulo the size of
a byte.  A handler that traps has no effect in the model: what it has left on the stack or
charged before is never looked at, since `runInterpreter` then takes all the gas.

`Words` translates the handlers as they compute, with bn.js's operations: SDIV through
`fromTwos` and `toTwos`, SAR and SIGNEXTEND with masks, results that are only correct when
nothing leaves the range of a word.  `Machine` is written from the other end: residues,
quotients by what divides, memory as a function that is zero until written, positions of
instructions, the set of *all* reasons an instruction has to fail.  `Execution` maps one to
the other (`M`); the machine may run out of gas whenever it likes and pushes what it wants for
GAS, which is what makes it a specification of results rather than of prices.  The two are
compared at the `Addresses` of memory: all of them in the proof, the first forty in the run.

The calls the interpreter makes are in `Evm` and `Gas`; DELEGATECALL and STATICCALL are
here too, with any of `Answer` for an answer, for what the caller's stack, memory, logs
and `_lastReturned` become.

`SafeOffset` is 2^53, where `BN.toNumber` starts to throw: a plain `Error`, which ends the frame
like any exception (`INEXACT`).  The handlers that read convert offset and length unless
the length is zero; the copies always do; `writeCallOutput` does if the answer has
data, be the region empty or not (`Converted`, `OutputInexact`).  What is not empty and so far
out costs some 2^87 of gas, so that OUT_OF_GAS comes first, but what is empty costs
nothing.  `Refusal` has the throw where the handlers have it, between
the charge for memory and, in SHA3 and LOG, the charge for the length (`CostBefore`).  In
`LoseAnswer` the message has been sent, paid for and answered when the output
cannot be located: the caller keeps answer and logs, and stops.  The yellow paper knows none of
this, so `Machine` has `INEXACT` among its `Reasons`, as the one that is the code's own, and
`Lose` beside `Ask`; it says only when the code may stop so, and that it does nothing else there.

### Precompiles, Blake2f, Bloom, Execution

`Precompiles` has the price and the failures of each precompiled contract, and the results
of `identity`, `modexp` and `blake2f`; curves and hashes are libraries (`External`) that
may refuse any data.  `Eip198` states price and value of `modexp` without the code's
detours, with the piecewise complexity of the EIP.  `Blake2f` computes as the code does, with halves of words in one array, and
`Compress` with words; halves have four bits and rotations are in proportion, which keeps
every carry and every crossing of halves.  `Bloom` is the bit vector with as few bytes as
a power of two allows, and hashes that reach all of it.  `Execution` puts a request to a
precompile beside the runs of the interpreter, as `runInterpreter` and `runPrecompile` are
the two branches of `_executeCall`.

### Cache

`StateManager` takes each operation as one step.  `Cache` has a step per callback, so that
calls may overlap, answers come late and in any order, and the trie fail.  It has the four
operations that wait: `getAccount`, `cleanupTouchedAccounts`, `getStateRoot` and
`setStateRoot`, and `putAccount`, which does not.  The tree of the cache is persistent and
its entries are not: `flush` walks through the version it began with and marks as clean
the very entries the current version holds.  Hence `cache` maps keys to indices into
`entries`.  The trie does its writes one after the other (`writes`), and a write goes out
from the root the trie had when the write began (`base`).

Four variables say what the properties except.  `overtaken` has the keys put while an older
answer was on its way, `unwritten` those whose write failed, `overlapped` whether two
flushes were under way at once, and `latest` is what was put last.  The exceptions are
what the code really does: an answer of `getOrLoad` that comes late overwrites what
was put meanwhile; an entry whose write failed stays marked as clean, so that no later
flush writes it; of two flushes that overlap the older may write an older entry over a
newer one; `cleanupTouchedAccounts` ends by forgetting also the addresses touched while it
waited, and may delete an account that was put meanwhile; and when a root is entered while
another flush writes, that write brings the old root back.

## 3. Runs

| Run | Instance | What it shows |
|---|---|---|
| `SM_nested` | 1 address, 2 bodies, 1 slot with 2 values, 3 checkpoints, 2 roots | the state manager implements the ledger; stacks aligned; cache and storage tries coherent; durable at the last checkpoint |
| `SM_two` | 2 addresses, 1 checkpoint, destruction, codeless storage and genesis at one, RIPEMD at the other | what still holds with them: empties are found by the cleanup, no storage without a body, the RIPEMD exception |
| `Evm_messages` | 3 addresses (ExecutionManager, StateManager, one without code), 1 ether, 3 opcodes, stack limit 2 | the journal of accounts, logs and selfdestructs; a checkpoint per message; fresh copies of accounts; static calls; ether |
| `Evm_throws` | 3 addresses, one a precompile, errors and unfunded messages, 1 opcode, up to 3 left-over checkpoints | with errors checkpoints are left over, never missing; every message is answered |
| `Vm_serial` | `MCVm`, two calls of any kind one after the other | transactions and blocks all or nothing; a block on its parent's state through reorganisations; only invalid blocks are deleted |
| `Vm_overlap` | two calls that overlap, 3 transactions, 1 block | checkpoints accounted for; every call answered |
| `Sstore` | 2 slots, 3 values, 3 hardforks with their prices, 2 nested messages, 4 writes | writes are metered against the transaction's start; the counter suffices; what writes cost depends on first and last values |
| `Gas` | 12 units of gas, 3 nested messages, memory of 2 words | memory is paid for; callers can pay for callees; the outermost gas pays for all work; everything ends |
| `Code` | words of 4 bits, a stack of 7, `MCCode`'s programs under 3 hardforks and requests to all precompiles | the interpreter implements the machine; data is never executed; memory is charged; values stay words; `modexp`, `blake2f`, bloom exact; precompiles within their limit |
| `Cache` | 2 accounts, each there or not, 2 puts, 3 calls that overlap, a trie that may fail | what was put is found and flushed; empties go; nobody waits for nothing |
| `Vm_half_block`, `Blake2f_words` | as `Vm_serial`; `MCCode`'s requests to `blake2f` | a statement of a document or comment that the code does not keep (section 5) |

The type invariants of `StateManager`, `Sstore` and `Gas`, and that a revert restores the
world of its checkpoint, are theorems (section 4) and not repeated in the runs.  `TypeOK` of
`Evm` and of `Vm` document their variables, and are (but for `report`) part of what is proved about them.

Bounds.  One address suffices for everything the state manager does per
address, since its operations treat addresses independently but for checkpoint,
revert, flush and cleanup, which treat all alike; two are used where sets of
addresses differ.  Three checkpoints let the outermost, a middle and the innermost
one differ.  In `Evm`, three opcodes are enough for a call, a reentrant call back and
a change inside it, or for a creation that stores, clears and fails; the values 0 and
1 tell a message with value from one without, and one ether more than a sender has
from enough.  `MaxSteps` counts opcodes over a whole behaviour, so that several
messages may follow each other; `MaxNonce` and `MaxSaved` bound nonces and left-over
checkpoints.  `Evm_throws` does not check for deadlock: an idle VM whose caller has
stopped (`MaxSaved`) is one; that no *message* gets stuck is the property `Terminates`.

Two calls are enough for `Vm`: one to disturb the state and one to suffer from it.  The
tree of blocks has every reason for which a block is refused, and a fork as long as
makes the iterator change branches.  The runs of `Vm` do not check for deadlock: after
`MaxCalls` calls the caller is done, and the VM is idle; that no *call* gets stuck is
`Answered`.

In `Sstore`, net metering tells apart whether a slot has its original value, and which
of original, current and new are zero: three values give every such case.  Four writes
let a slot change, change back, and do both once more below a message that fails; two slots
let the refund of one hide that the other's is missing, which one slot cannot.

In `Gas` the prices are small and in the order of the real ones where the order matters: giving
ether costs more than the stipend, a new account more than nothing, the second word
of memory more than the first.  Twelve units pay for two nested calls, one with ether, and some work
in the innermost; a quarter, in place of 1/64, keeps the part that
`maxCallGas` withholds from rounding to nothing.  The four parts of memory are none, none at an offset that is not exact, the first
word and the second: a call may want its output in memory it did not have, and get more or
less than it wanted.  What the proofs say for all prices needs no such choice.

In `Code`, words of two bytes of two bits each have everything that makes a word awkward:
a sign bit, a byte that is not the last, a smallest number, bits beyond a byte.  Every
operation is run on *every* pair of words (those of three arguments on words at the edges), and
every code of four bytes (six of the plainest) that is made of jumps, pushes and tests is
run, from its beginning and from inside; that includes every
way a JUMPDEST can be data.  The other families vary the offsets and lengths around the
end of a word, of memory and of the data that is copied, the gas around what is needed, and the
answers of a callee around the space set aside for them.  `SafeOffset` is 12, within reach of
four bits: `Reaching` has every opcode that touches memory just below it, at it and beyond, with
lengths of zero, of one, and of as much; a call has its input and its output on either side.  A stack of seven overflows within a
short program.  `Code` and `Blake2f_words` stop when the code does, hence without a check for deadlock.

In `Cache` two accounts are the least with an order to flush in, and three calls let two
overlap with a third started at any moment of theirs.  Accounts are empty or not, which is what
cleanup and the trie distinguish.  When all calls are made and answered nothing happens
any more, so that deadlock is not checked; that no call gets stuck is `NobodyForgotten`: whoever
is not answered has asked, and the answer is still to come.  It is an invariant rather than a
liveness property, as the answers themselves are the database's to give.

Fairness is assumed in three runs.  `Gas`: a message that is under way takes another step, whichever
(weak fairness of `Step`), as the loop of the interpreter does; that it ends is then the
property `Halts`.  `Evm_throws`: a message that has been entered goes on
(weak fairness of opcode, execution and end).  The code justifies it by gas, which
bounds what a frame can do (`Halts`), and by having no wait other than for its own callee.
`Vm_overlap`: a call that was made goes on (weak fairness of its steps), since every
await is for something the same call started.  Nothing is assumed about callers.

## 4. Proofs

`StateManager_proofs` proves, for every set of addresses, bodies, slots and values
and every depth, under the assumptions `ConstantsAssumption` of `StateManager`:

* `TypeCorrectness`, `Alignment`, `Coherence`, `StorageCoherence`,
  `EmptiesHaveNoStorage`, `EmptiesAreTouched`: the invariants of the runs;
* `Restoration`, `Durability`, `RipemdTouched`: the action properties;
* `Refinement`: `Spec => ImplementsLedger`, if nothing is destroyed, given storage
  without a body, or written by genesis past the cache (`Sound`) - the three cases in
  which the runs show that the code departs from the ledger.

The inductive invariant is `IInv`.  None of its parts is inductive alone:
coherence of the cache after a revert needs the coherence of every saved cache
*and* that the trie did not change since (`CheckpointsAligned`);
`StorageCoherent` needs that `_modifyContractStorage` finds the account in the cache
(`CacheWellFormed`) and, when an empty account is deleted, that it had no storage
(`StorageNeedsBody`), in every cache a revert may bring back and in every root.  The
proof regroups these into what holds of one trie, of one (cache, touched) level, of
the saved levels and of the storage tries, and has one lemma per action.

`Gas_proofs` proves of `Gas`, for all prices with a stipend not above what giving ether
costs, all limits and regions, and any depth:

* `Types`: no message goes on with less gas than none;
* `Memory`: memory is never longer than what was paid for, nor paid for twice;
* `Callees`: a caller has what its callee may be charged, and is charged more only for a
  precompile that was an empty account;
* `Work`: the gas of the outermost message pays for all work below it.

The invariant relates each frame to the one it called.  The callee's limit is covered by what
the caller has left (`Linked`), which needs the stipend to be less than what the same handler
has just charged, and that the region for the answer is within the memory the caller
has paid for.  For `Work`, what was done up to a moment is, in every frame, at most what was
done before it plus what its gas went down by (`Pays`); with `Linked`, done-before plus limit
can only get smaller from a caller to its callee, and for the outermost frame it is its
limit (`Accounted`).  A frame that ends hands its caller a charge that is at least
its work, whatever way it ended, so that `Pays` holds of the caller again.  The lemmas go
from one frame (`GrownContinues`, `ChargedContinues`) to the stack (`GoesOnSound`,
`PushSound`, `PopSound`) to what handlers share (`GoOnSound`, `AnswerSound`,
`AnswerAtOnceSound`, `SendSound`) to one lemma per action.

`Gas_proofs` proves of `Sstore`, for every finite set of slots, every set of values, all
prices and any depth:

* `RefundTypes`: the refund counter is a natural number;
* `Originals`: net metering compares with the values the transaction began with;
* `Sufficiency`: no write of a regular transaction finds the counter too low - what the
  comment at `opFns.ts` 961 claims can be proved;
* `NetCosts`: `CostIsNet`, for all prices that are related as those of EIP-1283 and EIP-2200 are
  (`NetPrices`: the first write of a slot costs a dirty one and what resetting it gives back, a write that changes
  nothing a dirty one).  The other three do not use this assumption.

The counter alone says nothing about the next write.  The inductive invariant (`SstoreInv`) adds that it
is at least `clearRefund` times the number of slots that were not zero originally and
are now (`Owed`), for the current storage and, with the saved counters, for every storage a
failure may bring back (`RefundCovers`).  A write that takes a refund back un-clears such a
slot, so that `Owed` goes down by what is taken; a write that clears one gives as much.
That uses `OriginalsCached`: a slot without a cached original is unchanged in the current
storage and in every saved one, so that reading the current value for its original is
right.  The number of cleared slots is a cardinality, whence the finite set of slots.
For `NetCosts`, `CostsBalance` says of the current storage, and of what every message would bring
back, that the gas paid less the counter is a fee per write and the sum of what each slot should
have cost.  A write changes one summand, by what `updateSstoreGas` charges beyond the fee
(`ChargeIsChange`, every case of it).  A summand may be negative: clearing gives back more than it costs.

`Execution_proofs` proves, for every code, hardfork, start, gas, sizes of words and
environment, that data is never executed: `NeverInsideData`, `ExecutionSpec => []OnBoundary`.
`Starts`, the positions of instructions, is defined by recursion on the position, and the
first lemma shows that the recursion has a solution: the least set that has 0 and is closed
under "the position behind an instruction and its data", which is well-founded since that
position is always further on.  The
invariant `IInv` says that while `_getValidJumpDests` is at work its index stands at an
instruction or beyond the end, and that all it has found so far are instructions; then a jump can only go
where it found one, and everything else goes to the position behind an instruction.  A run
may begin inside the data of a PUSH (`runCode` takes any program counter); it is excepted.

Two more theorems hold for as many codes, sizes and environments:

* `WordsOnly`: `ExecutionSpec => []TypeOK`.  Every value a handler leaves on the stack is a word, the
  stack keeps its limit, and the gas left is between nothing and what was given.  Handlers compute
  with integers of any size and sign and `push` refuses what is too large, so what there is to
  show is that nothing they push is negative: a difference or signed quotient has gone through
  `ToTwos`, a shift or mask through the sum of its bits (`ComputedType`).  PUSH is the one that is
  not covered by the refusal in the model; that its bytes are a word is shown of the
  sum of places (`FromBytesType`).
* `MemoryPaidFor`: `ExecutionSpec => []MemoryIsCharged`.  The memory that exists has been charged, for
  MSTORE, MSTORE8, the four copies and the answers to messages: what is written lies in one of the
  `Regions` of its opcode (`MemoryWritten`), `memoryWordCount` covers all of these
  (`WordsTouchedType`), and the cost of memory grows with it (`MemoryCostType`, `CostType`).

They share an invariant (`Typed`): the memory is charged only if offsets and lengths are
natural numbers, which they are as words.  Their hypothesis is that hashes are numbers
(`HashesAreNumbers`), which TLC cannot enumerate and is therefore no ASSUME.
`EnvironmentAssumption` says that the environment gives words and bytes, that the logs of an answer
are of words, and that prices are natural;
`JobAssumption`, that no PUSH takes more than a word; `PowersAssumption`, that `2 ^ (m + n)` is
`2 ^ m * 2 ^ n`, which is arithmetic but not known to the provers (`LongNumbersAssumption` says
it of the numbers `modexp` reads).  TLC evaluates all of them.

Of precompiles and the bloom, for all data, gas, prices and hashes (`RequestAssumption`:
the data a request has are of the types a buffer gives them):

* `PrecompilesPaid`: `PrecompileWithinLimit`, from `Answers`: a request is answered by the precompile
  it names, and what that one charges is compared with the limit before anything is done;
* `BloomIsExact`: `BloomExact`, for filters up to the code's 256 bytes, whatever the code logs and
  however its logs are divided among transactions.  A byte is the sum of the powers of two whose
  bits it has, so that setting or joining bits is a union (`Logged` keeps the topics words).  The code's loops
  are folds, and each fold solves its recursion on the prefixes of its sequence (`FoldExists`,
  `FoldOnPrefixes`); what is shown of a loop is then shown by the least prefix where it fails;
* `ModexpIsEip198`: `ModexpExact`, for data and lengths of any size a buffer may have.  The numbers
  `modexp` reads are the EIP's fields, also where the data ends early; its first word, shifted when the
  exponent is shorter than a word, is the EIP's head (`FieldPrefix`); the bits it counts are those of the
  EIP's logarithm (`HighestIs`); and repeated squaring is the power (`ExpModIs`);
* `CompressionIsExact`: `CompressionExact`, for halves of any number of bits that has quarters
  (`HalvesAssumption`), every number of rounds, state, message and offset.  The array of 32 halves
  stands for 16 words (`Wholes`), and each step of `B2B_G` on it for the step on words (`GStands`):
  the carry is the one between the halves (`PairPlus`), XOR goes bit by bit, a number being the sum of the powers
  of its bits (`XorBits`, `PairXor`), and the three ways of rotating, by a half, by less and by one to the
  left, are one rotation of the word (`PairSwapped`, `PairRotated`, `PairTurned`).  A round is a fold of
  eight mixings (`RoundStands`), and the rounds are a recursion whose two solutions run side by side
  (`RoundsStand`).

`Machine_proofs` proves that running code is running the `Machine`:

* `OperationsMean`: for words of any size, what each handler that computes leaves on the stack is what
  `Machine` means by the operation.  The handlers work with bits, masks and two's complements,
  `Machine` with residues.  Between them stands one fact, that a number is the sum of the powers of its bits,
  so that complementing, masking and shifting are differences, residues and quotients by a power
  (`MasksAre`, `HighOnes`), and the shift that keeps the sign rounds down.  Quotients are unique
  with their rests, also the ones that round towards zero, so SDIV and SMOD have what `Divides` asks for.
  EXP is a recursion like any other;
* `Implements`: `ExecutionSpec => ImplementsMachine`, every property of the machine's runs
  being thereby one of the interpreter's.

`Implements` has three hypotheses, that hashes are words (`HashesAreWords`), that the sizes a run can meet fit in a word
(`SizesFit`), and `Addresses = Nat`.  The first two are met: a hash and a word have 32
bytes, and no code, data or memory that a gas limit pays for has 2^256 of them; the third compares
memory everywhere.  `SafeOffsetAssumption` is that a word is shorter than 2^53 bytes.  What the
theorem does not say is that the code is the yellow paper's machine: where a handler cannot make
numbers of an offset, this `Machine` halts as the code does (`INEXACT`), and the paper's goes on.  Where a size
did not fit, `push` would refuse it, for which the machine has no reason.  `SizesFit` is more than
TLC's instance keeps, whose words have four bits; there the programs are chosen to fit.
Besides `Typed`, the invariant (`Matched`) relates the interpreter's variables to what the machine reads off the code
or leaves out: the destinations found are the JUMPDESTs among the instructions before
`scan`, none is missing when the code begins to run, a run that failed is over, and the gas that is
gone pays for the memory there is - hence MSIZE, GAS and all the sizes are words.
The machine halts exceptionally exactly when it has a reason.  `ReasonsAre` computes the set, `RefusalIsReason` shows
that whatever check of a handler comes first is in it (`DistantIs` for the offsets), and `NoReasons` that a handler that goes
on has passed them all, also those that it makes late.  Then there is one lemma per handler
(`ComputeMaps` to `LoseAnswerMaps`): the stack, read from its top, loses what is popped and gains what is
pushed (`ExecutesReplaces`); memory as a function changes where `memory.ts` writes and nowhere else
(`OverwriteIs`, `SliceIs`); the words charged are the least that cover the accesses (`CoversIs`).
Calls of precompiles and the search for destinations leave the machine as it is.

`Evm_proofs` proves, for all addresses, contracts, balances, opcodes a behaviour may have and
any depth:

* `Checkpoints`: a message never ends without a checkpoint to close, whatever threw before.
  It has no assumption.  What is left behind by an `Error` only makes the stack of checkpoints
  longer, so the invariant is `Len(saved) >= Len(frames)`, with what each step needs of types;
* `OwnCheckpoints`, `FreshCopies`, `StaticCalls`, `EtherConserved`: the invariants of
  `Evm_messages`, under `Solvent`;
* `Journaled`: `Evm` implements `Journal`, under `Solvent`.

`Solvent` says that no handler of `OvmStateManager` throws (`~Throws`), that no caller of the VM
sends what its sender does not have (`~Unfunded`), that addresses are finitely many and that all
the ether there is fits a balance.  The first two are what the code does not rule out and what
makes the conclusions false: after a throw the calling frame reverts a checkpoint that is
not its own, and a balance below zero loses its sign.  The others make a sum, and keep the
overflow of `_addToBalance` out, which on a chain with less ether than 2^256 they do.
The invariant `IInv` is about the whole stack.  The checkpoint below each frame is the world that
frame began with (`StackOK`), and a frame that waits has the copy of its account that the world
had when it sent its message, so that after a revert of its callee the copy is right again without being
read.  Below a static frame (`StaticOK`) everything is static and every checkpoint is as quiet as
the world.  `MessageOK` says that a message under way is paid for and, below a static frame, is
static or moves nothing.  For ether, no checkpoint has more than there was.
The refinement needs, besides, that a frame's selfdestructs are among its callee's (they share a
map in the code), and what `EvmJournal` makes of the logs of all frames is a recursion on the
depth, which has a solution by the least depth without one.

`Vm_proofs` proves, for all transactions, outcomes, blocks, trees of blocks and accounts:

* `Accounted`: `CheckpointsAccounted`, for any finite number of calls that overlap at every await.
  The invariant is `Types`, which says where a call may be by what it runs (`Shape`); each step
  opens as many checkpoints as its call has more afterwards, closes as many as it has fewer, or leaks one
  (`Balanced`);
* `OneCall`, and from it `ParentFirst`, `Effective`, `NoTrace` and `Deleted`: the four properties
  of `Vm_serial`, when there is one call at a time (`Call = {v}`: as many calls as one likes, each
  after the end of the one before, and copies in between).

That there is one call is needed, not convenient: calls that overlap share one world and one stack,
and each reverts what the other did (section 5).  The invariant `Sound` has, for every await in `runTx`,
`runBlock` and `runBlockchain`, the world there as a function of the world the
call began with (`RunOf`: `After(start, transactions, k)` before the transaction `k + 1`), what each
open checkpoint brings back (`SavesTx`, `SavesBlock`), that a block of the chain starts
from its parent's state (`OnParent`: as the iterator hands over blocks of rising number, `head` and `last`
are one, and `getStartingState` takes a root it could have looked up), and what was answered
(`End`).  `SavesBlock` ends where a balance overflows in a block: from then on the
checkpoint that is reverted is a transaction's.
For `Deleted`, `Reasons` adds the gas that is counted up to each transaction (`GasUpTo`)
and that whatever makes `runBlock` throw is a fault of the block (`Broken`).  This attempt found `ValidBlock` wrong
in an earlier version: it asked for room for each transaction alone, whereas `runBlock` asks for
room after the gas used so far; no block of the run told the two apart, now `g2` does.

`Cache_proofs` proves, for all addresses and accounts and any number of calls:

* `Waits`: `NobodyForgotten`;
* `Finding`: `FindsLatest`, for all addresses that no late answer has overtaken;
* `Complete`: `FlushIsComplete`, and `Cleaned`: `NoEmptyStays`, as long as no two flushes overlap.

The invariant is that of `Latest`: the account put last is what the cache has, or, if
the cache knows nothing of it, what the trie has *and* what no write under way and no version of the
tree that a flush walks through would change; and what an answer under way will put into the cache is that
account.  `WritesSound` says that the flush each write belongs to waits for it, and has no second.

`Complete` and `Cleaned` rest on a second invariant (`Order`: `Strict`), of each address by itself
(`Coherent`).  What a flush has not come to yet is in the version of the tree it walks through and, as
modified or put again, in the current one; what it has passed is on its way to the trie or
there; an answer under way never is for an address that has something to write; and an
address that a cleanup has emptied is deleted in the cache or gone from the trie.  Each of the exceptions
in the two properties is a step that would break it: a late answer (`overtaken`) replaces an entry that
was not written, a failed write (`unwritten`) leaves a clean one that the trie does not have, and of
two flushes (`overlapped`) the older writes its own entry after the newer one.  That entries are
shared between versions makes it a property of indices: no entry is ever that of two addresses
(`OneKey`), whichever trees are still walked through.

`Sums` has what the sums of ether, of checkpoints and of storage costs need: a sum over a finite set is the
number of its units, those added less those taken away, so that the library's theorems about cardinalities say how it changes with
one summand (`TotalChanges`, `DifferenceChanges`).  This, and least counterexamples for recursive functions and folds
(`RunsExist`, `AddsExist`), is how the proofs do without induction.

Only model-checked: liveness (`Halts`, `Terminates`, `Answered`), which these provers do not reach.

## 5. Where documents and code disagree

Two of these have a run that ends in a counterexample; `PROJECT.json` quotes the lines.

* A block that throws after an overflow keeps the changes of its earlier
  transactions (`Vm_half_block`).
* The compression function of `blake2f` packs the words of the message into words once
  more, `mw[i] = B2B_GET32(m, 4 * i)`, so that from the eighth on they are zero and the
  others mix four words each (`Blake2f_words`).  `CompressionExact` is about the rest of
  the function, given those words.  The vectors of the tests have short messages only.

Three more are excepted by name in the properties:

* A selfdestructed contract's storage can still be read after its account was
  replaced: `_storageTries` keeps its trie (`StateManager`, `Destructible`).
* The refund counter can go below zero, through `runCall` after `runCall` or after a
  failed code deposit, against the comment at `opFns.ts` 961 (`Sstore`, `regular`).
* A call that creates a precompile's account by giving it ether may use more gas than the
  caller has left, and charging for it traps, against the comment at `eei.ts` 495 (`Gas`,
  `overdrawn`).

The models follow the code also where it departs from what one might expect in ways no
run is about; the properties say where they stop because of it.  Genesis
accounts are written behind an older cached answer (`GenesisAddress`); a copy lacks what
is not flushed and runs `init` again (`Vm`, `Copy`); an `Error` inside a nested message
makes the calling frame revert a checkpoint that is not its own (`Evm`, `Throw`);
OvmStateManager writes below static calls (`StaticMovesNothing` is about the rest); an outermost message may
spend what its sender does not have (`Unfunded`); overlapping calls revert each other's
checkpoints (`Vm_overlap`); a block that throws for another reason than being invalid is
deleted all the same, when the genesis state was generated on top of a state flushed before
(`DeletedIsInvalid` excepts blocks whose starting state does not exist); the outermost result
reports the target's success though all was reverted (`Evm`, `Reported`); an access of length zero at
an offset from 2^53 on throws in the copies and in `writeCallOutput`, though it is free and ought to do
nothing (`Inexact` in `Gas` and `Interpreter`; excepted from `Machine` as `INEXACT`); `modexp` answers one byte
when the base has no bytes, and reads lengths that the data cuts short as shorter numbers
(`ModexpExact` excepts both); late answers, failed writes and overlapping flushes of the
cache (section 2, `Cache`).

## 6. Not modelled

Gas where it is not the subject (`Evm` and `Vm` have it as the reason messages end; `Gas`,
`Sstore` and `Interpreter` count it), the refund of SELFDESTRUCT, which only gives, return
data in `Evm` (`Interpreter` has it), hexadecimal and
RLP conversion, logging, the events of steps and calls and their listeners, the curves and
hashes of precompiled contracts, `dumpStorage`, `Cache.warm` (nothing calls it), the amounts of
rewards, receipts but for their bloom, errors of the block database.  `runCall` also takes options
that make its message a delegatecall, give it code, a depth other than zero or a map of
selfdestructs to begin with; the outermost message of `Evm` has none of these.
The limits of the host are left out: an array of JavaScript has at most 2^32 - 1 elements, for
which memory that long would have to be paid first (some 2^45 of gas).  Hash functions are
taken to be injective but for the bloom's: a root is what it is the root of.

`Cache` has no checkpoint open, as `getStateRoot` and `setStateRoot` demand, and tests for a
root as for any other, without the short cut for the empty one.  `Interpreter` does not have
the opcodes that create, send ether, write storage or selfdestruct: those are in `Evm`, `Gas` and
`Sstore`.  Errors other than VM exceptions inside a handler are in `Evm` (`Throws`).  `ovm/utils` is
conversion and constants; the scripts of `examples/` use the VM and are no part of it.

## 7. Plan

1. *Core* (done): `WorldState`, `StateManager`, its proofs; `Journal`, `Evm`,
   `EvmJournal`.
2. *Entry points* (done): `Vm`, with overlapping calls.
3. *Gas* (done): `Sstore` and `Gas` with their proofs.
4. *Code* (done): `Interpreter` against `Machine`, its proof, precompiles, bloom.
5. *Cache* (done): callbacks, late answers, a failing trie.
6. *Messages* (done): `Evm_proofs`, the refinement of `Journal` among them.
7. *Entry points and cache* (done): `Vm_proofs`, `Cache_proofs`.
8. *Words and memory* (done): the types of the interpreter's values, `MemoryIsCharged`.
9. *Results* (done): `FlushIsComplete` and `NoEmptyStays`; precompiles and bloom;
   `Execution` implements `Machine`; `blake2f` on halves is `blake2f` on words.
10. Left: that `Evm` with the gas of `Gas` ends.
