--------------------------------- MODULE Vm ---------------------------------
(***************************************************************************)
(* The entry points of the VM: lib/index.ts with runTx.ts, runBlock.ts,    *)
(* runBlockchain.ts, runCall.ts and runCode.ts.  A step is what happens    *)
(* between two awaits that matter, so calls of one VM may overlap.         *)
(*                                                                         *)
(* The state manager is a ledger (WorldState) beside the trie the ledger   *)
(* is flushed to.  What is in an account is the sequence of what was done  *)
(* to it.  A transaction has one outcome, its message is taken from        *)
(* Journal: it takes effect, and is committed, reverted, or left half way. *)
(***************************************************************************)
EXTENDS Naturals, FiniteSetsExt, SequencesExt

CONSTANTS
  Call,            \* calls of the VM that may overlap
  Account,
  Dump,            \* the accounts of ovmOpts.dump, in order
  GenesisAccount,  \* the accounts of the canonical genesis state
  Tx,
  Outcome,         \* "succeeds", "fails", "overflows" or "rejected", per Tx
  Writes,          \* the accounts a Tx writes
  GasLimit,        \* of a Tx
  Consumed,        \* the gas a Tx consumes, base fee included
  Refund,          \* its refund counter at the end
  Block,
  Genesis,         \* the parent of the first blocks
  Parent, Number, Transactions, Coinbase, BlockGasLimit,  \* of a Block
  HeaderRoot,      \* header.stateRoot, as the block arrives
  HeaderGas,       \* header.gasUsed
  Malformed,       \* the blocks block.validate refuses
  MaxCalls,        \* bound: calls in a behaviour
  UnknownRoot, NoRoot, NoTx, NoBlock

VARIABLES
  initialized,  \* VM.initialized
  world,        \* the accounts
  saved,        \* the world at each open checkpoint
  trie,         \* the flushed world
  roots,        \* the roots in the database
  headerRoot,   \* header.stateRoot of each block
  stored,       \* the blocks of the blockchain
  call,         \* the calls
  begun,        \* how many calls there were
  leaked        \* checkpoints executeMessage left open

vars == <<initialized, world, saved, trie, roots, headerRoot, stored, call,
          begun, leaked>>
state == <<world, saved, trie, roots>>
-----------------------------------------------------------------------------
Effect == Tx \union Block \union {"dump", "genesis"}
World == [Account -> Seq(Effect)]
EmptyWorld == [a \in Account |-> <<>>]

WithGenesis(w) == [a \in Account |-> IF a \in GenesisAccount THEN <<"genesis">> ELSE w[a]]
GenesisWorld == WithGenesis(EmptyWorld)

\* putAccount(new Account()), its code and its storage.
Dumped(w, a) == [w EXCEPT ![a] = <<"dump">>]
Applied(w, t) ==
  [a \in Account |-> IF a \in Writes[t] THEN Append(w[a], t) ELSE w[a]]

\* assignBlockRewards, ommers and miner in one.
Rewarded(w, b) == [w EXCEPT ![Coinbase[b]] = Append(@, b)]

\* What a transaction and a block that succeed make of a world.
AfterTx(w, t) == IF Outcome[t] = "succeeds" THEN Applied(w, t) ELSE w
AfterBlock(w, b) == Rewarded(FoldLeft(AfterTx, w, Transactions[b]), b)

\* At most half of the gas consumed is given back.
GasUsed(t) ==
  LET half == Consumed[t] \div 2 IN
  Consumed[t] - (IF Refund[t] < half THEN Refund[t] ELSE half)

\* A block and the blocks below it.
Branch[b \in Block] ==
  {b} \union (IF Parent[b] = Genesis THEN {} ELSE Branch[Parent[b]])

RootOf(b) == IF b = Genesis THEN GenesisWorld ELSE headerRoot[b]

Frame ==
  [at : {"idle", "init", "dump", "tx", "upfront", "call", "message", "txEnd",
         "txThrown", "code", "block", "checkpoint", "transactions", "blockEnd",
         "blockThrown", "header", "iterate", "answered"},
   kind : {"tx", "call", "code", "block", "chain"},
   tx : Tx \union {NoTx}, block : Block \union {NoBlock},
   root : World \union {UnknownRoot, NoRoot}, generate : BOOLEAN,
   dump : Seq(Account),  \* accounts init has still to write
   txs : Seq(Tx),        \* transactions runBlock has still to run
   gas : Nat,            \* gas used by the block so far
   head : Block \union {NoBlock}, last : Block \union {NoBlock},
   ok : BOOLEAN,         \* answered without error
   start : World]        \* the world it began with (for the properties)

IdleFrame ==
  [at |-> "idle", kind |-> "tx", tx |-> NoTx, block |-> NoBlock, root |-> NoRoot,
   generate |-> FALSE, dump |-> <<>>, txs |-> <<>>, gas |-> 0, head |-> NoBlock,
   last |-> NoBlock, ok |-> FALSE, start |-> EmptyWorld]

ASSUME ConstantsAssumption ==
  /\ Outcome \in [Tx -> {"succeeds", "fails", "overflows", "rejected"}]
  /\ Writes \in [Tx -> SUBSET Account]
  /\ GasLimit \in [Tx -> Nat] /\ Consumed \in [Tx -> Nat] /\ Refund \in [Tx -> Nat]
  /\ Dump \in Seq(Account) /\ GenesisAccount \subseteq Account
  /\ Parent \in [Block -> Block \union {Genesis}] /\ Number \in [Block -> Nat]
  /\ Transactions \in [Block -> Seq(Tx)] /\ Coinbase \in [Block -> Account]
  /\ BlockGasLimit \in [Block -> Nat] /\ HeaderGas \in [Block -> Nat]
  /\ HeaderRoot \in [Block -> World]
  /\ Malformed \subseteq Block
  /\ MaxCalls \in Nat
  /\ Genesis \notin Block /\ NoRoot \notin World

Init ==
  /\ initialized = FALSE
  /\ world = EmptyWorld
  /\ saved = <<>>
  /\ trie = EmptyWorld
  /\ roots = {EmptyWorld}
  /\ headerRoot = HeaderRoot
  /\ stored = Block
  /\ call = [c \in Call |-> IdleFrame]
  /\ begun = 0
  /\ leaked = 0
-----------------------------------------------------------------------------
(* The state manager: see StateManager and WorldState.                     *)

\* Closing the last checkpoint flushes.
Flushed(atEnd) ==
  IF atEnd THEN trie' = world' /\ roots' = roots \union {world'}
           ELSE UNCHANGED <<trie, roots>>

Checkpoint(w) ==
  /\ saved' = Append(saved, world)
  /\ world' = w
  /\ UNCHANGED <<trie, roots>>

Commit ==
  /\ saved # <<>>
  /\ saved' = Front(saved)
  /\ world' = world
  /\ Flushed(saved' = <<>>)

Revert ==
  /\ saved # <<>>
  /\ saved' = Front(saved)
  /\ world' = Last(saved)
  /\ Flushed(saved' = <<>>)

Write(w) == world' = w /\ UNCHANGED <<saved, trie, roots>>
-----------------------------------------------------------------------------
(* Moves of a call.                                                        *)

Goto(c, at) == call' = [call EXCEPT ![c].at = at]
Answer(c, ok) == call' = [call EXCEPT ![c].at = "answered", ![c].ok = ok]

\* The first step after init, and what the call begins with.
FirstStep(kind) == IF kind = "chain" THEN "iterate" ELSE kind
Enter(c) ==
  call' = [call EXCEPT ![c].at = FirstStep(call[c].kind), ![c].dump = <<>>,
                       ![c].start = world']

\* Mutant: the block goes on after a transaction that threw.
TxAnswerIgnored(c, ok) ==
  IF call[c].kind = "tx" THEN Answer(c, ok)
  ELSE call' = [call EXCEPT ![c].at = "transactions", ![c].txs = Tail(@),
                            ![c].gas = @ + GasUsed(call[c].tx)]

\* The end of runTx, in runBlock or on its own.
TxAnswer(c, ok) ==
  IF call[c].kind = "tx" THEN Answer(c, ok)
  ELSE IF ok THEN call' = [call EXCEPT ![c].at = "transactions", ![c].txs = Tail(@),
                                       ![c].gas = @ + GasUsed(call[c].tx)]
  ELSE Goto(c, "blockThrown")

\* Mutant: after delBlock the iterator is not called back.
BlockAnswerSilent(c, ok) ==
  LET b == call[c].block IN
  IF call[c].kind = "block" THEN Answer(c, ok) /\ UNCHANGED stored
  ELSE IF ok THEN /\ call' = [call EXCEPT ![c].at = "iterate", ![c].head = b]
                  /\ UNCHANGED stored
  ELSE /\ Goto(c, "idle")
       /\ stored' = {d \in stored : b \notin Branch[d]}

\* The end of runBlock, in runBlockchain or on its own.  delBlock takes the
\* blocks above with it.
BlockAnswer(c, ok) ==
  LET b == call[c].block IN
  IF call[c].kind = "block" THEN Answer(c, ok) /\ UNCHANGED stored
  ELSE IF ok THEN /\ call' = [call EXCEPT ![c].at = "iterate", ![c].head = b]
                  /\ UNCHANGED stored
  ELSE /\ Answer(c, FALSE)
       /\ stored' = {d \in stored : b \notin Branch[d]}
-----------------------------------------------------------------------------
(* index.ts.                                                               *)

Begin(c) ==
  /\ call[c].at \in {"idle", "answered"}
  /\ begun < MaxCalls
  /\ \/ \E t \in Tx, b \in Block \union {NoBlock} :
          call' = [call EXCEPT ![c] =
                     [IdleFrame EXCEPT !.at = "init", !.tx = t, !.block = b]]
     \/ \E kind \in {"call", "code"}, t \in Tx :
          /\ Outcome[t] # "rejected"
          /\ call' = [call EXCEPT ![c] =
                        [IdleFrame EXCEPT !.at = "init", !.kind = kind, !.tx = t]]
     \/ \E b \in Block, root \in roots \union {UnknownRoot, NoRoot}, g \in BOOLEAN :
          call' = [call EXCEPT ![c] =
                     [IdleFrame EXCEPT !.at = "init", !.kind = "block",
                        !.block = b, !.root = root, !.generate = g]]
     \/ call' = [call EXCEPT ![c] = [IdleFrame EXCEPT !.at = "init", !.kind = "chain"]]
  /\ begun' = begun + 1
  /\ UNCHANGED <<initialized, state, headerRoot, stored, leaked>>

\* init: the flag is set before anything is written.
InitVm(c) ==
  /\ call[c].at = "init"
  /\ UNCHANGED <<state, headerRoot, stored, begun, leaked>>
  /\ IF initialized \/ Dump = <<>> THEN Enter(c)
     ELSE call' = [call EXCEPT ![c].at = "dump", ![c].dump = Dump]
  /\ initialized' = TRUE

\* One account of the dump; the gas limits go with the last.
WriteDump(c) ==
  /\ call[c].at = "dump"
  /\ Write(Dumped(world, Head(call[c].dump)))
  /\ IF Len(call[c].dump) > 1
     THEN call' = [call EXCEPT ![c].dump = Tail(@)]
     ELSE Enter(c)
  /\ UNCHANGED <<initialized, headerRoot, stored, begun, leaked>>

\* copy, and from then on the copy is used: a state manager on a copy of the
\* trie, with the options of the original.
Copy ==
  /\ \A c \in Call : call[c].at \in {"idle", "answered"}
  /\ begun \in 1..(MaxCalls - 1)
  /\ initialized' = FALSE
  /\ world' = trie
  /\ saved' = <<>>
  /\ leaked' = 0
  /\ call' = [c \in Call |-> IdleFrame]
  /\ UNCHANGED <<trie, roots, headerRoot, stored, begun>>
-----------------------------------------------------------------------------
(* runCode.ts, runCall.ts and runTx.ts.                                    *)

\* No checkpoint: what the code did stays, whatever its end.
RunCode(c) ==
  /\ call[c].at = "code"
  /\ Write(Applied(world, call[c].tx))
  /\ Answer(c, Outcome[call[c].tx] # "overflows")
  /\ UNCHANGED <<initialized, headerRoot, stored, begun, leaked>>

\* Mutant: runTx takes no checkpoint of its own.
TxCheckpointNone(c) ==
  /\ call[c].at = "tx"
  /\ Goto(c, "upfront")
  /\ UNCHANGED <<initialized, state, headerRoot, stored, begun, leaked>>

\* The limit of the block is looked at before the checkpoint.
TxCheckpoint(c) ==
  LET f == call[c] IN
  /\ f.at = "tx"
  /\ IF f.block # NoBlock /\ BlockGasLimit[f.block] < GasLimit[f.tx]
     THEN TxAnswer(c, FALSE) /\ UNCHANGED state
     ELSE Checkpoint(world) /\ Goto(c, "upfront")
  /\ UNCHANGED <<initialized, headerRoot, stored, begun, leaked>>

\* The base fee exceeds the gas limit, or the signature is no good.
TxReject(c) ==
  /\ call[c].at = "upfront"
  /\ Outcome[call[c].tx] = "rejected"
  /\ Goto(c, "txThrown")
  /\ UNCHANGED <<initialized, state, headerRoot, stored, begun, leaked>>

\* executeMessage: its checkpoint and what it does under it ...
Message(c) ==
  /\ \/ call[c].at = "upfront" /\ Outcome[call[c].tx] # "rejected"
     \/ call[c].at = "call"
  /\ Checkpoint(Applied(world, call[c].tx))
  /\ Goto(c, "message")
  /\ UNCHANGED <<initialized, headerRoot, stored, begun, leaked>>

\* ... and its end.  The error of a balance that overflows is not caught.
MessageEnd(c) ==
  LET f == call[c]
      outcome == Outcome[f.tx]
  IN  /\ f.at = "message"
      /\ CASE outcome = "succeeds" -> Commit /\ leaked' = leaked
           [] outcome = "fails" -> Revert /\ leaked' = leaked
           [] outcome = "overflows" -> UNCHANGED state /\ leaked' = leaked + 1
      /\ IF f.kind = "call" THEN Answer(c, outcome # "overflows")
         ELSE Goto(c, IF outcome = "overflows" THEN "txThrown" ELSE "txEnd")
      /\ UNCHANGED <<initialized, headerRoot, stored, begun>>

\* The cleanup of accounts is part of what the message did.
TxCommit(c) ==
  /\ call[c].at = "txEnd"
  /\ Commit
  /\ TxAnswer(c, TRUE)
  /\ UNCHANGED <<initialized, headerRoot, stored, begun, leaked>>

TxRevert(c) ==
  /\ call[c].at = "txThrown"
  /\ Revert
  /\ TxAnswer(c, FALSE)
  /\ UNCHANGED <<initialized, headerRoot, stored, begun, leaked>>
-----------------------------------------------------------------------------
(* runBlock.ts.                                                            *)

\* setStateRoot: flushes, then moves to the root if the database has it.
BlockRoot(c) ==
  LET f == call[c] IN
  /\ f.at = "block"
  /\ CASE f.root = NoRoot ->
             /\ Goto(c, "checkpoint")
             /\ UNCHANGED <<state, stored>>
       [] f.root # NoRoot /\ saved # <<>> ->
             /\ BlockAnswer(c, FALSE)
             /\ UNCHANGED state
       [] f.root # NoRoot /\ saved = <<>> ->
             /\ roots' = roots \union {world}
             /\ IF f.root \in roots'
                THEN /\ world' = f.root /\ trie' = f.root
                     /\ Goto(c, "checkpoint") /\ UNCHANGED stored
                ELSE /\ world' = world /\ trie' = world
                     /\ BlockAnswer(c, FALSE)
             /\ UNCHANGED saved
  /\ UNCHANGED <<initialized, headerRoot, begun, leaked>>

\* The checkpoint, then block.validate under it.
BlockCheckpoint(c) ==
  LET b == call[c].block IN
  /\ call[c].at = "checkpoint"
  /\ Checkpoint(world)
  /\ call' = [call EXCEPT ![c].at = IF b \in Malformed THEN "blockThrown"
                                                        ELSE "transactions",
                          ![c].txs = Transactions[b], ![c].gas = 0,
                          ![c].start = world]
  /\ UNCHANGED <<initialized, headerRoot, stored, begun, leaked>>

BlockTx(c) ==
  LET f == call[c] IN
  /\ f.at = "transactions" /\ f.txs # <<>>
  /\ IF BlockGasLimit[f.block] < GasLimit[Head(f.txs)] + f.gas
     THEN Goto(c, "blockThrown")
     ELSE call' = [call EXCEPT ![c].at = "tx", ![c].tx = Head(f.txs)]
  /\ UNCHANGED <<initialized, state, headerRoot, stored, begun, leaked>>

BlockRewards(c) ==
  /\ call[c].at = "transactions" /\ call[c].txs = <<>>
  /\ Write(Rewarded(world, call[c].block))
  /\ Goto(c, "blockEnd")
  /\ UNCHANGED <<initialized, headerRoot, stored, begun, leaked>>

BlockCommit(c) ==
  /\ call[c].at = "blockEnd"
  /\ Commit
  /\ Goto(c, "header")
  /\ UNCHANGED <<initialized, headerRoot, stored, begun, leaked>>

\* Mutant: a block that throws is committed.
BlockRevertCommits(c) ==
  /\ call[c].at = "blockThrown"
  /\ Commit
  /\ BlockAnswer(c, FALSE)
  /\ UNCHANGED <<initialized, headerRoot, begun, leaked>>

BlockRevert(c) ==
  /\ call[c].at = "blockThrown"
  /\ Revert
  /\ BlockAnswer(c, FALSE)
  /\ UNCHANGED <<initialized, headerRoot, begun, leaked>>

\* Receipts and bloom follow from the transactions, as the gas does.
HeaderMatches(f, root) == HeaderGas[f.block] = f.gas /\ headerRoot[f.block] = root

\* getStateRoot, after the commit; then the header is written or compared.
BlockHeader(c) ==
  LET f == call[c] IN
  /\ f.at = "header"
  /\ IF saved # <<>>
     THEN BlockAnswer(c, FALSE) /\ UNCHANGED <<state, headerRoot>>
     ELSE /\ UNCHANGED <<world, saved>> /\ Flushed(TRUE)
          /\ IF f.generate THEN headerRoot' = [headerRoot EXCEPT ![f.block] = world]
                           ELSE UNCHANGED headerRoot
          /\ BlockAnswer(c, f.generate \/ HeaderMatches(f, world))
  /\ UNCHANGED <<initialized, begun, leaked>>
-----------------------------------------------------------------------------
(* runBlockchain.ts; the iterator of ethereumjs-blockchain hands it blocks *)
(* of rising number, which after a reorganisation do not follow each other.*)

\* Mutant: a reorganisation is not noticed.
StartingRootReorg(f, b) ==
  IF f.head = NoBlock THEN RootOf(Parent[b]) ELSE headerRoot[f.head]

\* getStartingState.
StartingRoot(f, b) ==
  IF f.head = NoBlock \/ Parent[b] # f.last THEN RootOf(Parent[b]) ELSE headerRoot[f.head]

Iterate(c, b) ==
  LET f == call[c] IN
  /\ f.at = "iterate"
  /\ b \in stored
  /\ f.last # NoBlock => Number[b] = Number[f.last] + 1
  /\ IF f.head = NoBlock /\ saved # <<>>
     THEN Answer(c, FALSE) /\ UNCHANGED state
     ELSE /\ call' = [call EXCEPT ![c].at = "block", ![c].block = b, ![c].last = b,
                                  ![c].root = StartingRoot(f, b)]
          /\ IF f.head = NoBlock /\ GenesisWorld \notin roots
             THEN /\ trie' = WithGenesis(trie)
                  /\ world' = WithGenesis(world)
                  /\ roots' = roots \union {trie'}
                  /\ UNCHANGED saved
             ELSE UNCHANGED state
  /\ UNCHANGED <<initialized, headerRoot, stored, begun, leaked>>

NoMoreBlocks(c) ==
  /\ call[c].at = "iterate"
  /\ Answer(c, TRUE)
  /\ UNCHANGED <<initialized, state, headerRoot, stored, begun, leaked>>
-----------------------------------------------------------------------------
Step(c) ==
  \/ InitVm(c)
  \/ WriteDump(c)
  \/ RunCode(c)
  \/ TxCheckpoint(c)
  \/ TxReject(c)
  \/ Message(c)
  \/ MessageEnd(c)
  \/ TxCommit(c)
  \/ TxRevert(c)
  \/ BlockRoot(c)
  \/ BlockCheckpoint(c)
  \/ BlockTx(c)
  \/ BlockRewards(c)
  \/ BlockCommit(c)
  \/ BlockRevert(c)
  \/ BlockHeader(c)
  \/ \E b \in Block : Iterate(c, b)
  \/ NoMoreBlocks(c)

Next ==
  \/ \E c \in Call : Begin(c) \/ Step(c)
  \/ Copy

Spec == Init /\ [][Next]_vars

\* A call that was made goes on: it waits for its own awaits only.
FairSpec == Spec /\ \A c \in Call : WF_vars(Step(c))
-----------------------------------------------------------------------------
(* Properties.                                                             *)

TypeOK ==
  /\ initialized \in BOOLEAN
  /\ world \in World
  /\ saved \in Seq(World)
  /\ trie \in World
  /\ roots \subseteq World
  /\ headerRoot \in [Block -> World]
  /\ stored \subseteq Block
  /\ call \in [Call -> Frame]
  /\ begun \in 0..MaxCalls
  /\ leaked \in Nat

InMessage == {"message"}
InTx == {"upfront", "message", "txEnd", "txThrown"}
InBlock == InTx \union {"transactions", "tx", "blockEnd", "blockThrown"}

\* The checkpoints a call has open.
Open(c) ==
  LET f == call[c]
      one(b) == IF b THEN 1 ELSE 0
  IN  one(f.at \in InMessage) + one(f.at \in InTx /\ f.kind # "call")
        + one(f.at \in InBlock /\ f.kind \in {"block", "chain"})

\* However calls overlap and whatever throws, the open checkpoints are those of
\* the calls in progress and the ones executeMessage leaked: none is closed
\* twice and none forgotten (runTx.ts, runBlock.ts, runCall.ts).
CheckpointsAccounted == Len(saved) = MapThenSumSet(Open, Call) + leaked

Rejected(f) == f.at = "answered" /\ ~f.ok
Accepted(f) == f.at = "answered" /\ f.ok

Outcomes(b) == {Outcome[t] : t \in Range(Transactions[b])}

\* A transaction that throws leaves the world it began with; a block that is
\* refused leaves the world it began with or, when only its header is wrong, all
\* of itself, never half (runTx.ts, runBlock.ts).  A block in which a balance
\* overflows is out, and with a checkpoint leaked no block is taken back late.
RejectedLeavesNoTrace ==
  \A c \in Call : LET f == call[c] IN
    Rejected(f) =>
      /\ f.kind = "tx" => world = f.start
      /\ f.kind = "block" /\ "overflows" \notin Outcomes(f.block) =>
           /\ world \in {f.start, AfterBlock(f.start, f.block)}
           /\ f.generate /\ leaked = 0 => world = f.start

\* What is answered without error is what was asked for: a transaction that was
\* not thrown out, a block of which none was (runTx.ts, runBlock.ts).
AcceptedTakesEffect ==
  \A c \in Call : LET f == call[c] IN
    Accepted(f) =>
      /\ f.kind = "tx" => /\ world = AfterTx(f.start, f.tx)
                         /\ Outcome[f.tx] \in {"succeeds", "fails"}
      /\ f.kind = "block" => /\ world = AfterBlock(f.start, f.block)
                            /\ Outcomes(f.block) \subseteq {"succeeds", "fails"}

\* A block of the chain runs on the state of its parent, through every
\* reorganisation and whatever the VM did before (runBlockchain.ts).
RunsOnParent ==
  \A c \in Call : LET f == call[c] IN
    f.kind = "chain" /\ f.at \in InBlock => f.start = RootOf(Parent[f.block])

\* The gas the first i transactions of a block use.
GasUpTo(b) ==
  LET used[i \in 0..Len(Transactions[b])] ==
        IF i = 0 THEN 0 ELSE used[i - 1] + GasUsed(Transactions[b][i])
  IN  used

\* A block is valid if it is well-formed, has room for each of its transactions, and
\* its header says what running it gives.
ValidBlock(b) ==
  LET T == Transactions[b] IN
  /\ b \notin Malformed
  /\ headerRoot[b] = AfterBlock(RootOf(Parent[b]), b)
  /\ HeaderGas[b] = GasUpTo(b)[Len(T)]
  /\ Outcomes(b) \subseteq {"succeeds", "fails"}
  /\ \A i \in 1..Len(T) : GasLimit[T[i]] + GasUpTo(b)[i - 1] <= BlockGasLimit[b]

\* runBlockchain deletes only blocks that are not valid, have no parent's state
\* to run on, or stand on one that is deleted; unless a checkpoint has leaked
\* (runBlockchain.ts: "remove invalid block").
DeletedIsInvalid ==
  [][leaked = 0 =>
       \A b \in stored \ stored' : \E d \in Branch[b] :
         ~ValidBlock(d) \/ RootOf(Parent[d]) \notin roots]_vars

\* Every call is answered, whatever other calls do (index.ts).
Answered == \A c \in Call : call[c].at = "init" ~> call[c].at = "answered"
-----------------------------------------------------------------------------
(* What the documentation says and the code does not do.                   *)

\* runBlock: "If `generate` is `true`, the state modifications will be reverted
\* if an exception is raised" (index.ts).
GenerateReverts ==
  \A c \in Call : LET f == call[c] IN
    Rejected(f) /\ f.kind = "block" /\ f.generate => world = f.start
=============================================================================
