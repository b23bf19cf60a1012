--------------------------------- MODULE Evm ---------------------------------
(***************************************************************************)
(* Messages of the EVM: lib/evm/evm.ts (executeMessage and what it calls)  *)
(* with the calling side of lib/evm/eei.ts and lib/evm/opFns.ts, over the  *)
(* state StateManager.tla promises: a ledger with nested checkpoints.      *)
(*                                                                         *)
(* One message runs at a time, each awaited by the one that sent it, so    *)
(* the frames form a stack.  What a contract's code does is arbitrary: a   *)
(* running frame may take any state-changing opcode, or end.  A trap in an *)
(* opcode (a static violation, out of gas, a bad jump) is an end with an   *)
(* exception and is not modelled opcode by opcode.                         *)
(***************************************************************************)
EXTENDS Integers, Sequences, FiniteSets

CONSTANTS
  Address,    \* addresses of accounts
  EM,         \* OVM_ExecutionManager: every outermost message is sent to it
  OSM,        \* OVM_StateManager: run natively by OvmStateManager
  Precompile, \* addresses of precompiled contracts
  Contract,   \* addresses with code in the first world
  Funded,     \* addresses with one unit of ether in the first world
  Value,      \* amounts messages carry
  MaxBalance, \* MAX_INTEGER: a larger balance is an error
  Unfunded,   \* may an outermost message carry more than its sender has?
  Throws,     \* may OvmStateManager throw?
  StackLimit, \* the vm parameter of that name, 1024 in ethereumjs-common
  MaxSteps,   \* bound: state-changing opcodes in a behaviour
  MaxNonce,   \* bound: nonces
  MaxSaved,   \* bound: checkpoints errors leave behind before another Run
  NoAddress,  \* the target of a creation
  NoMessage,  \* no message is being sent
  NoResult    \* undefined

VARIABLES
  world,         \* the accounts, through the state manager
  saved,         \* the state manager's checkpoints
  frames,        \* the messages being executed, outermost first
  message,       \* the message about to be executed, or NoMessage
  answer,        \* what the last message came to: "failed" is pushed as 0
  refund,        \* _refund
  target,        \* originalTargetAddress, the same in every message
  targetFound,   \* is _targetMessage set?
  targetFailed,  \* exceptionError of _targetMessageResult, or NoResult
  accountFalse,  \* does _accountMessageResult return a zero word?
  report,        \* what the last outermost message returned, if there was one
  steps          \* opcodes left (the bound)

vars == <<world, saved, frames, message, answer, refund, target, targetFound,
          targetFailed, accountFalse, report, steps>>
-----------------------------------------------------------------------------
Account == [nonce : Nat, balance : Nat, code : BOOLEAN, storage : {0, 1}]
World == [Address -> Account]
FirstWorld ==
  [a \in Address |-> [nonce |-> 0, balance |-> IF a \in Funded THEN 1 ELSE 0,
                      code |-> a \in Contract, storage |-> 0]]

Message == [sender : Address, to : Address \union {NoAddress},
            codeAddress : Address \union {NoAddress}, value : Value,
            isStatic : BOOLEAN, delegatecall : BOOLEAN]

\* start is not in the code: the world when executeMessage was entered.
Frame == [address : Address, isStatic : BOOLEAN, isCreate : BOOLEAN,
          isTarget : BOOLEAN, contract : Account, logs : Seq(Address),
          selfdestruct : SUBSET Address, oldRefund : Nat, start : World,
          status : {"running", "stopped", "failed"}]

Report == [exception : BOOLEAN, logs : Seq(Address), selfdestruct : SUBSET Address]
NoReport == [exception |-> FALSE, logs |-> <<>>, selfdestruct |-> {}]

ASSUME ConstantsAssumption ==
  /\ Contract \subseteq Address
  /\ EM \in Contract /\ OSM \in Contract
  /\ EM # OSM
  /\ Precompile \subseteq Address
  /\ Funded \subseteq Address
  /\ Value \subseteq Nat /\ 0 \in Value
  /\ MaxBalance \in Nat
  /\ Unfunded \in BOOLEAN
  /\ Throws \in BOOLEAN
  /\ StackLimit \in Nat
  /\ MaxSteps \in Nat /\ MaxNonce \in Nat /\ MaxSaved \in Nat
  /\ NoAddress \notin Address
  /\ NoMessage \notin Message
  /\ NoResult \notin BOOLEAN
-----------------------------------------------------------------------------
Top(stack) == stack[Len(stack)]
Pop(stack) == SubSeq(stack, 1, Len(stack) - 1)
Replace(stack, x) == [stack EXCEPT ![Len(stack)] = x]

Depth == Len(frames) - 1   \* of the top frame
Idle == frames = <<>> /\ message = NoMessage

\* The sign of a negative balance is lost when it becomes a buffer.
Abs(n) == IF n < 0 THEN -n ELSE n

Reduced(w, a, v) == [w EXCEPT ![a].balance = Abs(@ - v)]
Increased(w, a, v) == [w EXCEPT ![a].balance = @ + v]

Init ==
  /\ world = FirstWorld
  /\ saved = <<>>
  /\ frames = <<>>
  /\ message = NoMessage
  /\ answer = "none"
  /\ refund = 0
  /\ target = NoAddress
  /\ targetFound = FALSE
  /\ targetFailed = NoResult
  /\ accountFalse = FALSE
  /\ report = NoReport
  /\ steps = MaxSteps

outermost == <<target, targetFound, targetFailed, accountFalse, report>>

\* The EVM of the outermost message, and with it what it knew of the target, is
\* gone: the next message gets a new one.
Forgotten ==
  /\ target' = NoAddress
  /\ targetFound' = FALSE
  /\ targetFailed' = NoResult
  /\ accountFalse' = FALSE

\* toOvmMessage: whatever was asked for, the ExecutionManager is called; only
\* the target remembers it.
OvmMessage(sender, value, isStatic) ==
  [sender |-> sender, to |-> EM, codeAddress |-> EM, value |-> value,
   isStatic |-> isStatic, delegatecall |-> FALSE]

\* runTx and runCall: a new EVM executes a new message.
Run(sender, to, value, isStatic) ==
  /\ Idle
  /\ Len(saved) < MaxSaved
  /\ value <= world[sender].balance \/ Unfunded
  /\ message' = OvmMessage(sender, value, isStatic)
  /\ target' = to
  /\ refund' = 0
  /\ targetFound' = FALSE
  /\ targetFailed' = NoResult
  /\ accountFalse' = FALSE
  /\ UNCHANGED <<world, saved, frames, answer, report, steps>>
-----------------------------------------------------------------------------
(* executeMessage, up to running the code.                                 *)

\* The outermost message gives its sender the account contract's code.
Entered ==
  IF frames = <<>> THEN [world EXCEPT ![message.sender].code = TRUE] ELSE world

IsTarget == ~targetFound /\ message.to = target

\* The frame of the message, run at address a in world w.
Pushed(a, w, status) ==
  Append(frames,
    [address |-> a, isStatic |-> message.isStatic,
     isCreate |-> message.to = NoAddress, isTarget |-> IsTarget,
     contract |-> w[a], logs |-> <<>>,
     selfdestruct |-> IF frames = <<>> THEN {} ELSE Top(frames).selfdestruct,
     oldRefund |-> refund, start |-> world, status |-> status])

\* Mutant: the checkpoint is taken after the value has moved.
BeginLateCheckpoint(a, w, status) ==
  /\ world' = w
  /\ saved' = Append(saved, w)
  /\ frames' = Pushed(a, w, status)
  /\ message' = NoMessage
  /\ targetFound' = (targetFound \/ IsTarget)
  /\ UNCHANGED <<answer, refund, target, targetFailed, accountFalse, report, steps>>

\* Mutant: only a message with a sender's frame takes a checkpoint.
BeginNestedCheckpoint(a, w, status) ==
  /\ world' = w
  /\ saved' = IF frames = <<>> THEN saved ELSE Append(saved, world)
  /\ frames' = Pushed(a, w, status)
  /\ message' = NoMessage
  /\ targetFound' = (targetFound \/ IsTarget)
  /\ UNCHANGED <<answer, refund, target, targetFailed, accountFalse, report, steps>>

Begin(a, w, status) ==
  /\ world' = w
  /\ saved' = Append(saved, world)
  /\ frames' = Pushed(a, w, status)
  /\ message' = NoMessage
  /\ targetFound' = (targetFound \/ IsTarget)
  /\ UNCHANGED <<answer, refund, target, targetFailed, accountFalse, report, steps>>

\* An error that is not a VmError leaves executeMessage after its checkpoint.
\* The interpreter of the calling frame takes it for an exception of its own;
\* from the outermost message it goes to the caller of the VM.
Throw(w) ==
  /\ world' = w
  /\ saved' = Append(saved, world)
  /\ frames' = IF frames = <<>> THEN <<>>
               ELSE Replace(frames, [Top(frames) EXCEPT !.status = "failed"])
  /\ message' = NoMessage
  /\ targetFound' = (targetFound \/ IsTarget)
  /\ UNCHANGED <<answer, refund, target, targetFailed, accountFalse, report, steps>>

\* OvmStateManager.handleCall: the handlers that change state.  Whether the
\* message is static is not looked at, and no value is moved.
Handled ==
  {Entered}
    \union {[Entered EXCEPT ![a].nonce = n] : a \in Address, n \in 0..MaxNonce}
    \union {[Entered EXCEPT ![a].storage = s] : a \in Address, s \in {0, 1}}

CallStateManager ==
  /\ message # NoMessage
  /\ message.to = OSM
  /\ \/ \E w \in Handled : Begin(OSM, w, "stopped")
     \/ Throws /\ Throw(Entered)

\* Mutant: a message is answered by contract code only, not by a precompile
\* and not for an account without code.
CodeStatusNever(w) ==
  IF w[message.codeAddress].code THEN {"running"} ELSE {}

\* _loadCode: a precompile, then the code of the account.
CodeStatus(w) ==
  IF message.codeAddress \in Precompile THEN {"stopped", "failed"}
  ELSE IF w[message.codeAddress].code THEN {"running"} ELSE {"stopped"}

ExecuteCall ==
  /\ message # NoMessage
  /\ message.to \notin {NoAddress, OSM}
  /\ LET w == IF message.delegatecall THEN Entered
              ELSE Reduced(Entered, message.sender, message.value)
         moved == IF message.delegatecall THEN w
                  ELSE Increased(w, message.to, message.value)
     IN IF moved[message.to].balance > MaxBalance /\ ~message.delegatecall
        THEN Throw(w)
        ELSE \E status \in CodeStatus(moved) : Begin(message.to, moved, status)

\* The address is the one the ExecutionManager left in its storage.  Without
\* code to run (data is empty) the creation is over.
ExecuteCreate(a) ==
  /\ message # NoMessage
  /\ message.to = NoAddress
  /\ LET w == Reduced(Entered, message.sender, message.value)
         cleared == [w EXCEPT ![a].storage = 0]
         moved == Increased([cleared EXCEPT ![a].nonce = @ + 1], a, message.value)
     IN IF w[a].nonce > 0 \/ w[a].code THEN Begin(a, w, "failed")
        ELSE IF moved[a].balance > MaxBalance THEN Throw(cleared)
        ELSE \E status \in {"running", "stopped"} : Begin(a, moved, status)
-----------------------------------------------------------------------------
(* Opcodes of the running frame that change state.                         *)

Running ==
  /\ frames # <<>>
  /\ message = NoMessage
  /\ Top(frames).status = "running"

Step == Running /\ steps > 0 /\ steps' = steps - 1

\* Clearing a slot earns one refund (updateSstoreGas at petersburg).
StoreRefund(a, v) == IF world[a].storage = 1 /\ v = 0 THEN 1 ELSE 0

SStore(v) ==
  LET f == Top(frames) IN
  /\ Step
  /\ ~f.isStatic
  /\ world' = [world EXCEPT ![f.address].storage = v]
  /\ refund' = refund + StoreRefund(f.address, v)
  /\ frames' = Replace(frames, [f EXCEPT !.contract = world'[f.address]])
  /\ UNCHANGED <<saved, message, answer, outermost>>

Log ==
  LET f == Top(frames) IN
  /\ Step
  /\ ~f.isStatic
  /\ frames' = Replace(frames, [f EXCEPT !.logs = Append(@, f.address)])
  /\ UNCHANGED <<world, saved, message, answer, refund, outermost>>

\* The balance given away is the one in env.contract.
SelfDestruct(beneficiary) ==
  LET f == Top(frames) IN
  /\ Step
  /\ ~f.isStatic
  /\ world' = [Increased(world, beneficiary, f.contract.balance)
                 EXCEPT ![f.address].balance = 0]
  /\ refund' = refund + (IF f.address \in f.selfdestruct THEN 0 ELSE 1)
  /\ frames' = Replace(frames, [f EXCEPT !.selfdestruct = @ \union {f.address},
                                         !.status = "stopped"])
  /\ UNCHANGED <<saved, message, answer, outermost>>

\* Mutant: the balance is not looked at.
RefusedDepth(f, m) == Depth >= StackLimit

\* Too deep, or more ether than env.contract has: it fails at once.
Refused(f, m) ==
  \/ Depth >= StackLimit
  \/ ~m.delegatecall /\ f.contract.balance < m.value

\* Mutant: a call from a static frame is not static.
CallMessageForgets(f, kind, a, v) ==
  [sender |-> f.address,
   to |-> IF kind \in {"callcode", "delegatecall"} THEN f.address ELSE a,
   codeAddress |-> a,
   value |-> IF kind \in {"staticcall", "delegatecall"} THEN 0 ELSE v,
   isStatic |-> kind = "staticcall",
   delegatecall |-> kind = "delegatecall"]

CallMessage(f, kind, a, v) ==
  [sender |-> f.address,
   to |-> IF kind \in {"callcode", "delegatecall"} THEN f.address ELSE a,
   codeAddress |-> a,
   value |-> IF kind \in {"staticcall", "delegatecall"} THEN 0 ELSE v,
   isStatic |-> f.isStatic \/ kind = "staticcall",
   delegatecall |-> kind = "delegatecall"]

\* CALL, CALLCODE, DELEGATECALL and STATICCALL, up to executeMessage.  In a
\* static frame CALL refuses to carry value; CALLCODE does not.
Call(kind, a, v) ==
  LET f == Top(frames)
      m == CallMessage(f, kind, a, v)
  IN  /\ Step
      /\ kind = "call" /\ f.isStatic => v = 0
      /\ IF Refused(f, m)
         THEN answer' = "failed" /\ UNCHANGED message
         ELSE message' = m /\ UNCHANGED answer
      /\ UNCHANGED <<world, saved, frames, refund, outermost>>

\* CREATE and CREATE2: the whole of env.contract is written back with the
\* nonce incremented, before executeMessage takes its checkpoint.
Create(v) ==
  LET f == Top(frames)
      m == [sender |-> f.address, to |-> NoAddress, codeAddress |-> NoAddress,
            value |-> v, isStatic |-> FALSE, delegatecall |-> FALSE]
      bumped == [f.contract EXCEPT !.nonce = @ + 1]
  IN  /\ Step
      /\ ~f.isStatic
      /\ f.contract.nonce < MaxNonce
      /\ IF Refused(f, m)
         THEN answer' = "failed" /\ UNCHANGED <<world, frames, message>>
         ELSE /\ message' = m
              /\ world' = [world EXCEPT ![f.address] = bumped]
              /\ frames' = Replace(frames, [f EXCEPT !.contract = bumped])
              /\ UNCHANGED answer
      /\ UNCHANGED <<saved, refund, outermost>>
-----------------------------------------------------------------------------
(* executeMessage, from the end of the code to the caller's next opcode.   *)

\* Mutant: the account is not read again.
ResumedStale(parent, f, failed, w) ==
  IF failed THEN parent
  ELSE [parent EXCEPT !.logs = @ \o f.logs,
                      !.selfdestruct = @ \union f.selfdestruct]

\* Mutant: selfdestructs survive a failure.
ResumedAlways(parent, f, failed, w) ==
  IF failed THEN [parent EXCEPT !.selfdestruct = @ \union f.selfdestruct]
  ELSE [parent EXCEPT !.logs = @ \o f.logs,
                      !.selfdestruct = @ \union f.selfdestruct,
                      !.contract = w[parent.address]]

\* The calling frame takes over logs and selfdestructs, and reads its account
\* again, unless the message failed.
Resumed(parent, f, failed, w) ==
  IF failed THEN parent
  ELSE [parent EXCEPT !.logs = @ \o f.logs,
                      !.selfdestruct = @ \union f.selfdestruct,
                      !.contract = w[parent.address]]

\* An exception in the code takes back the refunds earned since it started.
RefundLeft(f, thrown) == IF thrown THEN f.oldRefund ELSE refund

\* The outermost result is rewritten with that of the target message.
Reported(logs, selfdestruct, tFailed, aFalse) ==
  IF tFailed = NoResult
  THEN [exception |-> TRUE, logs |-> logs, selfdestruct |-> selfdestruct]
  ELSE [exception |-> tFailed \/ aFalse,
        logs |-> SelectSeq(logs, LAMBDA a : a # EM),
        selfdestruct |-> selfdestruct]

\* The innermost message ends: thrown is an exception in its code, deposit
\* what becomes of the code a creation returned, zero whether it returns a
\* zero word.
Finish(thrown, deposit, zero) ==
  LET f == Top(frames)
      failed == thrown \/ deposit = "fails"
      w == IF failed THEN Top(saved)
           ELSE IF deposit = "stored" THEN [world EXCEPT ![f.address].code = TRUE]
           ELSE world
      logs == IF failed THEN <<>> ELSE f.logs
      selfdestruct == IF thrown THEN {} ELSE f.selfdestruct
      tFailed == IF f.isTarget THEN failed ELSE targetFailed
  IN  /\ frames # <<>>
      /\ message = NoMessage
      /\ f.status = "stopped" => ~thrown
      /\ f.status = "failed" => thrown
      /\ deposit # "none" => f.isCreate /\ ~thrown /\ f.status = "running"
      /\ zero => f.status = "running" /\ (f.isCreate /\ ~thrown => deposit = "stored")
      /\ world' = w
      /\ saved' = Pop(saved)
      /\ refund' = RefundLeft(f, thrown)
      /\ answer' = IF failed THEN "failed" ELSE "ok"
      /\ IF Depth = 0
         THEN /\ frames' = <<>>
              /\ report' = Reported(logs, selfdestruct, tFailed, accountFalse)
              /\ Forgotten
         ELSE /\ frames' = LET rest == Pop(frames) IN
                           Replace(rest, Resumed(Top(rest), f, failed, w))
              /\ targetFailed' = tFailed
              /\ accountFalse' = IF Depth = 1 /\ f.address # OSM THEN zero ELSE accountFalse
              /\ UNCHANGED <<report, target, targetFound>>
      /\ UNCHANGED <<message, steps>>

Opcode ==
  \/ \E v \in {0, 1} : SStore(v)
  \/ Log
  \/ \E a \in Address : SelfDestruct(a)
  \/ \E kind \in {"call", "callcode", "delegatecall", "staticcall"}, a \in Address,
        v \in Value : Call(kind, a, v)
  \/ \E v \in Value : Create(v)

Execute ==
  \/ CallStateManager
  \/ ExecuteCall
  \/ \E a \in Address : ExecuteCreate(a)

End == \E thrown \in BOOLEAN, deposit \in {"none", "stored", "fails"},
          zero \in BOOLEAN : Finish(thrown, deposit, zero)

Next ==
  \/ \E sender \in Address, to \in Address \union {NoAddress}, value \in Value,
        isStatic \in BOOLEAN : Run(sender, to, value, isStatic)
  \/ Opcode
  \/ Execute
  \/ End

Spec == Init /\ [][Next]_vars

\* Once entered, a message goes on: the gas it came with bounds the opcodes it
\* can run, and every await resolves.  Nobody has to send the next one.
FairSpec == Spec /\ WF_vars(Opcode \/ Execute \/ End)
-----------------------------------------------------------------------------
(* Properties.                                                             *)

TypeOK ==
  /\ world \in World
  /\ saved \in Seq(World)
  /\ frames \in Seq(Frame)
  /\ message \in Message \union {NoMessage}
  /\ answer \in {"none", "ok", "failed"}
  /\ refund \in Nat
  /\ target \in Address \union {NoAddress}
  /\ targetFound \in BOOLEAN
  /\ targetFailed \in BOOLEAN \union {NoResult}
  /\ accountFalse \in BOOLEAN
  /\ report \in Report
  /\ steps \in Nat

\* Each message being executed has one checkpoint, taken before anything it
\* did, its value transfer and the sender's account code included, so that a
\* revert in executeMessage is always of its own checkpoint (evm.ts).
CheckpointsMatch ==
  /\ Len(saved) = Len(frames)
  /\ \A i \in 1..Len(frames) : saved[i] = frames[i].start

\* Even when errors leave checkpoints behind, a message never ends without one
\* to commit or revert (evm.ts executeMessage).
CheckpointsSuffice == Len(saved) >= Len(frames)

\* A running frame's copy of its account, which decides whether it can afford
\* a call, what nonce a creation writes back and what a selfdestruct gives
\* away, is the account: no call, reentrant or failed, leaves it behind
\* (eei.ts _env.contract).
ContractFresh ==
  frames # <<>> /\ Top(frames).status = "running" =>
    Top(frames).contract = world[Top(frames).address]

\* Below a static call nothing but OvmStateManager changes the state: no ether
\* moves, no code appears, nothing is logged, selfdestructed or refunded, at
\* any depth (eei.ts callStatic; opFns.ts).
StaticMovesNothing ==
  \A i \in 2..Len(frames) : frames[i].isStatic =>
    /\ \A a \in Address : /\ world[a].balance = frames[i].start[a].balance
                          /\ world[a].code = frames[i].start[a].code
    /\ frames[i].logs = <<>>
    /\ frames[i].selfdestruct = frames[i - 1].selfdestruct
    /\ refund = frames[i].oldRefund

Ends == Len(frames') < Len(frames)

\* Every message sent to the VM is answered, whatever fails on the way.
Terminates == []<>Idle
=============================================================================
