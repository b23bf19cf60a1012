----------------------------- MODULE WorldState -----------------------------
(***************************************************************************)
(* What StateManager promises its callers: a ledger of accounts with       *)
(* nested checkpoints.  There is no cache, no write-back and no storage    *)
(* trie here: a write changes the ledger at once, a checkpoint remembers   *)
(* the whole ledger, a revert restores it, and a state root IS the ledger  *)
(* it was taken of.  StateManager.tla is shown to implement this module.   *)
(***************************************************************************)
EXTENDS Naturals, Sequences

CONSTANTS
  Address,      \* addresses of accounts
  Body,         \* an account without its storage: nonce, balance, code hash
  EmptyBody,    \* zero nonce, zero balance, no code
  Slot, Val,    \* storage keys and storage values
  Zero,         \* the value of a slot that was never written
  NoAccount     \* the address is not in the state trie

VARIABLES
  world,   \* the ledger: what each address holds
  saved,   \* the ledgers remembered by the open checkpoints, oldest first
  held     \* the ledgers whose state root was handed out

vars == <<world, saved, held>>
-----------------------------------------------------------------------------
Storage == [Slot -> Val]
EmptyStorage == [s \in Slot |-> Zero]
Account == [body : Body, stateRoot : Storage]
NewAccount == [body |-> EmptyBody, stateRoot |-> EmptyStorage]
Stored == Account \union {NoAccount}

\* An absent account reads as a new one.
Loaded(stored) == IF stored = NoAccount THEN NewAccount ELSE stored

Write(a, account) ==
  /\ world' = [world EXCEPT ![a] = account]
  /\ UNCHANGED <<saved, held>>
-----------------------------------------------------------------------------
Init ==
  /\ world = [a \in Address |-> NoAccount]
  /\ saved = <<>>
  /\ held = {}

SetBody(a, b) == Write(a, [Loaded(world[a]) EXCEPT !.body = b])

SetSlot(a, s, v) ==
  Write(a, [Loaded(world[a]) EXCEPT !.stateRoot = [@ EXCEPT ![s] = v]])

ClearStorage(a) == Write(a, [Loaded(world[a]) EXCEPT !.stateRoot = EmptyStorage])

Reset(a) == Write(a, NewAccount)

\* Accounts with an empty body leave the ledger, whichever were asked for.
Sweep(swept) ==
  /\ \A a \in swept : Loaded(world[a]).body = EmptyBody
  /\ world' = [a \in Address |-> IF a \in swept THEN NoAccount ELSE world[a]]
  /\ UNCHANGED <<saved, held>>

Pop(stack) == SubSeq(stack, 1, Len(stack) - 1)

Checkpoint ==
  /\ saved' = Append(saved, world)
  /\ UNCHANGED <<world, held>>

Commit ==
  /\ saved # <<>>
  /\ saved' = Pop(saved)
  /\ UNCHANGED <<world, held>>

Revert ==
  /\ saved # <<>>
  /\ world' = saved[Len(saved)]
  /\ saved' = Pop(saved)
  /\ UNCHANGED held

\* Roots are handed out and taken back only with no checkpoint open.
GetRoot ==
  /\ saved = <<>>
  /\ held' = held \union {world}
  /\ UNCHANGED <<world, saved>>

SetRoot(w) ==
  /\ saved = <<>>
  /\ world' = w
  /\ UNCHANGED <<saved, held>>

Next ==
  \/ \E a \in Address : \/ \E b \in Body : SetBody(a, b)
                        \/ \E s \in Slot, v \in Val : SetSlot(a, s, v)
                        \/ ClearStorage(a)
                        \/ Reset(a)
  \/ \E swept \in SUBSET Address : Sweep(swept)
  \/ Checkpoint
  \/ Commit
  \/ Revert
  \/ GetRoot
  \/ \E w \in held \union {[a \in Address |-> NoAccount]} : SetRoot(w)

Spec == Init /\ [][Next]_vars
=============================================================================
