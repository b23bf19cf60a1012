---------------------------- MODULE StateManager ----------------------------
(***************************************************************************)
(* lib/state/stateManager.ts and the write-back account cache behind it,   *)
(* lib/state/cache.ts, as the rest of the VM drives them: one operation    *)
(* runs to completion before the next begins (every caller awaits it).     *)
(*                                                                         *)
(* The state trie maps an address to a serialised account.  A trie is      *)
(* content-addressed, so a state root is the mapping it stands for and an  *)
(* account's stateRoot is its storage mapping; entering a root that is in  *)
(* the database brings the whole mapping back.                             *)
(***************************************************************************)
EXTENDS Naturals, Sequences, FiniteSets

CONSTANTS
  Address,        \* addresses of accounts
  Body,           \* nonce, balance and code hash of an account
  EmptyBody,      \* the body of new Account()
  Slot, Val,      \* storage keys and values
  Zero,           \* the value of an absent storage key
  Ripemd,         \* the address of the RIPEMD160 precompile
  Destructible,   \* addresses runTx may overwrite with new Account()
  Codeless,       \* addresses OVM_StateManager may give storage without a body
  GenesisAddress, \* addresses generateGenesis writes
  GenesisBody,    \* the body it gives them
  MaxDepth,       \* bound: open checkpoints
  MaxRoots,       \* bound: state roots handed out
  NoAccount,      \* absent from the state trie
  NoEntry,        \* absent from the cache
  NoTrie          \* absent from _storageTries

VARIABLES
  trie,             \* _trie: address -> account or NoAccount
  trieStack,        \* _trie's checkpoints
  cache,            \* _cache._cache: address -> entry or NoEntry
  cacheStack,       \* _cache._checkpoints
  touched,          \* _touched
  touchedStack,     \* _touchedStack
  checkpointCount,  \* _checkpointCount
  storageTries,     \* _storageTries: address -> storage or NoTrie
  heldRoots         \* the roots getStateRoot has returned to callers

vars == <<trie, trieStack, cache, cacheStack, touched, touchedStack,
          checkpointCount, storageTries, heldRoots>>
-----------------------------------------------------------------------------
Storage == [Slot -> Val]
EmptyStorage == [s \in Slot |-> Zero]
Account == [body : Body, stateRoot : Storage]
NewAccount == [body |-> EmptyBody, stateRoot |-> EmptyStorage]
Stored == Account \union {NoAccount}
Trie == [Address -> Stored]
EmptyTrie == [a \in Address |-> NoAccount]

Entry == [val : Account, modified : BOOLEAN, deleted : BOOLEAN]
CacheMap == [Address -> Entry \union {NoEntry}]
EmptyCache == [a \in Address |-> NoEntry]
NoStorageTries == [a \in Address |-> NoTrie]

ASSUME ConstantsAssumption ==
  /\ EmptyBody \in Body
  /\ Zero \in Val
  /\ Ripemd \in Address
  /\ Destructible \subseteq Address
  /\ Codeless \subseteq Address
  /\ GenesisAddress \subseteq Address
  /\ GenesisBody \in Body
  /\ MaxDepth \in Nat
  /\ MaxRoots \in Nat
  /\ NoAccount \notin Account
  /\ NoEntry \notin Entry
  /\ NoTrie \notin Storage
-----------------------------------------------------------------------------
(* The cache, as operators on a cache c in front of a trie t.              *)

Loaded(stored) == IF stored = NoAccount THEN NewAccount ELSE stored

Clean(account) == [val |-> account, modified |-> FALSE, deleted |-> FALSE]
Modified(account) == [val |-> account, modified |-> TRUE, deleted |-> FALSE]
Deleted == [val |-> NewAccount, modified |-> FALSE, deleted |-> TRUE]

\* What getOrLoad answers ...
Lookup(c, t, a) == IF c[a] = NoEntry THEN Loaded(t[a]) ELSE c[a].val

\* ... and the entry it leaves behind.
LoadedEntry(c, t, a) == IF c[a] = NoEntry THEN Clean(Loaded(t[a])) ELSE c[a]

\* Entries written to the trie or removed from it; the rest is left alone.
FlushedTrie(c, t) ==
  [a \in Address |->
     IF c[a] = NoEntry THEN t[a]
     ELSE IF c[a].modified THEN c[a].val
     ELSE IF c[a].deleted THEN NoAccount
     ELSE t[a]]

FlushedCache(c) ==
  [a \in Address |->
     IF c[a] = NoEntry THEN NoEntry
     ELSE IF c[a].modified THEN [c[a] EXCEPT !.modified = FALSE]
     ELSE IF c[a].deleted THEN Clean(NewAccount)
     ELSE c[a]]

Top(stack) == stack[Len(stack)]
Pop(stack) == SubSeq(stack, 1, Len(stack) - 1)
-----------------------------------------------------------------------------
Init ==
  /\ trie = EmptyTrie
  /\ trieStack = <<>>
  /\ cache = EmptyCache
  /\ cacheStack = <<>>
  /\ touched = {}
  /\ touchedStack = <<>>
  /\ checkpointCount = 0
  /\ storageTries = NoStorageTries
  /\ heldRoots = {}

stacks == <<trieStack, cacheStack, touchedStack, checkpointCount>>

\* getAccount: a miss leaves a clean entry.
GetAccount(a) ==
  /\ cache' = [cache EXCEPT ![a] = LoadedEntry(cache, trie, a)]
  /\ UNCHANGED <<trie, stacks, touched, storageTries, heldRoots>>

\* Mutant: putAccount does not touch the account.
PutUntouched(a, account) ==
  /\ cache' = [cache EXCEPT ![a] = Modified(account)]
  /\ UNCHANGED <<trie, stacks, touched, heldRoots>>

\* putAccount of a given account.
Put(a, account) ==
  /\ cache' = [cache EXCEPT ![a] = Modified(account)]
  /\ touched' = touched \union {a}
  /\ UNCHANGED <<trie, stacks, heldRoots>>

\* putAccount or putContractCode, as callers use them: read the account,
\* change its nonce, balance or code, write it back.  Nothing takes the body
\* of an account that has storage.
PutAccount(a, b) ==
  LET account == Lookup(cache, trie, a) IN
  /\ b = EmptyBody => account.stateRoot = EmptyStorage \/ a \in Codeless
  /\ Put(a, [account EXCEPT !.body = b])
  /\ UNCHANGED storageTries

\* runTx overwrites a selfdestructed contract with new Account().
DestroyAccount(a) ==
  /\ a \in Destructible
  /\ Put(a, NewAccount)
  /\ UNCHANGED storageTries

\* _getStorageTrie: the cached storage trie, else the account's stateRoot.
StorageTrie(a) ==
  IF storageTries[a] = NoTrie THEN Lookup(cache, trie, a).stateRoot
                              ELSE storageTries[a]

GetContractStorage(a, s) == StorageTrie(a)[s]

\* _modifyContractStorage with the storage modifyTrie leaves.  The account is
\* read from the cache alone; _getStorageTrie loads it on a miss in
\* _storageTries only.
ModifyContractStorage(a, storage) ==
  LET loaded == IF storageTries[a] = NoTrie
                THEN LoadedEntry(cache, trie, a) ELSE cache[a]
      contract == IF loaded = NoEntry THEN NewAccount ELSE loaded.val
  IN  /\ Put(a, [contract EXCEPT !.stateRoot = storage])
      /\ storageTries' = [storageTries EXCEPT ![a] = storage]

\* Mutant: storage may be written where there is no account.
PutContractStorageAnywhere(a, s, v) ==
  ModifyContractStorage(a, [StorageTrie(a) EXCEPT ![s] = v])

\* SSTORE runs in a contract, which has a body; OVM_StateManager does not ask.
PutContractStorage(a, s, v) ==
  /\ Lookup(cache, trie, a).body # EmptyBody \/ a \in Codeless
  /\ ModifyContractStorage(a, [StorageTrie(a) EXCEPT ![s] = v])

ClearContractStorage(a) == ModifyContractStorage(a, EmptyStorage)

Checkpoint ==
  /\ checkpointCount < MaxDepth
  /\ trieStack' = Append(trieStack, trie)
  /\ cacheStack' = Append(cacheStack, cache)
  /\ touchedStack' = Append(touchedStack, touched)
  /\ checkpointCount' = checkpointCount + 1
  /\ UNCHANGED <<trie, cache, touched, storageTries, heldRoots>>

\* Mutant: every commit and revert flushes.
SettleFlushesAlways(c, t) ==
  /\ checkpointCount' = checkpointCount - 1
  /\ trie' = FlushedTrie(c, t)
  /\ cache' = FlushedCache(c)
  /\ trieStack' = Pop(trieStack)
  /\ cacheStack' = Pop(cacheStack)
  /\ touchedStack' = Pop(touchedStack)

\* Mutant: the counter is read before it is decremented.
SettleFlushesLate(c, t) ==
  /\ checkpointCount' = checkpointCount - 1
  /\ trie' = IF checkpointCount = 0 THEN FlushedTrie(c, t) ELSE t
  /\ cache' = IF checkpointCount = 0 THEN FlushedCache(c) ELSE c
  /\ trieStack' = Pop(trieStack)
  /\ cacheStack' = Pop(cacheStack)
  /\ touchedStack' = Pop(touchedStack)

\* The end of commit and revert: what is current with the last checkpoint
\* gone is written back.
Settle(c, t) ==
  /\ checkpointCount' = checkpointCount - 1
  /\ trie' = IF checkpointCount' = 0 THEN FlushedTrie(c, t) ELSE t
  /\ cache' = IF checkpointCount' = 0 THEN FlushedCache(c) ELSE c
  /\ trieStack' = Pop(trieStack)
  /\ cacheStack' = Pop(cacheStack)
  /\ touchedStack' = Pop(touchedStack)

\* _trie.commit throws when the trie has no checkpoint.
Commit ==
  /\ trieStack # <<>>
  /\ Settle(cache, trie)
  /\ UNCHANGED <<touched, storageTries, heldRoots>>

\* Mutant: the storage tries survive a revert.
RevertKeepsStorageTries ==
  /\ touchedStack # <<>>
  /\ Settle(Top(cacheStack), Top(trieStack))
  /\ touched' = Top(touchedStack) \union (touched \intersect {Ripemd})
  /\ UNCHANGED <<storageTries, heldRoots>>

\* Mutant: RIPEMD160 is no exception.
RevertUntouchesRipemd ==
  /\ touchedStack # <<>>
  /\ Settle(Top(cacheStack), Top(trieStack))
  /\ storageTries' = NoStorageTries
  /\ touched' = Top(touchedStack)
  /\ UNCHANGED heldRoots

\* revert throws when _touchedStack is empty.
Revert ==
  /\ touchedStack # <<>>
  /\ Settle(Top(cacheStack), Top(trieStack))
  /\ storageTries' = NoStorageTries
  /\ touched' = Top(touchedStack) \union (touched \intersect {Ripemd})
  /\ UNCHANGED heldRoots

\* Mutant: nothing is written back.
FlushNothing == UNCHANGED <<trie, cache>>

Flush ==
  /\ trie' = FlushedTrie(cache, trie)
  /\ cache' = FlushedCache(cache)

\* With checkpoints open getStateRoot and setStateRoot answer an error and
\* change nothing.
GetStateRoot ==
  /\ checkpointCount = 0
  /\ Flush
  /\ trie' \in heldRoots \/ Cardinality(heldRoots) < MaxRoots
  /\ heldRoots' = heldRoots \union {trie'}
  /\ UNCHANGED <<stacks, touched, storageTries>>

\* Mutant: the cache is not cleared when the root changes.
SetStateRootKeepsCache(root) ==
  /\ checkpointCount = 0
  /\ trie' = root
  /\ storageTries' = NoStorageTries
  /\ UNCHANGED <<cache, stacks, touched, heldRoots>>

\* A root of the database, or the empty one: the instance moves to it, but
\* _touched is left as it is.
SetStateRoot(root) ==
  /\ checkpointCount = 0
  /\ trie' = root
  /\ cache' = EmptyCache
  /\ storageTries' = NoStorageTries
  /\ UNCHANGED <<stacks, touched, heldRoots>>

\* The error comes after the flush.
SetUnknownStateRoot ==
  /\ checkpointCount = 0
  /\ Flush
  /\ UNCHANGED <<stacks, touched, storageTries, heldRoots>>

\* accountIsEmpty looks at nonce, balance and code hash, not at stateRoot.
IsEmpty(a) == Lookup(cache, trie, a).body = EmptyBody

CleanupTouchedAccounts ==
  /\ cache' = [a \in Address |->
                 IF a \notin touched THEN cache[a]
                 ELSE IF IsEmpty(a) THEN Deleted
                 ELSE LoadedEntry(cache, trie, a)]
  /\ touched' = {}
  /\ UNCHANGED <<trie, stacks, storageTries, heldRoots>>

\* The genesis accounts go to the trie, past the cache.
GenerateGenesis ==
  /\ GenesisAddress # {}
  /\ checkpointCount = 0
  /\ trie' = [a \in Address |->
                IF a \in GenesisAddress
                THEN [NewAccount EXCEPT !.body = GenesisBody] ELSE trie[a]]
  /\ UNCHANGED <<cache, stacks, touched, storageTries, heldRoots>>

Next ==
  \/ \E a \in Address : \/ GetAccount(a)
                        \/ \E b \in Body : PutAccount(a, b)
                        \/ DestroyAccount(a)
                        \/ \E s \in Slot, v \in Val : PutContractStorage(a, s, v)
                        \/ ClearContractStorage(a)
  \/ Checkpoint
  \/ Commit
  \/ Revert
  \/ GetStateRoot
  \/ \E root \in heldRoots \union {EmptyTrie} : SetStateRoot(root)
  \/ SetUnknownStateRoot
  \/ CleanupTouchedAccounts
  \/ GenerateGenesis

Spec == Init /\ [][Next]_vars
-----------------------------------------------------------------------------
(* Properties.                                                             *)

TypeOK ==
  /\ trie \in Trie
  /\ trieStack \in Seq(Trie)
  /\ cache \in CacheMap
  /\ cacheStack \in Seq(CacheMap)
  /\ touched \subseteq Address
  /\ touchedStack \in Seq(SUBSET Address)
  /\ checkpointCount \in Nat
  /\ storageTries \in [Address -> Storage \union {NoTrie}]
  /\ heldRoots \subseteq Trie

\* The three stacks and the counter open and close checkpoints together, and
\* no write reaches the state trie while one is open: every root the trie
\* would go back to is the one it has (stateManager.ts checkpoint, commit,
\* revert, generateGenesis).
CheckpointsAligned ==
  /\ Len(trieStack) = checkpointCount
  /\ Len(cacheStack) = checkpointCount
  /\ Len(touchedStack) = checkpointCount
  /\ \A i \in 1..Len(trieStack) : trieStack[i] = trie

CleanEntriesMatch(c, t) ==
  \A a \in Address \ GenesisAddress :
    c[a] # NoEntry /\ ~c[a].modified /\ ~c[a].deleted => c[a].val = Loaded(t[a])

\* An entry of the cache nobody wrote says what the trie says, in the current
\* cache and in each one a revert would bring back: a checkpoint, revert,
\* flush or change of root never leaves a read of an older world behind
\* (cache.ts getOrLoad, flush; stateManager.ts setStateRoot).
CacheCoherent ==
  /\ CleanEntriesMatch(cache, trie)
  /\ \A i \in 1..Len(cacheStack) : CleanEntriesMatch(cacheStack[i], trie)

\* The storage tries kept beside the accounts are the ones the accounts'
\* state roots name, in spite of reverts, changes of root and deletions by
\* cleanupTouchedAccounts: a read of storage sees the current account.  The
\* addresses runTx destroys and those given storage without a body are out.
StorageCoherent ==
  \A a \in Address \ (Destructible \union Codeless) :
    storageTries[a] # NoTrie =>
      storageTries[a] = Lookup(cache, trie, a).stateRoot

EmptiesTouched(c, ts) ==
  \A a \in Address :
    c[a] # NoEntry /\ c[a].modified /\ c[a].val.body = EmptyBody => a \in ts

\* Every empty account a caller left in the cache is still on the list that
\* cleanupTouchedAccounts works through (EIP-161), now and after any reverts.
NoEmptyEscapes ==
  /\ EmptiesTouched(cache, touched)
  /\ \A i \in 1..Len(cacheStack) : EmptiesTouched(cacheStack[i], touchedStack[i])

\* No account without a body has storage, but where OVM_StateManager put it:
\* this is why deleting an empty account loses no storage.
NeedsBody(account) ==
  account.body = EmptyBody => account.stateRoot = EmptyStorage

StorageNeedsBody ==
  \A a \in Address \ Codeless :
    /\ cache[a] # NoEntry => NeedsBody(cache[a].val)
    /\ \A i \in 1..Len(cacheStack) :
         cacheStack[i][a] # NoEntry => NeedsBody(cacheStack[i][a].val)
    /\ NeedsBody(Loaded(trie[a]))
    /\ \A root \in heldRoots : NeedsBody(Loaded(root[a]))

WellFormed(c) ==
  \A a \in Address :
    c[a] # NoEntry /\ c[a].deleted => ~c[a].modified /\ c[a].val = NewAccount

\* What else the code relies on without saying so: an entry marked deleted is
\* a new account with nothing to write, and _modifyContractStorage, which reads
\* the cache alone, finds there the account whose storage trie it changes
\* (stateManager.ts _modifyContractStorage).
CacheWellFormed ==
  /\ WellFormed(cache)
  /\ \A i \in 1..Len(cacheStack) : WellFormed(cacheStack[i])
  /\ \A a \in Address : storageTries[a] # NoTrie => cache[a] # NoEntry

\* Inductive.
IInv ==
  /\ TypeOK
  /\ CheckpointsAligned
  /\ CacheWellFormed
  /\ CacheCoherent
  /\ StorageNeedsBody
  /\ StorageCoherent
  /\ NoEmptyEscapes

\* The account values the ledger holds: what a flush would leave in the trie.
World == FlushedTrie(cache, trie)
SavedWorlds == [i \in 1..Len(cacheStack) |-> FlushedTrie(cacheStack[i], trieStack[i])]

\* A revert brings back the world of the last checkpoint, whatever was read,
\* written or flushed since and with whatever cache, and a commit keeps the
\* current one (stateManager.ts commit, revert).
RevertRestores ==
  [][/\ Revert => World' = Top(SavedWorlds)
     /\ Commit => World' = World]_vars

\* Closing the last checkpoint, by commit or by revert, makes the trie the
\* world and leaves nothing to write back (stateManager.ts commit, revert).
DurableAtLastCheckpoint ==
  [][checkpointCount = 1 /\ checkpointCount' = 0 => trie' = World']_vars

\* Once touched, the RIPEMD precompile stays touched through every revert,
\* until cleanupTouchedAccounts considers it (stateManager.ts revert).
RipemdStaysTouched ==
  [][(Ripemd \in touched /\ Ripemd \notin touched') =>
       touched' = {} /\ UNCHANGED checkpointCount]_vars

\* The detailed state manager implements the ledger.
Ledger == INSTANCE WorldState WITH
  world <- World, saved <- SavedWorlds, held <- heldRoots

\* Reads, writes, checkpoints, reverts and state roots behave as if there were
\* no cache, no storage trie cache and no write-back.
ImplementsLedger == Ledger!Spec
=============================================================================
