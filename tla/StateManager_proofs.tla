------------------------ MODULE StateManager_proofs ------------------------
(***************************************************************************)
(* The invariants of StateManager hold for every value of its constants,   *)
(* and it implements WorldState.                                           *)
(***************************************************************************)
EXTENDS StateManager, SequenceTheorems, TLAPS

USE ConstantsAssumption DEF ConstantsAssumption
-----------------------------------------------------------------------------
(* The stacks.                                                             *)

\* Popping a stack keeps all elements but the last.
LEMMA PopFacts ==
  ASSUME NEW S, NEW q \in Seq(S), q # <<>>
  PROVE  /\ Pop(q) \in Seq(S)
         /\ Len(q) \in Nat \ {0}
         /\ Len(Pop(q)) = Len(q) - 1
         /\ \A i \in 1..Len(Pop(q)) : Pop(q)[i] = q[i]
         /\ Top(q) \in S
         /\ Top(q) = q[Len(q)]
  <1> DEFINE n == Len(q)
  <1>1. n \in Nat \ {0}
    BY EmptySeq
  <1>2. \A i \in 1..n : q[i] \in S
    BY LenProperties
  <1>3. Pop(q) = SubSeq(q, 1, n - 1) /\ Top(q) = q[n]
    BY DEF Pop, Top
  <1> HIDE DEF n
  <1>4. n - 1 \in Int /\ (\A i \in 1..(n - 1) : q[i] \in S)
    BY <1>1, <1>2
  <1>5. /\ Pop(q) \in Seq(S)
        /\ Len(Pop(q)) = IF 1 <= n - 1 THEN n - 1 - 1 + 1 ELSE 0
        /\ \A i \in 1..(n - 1 - 1 + 1) : Pop(q)[i] = q[1 + i - 1]
    BY <1>3, <1>4, SubSeqProperties
  <1>6. (IF 1 <= n - 1 THEN n - 1 - 1 + 1 ELSE 0) = n - 1
    BY <1>1
  <1>7. Len(Pop(q)) = n - 1
    <2> DEFINE m == Len(Pop(q))
    <2>1. m = IF 1 <= n - 1 THEN n - 1 - 1 + 1 ELSE 0
      BY <1>5
    <2> HIDE DEF m
    <2>2. m = n - 1
      BY <2>1, <1>6
    <2> QED
      BY <2>2 DEF m
  <1>8. \A i \in 1..(n - 1) : Pop(q)[i] = q[i]
    BY <1>1, <1>5
  <1>9. Top(q) \in S
    BY <1>1, <1>2, <1>3
  <1> QED
    BY <1>1, <1>3, <1>5, <1>7, <1>8, <1>9 DEF n

\* Pushing keeps all elements and adds one.
LEMMA PushFacts ==
  ASSUME NEW S, NEW q \in Seq(S), NEW e \in S
  PROVE  /\ Append(q, e) \in Seq(S)
         /\ Len(Append(q, e)) = Len(q) + 1
         /\ \A i \in 1..Len(q) : Append(q, e)[i] = q[i]
         /\ Append(q, e)[Len(q) + 1] = e
  BY AppendProperties
-----------------------------------------------------------------------------
(* The cache's operators.                                                  *)

LEMMA NewAccountType == NewAccount \in Account /\ EmptyStorage \in Storage
  BY DEF NewAccount, Account, Storage, EmptyStorage

LEMMA LoadedType ==
  ASSUME NEW stored \in Stored
  PROVE  Loaded(stored) \in Account
  BY NewAccountType DEF Loaded, Stored

LEMMA EntryTypes ==
  ASSUME NEW account \in Account
  PROVE  /\ Clean(account) \in Entry
         /\ Modified(account) \in Entry
         /\ Deleted \in Entry
         /\ Clean(account) # NoEntry
         /\ Modified(account) # NoEntry
         /\ Deleted # NoEntry
  <1>1. Clean(account) \in Entry /\ Modified(account) \in Entry
    BY DEF Clean, Modified, Entry
  <1>2. Deleted \in Entry
    BY NewAccountType DEF Deleted, Entry
  <1> QED
    BY <1>1, <1>2 DEF ConstantsAssumption

LEMMA LookupType ==
  ASSUME NEW c \in CacheMap, NEW t \in Trie, NEW a \in Address
  PROVE  /\ Lookup(c, t, a) \in Account
         /\ LoadedEntry(c, t, a) \in Entry
         /\ LoadedEntry(c, t, a) # NoEntry
         /\ LoadedEntry(c, t, a).val = Lookup(c, t, a)
  <1>1. Loaded(t[a]) \in Account
    BY LoadedType DEF Trie
  <1>2. c[a] # NoEntry => c[a] \in Entry /\ c[a].val \in Account
    BY DEF CacheMap, Entry
  <1> QED
    BY <1>1, <1>2, EntryTypes DEF Lookup, LoadedEntry, Clean

LEMMA FlushType ==
  ASSUME NEW c \in CacheMap, NEW t \in Trie
  PROVE  FlushedTrie(c, t) \in Trie /\ FlushedCache(c) \in CacheMap
  <1>1. ASSUME NEW a \in Address
        PROVE  /\ FlushedTrie(c, t)[a] \in Stored
               /\ FlushedCache(c)[a] \in Entry \union {NoEntry}
    <2>1. c[a] = NoEntry \/ (c[a] # NoEntry /\ c[a] \in Entry)
      BY DEF CacheMap
    <2>2. t[a] \in Stored
      BY DEF Trie
    <2>3. Clean(NewAccount) \in Entry
      BY NewAccountType, EntryTypes
    <2> QED
      BY <2>1, <2>2, <2>3 DEF FlushedTrie, FlushedCache, Entry, Stored
  <1> QED
    BY <1>1 DEF FlushedTrie, FlushedCache, Trie, CacheMap
-----------------------------------------------------------------------------
(* The invariant, rearranged by component: a trie, a level of the cache   *)
(* with its touched addresses, the saved levels, the storage tries.        *)

TrieOK(t) ==
  /\ t \in Trie
  /\ \A a \in Address \ Codeless : NeedsBody(Loaded(t[a]))

LevelOK(c, t, ts) ==
  /\ c \in CacheMap
  /\ ts \subseteq Address
  /\ WellFormed(c)
  /\ CleanEntriesMatch(c, t)
  /\ EmptiesTouched(c, ts)
  /\ \A a \in Address \ Codeless : c[a] # NoEntry => NeedsBody(c[a].val)

SavedOK(tS, cS, tsS, n, t) ==
  /\ n \in Nat
  /\ tS \in Seq(Trie) /\ Len(tS) = n
  /\ cS \in Seq(CacheMap) /\ Len(cS) = n
  /\ tsS \in Seq(SUBSET Address) /\ Len(tsS) = n
  /\ \A i \in 1..n : tS[i] = t /\ LevelOK(cS[i], t, tsS[i])

StoragesOK(sts, c, t) ==
  /\ sts \in [Address -> Storage \union {NoTrie}]
  /\ \A a \in Address : sts[a] # NoTrie => c[a] # NoEntry
  /\ \A a \in Address \ (Destructible \union Codeless) :
       sts[a] # NoTrie => sts[a] = Lookup(c, t, a).stateRoot

Parts ==
  /\ TrieOK(trie)
  /\ LevelOK(cache, trie, touched)
  /\ SavedOK(trieStack, cacheStack, touchedStack, checkpointCount, trie)
  /\ StoragesOK(storageTries, cache, trie)
  /\ \A root \in heldRoots : TrieOK(root)

LEMMA IInvParts == IInv <=> Parts
  <1>1. IInv => Parts
    <2> SUFFICES ASSUME IInv PROVE Parts
      OBVIOUS
    <2> USE DEF IInv, TypeOK
    <2>1. TrieOK(trie) /\ \A root \in heldRoots : TrieOK(root)
      BY DEF TrieOK, StorageNeedsBody
    <2>2. LevelOK(cache, trie, touched)
      BY DEF LevelOK, StorageNeedsBody, CacheWellFormed, CacheCoherent,
             NoEmptyEscapes
    <2>3. SavedOK(trieStack, cacheStack, touchedStack, checkpointCount, trie)
      <3>1. ASSUME NEW i \in 1..checkpointCount
            PROVE  /\ trieStack[i] = trie
                   /\ LevelOK(cacheStack[i], trie, touchedStack[i])
        <4>1. cacheStack[i] \in CacheMap /\ touchedStack[i] \subseteq Address
          BY DEF CheckpointsAligned
        <4> QED
          BY <4>1 DEF LevelOK, StorageNeedsBody, CacheWellFormed, CacheCoherent,
                      NoEmptyEscapes, CheckpointsAligned
      <3> QED
        BY <3>1 DEF SavedOK, CheckpointsAligned
    <2>4. StoragesOK(storageTries, cache, trie)
      BY DEF StoragesOK, CacheWellFormed, StorageCoherent
    <2> QED
      BY <2>1, <2>2, <2>3, <2>4 DEF Parts
  <1>2. Parts => IInv
    <2> SUFFICES ASSUME Parts PROVE IInv
      OBVIOUS
    <2> USE DEF Parts
    <2>1. TypeOK
      BY DEF TypeOK, TrieOK, LevelOK, SavedOK, StoragesOK
    <2>2. CheckpointsAligned
      BY DEF CheckpointsAligned, SavedOK
    <2>3. \A i \in 1..Len(cacheStack) : LevelOK(cacheStack[i], trie, touchedStack[i])
      BY DEF SavedOK
    <2>4. CacheWellFormed /\ CacheCoherent /\ NoEmptyEscapes
      BY <2>3 DEF CacheWellFormed, CacheCoherent, NoEmptyEscapes, LevelOK, StoragesOK
    <2>5. StorageNeedsBody
      BY <2>3 DEF StorageNeedsBody, LevelOK, TrieOK
    <2>6. StorageCoherent
      BY DEF StorageCoherent, StoragesOK
    <2> QED
      BY <2>1, <2>2, <2>4, <2>5, <2>6 DEF IInv
  <1> QED
    BY <1>1, <1>2
-----------------------------------------------------------------------------
(* What each kind of change does to one level.                             *)

\* A level stays good when more addresses are touched.
LEMMA LevelTouch ==
  ASSUME NEW c, NEW t, NEW ts, NEW more \in SUBSET Address, LevelOK(c, t, ts)
  PROVE  LevelOK(c, t, ts \union more)
  BY DEF LevelOK, EmptiesTouched

\* Writing an account, with its address touched.
LEMMA LevelPut ==
  ASSUME NEW c, NEW t, NEW ts, LevelOK(c, t, ts),
         NEW a \in Address, NEW account \in Account,
         a \in Codeless \/ NeedsBody(account)
  PROVE  LevelOK([c EXCEPT ![a] = Modified(account)], t, ts \union {a})
  <1> DEFINE d == [c EXCEPT ![a] = Modified(account)]
  <1>1. c \in CacheMap
    BY DEF LevelOK
  <1>2. Modified(account) \in Entry
    BY EntryTypes
  <1>3. d \in CacheMap
    BY <1>1, <1>2 DEF CacheMap
  <1>4. \A x \in Address : d[x] = IF x = a THEN Modified(account) ELSE c[x]
    BY <1>1 DEF CacheMap
  <1>5. /\ Modified(account).val = account
        /\ Modified(account).modified
        /\ ~Modified(account).deleted
    BY DEF Modified
  <1> HIDE DEF d
  <1>6. WellFormed(d)
    BY <1>4, <1>5 DEF WellFormed, LevelOK
  <1>7. CleanEntriesMatch(d, t)
    BY <1>4, <1>5 DEF CleanEntriesMatch, LevelOK
  <1>8. EmptiesTouched(d, ts \union {a})
    BY <1>4 DEF EmptiesTouched, LevelOK
  <1>9. \A x \in Address \ Codeless : d[x] # NoEntry => NeedsBody(d[x].val)
    BY <1>4, <1>5 DEF LevelOK
  <1>10. ts \union {a} \subseteq Address
    BY DEF LevelOK
  <1> QED
    BY <1>3, <1>6, <1>7, <1>8, <1>9, <1>10 DEF LevelOK, d

\* The account a level holds, or finds in the trie.
LEMMA LevelLookup ==
  ASSUME NEW c, NEW t, NEW ts, LevelOK(c, t, ts), TrieOK(t), NEW a \in Address
  PROVE  /\ Lookup(c, t, a) \in Account
         /\ a \in Codeless \/ NeedsBody(Lookup(c, t, a))
         /\ LoadedEntry(c, t, a) \in Entry
         /\ LoadedEntry(c, t, a) # NoEntry
         /\ LoadedEntry(c, t, a).val = Lookup(c, t, a)
  BY LookupType DEF LevelOK, TrieOK, Lookup

\* Loading entries from the trie: at any set of addresses, so that the lemma
\* serves getAccount and cleanupTouchedAccounts.
LEMMA LevelLoad ==
  ASSUME NEW c, NEW t, NEW ts, LevelOK(c, t, ts), TrieOK(t), NEW A
  PROVE  LevelOK([a \in Address |-> IF a \in A THEN LoadedEntry(c, t, a) ELSE c[a]],
                 t, ts)
  <1> DEFINE d == [a \in Address |-> IF a \in A THEN LoadedEntry(c, t, a) ELSE c[a]]
  <1>1. ASSUME NEW a \in Address
        PROVE  /\ d[a] \in Entry \union {NoEntry}
               /\ d[a] = c[a] \/ (c[a] = NoEntry /\ d[a] = Clean(Loaded(t[a])))
    BY LevelLookup DEF LevelOK, CacheMap, LoadedEntry
  <1>2. d \in CacheMap
    BY <1>1 DEF CacheMap
  <1>3. \A a \in Address :
          /\ Clean(Loaded(t[a])).val = Loaded(t[a])
          /\ ~Clean(Loaded(t[a])).modified
          /\ ~Clean(Loaded(t[a])).deleted
    BY DEF Clean
  <1> HIDE DEF d
  <1>4. WellFormed(d)
    BY <1>1, <1>3 DEF WellFormed, LevelOK
  <1>5. CleanEntriesMatch(d, t)
    BY <1>1, <1>3 DEF CleanEntriesMatch, LevelOK
  <1>6. EmptiesTouched(d, ts)
    BY <1>1, <1>3 DEF EmptiesTouched, LevelOK
  <1>7. \A x \in Address \ Codeless : d[x] # NoEntry => NeedsBody(d[x].val)
    BY <1>1, <1>3 DEF LevelOK, TrieOK
  <1> QED
    BY <1>2, <1>4, <1>5, <1>6, <1>7 DEF LevelOK, d

\* Flushing changes no account anybody reads, and leaves nothing modified.
LEMMA LevelFlush ==
  ASSUME NEW c, NEW t, NEW ts, LevelOK(c, t, ts), TrieOK(t)
  PROVE  /\ TrieOK(FlushedTrie(c, t))
         /\ LevelOK(FlushedCache(c), FlushedTrie(c, t), ts)
         /\ \A a \in Address :
              /\ FlushedCache(c)[a] = NoEntry <=> c[a] = NoEntry
              /\ Lookup(FlushedCache(c), FlushedTrie(c, t), a) = Lookup(c, t, a)
  <1> DEFINE d == FlushedCache(c)
             u == FlushedTrie(c, t)
  <1>1. d \in CacheMap /\ u \in Trie
    BY FlushType DEF LevelOK, TrieOK
  <1>2. ASSUME NEW a \in Address
        PROVE  \/ c[a] = NoEntry /\ d[a] = NoEntry /\ u[a] = t[a]
               \/ /\ c[a] # NoEntry /\ d[a] # NoEntry
                  /\ ~d[a].modified /\ ~d[a].deleted
                  /\ d[a].val = c[a].val
                  /\ \/ d[a].val = Loaded(u[a])
                     \/ ~c[a].modified /\ ~c[a].deleted /\ u[a] = t[a]
    <2>1. CASE c[a] = NoEntry
      BY <2>1 DEF FlushedCache, FlushedTrie
    <2>2. CASE c[a] # NoEntry
      <3>1. c[a] \in Entry
        BY <2>2 DEF LevelOK, CacheMap
      <3>2. CASE c[a].modified
        <4>1. d[a] = [c[a] EXCEPT !.modified = FALSE] /\ u[a] = c[a].val
          BY <2>2, <3>2 DEF FlushedCache, FlushedTrie
        <4>2. c[a].val \in Account /\ ~c[a].deleted
          BY <2>2, <3>1, <3>2 DEF Entry, LevelOK, WellFormed
        <4>3. Loaded(u[a]) = c[a].val
          BY <4>1, <4>2 DEF Loaded
        <4>4. d[a] \in Entry /\ d[a].val = c[a].val /\ ~d[a].modified /\ ~d[a].deleted
          BY <3>1, <4>1, <4>2 DEF Entry
        <4> QED
          BY <2>2, <4>3, <4>4
      <3>3. CASE ~c[a].modified /\ c[a].deleted
        <4>1. d[a] = Clean(NewAccount) /\ u[a] = NoAccount
          BY <2>2, <3>3 DEF FlushedCache, FlushedTrie
        <4>2. c[a].val = NewAccount
          BY <2>2, <3>3 DEF LevelOK, WellFormed
        <4>3. Clean(NewAccount) # NoEntry
          BY NewAccountType, EntryTypes
        <4> QED
          BY <2>2, <4>1, <4>2, <4>3 DEF Clean, Loaded
      <3>4. CASE ~c[a].modified /\ ~c[a].deleted
        BY <2>2, <3>4 DEF FlushedCache, FlushedTrie
      <3> QED
        BY <3>2, <3>3, <3>4
    <2> QED
      BY <2>1, <2>2
  <1> HIDE DEF d, u
  <1>3. \A a \in Address : /\ d[a] = NoEntry <=> c[a] = NoEntry
                           /\ Lookup(d, u, a) = Lookup(c, t, a)
    BY <1>2 DEF Lookup
  <1>4. ASSUME NEW a \in Address \ Codeless
        PROVE  NeedsBody(Loaded(u[a])) /\ (d[a] # NoEntry => NeedsBody(d[a].val))
    BY <1>2 DEF TrieOK, LevelOK
  <1>5. WellFormed(d) /\ EmptiesTouched(d, ts)
    BY <1>2 DEF WellFormed, EmptiesTouched
  <1>6. CleanEntriesMatch(d, u)
    BY <1>2 DEF CleanEntriesMatch, LevelOK
  <1>7. TrieOK(u) /\ LevelOK(d, u, ts)
    BY <1>1, <1>4, <1>5, <1>6 DEF TrieOK, LevelOK
  <1> QED
    BY <1>3, <1>7 DEF d, u
-----------------------------------------------------------------------------
(* The storage tries.                                                      *)

\* The storage tries stay good when every account that has one is still in
\* the cache with its state root.
LEMMA StoragesKept ==
  ASSUME NEW sts, NEW c, NEW t, NEW d, NEW u, StoragesOK(sts, c, t),
         \A a \in Address : sts[a] # NoTrie =>
           /\ d[a] # NoEntry
           /\ a \in Destructible \union Codeless
                \/ Lookup(d, u, a).stateRoot = Lookup(c, t, a).stateRoot
  PROVE  StoragesOK(sts, d, u)
  BY DEF StoragesOK

\* With no storage tries there is nothing to show.
LEMMA NoStoragesOK ==
  ASSUME NEW c, NEW t
  PROVE  StoragesOK(NoStorageTries, c, t)
  BY DEF StoragesOK, NoStorageTries

\* _modifyContractStorage writes the account it read, with a new state root.
LEMMA ModifyIsPut ==
  ASSUME NEW a \in Address, NEW storage, Parts, ModifyContractStorage(a, storage)
  PROVE  /\ Put(a, [Lookup(cache, trie, a) EXCEPT !.stateRoot = storage])
         /\ storageTries' = [storageTries EXCEPT ![a] = storage]
  <1>1. storageTries[a] = NoTrie \/ cache[a] # NoEntry
    BY DEF Parts, StoragesOK
  <1>2. CASE storageTries[a] = NoTrie
    <2>1. /\ LoadedEntry(cache, trie, a) # NoEntry
          /\ LoadedEntry(cache, trie, a).val = Lookup(cache, trie, a)
      BY LevelLookup DEF Parts
    <2> QED
      BY <1>2, <2>1 DEF ModifyContractStorage
  <1>3. CASE storageTries[a] # NoTrie
    <2>1. cache[a].val = Lookup(cache, trie, a)
      BY <1>1, <1>3 DEF Lookup
    <2> QED
      BY <1>1, <1>3, <2>1 DEF ModifyContractStorage
  <1> QED
    BY <1>2, <1>3
-----------------------------------------------------------------------------
(* Every step keeps the invariant.                                         *)

LEMMA PutStep ==
  ASSUME NEW a \in Address, NEW account \in Account, Parts, Put(a, account),
         a \in Codeless \/ NeedsBody(account),
         \/ storageTries' = [storageTries EXCEPT ![a] = account.stateRoot]
         \/ /\ storageTries' = storageTries
            /\ \/ a \in Destructible
               \/ account.stateRoot = Lookup(cache, trie, a).stateRoot
  PROVE  Parts'
  <1> DEFINE d == [cache EXCEPT ![a] = Modified(account)]
  <1>1. /\ cache' = d /\ touched' = touched \union {a}
        /\ UNCHANGED <<trie, trieStack, cacheStack, touchedStack,
                       checkpointCount, heldRoots>>
    BY DEF Put, stacks
  <1>2. LevelOK(d, trie, touched \union {a})
    BY LevelPut DEF Parts
  <1>3. \A x \in Address : d[x] = IF x = a THEN Modified(account) ELSE cache[x]
    BY DEF Parts, LevelOK, CacheMap
  <1>4. Modified(account) # NoEntry /\ Modified(account).val = account
    BY EntryTypes DEF Modified
  <1>5. \A x \in Address : Lookup(d, trie, x) = IF x = a THEN account
                                                ELSE Lookup(cache, trie, x)
    BY <1>3, <1>4 DEF Lookup
  <1>6. account.stateRoot \in Storage
    BY DEF Account
  <1> HIDE DEF d
  <1>7. StoragesOK(storageTries', d, trie)
    <2>1. CASE storageTries' = [storageTries EXCEPT ![a] = account.stateRoot]
      BY <2>1, <1>3, <1>4, <1>5, <1>6 DEF Parts, StoragesOK
    <2>2. CASE /\ storageTries' = storageTries
               /\ \/ a \in Destructible
                  \/ account.stateRoot = Lookup(cache, trie, a).stateRoot
      BY <2>2, <1>3, <1>4, <1>5 DEF Parts, StoragesOK
    <2> QED
      BY <2>1, <2>2
  <1> QED
    BY <1>1, <1>2, <1>7 DEF Parts

LEMMA SettleStep ==
  ASSUME Parts, NEW c, NEW ts, LevelOK(c, trie, ts), trieStack # <<>>,
         Settle(c, trie), touched' = ts, UNCHANGED heldRoots,
         storageTries' = NoStorageTries \/ (c = cache /\ UNCHANGED storageTries)
  PROVE  Parts'
  <1>1. checkpointCount \in Nat \ {0}
    BY EmptySeq DEF Parts, SavedOK
  <1>2. cacheStack # <<>> /\ touchedStack # <<>>
    BY <1>1, EmptySeq DEF Parts, SavedOK
  <1>3. /\ Pop(trieStack) \in Seq(Trie)
        /\ Pop(cacheStack) \in Seq(CacheMap)
        /\ Pop(touchedStack) \in Seq(SUBSET Address)
        /\ Len(Pop(trieStack)) = checkpointCount - 1
        /\ Len(Pop(cacheStack)) = checkpointCount - 1
        /\ Len(Pop(touchedStack)) = checkpointCount - 1
    BY <1>2, PopFacts DEF Parts, SavedOK
  <1>4. \A i \in 1..(checkpointCount - 1) :
          /\ Pop(trieStack)[i] = trie
          /\ LevelOK(Pop(cacheStack)[i], trie, Pop(touchedStack)[i])
    <2> SUFFICES ASSUME NEW i \in 1..(checkpointCount - 1)
                 PROVE  /\ Pop(trieStack)[i] = trie
                        /\ LevelOK(Pop(cacheStack)[i], trie, Pop(touchedStack)[i])
      OBVIOUS
    <2>1. /\ Pop(trieStack)[i] = trieStack[i]
          /\ Pop(cacheStack)[i] = cacheStack[i]
          /\ Pop(touchedStack)[i] = touchedStack[i]
      BY <1>2, <1>3, PopFacts DEF Parts, SavedOK
    <2>2. i \in 1..checkpointCount
      BY <1>1
    <2>3. trieStack[i] = trie /\ LevelOK(cacheStack[i], trie, touchedStack[i])
      BY <2>2 DEF Parts, SavedOK
    <2> QED
      BY <2>1, <2>3
  <1>5. /\ checkpointCount' = checkpointCount - 1
        /\ checkpointCount' \in Nat
        /\ trieStack' = Pop(trieStack)
        /\ cacheStack' = Pop(cacheStack)
        /\ touchedStack' = Pop(touchedStack)
    BY <1>1 DEF Settle
  <1>6. CASE checkpointCount' = 0
    <2>1. trie' = FlushedTrie(c, trie) /\ cache' = FlushedCache(c)
      BY <1>6 DEF Settle
    <2>2. TrieOK(trie') /\ LevelOK(cache', trie', touched')
      BY <2>1, LevelFlush DEF Parts
    <2>3. SavedOK(trieStack', cacheStack', touchedStack', checkpointCount', trie')
      BY <1>3, <1>5, <1>6 DEF SavedOK
    <2>4. StoragesOK(storageTries', cache', trie')
      <3>1. CASE storageTries' = NoStorageTries
        BY <3>1, NoStoragesOK
      <3>2. CASE c = cache /\ UNCHANGED storageTries
        <4>1. /\ LevelOK(cache, trie, ts) /\ TrieOK(trie)
              /\ StoragesOK(storageTries, cache, trie)
          BY <3>2 DEF Parts
        <4>2. \A a \in Address :
                /\ cache'[a] = NoEntry <=> cache[a] = NoEntry
                /\ Lookup(cache', trie', a) = Lookup(cache, trie, a)
          BY <2>1, <3>2, <4>1, LevelFlush
        <4> QED
          BY <3>2, <4>1, <4>2 DEF StoragesOK
      <3> QED
        BY <3>1, <3>2
    <2> QED
      BY <2>2, <2>3, <2>4 DEF Parts
  <1>7. CASE checkpointCount' # 0
    <2>1. trie' = trie /\ cache' = c
      BY <1>7 DEF Settle
    <2>2. SavedOK(trieStack', cacheStack', touchedStack', checkpointCount', trie')
      BY <1>3, <1>4, <1>5, <2>1 DEF SavedOK
    <2>3. StoragesOK(storageTries', cache', trie')
      BY <2>1, NoStoragesOK DEF Parts
    <2> QED
      BY <2>1, <2>2, <2>3 DEF Parts
  <1> QED
    BY <1>6, <1>7

LEMMA CheckpointStep ==
  ASSUME Parts, Checkpoint
  PROVE  Parts'
  <1>1. /\ trieStack \in Seq(Trie) /\ trie \in Trie
        /\ cacheStack \in Seq(CacheMap) /\ cache \in CacheMap
        /\ touchedStack \in Seq(SUBSET Address) /\ touched \in SUBSET Address
        /\ checkpointCount \in Nat
        /\ Len(trieStack) = checkpointCount
        /\ Len(cacheStack) = checkpointCount
        /\ Len(touchedStack) = checkpointCount
    BY DEF Parts, SavedOK, LevelOK, TrieOK
  <1>2. /\ trieStack' = Append(trieStack, trie)
        /\ cacheStack' = Append(cacheStack, cache)
        /\ touchedStack' = Append(touchedStack, touched)
        /\ checkpointCount' = checkpointCount + 1
        /\ UNCHANGED <<trie, cache, touched, storageTries, heldRoots>>
    BY DEF Checkpoint
  <1>3. /\ trieStack' \in Seq(Trie) /\ Len(trieStack') = checkpointCount'
        /\ cacheStack' \in Seq(CacheMap) /\ Len(cacheStack') = checkpointCount'
        /\ touchedStack' \in Seq(SUBSET Address)
        /\ Len(touchedStack') = checkpointCount'
    BY <1>1, <1>2, PushFacts
  <1>4. \A i \in 1..checkpointCount' :
          /\ trieStack'[i] = trie
          /\ LevelOK(cacheStack'[i], trie, touchedStack'[i])
    <2> SUFFICES ASSUME NEW i \in 1..checkpointCount'
                 PROVE  /\ trieStack'[i] = trie
                        /\ LevelOK(cacheStack'[i], trie, touchedStack'[i])
      OBVIOUS
    <2>1. CASE i = checkpointCount + 1
      <3>1. trieStack'[i] = trie /\ cacheStack'[i] = cache /\ touchedStack'[i] = touched
        BY <1>1, <1>2, <2>1, PushFacts
      <3> QED
        BY <3>1 DEF Parts
    <2>2. CASE i # checkpointCount + 1
      <3>1. i \in 1..checkpointCount
        BY <1>1, <1>2, <2>2
      <3>2. /\ trieStack'[i] = trieStack[i]
            /\ cacheStack'[i] = cacheStack[i]
            /\ touchedStack'[i] = touchedStack[i]
        BY <1>1, <1>2, <3>1, PushFacts
      <3> QED
        BY <3>1, <3>2 DEF Parts, SavedOK
    <2> QED
      BY <2>1, <2>2
  <1> QED
    BY <1>1, <1>2, <1>3, <1>4 DEF Parts, SavedOK

\* What a revert goes back to is a level of the invariant.
LEMMA TopLevel ==
  ASSUME Parts, touchedStack # <<>>
  PROVE  /\ checkpointCount \in Nat \ {0}
         /\ trieStack # <<>> /\ cacheStack # <<>>
         /\ Top(trieStack) = trie
         /\ Top(cacheStack) = cacheStack[checkpointCount]
         /\ LevelOK(Top(cacheStack), trie, Top(touchedStack))
  <1>1. checkpointCount \in Nat \ {0}
    BY EmptySeq DEF Parts, SavedOK
  <1>2. trieStack # <<>> /\ cacheStack # <<>>
    BY <1>1, EmptySeq DEF Parts, SavedOK
  <1>3. /\ Top(trieStack) = trieStack[checkpointCount]
        /\ Top(cacheStack) = cacheStack[checkpointCount]
        /\ Top(touchedStack) = touchedStack[checkpointCount]
    BY <1>2, PopFacts DEF Parts, SavedOK
  <1>4. checkpointCount \in 1..checkpointCount
    BY <1>1
  <1> QED
    BY <1>1, <1>2, <1>3, <1>4 DEF Parts, SavedOK

\* getAccount.
LEMMA LoadStep ==
  ASSUME NEW a \in Address, Parts, GetAccount(a)
  PROVE  Parts'
  <1> DEFINE d == [x \in Address |-> IF x \in {a} THEN LoadedEntry(cache, trie, x)
                                                  ELSE cache[x]]
  <1>1. cache \in CacheMap
    BY DEF Parts, LevelOK
  <1>2. cache' = d
    BY <1>1 DEF GetAccount, CacheMap
  <1>3. LevelOK(d, trie, touched)
    BY LevelLoad, ZenonT(30) DEF Parts
  <1>4. ASSUME NEW x \in Address
        PROVE  /\ cache[x] # NoEntry => d[x] # NoEntry
               /\ Lookup(d, trie, x) = Lookup(cache, trie, x)
    BY LevelLookup DEF Parts, Lookup, LoadedEntry
  <1> HIDE DEF d
  <1>5. StoragesOK(storageTries, d, trie)
    BY <1>4 DEF Parts, StoragesOK
  <1>6. UNCHANGED <<trie, trieStack, cacheStack, touched, touchedStack,
                    checkpointCount, storageTries, heldRoots>>
    BY DEF GetAccount, stacks
  <1> QED
    BY <1>2, <1>3, <1>5, <1>6 DEF Parts

LEMMA CleanupStep ==
  ASSUME Parts, CleanupTouchedAccounts
  PROVE  Parts'
  <1> DEFINE d == [x \in Address |-> IF x \in touched THEN LoadedEntry(cache, trie, x)
                                                      ELSE cache[x]]
             e == cache'
  <1>1. LevelOK(d, trie, touched)
    BY LevelLoad DEF Parts
  <1>2. /\ e = [x \in Address |->
                  IF x \notin touched THEN cache[x]
                  ELSE IF IsEmpty(x) THEN Deleted
                  ELSE LoadedEntry(cache, trie, x)]
        /\ touched' = {}
        /\ UNCHANGED <<trie, trieStack, cacheStack, touchedStack,
                       checkpointCount, storageTries, heldRoots>>
    BY DEF CleanupTouchedAccounts, stacks
  <1>3. Deleted \in Entry /\ Deleted # NoEntry
    BY NewAccountType, EntryTypes
  <1>4. ASSUME NEW x \in Address
        PROVE  \/ /\ x \in touched /\ Lookup(cache, trie, x).body = EmptyBody
                  /\ e[x] = Deleted
               \/ e[x] = d[x]
    BY <1>2 DEF IsEmpty
  <1>5. /\ Deleted.val = NewAccount /\ Deleted.deleted /\ ~Deleted.modified
        /\ NeedsBody(NewAccount)
    BY DEF Deleted, NeedsBody, NewAccount
  <1>6. ASSUME NEW x \in Address
        PROVE  /\ cache[x] # NoEntry => d[x] # NoEntry
               /\ x \in touched => d[x] # NoEntry
               /\ Lookup(d, trie, x) = Lookup(cache, trie, x)
    BY LevelLookup DEF Parts, Lookup, LoadedEntry
  <1> HIDE DEF d, e
  <1>7. e \in CacheMap
    <2>1. \A x \in Address : e[x] \in Entry \union {NoEntry}
      BY <1>1, <1>3, <1>4 DEF LevelOK, CacheMap
    <2> QED
      BY <1>2, <2>1 DEF CacheMap
  <1>8. WellFormed(e)
    BY <1>1, <1>4, <1>5 DEF LevelOK, WellFormed
  <1>9. CleanEntriesMatch(e, trie)
    BY <1>1, <1>4, <1>5 DEF LevelOK, CleanEntriesMatch
  <1>10. EmptiesTouched(e, {})
    <2> SUFFICES ASSUME NEW x \in Address, e[x] # NoEntry, e[x].modified,
                        e[x].val.body = EmptyBody
                 PROVE  FALSE
      BY DEF EmptiesTouched
    <2>1. e[x] = d[x] /\ ~(e[x] = Deleted)
      BY <1>4, <1>5
    <2>2. x \in touched
      BY <1>1, <2>1 DEF LevelOK, EmptiesTouched
    <2>3. Lookup(cache, trie, x).body = EmptyBody
      BY <1>6, <2>1 DEF Lookup
    <2> QED
      BY <1>2, <2>1, <2>2, <2>3 DEF IsEmpty
  <1>11. \A x \in Address \ Codeless : e[x] # NoEntry => NeedsBody(e[x].val)
    BY <1>1, <1>4, <1>5 DEF LevelOK
  <1>12. LevelOK(e, trie, {})
    BY <1>7, <1>8, <1>9, <1>10, <1>11 DEF LevelOK
  <1>13. StoragesOK(storageTries, e, trie)
    <2> SUFFICES ASSUME NEW x \in Address, storageTries[x] # NoTrie
                 PROVE  /\ e[x] # NoEntry
                        /\ x \in Destructible \union Codeless
                             \/ Lookup(e, trie, x).stateRoot
                                  = Lookup(cache, trie, x).stateRoot
      BY StoragesKept DEF Parts
    <2>1. cache[x] # NoEntry
      BY DEF Parts, StoragesOK
    <2>2. CASE e[x] = d[x]
      BY <1>6, <2>1, <2>2 DEF Lookup
    <2>3. CASE Lookup(cache, trie, x).body = EmptyBody /\ e[x] = Deleted
      <3>1. x \in Codeless \/ NeedsBody(Lookup(cache, trie, x))
        BY LevelLookup DEF Parts
      <3>2. Lookup(e, trie, x) = NewAccount
        BY <1>3, <1>5, <2>3 DEF Lookup
      <3> QED
        BY <1>3, <2>3, <3>1, <3>2 DEF NeedsBody, NewAccount
    <2> QED
      BY <1>4, <2>2, <2>3
  <1> QED
    BY <1>2, <1>12, <1>13 DEF Parts, e

\* The flush of getStateRoot and of a setStateRoot that fails.
LEMMA FlushStep ==
  ASSUME Parts, Flush, checkpointCount = 0,
         UNCHANGED <<stacks, touched, storageTries>>,
         heldRoots' \subseteq heldRoots \union {trie'}
  PROVE  Parts'
  <1>1. trie' = FlushedTrie(cache, trie) /\ cache' = FlushedCache(cache)
    BY DEF Flush
  <1>2. /\ TrieOK(trie') /\ LevelOK(cache', trie', touched)
        /\ \A a \in Address : /\ cache'[a] = NoEntry <=> cache[a] = NoEntry
                              /\ Lookup(cache', trie', a) = Lookup(cache, trie, a)
    BY <1>1, LevelFlush DEF Parts
  <1>3. StoragesOK(storageTries, cache', trie')
    BY <1>2, StoragesKept DEF Parts, StoragesOK
  <1>4. SavedOK(trieStack, cacheStack, touchedStack, checkpointCount, trie')
    BY DEF Parts, SavedOK
  <1>5. \A root \in heldRoots' : TrieOK(root)
    BY <1>2 DEF Parts
  <1> QED
    BY <1>2, <1>3, <1>4, <1>5 DEF Parts, stacks

LEMMA SetStateRootStep ==
  ASSUME Parts, NEW root \in heldRoots \union {EmptyTrie}, SetStateRoot(root)
  PROVE  Parts'
  <1>1. TrieOK(EmptyTrie)
    BY DEF TrieOK, EmptyTrie, Trie, Stored, Loaded, NeedsBody, NewAccount
  <1>2. TrieOK(trie')
    BY <1>1 DEF SetStateRoot, Parts
  <1>3. LevelOK(EmptyCache, trie', touched)
    BY DEF Parts, LevelOK, EmptyCache, CacheMap, WellFormed, CleanEntriesMatch,
           EmptiesTouched
  <1>4. StoragesOK(NoStorageTries, EmptyCache, trie')
    BY NoStoragesOK
  <1>5. SavedOK(trieStack, cacheStack, touchedStack, checkpointCount, trie')
    BY DEF SetStateRoot, Parts, SavedOK
  <1> QED
    BY <1>2, <1>3, <1>4, <1>5 DEF Parts, SetStateRoot, stacks

LEMMA GenesisStep ==
  ASSUME Parts, GenerateGenesis
  PROVE  Parts'
  <1>1. [NewAccount EXCEPT !.body = GenesisBody]
          = [body |-> GenesisBody, stateRoot |-> EmptyStorage]
    BY DEF NewAccount
  <1>2. \A a \in Address : /\ a \notin GenesisAddress => trie'[a] = trie[a]
                           /\ a \in GenesisAddress =>
                                trie'[a] = [body |-> GenesisBody,
                                            stateRoot |-> EmptyStorage]
    BY <1>1 DEF GenerateGenesis
  <1>3. [body |-> GenesisBody, stateRoot |-> EmptyStorage] \in Account
    BY NewAccountType DEF Account
  <1>4. trie' \in Trie
    BY <1>2, <1>3 DEF GenerateGenesis, Trie, Stored, Parts, TrieOK
  <1>5. TrieOK(trie')
    BY <1>2, <1>3, <1>4 DEF TrieOK, Parts, Loaded, NeedsBody
  <1>6. LevelOK(cache, trie', touched)
    BY <1>2 DEF Parts, LevelOK, CleanEntriesMatch
  <1>7. StoragesOK(storageTries, cache, trie')
    BY DEF Parts, StoragesOK, Lookup
  <1>8. SavedOK(trieStack, cacheStack, touchedStack, checkpointCount, trie')
    BY DEF GenerateGenesis, Parts, SavedOK
  <1> QED
    BY <1>5, <1>6, <1>7, <1>8 DEF Parts, GenerateGenesis, stacks

LEMMA InitParts == Init => Parts
  <1> SUFFICES ASSUME Init PROVE Parts
    OBVIOUS
  <1>1. TrieOK(trie)
    BY DEF Init, TrieOK, EmptyTrie, Trie, Stored, Loaded, NeedsBody, NewAccount
  <1>2. LevelOK(cache, trie, touched)
    BY DEF Init, LevelOK, EmptyCache, CacheMap, WellFormed, CleanEntriesMatch,
           EmptiesTouched
  <1>3. SavedOK(trieStack, cacheStack, touchedStack, checkpointCount, trie)
    BY EmptySeq DEF Init, SavedOK
  <1>4. StoragesOK(storageTries, cache, trie)
    BY NoStoragesOK DEF Init
  <1> QED
    BY <1>1, <1>2, <1>3, <1>4 DEF Init, Parts

LEMMA NextParts == Parts /\ [Next]_vars => Parts'
  <1> SUFFICES ASSUME Parts, [Next]_vars PROVE Parts'
    OBVIOUS
  <1>1. ASSUME NEW a \in Address, GetAccount(a) PROVE Parts'
    BY <1>1, LoadStep
  <1>2. ASSUME NEW a \in Address, NEW b \in Body, PutAccount(a, b) PROVE Parts'
    <2> DEFINE old == Lookup(cache, trie, a)
               new == [old EXCEPT !.body = b]
    <2>1. old \in Account /\ (a \in Codeless \/ NeedsBody(old))
      BY LevelLookup DEF Parts
    <2>2. new \in Account /\ new.body = b /\ new.stateRoot = old.stateRoot
      BY <2>1 DEF Account
    <2>3. /\ b = EmptyBody => old.stateRoot = EmptyStorage \/ a \in Codeless
          /\ Put(a, new) /\ storageTries' = storageTries
      BY <1>2 DEF PutAccount
    <2>4. a \in Codeless \/ NeedsBody(new)
      BY <2>2, <2>3 DEF NeedsBody
    <2> HIDE DEF new
    <2> QED
      BY <2>2, <2>3, <2>4, PutStep
  <1>3. ASSUME NEW a \in Address, DestroyAccount(a) PROVE Parts'
    <2>1. NeedsBody(NewAccount)
      BY DEF NeedsBody, NewAccount
    <2> QED
      BY <1>3, <2>1, NewAccountType, PutStep DEF DestroyAccount
  <1>4. ASSUME NEW a \in Address, NEW storage \in Storage,
               ModifyContractStorage(a, storage),
               \/ storage = EmptyStorage
               \/ Lookup(cache, trie, a).body # EmptyBody
               \/ a \in Codeless
        PROVE  Parts'
    <2> DEFINE old == Lookup(cache, trie, a)
               new == [old EXCEPT !.stateRoot = storage]
    <2>1. old \in Account
      BY LevelLookup DEF Parts
    <2>2. new \in Account /\ new.body = old.body /\ new.stateRoot = storage
      BY <2>1 DEF Account
    <2>3. Put(a, new) /\ storageTries' = [storageTries EXCEPT ![a] = storage]
      BY <1>4, ModifyIsPut
    <2>4. a \in Codeless \/ NeedsBody(new)
      BY <1>4, <2>2 DEF NeedsBody
    <2> HIDE DEF new
    <2> QED
      BY <2>2, <2>3, <2>4, PutStep
  <1>5. ASSUME NEW a \in Address, NEW s \in Slot, NEW v \in Val,
               PutContractStorage(a, s, v)
        PROVE  Parts'
    <2>1. StorageTrie(a) \in Storage
      <3>1. Lookup(cache, trie, a).stateRoot \in Storage
        BY LevelLookup DEF Parts, Account
      <3>2. storageTries[a] \in Storage \union {NoTrie}
        BY DEF Parts, StoragesOK
      <3> QED
        BY <3>1, <3>2 DEF StorageTrie
    <2>2. [StorageTrie(a) EXCEPT ![s] = v] \in Storage
      BY <2>1 DEF Storage
    <2> QED
      BY <1>4, <1>5, <2>2 DEF PutContractStorage
  <1>6. ASSUME NEW a \in Address, ClearContractStorage(a) PROVE Parts'
    BY <1>4, <1>6, NewAccountType DEF ClearContractStorage
  <1>7. CASE Checkpoint
    BY <1>7, CheckpointStep
  <1>8. CASE Commit
    <2>1. LevelOK(cache, trie, touched)
      BY DEF Parts
    <2> QED
      BY <1>8, <2>1, SettleStep DEF Commit
  <1>9. CASE Revert
    <2> DEFINE kept == touched \intersect {Ripemd}
               ts == Top(touchedStack) \union kept
    <2>1. touchedStack # <<>>
      BY <1>9 DEF Revert
    <2>2. /\ trieStack # <<>> /\ Top(trieStack) = trie
          /\ LevelOK(Top(cacheStack), trie, Top(touchedStack))
      BY <2>1, TopLevel
    <2>3. LevelOK(Top(cacheStack), trie, ts)
      BY <2>2, LevelTouch
    <2> QED
      BY <1>9, <2>2, <2>3, SettleStep DEF Revert
  <1>10. CASE GetStateRoot
    BY <1>10, FlushStep DEF GetStateRoot
  <1>11. ASSUME NEW root \in heldRoots \union {EmptyTrie}, SetStateRoot(root)
         PROVE  Parts'
    BY <1>11, SetStateRootStep
  <1>12. CASE SetUnknownStateRoot
    BY <1>12, FlushStep DEF SetUnknownStateRoot
  <1>13. CASE CleanupTouchedAccounts
    BY <1>13, CleanupStep
  <1>14. CASE GenerateGenesis
    BY <1>14, GenesisStep
  <1>15. CASE UNCHANGED vars
    BY <1>15 DEF vars, Parts
  <1> QED
    BY <1>1, <1>2, <1>3, <1>5, <1>6, <1>7, <1>8, <1>9, <1>10, <1>11, <1>12,
       <1>13, <1>14, <1>15 DEF Next

\* The inductive invariant: the checkpoint stacks agree, clean cache entries
\* match the trie, storage tries match their accounts and no empty account
\* escapes the touched set, at every level a revert can return to.
THEOREM Invariance == Spec => []IInv
  <1>1. Init => Parts
    BY InitParts
  <1>2. Parts /\ [Next]_vars => Parts'
    BY NextParts
  <1> QED
    BY <1>1, <1>2, IInvParts, PTL DEF Spec

\* Every variable keeps its type (the fields of class StateManager and Cache).
THEOREM TypeCorrectness == Spec => []TypeOK
  BY Invariance, PTL DEF IInv

\* Checkpoints of the trie, the cache and the touched set open and close
\* together, and the trie is not written while one is open.
THEOREM Alignment == Spec => []CheckpointsAligned
  BY Invariance, PTL DEF IInv

\* A clean cache entry is what the trie holds, at every level.
THEOREM Coherence == Spec => []CacheCoherent
  BY Invariance, PTL DEF IInv

\* A cached storage trie is the one its account's state root names.
THEOREM StorageCoherence == Spec => []StorageCoherent
  BY Invariance, PTL DEF IInv

\* No account without a body has storage, at any level, in the trie or in a root
\* that is held (cleanupTouchedAccounts deletes empty accounts).
THEOREM EmptiesHaveNoStorage == Spec => []StorageNeedsBody
  BY Invariance, PTL DEF IInv

\* No empty account left by a caller is missing from the touched set.
THEOREM EmptiesAreTouched == Spec => []NoEmptyEscapes
  BY Invariance, PTL DEF IInv
-----------------------------------------------------------------------------
(* Action properties.                                                      *)

\* Flushing twice is flushing once: what is left of the cache is clean.
LEMMA FlushTwice ==
  ASSUME NEW c, NEW t, NEW ts, LevelOK(c, t, ts), TrieOK(t)
  PROVE  FlushedTrie(FlushedCache(c), FlushedTrie(c, t)) = FlushedTrie(c, t)
  <1> DEFINE d == FlushedCache(c)
             u == FlushedTrie(c, t)
  <1>1. ASSUME NEW a \in Address
        PROVE  d[a] = NoEntry \/ (~d[a].modified /\ ~d[a].deleted)
    <2>1. CASE c[a] = NoEntry
      BY <2>1 DEF FlushedCache
    <2>2. CASE c[a] # NoEntry /\ c[a].modified
      <3>1. c[a] \in Entry /\ ~c[a].deleted
        BY <2>2 DEF LevelOK, CacheMap, WellFormed
      <3>2. d[a] = [c[a] EXCEPT !.modified = FALSE]
        BY <2>2 DEF FlushedCache
      <3> HIDE DEF d
      <3> QED
        BY <3>1, <3>2 DEF Entry
    <2>3. CASE c[a] # NoEntry /\ ~c[a].modified
      BY <2>3 DEF FlushedCache, Clean
    <2> QED
      BY <2>1, <2>2, <2>3
  <1>2. u \in [Address -> Stored]
    BY FlushType DEF LevelOK, TrieOK, Trie
  <1>3. \A a \in Address : FlushedTrie(d, u)[a] = u[a]
    <2> HIDE DEF d, u
    <2> QED
      BY <1>1 DEF FlushedTrie
  <1>4. FlushedTrie(d, u) = [a \in Address |-> FlushedTrie(d, u)[a]]
    <2> HIDE DEF d, u
    <2> QED
      BY DEF FlushedTrie
  <1>5. u = [a \in Address |-> u[a]]
    <2> HIDE DEF u
    <2> QED
      BY <1>2
  <1> HIDE DEF d, u
  <1>6. FlushedTrie(d, u) = u
    BY <1>3, <1>4, <1>5
  <1> QED
    BY <1>6 DEF d, u

\* Settling keeps the world that is being settled.
LEMMA SettleWorld ==
  ASSUME Parts, NEW c, NEW ts, LevelOK(c, trie, ts), Settle(c, trie)
  PROVE  /\ World' = FlushedTrie(c, trie)
         /\ checkpointCount' = 0 => trie' = World'
  <1>1. CASE checkpointCount' = 0
    <2>1. trie' = FlushedTrie(c, trie) /\ cache' = FlushedCache(c)
      BY <1>1 DEF Settle
    <2> QED
      BY <2>1, FlushTwice DEF World, Parts
  <1>2. CASE checkpointCount' # 0
    BY <1>2 DEF Settle, World
  <1> QED
    BY <1>1, <1>2

\* The last checkpoint's commit or revert makes the trie the world.
THEOREM Durability == Spec => DurableAtLastCheckpoint
  <1>1. ASSUME Parts, [Next]_vars, checkpointCount = 1, checkpointCount' = 0
        PROVE  trie' = World'
    <2>1. Commit \/ Revert
      BY <1>1 DEF Next, vars, GetAccount, PutAccount, DestroyAccount, Put,
                  PutContractStorage, ClearContractStorage, ModifyContractStorage,
                  Checkpoint, GetStateRoot, SetStateRoot, SetUnknownStateRoot,
                  CleanupTouchedAccounts, GenerateGenesis, stacks
    <2>2. CASE Commit
      <3>1. LevelOK(cache, trie, touched) /\ Settle(cache, trie)
        BY <1>1, <2>2 DEF Parts, Commit
      <3> QED
        BY <1>1, <3>1, SettleWorld
    <2>3. CASE Revert
      <3>1. touchedStack # <<>> /\ Settle(Top(cacheStack), Top(trieStack))
        BY <2>3 DEF Revert
      <3>2. /\ LevelOK(Top(cacheStack), trie, Top(touchedStack))
            /\ Settle(Top(cacheStack), trie)
        BY <1>1, <3>1, TopLevel
      <3> QED
        BY <1>1, <3>2, SettleWorld
    <2> QED
      BY <2>1, <2>2, <2>3
  <1>2. ASSUME Parts, [Next]_vars
        PROVE  [checkpointCount = 1 /\ checkpointCount' = 0 => trie' = World']_vars
    BY <1>1, <1>2
  <1>3. Spec => []Parts
    BY InitParts, NextParts, PTL DEF Spec
  <1> QED
    BY <1>2, <1>3, PTL DEF Spec, DurableAtLastCheckpoint

\* Only cleanupTouchedAccounts makes the RIPEMD precompile untouched.
THEOREM RipemdTouched == Spec => RipemdStaysTouched
  <1>1. ASSUME [Next]_vars, Ripemd \in touched, Ripemd \notin touched'
        PROVE  touched' = {} /\ UNCHANGED checkpointCount
    <2>1. CleanupTouchedAccounts
      BY <1>1 DEF Next, vars, GetAccount, PutAccount, DestroyAccount, Put,
                  PutContractStorage, ClearContractStorage, ModifyContractStorage,
                  Checkpoint, Commit, Revert, GetStateRoot, SetStateRoot,
                  SetUnknownStateRoot, GenerateGenesis
    <2> QED
      BY <2>1 DEF CleanupTouchedAccounts, stacks
  <1>2. ASSUME [Next]_vars
        PROVE  [(Ripemd \in touched /\ Ripemd \notin touched') =>
                  touched' = {} /\ UNCHANGED checkpointCount]_vars
    BY <1>1, <1>2
  <1> QED
    BY <1>2, PTL DEF Spec, RipemdStaysTouched
-----------------------------------------------------------------------------
(* StateManager implements WorldState.  Three assumptions keep out what the  *)
(* code does not get right (see the findings): accounts overwritten while    *)
(* their storage trie is cached, storage under an account with no body, and  *)
(* genesis accounts written past the cache.                                  *)

Sound == Destructible = {} /\ Codeless = {} /\ GenesisAddress = {}

LEMMA WorldFacts ==
  ASSUME Parts, Sound
  PROVE  /\ World \in Trie
         /\ \A a \in Address : Lookup(cache, trie, a) = Loaded(World[a])
         /\ \A a \in Address : StorageTrie(a) = Loaded(World[a]).stateRoot
  <1>1. World \in Trie
    BY FlushType DEF World, Parts, LevelOK, TrieOK
  <1>2. ASSUME NEW a \in Address
        PROVE  Lookup(cache, trie, a) = Loaded(World[a])
    <2>1. CASE cache[a] = NoEntry
      BY <2>1 DEF World, FlushedTrie, Lookup
    <2>2. CASE cache[a] # NoEntry /\ cache[a].modified
      <3>1. cache[a].val \in Account
        BY <2>2 DEF Parts, LevelOK, CacheMap, Entry
      <3> QED
        BY <2>2, <3>1 DEF World, FlushedTrie, Lookup, Loaded
    <2>3. CASE cache[a] # NoEntry /\ ~cache[a].modified /\ cache[a].deleted
      BY <2>3 DEF World, FlushedTrie, Lookup, Loaded, Parts, LevelOK, WellFormed
    <2>4. CASE cache[a] # NoEntry /\ ~cache[a].modified /\ ~cache[a].deleted
      BY <2>4 DEF World, FlushedTrie, Lookup, Parts, LevelOK, CleanEntriesMatch,
                  Sound
    <2> QED
      BY <2>1, <2>2, <2>3, <2>4
  <1>3. \A a \in Address : StorageTrie(a) = Lookup(cache, trie, a).stateRoot
    BY DEF StorageTrie, Parts, StoragesOK, Sound
  <1> QED
    BY <1>1, <1>2, <1>3

LEMMA SavedWorldsFacts ==
  ASSUME Parts
  PROVE  /\ SavedWorlds \in Seq(Trie)
         /\ Len(SavedWorlds) = checkpointCount
         /\ \A i \in 1..checkpointCount :
              SavedWorlds[i] = FlushedTrie(cacheStack[i], trie)
  <1>1. /\ checkpointCount \in Nat
        /\ Len(cacheStack) = checkpointCount
        /\ \A i \in 1..checkpointCount :
             /\ trieStack[i] = trie
             /\ FlushedTrie(cacheStack[i], trie) \in Trie
    BY FlushType DEF Parts, SavedOK, TrieOK, LevelOK
  <1>2. SavedWorlds = [i \in 1..checkpointCount |-> FlushedTrie(cacheStack[i], trie)]
    BY <1>1 DEF SavedWorlds
  <1>3. SavedWorlds \in [1..checkpointCount -> Trie]
    BY <1>1, <1>2
  <1> QED
    BY <1>1, <1>2, <1>3

\* What commit and revert do to the world.
LEMMA CommitWorld ==
  ASSUME Parts, Commit
  PROVE  World' = World
  <1>1. LevelOK(cache, trie, touched) /\ Settle(cache, trie)
    BY DEF Commit, Parts
  <1> QED
    BY <1>1, SettleWorld DEF World

LEMMA RevertWorld ==
  ASSUME Parts, Revert
  PROVE  World' = Top(SavedWorlds)
  <1>1. touchedStack # <<>>
    BY DEF Revert
  <1>2. /\ checkpointCount \in Nat \ {0}
        /\ Top(trieStack) = trie
        /\ Top(cacheStack) = cacheStack[checkpointCount]
        /\ LevelOK(Top(cacheStack), trie, Top(touchedStack))
        /\ Settle(Top(cacheStack), trie)
    BY <1>1, TopLevel DEF Revert
  <1>3. World' = FlushedTrie(cacheStack[checkpointCount], trie)
    BY <1>2, SettleWorld
  <1> QED
    BY <1>2, <1>3, SavedWorldsFacts DEF Top

\* A revert restores the world of its checkpoint, a commit keeps the current
\* one, with everything the rest of the VM may do in between.
THEOREM Restoration == Spec => RevertRestores
  <1>1. Parts /\ [Next]_vars =>
          [/\ Revert => World' = Top(SavedWorlds)
           /\ Commit => World' = World]_vars
    BY CommitWorld, RevertWorld
  <1>2. Spec => []Parts
    BY InitParts, NextParts, PTL DEF Spec
  <1> QED
    BY <1>1, <1>2, PTL DEF Spec, RevertRestores

\* A write of one account is a write of the ledger.
LEMMA PutWorld ==
  ASSUME Parts, NEW a \in Address, NEW account \in Account, Put(a, account)
  PROVE  World' = [World EXCEPT ![a] = account] /\ UNCHANGED <<SavedWorlds, heldRoots>>
  <1>1. cache \in CacheMap
    BY DEF Parts, LevelOK
  <1>2. Modified(account) # NoEntry /\ Modified(account).modified
          /\ Modified(account).val = account
    BY EntryTypes DEF Modified
  <1>3. \A x \in Address : cache'[x] = IF x = a THEN Modified(account) ELSE cache[x]
    BY <1>1 DEF Put, CacheMap
  <1>4. trie' = trie
    BY DEF Put
  <1>5. World' = [World EXCEPT ![a] = account]
    BY <1>2, <1>3, <1>4 DEF World, FlushedTrie
  <1>6. UNCHANGED <<SavedWorlds, heldRoots>>
    BY DEF Put, stacks, SavedWorlds
  <1> QED
    BY <1>5, <1>6

\* Entries loaded from the trie do not change the ledger.
LEMMA LoadWorld ==
  ASSUME NEW c, NEW d, NEW t,
         \A a \in Address : d[a] = c[a] \/ (c[a] = NoEntry /\ d[a] = LoadedEntry(c, t, a))
  PROVE  FlushedTrie(d, t) = FlushedTrie(c, t)
  <1>1. ASSUME NEW a \in Address
        PROVE  FlushedTrie(d, t)[a] = FlushedTrie(c, t)[a]
    <2>1. CASE d[a] = c[a]
      BY <2>1 DEF FlushedTrie
    <2>2. CASE c[a] = NoEntry /\ d[a] = Clean(Loaded(t[a]))
      <3>1. ~d[a].modified /\ ~d[a].deleted
        BY <2>2 DEF Clean
      <3> QED
        BY <2>2, <3>1 DEF FlushedTrie
    <2> QED
      BY <2>1, <2>2 DEF LoadedEntry
  <1> QED
    BY <1>1 DEF FlushedTrie

LEMMA SettleSaved ==
  ASSUME Parts, NEW c, Settle(c, trie), touchedStack # <<>>
  PROVE  /\ SavedWorlds # <<>>
         /\ SavedWorlds' = Ledger!Pop(SavedWorlds)
  <1>1. /\ checkpointCount \in Nat \ {0} /\ cacheStack # <<>> /\ trieStack # <<>>
        /\ cacheStack \in Seq(CacheMap) /\ Len(cacheStack) = checkpointCount
        /\ trieStack \in Seq(Trie) /\ Len(trieStack) = checkpointCount
    BY TopLevel DEF Parts, SavedOK
  <1>2. /\ SavedWorlds \in Seq(Trie) /\ Len(SavedWorlds) = checkpointCount
        /\ SavedWorlds # <<>>
    BY <1>1, SavedWorldsFacts, EmptySeq
  <1>3. /\ Pop(SavedWorlds) \in Seq(Trie)
        /\ Len(Pop(SavedWorlds)) = checkpointCount - 1
        /\ \A i \in 1..(checkpointCount - 1) : Pop(SavedWorlds)[i] = SavedWorlds[i]
    BY <1>2, PopFacts
  <1>4. /\ cacheStack' = Pop(cacheStack) /\ trieStack' = Pop(trieStack)
        /\ Len(Pop(cacheStack)) = checkpointCount - 1
        /\ \A i \in 1..(checkpointCount - 1) :
             /\ Pop(cacheStack)[i] = cacheStack[i]
             /\ Pop(trieStack)[i] = trieStack[i]
    <2>1. cacheStack' = Pop(cacheStack) /\ trieStack' = Pop(trieStack)
      BY DEF Settle
    <2>2. /\ Len(Pop(cacheStack)) = Len(cacheStack) - 1
          /\ \A i \in 1..Len(Pop(cacheStack)) : Pop(cacheStack)[i] = cacheStack[i]
      BY <1>1, PopFacts
    <2>3. /\ Len(Pop(trieStack)) = Len(trieStack) - 1
          /\ \A i \in 1..Len(Pop(trieStack)) : Pop(trieStack)[i] = trieStack[i]
      BY <1>1, PopFacts
    <2> QED
      BY <1>1, <2>1, <2>2, <2>3
  <1>5. SavedWorlds' = [i \in 1..(checkpointCount - 1) |->
                          FlushedTrie(cacheStack[i], trieStack[i])]
    BY <1>4 DEF SavedWorlds
  <1>6. \A i \in 1..(checkpointCount - 1) :
          SavedWorlds[i] = FlushedTrie(cacheStack[i], trieStack[i])
    BY <1>1 DEF SavedWorlds
  <1>7. Pop(SavedWorlds) = [i \in 1..(checkpointCount - 1) |-> Pop(SavedWorlds)[i]]
    BY <1>3, LenProperties
  <1>8. SavedWorlds' = Pop(SavedWorlds)
    BY <1>3, <1>5, <1>6, <1>7
  <1> QED
    BY <1>2, <1>8 DEF Pop, Ledger!Pop

LEMMA CheckpointWorld ==
  ASSUME Parts, Checkpoint
  PROVE  /\ SavedWorlds' = Append(SavedWorlds, World)
         /\ UNCHANGED <<World, heldRoots>>
  <1>1. /\ cacheStack \in Seq(CacheMap) /\ cache \in CacheMap
        /\ trieStack \in Seq(Trie) /\ trie \in Trie
        /\ checkpointCount \in Nat
        /\ Len(cacheStack) = checkpointCount /\ Len(trieStack) = checkpointCount
    BY DEF Parts, SavedOK, LevelOK, TrieOK
  <1>2. World \in Trie
    BY <1>1, FlushType DEF World
  <1>3. /\ cacheStack' = Append(cacheStack, cache)
        /\ trieStack' = Append(trieStack, trie)
        /\ UNCHANGED <<trie, cache, heldRoots>>
    BY DEF Checkpoint
  <1>4. /\ Len(cacheStack') = checkpointCount + 1
        /\ cacheStack'[checkpointCount + 1] = cache
        /\ trieStack'[checkpointCount + 1] = trie
        /\ \A i \in 1..checkpointCount : /\ cacheStack'[i] = cacheStack[i]
                                         /\ trieStack'[i] = trieStack[i]
    BY <1>1, <1>3, PushFacts
  <1>5. SavedWorlds' = [i \in 1..(checkpointCount + 1) |->
                          FlushedTrie(cacheStack'[i], trieStack'[i])]
    BY <1>4 DEF SavedWorlds
  <1>6. /\ SavedWorlds \in Seq(Trie) /\ Len(SavedWorlds) = checkpointCount
        /\ \A i \in 1..checkpointCount :
             SavedWorlds[i] = FlushedTrie(cacheStack[i], trieStack[i])
    BY <1>1, SavedWorldsFacts DEF SavedWorlds
  <1> DEFINE new == Append(SavedWorlds, World)
  <1>7. /\ new \in Seq(Trie)
        /\ Len(new) = checkpointCount + 1
        /\ \A i \in 1..checkpointCount : new[i] = SavedWorlds[i]
        /\ new[checkpointCount + 1] = World
    BY <1>2, <1>6, PushFacts
  <1> HIDE DEF new
  <1>8. new = [i \in 1..(checkpointCount + 1) |-> new[i]]
    BY <1>7, LenProperties
  <1>9. \A i \in 1..(checkpointCount + 1) :
          new[i] = FlushedTrie(cacheStack'[i], trieStack'[i])
    BY <1>1, <1>4, <1>6, <1>7, SMTT(30) DEF World
  <1>10. SavedWorlds' = new
    BY <1>5, <1>8, <1>9
  <1> QED
    BY <1>3, <1>10 DEF new, World

LEMMA InitLedger == Init => Ledger!Init
  <1> SUFFICES ASSUME Init PROVE Ledger!Init
    OBVIOUS
  <1>1. World = [a \in Address |-> NoAccount]
    BY DEF Init, World, FlushedTrie, EmptyCache, EmptyTrie
  <1>2. SavedWorlds = <<>>
    <2>1. SavedWorlds \in Seq(Trie) /\ Len(SavedWorlds) = 0
      BY InitParts, SavedWorldsFacts DEF Init
    <2> QED
      BY <2>1, EmptySeq
  <1> QED
    BY <1>1, <1>2 DEF Init, Ledger!Init

\* The same operators, under the two modules' names.
LEMMA SameOperators ==
  /\ \A stored : Ledger!Loaded(stored) = Loaded(stored)
  /\ Ledger!EmptyStorage = EmptyStorage
  /\ Ledger!NewAccount = NewAccount
  BY DEF Ledger!Loaded, Loaded, Ledger!EmptyStorage, EmptyStorage,
         Ledger!NewAccount, NewAccount

LEMMA NextLedger ==
  ASSUME Sound, Parts, Parts', [Next]_vars
  PROVE  [Ledger!Next]_(Ledger!vars)
  <1> DEFINE Step == [Ledger!Next]_(Ledger!vars)
  <1>0. ASSUME UNCHANGED <<World, SavedWorlds, heldRoots>> PROVE Step
    BY <1>0 DEF Ledger!vars
  <1>1. ASSUME NEW a \in Address, GetAccount(a) PROVE Step
    <2>1. \A x \in Address : \/ cache'[x] = cache[x]
                             \/ cache[x] = NoEntry /\ cache'[x] = LoadedEntry(cache, trie, x)
      BY <1>1 DEF GetAccount, Parts, LevelOK, CacheMap, LoadedEntry
    <2>2. World' = World
      BY <1>1, <2>1, LoadWorld, ZenonT(30) DEF World, GetAccount
    <2> QED
      BY <1>0, <1>1, <2>2 DEF GetAccount, stacks, SavedWorlds
  <1>2. ASSUME NEW a \in Address, NEW b \in Body, PutAccount(a, b) PROVE Step
    <2>1. Lookup(cache, trie, a) = Loaded(World[a]) /\ Lookup(cache, trie, a) \in Account
      BY WorldFacts, LevelLookup DEF Parts
    <2> DEFINE new == [Loaded(World[a]) EXCEPT !.body = b]
    <2>2. new \in Account
      BY <2>1 DEF Account
    <2>3. Put(a, new)
      BY <1>2, <2>1 DEF PutAccount
    <2>4. Ledger!SetBody(a, b)
      BY <2>2, <2>3, PutWorld, SameOperators DEF Ledger!SetBody, Ledger!Write
    <2> QED
      BY <2>4 DEF Ledger!Next
  <1>3. ASSUME NEW a \in Address, NEW s \in Slot, NEW v \in Val,
               PutContractStorage(a, s, v)
        PROVE  Step
    <2>1. /\ Lookup(cache, trie, a) = Loaded(World[a])
          /\ StorageTrie(a) = Loaded(World[a]).stateRoot
          /\ Loaded(World[a]) \in Account
      BY WorldFacts, LevelLookup DEF Parts
    <2> DEFINE storage == [StorageTrie(a) EXCEPT ![s] = v]
               new == [Loaded(World[a]) EXCEPT !.stateRoot = [@ EXCEPT ![s] = v]]
    <2>2. storage \in Storage
      BY <2>1 DEF Account, Storage
    <2>3. new = [Lookup(cache, trie, a) EXCEPT !.stateRoot = storage]
      BY <2>1 DEF Account
    <2>4. new \in Account
      BY <2>1, <2>2, <2>3 DEF Account
    <2>5. Put(a, new)
      BY <1>3, <2>3, ModifyIsPut DEF PutContractStorage
    <2>6. Ledger!SetSlot(a, s, v)
      BY <2>4, <2>5, PutWorld, SameOperators DEF Ledger!SetSlot, Ledger!Write
    <2> QED
      BY <2>6 DEF Ledger!Next
  <1>4. ASSUME NEW a \in Address, ClearContractStorage(a) PROVE Step
    <2>1. /\ Lookup(cache, trie, a) = Loaded(World[a])
          /\ Loaded(World[a]) \in Account
      BY WorldFacts, LevelLookup DEF Parts
    <2> DEFINE new == [Loaded(World[a]) EXCEPT !.stateRoot = EmptyStorage]
    <2>2. new \in Account
      BY <2>1, NewAccountType DEF Account
    <2>3. Put(a, new)
      BY <1>4, <2>1, ModifyIsPut DEF ClearContractStorage
    <2>4. Ledger!ClearStorage(a)
      BY <2>2, <2>3, PutWorld, SameOperators DEF Ledger!ClearStorage, Ledger!Write
    <2> QED
      BY <2>4 DEF Ledger!Next
  <1>5. CASE Checkpoint
    BY <1>5, CheckpointWorld DEF Ledger!Next, Ledger!Checkpoint
  <1>6. CASE Commit
    <2>1. touchedStack # <<>> /\ Settle(cache, trie)
      BY <1>6, EmptySeq DEF Commit, Parts, SavedOK
    <2>2. World' = World
      BY <1>6, CommitWorld
    <2>3. Ledger!Commit
      BY <1>6, <2>1, <2>2, SettleSaved DEF Commit, Ledger!Commit, Ledger!Pop
    <2> QED
      BY <2>3 DEF Ledger!Next
  <1>7. CASE Revert
    <2>1. touchedStack # <<>>
      BY <1>7 DEF Revert
    <2>2. Settle(Top(cacheStack), trie)
      BY <1>7, <2>1, TopLevel DEF Revert
    <2>4. World' = SavedWorlds[Len(SavedWorlds)]
      BY <1>7, RevertWorld DEF Top
    <2>5. Ledger!Revert
      BY <1>7, <2>1, <2>2, <2>4, SettleSaved DEF Revert, Ledger!Revert, Ledger!Pop
    <2> QED
      BY <2>5 DEF Ledger!Next
  <1>8. ASSUME checkpointCount = 0
        PROVE  SavedWorlds = <<>>
    BY <1>8, SavedWorldsFacts, EmptySeq
  <1>9. ASSUME Flush PROVE World' = World /\ trie' = World
    BY <1>9, FlushTwice DEF Flush, World, Parts
  <1>10. CASE GetStateRoot
    <2>1. Ledger!GetRoot
      BY <1>8, <1>9, <1>10 DEF GetStateRoot, stacks, SavedWorlds, Ledger!GetRoot
    <2> QED
      BY <2>1 DEF Ledger!Next
  <1>11. ASSUME NEW root \in heldRoots \union {EmptyTrie}, SetStateRoot(root)
         PROVE  Step
    <2>1. World' = root
      <3>1. trie' = root /\ cache' = EmptyCache /\ root \in Trie
        BY <1>11 DEF SetStateRoot, Parts, TrieOK
      <3>2. \A a \in Address : World'[a] = root[a]
        BY <3>1 DEF World, FlushedTrie, EmptyCache
      <3> QED
        BY <3>1, <3>2 DEF World, FlushedTrie, Trie
    <2>2. Ledger!SetRoot(root)
      BY <1>8, <1>11, <2>1 DEF SetStateRoot, stacks, SavedWorlds, Ledger!SetRoot
    <2> QED
      BY <2>2 DEF Ledger!Next, EmptyTrie
  <1>12. CASE SetUnknownStateRoot
    BY <1>0, <1>9, <1>12 DEF SetUnknownStateRoot, stacks, SavedWorlds
  <1>13. CASE CleanupTouchedAccounts
    <2> DEFINE swept == {a \in touched : IsEmpty(a)}
    <2>1. swept \in SUBSET Address
      BY DEF Parts, LevelOK
    <2>2. \A a \in swept : Loaded(World[a]).body = EmptyBody
      BY <2>1, WorldFacts DEF IsEmpty
    <2>3. Deleted # NoEntry /\ Deleted.deleted /\ ~Deleted.modified
      BY NewAccountType, EntryTypes DEF Deleted
    <2>4. ASSUME NEW a \in Address
          PROVE  World'[a] = IF a \in swept THEN NoAccount ELSE World[a]
      <3>1. CASE a \in swept
        <4>1. cache'[a] = Deleted
          BY <1>13, <3>1 DEF CleanupTouchedAccounts
        <4> QED
          BY <2>3, <3>1, <4>1 DEF World, FlushedTrie
      <3>2. CASE a \notin swept
        <4>1. \/ cache'[a] = cache[a]
              \/ cache[a] = NoEntry /\ cache'[a] = Clean(Loaded(trie[a]))
          BY <1>13, <3>2 DEF CleanupTouchedAccounts, LoadedEntry
        <4>2. trie' = trie
          BY <1>13 DEF CleanupTouchedAccounts
        <4>3. /\ ~Clean(Loaded(trie[a])).modified
              /\ ~Clean(Loaded(trie[a])).deleted
          BY DEF Clean
        <4> QED
          BY <3>2, <4>1, <4>2, <4>3 DEF World, FlushedTrie
      <3> QED
        BY <3>1, <3>2
    <2>5. World' = [a \in Address |-> IF a \in swept THEN NoAccount ELSE World[a]]
      BY <2>4 DEF World, FlushedTrie
    <2> HIDE DEF swept
    <2>6. Ledger!Sweep(swept)
      BY <1>13, <2>2, <2>5, SameOperators
         DEF Ledger!Sweep, CleanupTouchedAccounts, stacks, SavedWorlds
    <2> QED
      BY <2>1, <2>6 DEF Ledger!Next
  <1>14. CASE UNCHANGED vars
    BY <1>0, <1>14 DEF vars, World, SavedWorlds
  <1>15. ~GenerateGenesis /\ \A a \in Address : ~DestroyAccount(a)
    BY DEF Sound, GenerateGenesis, DestroyAccount
  <1> QED
    BY <1>1, <1>2, <1>3, <1>4, <1>5, <1>6, <1>7, <1>10, <1>11, <1>12, <1>13,
       <1>14, <1>15 DEF Next

\* Without destroyed, codeless and genesis accounts, every behaviour of the
\* state manager is a behaviour of the ledger.
THEOREM Refinement ==
  ASSUME Sound
  PROVE  Spec => ImplementsLedger
  <1>1. Init => Ledger!Init /\ Parts
    BY InitLedger, InitParts
  <1>2. Parts /\ [Next]_vars => Parts'
    BY NextParts
  <1>3. Parts /\ Parts' /\ [Next]_vars => [Ledger!Next]_(Ledger!vars)
    BY NextLedger
  <1> QED
    BY <1>1, <1>2, <1>3, PTL DEF Spec, ImplementsLedger, Ledger!Spec
=============================================================================
