------------------------------- MODULE Cache -------------------------------
(***************************************************************************)
(* The account cache, callback by callback: cache.ts with the operations   *)
(* of stateManager.ts that wait for the trie.  StateManager takes each of  *)
(* them as one step; here calls of one state manager may overlap, and the  *)
(* trie may fail.  No checkpoint is open, as getStateRoot and setStateRoot *)
(* demand.                                                                 *)
(*                                                                         *)
(* The tree of the cache is persistent, but the entries its versions hold  *)
(* are objects: a flush that walks through an older version marks as clean *)
(* the very entries the current one holds.  A version therefore maps keys  *)
(* to indices into entries; an index that no version in use has is free.   *)
(***************************************************************************)
EXTENDS Integers, Sequences, FiniteSetsExt

CONSTANTS
  Key,        \* addresses, in the order of the tree
  Account, Empty,
  Absent,     \* what the trie has where it has no account
  Start,      \* what it may have at first
  MaxCalls, MaxPuts   \* bounds

ASSUME CacheAssumption ==
  /\ Key \subseteq Nat \ {0}
  /\ Empty \in Account /\ Absent \notin Account
  /\ Start \subseteq Account \cup {Absent}

VARIABLES
  trie,       \* _trie: what its root stands for
  base,       \* what it stood for when the write under way began
  writes,     \* put and del of the trie, which do one after the other
  entries,    \* the entries of all versions of the tree in use
  cache,      \* _cache: the entry of a key, 0 if none
  touched,    \* _touched
  lookups,    \* getOrLoad, asked and not answered
  calls,      \* getAccount, getStateRoot, setStateRoot, cleanupTouchedAccounts
  puts,
  latest,     \* only for the properties: the account last put,
  overtaken,  \* the keys put while an older answer was on its way,
  unwritten,  \* those whose write failed,
  overlapped  \* and whether two flushes were under way at once

ghosts == <<latest, overtaken, unwritten, overlapped>>
vars == <<trie, base, writes, entries, cache, touched, lookups, calls, puts, ghosts>>

EmptyTrie == [k \in Key |-> Absent]
NoTree == [k \in Key |-> 0]
Read(value) == IF value = Absent THEN Empty ELSE value

Init ==
  /\ trie \in [Key -> Start]
  /\ base = trie
  /\ writes = <<>>
  /\ entries = <<>>
  /\ cache = NoTree
  /\ touched = {}
  /\ lookups = {}
  /\ calls = <<>>
  /\ puts = 0
  /\ latest = [k \in Key |-> Read(trie[k])]
  /\ overtaken = {}
  /\ unwritten = {}
  /\ overlapped = FALSE

----------------------------------------------------------------------------
(* The cache. *)

Entry(val, modified, deleted) == [val |-> val, modified |-> modified, deleted |-> deleted]

\* Cache._update: a new version of the tree, with a new entry
Held == {calls[c].tree[k] : c \in DOMAIN calls, k \in Key}
Update(k, entry) ==
  LET held == Held \cup {cache[n] : n \in Key \ {k}}
      id == CHOOSE n \in 1 .. Len(entries) + 1 :
              n \notin held /\ \A lower \in 1 .. n - 1 : lower \in held
  IN  /\ entries' = [n \in 1 .. Max({id, Len(entries)}) |->
                       IF n = id THEN entry ELSE IF n \in held THEN entries[n]
                       ELSE Entry(Empty, FALSE, FALSE)]
      /\ cache' = [cache EXCEPT ![k] = id]

\* Cache.lookup, then the trie
Found(k) == IF cache[k] # 0 THEN entries[cache[k]].val ELSE Read(trie[k])

\* Mutant: what is deleted is only forgotten.
ForgottenEntry == Entry(Empty, FALSE, FALSE)

\* Cache.del
DeletedEntry == Entry(Empty, FALSE, TRUE)

\* The answers under way that will change the cache at k when they arrive
Changing(l) == ~l.hit \/ calls[l.call].kind = "cleanup"
Late(k) == {l.key : l \in {a \in lookups : a.key = k /\ Changing(a)}}

Cleaning(c) == calls[c].kind = "cleanup" /\ calls[c].at = "waiting"
Flushing(c) == calls[c].at \in {"skipping", "writing"}

\* putAccount and touchAccount, of whoever has the turn
PutAccount(k, account) ==
  /\ puts < MaxPuts
  /\ puts' = puts + 1
  /\ Update(k, Entry(account, TRUE, FALSE))
  /\ touched' = touched \cup {k}
  /\ latest' = [latest EXCEPT ![k] = account]
  /\ overtaken' = overtaken \cup Late(k)
                    \cup (IF \E c \in DOMAIN calls : Cleaning(c) THEN {k} ELSE {})
  /\ UNCHANGED <<trie, base, writes, lookups, calls, unwritten, overlapped>>

----------------------------------------------------------------------------
(* Calls. *)

\* A call: where it is; the version of the tree it flushes, and how far it got;
\* the root setStateRoot was given; the keys a cleanup was asked for, and those
\* it waits for; the accounts there were when it began
NewCall(kind) ==
  [kind |-> kind, at |-> "waiting", tree |-> NoTree, key |-> 0, root |-> EmptyTrie,
   keys |-> {}, todo |-> {}, promised |-> NoTree, failed |-> FALSE]

Done(call) == [NewCall(call.kind) EXCEPT !.at = "done"]
\* Mutant: nobody is told.
Unanswered(call) == [call EXCEPT !.failed = TRUE]
Failed(call) == [Done(call) EXCEPT !.failed = TRUE]

Begin(call) == Len(calls) < MaxCalls /\ calls' = Append(calls, call)

\* getOrLoad: the account that is found now is answered later
Ask(keys) ==
  lookups' = lookups \cup {[call |-> Len(calls) + 1, key |-> k, hit |-> cache[k] # 0,
                            val |-> Found(k)] : k \in keys}

\* What is cached is answered on the next tick, and changes nothing
GetAccount(k) ==
  /\ Begin(IF cache[k] # 0 THEN Done(NewCall("get")) ELSE NewCall("get"))
  /\ Ask(IF cache[k] # 0 THEN {} ELSE {k})
  /\ UNCHANGED <<trie, base, writes, entries, cache, touched, puts, ghosts>>

\* All accounts are asked for at once
CleanupTouchedAccounts ==
  /\ touched # {}
  /\ Begin([NewCall("cleanup") EXCEPT !.keys = touched, !.todo = touched])
  /\ Ask(touched)
  /\ UNCHANGED <<trie, base, writes, entries, cache, touched, puts, ghosts>>

\* What an answer means to its call, and to the cache.  A cleanup that has
\* failed is over, but its other answers still delete accounts
Empties(l) == calls[l.call].kind = "cleanup" /\ l.val = Empty

Answer(l) ==
  LET call == calls[l.call]
      todo == call.todo \ {l.key}
      last == call.at = "waiting" /\ todo = {}
  IN  /\ lookups' = lookups \ {l}
      /\ calls' = [calls EXCEPT ![l.call] =
                     IF last THEN Done(call) ELSE [call EXCEPT !.todo = todo]]
      /\ touched' = IF last /\ call.kind = "cleanup" THEN {} ELSE touched
      /\ IF Empties(l) THEN Update(l.key, DeletedEntry)
         ELSE IF l.hit THEN UNCHANGED <<entries, cache>>
         ELSE Update(l.key, Entry(l.val, FALSE, FALSE))
      /\ overtaken' = overtaken \cup
           {a.key : a \in {b \in lookups \ {l} : b.key = l.key /\ Changing(b) /\ Empties(l)}}
      /\ UNCHANGED <<trie, base, writes, puts, latest, unwritten, overlapped>>

\* The trie fails: the first error ends a cleanup, which forgets all of touched
LoadFails(l) ==
  LET call == calls[l.call]
  IN  /\ ~l.hit
      /\ lookups' = lookups \ {l}
      /\ calls' = [calls EXCEPT ![l.call] = IF call.at = "waiting" THEN Failed(call) ELSE call]
      /\ touched' = IF Cleaning(l.call) THEN {} ELSE touched
      /\ UNCHANGED <<trie, base, writes, entries, cache, puts, ghosts>>

----------------------------------------------------------------------------
(* flush, of getStateRoot and setStateRoot. *)

\* Mutant: a key is left out.
BehindNext(tree, k) ==
  LET rest == {n \in Key : n > k + 1 /\ tree[n] # 0}
  IN  IF rest = {} THEN 0 ELSE Min(rest)

\* The iterator: the next key of its version of the tree, 0 behind the last
Behind(tree, k) ==
  LET rest == {n \in Key : n > k /\ tree[n] # 0}
  IN  IF rest = {} THEN 0 ELSE Min(rest)

\* A round of the loop at key k, for call c of list, when queue is to be
\* written: the entry is clean from now on, whatever becomes of the write
Visit(list, queue, c, k) ==
  LET id == list[c].tree[k]
      entry == entries[id]
      dirty == k # 0 /\ (entry.modified \/ entry.deleted)
  IN  /\ calls' = [list EXCEPT ![c].key = k,
                               ![c].at = IF dirty THEN "writing" ELSE "skipping"]
      /\ IF dirty
         THEN /\ entries' = [entries EXCEPT ![id] =
                               IF entry.modified THEN [entry EXCEPT !.modified = FALSE]
                               ELSE Entry(Empty, FALSE, FALSE)]
              /\ writes' = Append(queue, [call |-> c, key |-> k,
                                     val |-> IF entry.modified THEN entry.val ELSE Absent])
         ELSE entries' = entries /\ writes' = queue

\* The test of the loop, then its next round or its callback
Proceed(queue, c) ==
  LET next == Behind(calls[c].tree, calls[c].key)
  IN  IF calls[c].key # 0 /\ next # 0 THEN Visit(calls, queue, c, next)
      ELSE /\ calls' = [calls EXCEPT ![c] =
                          IF @.kind = "root" THEN Done(@) ELSE [@ EXCEPT !.at = "checking"]]
           /\ writes' = queue
           /\ UNCHANGED entries

\* getStateRoot, or setStateRoot with a root of the trie
Flush(call) ==
  /\ Len(calls) < MaxCalls
  /\ Visit(Append(calls, [call EXCEPT !.tree = cache, !.promised = latest]),
           writes, Len(calls) + 1, Behind(cache, 0))
  /\ base' = IF writes = <<>> THEN trie ELSE base
  /\ overlapped' = (overlapped \/ \E c \in DOMAIN calls : Flushing(c))
  /\ UNCHANGED <<trie, cache, touched, lookups, puts, latest, overtaken, unwritten>>

GetStateRoot == Flush(NewCall("root"))
SetStateRoot(root) == Flush([NewCall("reset") EXCEPT !.root = root])

\* The next tick, after an entry that needs no write
Skip(c) ==
  /\ calls[c].at = "skipping"
  /\ Proceed(writes, c)
  /\ base' = IF writes = <<>> THEN trie ELSE base
  /\ UNCHANGED <<trie, cache, touched, lookups, puts, ghosts>>

\* The write under way is answered, and the next one begins
Write ==
  LET write == Head(writes)
  IN  /\ writes # <<>>
      /\ trie' = [base EXCEPT ![write.key] = write.val]
      /\ base' = trie'
      /\ Proceed(Tail(writes), write.call)
      /\ unwritten' = unwritten \ {write.key}
      /\ UNCHANGED <<cache, touched, lookups, puts, latest, overtaken, overlapped>>

WriteFails ==
  LET write == Head(writes)
  IN  /\ writes # <<>>
      /\ writes' = Tail(writes)
      /\ base' = trie
      /\ calls' = [calls EXCEPT ![write.call] = Failed(@)]
      /\ unwritten' = unwritten \cup {write.key}
      /\ UNCHANGED <<trie, entries, cache, touched, lookups, puts, latest, overtaken,
                     overlapped>>

\* Mutant: what is cached stays.
Kept == cache
\* Cache.clear
Cleared == NoTree

\* setStateRoot, once checkRoot has found the root
EnterRoot(c) ==
  /\ calls[c].at = "checking"
  /\ trie' = calls[c].root
  /\ cache' = Cleared
  /\ calls' = [calls EXCEPT ![c] = Done(@)]
  /\ latest' = [k \in Key |-> Read(calls[c].root[k])]
  /\ overtaken' = IF \E d \in DOMAIN calls : Flushing(d) THEN Key
                  ELSE overtaken \cup UNION {Late(k) : k \in Key}
  /\ unwritten' = {}
  /\ UNCHANGED <<base, writes, entries, touched, lookups, puts, overlapped>>

\* The root is unknown, or the trie fails
RefuseRoot(c) ==
  /\ calls[c].at = "checking"
  /\ calls' = [calls EXCEPT ![c] = Failed(@)]
  /\ UNCHANGED <<trie, base, writes, entries, cache, touched, lookups, puts, ghosts>>

----------------------------------------------------------------------------

Callback ==
  \/ \E l \in lookups : Answer(l) \/ LoadFails(l)
  \/ \E c \in DOMAIN calls : Skip(c) \/ EnterRoot(c) \/ RefuseRoot(c)
  \/ Write
  \/ WriteFails

Next ==
  \/ \E k \in Key : GetAccount(k) \/ \E account \in Account : PutAccount(k, account)
  \/ CleanupTouchedAccounts
  \/ GetStateRoot
  \/ SetStateRoot(EmptyTrie)
  \/ Callback

Spec == Init /\ [][Next]_vars

----------------------------------------------------------------------------
(* Properties. *)

\* Whoever asks finds the account that was put last, in the cache or in the
\* trie, also while flushes are on their way through older versions of the
\* tree.  Only an answer that was under way when the account was put may hide
\* it (cache.ts getOrLoad, flush, _update; stateManager.ts setStateRoot).
FindsLatest == \A k \in Key \ overtaken : Found(k) = latest[k]

\* When a flush is answered the trie has all that was put before it began,
\* whatever was put, asked or deleted meanwhile - unless a write of it failed
\* before, which leaves it marked as clean, or two flushes overlap (cache.ts
\* flush).
FlushIsComplete ==
  [][\A c \in DOMAIN calls :
       /\ Flushing(c) /\ ~Flushing(c)' /\ ~calls'[c].failed
       /\ ~overlapped
       => \A k \in Key \ (overtaken \cup unwritten) :
            latest[k] = calls[c].promised[k] => Read(trie'[k]) = latest[k]]_vars

Gone(k) ==
  \/ cache[k] # 0 /\ entries[cache[k]].deleted
  \/ trie[k] = Absent
  \/ \E n \in DOMAIN writes : writes[n].key = k /\ writes[n].val = Absent

\* When a cleanup is over, every empty account that was touched is gone or
\* going, unless an error ended it or it was put meanwhile; of two flushes the
\* one that began first may write it again (stateManager.ts
\* cleanupTouchedAccounts).
NoEmptyStays ==
  [][\A c \in DOMAIN calls :
       Cleaning(c) /\ ~Cleaning(c)' /\ ~calls'[c].failed /\ ~overlapped =>
         \A k \in calls[c].keys \ (overtaken' \cup unwritten') : latest[k] = Empty => Gone(k)']_vars

\* Nobody is forgotten: every call that is not over waits for an answer that is
\* still to come, so that it is answered if the trie answers, errors of the
\* trie, overlapping flushes and late answers or not (cache.ts flush;
\* stateManager.ts cleanupTouchedAccounts).
NobodyForgotten ==
  \A c \in DOMAIN calls :
    /\ calls[c].at = "waiting" =>
         /\ \E l \in lookups : l.call = c
         /\ \A k \in calls[c].todo : \E l \in lookups : l.call = c /\ l.key = k
    /\ calls[c].at = "writing" =>
         \E n \in DOMAIN writes : writes[n].call = c /\ writes[n].key = calls[c].key
=============================================================================
