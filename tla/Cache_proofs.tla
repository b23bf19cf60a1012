---------------------------- MODULE Cache_proofs ----------------------------
(***************************************************************************)
(* What the account cache promises to calls that overlap, proved for every *)
(* set of addresses and accounts and every number of calls: nobody waits   *)
(* for an answer that does not come, who asks finds what was put last, a   *)
(* flush that is answered is complete, and a cleanup leaves nothing empty. *)
(***************************************************************************)
EXTENDS Cache, Sums, SequenceTheorems, TLAPS

USE CacheAssumption

Value == Account \cup {Absent}
EntryType == [val : Account, modified : BOOLEAN, deleted : BOOLEAN]
WriteType == [call : Nat, key : Key, val : Value]
LookupType == [call : Nat, key : Key, hit : BOOLEAN, val : Account]
CallType ==
  [kind : {"get", "cleanup", "root", "reset"},
   at : {"waiting", "skipping", "writing", "checking", "done"},
   tree : [Key -> Nat], key : Nat, root : [Key -> Value],
   keys : SUBSET Key, todo : SUBSET Key,
   promised : [Key -> Account \cup {0}], failed : BOOLEAN]

Types ==
  /\ trie \in [Key -> Value] /\ base \in [Key -> Value]
  /\ writes \in Seq(WriteType)
  /\ entries \in Seq(EntryType)
  /\ cache \in [Key -> Nat]
  /\ touched \subseteq Key
  /\ lookups \subseteq LookupType
  /\ calls \in Seq(CallType)
  /\ latest \in [Key -> Account]
  /\ overtaken \subseteq Key

\* Every version in use has its entries, what is deleted reads as empty, and an
\* answer under way has somebody to go to.
Ids ==
  /\ \A k \in Key : cache[k] <= Len(entries)
  /\ \A c \in 1 .. Len(calls), k \in Key : calls[c].tree[k] <= Len(entries)
  /\ \A n \in 1 .. Len(entries) : entries[n].deleted => entries[n].val = Empty
  /\ \A l \in lookups : l.call \in 1 .. Len(calls)

\* A write is that of a flush that waits for it, and of no other.
WritesSound ==
  /\ \A n \in 1 .. Len(writes) :
       writes[n].call \in 1 .. Len(calls) /\ calls[writes[n].call].at = "writing"
  /\ \A m, n \in 1 .. Len(writes) : writes[m].call = writes[n].call => m = n

\* The last account put at k is in the cache or, when the cache knows nothing of
\* k, in the trie and in no flush; what will be cached when an answer comes is
\* that account.
Latest(k) ==
  /\ cache[k] # 0 => entries[cache[k]].val = latest[k]
  /\ cache[k] = 0 =>
       /\ Read(trie[k]) = latest[k]
       /\ writes # <<>> => Read(base[k]) = latest[k]
       /\ \A n \in 1 .. Len(writes) : writes[n].key # k
       /\ \A c \in 1 .. Len(calls) : Flushing(c) => calls[c].tree[k] = 0
  /\ \A l \in lookups : l.key = k /\ Changing(l) => l.val = latest[k]
AllLatest == \A k \in Key \ overtaken : Latest(k)

IInv == Types /\ Ids /\ WritesSound /\ AllLatest /\ NobodyForgotten
-----------------------------------------------------------------------------
(* Sequences. *)

LEMMA Appended ==
  ASSUME NEW S, NEW s \in Seq(S), NEW x \in S
  PROVE  /\ Append(s, x) \in Seq(S) /\ Len(Append(s, x)) = Len(s) + 1
         /\ \A i \in 1 .. Len(s) : Append(s, x)[i] = s[i]
         /\ Append(s, x)[Len(s) + 1] = x
         /\ Append(s, x) # <<>>
OBVIOUS

LEMMA Rest ==
  ASSUME NEW S, NEW s \in Seq(S), s # <<>>
  PROVE  /\ Tail(s) \in Seq(S) /\ Len(s) \in Nat \ {0} /\ Len(Tail(s)) = Len(s) - 1
         /\ Head(s) = s[1] /\ s[1] \in S
         /\ \A i \in 1 .. Len(s) - 1 : Tail(s)[i] = s[i + 1]
OBVIOUS

LEMMA Replaced ==
  ASSUME NEW S, NEW s \in Seq(S), NEW c \in 1 .. Len(s), NEW x \in S
  PROVE  /\ [s EXCEPT ![c] = x] \in Seq(S) /\ Len([s EXCEPT ![c] = x]) = Len(s)
         /\ \A i \in 1 .. Len(s) \ {c} : [s EXCEPT ![c] = x][i] = s[i]
         /\ [s EXCEPT ![c] = x][c] = x
OBVIOUS
-----------------------------------------------------------------------------
(* What the operators of the model do. *)

\* Calls begin and end as calls.
LEMMA CallTypes ==
  /\ NoTree \in [Key -> Nat]
  /\ EmptyTrie \in [Key -> Value]
  /\ \A kind \in {"get", "cleanup", "root", "reset"} :
       /\ NewCall(kind) \in CallType
       /\ NewCall(kind).at = "waiting" /\ NewCall(kind).tree = NoTree
       /\ NewCall(kind).todo = {} /\ NewCall(kind).kind = kind
  /\ \A call \in CallType :
       /\ Done(call) \in CallType /\ Failed(call) \in CallType
       /\ Done(call).kind = call.kind /\ Failed(call).kind = call.kind
       /\ Done(call).at = "done" /\ Failed(call).at = "done"
       /\ Done(call).tree = NoTree /\ Failed(call).tree = NoTree
       /\ ~Done(call).failed
<1>1. NoTree \in [Key -> Nat]
  BY DEF NoTree
<1>2. EmptyTrie \in [Key -> Value]
  BY DEF EmptyTrie, Value
<1>3. NoTree \in [Key -> Account \cup {0}]
  BY DEF NoTree
<1>4. \A kind \in {"get", "cleanup", "root", "reset"} :
       /\ NewCall(kind) \in CallType
       /\ NewCall(kind).at = "waiting" /\ NewCall(kind).tree = NoTree
       /\ NewCall(kind).todo = {} /\ NewCall(kind).kind = kind /\ ~NewCall(kind).failed
  BY <1>1, <1>2, <1>3 DEF NewCall, CallType
<1>5. \A call \in CallType :
        /\ call.kind \in {"get", "cleanup", "root", "reset"}
        /\ [call EXCEPT !.at = "done"] \in CallType
        /\ [call EXCEPT !.at = "done"].kind = call.kind
        /\ [call EXCEPT !.at = "done"].at = "done"
        /\ [call EXCEPT !.at = "done"].tree = call.tree
        /\ [call EXCEPT !.at = "done"].failed = call.failed
        /\ [call EXCEPT !.failed = TRUE] \in CallType
        /\ [call EXCEPT !.failed = TRUE].kind = call.kind
        /\ [call EXCEPT !.failed = TRUE].at = call.at
        /\ [call EXCEPT !.failed = TRUE].tree = call.tree
  BY DEF CallType
<1>6. \A call \in CallType :
        /\ Done(call) \in CallType /\ Done(call).kind = call.kind
        /\ Done(call).at = "done" /\ Done(call).tree = NoTree /\ ~Done(call).failed
  <2> SUFFICES ASSUME NEW call \in CallType
               PROVE  /\ Done(call) \in CallType /\ Done(call).kind = call.kind
                      /\ Done(call).at = "done" /\ Done(call).tree = NoTree /\ ~Done(call).failed
    OBVIOUS
  <2>1. PICK new : new = NewCall(call.kind)
    OBVIOUS
  <2>2. new \in CallType /\ new.tree = NoTree /\ new.kind = call.kind /\ ~new.failed
    BY ZenonT(40), <1>4, <1>5, <2>1
  <2>3. Done(call) = [new EXCEPT !.at = "done"]
    BY <2>1 DEF Done
  <2>4. /\ [new EXCEPT !.at = "done"] \in CallType
        /\ [new EXCEPT !.at = "done"].kind = new.kind
        /\ [new EXCEPT !.at = "done"].at = "done"
        /\ [new EXCEPT !.at = "done"].tree = new.tree
        /\ [new EXCEPT !.at = "done"].failed = new.failed
    BY <2>2 DEF CallType
  <2> QED BY <2>2, <2>3, <2>4
<1>7. \A call \in CallType :
        /\ Failed(call) \in CallType /\ Failed(call).kind = call.kind
        /\ Failed(call).at = "done" /\ Failed(call).tree = NoTree
  <2> SUFFICES ASSUME NEW call \in CallType
               PROVE  /\ Failed(call) \in CallType /\ Failed(call).kind = call.kind
                      /\ Failed(call).at = "done" /\ Failed(call).tree = NoTree
    OBVIOUS
  <2>1. PICK over : over = Done(call)
    OBVIOUS
  <2>2. Failed(call) = [over EXCEPT !.failed = TRUE]
    BY <2>1 DEF Failed
  <2>3. over \in CallType /\ over.kind = call.kind /\ over.at = "done" /\ over.tree = NoTree
    BY <1>6, <2>1
  <2> HIDE DEF CallType
  <2> QED BY ZenonT(40), <1>5, <2>2, <2>3
<1> QED BY <1>1, <1>2, <1>4, <1>6, <1>7

\* What the trie has for an account reads as an account.
LEMMA ReadType ==
  ASSUME NEW v \in Value
  PROVE  Read(v) \in Account
BY DEF Read, Value

\* A new entry is one that no version in use has, and these keep theirs.
LEMMA Updates ==
  ASSUME Types, Ids, NEW k \in Key, NEW entry \in EntryType,
         entry.deleted => entry.val = Empty, Update(k, entry)
  PROVE  /\ entries' \in Seq(EntryType) /\ Len(entries) <= Len(entries')
         /\ cache' \in [Key -> Nat]
         /\ cache'[k] \in 1 .. Len(entries') /\ entries'[cache'[k]] = entry
         /\ \A n \in Key \ {k} : /\ cache'[n] = cache[n]
                                 /\ cache[n] # 0 => entries'[cache[n]] = entries[cache[n]]
         /\ \A c \in 1 .. Len(calls), n \in Key : calls[c].tree[n] # 0 =>
               entries'[calls[c].tree[n]] = entries[calls[c].tree[n]]
         /\ \A n \in 1 .. Len(entries') : entries'[n].deleted => entries'[n].val = Empty
         /\ \A n \in Key \ {k} : cache'[k] # cache[n]
         /\ \A c \in 1 .. Len(calls), n \in Key : cache'[k] # calls[c].tree[n]
         /\ \A n \in 1 .. Len(entries') :
              \/ entries'[n] = entry \/ ~entries'[n].deleted
              \/ n \in 1 .. Len(entries) /\ entries'[n] = entries[n]
<1> DEFINE held == Held \cup {cache[n] : n \in Key \ {k}}
           free(n) == n \notin held /\ \A lower \in 1 .. n - 1 : lower \in held
           len == Len(entries)
           id == CHOOSE n \in 1 .. len + 1 : free(n)
           blank == Entry(Empty, FALSE, FALSE)
           top == Max({id, len})
<1>1. /\ len \in Nat /\ DOMAIN calls = 1 .. Len(calls)
      /\ cache \in [Key -> Nat] /\ \A n \in 1 .. len : entries[n] \in EntryType
  BY DEF Types
<1>2. \A n \in held : n \in 0 .. len
  <2>1. \A c \in 1 .. Len(calls) : calls[c].tree \in [Key -> Nat]
    <3>1. \A c \in 1 .. Len(calls) : calls[c] \in CallType
      BY DEF Types
    <3>2. \A call \in CallType : call.tree \in [Key -> Nat]
      BY DEF CallType
    <3> QED BY <3>1, <3>2
  <2>2. \A n \in Held : \E c \in 1 .. Len(calls), m \in Key : n = calls[c].tree[m]
    BY <1>1 DEF Held
  <2>3. \A n \in Held : n \in 0 .. len
    <3> SUFFICES ASSUME NEW n \in Held PROVE n \in 0 .. len
      OBVIOUS
    <3>0. PICK c \in 1 .. Len(calls), m \in Key : n = calls[c].tree[m]
      BY ONLY <2>2, n \in Held
    <3>1. calls[c].tree[m] \in Nat
      <4>1. calls[c].tree \in [Key -> Nat]
        BY ONLY <2>1, c \in 1 .. Len(calls)
      <4> QED BY ONLY <4>1, m \in Key
    <3>2. calls[c].tree[m] <= len
      BY DEF Ids
    <3> QED BY ONLY <1>1, <3>0, <3>1, <3>2
  <2>4. \A n \in Key : cache[n] \in 0 .. len
    BY <1>1 DEF Ids
  <2> QED BY ONLY <2>3, <2>4
<1>3. \E n \in 1 .. len + 1 : free(n)
  <2> DEFINE Free == {n \in 1 .. len + 1 : n \notin held}
  <2>1. Free \in SUBSET Nat /\ Free # {}
    <3>1. len + 1 \in 1 .. len + 1 /\ len + 1 \notin 0 .. len
      BY <1>1
    <3>2. len + 1 \in Free
      BY <1>2, <3>1
    <3> QED BY <1>1, <3>2
  <2> HIDE DEF Free
  <2>2. PICK m \in Free : \A n \in Free : m <= n
    BY <2>1, Least
  <2>3. m \in 1 .. len + 1 /\ m \notin held
    BY <2>2 DEF Free
  <2>4. \A lower \in 1 .. m - 1 : lower \in held
    <3> SUFFICES ASSUME NEW lower \in 1 .. m - 1 PROVE lower \in held
      OBVIOUS
    <3>1. lower \in 1 .. len + 1 /\ ~(m <= lower)
      BY <1>1, <2>3
    <3> HIDE DEF held
    <3>2. lower \notin Free
      BY <2>2, <3>1
    <3> QED BY <3>1, <3>2 DEF Free
  <2> QED BY <2>3, <2>4
<1> HIDE DEF held
<1>4. id \in 1 .. len + 1 /\ id \notin held
  BY <1>3
<1>5. /\ entries' = [n \in 1 .. top |-> IF n = id THEN entry
                                        ELSE IF n \in held THEN entries[n] ELSE blank]
      /\ cache' = [cache EXCEPT ![k] = id]
  BY DEF Update, held
<1> HIDE DEF id
<1>6. top \in Nat /\ id <= top /\ len <= top /\ (top = id \/ top = len)
  BY <1>1, <1>4 DEF Max
<1> HIDE DEF top
<1>7. blank \in EntryType /\ ~blank.deleted
  BY DEF Entry, EntryType
<1> HIDE DEF blank
<1>8. \A n \in 1 .. top : n # id => n \in 1 .. len
  BY <1>1, <1>4, <1>6
<1>9. \A n \in 1 .. top : entries'[n] \in EntryType
  BY <1>1, <1>5, <1>7, <1>8
<1>10. entries' \in Seq(EntryType) /\ Len(entries') = top
  <2>1. entries' \in [1 .. top -> EntryType]
    BY <1>5, <1>9
  <2>2. entries' \in Seq(EntryType)
    BY <1>6, <2>1, SeqDef
  <2> QED BY <1>6, <2>1, <2>2
<1>11. \A n \in held : n # 0 => entries'[n] = entries[n]
  <2> SUFFICES ASSUME NEW n \in held, n # 0 PROVE entries'[n] = entries[n]
    OBVIOUS
  <2>1. n \in 1 .. top /\ n # id
    BY <1>2, <1>4, <1>6, <1>1
  <2> QED BY <1>5, <2>1
<1>12. (\A n \in Key \ {k} : cache[n] \in held)
        /\ \A c \in 1 .. Len(calls), n \in Key : calls[c].tree[n] \in held
  BY SMTT(30), <1>1 DEF held, Held
<1>13. \A n \in 1 .. top : entries'[n].deleted => entries'[n].val = Empty
  BY <1>5, <1>7, <1>8 DEF Ids
<1>14. cache'[k] = id /\ \A n \in Key \ {k} : cache'[n] = cache[n]
  BY <1>1, <1>5
<1>15. cache' \in [Key -> Nat] /\ id \in 1 .. top /\ entries'[id] = entry
  BY <1>1, <1>4, <1>5, <1>6
<1>16. /\ \A n \in Key \ {k} : cache'[k] # cache[n]
       /\ \A c \in 1 .. Len(calls), n \in Key : cache'[k] # calls[c].tree[n]
  BY <1>4, <1>12, <1>14
<1>17. \A n \in 1 .. top : \/ entries'[n] = entry \/ ~entries'[n].deleted
                           \/ n \in 1 .. len /\ entries'[n] = entries[n]
  BY <1>5, <1>7, <1>8
<1> QED BY <1>6, <1>10, <1>11, <1>12, <1>13, <1>14, <1>15, <1>16, <1>17

\* The iterator goes to the next key of its version, and leaves none out.
LEMMA BehindIsNext ==
  ASSUME NEW tree \in [Key -> Nat], NEW k \in Nat
  PROVE  \/ Behind(tree, k) = 0 /\ \A n \in Key : n > k => tree[n] = 0
         \/ /\ Behind(tree, k) \in Key /\ Behind(tree, k) > k
            /\ tree[Behind(tree, k)] # 0
            /\ \A n \in Key : n > k /\ n < Behind(tree, k) => tree[n] = 0
<1> DEFINE rest == {n \in Key : n > k /\ tree[n] # 0}
<1>1. CASE rest = {}
  <2>1. Behind(tree, k) = 0
    BY <1>1 DEF Behind
  <2>2. \A n \in Key : n > k => tree[n] = 0
    BY <1>1
  <2> QED BY <2>1, <2>2
<1>2. CASE rest # {}
  <2>1. rest \in SUBSET Nat
    OBVIOUS
  <2> DEFINE least(m) == \A n \in rest : m <= n
             m == CHOOSE n \in rest : least(n)
  <2>2. \E n \in rest : least(n)
    BY <1>2, <2>1, Least
  <2>3. m \in rest /\ least(m)
    BY <2>2
  <2>4. Behind(tree, k) = m
    BY <1>2 DEF Behind, Min
  <2> HIDE DEF m
  <2>5. \A n \in Key : n > k /\ n < m => tree[n] = 0
    <3> SUFFICES ASSUME NEW n \in Key, n > k, n < m PROVE tree[n] = 0
      OBVIOUS
    <3>1. n \notin rest
      BY <2>1, <2>3
    <3> QED BY <3>1
  <2> QED BY <2>3, <2>4, <2>5
<1> QED BY <1>1, <1>2

\* What the types say of one call, one write, one answer.
LEMMA Elements ==
  ASSUME Types
  PROVE  /\ Len(calls) \in Nat /\ Len(writes) \in Nat /\ Len(entries) \in Nat
         /\ DOMAIN calls = 1 .. Len(calls) /\ DOMAIN writes = 1 .. Len(writes)
         /\ \A c \in 1 .. Len(calls) :
              /\ calls[c] \in CallType /\ calls[c].tree \in [Key -> Nat]
              /\ calls[c].key \in Nat /\ calls[c].root \in [Key -> Value]
              /\ calls[c].todo \subseteq Key
         /\ \A n \in 1 .. Len(writes) :
              writes[n] \in WriteType /\ writes[n].key \in Key /\ writes[n].val \in Value
         /\ \A n \in 1 .. Len(entries) : entries[n] \in EntryType /\ entries[n].val \in Account
         /\ \A l \in lookups : l \in LookupType /\ l.key \in Key /\ l.val \in Account
<1>1. /\ \A c \in 1 .. Len(calls) : calls[c] \in CallType
      /\ \A n \in 1 .. Len(writes) : writes[n] \in WriteType
      /\ \A n \in 1 .. Len(entries) : entries[n] \in EntryType
      /\ \A l \in lookups : l \in LookupType
  BY DEF Types
<1>2. \A call \in CallType : /\ call.tree \in [Key -> Nat] /\ call.key \in Nat
                             /\ call.root \in [Key -> Value] /\ call.todo \subseteq Key
  BY DEF CallType
<1>3. \A w \in WriteType : w.key \in Key /\ w.val \in Value
  BY DEF WriteType
<1>4. \A entry \in EntryType : entry.val \in Account
  BY DEF EntryType
<1>5. \A l \in LookupType : l.key \in Key /\ l.val \in Account
  BY DEF LookupType
<1>6. /\ Len(calls) \in Nat /\ Len(writes) \in Nat /\ Len(entries) \in Nat
      /\ DOMAIN calls = 1 .. Len(calls) /\ DOMAIN writes = 1 .. Len(writes)
  BY DEF Types
<1> QED BY <1>1, <1>2, <1>3, <1>4, <1>5, <1>6

\* What a round of the loop, or its end, does to the flush c of list; queue is
\* what is to be written but for it.
Moved(list, queue, c) ==
  /\ calls' \in Seq(CallType) /\ Len(calls') = Len(list)
  /\ \A d \in 1 .. Len(list) \ {c} : calls'[d] = list[d]
  /\ calls'[c].kind = list[c].kind
  /\ calls'[c].at \in {"skipping", "writing", "checking", "done"}
  /\ calls'[c].at \in {"skipping", "writing"} => calls'[c].tree = list[c].tree
  /\ calls'[c].tree \in {list[c].tree, NoTree}
  /\ entries' \in Seq(EntryType) /\ Len(entries') = Len(entries)
  /\ \A n \in 1 .. Len(entries) : /\ entries'[n].val = entries[n].val
                                  /\ entries'[n].deleted => entries'[n].val = Empty
  /\ \/ calls'[c].at # "writing" /\ writes' = queue
     \/ /\ calls'[c].at = "writing"
        /\ \E w \in WriteType : /\ w.call = c /\ w.key = calls'[c].key
                                /\ list[c].tree[w.key] # 0
                                /\ writes' = Append(queue, w)

LEMMA Visits ==
  ASSUME Types, Ids, NEW list \in Seq(CallType), NEW queue \in Seq(WriteType),
         NEW c \in 1 .. Len(list), NEW k \in Key \cup {0},
         k # 0 => list[c].tree[k] \in 1 .. Len(entries),
         Visit(list, queue, c, k)
  PROVE  Moved(list, queue, c)
<1> DEFINE id == list[c].tree[k]
           entry == entries[id]
           dirty == k # 0 /\ (entry.modified \/ entry.deleted)
           at == IF dirty THEN "writing" ELSE "skipping"
           call == [list[c] EXCEPT !.key = k, !.at = at]
           clean == IF entry.modified THEN [entry EXCEPT !.modified = FALSE]
                    ELSE Entry(Empty, FALSE, FALSE)
           w == [call |-> c, key |-> k, val |-> IF entry.modified THEN entry.val ELSE Absent]
<1>1. /\ calls' = [list EXCEPT ![c].key = k, ![c].at = at]
      /\ dirty => entries' = [entries EXCEPT ![id] = clean] /\ writes' = Append(queue, w)
      /\ ~dirty => entries' = entries /\ writes' = queue
  BY DEF Visit
<1>2. list[c] \in CallType /\ k \in Nat /\ Len(list) \in Nat /\ c \in Nat
  OBVIOUS
<1>3. /\ call \in CallType /\ call.kind = list[c].kind /\ call.tree = list[c].tree
      /\ call.at = at /\ call.key = k
  BY <1>2 DEF CallType
<1>4. calls' = [list EXCEPT ![c] = call]
  BY <1>1, <1>2
<1> HIDE DEF call
<1>5. /\ calls' \in Seq(CallType) /\ Len(calls') = Len(list)
      /\ \A d \in 1 .. Len(list) \ {c} : calls'[d] = list[d]
      /\ calls'[c] = call
  BY <1>3, <1>4, Replaced
<1>6. entries \in Seq(EntryType) /\ \A n \in 1 .. Len(entries) : entries[n] \in EntryType
  BY DEF Types
<1>7. CASE dirty
  <2>1. id \in 1 .. Len(entries) /\ entry \in EntryType
    BY <1>6, <1>7
  <2>2. clean \in EntryType /\ clean.val = entry.val /\ (clean.deleted => entry.deleted)
    <3>1. CASE entry.modified
      BY <2>1, <3>1 DEF EntryType
    <3>2. CASE ~entry.modified
      <4>1. entry.val = Empty
        BY <1>7, <2>1, <3>2 DEF Ids
      <4> QED BY <3>2, <4>1 DEF EntryType, Entry
    <3> QED BY <3>1, <3>2
  <2>3. w \in WriteType /\ w.call = c /\ w.key = k
    <3>1. k \in Key /\ entry.val \in Account
      BY <1>7, <2>1 DEF EntryType
    <3> QED BY <1>2, <3>1 DEF WriteType, Value
  <2>4. writes' = Append(queue, w) /\ entries' = [entries EXCEPT ![id] = clean] /\ at = "writing"
    BY <1>1, <1>7
  <2> HIDE DEF dirty, w, clean
  <2>5. /\ entries' \in Seq(EntryType) /\ Len(entries') = Len(entries)
        /\ \A n \in 1 .. Len(entries) \ {id} : entries'[n] = entries[n]
        /\ entries'[id] = clean
    BY <1>6, <2>1, <2>2, <2>4, Replaced
  <2>6. \A n \in 1 .. Len(entries) : /\ entries'[n].val = entries[n].val
                                     /\ entries'[n].deleted => entries'[n].val = Empty
    BY <2>1, <2>2, <2>5 DEF Ids
  <2>7. list[c].tree[w.key] # 0
    BY <2>1, <2>3
  <2> HIDE DEF at, id
  <2> QED BY <1>3, <1>5, <2>3, <2>4, <2>5, <2>6, <2>7 DEF Moved
<1>8. CASE ~dirty
  <2>1. entries' = entries /\ writes' = queue /\ at = "skipping"
    BY <1>1, <1>8
  <2> HIDE DEF dirty, at
  <2> QED BY <1>3, <1>5, <1>6, <2>1 DEF Moved, Ids
<1> QED BY <1>7, <1>8

LEMMA Proceeds ==
  ASSUME Types, Ids, NEW c \in 1 .. Len(calls), NEW queue \in Seq(WriteType),
         Proceed(queue, c)
  PROVE  Moved(calls, queue, c)
<1> DEFINE next == Behind(calls[c].tree, calls[c].key)
<1>1. /\ calls \in Seq(CallType) /\ calls[c] \in CallType
      /\ calls[c].tree \in [Key -> Nat] /\ calls[c].key \in Nat
  <2>1. calls \in Seq(CallType) /\ calls[c] \in CallType
    BY DEF Types
  <2>2. \A call \in CallType : call.tree \in [Key -> Nat] /\ call.key \in Nat
    BY DEF CallType
  <2> QED BY <2>1, <2>2
<1>2. next \in Key \cup {0} /\ (next # 0 => calls[c].tree[next] # 0)
  BY <1>1, BehindIsNext
<1>3. next # 0 => calls[c].tree[next] \in 1 .. Len(entries)
  <2>1. next # 0 => calls[c].tree[next] \in Nat /\ calls[c].tree[next] <= Len(entries)
    BY <1>1, <1>2 DEF Ids
  <2> QED BY <1>2, <2>1
<1>4. \/ Visit(calls, queue, c, next)
      \/ /\ calls' = [calls EXCEPT ![c] =
                        IF @.kind = "root" THEN Done(@) ELSE [@ EXCEPT !.at = "checking"]]
         /\ writes' = queue /\ UNCHANGED entries
  BY DEF Proceed
<1> HIDE DEF next
<1>5. CASE Visit(calls, queue, c, next)
  BY <1>1, <1>2, <1>3, <1>5, Visits
<1>6. CASE /\ calls' = [calls EXCEPT ![c] =
                          IF @.kind = "root" THEN Done(@) ELSE [@ EXCEPT !.at = "checking"]]
           /\ writes' = queue /\ UNCHANGED entries
  <2> DEFINE call == IF calls[c].kind = "root" THEN Done(calls[c])
                     ELSE [calls[c] EXCEPT !.at = "checking"]
  <2>1. /\ call \in CallType /\ call.kind = calls[c].kind
        /\ call.at \in {"checking", "done"} /\ call.tree \in {calls[c].tree, NoTree}
    <3>1. CASE calls[c].kind = "root"
      BY <1>1, <3>1, CallTypes
    <3>2. CASE calls[c].kind # "root"
      BY <1>1, <3>2 DEF CallType
    <3> QED BY <3>1, <3>2
  <2>2. calls' = [calls EXCEPT ![c] = call]
    BY <1>1, <1>6
  <2> HIDE DEF call
  <2>3. /\ calls' \in Seq(CallType) /\ Len(calls') = Len(calls)
        /\ \A d \in 1 .. Len(calls) \ {c} : calls'[d] = calls[d]
        /\ calls'[c] = call
    BY <1>1, <2>1, <2>2, Replaced
  <2>4. entries \in Seq(EntryType)
    BY DEF Types
  <2> QED BY <1>6, <2>1, <2>3, <2>4 DEF Moved, Ids
<1> QED BY <1>4, <1>5, <1>6

\* A flush that makes a round, or ends, when nothing else changes but the trie.
LEMMA MovedKeeps ==
  ASSUME Types, Ids,
         NEW list \in Seq(CallType), NEW queue \in Seq(WriteType), NEW c \in 1 .. Len(list),
         Moved(list, queue, c), UNCHANGED <<cache, touched, lookups, latest, overtaken>>,
         \A d \in 1 .. Len(list), k \in Key : list[d].tree[k] <= Len(entries),
         \A l \in lookups : /\ l.call \in 1 .. Len(list)
                            /\ list[l.call].kind = calls[l.call].kind,
         \A n \in 1 .. Len(queue) : /\ queue[n].call \in 1 .. Len(list) \ {c}
                                    /\ list[queue[n].call].at = "writing",
         \A m, n \in 1 .. Len(queue) : queue[m].call = queue[n].call => m = n,
         \A d \in 1 .. Len(list) \ {c} :
           /\ list[d].at = "waiting" =>
                /\ \E l \in lookups : l.call = d
                /\ \A k \in list[d].todo : \E l \in lookups : l.call = d /\ l.key = k
           /\ list[d].at = "writing" =>
                \E n \in 1 .. Len(queue) : queue[n].call = d /\ queue[n].key = list[d].key,
         trie' \in [Key -> Value], base' \in [Key -> Value],
         \A k \in Key \ overtaken :
           /\ cache[k] # 0 => entries[cache[k]].val = latest[k]
           /\ cache[k] = 0 =>
                /\ Read(trie'[k]) = latest[k] /\ Read(base'[k]) = latest[k]
                /\ \A n \in 1 .. Len(queue) : queue[n].key # k
                /\ \A d \in 1 .. Len(list) :
                     d = c \/ list[d].at \in {"skipping", "writing"} => list[d].tree[k] = 0
           /\ \A l \in lookups : l.key = k /\ Changing(l) => l.val = latest[k]
  PROVE  IInv'
<1>1. /\ calls' \in Seq(CallType) /\ Len(calls') = Len(list)
      /\ \A d \in 1 .. Len(list) \ {c} : calls'[d] = list[d]
      /\ calls'[c].kind = list[c].kind
      /\ calls'[c].at \in {"skipping", "writing", "checking", "done"}
      /\ calls'[c].at \in {"skipping", "writing"} => calls'[c].tree = list[c].tree
      /\ calls'[c].tree \in {list[c].tree, NoTree}
  BY DEF Moved
<1>2. /\ entries' \in Seq(EntryType) /\ Len(entries') = Len(entries)
      /\ \A n \in 1 .. Len(entries) : /\ entries'[n].val = entries[n].val
                                      /\ entries'[n].deleted => entries'[n].val = Empty
  BY DEF Moved
<1>3. /\ writes' \in Seq(WriteType) /\ Len(queue) \in Nat /\ Len(queue) <= Len(writes')
      /\ \A n \in 1 .. Len(queue) : writes'[n] = queue[n]
      /\ \/ calls'[c].at # "writing" /\ Len(writes') = Len(queue)
         \/ /\ calls'[c].at = "writing" /\ Len(writes') = Len(queue) + 1
            /\ \A m \in 1 .. Len(writes') : m = Len(writes') \/ m \in 1 .. Len(queue)
            /\ writes'[Len(writes')].call = c
            /\ writes'[Len(writes')].key = calls'[c].key
            /\ list[c].tree[writes'[Len(writes')].key] # 0
  <2>1. CASE calls'[c].at # "writing" /\ writes' = queue
    BY <2>1
  <2>2. CASE calls'[c].at = "writing" /\ writes' # queue
    <3>1. PICK w \in WriteType : /\ w.call = c /\ w.key = calls'[c].key
                                 /\ list[c].tree[w.key] # 0 /\ writes' = Append(queue, w)
      BY <2>2 DEF Moved
    <3>2. /\ writes' \in Seq(WriteType) /\ Len(writes') = Len(queue) + 1
          /\ \A n \in 1 .. Len(queue) : writes'[n] = queue[n]
          /\ writes'[Len(queue) + 1] = w
      BY <3>1, Appended
    <3>3. Len(queue) \in Nat
      OBVIOUS
    <3>4. /\ Len(queue) <= Len(writes') /\ writes'[Len(writes')] = w
          /\ \A m \in 1 .. Len(writes') : m = Len(writes') \/ m \in 1 .. Len(queue)
      BY <3>2, <3>3
    <3> QED BY <2>2, <3>1, <3>2, <3>3, <3>4
  <2>3. calls'[c].at = "writing" => writes' # queue
    <3> SUFFICES ASSUME calls'[c].at = "writing", writes' = queue PROVE FALSE
      OBVIOUS
    <3>1. PICK w \in WriteType : writes' = Append(queue, w)
      BY DEF Moved
    <3>2. Len(writes') = Len(queue) + 1 /\ Len(queue) \in Nat
      BY <3>1, Appended
    <3> QED BY <3>2
  <2> QED BY <2>1, <2>2, <2>3 DEF Moved
<1> HIDE DEF Moved
<1>4. Types'
  BY <1>1, <1>2, <1>3 DEF Types
<1>5. Ids'
  <2>1. \A d \in 1 .. Len(calls'), k \in Key : calls'[d].tree[k] <= Len(entries')
    <3>1. \A k \in Key : NoTree[k] = 0
      BY DEF NoTree
    <3>2. Len(entries) \in Nat
      BY DEF Types
    <3> SUFFICES ASSUME NEW d \in 1 .. Len(list), NEW k \in Key
                 PROVE  calls'[d].tree[k] <= Len(entries)
      BY <1>1, <1>2
    <3>3. CASE d = c
      <4>1. calls'[c].tree[k] = list[c].tree[k] \/ calls'[c].tree[k] = 0
        <5>1. calls'[c].tree = list[c].tree \/ calls'[c].tree = NoTree
          BY ONLY <1>1
        <5>2. NoTree[k] = 0
          BY ONLY <3>1, k \in Key
        <5> QED BY ONLY <5>1, <5>2
      <4>2. list[c].tree[k] <= Len(entries)
        OBVIOUS
      <4> QED BY ONLY <3>2, <3>3, <4>1, <4>2
    <3>4. CASE d # c
      BY <1>1, <3>4
    <3> QED BY <3>3, <3>4
  <2>2. \A k \in Key : cache'[k] <= Len(entries')
    BY <1>2 DEF Ids
  <2>3. \A n \in 1 .. Len(entries') : entries'[n].deleted => entries'[n].val = Empty
    <3> SUFFICES ASSUME NEW n \in 1 .. Len(entries'), entries'[n].deleted
                 PROVE  entries'[n].val = Empty
      OBVIOUS
    <3>1. n \in 1 .. Len(entries)
      BY ONLY <1>2
    <3> QED BY <1>2, <3>1
  <2>4. \A l \in lookups' : l.call \in 1 .. Len(calls')
    BY <1>1
  <2> QED BY <2>1, <2>2, <2>3, <2>4 DEF Ids
<1>6. WritesSound'
  <2>1. \A n \in 1 .. Len(writes') :
          writes'[n].call \in 1 .. Len(calls') /\ calls'[writes'[n].call].at = "writing"
    <3> SUFFICES ASSUME NEW n \in 1 .. Len(writes')
                 PROVE  /\ writes'[n].call \in 1 .. Len(list)
                        /\ calls'[writes'[n].call].at = "writing"
      BY <1>1
    <3>1. CASE n \in 1 .. Len(queue)
      <4>1. /\ writes'[n] = queue[n] /\ queue[n].call \in 1 .. Len(list) \ {c}
            /\ list[queue[n].call].at = "writing"
        BY <1>3, <3>1
      <4> QED BY ONLY <1>1, <4>1
    <3>2. CASE n \notin 1 .. Len(queue)
      BY <1>3, <3>2
    <3> QED BY <3>1, <3>2
  <2>2. \A m, n \in 1 .. Len(writes') : writes'[m].call = writes'[n].call => m = n
    BY SMTT(30), <1>3
  <2> QED BY <2>1, <2>2 DEF WritesSound
<1>7. AllLatest'
  <2> SUFFICES ASSUME NEW k \in Key \ overtaken PROVE Latest(k)'
    BY DEF AllLatest
  <2>1. cache[k] # 0 => entries'[cache[k]].val = latest[k]
    <3>1. cache[k] # 0 => cache[k] \in 1 .. Len(entries)
      BY DEF Types, Ids
    <3>2. cache[k] # 0 => entries[cache[k]].val = latest[k]
      OBVIOUS
    <3> SUFFICES ASSUME cache[k] # 0 PROVE entries'[cache[k]].val = latest[k]
      OBVIOUS
    <3>3. PICK n \in 1 .. Len(entries) : n = cache[k]
      BY <3>1
    <3>4. entries'[n].val = entries[n].val
      BY <1>2
    <3> QED BY <3>2, <3>3, <3>4
  <2>2. cache[k] = 0 =>
          /\ \A n \in 1 .. Len(writes') : writes'[n].key # k
          /\ \A d \in 1 .. Len(calls') : Flushing(d)' => calls'[d].tree[k] = 0
    <3> SUFFICES ASSUME cache[k] = 0
                 PROVE  /\ \A n \in 1 .. Len(writes') : writes'[n].key # k
                        /\ \A d \in 1 .. Len(calls') :
                             calls'[d].at \in {"skipping", "writing"} => calls'[d].tree[k] = 0
      BY DEF Flushing
    <3>1. \A n \in 1 .. Len(writes') : writes'[n].key # k
      BY <1>3
    <3>2. \A d \in 1 .. Len(calls') :
            calls'[d].at \in {"skipping", "writing"} => calls'[d].tree[k] = 0
      BY <1>1
    <3> QED BY <3>1, <3>2
  <2>3. \A l \in lookups : l.key = k /\ Changing(l)' => l.val = latest[k]
    <3>1. \A l \in lookups : calls'[l.call].kind = calls[l.call].kind
      <4> SUFFICES ASSUME NEW l \in lookups PROVE calls'[l.call].kind = calls[l.call].kind
        OBVIOUS
      <4>1. l.call \in 1 .. Len(list) /\ list[l.call].kind = calls[l.call].kind
        OBVIOUS
      <4> QED BY <1>1, <4>1
    <3>2. \A l \in lookups : Changing(l)' <=> Changing(l)
      BY <3>1 DEF Changing
    <3>3. \A l \in lookups : l.key = k /\ Changing(l) => l.val = latest[k]
      OBVIOUS
    <3> QED BY <3>2, <3>3
  <2> QED BY <2>1, <2>2, <2>3 DEF Latest
<1>8. NobodyForgotten'
  <2>1. DOMAIN calls' = 1 .. Len(list) /\ DOMAIN writes' = 1 .. Len(writes')
    BY <1>1, <1>3
  <2>2. \A d \in 1 .. Len(list) :
          /\ calls'[d].at = "waiting" =>
               /\ \E l \in lookups : l.call = d
               /\ \A k \in calls'[d].todo : \E l \in lookups : l.call = d /\ l.key = k
          /\ calls'[d].at = "writing" =>
               \E n \in 1 .. Len(writes') : writes'[n].call = d /\ writes'[n].key = calls'[d].key
    <3> SUFFICES ASSUME NEW d \in 1 .. Len(list)
                 PROVE  /\ calls'[d].at = "waiting" =>
                             /\ \E l \in lookups : l.call = d
                             /\ \A k \in calls'[d].todo :
                                  \E l \in lookups : l.call = d /\ l.key = k
                        /\ calls'[d].at = "writing" =>
                             \E n \in 1 .. Len(writes') :
                                writes'[n].call = d /\ writes'[n].key = calls'[d].key
      OBVIOUS
    <3>1. CASE d = c
      <4>1. Len(writes') = Len(queue) + 1 => Len(writes') \in 1 .. Len(writes')
        BY <1>3
      <4> QED BY <1>1, <1>3, <3>1, <4>1
    <3>2. CASE d # c
      <4>1. calls'[d] = list[d] /\ \A n \in 1 .. Len(queue) : n \in 1 .. Len(writes')
        BY <1>1, <1>3, <3>2
      <4> QED BY <1>3, <3>2, <4>1
    <3> QED BY <3>1, <3>2
  <2>3. lookups' = lookups
    OBVIOUS
  <2> QED BY ONLY <2>1, <2>2, <2>3 DEF NobodyForgotten
<1> QED BY <1>4, <1>5, <1>6, <1>7, <1>8 DEF IInv

\* getStateRoot and setStateRoot begin.
LEMMA FlushKeeps ==
  ASSUME IInv, NEW call \in CallType, Flush(call)
  PROVE  IInv'
<1> DEFINE new == [call EXCEPT !.tree = cache, !.promised = latest]
           list == Append(calls, new)
           next == Behind(cache, 0)
<1>1. /\ cache \in [Key -> Nat] /\ latest \in [Key -> Account] /\ calls \in Seq(CallType)
      /\ writes \in Seq(WriteType) /\ trie \in [Key -> Value] /\ base \in [Key -> Value]
      /\ Len(entries) \in Nat /\ Len(calls) \in Nat /\ Len(writes) \in Nat
  BY DEF IInv, Types
<1>2. /\ Visit(list, writes, Len(calls) + 1, next)
      /\ base' = IF writes = <<>> THEN trie ELSE base
      /\ UNCHANGED <<trie, cache, touched, lookups, latest, overtaken>>
  BY DEF Flush
<1>3. new \in CallType /\ new.tree = cache
  BY <1>1 DEF CallType
<1> HIDE DEF new
<1>4. PICK c \in Nat : c = Len(calls) + 1
  BY <1>1
<1>5. /\ list \in Seq(CallType) /\ Len(list) = c /\ list[c] = new
      /\ c \in 1 .. Len(list) /\ \A d \in 1 .. Len(calls) : list[d] = calls[d]
      /\ \A d \in 1 .. Len(list) \ {c} : d \in 1 .. Len(calls)
      /\ \A d \in 1 .. Len(calls) : d \in 1 .. Len(list) \ {c}
  <2>1. /\ list \in Seq(CallType) /\ Len(list) = Len(calls) + 1 /\ list[Len(calls) + 1] = new
        /\ \A d \in 1 .. Len(calls) : list[d] = calls[d]
    BY <1>1, <1>3, Appended
  <2> HIDE DEF list
  <2> QED BY <1>1, <1>4, <2>1
<1> HIDE DEF list
<1>6. next \in Key \cup {0} /\ (next # 0 => cache[next] # 0)
  BY <1>1, BehindIsNext
<1> HIDE DEF next
<1>7. \A k \in Key : cache[k] \in Nat /\ cache[k] <= Len(entries)
  BY <1>1 DEF IInv, Ids
<1>8. Moved(list, writes, c)
  <2>1. next # 0 => list[c].tree[next] \in 1 .. Len(entries)
    BY <1>1, <1>3, <1>5, <1>6, <1>7
  <2>2. Visit(list, writes, c, next)
    BY <1>2, <1>4
  <2>3. Types /\ Ids
    BY DEF IInv
  <2> QED BY <1>1, <1>5, <1>6, <2>1, <2>2, <2>3, Visits
<1>9. \A d \in 1 .. Len(list), k \in Key : list[d].tree[k] <= Len(entries)
  <2> SUFFICES ASSUME NEW d \in 1 .. Len(list), NEW k \in Key
               PROVE  list[d].tree[k] <= Len(entries)
    OBVIOUS
  <2>1. CASE d = c
    BY <1>3, <1>5, <1>7, <2>1
  <2>2. CASE d # c
    BY <1>5, <2>2 DEF IInv, Ids
  <2> QED BY <2>1, <2>2
<1>10. \A l \in lookups : l.call \in 1 .. Len(list) /\ list[l.call].kind = calls[l.call].kind
  BY <1>5 DEF IInv, Ids
<1>11. /\ \A n \in 1 .. Len(writes) : /\ writes[n].call \in 1 .. Len(list) \ {c}
                                      /\ list[writes[n].call].at = "writing"
       /\ \A m, n \in 1 .. Len(writes) : writes[m].call = writes[n].call => m = n
  BY <1>5 DEF IInv, WritesSound
<1>12. \A d \in 1 .. Len(list) \ {c} :
         /\ list[d].at = "waiting" =>
              /\ \E l \in lookups : l.call = d
              /\ \A k \in list[d].todo : \E l \in lookups : l.call = d /\ l.key = k
         /\ list[d].at = "writing" =>
              \E n \in 1 .. Len(writes) : writes[n].call = d /\ writes[n].key = list[d].key
  <2>1. DOMAIN calls = 1 .. Len(calls) /\ DOMAIN writes = 1 .. Len(writes)
    BY <1>1
  <2> QED BY <1>5, <2>1 DEF IInv, NobodyForgotten
<1>13. trie' \in [Key -> Value] /\ base' \in [Key -> Value]
  BY <1>1, <1>2
<1>14. \A k \in Key \ overtaken :
         /\ cache[k] # 0 => entries[cache[k]].val = latest[k]
         /\ cache[k] = 0 =>
              /\ Read(trie'[k]) = latest[k] /\ Read(base'[k]) = latest[k]
              /\ \A n \in 1 .. Len(writes) : writes[n].key # k
              /\ \A d \in 1 .. Len(list) :
                   d = c \/ list[d].at \in {"skipping", "writing"} => list[d].tree[k] = 0
         /\ \A l \in lookups : l.key = k /\ Changing(l) => l.val = latest[k]
  <2> SUFFICES ASSUME NEW k \in Key \ overtaken
               PROVE  /\ cache[k] # 0 => entries[cache[k]].val = latest[k]
                      /\ cache[k] = 0 =>
                           /\ Read(trie'[k]) = latest[k] /\ Read(base'[k]) = latest[k]
                           /\ \A n \in 1 .. Len(writes) : writes[n].key # k
                           /\ \A d \in 1 .. Len(list) :
                                d = c \/ list[d].at \in {"skipping", "writing"} =>
                                  list[d].tree[k] = 0
                      /\ \A l \in lookups : l.key = k /\ Changing(l) => l.val = latest[k]
    OBVIOUS
  <2>1. Latest(k)
    BY DEF IInv, AllLatest
  <2>2. cache[k] = 0 => \A d \in 1 .. Len(list) :
          d = c \/ list[d].at \in {"skipping", "writing"} => list[d].tree[k] = 0
    BY <1>3, <1>5, <2>1 DEF Latest, Flushing
  <2>3. cache[k] = 0 => Read(trie'[k]) = latest[k] /\ Read(base'[k]) = latest[k]
    BY <1>2, <2>1 DEF Latest
  <2> QED BY <2>1, <2>2, <2>3 DEF Latest
<1>15. Types /\ Ids
  BY DEF IInv
<1>16. UNCHANGED <<cache, touched, lookups, latest, overtaken>>
  BY <1>2
<1>17. list \in Seq(CallType) /\ writes \in Seq(WriteType) /\ c \in 1 .. Len(list)
  BY <1>1, <1>5
<1> QED BY ONLY <1>8, <1>9, <1>10, <1>11, <1>12, <1>13, <1>14, <1>15, <1>16, <1>17,
                MovedKeeps

\* The next tick, after an entry that needs no write.
LEMMA SkipKeeps ==
  ASSUME IInv, NEW c \in 1 .. Len(calls), Skip(c)
  PROVE  IInv'
<1>1. Types /\ Ids
  BY DEF IInv
<1>2. /\ calls \in Seq(CallType) /\ writes \in Seq(WriteType)
      /\ trie \in [Key -> Value] /\ base \in [Key -> Value]
  BY <1>1 DEF Types
<1>3. /\ calls[c].at = "skipping" /\ Proceed(writes, c)
      /\ base' = IF writes = <<>> THEN trie ELSE base
      /\ UNCHANGED <<trie, cache, touched, lookups, latest, overtaken>>
  BY DEF Skip, ghosts
<1>4. Moved(calls, writes, c)
  BY <1>1, <1>2, <1>3, Proceeds
<1>5. /\ \A d \in 1 .. Len(calls), k \in Key : calls[d].tree[k] <= Len(entries)
      /\ \A l \in lookups : l.call \in 1 .. Len(calls)
  BY <1>1 DEF Ids
<1>6. /\ \A n \in 1 .. Len(writes) : /\ writes[n].call \in 1 .. Len(calls) \ {c}
                                     /\ calls[writes[n].call].at = "writing"
      /\ \A m, n \in 1 .. Len(writes) : writes[m].call = writes[n].call => m = n
  BY <1>3 DEF IInv, WritesSound
<1>7. \A d \in 1 .. Len(calls) \ {c} :
        /\ calls[d].at = "waiting" =>
             /\ \E l \in lookups : l.call = d
             /\ \A k \in calls[d].todo : \E l \in lookups : l.call = d /\ l.key = k
        /\ calls[d].at = "writing" =>
             \E n \in 1 .. Len(writes) : writes[n].call = d /\ writes[n].key = calls[d].key
  <2>1. DOMAIN calls = 1 .. Len(calls) /\ DOMAIN writes = 1 .. Len(writes)
    BY <1>2
  <2> QED BY <2>1 DEF IInv, NobodyForgotten
<1>8. trie' \in [Key -> Value] /\ base' \in [Key -> Value]
  BY <1>2, <1>3
<1>9. \A k \in Key \ overtaken :
        /\ cache[k] # 0 => entries[cache[k]].val = latest[k]
        /\ cache[k] = 0 =>
             /\ Read(trie'[k]) = latest[k] /\ Read(base'[k]) = latest[k]
             /\ \A n \in 1 .. Len(writes) : writes[n].key # k
             /\ \A d \in 1 .. Len(calls) :
                  d = c \/ calls[d].at \in {"skipping", "writing"} => calls[d].tree[k] = 0
        /\ \A l \in lookups : l.key = k /\ Changing(l) => l.val = latest[k]
  <2> SUFFICES ASSUME NEW k \in Key \ overtaken
               PROVE  /\ cache[k] # 0 => entries[cache[k]].val = latest[k]
                      /\ cache[k] = 0 =>
                           /\ Read(trie'[k]) = latest[k] /\ Read(base'[k]) = latest[k]
                           /\ \A n \in 1 .. Len(writes) : writes[n].key # k
                           /\ \A d \in 1 .. Len(calls) :
                                d = c \/ calls[d].at \in {"skipping", "writing"} =>
                                  calls[d].tree[k] = 0
                      /\ \A l \in lookups : l.key = k /\ Changing(l) => l.val = latest[k]
    OBVIOUS
  <2>1. Latest(k)
    BY DEF IInv, AllLatest
  <2>2. cache[k] = 0 => \A d \in 1 .. Len(calls) :
          d = c \/ calls[d].at \in {"skipping", "writing"} => calls[d].tree[k] = 0
    BY <1>3, <2>1 DEF Latest, Flushing
  <2>3. cache[k] = 0 => Read(trie'[k]) = latest[k] /\ Read(base'[k]) = latest[k]
    BY <1>3, <2>1 DEF Latest
  <2> QED BY <2>1, <2>2, <2>3 DEF Latest
<1> QED BY <1>1, <1>2, <1>3, <1>4, <1>5, <1>6, <1>7, <1>8, <1>9, MovedKeeps

\* The write under way has been answered, and no other is touched.
LEMMA RestKeeps ==
  ASSUME IInv, writes # <<>>, Moved(calls, Tail(writes), Head(writes).call),
         UNCHANGED <<cache, touched, lookups, latest, overtaken>>,
         trie' \in [Key -> Value], base' \in [Key -> Value],
         \A k \in Key \ overtaken : cache[k] = 0 /\ k # Head(writes).key =>
           Read(trie'[k]) = latest[k] /\ Read(base'[k]) = latest[k]
  PROVE  IInv'
<1> DEFINE w == Head(writes)
           queue == Tail(writes)
<1>1. Types /\ Ids
  BY DEF IInv
<1>2. /\ calls \in Seq(CallType) /\ writes \in Seq(WriteType)
      /\ trie \in [Key -> Value] /\ base \in [Key -> Value]
  BY <1>1 DEF Types
<1>3. \A k \in Key \ overtaken : cache[k] = 0 /\ k # w.key =>
        Read(trie'[k]) = latest[k] /\ Read(base'[k]) = latest[k]
  OBVIOUS
<1>13. Moved(calls, queue, w.call) /\ UNCHANGED <<cache, touched, lookups, latest, overtaken>>
  OBVIOUS
<1>4. /\ queue \in Seq(WriteType) /\ Len(writes) \in Nat \ {0} /\ Len(queue) = Len(writes) - 1
      /\ w = writes[1] /\ writes[1] \in WriteType
      /\ \A n \in 1 .. Len(writes) - 1 : queue[n] = writes[n + 1]
  BY <1>2, Rest
<1> HIDE DEF queue, w
<1>5. /\ w.call \in 1 .. Len(calls) /\ calls[w.call].at = "writing"
      /\ w.key \in Key /\ w.val \in Value
  <2>1. 1 \in 1 .. Len(writes)
    BY <1>4
  <2> QED BY <1>1, <1>4, <2>1, Elements DEF IInv, WritesSound
<1>6. PICK c \in 1 .. Len(calls) : c = w.call
  BY <1>5
<1>7. \A n \in 1 .. Len(queue) : n + 1 \in 1 .. Len(writes) /\ queue[n] = writes[n + 1]
  BY <1>4
<1>8. Moved(calls, queue, c)
  BY <1>6, <1>13
<1>9. /\ \A d \in 1 .. Len(calls), k \in Key : calls[d].tree[k] <= Len(entries)
      /\ \A l \in lookups : l.call \in 1 .. Len(calls)
  BY <1>1 DEF Ids
<1>10. \A n \in 1 .. Len(queue) : /\ queue[n].call \in 1 .. Len(calls) \ {c}
                                  /\ calls[queue[n].call].at = "writing"
  <2> SUFFICES ASSUME NEW n \in 1 .. Len(queue)
               PROVE  /\ queue[n].call \in 1 .. Len(calls) \ {c}
                      /\ calls[queue[n].call].at = "writing"
    OBVIOUS
  <2>1. PICK m \in 1 .. Len(writes) : m = n + 1
    BY <1>7
  <2>2. queue[n] = writes[m] /\ m # 1 /\ 1 \in 1 .. Len(writes)
    BY <1>4, <1>7, <2>1
  <2> QED BY <1>4, <1>6, <2>2 DEF IInv, WritesSound
<1>11. \A m, n \in 1 .. Len(queue) : queue[m].call = queue[n].call => m = n
  <2> SUFFICES ASSUME NEW m \in 1 .. Len(queue), NEW n \in 1 .. Len(queue),
                      queue[m].call = queue[n].call
               PROVE  m = n
    OBVIOUS
  <2>1. PICK i \in 1 .. Len(writes), j \in 1 .. Len(writes) : i = m + 1 /\ j = n + 1
    BY <1>7
  <2>2. queue[m] = writes[i] /\ queue[n] = writes[j]
    BY <1>7, <2>1
  <2>3. i = j
    BY <2>2 DEF IInv, WritesSound
  <2> QED BY <2>1, <2>3
<1>12. \A d \in 1 .. Len(calls) \ {c} :
         /\ calls[d].at = "waiting" =>
              /\ \E l \in lookups : l.call = d
              /\ \A k \in calls[d].todo : \E l \in lookups : l.call = d /\ l.key = k
         /\ calls[d].at = "writing" =>
              \E n \in 1 .. Len(queue) : queue[n].call = d /\ queue[n].key = calls[d].key
  <2>1. DOMAIN calls = 1 .. Len(calls) /\ DOMAIN writes = 1 .. Len(writes)
    BY <1>2
  <2>2. \A d \in 1 .. Len(calls) :
          /\ calls[d].at = "waiting" =>
               /\ \E l \in lookups : l.call = d
               /\ \A k \in calls[d].todo : \E l \in lookups : l.call = d /\ l.key = k
          /\ calls[d].at = "writing" =>
               \E n \in 1 .. Len(writes) : writes[n].call = d /\ writes[n].key = calls[d].key
    BY <2>1 DEF IInv, NobodyForgotten
  <2>3. ASSUME NEW d \in 1 .. Len(calls) \ {c}, calls[d].at = "writing"
        PROVE  \E n \in 1 .. Len(queue) : queue[n].call = d /\ queue[n].key = calls[d].key
    <3>1. PICK n \in 1 .. Len(writes) : writes[n].call = d /\ writes[n].key = calls[d].key
      BY <2>2, <2>3
    <3>2. n # 1
      BY <1>4, <1>6, <2>3, <3>1
    <3>3. PICK m \in 1 .. Len(queue) : n = m + 1
      <4>1. n - 1 \in 1 .. Len(queue) /\ n = n - 1 + 1
        BY <1>4, <3>2
      <4> QED BY <4>1
    <3>4. queue[m] = writes[n]
      BY <1>7, <3>3
    <3> QED BY <3>1, <3>4
  <2> QED BY <2>2, <2>3
<1>14. \A k \in Key \ overtaken :
         /\ cache[k] # 0 => entries[cache[k]].val = latest[k]
         /\ cache[k] = 0 =>
              /\ Read(trie'[k]) = latest[k] /\ Read(base'[k]) = latest[k]
              /\ \A n \in 1 .. Len(queue) : queue[n].key # k
              /\ \A d \in 1 .. Len(calls) :
                   d = c \/ calls[d].at \in {"skipping", "writing"} => calls[d].tree[k] = 0
         /\ \A l \in lookups : l.key = k /\ Changing(l) => l.val = latest[k]
  <2> SUFFICES ASSUME NEW k \in Key \ overtaken
               PROVE  /\ cache[k] # 0 => entries[cache[k]].val = latest[k]
                      /\ cache[k] = 0 =>
                           /\ Read(trie'[k]) = latest[k] /\ Read(base'[k]) = latest[k]
                           /\ \A n \in 1 .. Len(queue) : queue[n].key # k
                           /\ \A d \in 1 .. Len(calls) :
                                d = c \/ calls[d].at \in {"skipping", "writing"} =>
                                  calls[d].tree[k] = 0
                      /\ \A l \in lookups : l.key = k /\ Changing(l) => l.val = latest[k]
    OBVIOUS
  <2>1. Latest(k)
    BY DEF IInv, AllLatest
  <2>2. cache[k] = 0 => \A d \in 1 .. Len(calls) :
          d = c \/ calls[d].at \in {"skipping", "writing"} => calls[d].tree[k] = 0
    BY <1>5, <1>6, <2>1 DEF Latest, Flushing
  <2>3. cache[k] = 0 => \A n \in 1 .. Len(writes) : writes[n].key # k
    BY <2>1 DEF Latest
  <2>4. cache[k] = 0 => \A n \in 1 .. Len(queue) : queue[n].key # k
    BY <1>7, <2>3
  <2>5. cache[k] = 0 => k # w.key
    <3>1. 1 \in 1 .. Len(writes)
      BY <1>4
    <3> QED BY <1>4, <2>3, <3>1
  <2> QED BY <1>3, <2>1, <2>2, <2>3, <2>4, <2>5 DEF Latest
<1>15. trie' \in [Key -> Value] /\ base' \in [Key -> Value]
  OBVIOUS
<1> QED BY ONLY <1>1, <1>2, <1>4, <1>8, <1>9, <1>10, <1>11, <1>12, <1>13, <1>14, <1>15,
                MovedKeeps

\* What is known of the write under way.
LEMMA FirstWrite ==
  ASSUME IInv, writes # <<>>
  PROVE  /\ Tail(writes) \in Seq(WriteType)
         /\ Head(writes).call \in 1 .. Len(calls)
         /\ calls[Head(writes).call] \in CallType
         /\ Head(writes).key \in Key /\ Head(writes).val \in Value
<1>1. Types
  BY DEF IInv
<1>2. writes \in Seq(WriteType)
  BY <1>1 DEF Types
<1>3. Tail(writes) \in Seq(WriteType) /\ Len(writes) \in Nat \ {0} /\ Head(writes) = writes[1]
  BY <1>2, Rest
<1>4. 1 \in 1 .. Len(writes)
  BY <1>3
<1>5. writes[1].call \in 1 .. Len(calls)
  BY <1>4 DEF IInv, WritesSound
<1>6. calls[writes[1].call] \in CallType /\ writes[1].key \in Key /\ writes[1].val \in Value
  BY <1>1, <1>4, <1>5, Elements
<1> QED BY <1>3, <1>5, <1>6

\* A write is answered, and its flush goes on.
LEMMA WriteKeeps ==
  ASSUME IInv, Write
  PROVE  IInv'
<1> DEFINE w == Head(writes)
<1>1. /\ writes # <<>> /\ Proceed(Tail(writes), w.call)
      /\ trie' = [base EXCEPT ![w.key] = w.val] /\ base' = trie'
      /\ UNCHANGED <<cache, touched, lookups, latest, overtaken>>
  BY DEF Write
<1>2. /\ Tail(writes) \in Seq(WriteType) /\ w.call \in 1 .. Len(calls)
      /\ w.key \in Key /\ w.val \in Value
  BY <1>1, FirstWrite
<1> HIDE DEF w
<1>3. Moved(calls, Tail(writes), w.call)
  <2>1. Types /\ Ids
    BY DEF IInv
  <2> QED BY <1>1, <1>2, <2>1, Proceeds
<1>4. base \in [Key -> Value]
  BY DEF IInv, Types
<1>5. \A k \in Key \ overtaken : cache[k] = 0 /\ k # w.key =>
        Read(trie'[k]) = latest[k] /\ Read(base'[k]) = latest[k]
  <2> SUFFICES ASSUME NEW k \in Key \ overtaken, cache[k] = 0, k # w.key
               PROVE  Read(trie'[k]) = latest[k] /\ Read(base'[k]) = latest[k]
    OBVIOUS
  <2>1. trie'[k] = base[k] /\ base'[k] = base[k]
    BY <1>1, <1>4
  <2>2. Read(base[k]) = latest[k]
    BY <1>1 DEF IInv, AllLatest, Latest
  <2> QED BY <2>1, <2>2
<1>6. trie' \in [Key -> Value] /\ base' \in [Key -> Value]
  BY <1>1, <1>2, <1>4
<1> QED BY <1>1, <1>3, <1>5, <1>6, RestKeeps DEF w

\* A write fails, and with it its flush.
LEMMA WriteFailsKeeps ==
  ASSUME IInv, WriteFails
  PROVE  IInv'
<1> DEFINE w == Head(writes)
<1>1. /\ writes # <<>> /\ writes' = Tail(writes)
      /\ base' = trie /\ calls' = [calls EXCEPT ![w.call] = Failed(@)]
      /\ UNCHANGED <<trie, entries, cache, touched, lookups, latest, overtaken>>
  BY DEF WriteFails
<1>2. /\ w.call \in 1 .. Len(calls) /\ calls[w.call] \in CallType
      /\ calls \in Seq(CallType) /\ entries \in Seq(EntryType) /\ trie \in [Key -> Value]
  BY <1>1, FirstWrite DEF IInv, Types
<1> HIDE DEF w
<1>3. PICK x \in CallType : x = Failed(calls[w.call])
  BY <1>2, CallTypes
<1>4. x.kind = calls[w.call].kind /\ x.at = "done" /\ x.tree = NoTree
  BY <1>2, <1>3, CallTypes
<1>5. calls' = [calls EXCEPT ![w.call] = x]
  BY <1>1, <1>2, <1>3
<1>6. /\ calls' \in Seq(CallType) /\ Len(calls') = Len(calls)
      /\ \A d \in 1 .. Len(calls) \ {w.call} : calls'[d] = calls[d]
      /\ calls'[w.call] = x
  BY <1>2, <1>5, Replaced
<1>7. \A n \in 1 .. Len(entries) : entries[n].deleted => entries[n].val = Empty
  BY DEF IInv, Ids
<1>8. Moved(calls, Tail(writes), w.call)
  BY ONLY <1>1, <1>2, <1>4, <1>6, <1>7 DEF Moved
<1>9. \A k \in Key \ overtaken : cache[k] = 0 /\ k # w.key =>
        Read(trie'[k]) = latest[k] /\ Read(base'[k]) = latest[k]
  BY <1>1 DEF IInv, AllLatest, Latest
<1>10. trie' \in [Key -> Value] /\ base' \in [Key -> Value]
  BY <1>1, <1>2
<1> QED BY <1>1, <1>8, <1>9, <1>10, RestKeeps DEF w
-----------------------------------------------------------------------------
(* Steps in which no flush moves. *)

\* Calls begin, are answered or are refused, and every flush is where it was.
Calm ==
  /\ calls' \in Seq(CallType) /\ Len(calls) <= Len(calls')
  /\ \A d \in 1 .. Len(calls) :
       /\ calls'[d].kind = calls[d].kind
       /\ calls'[d].tree \in {calls[d].tree, NoTree}
       /\ calls'[d].at = "writing" <=> calls[d].at = "writing"
       /\ calls'[d].at = "writing" => calls'[d].key = calls[d].key
       /\ calls'[d].at \in {"skipping", "writing"} =>
            calls[d].at = calls'[d].at /\ calls'[d].tree = calls[d].tree
  /\ \A d \in 1 .. Len(calls') : d \notin 1 .. Len(calls) =>
       calls'[d].at \notin {"skipping", "writing"} /\ calls'[d].tree = NoTree

LEMMA CalmKeeps ==
  ASSUME IInv, Calm, UNCHANGED writes
  PROVE  /\ \A d \in 1 .. Len(calls'), k \in Key : calls'[d].tree[k] <= Len(entries)
         /\ WritesSound'
         /\ \A d \in 1 .. Len(calls') : calls'[d].at = "writing" =>
              \E n \in 1 .. Len(writes) : writes[n].call = d /\ writes[n].key = calls'[d].key
         /\ \A l \in lookups : l.call \in 1 .. Len(calls') /\ (Changing(l)' <=> Changing(l))
         /\ \A k \in Key \ overtaken : cache[k] = 0 =>
              \A d \in 1 .. Len(calls') :
                calls'[d].at \in {"skipping", "writing"} => calls'[d].tree[k] = 0
<1>1. /\ Len(calls) \in Nat /\ Len(calls') \in Nat /\ Len(entries) \in Nat
      /\ DOMAIN calls = 1 .. Len(calls) /\ DOMAIN writes = 1 .. Len(writes)
      /\ \A d \in 1 .. Len(calls) : d \in 1 .. Len(calls')
  BY DEF IInv, Types, Calm
<1>2. \A k \in Key : NoTree[k] = 0
  BY DEF NoTree
<1>3. \A d \in 1 .. Len(calls'), k \in Key : calls'[d].tree[k] <= Len(entries)
  <2> SUFFICES ASSUME NEW d \in 1 .. Len(calls'), NEW k \in Key
               PROVE  calls'[d].tree[k] <= Len(entries)
    OBVIOUS
  <2>1. CASE calls'[d].tree = NoTree
    BY <1>1, <1>2, <2>1
  <2>2. CASE d \in 1 .. Len(calls) /\ calls'[d].tree = calls[d].tree
    BY <2>2 DEF IInv, Ids
  <2> QED BY <2>1, <2>2 DEF Calm
<1>4. WritesSound'
  <2>1. \A n \in 1 .. Len(writes) :
          writes[n].call \in 1 .. Len(calls') /\ calls'[writes[n].call].at = "writing"
    BY <1>1 DEF IInv, WritesSound, Calm
  <2> QED BY <2>1 DEF IInv, WritesSound
<1>5. \A d \in 1 .. Len(calls') : calls'[d].at = "writing" =>
        \E n \in 1 .. Len(writes) : writes[n].call = d /\ writes[n].key = calls'[d].key
  <2> SUFFICES ASSUME NEW d \in 1 .. Len(calls'), calls'[d].at = "writing"
               PROVE  \E n \in 1 .. Len(writes) :
                        writes[n].call = d /\ writes[n].key = calls'[d].key
    OBVIOUS
  <2>1. d \in 1 .. Len(calls) /\ calls[d].at = "writing" /\ calls'[d].key = calls[d].key
    BY DEF Calm
  <2> QED BY <1>1, <2>1 DEF IInv, NobodyForgotten
<1>6. \A l \in lookups : l.call \in 1 .. Len(calls') /\ (Changing(l)' <=> Changing(l))
  BY <1>1 DEF IInv, Ids, Calm, Changing
<1>7. \A k \in Key \ overtaken : cache[k] = 0 =>
        \A d \in 1 .. Len(calls') :
          calls'[d].at \in {"skipping", "writing"} => calls'[d].tree[k] = 0
  <2> SUFFICES ASSUME NEW k \in Key \ overtaken, cache[k] = 0, NEW d \in 1 .. Len(calls'),
                      calls'[d].at \in {"skipping", "writing"}
               PROVE  calls'[d].tree[k] = 0
    OBVIOUS
  <2>1. /\ d \in 1 .. Len(calls) /\ calls[d].at \in {"skipping", "writing"}
        /\ calls'[d].tree = calls[d].tree
    BY DEF Calm
  <2>2. Latest(k)
    BY DEF IInv, AllLatest
  <2> QED BY <2>1, <2>2 DEF Latest, Flushing
<1> QED BY <1>3, <1>4, <1>5, <1>6, <1>7

\* A call begins.
LEMMA Begins ==
  ASSUME Types, NEW call \in CallType, call.at \notin {"skipping", "writing"},
         call.tree = NoTree, Begin(call)
  PROVE  /\ Calm /\ Len(calls') = Len(calls) + 1 /\ calls'[Len(calls) + 1] = call
         /\ \A d \in 1 .. Len(calls) : calls'[d] = calls[d]
<1>1. calls \in Seq(CallType) /\ Len(calls) \in Nat
  BY DEF Types
<1>2. calls' = Append(calls, call)
  BY DEF Begin
<1>3. /\ calls' \in Seq(CallType) /\ Len(calls') = Len(calls) + 1
      /\ \A d \in 1 .. Len(calls) : calls'[d] = calls[d]
      /\ calls'[Len(calls) + 1] = call
  BY <1>1, <1>2, Appended
<1>4. Len(calls) <= Len(calls')
      /\ \A d \in 1 .. Len(calls') : d \notin 1 .. Len(calls) => d = Len(calls) + 1
  BY <1>1, <1>3
<1> QED BY <1>3, <1>4 DEF Calm

\* A call is answered or goes on waiting.
LEMMA Settles ==
  ASSUME Types, NEW c \in 1 .. Len(calls), NEW x \in CallType,
         calls' = [calls EXCEPT ![c] = x], x.kind = calls[c].kind,
         \/ x.at = "done" /\ calls[c].at # "writing" /\ x.tree = NoTree
         \/ x.at = calls[c].at /\ x.tree = calls[c].tree /\ x.key = calls[c].key
  PROVE  /\ Calm /\ Len(calls') = Len(calls) /\ calls'[c] = x
         /\ \A d \in 1 .. Len(calls) \ {c} : calls'[d] = calls[d]
<1>1. calls \in Seq(CallType) /\ Len(calls) \in Nat
  BY DEF Types
<1>2. /\ calls' \in Seq(CallType) /\ Len(calls') = Len(calls)
      /\ \A d \in 1 .. Len(calls) \ {c} : calls'[d] = calls[d]
      /\ calls'[c] = x
  BY <1>1, Replaced
<1> QED BY <1>1, <1>2 DEF Calm

\* Who asks finds what was put last.
LEMMA Finds ==
  ASSUME IInv, NEW k \in Key
  PROVE  /\ Found(k) \in Account
         /\ k \notin overtaken => Found(k) = latest[k]
<1>1. cache[k] # 0 => entries[cache[k]].val \in Account
  <2>1. cache[k] # 0 => cache[k] \in 1 .. Len(entries)
    <3>1. cache[k] \in Nat /\ Len(entries) \in Nat
      BY DEF IInv, Types
    <3>2. cache[k] <= Len(entries)
      BY DEF IInv, Ids
    <3> QED BY <3>1, <3>2
  <2>2. Types
    BY DEF IInv
  <2> QED BY <2>1, <2>2, Elements
<1>2. Read(trie[k]) \in Account
  BY ReadType DEF IInv, Types
<1>3. k \notin overtaken => Latest(k)
  BY DEF IInv, AllLatest
<1> QED BY <1>1, <1>2, <1>3 DEF Found, Latest

\* The cache gets an entry at k, and no flush moves.
LEMMA UpdateKeeps ==
  ASSUME IInv, Calm, NEW k \in Key, NEW entry \in EntryType,
         entry.deleted => entry.val = Empty, Update(k, entry),
         UNCHANGED <<trie, base, writes>>,
         lookups' \subseteq lookups, latest' \in [Key -> Account], touched' \subseteq Key,
         overtaken' \subseteq Key, overtaken \subseteq overtaken',
         \A n \in Key \ {k} : latest'[n] = latest[n],
         k \notin overtaken' =>
           entry.val = latest'[k] /\ \A l \in lookups' : l.key = k /\ Changing(l) => l.val = latest'[k]
  PROVE  Types' /\ Ids' /\ WritesSound' /\ AllLatest'
<1>1. Types /\ Ids
  BY DEF IInv
<1>2. /\ entries' \in Seq(EntryType) /\ Len(entries) <= Len(entries')
      /\ cache' \in [Key -> Nat]
      /\ cache'[k] \in 1 .. Len(entries') /\ entries'[cache'[k]] = entry
      /\ \A n \in Key \ {k} : /\ cache'[n] = cache[n]
                              /\ cache[n] # 0 => entries'[cache[n]] = entries[cache[n]]
      /\ \A n \in 1 .. Len(entries') : entries'[n].deleted => entries'[n].val = Empty
  BY <1>1, Updates
<1>3. /\ \A d \in 1 .. Len(calls'), n \in Key : calls'[d].tree[n] <= Len(entries)
      /\ WritesSound'
      /\ \A l \in lookups : l.call \in 1 .. Len(calls') /\ (Changing(l)' <=> Changing(l))
      /\ \A n \in Key \ overtaken : cache[n] = 0 =>
           \A d \in 1 .. Len(calls') :
             calls'[d].at \in {"skipping", "writing"} => calls'[d].tree[n] = 0
  BY CalmKeeps
<1>4. Types'
  BY <1>1, <1>2 DEF Types, Calm
<1>5. Ids'
  <2>1. Len(entries) \in Nat /\ Len(entries') \in Nat
    BY <1>1, <1>2 DEF Types
  <2>2. \A n \in Key : cache'[n] <= Len(entries')
    <3> SUFFICES ASSUME NEW n \in Key PROVE cache'[n] <= Len(entries')
      OBVIOUS
    <3>1. CASE n = k
      BY <1>2, <3>1
    <3>2. CASE n # k
      <4>1. cache'[n] = cache[n] /\ cache[n] <= Len(entries) /\ cache[n] \in Nat
        BY <1>1, <1>2, <3>2 DEF Ids, Types
      <4> QED BY <1>2, <2>1, <4>1
    <3> QED BY <3>1, <3>2
  <2>3. \A d \in 1 .. Len(calls'), n \in Key : calls'[d].tree[n] <= Len(entries')
    <3> SUFFICES ASSUME NEW d \in 1 .. Len(calls'), NEW n \in Key
                 PROVE  calls'[d].tree[n] <= Len(entries')
      OBVIOUS
    <3>1. calls'[d].tree \in [Key -> Nat]
      <4>1. calls'[d] \in CallType
        BY DEF Calm
      <4> QED BY <4>1 DEF CallType
    <3>2. calls'[d].tree[n] <= Len(entries)
      BY <1>3
    <3> QED BY <1>2, <2>1, <3>1, <3>2
  <2> QED BY <1>2, <1>3, <2>2, <2>3 DEF Ids
<1>6. AllLatest'
  <2> SUFFICES ASSUME NEW n \in Key \ overtaken' PROVE Latest(n)'
    BY DEF AllLatest
  <2>1. Latest(n)
    BY DEF IInv, AllLatest
  <2>2. CASE n = k
    <3>1. cache'[k] # 0 /\ entries'[cache'[k]].val = latest'[k]
      BY <1>2, <2>2
    <3>2. \A l \in lookups' : l.key = k /\ Changing(l)' => l.val = latest'[k]
      BY <1>3, <2>2
    <3> QED BY <2>2, <3>1, <3>2 DEF Latest
  <2>3. CASE n # k
    <3>1. /\ cache'[n] = cache[n] /\ latest'[n] = latest[n]
          /\ cache[n] # 0 => entries'[cache[n]] = entries[cache[n]]
      BY <1>2, <2>3
    <3>2. \A l \in lookups' : l.key = n /\ Changing(l)' => l.val = latest[n]
      BY <1>3, <2>1 DEF Latest
    <3>3. cache[n] = 0 => \A d \in 1 .. Len(calls') : Flushing(d)' => calls'[d].tree[n] = 0
      BY <1>3 DEF Flushing
    <3> QED BY <2>1, <3>1, <3>2, <3>3 DEF Latest
  <2> QED BY <2>2, <2>3
<1> QED BY <1>3, <1>4, <1>5, <1>6

\* The cache stays as it is, and no flush moves.
LEMMA CacheStays ==
  ASSUME IInv, Calm, UNCHANGED <<trie, base, writes, entries, cache, latest, overtaken>>,
         touched' \subseteq Key, lookups' \subseteq LookupType,
         \A l \in lookups' : /\ l.call \in 1 .. Len(calls')
                             /\ \/ l \in lookups
                                \/ l.key \notin overtaken => l.val = latest[l.key]
  PROVE  Types' /\ Ids' /\ WritesSound' /\ AllLatest'
<1>1. /\ \A d \in 1 .. Len(calls'), n \in Key : calls'[d].tree[n] <= Len(entries)
      /\ WritesSound'
      /\ \A l \in lookups : l.call \in 1 .. Len(calls') /\ (Changing(l)' <=> Changing(l))
      /\ \A n \in Key \ overtaken : cache[n] = 0 =>
           \A d \in 1 .. Len(calls') :
             calls'[d].at \in {"skipping", "writing"} => calls'[d].tree[n] = 0
  BY CalmKeeps
<1>2. Types'
  BY DEF IInv, Types, Calm
<1>3. Ids'
  BY <1>1 DEF IInv, Ids
<1>4. AllLatest'
  <2> SUFFICES ASSUME NEW n \in Key \ overtaken PROVE Latest(n)'
    BY DEF AllLatest
  <2>1. Latest(n)
    BY DEF IInv, AllLatest
  <2>2. \A l \in lookups' : l.key = n /\ Changing(l)' => l.val = latest[n]
    BY <1>1, <2>1 DEF Latest
  <2>3. cache[n] = 0 => \A d \in 1 .. Len(calls') : Flushing(d)' => calls'[d].tree[n] = 0
    BY <1>1 DEF Flushing
  <2> QED BY <2>1, <2>2, <2>3 DEF Latest
<1> QED BY <1>1, <1>2, <1>3, <1>4
-----------------------------------------------------------------------------
(* The other steps keep the invariant. *)

LEMMA PutKeeps ==
  ASSUME IInv, NEW k \in Key, NEW account \in Account, PutAccount(k, account)
  PROVE  IInv'
<1> DEFINE entry == Entry(account, TRUE, FALSE)
<1>1. /\ Update(k, entry) /\ touched' = touched \cup {k}
      /\ latest' = [latest EXCEPT ![k] = account]
      /\ overtaken' = overtaken \cup Late(k)
                        \cup (IF \E c \in DOMAIN calls : Cleaning(c) THEN {k} ELSE {})
      /\ UNCHANGED <<trie, base, writes, lookups, calls>>
  BY DEF PutAccount
<1>2. /\ calls \in Seq(CallType) /\ latest \in [Key -> Account] /\ overtaken \subseteq Key
      /\ touched \subseteq Key
  BY DEF IInv, Types
<1>3. entry \in EntryType /\ entry.val = account /\ ~entry.deleted
  BY DEF Entry, EntryType
<1> HIDE DEF entry
<1>4. Calm
  BY <1>1, <1>2 DEF Calm
<1>5. Late(k) \subseteq {k}
  BY DEF Late
<1>6. k \notin overtaken' => \A l \in lookups : ~(l.key = k /\ Changing(l))
  BY <1>1 DEF Late
<1>7. /\ latest' \in [Key -> Account] /\ latest'[k] = account
      /\ \A n \in Key \ {k} : latest'[n] = latest[n]
  BY <1>1, <1>2
<1>8. touched' \subseteq Key /\ overtaken' \subseteq Key /\ overtaken \subseteq overtaken'
  BY <1>1, <1>2, <1>5
<1>9. Types' /\ Ids' /\ WritesSound' /\ AllLatest'
  BY <1>1, <1>3, <1>4, <1>6, <1>7, <1>8, UpdateKeeps
<1>10. NobodyForgotten'
  BY <1>1 DEF IInv, NobodyForgotten
<1> QED BY <1>9, <1>10 DEF IInv

\* A call begins and asks for accounts, all it waits for among them.
LEMMA AskKeeps ==
  ASSUME IInv, NEW call \in CallType, call.at \in {"waiting", "done"}, call.tree = NoTree,
         Begin(call), NEW keys \in SUBSET Key, Ask(keys),
         call.at = "waiting" => keys # {} /\ call.todo \subseteq keys,
         UNCHANGED <<trie, base, writes, entries, cache, touched, latest, overtaken>>
  PROVE  IInv'
<1> DEFINE asked(k) == [call |-> Len(calls) + 1, key |-> k, hit |-> cache[k] # 0,
                        val |-> Found(k)]
<1>1. Types /\ Ids
  BY DEF IInv
<1>2. /\ Calm /\ Len(calls') = Len(calls) + 1 /\ calls'[Len(calls) + 1] = call
      /\ \A d \in 1 .. Len(calls) : calls'[d] = calls[d]
  BY <1>1, Begins
<1>3. lookups' = lookups \cup {asked(k) : k \in keys}
  BY DEF Ask
<1>4. Len(calls) \in Nat /\ touched \subseteq Key /\ lookups \subseteq LookupType
      /\ calls' \in Seq(CallType) /\ DOMAIN calls = 1 .. Len(calls)
      /\ DOMAIN calls' = 1 .. Len(calls') /\ DOMAIN writes = 1 .. Len(writes)
  BY <1>1, <1>2 DEF Types, Calm
<1>5. \A k \in keys : /\ asked(k) \in LookupType /\ asked(k).call = Len(calls) + 1
                      /\ asked(k).key = k
                      /\ k \notin overtaken => asked(k).val = latest[k]
  BY <1>4, Finds DEF LookupType
<1> HIDE DEF asked
<1>6. lookups' \subseteq LookupType
  BY <1>3, <1>4, <1>5
<1>7. \A l \in lookups' : /\ l.call \in 1 .. Len(calls')
                          /\ \/ l \in lookups
                             \/ l.key \notin overtaken => l.val = latest[l.key]
  <2>1. \A l \in lookups : l.call \in 1 .. Len(calls')
    BY <1>1, <1>2, <1>4 DEF Ids
  <2>2. Len(calls) + 1 \in 1 .. Len(calls')
    BY <1>2, <1>4
  <2> QED BY <1>3, <1>5, <2>1, <2>2
<1>8. Types' /\ Ids' /\ WritesSound' /\ AllLatest'
  BY <1>2, <1>4, <1>6, <1>7, CacheStays
<1>9. NobodyForgotten'
  <2>1. \A d \in 1 .. Len(calls') : calls'[d].at = "writing" =>
          \E n \in 1 .. Len(writes) : writes[n].call = d /\ writes[n].key = calls'[d].key
    BY <1>2, CalmKeeps
  <2>2. \A d \in 1 .. Len(calls') : calls'[d].at = "waiting" =>
          /\ \E l \in lookups' : l.call = d
          /\ \A k \in calls'[d].todo : \E l \in lookups' : l.call = d /\ l.key = k
    <3> SUFFICES ASSUME NEW d \in 1 .. Len(calls'), calls'[d].at = "waiting"
                 PROVE  /\ \E l \in lookups' : l.call = d
                        /\ \A k \in calls'[d].todo : \E l \in lookups' : l.call = d /\ l.key = k
      OBVIOUS
    <3>1. CASE d \in 1 .. Len(calls)
      BY <1>2, <1>3, <1>4, <3>1 DEF IInv, NobodyForgotten
    <3>2. CASE d \notin 1 .. Len(calls)
      <4>1. d = Len(calls) + 1 /\ calls'[d] = call
        BY <1>2, <1>4, <3>2
      <4>2. \A k \in keys : asked(k) \in lookups'
        BY <1>3
      <4> QED BY ZenonT(40), <1>5, <4>1, <4>2
    <3> QED BY <3>1, <3>2
  <2> QED BY <1>4, <2>1, <2>2 DEF NobodyForgotten
<1> QED BY <1>8, <1>9 DEF IInv

LEMMA GetKeeps ==
  ASSUME IInv, NEW k \in Key, GetAccount(k)
  PROVE  IInv'
<1> DEFINE call == IF cache[k] # 0 THEN Done(NewCall("get")) ELSE NewCall("get")
           keys == IF cache[k] # 0 THEN {} ELSE {k}
<1>1. /\ Begin(call) /\ Ask(keys)
      /\ UNCHANGED <<trie, base, writes, entries, cache, touched, latest, overtaken>>
  BY DEF GetAccount, ghosts
<1>2. PICK new \in CallType : /\ new = NewCall("get") /\ new.at = "waiting"
                              /\ new.tree = NoTree /\ new.todo = {}
  BY CallTypes
<1>3. /\ call \in CallType /\ call.at \in {"waiting", "done"} /\ call.tree = NoTree
      /\ keys \in SUBSET Key
      /\ call.at = "waiting" => keys # {} /\ call.todo \subseteq keys
  <2>1. CASE cache[k] # 0
    BY <1>2, <2>1, CallTypes
  <2>2. CASE cache[k] = 0
    BY <1>2, <2>2
  <2> QED BY <2>1, <2>2
<1> HIDE DEF call, keys
<1> QED BY <1>1, <1>3, AskKeeps

LEMMA CleanupKeeps ==
  ASSUME IInv, CleanupTouchedAccounts
  PROVE  IInv'
<1> DEFINE call == [NewCall("cleanup") EXCEPT !.keys = touched, !.todo = touched]
<1>1. /\ touched # {} /\ Begin(call) /\ Ask(touched)
      /\ UNCHANGED <<trie, base, writes, entries, cache, touched, latest, overtaken>>
  BY DEF CleanupTouchedAccounts, ghosts
<1>2. PICK new \in CallType : /\ new = NewCall("cleanup") /\ new.at = "waiting"
                              /\ new.tree = NoTree
  BY CallTypes
<1>3. touched \in SUBSET Key
  BY DEF IInv, Types
<1>4. /\ call \in CallType /\ call.at = "waiting" /\ call.tree = NoTree
      /\ call.todo = touched
  BY <1>2, <1>3 DEF CallType
<1> HIDE DEF call
<1> QED BY <1>1, <1>3, <1>4, AskKeeps

\* Of the calls only the one that l answers may wait for less.
LEMMA StillWaited ==
  ASSUME IInv, NEW l \in lookups, lookups' = lookups \ {l}, UNCHANGED writes, Calm,
         Len(calls') = Len(calls),
         \A d \in 1 .. Len(calls) \ {l.call} : calls'[d] = calls[d],
         calls'[l.call].at = "waiting" =>
           /\ calls[l.call].at = "waiting" /\ calls'[l.call].todo # {}
           /\ calls'[l.call].todo \subseteq calls[l.call].todo \ {l.key}
  PROVE  NobodyForgotten'
<1>1. /\ DOMAIN calls = 1 .. Len(calls) /\ DOMAIN calls' = 1 .. Len(calls)
      /\ DOMAIN writes = 1 .. Len(writes)
  BY DEF IInv, Types, Calm
<1>2. \A d \in 1 .. Len(calls') : calls'[d].at = "writing" =>
        \E n \in 1 .. Len(writes) : writes[n].call = d /\ writes[n].key = calls'[d].key
  BY CalmKeeps
<1>3. \A d \in 1 .. Len(calls) : calls[d].at = "waiting" =>
        /\ \E a \in lookups : a.call = d
        /\ \A k \in calls[d].todo : \E a \in lookups : a.call = d /\ a.key = k
  BY <1>1 DEF IInv, NobodyForgotten
<1>4. \A d \in 1 .. Len(calls) : calls'[d].at = "waiting" =>
        /\ \E a \in lookups' : a.call = d
        /\ \A k \in calls'[d].todo : \E a \in lookups' : a.call = d /\ a.key = k
  <2> SUFFICES ASSUME NEW d \in 1 .. Len(calls), calls'[d].at = "waiting"
               PROVE  /\ \E a \in lookups' : a.call = d
                      /\ \A k \in calls'[d].todo : \E a \in lookups' : a.call = d /\ a.key = k
    OBVIOUS
  <2>1. CASE d # l.call
    BY <1>3, <2>1
  <2>2. CASE d = l.call
    <3>1. /\ calls[d].at = "waiting" /\ calls'[d].todo # {}
          /\ calls'[d].todo \subseteq calls[d].todo \ {l.key}
      BY <2>2
    <3>2. \A k \in calls'[d].todo : \E a \in lookups' : a.call = d /\ a.key = k
      BY <1>3, <3>1
    <3> QED BY <3>1, <3>2
  <2> QED BY <2>1, <2>2
<1>5. UNCHANGED writes /\ Len(calls') = Len(calls)
  OBVIOUS
<1> QED BY ONLY <1>1, <1>2, <1>4, <1>5 DEF NobodyForgotten

LEMMA AnswerKeeps ==
  ASSUME IInv, NEW l \in lookups, Answer(l)
  PROVE  IInv'
<1> DEFINE call == calls[l.call]
           todo == call.todo \ {l.key}
           last == call.at = "waiting" /\ todo = {}
           x == IF last THEN Done(call) ELSE [call EXCEPT !.todo = todo]
           entry == IF Empties(l) THEN DeletedEntry ELSE Entry(l.val, FALSE, FALSE)
<1>1. /\ lookups' = lookups \ {l}
      /\ calls' = [calls EXCEPT ![l.call] = x]
      /\ touched' = IF last /\ call.kind = "cleanup" THEN {} ELSE touched
      /\ \/ Update(l.key, entry) /\ (Empties(l) \/ ~l.hit)
         \/ UNCHANGED <<entries, cache>> /\ ~Empties(l)
      /\ overtaken' = overtaken \cup
           {a.key : a \in {b \in lookups \ {l} : b.key = l.key /\ Changing(b) /\ Empties(l)}}
      /\ UNCHANGED <<trie, base, writes, latest>>
  BY DEF Answer
<1>2. Types /\ Ids
  BY DEF IInv
<1>3. /\ l \in LookupType /\ l.key \in Key /\ l.val \in Account
      /\ l.call \in 1 .. Len(calls) /\ call \in CallType /\ call.todo \subseteq Key
  BY <1>2, Elements DEF Ids
<1>4. /\ overtaken \subseteq Key /\ touched \subseteq Key /\ latest \in [Key -> Account]
      /\ lookups \subseteq LookupType
  BY <1>2 DEF Types
<1>5. /\ x \in CallType /\ x.kind = call.kind
      /\ \/ last /\ x.at = "done" /\ x.tree = NoTree
         \/ /\ ~last /\ x.at = call.at /\ x.tree = call.tree /\ x.key = call.key
            /\ x.todo = todo
  <2>1. CASE last
    BY <1>3, <2>1, CallTypes
  <2>2. CASE ~last
    BY <1>3, <2>2 DEF CallType
  <2> QED BY <2>1, <2>2
<1>6. last => call.at = "waiting"
  OBVIOUS
<1> HIDE DEF x
<1>7. /\ Calm /\ Len(calls') = Len(calls) /\ calls'[l.call] = x
      /\ \A d \in 1 .. Len(calls) \ {l.call} : calls'[d] = calls[d]
  <2>1. \/ x.at = "done" /\ call.at # "writing" /\ x.tree = NoTree
        \/ x.at = call.at /\ x.tree = call.tree /\ x.key = call.key
    BY <1>5, <1>6
  <2> HIDE DEF last
  <2> QED BY <1>1, <1>2, <1>3, <1>5, <2>1, Settles
<1>8. NobodyForgotten'
  <2>1. x.at = "waiting" => call.at = "waiting" /\ x.todo # {} /\ x.todo = call.todo \ {l.key}
    BY <1>5
  <2> HIDE DEF last
  <2> QED BY <1>1, <1>7, <2>1, StillWaited
<1>9. touched' \subseteq Key
  BY <1>1, <1>4
<1> HIDE DEF last
<1>10. CASE Update(l.key, entry) /\ (Empties(l) \/ ~l.hit)
  <2>1. entry \in EntryType /\ entry.val = l.val /\ (entry.deleted => entry.val = Empty)
    BY <1>3 DEF Empties, DeletedEntry, Entry, EntryType
  <2> HIDE DEF entry
  <2>2. overtaken \subseteq overtaken' /\ overtaken' \subseteq Key
    BY <1>1, <1>3, <1>4
  <2>3. Changing(l)
    BY <1>10 DEF Changing, Empties
  <2>4. l.key \notin overtaken' =>
          entry.val = latest[l.key]
            /\ \A a \in lookups' : a.key = l.key /\ Changing(a) => a.val = latest[l.key]
    <3>1. l.key \notin overtaken => Latest(l.key)
      BY <1>3 DEF IInv, AllLatest
    <3> QED BY <1>1, <2>1, <2>2, <2>3, <3>1 DEF Latest
  <2>5. lookups' \subseteq lookups /\ UNCHANGED <<trie, base, writes, latest>>
    BY <1>1
  <2>6. Types' /\ Ids' /\ WritesSound' /\ AllLatest'
    BY <1>3, <1>4, <1>7, <1>9, <1>10, <2>1, <2>2, <2>4, <2>5, UpdateKeeps
  <2> QED BY <1>8, <2>6 DEF IInv
<1>11. CASE UNCHANGED <<entries, cache>> /\ ~Empties(l)
  <2>1. UNCHANGED <<trie, base, writes, entries, cache, latest, overtaken>>
    BY <1>1, <1>11
  <2>2. lookups' \subseteq LookupType
        /\ \A a \in lookups' : a.call \in 1 .. Len(calls') /\ a \in lookups
    BY <1>1, <1>2, <1>4, <1>7 DEF Ids
  <2>3. Types' /\ Ids' /\ WritesSound' /\ AllLatest'
    BY <1>7, <1>9, <2>1, <2>2, CacheStays
  <2> QED BY <1>8, <2>3 DEF IInv
<1> QED BY <1>1, <1>10, <1>11

LEMMA LoadFailsKeeps ==
  ASSUME IInv, NEW l \in lookups, LoadFails(l)
  PROVE  IInv'
<1> DEFINE call == calls[l.call]
           x == IF call.at = "waiting" THEN Failed(call) ELSE call
<1>1. /\ lookups' = lookups \ {l}
      /\ calls' = [calls EXCEPT ![l.call] = x]
      /\ touched' = IF Cleaning(l.call) THEN {} ELSE touched
      /\ UNCHANGED <<trie, base, writes, entries, cache, latest, overtaken>>
  BY DEF LoadFails, ghosts
<1>2. Types /\ Ids
  BY DEF IInv
<1>3. /\ l.call \in 1 .. Len(calls) /\ call \in CallType
      /\ touched \subseteq Key /\ lookups \subseteq LookupType
  BY <1>2, Elements DEF Ids, Types
<1>4. /\ x \in CallType /\ x.kind = call.kind /\ x.at # "waiting"
      /\ \/ x.at = "done" /\ call.at # "writing" /\ x.tree = NoTree
         \/ x.at = call.at /\ x.tree = call.tree /\ x.key = call.key
  <2>1. CASE call.at = "waiting"
    BY <1>3, <2>1, CallTypes
  <2>2. CASE call.at # "waiting"
    BY <1>3, <2>2
  <2> QED BY <2>1, <2>2
<1> HIDE DEF x
<1>5. /\ Calm /\ Len(calls') = Len(calls) /\ calls'[l.call] = x
      /\ \A d \in 1 .. Len(calls) \ {l.call} : calls'[d] = calls[d]
  BY <1>1, <1>2, <1>3, <1>4, Settles
<1>6. touched' \subseteq Key /\ lookups' \subseteq LookupType
  BY <1>1, <1>3
<1>7. \A a \in lookups' : a.call \in 1 .. Len(calls') /\ a \in lookups
  BY <1>1, <1>2, <1>5 DEF Ids
<1>8. Types' /\ Ids' /\ WritesSound' /\ AllLatest'
  BY <1>1, <1>5, <1>6, <1>7, CacheStays
<1>9. NobodyForgotten'
  BY <1>1, <1>4, <1>5, StillWaited
<1> QED BY <1>8, <1>9 DEF IInv

\* A call that waited for no answer ends: what a root, entered or refused, means
\* to those who wait.
LEMMA EndKeeps ==
  ASSUME IInv, NEW c \in 1 .. Len(calls), calls[c].at = "checking",
         \/ calls' = [calls EXCEPT ![c] = Done(@)]
         \/ calls' = [calls EXCEPT ![c] = Failed(@)],
         UNCHANGED <<writes, lookups>>
  PROVE  /\ Calm /\ Len(calls') = Len(calls) /\ calls'[c].at = "done"
         /\ \A d \in 1 .. Len(calls) \ {c} : calls'[d] = calls[d]
         /\ NobodyForgotten'
<1>1. Types /\ calls[c] \in CallType
  BY Elements DEF IInv
<1>2. PICK x \in CallType : /\ x = Done(calls[c]) \/ x = Failed(calls[c])
                            /\ calls' = [calls EXCEPT ![c] = x]
  BY <1>1, CallTypes
<1>3. x.kind = calls[c].kind /\ x.at = "done" /\ x.tree = NoTree
  BY <1>1, <1>2, CallTypes
<1>4. /\ Calm /\ Len(calls') = Len(calls) /\ calls'[c] = x
      /\ \A d \in 1 .. Len(calls) \ {c} : calls'[d] = calls[d]
  BY <1>1, <1>2, <1>3, Settles
<1>5. DOMAIN calls = 1 .. Len(calls) /\ DOMAIN calls' = 1 .. Len(calls)
      /\ DOMAIN writes = 1 .. Len(writes)
  BY <1>1, <1>4 DEF Types, Calm
<1>6. NobodyForgotten'
  BY <1>3, <1>4, <1>5 DEF IInv, NobodyForgotten
<1> QED BY <1>3, <1>4, <1>6

LEMMA EnterKeeps ==
  ASSUME IInv, NEW c \in 1 .. Len(calls), EnterRoot(c)
  PROVE  IInv'
<1>1. /\ calls[c].at = "checking" /\ trie' = calls[c].root /\ cache' = NoTree
      /\ calls' = [calls EXCEPT ![c] = Done(@)]
      /\ latest' = [k \in Key |-> Read(calls[c].root[k])]
      /\ overtaken' = IF \E d \in DOMAIN calls : Flushing(d) THEN Key
                      ELSE overtaken \cup UNION {Late(k) : k \in Key}
      /\ UNCHANGED <<base, writes, entries, touched, lookups>>
  BY DEF EnterRoot, Cleared
<1>2. Types /\ Ids
  BY DEF IInv
<1>3. /\ calls[c] \in CallType /\ calls[c].root \in [Key -> Value]
      /\ DOMAIN calls = 1 .. Len(calls) /\ NoTree \in [Key -> Nat]
  BY <1>2, Elements, CallTypes
<1>4. /\ Calm /\ Len(calls') = Len(calls) /\ calls'[c].at = "done"
      /\ \A d \in 1 .. Len(calls) \ {c} : calls'[d] = calls[d]
      /\ NobodyForgotten'
  BY <1>1, EndKeeps
<1>5. /\ \A d \in 1 .. Len(calls'), k \in Key : calls'[d].tree[k] <= Len(entries)
      /\ WritesSound'
      /\ \A l \in lookups : l.call \in 1 .. Len(calls') /\ (Changing(l)' <=> Changing(l))
  BY <1>1, <1>4, CalmKeeps
<1>6. Types'
  <2>1. overtaken' \subseteq Key
    <3>1. UNION {Late(k) : k \in Key} \subseteq Key
      BY DEF Late
    <3>2. overtaken \subseteq Key
      BY <1>2 DEF Types
    <3> QED BY <1>1, <3>1, <3>2
  <2>2. latest' \in [Key -> Account]
    <3>1. \A k \in Key : Read(calls[c].root[k]) \in Account
      BY <1>3, ReadType
    <3> QED BY <1>1, <3>1
  <2>3. calls' \in Seq(CallType)
    BY <1>4 DEF Calm
  <2> QED BY <1>1, <1>2, <1>3, <2>1, <2>2, <2>3 DEF Types
<1>7. Ids'
  <2>1. \A k \in Key : NoTree[k] <= Len(entries)
    BY <1>2 DEF NoTree, Types
  <2> QED BY <1>1, <1>2, <1>5, <2>1 DEF Ids
<1>8. AllLatest'
  <2> SUFFICES ASSUME NEW k \in Key \ overtaken' PROVE Latest(k)'
    BY DEF AllLatest
  <2>1. /\ ~ \E d \in DOMAIN calls : Flushing(d)
        /\ k \notin Late(k)
    BY <1>1
  <2>2. writes = <<>>
    <3> SUFFICES ASSUME writes # <<>> PROVE FALSE
      OBVIOUS
    <3>1. 1 \in 1 .. Len(writes)
      BY <1>2, Rest DEF Types
    <3>2. writes[1].call \in 1 .. Len(calls) /\ calls[writes[1].call].at = "writing"
      BY <3>1 DEF IInv, WritesSound
    <3> QED BY <1>3, <2>1, <3>2 DEF Flushing
  <2>3. \A d \in 1 .. Len(calls') : ~Flushing(d)'
    BY <1>3, <1>4, <2>1 DEF Flushing
  <2>4. \A l \in lookups : ~(l.key = k /\ Changing(l))
    BY <2>1 DEF Late
  <2>5. cache'[k] = 0 /\ Read(trie'[k]) = latest'[k]
    BY <1>1 DEF NoTree
  <2>6. Len(writes') = 0 /\ writes' = <<>>
    BY <1>1, <2>2
  <2> QED BY <1>1, <1>5, <2>3, <2>4, <2>5, <2>6 DEF Latest
<1> QED BY <1>4, <1>5, <1>6, <1>7, <1>8 DEF IInv

LEMMA RefuseKeeps ==
  ASSUME IInv, NEW c \in 1 .. Len(calls), RefuseRoot(c)
  PROVE  IInv'
<1>1. /\ calls[c].at = "checking" /\ calls' = [calls EXCEPT ![c] = Failed(@)]
      /\ UNCHANGED <<trie, base, writes, entries, cache, touched, lookups, latest, overtaken>>
  BY DEF RefuseRoot, ghosts
<1>2. /\ Calm /\ Len(calls') = Len(calls) /\ NobodyForgotten'
  BY <1>1, EndKeeps
<1>3. touched' \subseteq Key /\ lookups' \subseteq LookupType
      /\ \A l \in lookups' : l.call \in 1 .. Len(calls') /\ l \in lookups
  BY <1>1, <1>2 DEF IInv, Types, Ids
<1>4. Types' /\ Ids' /\ WritesSound' /\ AllLatest'
  BY <1>1, <1>2, <1>3, CacheStays
<1> QED BY <1>2, <1>4 DEF IInv
-----------------------------------------------------------------------------
(* The theorems. *)

LEMMA InitHolds ==
  ASSUME Init
  PROVE  IInv
<1>1. /\ trie \in [Key -> Start] /\ base = trie /\ writes = <<>> /\ entries = <<>>
      /\ cache = NoTree /\ touched = {} /\ lookups = {} /\ calls = <<>>
      /\ latest = [k \in Key |-> Read(trie[k])] /\ overtaken = {}
  BY DEF Init
<1>2. trie \in [Key -> Value]
  BY <1>1 DEF Value
<1>3. latest \in [Key -> Account]
  BY <1>1, <1>2, ReadType
<1>4. \A k \in Key : NoTree[k] = 0
  BY DEF NoTree
<1>5. Types
  BY <1>1, <1>2, <1>3, CallTypes DEF Types
<1>6. Len(writes) = 0 /\ Len(calls) = 0 /\ Len(entries) = 0
  BY <1>1
<1>7. Ids /\ WritesSound /\ NobodyForgotten
  BY <1>1, <1>4, <1>6 DEF Ids, WritesSound, NobodyForgotten
<1>8. AllLatest
  BY <1>1, <1>4, <1>6 DEF AllLatest, Latest
<1> QED BY <1>5, <1>7, <1>8 DEF IInv

LEMMA NextKeeps ==
  ASSUME IInv, [Next]_vars
  PROVE  IInv'
<1>1. DOMAIN calls = 1 .. Len(calls)
  BY DEF IInv, Types
<1>2. ASSUME NEW k \in Key, GetAccount(k) PROVE IInv'
  BY <1>2, GetKeeps
<1>3. ASSUME NEW k \in Key, NEW account \in Account, PutAccount(k, account) PROVE IInv'
  BY <1>3, PutKeeps
<1>4. ASSUME CleanupTouchedAccounts PROVE IInv'
  BY <1>4, CleanupKeeps
<1>5. ASSUME GetStateRoot PROVE IInv'
  BY <1>5, CallTypes, FlushKeeps DEF GetStateRoot
<1>6. ASSUME SetStateRoot(EmptyTrie) PROVE IInv'
  <2> DEFINE call == [NewCall("reset") EXCEPT !.root = EmptyTrie]
  <2>1. PICK new \in CallType : new = NewCall("reset")
    BY CallTypes
  <2>2. call \in CallType
    BY <2>1, CallTypes DEF CallType
  <2> HIDE DEF call
  <2>3. Flush(call)
    BY <1>6 DEF SetStateRoot, call
  <2> QED BY <2>2, <2>3, FlushKeeps
<1>7. ASSUME NEW l \in lookups, Answer(l) \/ LoadFails(l) PROVE IInv'
  BY <1>7, AnswerKeeps, LoadFailsKeeps
<1>8. ASSUME NEW c \in 1 .. Len(calls), Skip(c) \/ EnterRoot(c) \/ RefuseRoot(c) PROVE IInv'
  BY <1>8, SkipKeeps, EnterKeeps, RefuseKeeps
<1>9. ASSUME Write \/ WriteFails PROVE IInv'
  BY <1>9, WriteKeeps, WriteFailsKeeps
<1>10. ASSUME UNCHANGED vars PROVE IInv'
  BY <1>10 DEF vars, ghosts, IInv, Types, Ids, WritesSound, AllLatest, Latest, Flushing,
               Changing, NobodyForgotten
<1> QED BY <1>1, <1>2, <1>3, <1>4, <1>5, <1>6, <1>7, <1>8, <1>9, <1>10 DEF Next, Callback

\* The types, and what relates cache, trie, flushes and answers under way, hold in
\* every state (cache.ts; stateManager.ts cleanupTouchedAccounts, setStateRoot).
THEOREM Inductive == Spec => []IInv
<1>1. Init => IInv
  BY InitHolds
<1>2. IInv /\ [Next]_vars => IInv'
  BY NextKeeps
<1> QED BY <1>1, <1>2, PTL DEF Spec

\* Nobody is forgotten: whatever calls overlap and whatever the trie answers, a
\* call that is not over waits for an answer that is still to come (cache.ts
\* flush, getOrLoad; stateManager.ts cleanupTouchedAccounts).
THEOREM Waits == Spec => []NobodyForgotten
<1>1. IInv => NobodyForgotten
  BY DEF IInv
<1> QED BY <1>1, Inductive, PTL

\* Who asks finds the account put last, in the cache or in the trie, also while
\* flushes walk through older versions of the tree and write (cache.ts
\* getOrLoad, flush, _update; stateManager.ts setStateRoot).
THEOREM Finding == Spec => []FindsLatest
<1>1. IInv => FindsLatest
  BY Finds DEF FindsLatest
<1> QED BY <1>1, Inductive, PTL
-----------------------------------------------------------------------------
(* Flushes that do not overlap: what they and the cleanups have done, and     *)
(* what they will still find.                                                *)

\* Whether a flush has something to write for the entry id.
Dirty(id) == id # 0 /\ (entries[id].modified \/ entries[id].deleted)

\* The trie has one of V at k, or will once the write under way is answered,
\* unless a write of k failed.
Reaches(k, V) ==
  /\ \A n \in 1 .. Len(writes) : writes[n].key = k => writes[n].val \in V
  /\ (\A n \in 1 .. Len(writes) : writes[n].key # k) /\ k \notin unwritten => trie[k] \in V
Reading(v) == {w \in Value : Read(w) = v}

\* What a flush and a cleanup under way may rely on at k.
Coherent(k) ==
  /\ writes # <<>> => base[k] = trie[k]
  /\ \A l \in lookups : l.key = k /\ ~l.hit => ~Dirty(cache[k])
  /\ cache[k] # 0 /\ ~Dirty(cache[k]) => Reaches(k, Reading(latest[k]))
  /\ \A c \in 1 .. Len(calls) : Flushing(c) =>
       /\ calls[c].tree[k] # 0 => entries[calls[c].tree[k]].val = calls[c].promised[k]
       /\ Dirty(calls[c].tree[k]) =>
            /\ calls[c].key # 0 /\ k > calls[c].key
            /\ cache[k] = calls[c].tree[k] \/ Dirty(cache[k])
       /\ ~Dirty(calls[c].tree[k]) => Reaches(k, Reading(calls[c].promised[k]))
  /\ \A c \in 1 .. Len(calls) :
       Cleaning(c) /\ k \in calls[c].keys \ calls[c].todo /\ latest[k] = Empty =>
         \/ cache[k] # 0 /\ entries[cache[k]].deleted
         \/ ~Dirty(cache[k]) /\ Reaches(k, {Absent})

\* An entry is of one key, and either modified or deleted; flushes that do not
\* overlap go one after the other.
OneKey(list) ==
  \A k, n \in Key : k # n =>
    /\ cache[k] # 0 =>
         cache[k] # cache[n] /\ \A c \in 1 .. Len(list) : cache[k] # list[c].tree[n]
    /\ \A c, d \in 1 .. Len(list) :
         list[c].tree[k] # 0 => list[c].tree[k] # list[d].tree[n]
OneKind == \A n \in 1 .. Len(entries) : ~(entries[n].modified /\ entries[n].deleted)
Alone == \A c, d \in 1 .. Len(calls) : Flushing(c) /\ Flushing(d) => c = d
Roots(list) == \A c \in 1 .. Len(list) : list[c].root = EmptyTrie

\* While no two flushes have overlapped.
Orderly ==
  /\ OneKey(calls) /\ OneKind /\ Alone /\ Roots(calls)
  /\ \A k \in Key \ overtaken : Coherent(k)
Strict == IInv /\ (~overlapped => Orderly)
-----------------------------------------------------------------------------
\* What a round of the loop at key k does, exactly, to the flush c of list when
\* nothing else is to be written.
Round(list, c, k) ==
  /\ Len(calls') = Len(list) /\ \A d \in 1 .. Len(list) \ {c} : calls'[d] = list[d]
  /\ calls'[c].key = k /\ calls'[c].at \in {"skipping", "writing"}
  /\ calls'[c].tree = list[c].tree /\ calls'[c].promised = list[c].promised
  /\ calls'[c].root = list[c].root
  /\ \A i \in 1 .. Len(entries) : entries'[i].val = entries[i].val
  /\ k # 0 /\ Dirty(list[c].tree[k]) =>
       /\ \A i \in 1 .. Len(entries) \ {list[c].tree[k]} : entries'[i] = entries[i]
       /\ ~entries'[list[c].tree[k]].modified /\ ~entries'[list[c].tree[k]].deleted
       /\ Len(writes') = 1 /\ writes'[1].key = k /\ writes'[1].val \in Value
       /\ Read(writes'[1].val) = entries[list[c].tree[k]].val
       /\ entries[list[c].tree[k]].deleted => writes'[1].val = Absent
  /\ ~(k # 0 /\ Dirty(list[c].tree[k])) => writes' = <<>> /\ entries' = entries

LEMMA Rounds ==
  ASSUME Types, Ids, OneKind, NEW list \in Seq(CallType), NEW c \in 1 .. Len(list),
         NEW k \in Key \cup {0}, k # 0 => list[c].tree[k] \in 1 .. Len(entries),
         Visit(list, <<>>, c, k)
  PROVE  Round(list, c, k)
<1> DEFINE id == list[c].tree[k]
           entry == entries[id]
           dirty == k # 0 /\ (entry.modified \/ entry.deleted)
           at == IF dirty THEN "writing" ELSE "skipping"
           call == [list[c] EXCEPT !.key = k, !.at = at]
           clean == IF entry.modified THEN [entry EXCEPT !.modified = FALSE]
                    ELSE Entry(Empty, FALSE, FALSE)
           w == [call |-> c, key |-> k, val |-> IF entry.modified THEN entry.val ELSE Absent]
<1>1. /\ calls' = [list EXCEPT ![c].key = k, ![c].at = at]
      /\ dirty => entries' = [entries EXCEPT ![id] = clean] /\ writes' = Append(<<>>, w)
      /\ ~dirty => entries' = entries /\ writes' = <<>>
  BY DEF Visit
<1>2. list[c] \in CallType /\ k \in Nat /\ Len(list) \in Nat /\ c \in Nat
  OBVIOUS
<1>3. /\ call \in CallType /\ call.tree = list[c].tree /\ call.promised = list[c].promised
      /\ call.root = list[c].root /\ call.at = at /\ call.key = k
  BY <1>2 DEF CallType
<1>4. calls' = [list EXCEPT ![c] = call]
  BY <1>1, <1>2
<1> HIDE DEF call
<1>5. /\ Len(calls') = Len(list) /\ \A d \in 1 .. Len(list) \ {c} : calls'[d] = list[d]
      /\ calls'[c] = call
  BY <1>3, <1>4, Replaced
<1>6. entries \in Seq(EntryType) /\ \A n \in 1 .. Len(entries) : entries[n] \in EntryType
  BY DEF Types
<1>7. at \in {"skipping", "writing"}
  OBVIOUS
<1>8. dirty <=> k # 0 /\ Dirty(id)
  BY DEF Dirty
<1>9. CASE dirty
  <2>1. id \in 1 .. Len(entries) /\ entry \in EntryType
    BY <1>6, <1>9
  <2>2. /\ clean \in EntryType /\ clean.val = entry.val /\ ~clean.deleted /\ ~clean.modified
        /\ w.key = k /\ w.val \in Value /\ Read(w.val) = entry.val
        /\ entry.deleted => w.val = Absent
    <3>1. CASE entry.modified
      <4>1. ~entry.deleted
        BY <2>1, <3>1 DEF OneKind
      <4> QED BY <2>1, <3>1, <4>1 DEF EntryType, Value, Read
    <3>2. CASE ~entry.modified
      <4>1. entry.val = Empty
        BY <1>9, <2>1, <3>2 DEF Ids
      <4> QED BY <3>2, <4>1 DEF EntryType, Entry, Value, Read
    <3> QED BY <3>1, <3>2
  <2>3. writes' = Append(<<>>, w) /\ entries' = [entries EXCEPT ![id] = clean]
    BY <1>1, <1>9
  <2>4. Len(writes') = 1 /\ writes'[1] = w
    BY <2>3
  <2>5. k # 0 /\ Dirty(id)
    BY <1>8, <1>9
  <2> HIDE DEF dirty, w, clean
  <2>6. /\ \A n \in 1 .. Len(entries) \ {id} : entries'[n] = entries[n]
        /\ entries'[id] = clean
    BY <1>6, <2>1, <2>2, <2>3, Replaced
  <2>7. \A n \in 1 .. Len(entries) : entries'[n].val = entries[n].val
    BY <2>1, <2>2, <2>6
  <2> HIDE DEF at, id
  <2> QED BY <1>3, <1>5, <1>7, <2>2, <2>4, <2>5, <2>6, <2>7 DEF Round, id
<1>10. CASE ~dirty
  <2>1. entries' = entries /\ writes' = <<>> /\ ~(k # 0 /\ Dirty(id))
    BY <1>1, <1>8, <1>10
  <2> HIDE DEF dirty, at
  <2> QED BY <1>3, <1>5, <1>7, <2>1 DEF Round
<1> QED BY <1>9, <1>10

\* The trie has one of V at n, unless a write of n failed, once the write under
\* way is answered.
Awaits(n, V) == n \notin unwritten' => trie'[n] \in V

\* What is known at key n when the flush c of list takes its next step, having
\* come as far as from.
Settled(list, c, n, from) ==
  /\ \A l \in lookups : l.key = n /\ ~l.hit => ~Dirty(cache[n])
  /\ cache[n] # 0 => entries[cache[n]].val = latest[n]
  /\ cache[n] = 0 => list[c].tree[n] = 0
  /\ cache[n] # 0 /\ ~Dirty(cache[n]) => Awaits(n, Reading(latest[n]))
  /\ list[c].tree[n] # 0 => entries[list[c].tree[n]].val = list[c].promised[n]
  /\ Dirty(list[c].tree[n]) =>
       n > from /\ (cache[n] = list[c].tree[n] \/ Dirty(cache[n]))
  /\ ~Dirty(list[c].tree[n]) => Awaits(n, Reading(list[c].promised[n]))
  /\ \A d \in 1 .. Len(list) :
       /\ list[d].kind = "cleanup" /\ list[d].at = "waiting"
       /\ n \in list[d].keys \ list[d].todo /\ latest[n] = Empty
       => \/ cache[n] # 0 /\ entries[cache[n]].deleted
          \/ ~Dirty(cache[n]) /\ Awaits(n, {Absent})

\* A round of the loop.
LEMMA RoundCoherent ==
  ASSUME NEW list, NEW c \in 1 .. Len(list), NEW k \in Key \cup {0}, NEW from \in Nat,
         NEW n \in Key, Types, Ids,
         list[c].tree \in [Key -> Nat], list[c].tree[n] <= Len(entries),
         Round(list, c, k), Settled(list, c, n, from),
         k = Behind(list[c].tree, from), k = 0 => from = 0,
         \A m \in Key \ {n} : list[c].tree[m] # 0 =>
           list[c].tree[m] # cache[n] /\ list[c].tree[m] # list[c].tree[n],
         \A d \in 1 .. Len(list) \ {c} : list[d].at \notin {"skipping", "writing"},
         UNCHANGED <<cache, lookups, latest>>, base' = trie'
  PROVE  Coherent(n)'
<1> DEFINE t == list[c].tree
           p == list[c].promised
<1>1. /\ Len(calls') = Len(list) /\ \A d \in 1 .. Len(list) \ {c} : calls'[d] = list[d]
      /\ calls'[c].key = k /\ calls'[c].at \in {"skipping", "writing"}
      /\ calls'[c].tree = t /\ calls'[c].promised = p
      /\ \A i \in 1 .. Len(entries) : entries'[i].val = entries[i].val
  BY DEF Round
<1>2. /\ cache[n] # 0 => cache[n] \in 1 .. Len(entries)
      /\ t[n] # 0 => t[n] \in 1 .. Len(entries)
  <2>1. cache[n] \in Nat /\ t[n] \in Nat /\ Len(entries) \in Nat
    BY DEF Types
  <2>2. cache[n] <= Len(entries) /\ t[n] <= Len(entries)
    BY DEF Ids
  <2> HIDE DEF t
  <2> QED BY <2>1, <2>2
<1>3. /\ t[n] \in Nat /\ n \in Nat \ {0} /\ k \in Nat
  <2>1. t[n] \in Nat
    OBVIOUS
  <2>2. Key \subseteq Nat \ {0}
    BY CacheAssumption
  <2>3. n \in Nat \ {0} /\ k \in Nat
    BY ONLY <2>2, n \in Key, k \in Key \cup {0}
  <2> QED BY <2>1, <2>3
<1> DEFINE now == k = n /\ Dirty(t[n])
\* an entry of n is cleaned only by a round at n
<1>4. /\ now =>
           /\ \A i \in 1 .. Len(entries) \ {t[n]} : entries'[i] = entries[i]
           /\ ~entries'[t[n]].modified /\ ~entries'[t[n]].deleted
           /\ Len(writes') = 1 /\ writes'[1].key = n /\ writes'[1].val \in Value
           /\ Read(writes'[1].val) = entries[t[n]].val
           /\ entries[t[n]].deleted => writes'[1].val = Absent
      /\ ~now =>
           /\ cache[n] # 0 => entries'[cache[n]] = entries[cache[n]]
           /\ t[n] # 0 => entries'[t[n]] = entries[t[n]]
           /\ \A m \in 1 .. Len(writes') : writes'[m].key # n
  <2>1. CASE now
    BY <1>3, <2>1 DEF Round
  <2>2. CASE ~now /\ k # 0 /\ Dirty(t[k])
    <3>1. k \in Key \ {n} /\ t[k] # 0
      BY <2>2 DEF Dirty
    <3>2. t[k] # cache[n] /\ t[k] # t[n]
      BY <3>1
    <3>3. /\ \A i \in 1 .. Len(entries) \ {t[k]} : entries'[i] = entries[i]
          /\ Len(writes') = 1 /\ writes'[1].key = k
      BY <2>2 DEF Round
    <3> QED BY <1>2, <2>2, <3>1, <3>2, <3>3
  <2>3. CASE ~now /\ ~(k # 0 /\ Dirty(t[k]))
    <3>1. writes' = <<>> /\ entries' = entries
      BY <2>3 DEF Round
    <3> QED BY <2>3, <3>1
  <2> QED BY <2>1, <2>2, <2>3
<1>5. now => t[n] \in 1 .. Len(entries) /\ (cache[n] = t[n] \/ Dirty(cache[n]))
  BY <1>2 DEF Dirty, Settled
<1>6. Dirty(t[n]) /\ ~now => k # 0 /\ n > k
  <2> SUFFICES ASSUME Dirty(t[n]), ~now PROVE k # 0 /\ n > k
    OBVIOUS
  <2>1. n > from /\ t[n] # 0 /\ k # n
    BY DEF Settled, Dirty
  <2>2. \/ k = 0 /\ \A m \in Key : m > from => t[m] = 0
        \/ k \in Key /\ \A m \in Key : m > from /\ m < k => t[m] = 0
    BY BehindIsNext
  <2>3. k # 0
    BY <1>3, <2>1, <2>2
  <2>4. ~(n < k)
    BY <2>1, <2>2, <2>3
  <2> QED BY <1>3, <2>1, <2>3, <2>4
<1> HIDE DEF t, p
<1>7. /\ now => ~Dirty(t[n])' /\ (Dirty(cache[n])' <=> cache[n] # t[n])
      /\ ~now => (Dirty(t[n])' <=> Dirty(t[n])) /\ (Dirty(cache[n])' <=> Dirty(cache[n]))
  <2>1. cache' = cache
    OBVIOUS
  <2>2. CASE now
    <3>1. ~entries'[t[n]].modified /\ ~entries'[t[n]].deleted
      BY <1>4, <2>2
    <3>2. ~Dirty(t[n])'
      BY <3>1 DEF Dirty
    <3>3. cache[n] = t[n] => ~Dirty(cache[n])'
      BY <2>1, <3>1 DEF Dirty
    <3>4. cache[n] # t[n] => Dirty(cache[n])'
      <4> SUFFICES ASSUME cache[n] # t[n] PROVE Dirty(cache[n])'
        OBVIOUS
      <4>1. Dirty(cache[n]) /\ cache[n] # 0
        BY <1>5, <2>2 DEF Dirty
      <4>2. entries'[cache[n]] = entries[cache[n]]
        BY <1>2, <1>4, <2>2, <4>1
      <4> QED BY <2>1, <4>1, <4>2 DEF Dirty
    <3> QED BY <2>2, <3>2, <3>3, <3>4
  <2>3. CASE ~now
    <3>1. /\ cache[n] # 0 => entries'[cache[n]] = entries[cache[n]]
          /\ t[n] # 0 => entries'[t[n]] = entries[t[n]]
      BY <1>4, <2>3
    <3> QED BY <2>1, <2>3, <3>1 DEF Dirty
  <2> QED BY <2>2, <2>3
\* what the trie will have
<1>8. /\ now => \A V : writes'[1].val \in V => Reaches(n, V)'
      /\ ~now => \A V : Awaits(n, V) => Reaches(n, V)'
  <2>1. CASE now
    <3>1. Len(writes') = 1 /\ writes'[1].key = n
      BY <1>4, <2>1
    <3>2. \A m \in 1 .. Len(writes') : m = 1
      BY <3>1
    <3>3. 1 \in 1 .. Len(writes')
      BY <3>1
    <3> QED BY ONLY <2>1, <3>1, <3>2, <3>3 DEF Reaches
  <2>2. CASE ~now
    <3>1. \A m \in 1 .. Len(writes') : writes'[m].key # n
      BY <1>4, <2>2
    <3> QED BY ONLY <2>2, <3>1 DEF Reaches, Awaits
  <2> QED BY <2>1, <2>2
<1>9. \A v : now /\ v = entries[t[n]].val => Reaches(n, Reading(v))'
  <2> SUFFICES ASSUME NEW v, now, v = entries[t[n]].val PROVE Reaches(n, Reading(v))'
    OBVIOUS
  <2>1. writes'[1].val \in Value /\ Read(writes'[1].val) = entries[t[n]].val
    BY <1>4
  <2>2. writes'[1].val \in Reading(v)
    BY <2>1 DEF Reading
  <2> QED BY <1>8, <2>2
<1>10. writes' # <<>> => base'[n] = trie'[n]
  OBVIOUS
<1>11. \A l \in lookups' : l.key = n /\ ~l.hit => ~Dirty(cache[n])'
  BY <1>5, <1>7 DEF Settled
<1>12. cache'[n] # 0 /\ ~Dirty(cache[n])' => Reaches(n, Reading(latest[n]))'
  <2> SUFFICES ASSUME cache[n] # 0, ~Dirty(cache[n])' PROVE Reaches(n, Reading(latest[n]))'
    OBVIOUS
  <2>1. PICK v : v = latest[n]
    OBVIOUS
  <2>2. entries[cache[n]].val = v
    BY <2>1 DEF Settled
  <2>3. Reaches(n, Reading(v))'
    <3>1. CASE now
      BY <1>7, <1>9, <2>2, <3>1
    <3>2. CASE ~now
      <4>1. Awaits(n, Reading(v))
        BY <1>7, <2>1, <3>2 DEF Settled
      <4> QED BY <1>8, <3>2, <4>1
    <3> QED BY <3>1, <3>2
  <2>4. latest'[n] = v
    BY <2>1
  <2> QED BY <2>3, <2>4
<1>13. \A d \in 1 .. Len(calls') : Flushing(d)' =>
         /\ calls'[d].tree[n] # 0 => entries'[calls'[d].tree[n]].val = calls'[d].promised[n]
         /\ Dirty(calls[d].tree[n])' =>
              /\ calls'[d].key # 0 /\ n > calls'[d].key
              /\ cache'[n] = calls'[d].tree[n] \/ Dirty(cache[n])'
         /\ ~Dirty(calls[d].tree[n])' => Reaches(n, Reading(calls[d].promised[n]))'
  <2> SUFFICES ASSUME NEW d \in 1 .. Len(calls'), Flushing(d)'
               PROVE  /\ calls'[d].tree[n] # 0 =>
                           entries'[calls'[d].tree[n]].val = calls'[d].promised[n]
                      /\ Dirty(calls[d].tree[n])' =>
                           /\ calls'[d].key # 0 /\ n > calls'[d].key
                           /\ cache'[n] = calls'[d].tree[n] \/ Dirty(cache[n])'
                      /\ ~Dirty(calls[d].tree[n])' =>
                           Reaches(n, Reading(calls[d].promised[n]))'
    OBVIOUS
  <2>1. t[n] # 0 => entries[t[n]].val = p[n] /\ entries'[t[n]].val = p[n]
    <3>1. t[n] # 0 => entries[t[n]].val = p[n]
      BY DEF Settled, t, p
    <3> QED BY <1>1, <1>2, <3>1
  <2>2. Dirty(t[n])' => k # 0 /\ n > k /\ (cache[n] = t[n] \/ Dirty(cache[n])')
    <3> SUFFICES ASSUME Dirty(t[n])' PROVE k # 0 /\ n > k /\ (cache[n] = t[n] \/ Dirty(cache[n])')
      OBVIOUS
    <3>1. ~now /\ Dirty(t[n])
      BY <1>7
    <3>2. cache[n] = t[n] \/ Dirty(cache[n])
      BY <3>1 DEF Settled, t
    <3> QED BY <1>6, <1>7, <3>1, <3>2
  <2>3. ~Dirty(t[n])' => Reaches(n, Reading(p[n]))'
    <3>1. CASE now
      <4>1. t[n] # 0
        BY <3>1 DEF Dirty
      <4>2. PICK v : v = p[n]
        OBVIOUS
      <4>3. Reaches(n, Reading(v))'
        BY <1>9, <2>1, <3>1, <4>1, <4>2
      <4> QED BY <4>2, <4>3
    <3>2. CASE ~now
      <4> SUFFICES ASSUME ~Dirty(t[n])' PROVE Reaches(n, Reading(p[n]))'
        OBVIOUS
      <4>1. ~Dirty(t[n])
        BY <1>7, <3>2
      <4>2. Awaits(n, Reading(p[n]))
        BY <4>1 DEF Settled, t, p
      <4> QED BY <1>8, <3>2, <4>2
    <3> QED BY <3>1, <3>2
  <2>4. d = c
    BY <1>1 DEF Flushing
  <2>5. calls'[d].tree[n] = t[n] /\ calls'[d].promised[n] = p[n] /\ calls'[d].key = k
    BY <1>1, <2>4
  <2>6. PICK id : id = t[n]
    OBVIOUS
  <2>7. PICK v : v = p[n]
    OBVIOUS
  <2>8. /\ Dirty(calls[d].tree[n])' <=> Dirty(id)'
        /\ Reaches(n, Reading(calls[d].promised[n]))' <=> Reaches(n, Reading(v))'
        /\ Dirty(t[n])' <=> Dirty(id)'
        /\ Reaches(n, Reading(p[n]))' <=> Reaches(n, Reading(v))'
    BY <2>5, <2>6, <2>7
  <2>9. cache'[n] = cache[n]
    OBVIOUS
  <2> HIDE DEF now
  <2> QED BY <2>1, <2>2, <2>3, <2>5, <2>8, <2>9
<1>14. \A d \in 1 .. Len(calls') :
         Cleaning(d)' /\ n \in calls'[d].keys \ calls'[d].todo /\ latest'[n] = Empty =>
           \/ cache'[n] # 0 /\ entries'[cache'[n]].deleted
           \/ ~Dirty(cache[n])' /\ Reaches(n, {Absent})'
  <2> SUFFICES ASSUME NEW d \in 1 .. Len(calls'), Cleaning(d)',
                      n \in calls'[d].keys \ calls'[d].todo, latest[n] = Empty
               PROVE  \/ cache[n] # 0 /\ entries'[cache[n]].deleted
                      \/ ~Dirty(cache[n])' /\ Reaches(n, {Absent})'
    OBVIOUS
  <2>1. d \in 1 .. Len(list) /\ d # c /\ calls'[d] = list[d]
    BY <1>1 DEF Cleaning
  <2>2. list[d].kind = "cleanup" /\ list[d].at = "waiting" /\ n \in list[d].keys \ list[d].todo
    BY <2>1 DEF Cleaning
  <2>3. \/ cache[n] # 0 /\ entries[cache[n]].deleted
        \/ ~Dirty(cache[n]) /\ Awaits(n, {Absent})
    BY <2>1, <2>2 DEF Settled
  <2>4. CASE now
    <3>1. t[n] # 0 /\ (~Dirty(cache[n]) => cache[n] = t[n] /\ Dirty(t[n]))
      BY <1>5, <2>4 DEF Dirty
    <3>2. cache[n] # 0 /\ entries[cache[n]].deleted
      BY <2>3, <3>1
    <3>3. CASE cache[n] = t[n]
      <4>1. writes'[1].val \in {Absent}
        BY <1>4, <2>4, <3>2, <3>3
      <4>2. ~Dirty(cache[n])'
        BY <1>7, <2>4, <3>3
      <4> QED BY <1>8, <2>4, <4>1, <4>2
    <3>4. CASE cache[n] # t[n]
      <4>1. entries'[cache[n]] = entries[cache[n]]
        BY <1>2, <1>4, <2>4, <3>2, <3>4
      <4> QED BY <3>2, <4>1
    <3> QED BY <3>3, <3>4
  <2>5. CASE ~now
    <3>1. cache[n] # 0 => entries'[cache[n]] = entries[cache[n]]
      BY <1>4, <2>5
    <3>2. ~Dirty(cache[n])' <=> ~Dirty(cache[n])
      BY <1>7, <2>5
    <3>3. Awaits(n, {Absent}) => Reaches(n, {Absent})'
      BY <1>8, <2>5
    <3> QED BY <2>3, <3>1, <3>2, <3>3
  <2> QED BY <2>4, <2>5
<1> QED BY ONLY <1>10, <1>11, <1>12, <1>13, <1>14 DEF Coherent

LEMMA RoundKeeps ==
  ASSUME Types, Ids, OneKind, NEW list \in Seq(CallType), NEW c \in 1 .. Len(list),
         NEW from \in Nat, OneKey(list), Roots(list),
         \A m \in Key : list[c].tree[m] <= Len(entries),
         \A d \in 1 .. Len(list) \ {c} : list[d].at \notin {"skipping", "writing"},
         Behind(list[c].tree, from) = 0 => from = 0,
         Visit(list, <<>>, c, Behind(list[c].tree, from)),
         UNCHANGED <<cache, lookups, latest, overtaken>>, base' = trie',
         \A n \in Key \ overtaken : Settled(list, c, n, from)
  PROVE  Orderly'
<1> DEFINE t == list[c].tree
<1>1. t \in [Key -> Nat]
  <2>1. list[c] \in CallType
    OBVIOUS
  <2>2. \A call \in CallType : call.tree \in [Key -> Nat]
    BY DEF CallType
  <2> QED BY <2>1, <2>2
<1>2. PICK k \in Key \cup {0} : k = Behind(t, from) /\ (k # 0 => t[k] # 0)
  BY <1>1, BehindIsNext
<1>3. k # 0 => t[k] \in 1 .. Len(entries)
  <2>1. k # 0 => t[k] \in Nat /\ t[k] <= Len(entries)
    BY <1>1
  <2>2. Len(entries) \in Nat
    BY DEF Types
  <2> HIDE DEF t
  <2> QED BY <1>2, <2>1, <2>2
<1>4. Round(list, c, k)
  BY <1>2, <1>3, Rounds
<1>5. /\ Len(calls') = Len(list) /\ \A d \in 1 .. Len(list) \ {c} : calls'[d] = list[d]
      /\ calls'[c].tree = t /\ calls'[c].root = list[c].root
  BY <1>4 DEF Round
<1>6. \A d \in 1 .. Len(list) : calls'[d].tree = list[d].tree /\ calls'[d].root = list[d].root
  BY <1>5
<1>7. OneKey(calls)'
  BY ONLY SMTT(30), <1>5, <1>6, OneKey(list), UNCHANGED cache DEF OneKey
<1>8. Roots(calls)'
  BY <1>5, <1>6 DEF Roots
<1>9. Alone'
  BY <1>5 DEF Alone, Flushing
<1>10. OneKind'
  <2>1. Len(entries') = Len(entries)
    <3>1. Moved(list, <<>>, c)
      <4>1. <<>> \in Seq(WriteType) /\ Visit(list, <<>>, c, k)
        BY <1>2
      <4> QED BY <1>2, <1>3, <4>1, Visits
    <3> QED BY <3>1 DEF Moved
  <2>2. CASE k # 0 /\ Dirty(t[k])
    BY <1>3, <1>4, <2>1, <2>2 DEF Round, OneKind
  <2>3. CASE ~(k # 0 /\ Dirty(t[k]))
    BY <1>4, <2>3 DEF Round, OneKind
  <2> QED BY <2>2, <2>3
<1>11. ASSUME NEW n \in Key \ overtaken PROVE Coherent(n)'
  <2>1. \A m \in Key \ {n} : t[m] # 0 => t[m] # cache[n] /\ t[m] # t[n]
    BY <1>1 DEF OneKey
  <2>2. Settled(list, c, n, from) /\ t[n] <= Len(entries)
    BY <1>11
  <2> QED BY <1>1, <1>2, <1>4, <2>1, <2>2, RoundCoherent
<1> QED BY <1>7, <1>8, <1>9, <1>10, <1>11 DEF Orderly

\* A flush is over, and no other goes on.
LEMMA OverKeeps ==
  ASSUME OneKind, OneKey(calls), Roots(calls), NEW c \in 1 .. Len(calls),
         Len(calls') = Len(calls), \A d \in 1 .. Len(calls) \ {c} : calls'[d] = calls[d],
         calls'[c].at \notin {"skipping", "writing", "waiting"},
         calls'[c].tree \in {calls[c].tree, NoTree}, calls'[c].root = EmptyTrie,
         \A d \in 1 .. Len(calls) \ {c} : calls[d].at \notin {"skipping", "writing"},
         UNCHANGED <<entries, cache, lookups, latest, overtaken>>, writes' = <<>>,
         base' = trie',
         \A n \in Key \ overtaken : \E from : Settled(calls, c, n, from)
  PROVE  Orderly'
<1>1. OneKind' /\ Roots(calls)' /\ Alone'
  BY DEF OneKind, Roots, Alone, Flushing
<1>2. OneKey(calls)'
  <2>1. \A d \in 1 .. Len(calls), k \in Key :
          calls'[d].tree[k] = calls[d].tree[k] \/ calls'[d].tree[k] = 0
    BY DEF NoTree
  <2> QED BY ONLY SMTT(30), <2>1, OneKey(calls), UNCHANGED cache, Len(calls') = Len(calls) DEF OneKey
<1>3. ASSUME NEW n \in Key \ overtaken PROVE Coherent(n)'
  <2>1. PICK from : Settled(calls, c, n, from)
    BY <1>3
  <2>2. \A V : Awaits(n, V) => Reaches(n, V)'
    BY DEF Awaits, Reaches
  <2>3. Dirty(cache[n])' <=> Dirty(cache[n])
    BY DEF Dirty
  <2>4. \A d \in 1 .. Len(calls') : ~Flushing(d)'
    BY DEF Flushing
  <2>5. \A l \in lookups' : l.key = n /\ ~l.hit => ~Dirty(cache[n])'
    BY <2>1, <2>3 DEF Settled
  <2>6. cache'[n] # 0 /\ ~Dirty(cache[n])' => Reaches(n, Reading(latest[n]))'
    <3>1. PICK v : v = latest[n]
      OBVIOUS
    <3>2. cache[n] # 0 /\ ~Dirty(cache[n]) => Reaches(n, Reading(v))'
      BY <2>1, <2>2, <3>1 DEF Settled
    <3>3. latest'[n] = v
      BY <3>1
    <3> QED BY <2>3, <3>2, <3>3
  <2>7. \A d \in 1 .. Len(calls') :
          Cleaning(d)' /\ n \in calls'[d].keys \ calls'[d].todo /\ latest'[n] = Empty =>
            \/ cache'[n] # 0 /\ entries'[cache'[n]].deleted
            \/ ~Dirty(cache[n])' /\ Reaches(n, {Absent})'
    <3> SUFFICES ASSUME NEW d \in 1 .. Len(calls), Cleaning(d)',
                        n \in calls'[d].keys \ calls'[d].todo, latest[n] = Empty
                 PROVE  \/ cache[n] # 0 /\ entries[cache[n]].deleted
                        \/ ~Dirty(cache[n])' /\ Reaches(n, {Absent})'
      OBVIOUS
    <3>1. calls'[d] = calls[d]
      BY DEF Cleaning
    <3> QED BY <2>1, <2>2, <2>3, <3>1 DEF Settled, Cleaning
  <2>8. writes' # <<>> => base'[n] = trie'[n]
    OBVIOUS
  <2> QED BY ONLY <2>4, <2>5, <2>6, <2>7, <2>8 DEF Coherent
<1> QED BY <1>1, <1>2, <1>3 DEF Orderly

\* The root of a call that is over, or that was given none.
LEMMA NoRoot ==
  /\ \A kind \in {"get", "cleanup", "root", "reset"} : NewCall(kind).root = EmptyTrie
  /\ \A call \in CallType : Done(call).root = EmptyTrie /\ Failed(call).root = EmptyTrie
<1>1. \A kind : NewCall(kind).root = EmptyTrie
  BY DEF NewCall
<1>2. ASSUME NEW call \in CallType
      PROVE  Done(call).root = EmptyTrie /\ Failed(call).root = EmptyTrie
  <2>1. call.kind \in {"get", "cleanup", "root", "reset"}
    BY DEF CallType
  <2>2. PICK new : new = NewCall(call.kind)
    OBVIOUS
  <2>3. new \in CallType /\ new.root = EmptyTrie
    <3>1. new \in CallType
      BY <2>1, <2>2, CallTypes
    <3> QED BY <1>1, <2>2, <3>1
  <2>4. /\ [new EXCEPT !.at = "done"].root = new.root
        /\ [[new EXCEPT !.at = "done"] EXCEPT !.failed = TRUE].root = new.root
    BY <2>3 DEF CallType
  <2> QED BY <2>2, <2>3, <2>4 DEF Done, Failed
<1> QED BY <1>1, <1>2

\* There is at most one write, that of the flush under way.
LEMMA Serial ==
  ASSUME IInv, Alone
  PROVE  /\ writes # <<>> =>
              /\ Len(writes) = 1 /\ Head(writes) = writes[1] /\ Tail(writes) = <<>>
              /\ Head(writes).call \in 1 .. Len(calls) /\ calls[Head(writes).call].at = "writing"
         /\ \A c \in 1 .. Len(calls) : calls[c].at = "skipping" => writes = <<>>
         /\ (\A c \in 1 .. Len(calls) : ~Flushing(c)) => writes = <<>>
<1>1. /\ writes \in Seq(WriteType)
      /\ \A n \in 1 .. Len(writes) :
           writes[n].call \in 1 .. Len(calls) /\ calls[writes[n].call].at = "writing"
      /\ \A m, n \in 1 .. Len(writes) : writes[m].call = writes[n].call => m = n
  BY DEF IInv, Types, WritesSound
<1>2. \A n \in 1 .. Len(writes), c \in 1 .. Len(calls) : Flushing(c) => c = writes[n].call
  BY <1>1 DEF Alone, Flushing
<1>3. \A n \in 1 .. Len(writes) : Flushing(writes[n].call)
  BY <1>1 DEF Flushing
<1>4. \A m, n \in 1 .. Len(writes) : m = n
  BY <1>1, <1>2, <1>3
<1>5. CASE writes # <<>>
  <2>1. Len(writes) \in Nat \ {0} /\ Head(writes) = writes[1]
        /\ Tail(writes) \in Seq(WriteType) /\ Len(Tail(writes)) = Len(writes) - 1
    BY <1>1, <1>5, Rest
  <2>2. Len(writes) = 1
    <3>1. 1 \in 1 .. Len(writes) /\ Len(writes) \in 1 .. Len(writes)
      BY <2>1
    <3> QED BY <1>4, <3>1
  <2>3. Tail(writes) = <<>>
    <3>1. Len(Tail(writes)) = 0
      BY <2>1, <2>2
    <3> QED BY <2>1, <3>1, EmptySeq
  <2>4. 1 \in 1 .. Len(writes)
    BY <2>2
  <2>5. \A c \in 1 .. Len(calls) : calls[c].at # "skipping"
    <3>1. \A c \in 1 .. Len(calls) : calls[c].at = "skipping" => Flushing(c)
      BY DEF Flushing
    <3> QED BY <1>1, <1>2, <2>4, <3>1
  <2> QED BY <1>1, <1>3, <2>1, <2>2, <2>3, <2>4, <2>5
<1> QED BY <1>5

\* What the flush c finds when its next step begins.
LEMMA SettledAt ==
  ASSUME IInv, Orderly, NEW c \in 1 .. Len(calls), Flushing(c), NEW n \in Key \ overtaken,
         \A V : Reaches(n, V) => Awaits(n, V)
  PROVE  Settled(calls, c, n, calls[c].key)
<1>1. Coherent(n) /\ Latest(n)
  BY DEF Orderly, IInv, AllLatest
<1>2. PICK v, p : v = latest[n] /\ p = calls[c].promised[n]
  OBVIOUS
<1>3. cache[n] # 0 /\ ~Dirty(cache[n]) => Awaits(n, Reading(v))
  BY <1>1, <1>2 DEF Coherent
<1>4. ~Dirty(calls[c].tree[n]) => Awaits(n, Reading(p))
  BY <1>1, <1>2 DEF Coherent
<1>5. \A d \in 1 .. Len(calls) :
        /\ calls[d].kind = "cleanup" /\ calls[d].at = "waiting"
        /\ n \in calls[d].keys \ calls[d].todo /\ latest[n] = Empty
        => \/ cache[n] # 0 /\ entries[cache[n]].deleted
           \/ ~Dirty(cache[n]) /\ Awaits(n, {Absent})
  BY <1>1 DEF Coherent, Cleaning
<1>6. /\ calls[c].tree[n] # 0 => entries[calls[c].tree[n]].val = calls[c].promised[n]
      /\ Dirty(calls[c].tree[n]) => /\ calls[c].key # 0 /\ n > calls[c].key
                                    /\ cache[n] = calls[c].tree[n] \/ Dirty(cache[n])
      /\ \A l \in lookups : l.key = n /\ ~l.hit => ~Dirty(cache[n])
  BY <1>1 DEF Coherent
<1>7. /\ cache[n] # 0 => entries[cache[n]].val = latest[n]
      /\ cache[n] = 0 => calls[c].tree[n] = 0
  BY <1>1 DEF Latest
<1> QED BY <1>2, <1>3, <1>4, <1>5, <1>6, <1>7 DEF Settled

\* A flush goes on with its next round, or is over.
LEMMA ProceedKeeps ==
  ASSUME IInv, Orderly, NEW c \in 1 .. Len(calls), Flushing(c), Proceed(<<>>, c),
         UNCHANGED <<cache, lookups, latest, overtaken>>, base' = trie',
         \A n \in Key \ overtaken : \A V : Reaches(n, V) => Awaits(n, V)
  PROVE  Orderly'
<1> DEFINE from == calls[c].key
           next == Behind(calls[c].tree, from)
<1>1. Types /\ Ids /\ OneKind /\ OneKey(calls) /\ Roots(calls) /\ Alone
  BY DEF IInv, Orderly
<1>2. /\ calls \in Seq(CallType) /\ calls[c] \in CallType /\ from \in Nat
      /\ \A d \in 1 .. Len(calls) \ {c} : calls[d].at \notin {"skipping", "writing"}
      /\ \A m \in Key : calls[c].tree[m] <= Len(entries)
  BY <1>1, Elements DEF Types, Ids, Alone, Flushing
<1>3. \A n \in Key \ overtaken : Settled(calls, c, n, from)
  BY SettledAt
<1>4. CASE from # 0 /\ next # 0
  <2>1. Visit(calls, <<>>, c, next) /\ (next = 0 => from = 0)
    BY <1>4 DEF Proceed
  <2> HIDE DEF from
  <2> QED BY <1>1, <1>2, <1>3, <2>1, RoundKeeps
<1>5. CASE ~(from # 0 /\ next # 0)
  <2> DEFINE call == IF calls[c].kind = "root" THEN Done(calls[c])
                     ELSE [calls[c] EXCEPT !.at = "checking"]
  <2>1. /\ calls' = [calls EXCEPT ![c] = call]
        /\ writes' = <<>> /\ UNCHANGED entries
    BY <1>2, <1>5 DEF Proceed
  <2>2. /\ call \in CallType /\ call.at \in {"checking", "done"}
        /\ call.tree \in {calls[c].tree, NoTree} /\ call.root = EmptyTrie
    <3>0. calls[c].root = EmptyTrie
      BY <1>1 DEF Roots
    <3>1. CASE calls[c].kind = "root"
      BY <1>2, <3>1, CallTypes, NoRoot
    <3>2. CASE calls[c].kind # "root"
      BY <1>2, <3>0, <3>2 DEF CallType
    <3> QED BY <3>1, <3>2
  <2> HIDE DEF call
  <2>3. /\ Len(calls') = Len(calls)
        /\ \A d \in 1 .. Len(calls) \ {c} : calls'[d] = calls[d]
        /\ calls'[c] = call
    BY <1>2, <2>1, <2>2, Replaced
  <2> HIDE DEF next
  <2> QED BY <1>1, <1>2, <1>3, <2>1, <2>2, <2>3, OverKeeps
<1> QED BY <1>4, <1>5

LEMMA SkipOrderly ==
  ASSUME IInv, Orderly, NEW c \in 1 .. Len(calls), Skip(c)
  PROVE  Orderly'
<1>1. /\ calls[c].at = "skipping" /\ Proceed(writes, c)
      /\ base' = IF writes = <<>> THEN trie ELSE base
      /\ UNCHANGED <<trie, cache, lookups, latest, overtaken, unwritten>>
  BY DEF Skip, ghosts
<1>2. writes = <<>> /\ Flushing(c)
  BY <1>1, Serial DEF Orderly, Flushing
<1>3. \A n \in Key \ overtaken : \A V : Reaches(n, V) => Awaits(n, V)
  BY <1>1, <1>2 DEF Reaches, Awaits
<1>4. Proceed(<<>>, c) /\ base' = trie'
  BY <1>1, <1>2
<1> QED BY <1>1, <1>2, <1>3, <1>4, ProceedKeeps

\* What the write under way means to the trie once it is answered.
LEMMA AnswersTrie ==
  ASSUME IInv, Orderly, writes # <<>>,
         \/ /\ trie' = [base EXCEPT ![Head(writes).key] = Head(writes).val]
            /\ unwritten' = unwritten \ {Head(writes).key}
         \/ /\ trie' = trie /\ unwritten' = unwritten \cup {Head(writes).key}
  PROVE  \A n \in Key \ overtaken : \A V : Reaches(n, V) => Awaits(n, V)
<1> SUFFICES ASSUME NEW n \in Key \ overtaken, NEW V, Reaches(n, V) PROVE Awaits(n, V)
  OBVIOUS
<1>1. base[n] = trie[n] /\ base \in [Key -> Value]
  BY DEF Orderly, Coherent, IInv, Types
<1>2. Len(writes) = 1 /\ Head(writes) = writes[1]
  BY Serial DEF Orderly
<1>3. 1 \in 1 .. Len(writes) /\ \A m \in 1 .. Len(writes) : m = 1
  BY <1>2
<1>4. CASE n = Head(writes).key
  <2>1. Head(writes).val \in V
    BY <1>2, <1>3, <1>4 DEF Reaches
  <2> QED BY <1>1, <1>4, <2>1 DEF Awaits
<1>5. CASE n # Head(writes).key
  <2>1. n \notin unwritten => trie[n] \in V
    BY <1>2, <1>3, <1>5 DEF Reaches
  <2>2. trie'[n] = trie[n] /\ (n \in unwritten' <=> n \in unwritten)
    BY <1>1, <1>5
  <2> QED BY <2>1, <2>2 DEF Awaits
<1> QED BY <1>4, <1>5

LEMMA WriteOrderly ==
  ASSUME IInv, Orderly, Write
  PROVE  Orderly'
<1> DEFINE w == Head(writes)
<1>1. /\ writes # <<>> /\ Proceed(Tail(writes), w.call)
      /\ trie' = [base EXCEPT ![w.key] = w.val] /\ base' = trie'
      /\ unwritten' = unwritten \ {w.key}
      /\ UNCHANGED <<cache, lookups, latest, overtaken>>
  BY DEF Write
<1>2. w.call \in 1 .. Len(calls) /\ Flushing(w.call) /\ Tail(writes) = <<>>
  BY <1>1, Serial DEF Orderly, Flushing
<1>3. \A n \in Key \ overtaken : \A V : Reaches(n, V) => Awaits(n, V)
  BY <1>1, AnswersTrie
<1>4. Proceed(<<>>, w.call)
  BY <1>1, <1>2
<1> HIDE DEF w
<1> QED BY <1>1, <1>2, <1>3, <1>4, ProceedKeeps

LEMMA WriteFailsOrderly ==
  ASSUME IInv, Orderly, WriteFails
  PROVE  Orderly'
<1> DEFINE w == Head(writes)
<1>1. /\ writes # <<>> /\ writes' = Tail(writes)
      /\ base' = trie /\ calls' = [calls EXCEPT ![w.call] = Failed(@)]
      /\ unwritten' = unwritten \cup {w.key}
      /\ UNCHANGED <<trie, entries, cache, lookups, latest, overtaken>>
  BY DEF WriteFails
<1>2. /\ w.call \in 1 .. Len(calls) /\ Flushing(w.call) /\ Tail(writes) = <<>>
      /\ calls[w.call] \in CallType /\ calls \in Seq(CallType)
  BY <1>1, Serial, Elements DEF Orderly, Flushing, IInv, Types
<1>3. \A n \in Key \ overtaken : \A V : Reaches(n, V) => Awaits(n, V)
  BY <1>1, AnswersTrie
<1> HIDE DEF w
<1>4. \A n \in Key \ overtaken : Settled(calls, w.call, n, calls[w.call].key)
  BY <1>2, <1>3, SettledAt
<1>5. PICK x \in CallType : x = Failed(calls[w.call])
  BY <1>2, CallTypes
<1>6. x.at = "done" /\ x.tree = NoTree /\ x.root = EmptyTrie
  BY <1>2, <1>5, CallTypes, NoRoot
<1>7. calls' = [calls EXCEPT ![w.call] = x]
  BY <1>1, <1>2, <1>5
<1>8. /\ Len(calls') = Len(calls) /\ \A d \in 1 .. Len(calls) \ {w.call} : calls'[d] = calls[d]
      /\ calls'[w.call] = x
  BY <1>2, <1>7, Replaced
<1>9. /\ OneKind /\ OneKey(calls) /\ Roots(calls)
      /\ \A d \in 1 .. Len(calls) \ {w.call} : calls[d].at \notin {"skipping", "writing"}
  BY <1>2 DEF Orderly, Alone, Flushing
<1>10. writes' = <<>> /\ base' = trie'
  BY <1>1, <1>2
<1> QED BY <1>1, <1>2, <1>4, <1>6, <1>8, <1>9, <1>10, OverKeeps

LEMMA FlushOrderly ==
  ASSUME IInv, Orderly, NEW call \in CallType, call.root = EmptyTrie,
         call.kind # "cleanup", Flush(call), ~overlapped'
  PROVE  Orderly'
<1> DEFINE new == [call EXCEPT !.tree = cache, !.promised = latest]
           list == Append(calls, new)
           next == Behind(cache, 0)
<1>1. /\ cache \in [Key -> Nat] /\ latest \in [Key -> Account] /\ calls \in Seq(CallType)
      /\ Len(entries) \in Nat /\ Len(calls) \in Nat /\ DOMAIN calls = 1 .. Len(calls)
  BY DEF IInv, Types
<1>2. /\ Visit(list, writes, Len(calls) + 1, next)
      /\ base' = IF writes = <<>> THEN trie ELSE base
      /\ \A d \in 1 .. Len(calls) : ~Flushing(d)
      /\ UNCHANGED <<trie, cache, lookups, latest, overtaken, unwritten>>
  BY <1>1 DEF Flush
<1>3. writes = <<>> /\ base' = trie'
  BY <1>2, Serial DEF Orderly
<1>4. /\ new \in CallType /\ new.tree = cache /\ new.promised = latest /\ new.root = EmptyTrie
      /\ new.kind # "cleanup"
  BY <1>1 DEF CallType
<1> HIDE DEF new
<1>5. PICK c \in Nat : c = Len(calls) + 1
  BY <1>1
<1>6. /\ list \in Seq(CallType) /\ Len(list) = c /\ list[c] = new
      /\ c \in 1 .. Len(list) /\ \A d \in 1 .. Len(calls) : list[d] = calls[d]
      /\ \A d \in 1 .. Len(list) \ {c} : d \in 1 .. Len(calls)
  <2>1. /\ list \in Seq(CallType) /\ Len(list) = Len(calls) + 1 /\ list[Len(calls) + 1] = new
        /\ \A d \in 1 .. Len(calls) : list[d] = calls[d]
    BY <1>1, <1>4, Appended
  <2> HIDE DEF list
  <2> QED BY <1>1, <1>5, <2>1
<1> HIDE DEF list
<1>7. Visit(list, <<>>, c, Behind(list[c].tree, 0))
  BY <1>2, <1>3, <1>4, <1>5, <1>6
<1> HIDE DEF next
<1>8. Types /\ Ids /\ OneKind /\ OneKey(calls) /\ Roots(calls)
  BY DEF IInv, Orderly
<1>9. OneKey(list)
  <2>1. \A d \in 1 .. Len(list) : \/ list[d].tree = cache
                                  \/ d \in 1 .. Len(calls) /\ list[d].tree = calls[d].tree
    BY <1>4, <1>6
  <2> QED BY ONLY SMTT(30), <2>1, <1>8 DEF OneKey
<1>10. Roots(list)
  BY <1>4, <1>6, <1>8 DEF Roots
<1>11. \A m \in Key : list[c].tree[m] <= Len(entries)
  BY <1>4, <1>6, <1>8 DEF Ids
<1>12. \A d \in 1 .. Len(list) \ {c} : list[d].at \notin {"skipping", "writing"}
  BY <1>2, <1>6 DEF Flushing
<1>13. \A n \in Key \ overtaken : Settled(list, c, n, 0)
  <2> SUFFICES ASSUME NEW n \in Key \ overtaken PROVE Settled(list, c, n, 0)
    OBVIOUS
  <2>1. Coherent(n) /\ Latest(n)
    BY DEF Orderly, IInv, AllLatest
  <2>2. PICK v : v = latest[n]
    OBVIOUS
  <2>3. \A V : Reaches(n, V) => Awaits(n, V)
    BY <1>2, <1>3 DEF Reaches, Awaits
  <2>4. cache[n] # 0 /\ ~Dirty(cache[n]) => Awaits(n, Reading(v))
    BY <2>1, <2>2, <2>3 DEF Coherent
  <2>5. cache[n] = 0 => Awaits(n, Reading(v))
    <3>1. cache[n] = 0 => Read(trie[n]) = v /\ trie[n] \in Value
      BY <2>1, <2>2, <1>8 DEF Latest, Types
    <3> QED BY <1>2, <3>1 DEF Awaits, Reading
  <2>6. list[c].tree[n] = cache[n] /\ list[c].promised[n] = v
    BY <1>4, <1>6, <2>2
  <2>7. Dirty(cache[n]) => n > 0
    BY CacheAssumption
  <2>8. \A d \in 1 .. Len(list) :
          /\ list[d].kind = "cleanup" /\ list[d].at = "waiting"
          /\ n \in list[d].keys \ list[d].todo /\ latest[n] = Empty
          => \/ cache[n] # 0 /\ entries[cache[n]].deleted
             \/ ~Dirty(cache[n]) /\ Awaits(n, {Absent})
    <3> SUFFICES ASSUME NEW d \in 1 .. Len(list),
                        list[d].kind = "cleanup", list[d].at = "waiting",
                        n \in list[d].keys \ list[d].todo, latest[n] = Empty
                 PROVE  \/ cache[n] # 0 /\ entries[cache[n]].deleted
                        \/ ~Dirty(cache[n]) /\ Awaits(n, {Absent})
      OBVIOUS
    <3>1. d # c
      BY <1>4, <1>6
    <3>2. d \in 1 .. Len(calls) /\ list[d] = calls[d]
      BY <1>6, <3>1
    <3> QED BY <2>1, <2>3, <3>2 DEF Coherent, Cleaning
  <2>9. /\ cache[n] # 0 => entries[cache[n]].val = v
        /\ \A l \in lookups : l.key = n /\ ~l.hit => ~Dirty(cache[n])
    BY <2>1, <2>2 DEF Latest, Coherent
  <2>10. /\ ~Dirty(cache[n]) => Awaits(n, Reading(v))
         /\ cache[n] = 0 => ~Dirty(cache[n])
    BY <2>4, <2>5 DEF Dirty
  <2> QED BY ONLY <2>2, <2>4, <2>6, <2>7, <2>8, <2>9, <2>10 DEF Settled
<1>14. UNCHANGED <<cache, lookups, latest, overtaken>>
  BY <1>2
<1> QED BY ONLY <1>3, <1>6, <1>7, <1>8, <1>9, <1>10, <1>11, <1>12, <1>13, <1>14, RoundKeeps

\* A step in which no flush moves, and the trie and its writes are as they were.
Quiet ==
  /\ \A d \in 1 .. Len(calls') : Flushing(d)' =>
       /\ d \in 1 .. Len(calls) /\ Flushing(d) /\ calls'[d].tree = calls[d].tree
       /\ calls'[d].promised = calls[d].promised /\ calls'[d].key = calls[d].key
  /\ \A d \in 1 .. Len(calls') :
       \/ calls'[d].tree = NoTree
       \/ d \in 1 .. Len(calls) /\ calls'[d].tree = calls[d].tree
  /\ Roots(calls)'
  /\ UNCHANGED <<trie, base, writes, unwritten>>

\* Who has been cleaned at n.
CleanedBy(d, n) == Cleaning(d) /\ n \in calls[d].keys \ calls[d].todo

LEMMA QuietOneKey ==
  ASSUME Quiet, OneKey(calls), UNCHANGED cache
  PROVE  OneKey(calls)'
<1>1. \A d \in 1 .. Len(calls') :
        \/ \A k \in Key : calls'[d].tree[k] = 0
        \/ d \in 1 .. Len(calls) /\ \A k \in Key : calls'[d].tree[k] = calls[d].tree[k]
  BY DEF Quiet, NoTree
<1> QED BY ONLY SMTT(30), <1>1, OneKey(calls), UNCHANGED cache DEF OneKey

LEMMA QuietReaches ==
  ASSUME Quiet
  PROVE  \A n, V : Reaches(n, V)' <=> Reaches(n, V)
BY DEF Quiet, Reaches

\* The cache stays.
LEMMA QuietStays ==
  ASSUME IInv, Orderly, Quiet, UNCHANGED <<entries, cache, latest>>,
         overtaken \subseteq overtaken',
         \A l \in lookups' : ~l.hit => l \in lookups \/ cache[l.key] = 0,
         \A n \in Key \ overtaken', d \in 1 .. Len(calls') : CleanedBy(d, n)' =>
           latest[n] # Empty \/ (d \in 1 .. Len(calls) /\ CleanedBy(d, n))
  PROVE  Orderly'
<1>1. OneKey(calls)' /\ OneKind' /\ Roots(calls)' /\ Alone'
  <2>1. OneKey(calls)'
    BY QuietOneKey DEF Orderly
  <2>2. OneKind' /\ Roots(calls)'
    BY DEF Orderly, OneKind, Quiet
  <2>3. Alone'
    BY DEF Orderly, Alone, Quiet
  <2> QED BY <2>1, <2>2, <2>3
<1>2. ASSUME NEW n \in Key \ overtaken' PROVE Coherent(n)'
  <2>1. Coherent(n)
    BY <1>2 DEF Orderly
  <2>2. \A id : Dirty(id)' <=> Dirty(id)
    BY DEF Dirty
  <2>3. \A V : Reaches(n, V)' <=> Reaches(n, V)
    BY QuietReaches
  <2>4. writes' # <<>> => base'[n] = trie'[n]
    BY <2>1 DEF Coherent, Quiet
  <2>5. \A l \in lookups' : l.key = n /\ ~l.hit => ~Dirty(cache[n])'
    BY <2>1, <2>2 DEF Coherent, Dirty
  <2>6. cache'[n] # 0 /\ ~Dirty(cache[n])' => Reaches(n, Reading(latest[n]))'
    <3>1. PICK v, id : v = latest[n] /\ id = cache[n]
      OBVIOUS
    <3>2. cache[n] # 0 /\ ~Dirty(id) => Reaches(n, Reading(v))
      BY <2>1, <3>1 DEF Coherent
    <3>3. latest'[n] = v /\ cache'[n] = id
      BY <3>1
    <3> QED BY <2>2, <2>3, <3>1, <3>2, <3>3
  <2>7. \A d \in 1 .. Len(calls') : Flushing(d)' =>
         /\ calls'[d].tree[n] # 0 => entries'[calls'[d].tree[n]].val = calls'[d].promised[n]
         /\ Dirty(calls[d].tree[n])' =>
              /\ calls'[d].key # 0 /\ n > calls'[d].key
              /\ cache'[n] = calls'[d].tree[n] \/ Dirty(cache[n])'
         /\ ~Dirty(calls[d].tree[n])' => Reaches(n, Reading(calls[d].promised[n]))'
    <3> SUFFICES ASSUME NEW d \in 1 .. Len(calls'), Flushing(d)'
                 PROVE
         /\ calls'[d].tree[n] # 0 => entries'[calls'[d].tree[n]].val = calls'[d].promised[n]
         /\ Dirty(calls[d].tree[n])' =>
              /\ calls'[d].key # 0 /\ n > calls'[d].key
              /\ cache'[n] = calls'[d].tree[n] \/ Dirty(cache[n])'
         /\ ~Dirty(calls[d].tree[n])' => Reaches(n, Reading(calls[d].promised[n]))'
      OBVIOUS
    <3>1. /\ d \in 1 .. Len(calls) /\ Flushing(d) /\ calls'[d].tree = calls[d].tree
          /\ calls'[d].promised = calls[d].promised /\ calls'[d].key = calls[d].key
      BY DEF Quiet
    <3>2. PICK id, v, at : id = calls[d].tree[n] /\ v = calls[d].promised[n] /\ at = cache[n]
      OBVIOUS
    <3>3. /\ id # 0 => entries[id].val = v
          /\ Dirty(id) => calls[d].key # 0 /\ n > calls[d].key /\ (at = id \/ Dirty(at))
          /\ ~Dirty(id) => Reaches(n, Reading(v))
      BY <2>1, <3>1, <3>2 DEF Coherent
    <3>4. calls'[d].tree[n] = id /\ calls'[d].promised[n] = v /\ cache'[n] = at
      BY <3>1, <3>2
    <3> QED BY <2>2, <2>3, <3>1, <3>2, <3>3, <3>4
  <2>8. \A d \in 1 .. Len(calls') :
          Cleaning(d)' /\ n \in calls'[d].keys \ calls'[d].todo /\ latest'[n] = Empty =>
            \/ cache'[n] # 0 /\ entries'[cache'[n]].deleted
            \/ ~Dirty(cache[n])' /\ Reaches(n, {Absent})'
    <3> SUFFICES ASSUME NEW d \in 1 .. Len(calls'), Cleaning(d)',
                        n \in calls'[d].keys \ calls'[d].todo, latest[n] = Empty
                 PROVE  \/ cache[n] # 0 /\ entries[cache[n]].deleted
                        \/ ~Dirty(cache[n])' /\ Reaches(n, {Absent})'
      OBVIOUS
    <3>1. d \in 1 .. Len(calls) /\ CleanedBy(d, n)
      BY <1>2 DEF CleanedBy
    <3>2. \/ cache[n] # 0 /\ entries[cache[n]].deleted
          \/ ~Dirty(cache[n]) /\ Reaches(n, {Absent})
      BY <2>1, <3>1 DEF Coherent, CleanedBy
    <3>3. Dirty(cache[n])' <=> Dirty(cache[n])
      BY DEF Dirty
    <3> QED BY <2>3, <3>2, <3>3
  <2> QED BY ONLY <2>4, <2>5, <2>6, <2>7, <2>8 DEF Coherent
<1> QED BY <1>1, <1>2 DEF Orderly

\* The cache gets an entry at k.
LEMMA QuietUpdates ==
  ASSUME IInv, Orderly, Quiet, NEW k \in Key, NEW entry \in EntryType, Update(k, entry),
         entry.deleted => entry.val = Empty, ~(entry.modified /\ entry.deleted),
         \A n \in Key \ {k} : latest'[n] = latest[n],
         overtaken \subseteq overtaken', lookups' \subseteq lookups,
         \A n \in Key \ (overtaken' \cup {k}), d \in 1 .. Len(calls') : CleanedBy(d, n)' =>
           d \in 1 .. Len(calls) /\ CleanedBy(d, n),
         k \notin overtaken' =>
           \/ /\ entry.modified \/ entry.deleted
              /\ \A l \in lookups' : l.key = k => l.hit
              /\ \A d \in 1 .. Len(calls') :
                   CleanedBy(d, k)' /\ latest'[k] = Empty => entry.deleted
           \/ /\ ~entry.modified /\ ~entry.deleted /\ ~Dirty(cache[k])
              /\ latest'[k] = latest[k]
              /\ \A d \in 1 .. Len(calls') : CleanedBy(d, k)' /\ latest[k] = Empty =>
                   d \in 1 .. Len(calls) /\ CleanedBy(d, k)
  PROVE  Orderly'
<1>1. /\ cache'[k] \in 1 .. Len(entries') /\ entries'[cache'[k]] = entry
      /\ \A n \in Key \ {k} : /\ cache'[n] = cache[n]
                              /\ cache[n] # 0 => entries'[cache[n]] = entries[cache[n]]
      /\ \A c \in 1 .. Len(calls), n \in Key : calls[c].tree[n] # 0 =>
            entries'[calls[c].tree[n]] = entries[calls[c].tree[n]]
      /\ \A n \in Key \ {k} : cache'[k] # cache[n]
      /\ \A c \in 1 .. Len(calls), n \in Key : cache'[k] # calls[c].tree[n]
      /\ \A n \in 1 .. Len(entries') :
           \/ entries'[n] = entry \/ ~entries'[n].deleted
           \/ n \in 1 .. Len(entries) /\ entries'[n] = entries[n]
  <2>1. Types /\ Ids
    BY DEF IInv
  <2> QED BY ONLY <2>1, k \in Key, entry \in EntryType, Update(k, entry),
                  entry.deleted => entry.val = Empty, Updates
<1>2. OneKind'
  BY <1>1 DEF OneKind, Orderly
<1>3. Roots(calls)' /\ Alone'
  BY DEF Orderly, Alone, Quiet
<1>4. cache'[k] # 0
  <2>1. Len(entries') \in Nat
    <3>1. Types /\ Ids
      BY DEF IInv
    <3> QED BY <3>1, Updates
  <2> QED BY <1>1, <2>1
<1>5. OneKey(calls)'
  <2>1. \A d \in 1 .. Len(calls') :
          \/ \A n \in Key : calls'[d].tree[n] = 0
          \/ d \in 1 .. Len(calls) /\ \A n \in Key : calls'[d].tree[n] = calls[d].tree[n]
    BY DEF Quiet, NoTree
  <2>2. \A m, n \in Key : m # n =>
          /\ cache'[m] # 0 => cache'[m] # cache'[n]
          /\ \A c \in 1 .. Len(calls) : cache'[m] # 0 => cache'[m] # calls[c].tree[n]
          /\ \A c, d \in 1 .. Len(calls) :
               calls[c].tree[m] # 0 => calls[c].tree[m] # calls[d].tree[n]
    <3> SUFFICES ASSUME NEW m \in Key, NEW n \in Key, m # n
                 PROVE
          /\ cache'[m] # 0 => cache'[m] # cache'[n]
          /\ \A c \in 1 .. Len(calls) : cache'[m] # 0 => cache'[m] # calls[c].tree[n]
          /\ \A c, d \in 1 .. Len(calls) :
               calls[c].tree[m] # 0 => calls[c].tree[m] # calls[d].tree[n]
      OBVIOUS
    <3>1. OneKey(calls)
      BY DEF Orderly
    <3>2. CASE m = k
      BY ONLY <1>1, <3>1, <3>2, m \in Key, n \in Key, m # n DEF OneKey
    <3>3. CASE n = k
      BY ONLY <1>1, <3>1, <3>3, m \in Key, n \in Key, m # n DEF OneKey
    <3>4. CASE m # k /\ n # k
      BY ONLY <1>1, <3>1, <3>4, m \in Key, n \in Key, m # n DEF OneKey
    <3> QED BY <3>2, <3>3, <3>4
  <2> QED BY ONLY SMTT(30), <2>1, <2>2 DEF OneKey
<1>6. \A n, V : Reaches(n, V)' <=> Reaches(n, V)
  BY QuietReaches
<1>7. ASSUME NEW n \in Key \ overtaken' PROVE Coherent(n)'
  <2>1. Coherent(n) /\ Latest(n)
    BY <1>7 DEF Orderly, IInv, AllLatest
  <2>2. PICK at, new : at = cache[n] /\ new = cache'[n]
    OBVIOUS
  <2>3. PICK v : v = latest'[n]
    OBVIOUS
  \* what is in the cache at n
  <2>4. \/ /\ Dirty(new)' /\ new # 0
           /\ \A l \in lookups' : l.key = n => l.hit
           /\ \A d \in 1 .. Len(calls') :
                CleanedBy(d, n)' /\ v = Empty => entries'[new].deleted
        \/ /\ n # k => (new = at /\ (at # 0 => entries'[at] = entries[at]))
           /\ Dirty(new)' <=> Dirty(at)
           /\ n = k => ~Dirty(at) /\ new # 0
           /\ v = latest[n]
           /\ \A d \in 1 .. Len(calls') : CleanedBy(d, n)' /\ v = Empty =>
                d \in 1 .. Len(calls) /\ CleanedBy(d, n)
    <3>1. CASE n # k
      <4>1. new = at /\ (at # 0 => entries'[at] = entries[at])
        BY <1>1, <1>7, <2>2, <3>1
      <4>2. Dirty(new)' <=> Dirty(at)
        BY <4>1 DEF Dirty
      <4> QED BY <1>7, <2>3, <3>1, <4>1, <4>2
    <3>2. CASE n = k
      <4>1. new # 0 /\ entries'[new] = entry
        BY <1>1, <1>4, <2>2, <3>2
      <4>2. Dirty(new)' <=> entry.modified \/ entry.deleted
        BY <4>1 DEF Dirty
      <4>3. k \notin overtaken'
        BY <1>7, <3>2
      <4>4. Dirty(at) <=> Dirty(cache[k])
        BY <2>2, <3>2
      <4> QED BY <2>3, <3>2, <4>1, <4>2, <4>3, <4>4
    <3> QED BY <3>1, <3>2
  <2>5. writes' # <<>> => base'[n] = trie'[n]
    BY <2>1 DEF Coherent, Quiet
  <2>6. \A l \in lookups' : l.key = n /\ ~l.hit => ~Dirty(cache[n])'
    <3> SUFFICES ASSUME NEW l \in lookups', l.key = n, ~l.hit PROVE ~Dirty(new)'
      BY <2>2 DEF Dirty
    <3>1. ~Dirty(at)
      BY <2>1, <2>2 DEF Coherent
    <3> QED BY <2>4, <3>1
  <2>7. cache'[n] # 0 /\ ~Dirty(cache[n])' => Reaches(n, Reading(latest[n]))'
    <3> SUFFICES ASSUME new # 0, ~Dirty(new)' PROVE Reaches(n, Reading(v))
      <4>1. Reaches(n, Reading(latest[n]))' <=> Reaches(n, Reading(v))'
        BY <2>3
      <4>2. Dirty(cache[n])' <=> Dirty(new)'
        BY <2>2
      <4> QED BY <1>6, <2>2, <4>1, <4>2
    <3>1. ~Dirty(at) /\ v = latest[n] /\ (at = 0 => n = k)
      BY <2>4
    <3>2. CASE at # 0
      <4>1. Reaches(n, Reading(latest[n]))
        BY <2>1, <2>2, <3>1, <3>2 DEF Coherent
      <4> QED BY <3>1, <4>1
    <3>3. CASE at = 0
      <4>1. /\ Read(trie[n]) = v /\ trie[n] \in Value
            /\ \A m \in 1 .. Len(writes) : writes[m].key # n
        BY <2>1, <2>2, <3>1, <3>3 DEF Latest, IInv, Types
      <4> QED BY <4>1 DEF Reaches, Reading
    <3> QED BY <3>2, <3>3
  <2>8. \A d \in 1 .. Len(calls') : Flushing(d)' =>
         /\ calls'[d].tree[n] # 0 => entries'[calls'[d].tree[n]].val = calls'[d].promised[n]
         /\ Dirty(calls[d].tree[n])' =>
              /\ calls'[d].key # 0 /\ n > calls'[d].key
              /\ cache'[n] = calls'[d].tree[n] \/ Dirty(cache[n])'
         /\ ~Dirty(calls[d].tree[n])' => Reaches(n, Reading(calls[d].promised[n]))'
    <3> SUFFICES ASSUME NEW d \in 1 .. Len(calls'), Flushing(d)'
                 PROVE
         /\ calls'[d].tree[n] # 0 => entries'[calls'[d].tree[n]].val = calls'[d].promised[n]
         /\ Dirty(calls[d].tree[n])' =>
              /\ calls'[d].key # 0 /\ n > calls'[d].key
              /\ cache'[n] = calls'[d].tree[n] \/ Dirty(cache[n])'
         /\ ~Dirty(calls[d].tree[n])' => Reaches(n, Reading(calls[d].promised[n]))'
      OBVIOUS
    <3>1. /\ d \in 1 .. Len(calls) /\ Flushing(d) /\ calls'[d].tree = calls[d].tree
          /\ calls'[d].promised = calls[d].promised /\ calls'[d].key = calls[d].key
      BY DEF Quiet
    <3>2. PICK id, p : id = calls[d].tree[n] /\ p = calls[d].promised[n]
      OBVIOUS
    <3>3. id # 0 => entries'[id] = entries[id]
      BY <1>1, <3>1, <3>2
    <3>4. Dirty(id)' <=> Dirty(id)
      BY <3>3 DEF Dirty
    <3>5. /\ id # 0 => entries[id].val = p
          /\ Dirty(id) => calls[d].key # 0 /\ n > calls[d].key /\ (at = id \/ Dirty(at))
          /\ ~Dirty(id) => Reaches(n, Reading(p))
      BY <2>1, <2>2, <3>1, <3>2 DEF Coherent
    <3>6. calls'[d].tree[n] = id /\ calls'[d].promised[n] = p /\ cache'[n] = new
      BY <2>2, <3>1, <3>2
    <3>7. Dirty(id)' => new = id \/ Dirty(new)'
      <4> SUFFICES ASSUME Dirty(id), ~Dirty(new)' PROVE new = id
        BY <3>4
      <4>1. ~Dirty(at) /\ at = id
        BY <2>4, <3>5
      <4> QED BY <4>1
    <3>8. Dirty(calls[d].tree[n])' <=> Dirty(id)'
      BY <3>6
    <3>9. Reaches(n, Reading(calls[d].promised[n]))' <=> Reaches(n, Reading(p))'
      BY <3>6
    <3>10. Dirty(cache[n])' <=> Dirty(new)'
      BY <3>6
    <3>11. calls'[d].tree[n] # 0 => entries'[calls'[d].tree[n]].val = calls'[d].promised[n]
      BY <3>3, <3>5, <3>6
    <3> QED BY <1>6, <3>1, <3>4, <3>5, <3>6, <3>7, <3>8, <3>9, <3>10, <3>11
  <2>9. \A d \in 1 .. Len(calls') :
          Cleaning(d)' /\ n \in calls'[d].keys \ calls'[d].todo /\ latest'[n] = Empty =>
            \/ cache'[n] # 0 /\ entries'[cache'[n]].deleted
            \/ ~Dirty(cache[n])' /\ Reaches(n, {Absent})'
    <3> SUFFICES ASSUME NEW d \in 1 .. Len(calls'), CleanedBy(d, n)', v = Empty
                 PROVE  \/ new # 0 /\ entries'[new].deleted
                        \/ ~Dirty(new)' /\ Reaches(n, {Absent})
      <4>1. Dirty(cache[n])' <=> Dirty(new)'
        BY <2>2
      <4> QED BY <1>6, <2>2, <2>3, <4>1 DEF CleanedBy
    <3>1. CASE Dirty(new)' /\ n = k
      BY <2>4, <3>1
    <3>2. CASE ~(Dirty(new)' /\ n = k)
      <4>1. CASE Dirty(new)' /\ new # 0 /\ entries'[new].deleted
        BY <4>1
      <4>2. CASE /\ n # k => (new = at /\ (at # 0 => entries'[at] = entries[at]))
                 /\ Dirty(new)' <=> Dirty(at)
                 /\ n = k => ~Dirty(at) /\ new # 0
                 /\ v = latest[n] /\ d \in 1 .. Len(calls) /\ CleanedBy(d, n)
        <5>1. \/ at # 0 /\ entries[at].deleted
              \/ ~Dirty(at) /\ Reaches(n, {Absent})
          BY <2>1, <2>2, <4>2 DEF Coherent, CleanedBy
        <5>2. CASE at # 0 /\ entries[at].deleted
          <6>1. n # k
            BY <4>2, <5>2 DEF Dirty
          <6> QED BY <4>2, <5>2, <6>1
        <5>3. CASE ~Dirty(at) /\ Reaches(n, {Absent})
          BY <4>2, <5>3
        <5> QED BY <5>1, <5>2, <5>3
      <4> QED BY <2>4, <4>1, <4>2
    <3> QED BY <3>1, <3>2
  <2> QED BY ONLY <2>5, <2>6, <2>7, <2>8, <2>9 DEF Coherent
<1> QED BY <1>2, <1>3, <1>5, <1>7 DEF Orderly

\* A call begins that is no flush.
LEMMA BeginsQuietly ==
  ASSUME Types, Roots(calls), NEW call \in CallType, call.at \notin {"skipping", "writing"},
         call.tree = NoTree, call.root = EmptyTrie, call.todo = call.keys, Begin(call),
         UNCHANGED <<trie, base, writes, unwritten>>
  PROVE  /\ Quiet
         /\ \A n, d : d \in 1 .. Len(calls') /\ CleanedBy(d, n)' =>
              d \in 1 .. Len(calls) /\ CleanedBy(d, n)
<1>1. /\ Len(calls') = Len(calls) + 1 /\ calls'[Len(calls) + 1] = call
      /\ \A d \in 1 .. Len(calls) : calls'[d] = calls[d]
      /\ Len(calls) \in Nat
  <2>1. Len(calls) \in Nat
    BY DEF Types
  <2> QED BY <2>1, Begins
<1>2. \A d \in 1 .. Len(calls') : \/ d \in 1 .. Len(calls) /\ calls'[d] = calls[d]
                                  \/ calls'[d] = call
  BY <1>1
<1>3. Quiet
  BY <1>2 DEF Quiet, Flushing, Roots
<1>4. \A n, d : d \in 1 .. Len(calls') /\ CleanedBy(d, n)' =>
        d \in 1 .. Len(calls) /\ CleanedBy(d, n)
  BY <1>2 DEF CleanedBy, Cleaning
<1> QED BY <1>3, <1>4

\* A call ends that is no flush, or waits for one answer less.
LEMMA SettlesQuietly ==
  ASSUME Types, Roots(calls), NEW c \in 1 .. Len(calls), NEW x \in CallType,
         calls' = [calls EXCEPT ![c] = x],
         \/ x.at = "done" /\ x.tree = NoTree /\ x.root = EmptyTrie
         \/ \E todo \in SUBSET Key : x = [calls[c] EXCEPT !.todo = todo],
         UNCHANGED <<trie, base, writes, unwritten>>
  PROVE  /\ Quiet /\ Len(calls') = Len(calls) /\ calls'[c] = x
         /\ \A d \in 1 .. Len(calls) \ {c} : calls'[d] = calls[d]
<1>1. /\ Len(calls') = Len(calls) /\ calls'[c] = x
      /\ \A d \in 1 .. Len(calls) \ {c} : calls'[d] = calls[d]
  BY Replaced DEF Types
<1>2. \A todo : [calls[c] EXCEPT !.todo = todo].tree = calls[c].tree
              /\ [calls[c] EXCEPT !.todo = todo].root = calls[c].root
              /\ [calls[c] EXCEPT !.todo = todo].at = calls[c].at
              /\ [calls[c] EXCEPT !.todo = todo].promised = calls[c].promised
              /\ [calls[c] EXCEPT !.todo = todo].key = calls[c].key
  <2>1. calls[c] \in CallType
    BY Elements
  <2> QED BY <2>1 DEF CallType
<1>3. \/ x.at = "done" /\ x.tree = NoTree /\ x.root = EmptyTrie
      \/ /\ x.tree = calls[c].tree /\ x.root = calls[c].root /\ x.at = calls[c].at
         /\ x.promised = calls[c].promised /\ x.key = calls[c].key
  BY <1>2
<1>4. Quiet
  BY <1>1, <1>3 DEF Quiet, Flushing, Roots
<1> QED BY <1>1, <1>4

LEMMA GetOrderly ==
  ASSUME IInv, Orderly, NEW k \in Key, GetAccount(k)
  PROVE  Orderly'
<1> DEFINE call == IF cache[k] # 0 THEN Done(NewCall("get")) ELSE NewCall("get")
<1>1. /\ Begin(call)
      /\ lookups' = lookups \cup {[call |-> Len(calls) + 1, key |-> n, hit |-> cache[n] # 0,
                                   val |-> Found(n)] : n \in IF cache[k] # 0 THEN {} ELSE {k}}
      /\ UNCHANGED <<trie, base, writes, entries, cache, latest, overtaken, unwritten>>
  BY DEF GetAccount, Ask, ghosts
<1>2. PICK new \in CallType : new = NewCall("get")
  BY CallTypes
<1>3. /\ call \in CallType /\ call.at \notin {"skipping", "writing"} /\ call.tree = NoTree
      /\ call.root = EmptyTrie
  <2>1. new.at = "waiting" /\ new.tree = NoTree /\ new.root = EmptyTrie
    BY <1>2, CallTypes, NoRoot
  <2>2. Done(new) \in CallType /\ Done(new).at = "done" /\ Done(new).tree = NoTree
        /\ Done(new).root = EmptyTrie
    BY CallTypes, NoRoot
  <2> QED BY <1>2, <2>1, <2>2
<1>4. call.todo = call.keys
  <2>1. new.todo = {} /\ new.keys = {} /\ new.kind = "get"
    BY <1>2 DEF NewCall
  <2>2. NewCall(new.kind) = new
    BY <1>2, <2>1
  <2>3. Done(new) = [new EXCEPT !.at = "done"]
    BY <2>2 DEF Done
  <2>4. [new EXCEPT !.at = "done"].todo = new.todo /\ [new EXCEPT !.at = "done"].keys = new.keys
    BY DEF CallType
  <2> QED BY <1>2, <2>1, <2>3, <2>4
<1> HIDE DEF call
<1>5. Types /\ Roots(calls)
  BY DEF IInv, Orderly
<1>6. /\ Quiet
      /\ \A n, d : d \in 1 .. Len(calls') /\ CleanedBy(d, n)' =>
           d \in 1 .. Len(calls) /\ CleanedBy(d, n)
  BY <1>1, <1>3, <1>4, <1>5, BeginsQuietly
<1>7. \A l \in lookups' : ~l.hit => l \in lookups \/ cache[l.key] = 0
  BY <1>1
<1> QED BY <1>1, <1>6, <1>7, QuietStays

LEMMA CleanupOrderly ==
  ASSUME IInv, Orderly, CleanupTouchedAccounts
  PROVE  Orderly'
<1> DEFINE call == [NewCall("cleanup") EXCEPT !.keys = touched, !.todo = touched]
<1>1. /\ Begin(call)
      /\ lookups' = lookups \cup {[call |-> Len(calls) + 1, key |-> n, hit |-> cache[n] # 0,
                                   val |-> Found(n)] : n \in touched}
      /\ UNCHANGED <<trie, base, writes, entries, cache, latest, overtaken, unwritten>>
  BY DEF CleanupTouchedAccounts, Ask, ghosts
<1>2. PICK new \in CallType : new = NewCall("cleanup")
  BY CallTypes
<1>3. /\ call \in CallType /\ call.at \notin {"skipping", "writing"} /\ call.tree = NoTree
      /\ call.root = EmptyTrie /\ call.todo = call.keys
  <2>1. new.at = "waiting" /\ new.tree = NoTree /\ new.root = EmptyTrie
    BY <1>2, CallTypes, NoRoot
  <2>2. touched \subseteq Key
    BY DEF IInv, Types
  <2> QED BY <1>2, <2>1, <2>2 DEF CallType
<1> HIDE DEF call
<1>5. Types /\ Roots(calls)
  BY DEF IInv, Orderly
<1>6. /\ Quiet
      /\ \A n, d : d \in 1 .. Len(calls') /\ CleanedBy(d, n)' =>
           d \in 1 .. Len(calls) /\ CleanedBy(d, n)
  BY <1>1, <1>3, <1>5, BeginsQuietly
<1>7. ASSUME NEW l \in lookups', ~l.hit PROVE l \in lookups \/ cache[l.key] = 0
  <2> SUFFICES ASSUME l \notin lookups PROVE cache[l.key] = 0
    OBVIOUS
  <2>1. PICK n \in touched : l = [call |-> Len(calls) + 1, key |-> n, hit |-> cache[n] # 0,
                                  val |-> Found(n)]
    BY <1>1, <1>7
  <2> QED BY <1>7, <2>1
<1> QED BY <1>1, <1>6, <1>7, QuietStays

LEMMA PutOrderly ==
  ASSUME IInv, Orderly, NEW k \in Key, NEW account \in Account, PutAccount(k, account)
  PROVE  Orderly'
<1> DEFINE entry == Entry(account, TRUE, FALSE)
<1>1. /\ Update(k, entry)
      /\ latest' = [latest EXCEPT ![k] = account]
      /\ overtaken' = overtaken \cup Late(k)
                        \cup (IF \E c \in DOMAIN calls : Cleaning(c) THEN {k} ELSE {})
      /\ UNCHANGED <<trie, base, writes, lookups, calls, unwritten>>
  BY DEF PutAccount
<1>2. entry \in EntryType /\ entry.modified /\ ~entry.deleted
  BY DEF Entry, EntryType
<1> HIDE DEF entry
<1>3. Quiet
  BY <1>1 DEF Quiet, Flushing, Roots, Orderly
<1>4. \A n \in Key \ {k} : latest'[n] = latest[n]
  BY <1>1 DEF IInv, Types
<1>5. k \notin overtaken' =>
        /\ \A l \in lookups' : l.key = k => l.hit
        /\ \A d \in 1 .. Len(calls') : ~CleanedBy(d, k)'
  <2>1. DOMAIN calls = 1 .. Len(calls)
    BY DEF IInv, Types
  <2>2. k \notin overtaken' => k \notin Late(k) /\ \A c \in 1 .. Len(calls) : ~Cleaning(c)
    BY <1>1, <2>1
  <2>3. k \notin overtaken' => \A l \in lookups : l.key = k => l.hit
    BY <2>2 DEF Late, Changing
  <2> QED BY <1>1, <2>2, <2>3 DEF CleanedBy, Cleaning
<1>6. \A n, d : d \in 1 .. Len(calls') /\ CleanedBy(d, n)' =>
        d \in 1 .. Len(calls) /\ CleanedBy(d, n)
  BY <1>1 DEF CleanedBy, Cleaning
<1> QED BY <1>1, <1>2, <1>3, <1>4, <1>5, <1>6, QuietUpdates

LEMMA AnswerOrderly ==
  ASSUME IInv, Orderly, NEW l \in lookups, Answer(l)
  PROVE  Orderly'
<1> DEFINE call == calls[l.call]
           todo == call.todo \ {l.key}
           last == call.at = "waiting" /\ todo = {}
           x == IF last THEN Done(call) ELSE [call EXCEPT !.todo = todo]
           k == l.key
<1>1. /\ lookups' = lookups \ {l}
      /\ calls' = [calls EXCEPT ![l.call] = x]
      /\ IF Empties(l) THEN Update(k, DeletedEntry)
         ELSE IF l.hit THEN UNCHANGED <<entries, cache>>
         ELSE Update(k, Entry(l.val, FALSE, FALSE))
      /\ overtaken' = overtaken \cup
           {a.key : a \in {b \in lookups \ {l} : b.key = k /\ Changing(b) /\ Empties(l)}}
      /\ UNCHANGED <<trie, base, writes, latest, unwritten>>
  BY DEF Answer
<1>2. Types /\ Ids /\ Roots(calls)
  BY DEF IInv, Orderly
<1>3. /\ l \in LookupType /\ k \in Key /\ l.val \in Account
      /\ l.call \in 1 .. Len(calls) /\ call \in CallType /\ call.todo \subseteq Key
  BY <1>2, Elements DEF Ids
<1>4. /\ x \in CallType
      /\ \/ x.at = "done" /\ x.tree = NoTree /\ x.root = EmptyTrie
         \/ \E some \in SUBSET Key : x = [call EXCEPT !.todo = some]
      /\ x.at = "waiting" => x.kind = call.kind /\ call.at = "waiting" /\ x.keys = call.keys
                             /\ x.todo = todo
  <2>1. CASE last
    BY <1>3, <2>1, CallTypes, NoRoot
  <2>2. CASE ~last
    <3>1. x = [call EXCEPT !.todo = todo] /\ todo \in SUBSET Key
      BY <1>3, <2>2
    <3> HIDE DEF x, todo
    <3>2. /\ [call EXCEPT !.todo = todo] \in CallType
          /\ [call EXCEPT !.todo = todo].kind = call.kind
          /\ [call EXCEPT !.todo = todo].at = call.at
          /\ [call EXCEPT !.todo = todo].keys = call.keys
          /\ [call EXCEPT !.todo = todo].todo = todo
      BY <1>3, <3>1 DEF CallType
    <3> QED BY <3>1, <3>2
  <2> QED BY <2>1, <2>2
<1> HIDE DEF x
<1>5. /\ Quiet /\ Len(calls') = Len(calls) /\ calls'[l.call] = x
      /\ \A d \in 1 .. Len(calls) \ {l.call} : calls'[d] = calls[d]
  BY <1>1, <1>2, <1>3, <1>4, SettlesQuietly
\* of the keys cleaned only the one that is answered is new
<1>6. \A n, d : d \in 1 .. Len(calls') /\ CleanedBy(d, n)' =>
        /\ d \in 1 .. Len(calls)
        /\ CleanedBy(d, n) \/ (d = l.call /\ n = k /\ call.kind = "cleanup")
  <2> SUFFICES ASSUME NEW n, NEW d \in 1 .. Len(calls), CleanedBy(d, n)', ~CleanedBy(d, n)
               PROVE  d = l.call /\ n = k /\ call.kind = "cleanup"
    BY <1>5
  <2>1. d = l.call
    BY <1>5 DEF CleanedBy, Cleaning
  <2>2. x.at = "waiting" /\ x.kind = "cleanup" /\ n \in x.keys \ x.todo
    BY <1>5, <2>1 DEF CleanedBy, Cleaning
  <2>3. call.kind = "cleanup" /\ call.at = "waiting" /\ n \in call.keys /\ n \notin todo
    BY <1>4, <2>2
  <2>4. n \in call.todo
    BY <2>1, <2>3 DEF CleanedBy, Cleaning
  <2> QED BY <2>1, <2>3, <2>4
\* an account that is not emptied is not empty
<1>7. k \notin overtaken /\ call.kind = "cleanup" /\ ~Empties(l) => latest[k] # Empty
  BY <1>3 DEF IInv, AllLatest, Latest, Changing, Empties
<1>8. overtaken \subseteq overtaken' /\ lookups' \subseteq lookups /\ latest' = latest
  BY <1>1
<1> HIDE DEF call
<1>9. CASE Empties(l)
  <2>1. DeletedEntry \in EntryType /\ DeletedEntry.val = Empty /\ DeletedEntry.deleted
        /\ ~DeletedEntry.modified
    BY DEF DeletedEntry, Entry, EntryType
  <2>2. Update(k, DeletedEntry)
    BY <1>1, <1>9
  <2>3. k \notin overtaken' => \A a \in lookups' : a.key = k => a.hit
    BY <1>1, <1>9 DEF Changing
  <2> HIDE DEF k
  <2>4. \A n \in Key \ (overtaken' \cup {k}), d \in 1 .. Len(calls') : CleanedBy(d, n)' =>
           d \in 1 .. Len(calls) /\ CleanedBy(d, n)
    BY <1>6
  <2> QED BY <1>3, <1>5, <1>8, <2>1, <2>2, <2>3, <2>4, QuietUpdates
<1>10. CASE ~Empties(l) /\ l.hit
  <2>1. UNCHANGED <<entries, cache, latest>>
    BY <1>1, <1>10
  <2>2. \A n \in Key \ overtaken', d \in 1 .. Len(calls') : CleanedBy(d, n)' =>
           latest[n] # Empty \/ (d \in 1 .. Len(calls) /\ CleanedBy(d, n))
    BY <1>6, <1>7, <1>8, <1>10
  <2>3. \A a \in lookups' : a \in lookups
    BY <1>8
  <2> QED BY <1>5, <1>8, <2>1, <2>2, <2>3, QuietStays
<1>11. CASE ~Empties(l) /\ ~l.hit
  <2> DEFINE entry == Entry(l.val, FALSE, FALSE)
  <2>1. entry \in EntryType /\ ~entry.deleted /\ ~entry.modified
    BY <1>3 DEF Entry, EntryType
  <2>2. Update(k, entry)
    BY <1>1, <1>11
  <2> HIDE DEF entry
  <2>3. k \notin overtaken' => ~Dirty(cache[k])
    BY <1>3, <1>8, <1>11 DEF Orderly, Coherent
  <2> HIDE DEF k
  <2>4. \A n \in Key \ (overtaken' \cup {k}), d \in 1 .. Len(calls') : CleanedBy(d, n)' =>
           d \in 1 .. Len(calls) /\ CleanedBy(d, n)
    BY <1>6
  <2>5. k \notin overtaken' =>
          \A d \in 1 .. Len(calls') : CleanedBy(d, k)' /\ latest[k] = Empty =>
            d \in 1 .. Len(calls) /\ CleanedBy(d, k)
    BY <1>6, <1>7, <1>8, <1>11
  <2> QED BY <1>3, <1>5, <1>8, <2>1, <2>2, <2>3, <2>4, <2>5, QuietUpdates
<1> QED BY <1>9, <1>10, <1>11

LEMMA LoadFailsOrderly ==
  ASSUME IInv, Orderly, NEW l \in lookups, LoadFails(l)
  PROVE  Orderly'
<1> DEFINE call == calls[l.call]
           x == IF call.at = "waiting" THEN Failed(call) ELSE call
<1>1. /\ lookups' = lookups \ {l}
      /\ calls' = [calls EXCEPT ![l.call] = x]
      /\ UNCHANGED <<trie, base, writes, entries, cache, latest, overtaken, unwritten>>
  BY DEF LoadFails, ghosts
<1>2. Types /\ Ids /\ Roots(calls)
  BY DEF IInv, Orderly
<1>3. l.call \in 1 .. Len(calls) /\ call \in CallType
  BY <1>2, Elements DEF Ids
<1>4. /\ x \in CallType /\ x.at # "waiting"
      /\ \/ x.at = "done" /\ x.tree = NoTree /\ x.root = EmptyTrie
         \/ \E some \in SUBSET Key : x = [call EXCEPT !.todo = some]
  <2>1. CASE call.at = "waiting"
    BY <1>3, <2>1, CallTypes, NoRoot
  <2>2. CASE call.at # "waiting"
    <3>1. call.todo \in SUBSET Key /\ call = [call EXCEPT !.todo = call.todo]
      BY <1>3 DEF CallType
    <3> QED BY <1>3, <2>2, <3>1
  <2> QED BY <2>1, <2>2
<1> HIDE DEF x
<1>5. /\ Quiet /\ Len(calls') = Len(calls) /\ calls'[l.call] = x
      /\ \A d \in 1 .. Len(calls) \ {l.call} : calls'[d] = calls[d]
  BY <1>1, <1>2, <1>3, <1>4, SettlesQuietly
<1>6. \A n, d : d \in 1 .. Len(calls') /\ CleanedBy(d, n)' =>
        d \in 1 .. Len(calls) /\ CleanedBy(d, n)
  BY <1>4, <1>5 DEF CleanedBy, Cleaning
<1> QED BY <1>1, <1>5, <1>6, QuietStays

LEMMA RefuseOrderly ==
  ASSUME IInv, Orderly, NEW c \in 1 .. Len(calls), RefuseRoot(c)
  PROVE  Orderly'
<1>1. /\ calls' = [calls EXCEPT ![c] = Failed(@)]
      /\ UNCHANGED <<trie, base, writes, entries, cache, lookups, latest, overtaken, unwritten>>
  BY DEF RefuseRoot, ghosts
<1>2. Types /\ Roots(calls) /\ calls[c] \in CallType
  BY Elements DEF IInv, Orderly
<1>3. PICK x \in CallType : x = Failed(calls[c]) /\ calls' = [calls EXCEPT ![c] = x]
  BY <1>1, <1>2, CallTypes
<1>4. x.at = "done" /\ x.tree = NoTree /\ x.root = EmptyTrie
  BY <1>2, <1>3, CallTypes, NoRoot
<1>5. /\ Quiet /\ Len(calls') = Len(calls) /\ calls'[c] = x
      /\ \A d \in 1 .. Len(calls) \ {c} : calls'[d] = calls[d]
  BY <1>1, <1>2, <1>3, <1>4, SettlesQuietly
<1>6. \A n, d : d \in 1 .. Len(calls') /\ CleanedBy(d, n)' =>
        d \in 1 .. Len(calls) /\ CleanedBy(d, n)
  BY <1>4, <1>5 DEF CleanedBy, Cleaning
<1> QED BY <1>1, <1>5, <1>6, QuietStays

\* A root is entered: when no flush is under way, the trie and the cache agree
\* on nothing being there.
LEMMA EnterOrderly ==
  ASSUME IInv, Orderly, NEW c \in 1 .. Len(calls), EnterRoot(c)
  PROVE  Orderly'
<1>1. /\ trie' = calls[c].root /\ cache' = NoTree
      /\ calls' = [calls EXCEPT ![c] = Done(@)]
      /\ overtaken' = IF \E d \in DOMAIN calls : Flushing(d) THEN Key
                      ELSE overtaken \cup UNION {Late(k) : k \in Key}
      /\ UNCHANGED <<base, writes, entries, lookups>>
  BY DEF EnterRoot, Cleared
<1>2. Types /\ Roots(calls) /\ calls[c] \in CallType /\ DOMAIN calls = 1 .. Len(calls)
  BY Elements DEF IInv, Orderly
<1>3. PICK x \in CallType : x = Done(calls[c]) /\ calls' = [calls EXCEPT ![c] = x]
  BY <1>1, <1>2, CallTypes
<1>4. x.at = "done" /\ x.tree = NoTree /\ x.root = EmptyTrie
  BY <1>2, <1>3, CallTypes, NoRoot
<1>5. /\ Len(calls') = Len(calls) /\ calls'[c] = x
      /\ \A d \in 1 .. Len(calls) \ {c} : calls'[d] = calls[d]
  BY <1>2, <1>3, Replaced DEF Types
<1>6. \A k \in Key : NoTree[k] = 0 /\ EmptyTrie[k] = Absent /\ trie'[k] = Absent /\ cache'[k] = 0
  BY <1>1, <1>2 DEF NoTree, EmptyTrie, Roots
<1>7. OneKey(calls)'
  <2>1. \A d \in 1 .. Len(calls), k \in Key :
          calls'[d].tree[k] = calls[d].tree[k] \/ calls'[d].tree[k] = 0
    BY <1>4, <1>5, <1>6
  <2>2. OneKey(calls)
    BY DEF Orderly
  <2> QED BY ONLY SMTT(30), <1>5, <1>6, <2>1, <2>2 DEF OneKey
<1>8. OneKind' /\ Roots(calls)' /\ Alone'
  BY <1>1, <1>4, <1>5 DEF Orderly, OneKind, Roots, Alone, Flushing
<1>9. ASSUME NEW n \in Key \ overtaken' PROVE Coherent(n)'
  <2>1. \A d \in 1 .. Len(calls) : ~Flushing(d)
    BY <1>1, <1>2, <1>9
  <2>2. writes = <<>> /\ \A d \in 1 .. Len(calls') : ~Flushing(d)'
    <3>1. writes = <<>>
      BY <2>1, Serial DEF Orderly
    <3> QED BY <1>4, <1>5, <2>1, <3>1 DEF Flushing
  <2>3. ~Dirty(cache[n])' /\ cache'[n] = 0
    BY <1>6, <1>9 DEF Dirty
  <2>4. Reaches(n, {Absent})'
    <3>1. Len(writes') = 0 /\ trie'[n] = Absent
      BY <1>1, <1>6, <1>9, <2>2
    <3>2. \A m \in 1 .. Len(writes') : FALSE
      BY <3>1
    <3> QED BY ONLY <3>1, <3>2 DEF Reaches
  <2>5. writes' = <<>>
    BY <1>1, <2>2
  <2> QED BY ONLY <2>2, <2>3, <2>4, <2>5 DEF Coherent
<1> QED BY <1>7, <1>8, <1>9 DEF Orderly

LEMMA InitOrderly ==
  ASSUME Init
  PROVE  Orderly
<1>1. /\ writes = <<>> /\ entries = <<>> /\ cache = NoTree /\ lookups = {} /\ calls = <<>>
      /\ Len(writes) = 0 /\ Len(calls) = 0 /\ Len(entries) = 0
  BY DEF Init
<1>2. \A k \in Key : cache[k] = 0
  BY <1>1 DEF NoTree
<1>3. OneKey(calls) /\ OneKind /\ Alone /\ Roots(calls)
  BY <1>1, <1>2 DEF OneKey, OneKind, Alone, Roots
<1>4. \A k \in Key : Coherent(k)
  BY <1>1, <1>2 DEF Coherent
<1> QED BY <1>3, <1>4 DEF Orderly

LEMMA NextOrderly ==
  ASSUME IInv, Orderly, [Next]_vars, ~overlapped'
  PROVE  Orderly'
<1>1. DOMAIN calls = 1 .. Len(calls)
  BY DEF IInv, Types
<1>2. ASSUME NEW k \in Key, GetAccount(k) PROVE Orderly'
  BY <1>2, GetOrderly
<1>3. ASSUME NEW k \in Key, NEW account \in Account, PutAccount(k, account) PROVE Orderly'
  BY <1>3, PutOrderly
<1>4. ASSUME CleanupTouchedAccounts PROVE Orderly'
  BY <1>4, CleanupOrderly
<1>5. ASSUME GetStateRoot PROVE Orderly'
  <2>1. PICK new \in CallType : new = NewCall("root")
    BY CallTypes
  <2>2. new.root = EmptyTrie /\ new.kind = "root" /\ Flush(new)
    BY <1>5, <2>1, CallTypes, NoRoot DEF GetStateRoot
  <2> QED BY <2>2, FlushOrderly
<1>6. ASSUME SetStateRoot(EmptyTrie) PROVE Orderly'
  <2> DEFINE call == [NewCall("reset") EXCEPT !.root = EmptyTrie]
  <2>1. PICK new \in CallType : new = NewCall("reset")
    BY CallTypes
  <2>2. call \in CallType /\ call.root = EmptyTrie /\ call.kind = "reset"
    BY <2>1, CallTypes DEF CallType
  <2> HIDE DEF call
  <2>3. Flush(call)
    BY <1>6 DEF SetStateRoot, call
  <2> QED BY <2>2, <2>3, FlushOrderly
<1>7. ASSUME NEW l \in lookups, Answer(l) \/ LoadFails(l) PROVE Orderly'
  BY <1>7, AnswerOrderly, LoadFailsOrderly
<1>8. ASSUME NEW c \in 1 .. Len(calls), Skip(c) \/ EnterRoot(c) \/ RefuseRoot(c) PROVE Orderly'
  BY <1>8, SkipOrderly, EnterOrderly, RefuseOrderly
<1>9. ASSUME Write \/ WriteFails PROVE Orderly'
  BY <1>9, WriteOrderly, WriteFailsOrderly
<1>10. ASSUME UNCHANGED vars PROVE Orderly'
  <2>1. Quiet
    BY <1>10 DEF vars, ghosts, Quiet, Flushing, Roots, Orderly
  <2>2. \A n, d : d \in 1 .. Len(calls') /\ CleanedBy(d, n)' =>
          d \in 1 .. Len(calls) /\ CleanedBy(d, n)
    BY <1>10 DEF vars, ghosts, CleanedBy, Cleaning
  <2>3. UNCHANGED <<entries, cache, latest, lookups, overtaken>>
    BY <1>10 DEF vars, ghosts
  <2> QED BY <2>1, <2>2, <2>3, QuietStays
<1> QED BY <1>1, <1>2, <1>3, <1>4, <1>5, <1>6, <1>7, <1>8, <1>9, <1>10 DEF Next, Callback

LEMMA Overlaps ==
  ASSUME [Next]_vars
  PROVE  overlapped => overlapped'
BY DEF Next, Callback, vars, ghosts, GetAccount, PutAccount, CleanupTouchedAccounts,
       GetStateRoot, SetStateRoot, Flush, Answer, LoadFails, Skip, Write, WriteFails, EnterRoot,
       RefuseRoot

\* As long as no two flushes overlap, what a flush has not written yet is where
\* it will find it, what it has written is what was put, and what a cleanup
\* emptied stays empty (cache.ts flush; stateManager.ts cleanupTouchedAccounts).
THEOREM Order == Spec => []Strict
<1>1. Init => Strict
  BY InitHolds, InitOrderly DEF Strict
<1>2. Strict /\ [Next]_vars => Strict'
  BY NextKeeps, NextOrderly, Overlaps DEF Strict
<1> QED BY <1>1, <1>2, PTL DEF Spec

\* The trie has what was promised when a flush is over.
LEMMA OverComplete ==
  ASSUME IInv, Orderly, NEW c \in 1 .. Len(calls), Flushing(c), Proceed(<<>>, c),
         ~Flushing(c)', trie' \in [Key -> Value],
         NEW n \in Key \ (overtaken \cup unwritten), unwritten' \subseteq unwritten,
         \A V : Reaches(n, V) => Awaits(n, V)
  PROVE  Read(trie'[n]) = calls[c].promised[n]
<1> DEFINE from == calls[c].key
           t == calls[c].tree
           next == Behind(t, from)
<1>1. t \in [Key -> Nat] /\ from \in Nat /\ calls \in Seq(CallType)
  BY Elements DEF IInv, Types
<1>2. ~(from # 0 /\ next # 0)
  <2> SUFFICES ASSUME from # 0, next # 0 PROVE FALSE
    OBVIOUS
  <2>1. Visit(calls, <<>>, c, next)
    BY DEF Proceed
  <2>2. next \in Key /\ t[next] # 0
    BY <1>1, BehindIsNext
  <2>3. t[next] \in 1 .. Len(entries)
    <3>1. Len(entries) \in Nat /\ \A m \in Key : t[m] <= Len(entries)
      <4>1. Types /\ Ids
        BY DEF IInv
      <4> QED BY <4>1, Elements DEF Ids
    <3> HIDE DEF t, next
    <3>2. t[next] \in Nat /\ t[next] # 0 /\ t[next] <= Len(entries)
      BY ONLY <1>1, <2>2, <3>1
    <3> QED BY ONLY <3>1, <3>2
  <2> HIDE DEF next
  <2>4. Types /\ Ids /\ OneKind
    BY DEF IInv, Orderly
  <2>5. Round(calls, c, next)
    BY <1>1, <2>1, <2>2, <2>3, <2>4, Rounds
  <2> QED BY <2>5 DEF Round, Flushing
<1>3. Settled(calls, c, n, from) /\ Coherent(n)
  BY SettledAt DEF Orderly
<1>4. ~Dirty(t[n])
  <2> SUFFICES ASSUME Dirty(t[n]) PROVE FALSE
    OBVIOUS
  <2>1. from # 0 /\ n > from /\ t[n] # 0
    BY <1>3 DEF Coherent, Dirty
  <2>2. next = 0
    BY <1>2, <2>1
  <2> QED BY <1>1, <2>1, <2>2, BehindIsNext
<1>5. Awaits(n, Reading(calls[c].promised[n]))
  BY <1>3, <1>4 DEF Settled
<1> QED BY <1>5 DEF Awaits, Reading

\* A flush is over only by its own steps.
LEMMA OnlyItself ==
  ASSUME IInv, [Next]_vars, NEW c \in 1 .. Len(calls), Flushing(c), ~Flushing(c)'
  PROVE  (\E d \in 1 .. Len(calls) : Skip(d)) \/ Write \/ WriteFails
<1>1. /\ calls \in Seq(CallType) /\ DOMAIN calls = 1 .. Len(calls) /\ Len(calls) \in Nat
      /\ calls[c].at \in {"skipping", "writing"} /\ calls'[c].at \notin {"skipping", "writing"}
      /\ \A l \in lookups : l.call \in 1 .. Len(calls)
  BY DEF IInv, Types, Ids, Flushing
<1>2. ASSUME NEW k \in Key, GetAccount(k) PROVE FALSE
  BY <1>1, <1>2 DEF GetAccount, Begin
<1>3. ASSUME NEW k \in Key, NEW account \in Account, PutAccount(k, account) PROVE FALSE
  BY <1>1, <1>3 DEF PutAccount
<1>4. ASSUME CleanupTouchedAccounts PROVE FALSE
  BY <1>1, <1>4 DEF CleanupTouchedAccounts, Begin
<1>5. ASSUME NEW call, Flush(call) PROVE FALSE
  <2>1. PICK x, at, k : calls' = [Append(calls, x) EXCEPT ![Len(calls) + 1].key = k,
                                                        ![Len(calls) + 1].at = at]
    BY <1>5 DEF Flush, Visit
  <2>2. PICK list : list = Append(calls, x)
    OBVIOUS
  <2>3. list[c] = calls[c] /\ c # Len(calls) + 1
    BY <1>1, <2>2
  <2>4. calls' = [list EXCEPT ![Len(calls) + 1].key = k, ![Len(calls) + 1].at = at]
    BY <2>1, <2>2
  <2>5. c \in DOMAIN list
    BY <1>1, <2>2
  <2>6. calls'[c] = list[c]
    BY ONLY <2>3, <2>4, <2>5
  <2> QED BY <1>1, <2>3, <2>6
<1>6. ASSUME NEW l \in lookups, Answer(l) PROVE FALSE
  <2> DEFINE call == calls[l.call]
             todo == call.todo \ {l.key}
             x == IF call.at = "waiting" /\ todo = {} THEN Done(call)
                  ELSE [call EXCEPT !.todo = todo]
  <2>1. calls' = [calls EXCEPT ![l.call] = x]
    BY <1>6 DEF Answer
  <2>2. call \in CallType
    BY <1>1
  <2>3. call.at # "waiting" => x.at = call.at
    BY <2>2 DEF CallType
  <2> HIDE DEF x
  <2> QED BY <1>1, <2>1, <2>3
<1>7. ASSUME NEW l \in lookups, LoadFails(l) PROVE FALSE
  BY <1>1, <1>7 DEF LoadFails
<1>8. ASSUME NEW d \in 1 .. Len(calls), EnterRoot(d) \/ RefuseRoot(d) PROVE FALSE
  BY <1>1, <1>8 DEF EnterRoot, RefuseRoot
<1>9. ASSUME UNCHANGED vars PROVE FALSE
  BY <1>1, <1>9 DEF vars
<1> QED BY <1>1, <1>2, <1>3, <1>4, <1>5, <1>6, <1>7, <1>8, <1>9
        DEF Next, Callback, GetStateRoot, SetStateRoot

\* When a flush is answered the trie has all that was put before it began (see
\* FlushIsComplete; cache.ts flush).
THEOREM Complete == Spec => FlushIsComplete
<1> DEFINE Completes ==
             \A c \in DOMAIN calls :
               /\ Flushing(c) /\ ~Flushing(c)' /\ ~calls'[c].failed
               /\ ~overlapped
               => \A k \in Key \ (overtaken \cup unwritten) :
                    latest[k] = calls[c].promised[k] => Read(trie'[k]) = latest[k]
<1>1. ASSUME Strict, [Next]_vars PROVE Completes
  <2> SUFFICES ASSUME NEW c \in DOMAIN calls, Flushing(c), ~Flushing(c)', ~calls'[c].failed,
                      ~overlapped, NEW k \in Key \ (overtaken \cup unwritten),
                      latest[k] = calls[c].promised[k]
               PROVE  Read(trie'[k]) = latest[k]
    OBVIOUS
  <2>1. IInv /\ Orderly /\ c \in 1 .. Len(calls) /\ calls[c] \in CallType
    BY <1>1, Elements DEF IInv, Strict
  <2>2. \A d \in 1 .. Len(calls) : Flushing(d) => d = c
    BY <2>1 DEF Orderly, Alone
  <2>3. trie \in [Key -> Value] /\ base \in [Key -> Value] /\ calls \in Seq(CallType)
    BY <2>1 DEF IInv, Types
  <2>4. ASSUME NEW d \in 1 .. Len(calls), Skip(d) PROVE Read(trie'[k]) = latest[k]
    <3>1. calls[d].at = "skipping" /\ Proceed(writes, d) /\ UNCHANGED <<trie, unwritten>>
      BY <2>4 DEF Skip, ghosts
    <3>2. d = c /\ writes = <<>>
      BY <2>1, <2>2, <3>1, Serial DEF Flushing, Orderly
    <3>3. \A V : Reaches(k, V) => Awaits(k, V)
      BY <3>1, <3>2 DEF Reaches, Awaits
    <3> QED BY <2>1, <2>3, <3>1, <3>2, <3>3, OverComplete
  <2>5. writes # <<>> => Head(writes).call = c /\ Tail(writes) = <<>>
    BY <2>1, <2>2, Serial DEF Flushing, Orderly
  <2>6. ASSUME Write PROVE Read(trie'[k]) = latest[k]
    <3>1. /\ writes # <<>> /\ Proceed(Tail(writes), Head(writes).call)
          /\ trie' = [base EXCEPT ![Head(writes).key] = Head(writes).val]
          /\ unwritten' = unwritten \ {Head(writes).key}
      BY <2>6 DEF Write
    <3>2. \A V : Reaches(k, V) => Awaits(k, V)
      BY <2>1, <3>1, AnswersTrie
    <3>3. trie' \in [Key -> Value]
      BY <2>1, <2>3, <3>1, FirstWrite
    <3>4. Proceed(<<>>, c) /\ unwritten' \subseteq unwritten
      BY <2>5, <3>1
    <3> QED BY <2>1, <3>2, <3>3, <3>4, OverComplete
  <2>7. ASSUME WriteFails PROVE FALSE
    <3>1. calls' = [calls EXCEPT ![c] = Failed(calls[c])]
      BY <2>5, <2>7 DEF WriteFails
    <3>2. Failed(calls[c]).failed
      <4>1. PICK over : over = Done(calls[c])
        OBVIOUS
      <4>2. over \in CallType
        BY <2>1, <4>1, CallTypes
      <4> QED BY <4>1, <4>2 DEF Failed, CallType
    <3> QED BY <2>1, <2>3, <3>1, <3>2
  <2> QED BY <1>1, <2>1, <2>4, <2>6, <2>7, OnlyItself
<1>2. Strict /\ [Next]_vars => [Completes]_vars
  BY <1>1
<1>3. Spec => []Strict
  BY Order
<1>4. FlushIsComplete <=> [][Completes]_vars
  BY DEF FlushIsComplete
<1> HIDE DEF Completes
<1> QED BY <1>2, <1>3, <1>4, PTL DEF Spec

\* A cleanup is over only when it is answered, or fails.
LEMMA OnlyAnswered ==
  ASSUME IInv, [Next]_vars, NEW c \in 1 .. Len(calls), Cleaning(c), ~Cleaning(c)',
         ~calls'[c].failed
  PROVE  \E l \in lookups : Answer(l) /\ l.call = c /\ calls[c].todo \subseteq {l.key}
<1>1. /\ calls \in Seq(CallType) /\ DOMAIN calls = 1 .. Len(calls) /\ Len(calls) \in Nat
      /\ calls[c].at = "waiting" /\ calls[c].kind = "cleanup" /\ calls[c] \in CallType
      /\ ~(calls'[c].kind = "cleanup" /\ calls'[c].at = "waiting")
      /\ \A l \in lookups : l.call \in 1 .. Len(calls)
      /\ writes # <<>> => Head(writes).call \in 1 .. Len(calls) /\ calls[Head(writes).call].at = "writing"
  <2>1. writes # <<>> => Head(writes).call \in 1 .. Len(calls) /\ calls[Head(writes).call].at = "writing"
    <3>1. writes # <<>> => 1 \in 1 .. Len(writes) /\ Head(writes) = writes[1]
      BY Rest DEF IInv, Types
    <3> QED BY <3>1 DEF IInv, WritesSound
  <2> QED BY <2>1 DEF IInv, Types, Ids, Cleaning
<1>2. ASSUME NEW k \in Key, GetAccount(k) PROVE FALSE
  BY <1>1, <1>2 DEF GetAccount, Begin
<1>3. ASSUME NEW k \in Key, NEW account \in Account, PutAccount(k, account) PROVE FALSE
  BY <1>1, <1>3 DEF PutAccount
<1>4. ASSUME CleanupTouchedAccounts PROVE FALSE
  BY <1>1, <1>4 DEF CleanupTouchedAccounts, Begin
<1>5. ASSUME NEW call, Flush(call) PROVE FALSE
  <2>1. PICK x, at, k : calls' = [Append(calls, x) EXCEPT ![Len(calls) + 1].key = k,
                                                        ![Len(calls) + 1].at = at]
    BY <1>5 DEF Flush, Visit
  <2>2. PICK list : list = Append(calls, x)
    OBVIOUS
  <2>3. list[c] = calls[c] /\ c # Len(calls) + 1
    BY <1>1, <2>2
  <2>4. calls' = [list EXCEPT ![Len(calls) + 1].key = k, ![Len(calls) + 1].at = at]
    BY <2>1, <2>2
  <2>5. c \in DOMAIN list
    BY <1>1, <2>2
  <2>6. calls'[c] = list[c]
    BY ONLY <2>3, <2>4, <2>5
  <2> QED BY <1>1, <2>3, <2>6
<1>6. ASSUME NEW l \in lookups, Answer(l)
      PROVE  l.call = c /\ calls[c].todo \subseteq {l.key}
  <2> DEFINE call == calls[l.call]
             todo == call.todo \ {l.key}
             x == IF call.at = "waiting" /\ todo = {} THEN Done(call)
                  ELSE [call EXCEPT !.todo = todo]
  <2>1. calls' = [calls EXCEPT ![l.call] = x]
    BY <1>6 DEF Answer
  <2>2. call \in CallType
    BY <1>1
  <2>3. todo # {} => x.at = call.at /\ x.kind = call.kind
    BY <2>2 DEF CallType
  <2> HIDE DEF x
  <2>4. l.call = c
    BY <1>1, <2>1
  <2>5. calls'[c] = x
    BY <1>1, <2>1, <2>4
  <2>6. todo = {}
    BY <1>1, <2>3, <2>4, <2>5
  <2> QED BY <2>4, <2>6
<1>7. ASSUME NEW l \in lookups, LoadFails(l) PROVE FALSE
  <2>1. CASE l.call = c
    <3>1. calls'[c] = Failed(calls[c])
      BY <1>1, <1>7, <2>1 DEF LoadFails
    <3>2. PICK over : over = Done(calls[c])
      OBVIOUS
    <3>3. over \in CallType
      BY <1>1, <3>2, CallTypes
    <3> QED BY <3>1, <3>2, <3>3 DEF Failed, CallType
  <2>2. CASE l.call # c
    BY <1>1, <1>7, <2>2 DEF LoadFails
  <2> QED BY <2>1, <2>2
<1>8. ASSUME NEW d \in 1 .. Len(calls), EnterRoot(d) \/ RefuseRoot(d) PROVE FALSE
  BY <1>1, <1>8 DEF EnterRoot, RefuseRoot
<1>9. ASSUME NEW d \in 1 .. Len(calls), NEW queue, calls[d].at # "waiting", Proceed(queue, d)
      PROVE  FALSE
  <2>1. d # c
    BY <1>1, <1>9
  <2>2. \/ \E k : Visit(calls, queue, d, k)
        \/ \E x : calls' = [calls EXCEPT ![d] = x]
    BY <1>9 DEF Proceed
  <2>3. ASSUME NEW k, Visit(calls, queue, d, k) PROVE FALSE
    BY <1>1, <2>1, <2>3 DEF Visit
  <2>4. ASSUME NEW x, calls' = [calls EXCEPT ![d] = x] PROVE FALSE
    BY <1>1, <2>1, <2>4
  <2> QED BY <2>2, <2>3, <2>4
<1>10. ASSUME NEW d \in 1 .. Len(calls), Skip(d) PROVE FALSE
  BY <1>9, <1>10 DEF Skip
<1>11. ASSUME Write PROVE FALSE
  BY <1>1, <1>9, <1>11 DEF Write
<1>12. ASSUME WriteFails PROVE FALSE
  BY <1>1, <1>12 DEF WriteFails
<1>13. ASSUME UNCHANGED vars PROVE FALSE
  BY <1>1, <1>13 DEF vars
<1> QED BY <1>1, <1>2, <1>3, <1>4, <1>5, <1>6, <1>7, <1>8, <1>10, <1>11, <1>12, <1>13
        DEF Next, Callback, GetStateRoot, SetStateRoot

\* When a cleanup is over, the empty accounts that were touched are gone or going
\* (see NoEmptyStays; stateManager.ts cleanupTouchedAccounts).
THEOREM Cleaned == Spec => NoEmptyStays
<1> DEFINE Cleans ==
             \A c \in DOMAIN calls :
               Cleaning(c) /\ ~Cleaning(c)' /\ ~calls'[c].failed /\ ~overlapped =>
                 \A k \in calls[c].keys \ (overtaken' \cup unwritten') :
                   latest[k] = Empty => Gone(k)'
<1>1. ASSUME Strict, [Next]_vars PROVE Cleans
  <2> SUFFICES ASSUME NEW c \in DOMAIN calls, Cleaning(c), ~Cleaning(c)', ~calls'[c].failed,
                      ~overlapped, NEW k \in calls[c].keys \ (overtaken' \cup unwritten'),
                      latest[k] = Empty
               PROVE  Gone(k)'
    OBVIOUS
  <2>1. IInv /\ Orderly /\ c \in 1 .. Len(calls) /\ calls[c] \in CallType
    BY <1>1, Elements DEF IInv, Strict
  <2>2. PICK l \in lookups : Answer(l) /\ l.call = c /\ calls[c].todo \subseteq {l.key}
    BY <1>1, <2>1, OnlyAnswered
  <2>3. /\ calls[c].keys \subseteq Key /\ k \in Key /\ l.key \in Key
    <3>1. Types
      BY <2>1 DEF IInv
    <3>2. calls[c].keys \subseteq Key
      BY <2>1 DEF CallType
    <3> QED BY <3>1, <3>2, Elements
  <2>4. /\ overtaken \subseteq overtaken' /\ UNCHANGED <<trie, writes, unwritten>>
        /\ IF Empties(l) THEN Update(l.key, DeletedEntry)
           ELSE IF l.hit THEN UNCHANGED <<entries, cache>>
           ELSE Update(l.key, Entry(l.val, FALSE, FALSE))
    BY <2>2 DEF Answer
  <2>5. k \notin overtaken /\ k \notin unwritten
    BY <2>4
  <2>6. Types /\ Ids /\ Latest(k) /\ Coherent(k)
    BY <2>1, <2>3, <2>5 DEF IInv, AllLatest, Orderly
  <2>7. /\ DeletedEntry \in EntryType /\ DeletedEntry.val = Empty /\ DeletedEntry.deleted
        /\ Entry(l.val, FALSE, FALSE) \in EntryType /\ ~Entry(l.val, FALSE, FALSE).deleted
    <3>1. l.val \in Account
      BY <2>6, Elements
    <3> QED BY <3>1 DEF DeletedEntry, Entry, EntryType
  <2>8. CASE k = l.key
    <3>1. Empties(l)
      BY <2>2, <2>6, <2>8 DEF Latest, Changing, Cleaning, Empties
    <3>2. Update(k, DeletedEntry)
      BY <2>4, <2>8, <3>1
    <3>3. cache'[k] \in 1 .. Len(entries') /\ entries'[cache'[k]] = DeletedEntry
          /\ Len(entries') \in Nat
      BY <2>3, <2>6, <2>7, <3>2, Updates
    <3>4. cache'[k] # 0
      BY <3>3
    <3> QED BY <2>7, <3>3, <3>4 DEF Gone
  <2>9. CASE k # l.key
    <3>1. \/ cache[k] # 0 /\ entries[cache[k]].deleted
          \/ Reaches(k, {Absent})
      BY <2>2, <2>6, <2>1, <2>9 DEF Coherent, Cleaning
    <3>2. CASE cache[k] # 0 /\ entries[cache[k]].deleted
      <4>1. cache'[k] = cache[k] /\ entries'[cache[k]] = entries[cache[k]]
        <5> HIDE DEF Cleans
        <5>1. ASSUME NEW entry \in EntryType, entry.deleted => entry.val = Empty,
                     Update(l.key, entry)
              PROVE  cache'[k] = cache[k] /\ entries'[cache[k]] = entries[cache[k]]
          <6>1. \A n \in Key \ {l.key} :
                  /\ cache'[n] = cache[n]
                  /\ cache[n] # 0 => entries'[cache[n]] = entries[cache[n]]
            BY ONLY <2>3, <2>6, <5>1, Updates
          <6> QED BY <2>3, <2>9, <3>2, <6>1
        <5> QED BY <2>4, <2>7, <5>1
      <4> QED BY <3>2, <4>1 DEF Gone
    <3>3. CASE Reaches(k, {Absent})
      <4>1. DOMAIN writes = 1 .. Len(writes) /\ DOMAIN writes' = 1 .. Len(writes)
        BY <2>4, <2>6 DEF Types
      <4> QED BY <2>4, <2>5, <3>3, <4>1 DEF Reaches, Gone
    <3> QED BY <3>1, <3>2, <3>3
  <2> QED BY <2>8, <2>9
<1>2. Strict /\ [Next]_vars => [Cleans]_vars
  BY <1>1
<1>3. Spec => []Strict
  BY Order
<1>4. NoEmptyStays <=> [][Cleans]_vars
  BY DEF NoEmptyStays
<1> HIDE DEF Cleans
<1> QED BY <1>2, <1>3, <1>4, PTL DEF Spec
=============================================================================
