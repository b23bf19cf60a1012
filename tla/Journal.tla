------------------------------ MODULE Journal ------------------------------
(***************************************************************************)
(* What executing a message promises: messages nest, and the innermost     *)
(* open one either succeeds, and what it did belongs to the message that   *)
(* sent it, or fails, and leaves nothing behind: no account, log or        *)
(* selfdestruct differs from when it was opened.  Evm.tla is shown to      *)
(* implement this module.                                                  *)
(***************************************************************************)
EXTENDS Naturals, Sequences

VARIABLES
  world,      \* the accounts
  logs,       \* the logs emitted by the open messages and what they called
  destructed, \* the contracts selfdestructed by them
  entries,    \* for each open message, what the three were when it opened
  outcome,    \* how the last message to end, or to be refused, ended
  doomed      \* the contracts the last outermost message leaves to delete

vars == <<world, logs, destructed, entries, outcome, doomed>>
-----------------------------------------------------------------------------
Entry == [world |-> world, logs |-> logs, destructed |-> destructed]
Opened == entries[Len(entries)]
Pop(s) == SubSeq(s, 1, Len(s) - 1)

Init ==
  /\ logs = <<>>
  /\ destructed = {}
  /\ entries = <<>>
  /\ outcome = "none"
  /\ doomed = {}

\* A message opens; moving its value is part of it.
Open ==
  /\ entries' = Append(entries, Entry)
  /\ UNCHANGED <<logs, destructed, outcome, doomed>>

\* The innermost message acts: accounts change freely, logs and selfdestructs
\* are only added to, and what the outer messages would go back to is safe.
Act ==
  /\ entries # <<>>
  /\ Len(logs) <= Len(logs') /\ SubSeq(logs', 1, Len(logs)) = logs
  /\ destructed \subseteq destructed'
  /\ UNCHANGED <<entries, outcome, doomed>>

\* A message that is refused has not happened.
Refuse ==
  /\ entries # <<>>
  /\ outcome' = "failed"
  /\ UNCHANGED <<world, logs, destructed, entries, doomed>>

\* Success may still store the code of the one contract the message created.
Succeed ==
  /\ Len(entries) > 1
  /\ \E a \in DOMAIN world : world' = [world EXCEPT ![a] = world'[a]]
  /\ entries' = Pop(entries)
  /\ outcome' = "ok"
  /\ UNCHANGED <<logs, destructed, doomed>>

Fail ==
  /\ Len(entries) > 1
  /\ world' = Opened.world
  /\ logs' = Opened.logs
  /\ destructed' = Opened.destructed
  /\ entries' = Pop(entries)
  /\ outcome' = "failed"
  /\ UNCHANGED doomed

\* The outermost message hands its selfdestructs to the caller, if it succeeds.
Finish ==
  /\ Len(entries) = 1
  /\ \/ /\ outcome' = "ok"
        /\ doomed' = destructed
        /\ UNCHANGED world
     \/ /\ outcome' = "failed"
        /\ doomed' = {}
        /\ world' = Opened.world
  /\ logs' = <<>>
  /\ destructed' = {}
  /\ entries' = <<>>

Next == Open \/ Act \/ Refuse \/ Succeed \/ Fail \/ Finish

Spec == Init /\ [][Next]_vars
=============================================================================
