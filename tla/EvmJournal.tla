----------------------------- MODULE EvmJournal -----------------------------
(***************************************************************************)
(* What the frames of Evm.tla amount to: the journal of nested messages of *)
(* Journal.tla, and the ether the accounts hold together.                  *)
(***************************************************************************)
EXTENDS Evm, FiniteSetsExt

LogsBelow(n) ==
  LET below[i \in 0..n] == IF i = 0 THEN <<>> ELSE below[i - 1] \o frames[i].logs
  IN  below[n]
DestructedBelow(n) == IF n = 0 THEN {} ELSE frames[n].selfdestruct

EvmEntries ==
  [i \in 1..Len(frames) |-> [world |-> frames[i].start, logs |-> LogsBelow(i - 1),
                             destructed |-> DestructedBelow(i - 1)]]

Messages == INSTANCE Journal WITH
  logs <- LogsBelow(Len(frames)),
  destructed <- DestructedBelow(Len(frames)),
  entries <- EvmEntries,
  outcome <- answer,
  doomed <- report.selfdestruct

\* Calls and creations, refused, nested, reentrant or failed, leave accounts,
\* logs and the list of selfdestructs as a journal of nested messages would
\* (evm.ts executeMessage, runInterpreter; eei.ts _baseCall, create).
ImplementsJournal == Messages!Spec

Ether(w) == MapThenSumSet(LAMBDA a : w[a].balance, Address)

\* Messages transfer ether and selfdestructs may burn it; none makes it, in
\* the current world or in one a revert brings back.  runTx, as VM.runTx is
\* documented: "Transfers eth. Checks balances." (index.ts).
NoEtherCreated ==
  /\ Ether(world) <= Ether(FirstWorld)
  /\ \A i \in 1..Len(saved) : Ether(saved[i]) <= Ether(FirstWorld)
=============================================================================
