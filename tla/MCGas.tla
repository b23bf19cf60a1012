------------------------------- MODULE MCGas -------------------------------
(* Gas with the parts of a small memory.                                   *)
EXTENDS Gas

\* Nothing, nothing at an offset that is not exact, the first word, the second.
MCRegion == {NoRegion, [offset |-> SafeOffset, length |-> 0],
             [offset |-> 0, length |-> 1], [offset |-> 1, length |-> 1]}
=============================================================================
