--------------------------- MODULE MCProcessManager ---------------------------
(* Small instances of ProcessManager for TLC. *)
EXTENDS ProcessManager, TLC

CONSTANTS a1, a2

Unpinned == [a \in Apps |-> None]
Symmetry == Permutations(Procs)
OtherPinned == [a \in Apps |-> IF a = a1 THEN None ELSE 2]
OnePinned == [a \in Apps |-> IF a = a1 THEN 1 ELSE None]
=============================================================================
