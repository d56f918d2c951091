------------------------------ MODULE MCChildMcp ------------------------------
(* Small instances of ChildMcp for TLC. *)
EXTENDS ChildMcp, TLC

Symmetry == Permutations(Conns) \cup Permutations(Calls)
=============================================================================
