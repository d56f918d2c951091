------------------------------ MODULE MCAgentRuns ------------------------------
(* Small instances of AgentRuns for TLC. *)
EXTENDS AgentRuns, TLC

Symmetry == Permutations(Clients) \cup Permutations(ApprovalIds) \cup Permutations(RunIds)
=============================================================================
