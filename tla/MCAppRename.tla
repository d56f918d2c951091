------------------------------ MODULE MCAppRename ------------------------------
(* Small instances of AppRename for TLC. *)
EXTENDS AppRename, TLC

Symmetry == Permutations(Apps) \cup Permutations(Names) \cup Permutations(Paths)
              \cup Permutations(Clients)

\* What follows an overlap of registry writers, or a registration whose save failed, is
\* not explored: RenameIsAtomic, RecoverySucceeds and NamesAgree say nothing of it, and
\* MemoryIsDurable of no failed write other than those of renames.
NoRace == ~raced /\ "register" \notin failed
=============================================================================
