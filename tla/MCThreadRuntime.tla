-------------------------- MODULE MCThreadRuntime --------------------------
(* Environments for the runs of ThreadRuntime. *)
EXTENDS ThreadRuntime, TLC

Symmetry == Permutations(Rows) \cup Permutations(Sessions) \cup Permutations(Procs)
                \cup Permutations(Users) \cup Permutations(Names)

EnvRough == Hardships \ {"overlap"}
=============================================================================
