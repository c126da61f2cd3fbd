--------------------------- MODULE MCApprovalFlow ---------------------------
(* Environments for the runs of ApprovalFlow. *)
EXTENDS ApprovalFlow, TLC

Symmetry == Permutations(Turns) \cup Permutations(Approvals) \cup Permutations(Clients)
                \cup Permutations(Decisions)

EnvsRough  == {{"overlap", "interrupt", "abandon", "failure", "crash"}, {"overlap", "failure"}}
EnvsSettle == {{"interrupt", "abandon", "crash"}}
=============================================================================
