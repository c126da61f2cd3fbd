-------------------------- MODULE MCTurnLifecycle --------------------------
(* Environments for the runs of TurnLifecycle. *)
EXTENDS TurnLifecycle, TLC

Symmetry == Permutations(Turns) \cup Permutations(Clients)

\* In place of the symmetry, which liveness rules out: one of the turns starts first.
First      == CHOOSE t \in Turns : TRUE
FirstFirst == agent[First] = "unused" => \A t \in Turns : agent[t] = "unused"

EnvCalm    == {}
EnvRough   == Hardships \ {"echo"}
EnvEcho    == {"overlap", "echo"}
EnvAbort   == {"abort"}
============================================================================
