---------------------------- MODULE MCTurnCard ----------------------------
(* Instances of TurnCard for TLC.                                          *)
EXTENDS TurnCard

\* Restarts, an interrupt that misses the turn, the failures of the platform and
\* of the buttons, and an environment in which a turn must reach its end.
EnvsCard == {{"late", "lost", "restart"},
             {"lost", "other"},
             {"fail", "reorder", "refused", "beaten", "other"},
             {"late", "lost"}}
=============================================================================
