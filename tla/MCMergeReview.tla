--------------------------- MODULE MCMergeReview ---------------------------
(* Model values and environments of the runs of MergeReview.               *)
EXTENDS MergeReview

\* Landing branches, failing recoveries, restarts; a review that cannot be
\* entered, a restart before the row of a decision is written and a resolver
\* that edits any file; stopped turns, failing commands and restarts at any moment.
EnvsReview == {{"main", "agent", "crash", "recovery"}, {"crash", "torn", "stray", "unbound"},
               {"crash", "cut", "stop", "git"}}
TwoBranches == 1 .. 2
=============================================================================
