---------------------------- MODULE MCAdminState ----------------------------
(* Instances of AdminState for TLC.                                        *)
EXTENDS AdminState, TLC

CONSTANTS p1, p2, c1, c2
Symmetric == Permutations({p1, p2}) \cup Permutations({c1, c2})

ProjectOperations == {"setup", "bind", "unlink", "delete", "expel", "ensure", "role"}

\* Overlapping calls on projects and members; every operation, one at a time;
\* skills installed twice, or enabled by an installation that cannot link them; and
\* overlapping calls on skills.
EnvsAdmin == {[hardships |-> {"overlap"}, operations |-> ProjectOperations],
              [hardships |-> {}, operations |-> Operations],
              [hardships |-> {"reinstall", "sync"}, operations |-> {"setup", "enable", "remove", "install"}],
              [hardships |-> {"overlap"}, operations |-> {"setup", "delete", "enable", "remove", "install"}]}
=============================================================================
