SPECIFICATION Spec
CONSTANTS
  Names = {n1}
  Rows = {r1, r2}
  Sessions = {s1, s2}
  Procs = {p1, p2}
  Users = {u1, u2}
  Host = Host
  NoName = NoName
  NoRow = NoRow
  NoSession = NoSession
  NoProc = NoProc
  NoOne = NoOne
  MaxCrashes = 1
  MaxSwitches = 1
  Env <- EnvRough
SYMMETRY Symmetry
CHECK_DEADLOCK FALSE
INVARIANTS ThreadsKept NoOrphan ReadyManaged
PROPERTIES SessionKept
