SPECIFICATION Spec
CONSTANTS
  Turns = {t1, t2}
  Clients = {c1}
  Lane = Lane
  NoTurn = NoTurn
  Keep = Keep
  Env <- EnvRough
SYMMETRY Symmetry
CHECK_DEADLOCK FALSE
INVARIANTS InterruptArmed ReferencesRecorded CreateOnce
