SPECIFICATION Spec
CONSTANTS
  Turns = {t1, t2, t3}
  Clients = {c1, c2}
  Lane = Lane
  NoTurn = NoTurn
  Keep = Keep
  Env <- EnvCalm
SYMMETRY Symmetry
CHECK_DEADLOCK FALSE
INVARIANTS SettledClosed NoRunWhileAwaiting AwaitingBlocks
PROPERTIES LedgerKept
