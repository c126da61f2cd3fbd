SPECIFICATION FairSpec
CONSTANTS
  Turns = {t1, t2}
  Clients = {c1}
  Lane = Lane
  NoTurn = NoTurn
  Keep = Keep
  Env <- EnvEcho
CHECK_DEADLOCK FALSE
CONSTRAINT FirstFirst
INVARIANTS ParkedKept
PROPERTIES EndHandled StartReturns SummaryOnce
