SPECIFICATION FairSpec
CONSTANTS
  MaxTurns = 2
  Kinds = {"codex", "acp", "opencode"}
  Envs <- EnvsAgent
INVARIANTS TurnsTrue
PROPERTIES CallsReturn ThreadFreed
CHECK_DEADLOCK FALSE
