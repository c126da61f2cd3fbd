SPECIFICATION FairSpec
CONSTANTS
  Branches <- TwoBranches
  Files = {f1, f2}
  Conflicting = {f1}
  Users = {u1}
  Choices = {"accept", "keep_main"}
  Batches = {{f1, f2}}
  Hook = hook
  Timer = timer
  MaxSessions = 2
  MaxTurns = 1
  MaxCrashes = 1
  Envs <- EnvsReview
INVARIANTS MergeOwned ReviewsKept
PROPERTIES ReviewedLands HandedBack
CHECK_DEADLOCK FALSE
