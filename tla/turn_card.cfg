SPECIFICATION FairSpec
CONSTANTS
  Users = {u1}
  MaxDeltas = 2
  MaxQueue = 1
  MaxNet = 2
  Envs <- EnvsCard
INVARIANTS
  CardTrue
  Settled
PROPERTIES
  StaysEnded
  EndShown
CHECK_DEADLOCK FALSE
