SPECIFICATION FairSpec
CONSTANTS
  Turns = {t1}
  Approvals = {a1, a2}
  Clients = {c1, c2}
  Decisions = {approve, deny}
  NoTurn = NoTurn
  NoApproval = NoApproval
  NoDecision = NoDecision
  Envs <- EnvsSettle

CHECK_DEADLOCK FALSE
PROPERTIES ApprovalSettles InterruptReleased
