SPECIFICATION Spec
CONSTANTS
  Turns = {t1, t2}
  Approvals = {a1, a2}
  Clients = {c1, c2}
  Decisions = {approve, deny}
  NoTurn = NoTurn
  NoApproval = NoApproval
  NoDecision = NoDecision
  Envs <- EnvsRough
SYMMETRY Symmetry
CHECK_DEADLOCK FALSE
INVARIANTS AuditTrue AwaitingBacked
PROPERTIES AnsweredOnce DecisionStays
