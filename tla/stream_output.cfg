SPECIFICATION FairSpec
CONSTANTS
  content = content
  toolOutput = toolOutput
  Kinds <- TwoKinds
  ToolKinds <- ToolOnly
  MaxEvents = 4
  Echo = TRUE
CHECK_DEADLOCK FALSE
INVARIANTS TextConserved SummaryLast
PROPERTIES EndStored TextShown
