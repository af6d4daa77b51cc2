SPECIFICATION Spec
CONSTANTS
  c1 = c1
  c2 = c2
  b1 = b1
  b2 = b2
  Calls = {c1}
  Peers = {b1, b2}
  Target <- TargetOne
  MaxResponses = 1
  ToolThreads = FALSE
  NoResponse = NoResponse
INVARIANTS
  FirstAnswerRouted
CHECK_DEADLOCK FALSE
