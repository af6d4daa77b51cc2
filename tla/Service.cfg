SPECIFICATION FairSpec
CONSTANTS
  c1 = c1
  c2 = c2
  b1 = b1
  b2 = b2
  Calls = {c1, c2}
  Peers = {b1, b2}
  Target <- TargetTwo
  MaxResponses = 2
  ToolThreads = FALSE
  NoResponse = NoResponse
INVARIANTS
  OneTurnPerRequest
  OnlyTargetOpensTurn
PROPERTIES
  OriginKept
  AnswerOpensTurn
CHECK_DEADLOCK FALSE
