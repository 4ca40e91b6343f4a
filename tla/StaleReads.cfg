SPECIFICATION Spec
CONSTANTS
  security = security
  style = style
  Agents = {security, style}
  AgentReceives = 1
  SummaryReceives = 2
  MaxItems = 1
  ReadLag = TRUE
  WriteFaults = TRUE
  Results <- CriticalOrNothing
  ExpectedAgents = 2
  PollTimeout = 2
  PollInterval = 2
  PostCopies = 1
  QueueUrlSet = TRUE
SYMMETRY AgentSymmetry
PROPERTY RefinesReviewBoard
INVARIANT
  AnsweredUnlessDead
