SPECIFICATION FairSpec
CONSTANTS
  security = security
  style = style
  Agents = {security, style}
  AgentReceives = 1
  SummaryReceives = 2
  MaxItems = 1
  ReadLag = FALSE
  WriteFaults = FALSE
  Results <- FlakyStyle
  ExpectedAgents = 2
  PollTimeout = 2
  PollInterval = 2
  PostCopies = 1
  QueueUrlSet = TRUE
INVARIANT
  CompleteAtQuiescence
PROPERTIES
  EveryEventSettles
  ReviewAnswered
