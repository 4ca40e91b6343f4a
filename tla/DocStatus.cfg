SPECIFICATION Spec
CONSTANTS
  security = security
  style = style
  Agents = {security, style}
  AgentReceives = 1
  SummaryReceives = 1
  MaxItems = 1
  ReadLag = FALSE
  WriteFaults = FALSE
  Results <- SecretInDiff
  ExpectedAgents = 2
  PollTimeout = 2
  PollInterval = 2
  PostCopies = 1
  QueueUrlSet = TRUE
INVARIANT SuccessMeansNoCritical
