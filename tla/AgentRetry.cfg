SPECIFICATION Spec
CONSTANTS
  security = security
  style = style
  Agents = {security}
  AgentReceives = 2
  SummaryReceives = 2
  MaxItems = 2
  ReadLag = FALSE
  WriteFaults = FALSE
  Results <- RemarkOrNot
  ExpectedAgents = 2
  PollTimeout = 3
  PollInterval = 2
  PostCopies = 3
  QueueUrlSet = TRUE
INVARIANTS
  IInv
  CriticalReported
  CopiesPerReceive
PROPERTY NoEventRunsForever
