SPECIFICATION Spec
CONSTANTS
  Retries = 2
  RequestTime = 1
  RateWait = 2
  i1 = i1
  i2 = i2
  Installations = {i1, i2}
  SummaryInstallation = i1
  Life = 8
  Keep = 5
  ParserTimeout = 4
  SummaryTimeout = 2
  MaxTime = 7
  Verdicts = {"approve", "request_changes"}
INVARIANTS
  IInv
  TokenAlive
  TokenOfInstallation
  CopiesBounded
PROPERTY RequestsRefineBoard
