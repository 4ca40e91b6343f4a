SPECIFICATION Spec
CONSTANTS
  Keys = {line1, line2}
  Categories = {security, style}
  MaxFindings = 4
  Inputs <- AllLists
INVARIANTS
  CriticalKept
  VerdictUnchanged
