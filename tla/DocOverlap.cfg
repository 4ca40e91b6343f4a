SPECIFICATION Spec
CONSTANTS
  Keys = {line1, line2}
  Categories = {security, style}
  MaxFindings = 3
  Inputs <- AllLists
INVARIANT OverlapAsCommented
