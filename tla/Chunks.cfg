SPECIFICATION Spec
CONSTANTS
  MaxLines = 3
  MaxFiles = 5
  Inputs <- AllLists
INVARIANTS
  Partition
  Bounded
  Greedy
  TotalsRight
