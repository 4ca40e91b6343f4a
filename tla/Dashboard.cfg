SPECIFICATION FairSpec
CONSTANTS
  r1 = r1
  r2 = r2
  clean = clean
  Reviews = {r1, r2, clean}
  Findings <- SomeFindings
  MaxRefreshes = 2
  MaxClicks = 3
INVARIANT PanelOfSelected
PROPERTY LoadingEnds
CHECK_DEADLOCK FALSE
