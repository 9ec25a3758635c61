\* Commands, a replayed request and a refresh over three children, two versions and the
\* death of the recovery thread: any two of the three requests are asked.
SPECIFICATION FairSpec
CONSTANTS
  None = None
  c = c
  p = p
  f = f
  Calls = {c}
  Protocol = {p}
  Controls = {f}
  MaxChildren = 3
  MaxVersion = 2
  Slots = 1
  MaxAsked = 2
  MaxReplay = 1
  MayCrash = TRUE
CHECK_DEADLOCK FALSE
INVARIANTS OwedIsHeld SentOnce
PROPERTIES RefreshLosesNothing RelayServes
