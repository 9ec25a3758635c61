\* Publication, repair, abandonment and cleanup with failing writes, deaths and an edit.
SPECIFICATION FairSpec
CONSTANTS
  a = a
  b = b
  n = n
  r1 = r1
  r2 = r2
  Old = Old
  Edited = Edited
  Ops = {a, b, n}
  Records = {r1, r2}
  Native = {n}
  Writes <- MCWrites
  Mentions <- MCMentions
  MaxFaults = 1
  MaxCrashes = 1
  MaxEdits = 1
CHECK_DEADLOCK FALSE
INVARIANTS EventsSound IndexServes
PROPERTIES NothingRevived CommittedIsTold
