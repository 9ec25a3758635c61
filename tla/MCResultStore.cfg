SPECIFICATION Spec
CONSTANTS
  i1 = i1
  i2 = i2
  c1 = c1
  c2 = c2
  Nobody = Nobody
  Instances = {i1, i2}
  Commands = {c1, c2}
  MaxSeq = 2
  MaxGenerations = 2
  MaxFaults = 2
  MaxCrashes = 1
SYMMETRY MCSymmetry
CHECK_DEADLOCK FALSE
INVARIANTS ResultsWhole EndedStaysEnded
