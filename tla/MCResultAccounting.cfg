SPECIFICATION AccountsSpec
CONSTANTS
  root = root
  owner = owner
  staged = staged
  result = result
  Root = root
  Dirs = {root, owner, staged, result}
  Above <- MCAbove
  Limit <- MCLimit
  NoCounter = NoCounter
  MaxBytes = 2
  MaxMishaps = 1
  MaxDeaths = 1
INVARIANTS AccountsExact
PROPERTIES LimitsHold
