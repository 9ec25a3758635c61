\* All or nothing, whatever is killed, fails or is edited; and a repeated upgrade gets there.
SPECIFICATION UpgradeFairSpec
CONSTANTS
  patch = patch
  rework = rework
  page = page
  note = note
  f1 = f1
  Versions = {1, 2}
  Migrations = {patch, rework}
  Ver <- MCVer
  Stage <- MCStage
  Effects <- MCEffects
  Paths = {page, note}
  Declared = {patch}
  CoreFiles = {f1}
  MaxKills = 2
  MaxFaults = 1
  MaxEdits = 1
  MaxMishaps = 3
INVARIANTS JournalSound NoEditLost
PROPERTIES ImplementsAllOrNothing Completes
