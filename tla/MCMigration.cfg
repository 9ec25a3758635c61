\* Transitions of two files as file transactions, with edits, failing writes and kills.
SPECIFICATION MFairSpec
CONSTANTS
  config = config
  ledger = ledger
  evidence = evidence
  Paths = {config, ledger}
  Evidence = {evidence}
  Contents = {"old", "new", "newer", "edit"}
  Absent = "absent"
  Nested = {config}
  Rank <- MCRank
  Targets <- MCTargets
  Editable <- MCEditable
  MaxEdits = 1
  MaxFaults = 2
  MaxTransitions = 2
  MaxCrashes = 1
INVARIANTS JournalTellsTruth ReportsTellTruth
PROPERTIES EditsKept TransitionSettles
