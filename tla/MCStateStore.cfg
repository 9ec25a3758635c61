\* Safety, refinement and liveness of the compare-exchange store.
SPECIFICATION FairSpec
CONSTANTS
    c1 = c1
    c2 = c2
    small = small
    large = large
    None = None
    Nothing = Nothing
    Clients <- MCClients
    Keys = {1, 2}
    Values <- MCValues
    Weight <- MCWeight
    MaxBytes = 4
    MaxAttempts = 2
    PageLimit = 1
    MaxRevision = 3
CHECK_DEADLOCK FALSE
INVARIANTS StoreSound SnapshotCurrent
PROPERTIES ImplementsAtomicStore Finishes
