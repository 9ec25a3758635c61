CONSTANTS
    None = None
    Processes = {p1, p2}
    Ids = {i1, i2, i3}
    Retention = 1
    MaxRecords = 2
    MaxTime = 2
SPECIFICATION Spec
SYMMETRY Symmetry
INVARIANTS LedgerSound OneClaim ReadOfOneInstant
PROPERTIES EvictsOldest
