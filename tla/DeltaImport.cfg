\* An import after the first download.
SPECIFICATION DeltaSpec
CONSTANTS
    MaxEntity = 1
    Existing = {}
    Writers = {w1}
    Ops = {"import"}
    Batch = 1
    Guarding = {TRUE}
    SchemaEdits = FALSE
    MaxWrites = 1
    MaxVersion = 1
    Limit = 2
    MaxLimit = 3
    Overlap = FALSE
    Ghosts = FALSE
INVARIANTS
    Refreshed
CHECK_DEADLOCK FALSE
