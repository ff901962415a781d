\* A write is in flight while a refresh runs.
SPECIFICATION DeltaSpec
CONSTANTS
    MaxEntity = 1
    Existing = {1}
    Writers = {w1}
    Ops = {"update"}
    Batch = 1
    Guarding = {TRUE}
    SchemaEdits = FALSE
    MaxWrites = 2
    MaxVersion = 2
    Limit = 3
    MaxLimit = 4
    Overlap = TRUE
    Ghosts = FALSE
INVARIANTS
    Refreshed
CHECK_DEADLOCK FALSE
