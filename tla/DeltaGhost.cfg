\* A first download runs again after the feature was deleted.
SPECIFICATION DeltaSpec
CONSTANTS
    MaxEntity = 1
    Existing = {1}
    Writers = {w1}
    Ops = {"delete"}
    Batch = 1
    Guarding = {TRUE}
    SchemaEdits = FALSE
    MaxWrites = 1
    MaxVersion = 1
    Limit = 2
    MaxLimit = 3
    Overlap = FALSE
    Ghosts = TRUE
INVARIANTS
    Refreshed
CHECK_DEADLOCK FALSE
