\* Writes and refreshes take turns; refreshes fail at any point; pages of two.
SPECIFICATION DeltaSpec
CONSTANTS
    MaxEntity = 2
    Existing = {1}
    Writers = {w1}
    Ops = {"create", "update", "delete"}
    Batch = 1
    Guarding = {TRUE}
    SchemaEdits = FALSE
    MaxWrites = 4
    MaxVersion = 4
    Limit = 2
    MaxLimit = 3
    Overlap = FALSE
    Ghosts = FALSE
INVARIANTS
    DeltaTypeOK
    Refreshed
CHECK_DEADLOCK FALSE
