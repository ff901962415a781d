\* The page the device asks for is the most a query returns.
SPECIFICATION DeltaSpec
CONSTANTS
    MaxEntity = 3
    Existing = {1, 2, 3}
    Writers = {w1}
    Ops = {"update"}
    Batch = 1
    Guarding = {TRUE}
    SchemaEdits = FALSE
    MaxWrites = 3
    MaxVersion = 3
    Limit = 2
    MaxLimit = 2
    Overlap = FALSE
    Ghosts = FALSE
INVARIANTS
    Refreshed
CHECK_DEADLOCK FALSE
