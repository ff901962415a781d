\* Two unguarded updates land in the other order than their versions.
SPECIFICATION DeltaSpec
CONSTANTS
    MaxEntity = 1
    Existing = {1}
    Writers = {w1, w2}
    Ops = {"update"}
    Batch = 1
    Guarding = {FALSE}
    SchemaEdits = FALSE
    MaxWrites = 2
    MaxVersion = 2
    Limit = 2
    MaxLimit = 3
    Overlap = FALSE
    Ghosts = FALSE
INVARIANTS
    Refreshed
CHECK_DEADLOCK FALSE
