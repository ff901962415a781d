\* Two imports into one layer, two workers; either dies or is slow.
SPECIFICATION Spec
CONSTANTS
    MaxJobs = 2
    Workers = {w1, w2}
    Batches = 2
    MaxCrashes = 1
    SlowImports = TRUE
INVARIANTS
    TypeOK
    Hands
    Rows
    CountsAreHonest
PROPERTIES
    LandsWholeOrNot
    SuccessStands
    KeepsLifecycle
CHECK_DEADLOCK FALSE
