\* Ends in a violation of NoPhantomCount.
SPECIFICATION Spec
CONSTANTS
    MaxJobs = 1
    Workers = {w1, w2}
    Batches = 2
    MaxCrashes = 1
    SlowImports = TRUE
INVARIANTS
    NoPhantomCount
CHECK_DEADLOCK FALSE
