\* Ends in a violation of CancelledLandsNothing.
SPECIFICATION Spec
CONSTANTS
    MaxJobs = 1
    Workers = {w1, w2}
    Batches = 2
    MaxCrashes = 1
    SlowImports = TRUE
INVARIANTS
    CancelledLandsNothing
CHECK_DEADLOCK FALSE
