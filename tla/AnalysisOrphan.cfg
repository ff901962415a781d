\* Ends in a violation of FailedHasNoRows.
SPECIFICATION AnalysisSpec
CONSTANTS
    MaxJobs = 1
    Workers = {w1, w2}
    Batches = 2
    MaxCrashes = 1
    SlowImports = TRUE
    Analyses = {a1}
    Kinds = {"vector", "raster"}
    Runners = {r1}
    Bridges = {b1, b2}
INVARIANTS
    FailedHasNoRows
CHECK_DEADLOCK FALSE
