\* One analysis, one import, two portal-workers and a python worker; one dies.
SPECIFICATION AnalysisFairSpec
CONSTANTS
    MaxJobs = 1
    Workers = {w1, w2}
    Batches = 2
    MaxCrashes = 1
    SlowImports = TRUE
    Analyses = {a1}
    Kinds = {"vector", "raster"}
    Runners = {r1}
    Bridges = {b1, b2}
INVARIANTS
    AnalysisTypeOK
    CountsAreHonest
    DoneHasRows
    ImportedOnce
    CancelWins
PROPERTIES
    LandsWholeOrNot
    SuccessStands
    KeepsLifecycle
    AnalysisSettles
CHECK_DEADLOCK FALSE
