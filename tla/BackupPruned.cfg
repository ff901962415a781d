\* An admin deletes the newest archive while a pruning has listed the others.
SPECIFICATION Spec
CONSTANTS
    Replicas = {a, b}
    NoOne = NoOne
    Manual = {a}
    MaxFaults = 0
    MaxRuns = 3
    Earlier = 2
    Retention = 1
    AdminRuns = {1, 2, 3}
    ArchivesDeleted = TRUE
PROPERTY PruningLeavesOne
CHECK_DEADLOCK FALSE
