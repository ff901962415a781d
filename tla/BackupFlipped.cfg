\* One fault: an answer is lost, or the beats of a live run fail and come back.
SPECIFICATION Spec
CONSTANTS
    Replicas = {a, b}
    NoOne = NoOne
    Manual = {a}
    MaxFaults = 1
    MaxRuns = 1
    Earlier = 0
    Retention = 1
    AdminRuns = {1}
    ArchivesDeleted = FALSE
PROPERTY SuccessIsFinal
CHECK_DEADLOCK FALSE
