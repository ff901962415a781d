\* Two faults: a process and an answer, a leader and the reclaimer that follows it, and so on.
SPECIFICATION Spec
CONSTANTS
    Replicas = {a, b}
    NoOne = NoOne
    Manual = {a}
    MaxFaults = 2
    MaxRuns = 2
    Earlier = 0
    Retention = 1
    AdminRuns = {1}
    ArchivesDeleted = FALSE
INVARIANTS
    BackupTypeOK
    OneStager
    NewestKept
PROPERTIES
    SuccessIsKept
CHECK_DEADLOCK FALSE
