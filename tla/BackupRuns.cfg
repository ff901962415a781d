\* Two backups on two replicas, one of which may die or lose the lead.
SPECIFICATION FairSpec
CONSTANTS
    Replicas = {a, b}
    NoOne = NoOne
    Manual = {a}
    MaxFaults = 1
    MaxRuns = 2
    Earlier = 0
    Retention = 1
    AdminRuns = {1}
    ArchivesDeleted = FALSE
INVARIANTS
    OneStager
    NewestKept
PROPERTIES
    SuccessIsKept
    KeepsLifecycle
    RunsSettle
CHECK_DEADLOCK FALSE
