\* The replica that booted as leader is restarted.
SPECIFICATION FairSpec
CONSTANTS
    Replicas = {a, b}
    NoOne = NoOne
    Manual = {}
    MaxFaults = 1
    MaxRuns = 0
    Earlier = 0
    Retention = 1
    AdminRuns = {}
    ArchivesDeleted = FALSE
PROPERTY ScheduleKept
CHECK_DEADLOCK FALSE
