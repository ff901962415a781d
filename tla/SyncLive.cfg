\* Every edit gets through or is parked, whatever the worker does.
SPECIFICATION FairSpec
CONSTANTS
    Features = {f1}
    OnServer = {}
    Users = {u1}
    NoOne = NoOne
    Pages = {p1}
    Worker = worker
    Drains = {p1, worker}
    EditOps = {"insert", "update", "delete"}
    MaxEdits = 2
    SlowReplays = FALSE
    Handover = "never"
PROPERTIES
    EventuallyDrained
CHECK_DEADLOCK FALSE
