\* A removed row is put back by the drain that held it.
SPECIFICATION Spec
CONSTANTS
    Features = {f1}
    OnServer = {}
    Users = {u1}
    NoOne = NoOne
    Pages = {p1}
    Worker = worker
    Drains = {p1, worker}
    EditOps = {"insert", "update"}
    MaxEdits = 1
    SlowReplays = FALSE
    Handover = "never"
INVARIANTS
    RemovedStaysGone
CHECK_DEADLOCK FALSE
