\* A drain outlives the session of the account it runs as.
SPECIFICATION Spec
CONSTANTS
    Features = {f1}
    OnServer = {}
    Users = {u1, u2}
    NoOne = NoOne
    Pages = {p1}
    Worker = worker
    Drains = {p1, worker}
    EditOps = {"insert", "update"}
    MaxEdits = 1
    SlowReplays = FALSE
    Handover = "anytime"
INVARIANTS
    NothingMisfiled
CHECK_DEADLOCK FALSE
