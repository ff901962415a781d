\* A replay outlives the two minutes its claim is good for.
SPECIFICATION Spec
CONSTANTS
    Features = {f1}
    OnServer = {}
    Users = {u1}
    NoOne = NoOne
    Pages = {p1}
    Worker = worker
    Drains = {p1, worker}
    EditOps = {"insert", "update"}
    MaxEdits = 1
    SlowReplays = TRUE
    Handover = "never"
INVARIANTS
    ClaimExclusive
CHECK_DEADLOCK FALSE
