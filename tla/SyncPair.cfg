\* Two claimable rows of one feature.
SPECIFICATION Spec
CONSTANTS
    Features = {f1}
    OnServer = {}
    Users = {u1}
    NoOne = NoOne
    Pages = {p1}
    Worker = worker
    Drains = {p1, worker}
    EditOps = {"insert", "update"}
    MaxEdits = 2
    SlowReplays = FALSE
    Handover = "never"
INVARIANTS
    OneClaimableRow
CHECK_DEADLOCK FALSE
