\* Two accounts share the device; one signs out, with no drain running, before
\* the other signs in.
SPECIFICATION Spec
CONSTANTS
    Features = {f1}
    OnServer = {}
    Users = {u1, u2}
    NoOne = NoOne
    Pages = {p1}
    Worker = worker
    Drains = {p1, worker}
    EditOps = {"insert", "update", "delete"}
    MaxEdits = 2
    SlowReplays = FALSE
    Handover = "quiet"
INVARIANTS
    NothingMisfiled
CHECK_DEADLOCK FALSE
