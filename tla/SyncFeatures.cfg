\* A new feature and one the server holds; inserts, updates and deletes.
SPECIFICATION Spec
CONSTANTS
    Features = {f1, f2}
    OnServer = {f2}
    Users = {u1}
    NoOne = NoOne
    Pages = {p1}
    Worker = worker
    Drains = {p1}
    EditOps = {"insert", "update", "delete"}
    MaxEdits = 3
    SlowReplays = FALSE
    Handover = "never"
INVARIANTS
    Accounted
    ReplayInOrder
PROPERTIES
    RejectedStaysParked
CHECK_DEADLOCK FALSE
