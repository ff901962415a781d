\* One capture edited twice more while the page and the worker drain.
SPECIFICATION Spec
CONSTANTS
    Features = {f1}
    OnServer = {}
    Users = {u1}
    NoOne = NoOne
    Pages = {p1}
    Worker = worker
    Drains = {p1, worker}
    EditOps = {"insert", "update"}
    MaxEdits = 3
    SlowReplays = FALSE
    Handover = "never"
INVARIANTS
    TypeOK
    ClaimExclusive
    Accounted
    ReplayInOrder
PROPERTIES
    RejectedStaysParked
CHECK_DEADLOCK FALSE
