\* A capture whose insert landed is annihilated on the device.
SPECIFICATION Spec
CONSTANTS
    Features = {f1}
    OnServer = {}
    Users = {u1}
    NoOne = NoOne
    Pages = {p1}
    Worker = worker
    Drains = {p1, worker}
    EditOps = {"insert", "delete"}
    MaxEdits = 2
    SlowReplays = FALSE
    Handover = "never"
PROPERTIES
    AnnihilatedUnsent
CHECK_DEADLOCK FALSE
