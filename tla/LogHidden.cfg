\* A create stamped before the delete it waits for.
SPECIFICATION Spec
CONSTANTS
    MaxEntity = 1
    Existing = {1}
    Writers = {w1, w2}
    Ops = {"create", "delete"}
    Batch = 1
    Guarding = {TRUE}
    SchemaEdits = FALSE
    MaxWrites = 2
    MaxVersion = 2
PROPERTIES
    WrittenIsRead
CHECK_DEADLOCK FALSE
