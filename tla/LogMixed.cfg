\* Guarded and unguarded updates of one feature, and structure edits meanwhile.
SPECIFICATION Spec
CONSTANTS
    MaxEntity = 1
    Existing = {1}
    Writers = {w1, w2}
    Ops = {"update"}
    Batch = 1
    Guarding = {TRUE, FALSE}
    SchemaEdits = TRUE
    MaxWrites = 3
    MaxVersion = 2
INVARIANTS
    OneWinnerPerHead
SYMMETRY RequestsAlike
CHECK_DEADLOCK FALSE
