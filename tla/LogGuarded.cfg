\* Guarded updates and deletes, batched creates with their retries, an import.
SPECIFICATION Spec
CONSTANTS
    MaxEntity = 2
    Existing = {1}
    Writers = {w1, w2}
    Ops = {"create", "update", "delete", "import"}
    Batch = 2
    Guarding = {TRUE}
    SchemaEdits = FALSE
    MaxWrites = 4
    MaxVersion = 3
INVARIANTS
    TypeOK
    VersionsFollowTime
    SomeoneProceeds
PROPERTIES
    GuardedSeesAll
    CreatedOnce
    GuardedIsRead
    WritesAreAtomic
SYMMETRY RequestsAlike
CHECK_DEADLOCK FALSE
