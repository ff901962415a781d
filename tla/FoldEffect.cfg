\* Every chain of up to four edits of one feature, two fields, two answers.
SPECIFICATION Spec
CONSTANTS
    Keys = {k1, k2}
    Values = {v1, v2}
    Geometries = {g1, g2}
    Null = Null
    MaxOps = 4
INVARIANTS
    TypeOK
    FoldPreservesEffect
    FoldedOpFits
    ClosedForm
CHECK_DEADLOCK FALSE
