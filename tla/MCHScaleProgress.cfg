CONSTANTS
    c1 = c1
    c2 = c2
    d1 = d1
    CreatedPods <- MCCreatedPods
    DeletedPods <- MCDeletedPods
    NeedCheckRole = TRUE
SYMMETRY MCSymmetry
SPECIFICATION Spec
INVARIANTS
    TypeOK
    CountBackedByLedger
