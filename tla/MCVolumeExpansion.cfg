CONSTANTS
    i1 = i1
    i2 = i2
    Instances <- MCInstances
    TemplateInstances = {}
SYMMETRY MCSymmetry
SPECIFICATION Spec
INVARIANTS
    TypeOK
    FailedOnlyAfterTimeout
    SucceededLedgerComplete
    RowsAnnounced
PROPERTIES
    SucceedOnlyWhenExpanded
