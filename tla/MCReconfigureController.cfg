CONSTANTS
    NTasks = 2
    MaxVersion = 3
    Outcomes <- MCOutcomes
    Related = "ok"
SPECIFICATION Spec
INVARIANTS
    TypeOK
    AppliedMeansReloaded
