CONSTANTS
    p1 = p1
    p2 = p2
    Pods <- MCPods
    UpdatedPodSet = {}
    Replicas = 2
SYMMETRY MCSymmetry
SPECIFICATION Spec
INVARIANT TypeOK
INVARIANT EventsMatchLedger
INVARIANT TimestampsConsistent
INVARIANT ProgressWithinExpected
PROPERTY LedgerRefined
