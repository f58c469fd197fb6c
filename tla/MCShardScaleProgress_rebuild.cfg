CONSTANTS
    s1 = s1
    s2 = s2
    s3 = s3
    s4 = s4
    s5 = s5
    Comps <- MCComps
    InitialComps <- MCInitialComps
    ShardTargets = {1, 2, 3, 5}
    MaxRebuilds = 1
SPECIFICATION Spec
PROPERTIES
    FullProgressMeansSettled
