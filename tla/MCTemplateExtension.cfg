CONSTANTS
    c1 = c1
    c2 = c2
    Configs <- MCConfigs
    Items <- MCItems
    MaxFaults = 1
    MaxEdits = 1

SPECIFICATION FairSpec

INVARIANT TypeOK

PROPERTY Converges
