CONSTANTS
    p1 = p1
    p2 = p2
    Pods <- MCPods
    UpdatedPodSet = {}
    Replicas = 2
SYMMETRY MCSymmetry
SPECIFICATION Spec
PROPERTY TerminalNeverRegresses
