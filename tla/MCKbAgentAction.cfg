CONSTANTS
    p1 = p1
    p2 = p2
    p3 = p3
    Pods <- MCPods
    ThePod = p1
    RoleOf <- MCRoleOf
    AgentPods <- MCAgentPods
    MaxCalls = 3
    Specs <- MCSpecs
SPECIFICATION Spec
INVARIANTS
    TypeOK
    FirstOutputWins
PROPERTIES
    SuccessRanOnAllTargets
