--------------------------- MODULE MCKbAgentAction ---------------------------
(* Three pods, one of them the pod the action is about and the leader,   *)
(* and action definitions covering every precondition and selector kind, *)
(* a role no pod holds included; p3 has no agent container.              *)
EXTENDS KbAgentAction

CONSTANTS p1, p2, p3

MCPods == {p1, p2, p3}

MCRoleOf == [p \in MCPods |-> IF p = p1 THEN "leader"
                              ELSE NoRole]

MCAgentPods == {p1, p2}

\* An action definition with an Exec.
Def(pre, sel, key) ==
    [defined |-> TRUE, pre |-> pre, selector |-> sel, key |-> key]

MCSpecs ==
    { Def("ComponentReady", "All", "leader"),
      Def("nil", "Role", "leader"),
      Def("nil", "Role", "follower"),
      Def("Immediately", "Any", "leader"),
      Def("RuntimeReady", "", "leader"),
      Def("ClusterReady", "Ordinal", "leader"),
      Def("Unknown", "", "leader"),
      Def("nil", "Unknown", "leader"),
      [defined |-> FALSE, pre |-> "nil", selector |-> "", key |-> "leader"] }

=============================================================================
