---------------------------- MODULE KbAgentAction ----------------------------
(***************************************************************************)
(* One lifecycle action called through the kbagent client                  *)
(* (pkg/controller/lifecycle/kbagent.go): checkedCallAction checks that    *)
(* the action is defined and its precondition holds, selects the target   *)
(* pods (SelectTargetPods) and calls the agent of each target in turn     *)
(* (callActionWithSelector): the first error aborts the call and the first *)
(* non-empty output is returned.  The caller (a component controller,      *)
(* outside src/) calls again after an error, up to MaxCalls times.         *)
(*                                                                         *)
(* A call to one pod is a step of its own: the objects the precondition   *)
(* read may change while the call runs.  The reply of an agent is chosen  *)
(* from Replies; an HTTP error may come before or after the agent ran the *)
(* action.                                                                 *)
(***************************************************************************)
EXTENDS Naturals, FiniteSets, Sequences

CONSTANTS
    Pods,       \* kbagent.pods, the component's pods
    ThePod,     \* kbagent.pod, the pod the action is about
    RoleOf,     \* the role label of each pod, NoRole when it has none
    AgentPods,  \* the pods with a kb-agent container and port
    MaxCalls,   \* how many times the caller calls the action
    Specs       \* the action definitions explored

\* The precondition kinds and the object each ready check reads.
ReadyKinds == {"RuntimeReady", "ComponentReady", "ClusterReady"}
PreConditions == {"nil", "Immediately", "Unknown"} \cup ReadyKinds

\* TargetPodSelector values; "" when the action has none.
Selectors == {"", "Any", "All", "Role", "Ordinal", "Unknown"}

\* The role names a pod label or a MatchingKey may hold.
Roles == {"leader", "follower"}
NoRole == "NoRole"

\* An Action: whether Exec is set, its precondition, its selector and the
\* MatchingKey of a role selector.
ActionSpec == [defined : BOOLEAN, pre : PreConditions, selector : Selectors,
               key : Roles]

ASSUME PodsAssumption == IsFiniteSet(Pods) /\ ThePod \in Pods
ASSUME RoleOfAssumption == RoleOf \in [Pods -> Roles \cup {NoRole}]
ASSUME AgentPodsAssumption == AgentPods \subseteq Pods
ASSUME MaxCallsAssumption == MaxCalls \in Nat \ {0}
ASSUME SpecsAssumption == Specs \subseteq ActionSpec /\ Specs # {}

\* What a call to one agent returns: an HTTP error before the action ran
\* or after it (the reply lost), an error code in the response, or success
\* with or without output.
Replies == {"httpBefore", "httpAfter", "agentError", "output", "empty"}

\* The results of a call: the error kinds of kbagent.go and success.
Results == {"none", "ok", "ErrActionNotDefined", "ErrPrecondition",
            "ErrRequest", "ErrSelector", "ErrNoPod", "ErrHTTP", "ErrAgent"}

NoOutput == "NoOutput"

\* The absence of an output (a nil []byte) is no pod's output.
ASSUME NoOutputAssumption == NoOutput \notin Pods

VARIABLES
    spec,       \* the action definition
    ready,      \* the readiness of the objects the preconditions read
    calling,    \* a call is looping over its target pods
    targets,    \* the pods selected by the call
    order,      \* the target pods called so far, in order
    oks,        \* the target pods that returned no error
    outs,       \* the target pods that returned an output
    output,     \* the output kept by the call: the pod it came from
    result,     \* what the last call returned
    executed,   \* how many times the action ran on each pod
    calls       \* how many times the caller has called the action

vars == <<spec, ready, calling, targets, order, oks, outs, output, result,
          executed, calls>>

TypeOK ==
    /\ spec \in Specs
    /\ ready \in [ReadyKinds -> BOOLEAN]
    /\ calling \in BOOLEAN
    /\ targets \subseteq Pods
    /\ order \in Seq(Pods)
    /\ oks \subseteq Pods
    /\ outs \subseteq Pods
    /\ output \in Pods \cup {NoOutput}
    /\ result \in Results
    /\ executed \in [Pods -> 0..MaxCalls]
    /\ calls \in 0..MaxCalls

Init ==
    /\ spec \in Specs
    /\ ready \in [ReadyKinds -> BOOLEAN]
    /\ calling = FALSE
    /\ targets = {}
    /\ order = << >>
    /\ oks = {}
    /\ outs = {}
    /\ output = NoOutput
    /\ result = "none"
    /\ executed = [p \in Pods |-> 0]
    /\ calls = 0

-----------------------------------------------------------------------------
(* The client.                                                             *)

\* The target pods called so far in this call.
Called == {order[i] : i \in DOMAIN order}

\* precondition: a nil or Immediately precondition always holds, a ready
\* check holds when its object is ready (readyCheck), an unknown one fails.
precondition(s) ==
    \/ s.pre \in {"nil", "Immediately"}
    \/ s.pre \in ReadyKinds /\ ready[s.pre]

\* podsWithRole: the pods labelled with the MatchingKey.
podsWithRole(s) == {p \in Pods : RoleOf[p] = s.key}

\* SelectTargetPods: the possible target sets, {} on a selector error.
\* anyPod picks one pod at random.
SelectTargetPods(s) ==
    CASE s.selector = ""    -> {{ThePod}}
      [] s.selector = "Any" -> {{p} : p \in Pods}
      [] s.selector = "All" -> {Pods}
      [] s.selector = "Role" -> {podsWithRole(s)}
      [] OTHER              -> {}

\* checkedCallAction, callAction and callActionWithSelector up to its loop.
\* The caller calls again only after an error.  buildActionRequest fails
\* when the parameters it reads cannot be got.
CheckedCallAction ==
    /\ ~calling /\ result # "ok" /\ calls < MaxCalls
    /\ calls' = calls + 1
    /\ order' = << >> /\ oks' = {} /\ outs' = {} /\ output' = NoOutput
    /\ \E requestOK \in BOOLEAN :
       CASE ~spec.defined ->
              result' = "ErrActionNotDefined" /\ UNCHANGED <<calling, targets>>
         [] ~precondition(spec) ->
              result' = "ErrPrecondition" /\ UNCHANGED <<calling, targets>>
         [] ~requestOK ->
              result' = "ErrRequest" /\ UNCHANGED <<calling, targets>>
         [] SelectTargetPods(spec) = {} ->
              result' = "ErrSelector" /\ UNCHANGED <<calling, targets>>
         [] OTHER ->
              \E T \in SelectTargetPods(spec) :
                  IF T = {} THEN result' = "ErrNoPod"
                                 /\ UNCHANGED <<calling, targets>>
                  ELSE /\ calling' = TRUE /\ targets' = T
                       /\ UNCHANGED result
    /\ UNCHANGED <<spec, ready, executed>>

\* Whether the agent ran the action for a reply.
RanFor(reply) == reply \in {"httpAfter", "agentError", "output", "empty"}

\* Mutant: an error response is skipped like a pod without an agent.
AbortsOnSkippedError(reply) == reply \in {"httpBefore", "httpAfter"}

\* The replies that abort the call: cli.Action's error and formatError.
Aborts(reply) == reply \in {"httpBefore", "httpAfter", "agentError"}

\* Mutant: every output overwrites the one kept.
KeptOutputLastWins(p, reply) == IF reply = "output" THEN p ELSE output

\* take first non-nil output
KeptOutput(p, reply) ==
    IF output = NoOutput /\ reply = "output" THEN p ELSE output

\* Mutant: a pod already called is called again.
UncalledRepeating == targets

\* The pods the loop over the targets has not reached yet.
Uncalled == targets \ Called

\* One iteration of the loop of callActionWithSelector.  A pod without an
\* agent has no client and is skipped (the continue).
CallPod ==
    /\ calling
    /\ \E p \in Uncalled :
       \E reply \in IF p \in AgentPods THEN Replies ELSE {"noAgent"} :
         /\ executed' = IF RanFor(reply)
                        THEN [executed EXCEPT ![p] = @ + 1] ELSE executed
         /\ order' = Append(order, p)
         /\ IF Aborts(reply)
            THEN /\ calling' = FALSE
                 /\ result' = IF reply = "agentError" THEN "ErrAgent"
                                                      ELSE "ErrHTTP"
                 /\ UNCHANGED <<oks, outs, output>>
            ELSE /\ oks' = IF reply \in {"output", "empty"} THEN oks \cup {p}
                                                            ELSE oks
                 /\ outs' = IF reply = "output" THEN outs \cup {p} ELSE outs
                 /\ output' = KeptOutput(p, reply)
                 /\ UNCHANGED <<calling, result>>
    /\ UNCHANGED <<spec, ready, targets, calls>>

\* The loop is over: the call returns the output kept.
ReturnOutput ==
    /\ calling
    /\ Uncalled = {}
    /\ calling' = FALSE /\ result' = "ok"
    /\ UNCHANGED <<spec, ready, targets, order, oks, outs, output,
                   executed, calls>>

\* The InstanceSet, Component or Cluster becomes ready or stops being.
ReadyChange ==
    /\ \E k \in ReadyKinds : ready' = [ready EXCEPT ![k] = ~@]
    /\ UNCHANGED <<spec, calling, targets, order, oks, outs, output,
                   result, executed, calls>>

Next == CheckedCallAction \/ CallPod \/ ReturnOutput \/ ReadyChange

Spec == Init /\ [][Next]_vars

-----------------------------------------------------------------------------
(* Properties.                                                             *)

\* A call that succeeds ran the action without error, in this call, on
\* every pod it selected that has an agent: any error from one pod aborts
\* the whole call (callActionWithSelector), whatever the pods that replied
\* before it.
SuccessRanOnAllTargets ==
    [][calling /\ result' = "ok" =>
         targets = Called
         /\ targets \cap AgentPods \subseteq oks
         /\ \A p \in targets \cap AgentPods : executed'[p] > 0]_vars

\* The output a successful call returns is the one of the first target,
\* in call order, that returned an output, and none if no target did.
FirstOutputWins ==
    result = "ok" =>
        IF \E i \in DOMAIN order : order[i] \in outs
        THEN output = order[CHOOSE i \in DOMAIN order :
                                order[i] \in outs
                                /\ \A j \in 1..(i - 1) : order[j] \notin outs]
        ELSE output = NoOutput

=============================================================================
