-------------------------- MODULE TemplateExtension --------------------------
(***************************************************************************)
(* The parameter template extension controller                             *)
(* (controllers/parameters/parametertemplateextension_controller.go): for *)
(* each config of a Component that is externally managed, named and not   *)
(* yet bound to a ConfigMap, it looks up the ComponentParameter and, when  *)
(* the ComponentParameter has a template item for the config and the      *)
(* generated ConfigMap exists, binds the config to that ConfigMap.  The    *)
(* new configs are patched onto the Component with a merge patch computed *)
(* from the Component it read.                                             *)
(*                                                                         *)
(* A reconcile is two steps: the read and computation of the expected      *)
(* Component, and the patch; other writers of the Component (the cluster   *)
(* controller, a user) may act between them.  The work queue is one flag:  *)
(* a key added while a reconcile runs is processed again after it.        *)
(* API errors are bounded by MaxFaults, edits by other writers by          *)
(* MaxEdits.                                                               *)
(***************************************************************************)
EXTENDS Naturals

CONSTANTS
    Configs,    \* the names of the Component's configs
    Items,      \* the configs the ComponentParameter has a template item for
    MaxFaults,  \* how many API errors are explored
    MaxEdits    \* how many edits of the configs by other writers

ASSUME ItemsAssumption == Items \subseteq Configs
ASSUME BoundsAssumption == MaxFaults \in Nat /\ MaxEdits \in Nat

\* config.ConfigMap: nil, the ConfigMap this controller binds (named by
\* GetComponentCfgName), or one another writer set.
Refs == {"nil", "generated", "user"}

\* A ClusterComponentConfig: ExternalManaged, whether Name is non-empty,
\* and ConfigMap.
CfgView == [ext : BOOLEAN, named : BOOLEAN, ref : Refs]

VARIABLES
    configs,    \* component.Spec.Configs, per config name
    deleting,   \* the Component has a deletion timestamp
    supported,  \* the Component's API version is supported
    cpExists,   \* the ComponentParameter exists
    cms,        \* the generated ConfigMap of each config exists
    queued,     \* the Component's key is in the work queue
    pc,         \* "idle", or "patch" between the read and the patch
    expected,   \* the configs it computed
    faults,     \* API errors so far
    edits       \* edits by other writers so far

vars == <<configs, deleting, supported, cpExists, cms, queued, pc,
          expected, faults, edits>>

TypeOK ==
    /\ configs \in [Configs -> CfgView]
    /\ deleting \in BOOLEAN /\ supported \in BOOLEAN
    /\ cpExists \in BOOLEAN
    /\ cms \in [Configs -> BOOLEAN]
    /\ queued \in BOOLEAN
    /\ pc \in {"idle", "patch"}
    /\ expected \in [Configs -> CfgView]
    /\ faults \in 0..MaxFaults /\ edits \in 0..MaxEdits

\* The Component as the cluster controller creates it: no config bound to
\* a generated ConfigMap yet, and nothing generated.
Init ==
    /\ configs \in [Configs -> {v \in CfgView : v.ref # "generated"}]
    /\ deleting = FALSE
    /\ supported \in BOOLEAN
    /\ cpExists = FALSE
    /\ cms = [c \in Configs |-> FALSE]
    /\ queued = TRUE
    /\ pc = "idle"
    /\ expected = configs
    /\ faults = 0 /\ edits = 0

-----------------------------------------------------------------------------
(* The controller.                                                         *)

\* SetupWithManager: For Component, Watches ComponentParameter.
Watched == {"Component", "ComponentParameter"}

\* The queue after an event on an object of the kind.
Enqueue(kind) == queued \/ kind \in Watched

\* needUpdateConfigObject
needUpdateConfigObject(v) == v.ext /\ v.named /\ v.ref = "nil"

\* Mutant: a successful Get copies a bare reference over the config.
BoundDropping(v) == [ref |-> "generated"]

\* updateConfigObject after a successful Get: the config references the
\* ConfigMap.
Bound(v) == [v EXCEPT !.ref = "generated"]

\* The configs whose check reads the ComponentParameter.
Checked == {c \in Configs : needUpdateConfigObject(configs[c])}

\* Mutant: the template item check inverted.
updateConfigsForParameterTemplateInverted ==
    [c \in Configs |->
        IF c \in Checked /\ cpExists /\ c \notin Items /\ cms[c]
        THEN Bound(configs[c]) ELSE configs[c]]

\* updateConfigsForComponent on a deep copy, without an API error:
\* resolveParameterCR's NotFound, a config without a template item and
\* updateConfigObject's NotFound leave the config as it is.
updateConfigsForParameterTemplate ==
    [c \in Configs |->
        IF c \in Checked /\ cpExists /\ c \in Items /\ cms[c]
        THEN Bound(configs[c]) ELSE configs[c]]

\* Reconcile up to update: a failed Get of the Component, or of the
\* ComponentParameter or a ConfigMap in the loop, requeues the key; a deleting
\* Component or an unsupported API version ends the reconcile; an expected
\* Component equal to the running one needs no patch.
Reconcile ==
    /\ queued /\ pc = "idle"
    /\ \/ /\ faults < MaxFaults
          /\ queued' = TRUE /\ faults' = faults + 1
          /\ UNCHANGED <<pc, expected>>
       \/ /\ deleting \/ ~supported
          /\ queued' = FALSE
          /\ UNCHANGED <<pc, expected, faults>>
       \/ /\ ~deleting /\ supported
          /\ queued' = FALSE
          /\ expected' = updateConfigsForParameterTemplate
          /\ pc' = IF expected' = configs THEN "idle" ELSE "patch"
          /\ UNCHANGED faults
    /\ UNCHANGED <<configs, deleting, supported, cpExists, cms, edits>>

\* update: the merge patch from running to expected replaces the configs
\* list; a failed patch requeues.  The patch is an event on the Component.
Patch ==
    /\ pc = "patch"
    /\ pc' = "idle"
    /\ \/ /\ faults < MaxFaults
          /\ queued' = TRUE /\ faults' = faults + 1
          /\ UNCHANGED configs
       \/ /\ configs' = expected
          /\ queued' = Enqueue("Component")
          /\ UNCHANGED faults
    /\ UNCHANGED <<deleting, supported, cpExists, cms, expected,
                   edits>>

-----------------------------------------------------------------------------
(* The environment.                                                        *)

\* The parameters controller creates the ComponentParameter.
CreateParameter ==
    /\ ~cpExists
    /\ cpExists' = TRUE /\ queued' = Enqueue("ComponentParameter")
    /\ UNCHANGED <<configs, deleting, supported, cms, pc, expected,
                   faults, edits>>

\* The component controller renders the ConfigMap of a config.
CreateConfigMap(c) ==
    /\ ~cms[c]
    /\ cms' = [cms EXCEPT ![c] = TRUE] /\ queued' = Enqueue("ConfigMap")
    /\ UNCHANGED <<configs, deleting, supported, cpExists, pc,
                   expected, faults, edits>>

\* Another writer changes a config of the Component.
EditConfig(c) ==
    /\ edits < MaxEdits /\ ~deleting
    /\ \E v \in CfgView \ {configs[c]} :
         /\ v.ref # "generated"
         /\ configs' = [configs EXCEPT ![c] = v]
    /\ edits' = edits + 1 /\ queued' = Enqueue("Component")
    /\ UNCHANGED <<deleting, supported, cpExists, cms, pc, expected,
                   faults>>

\* The Component is deleted.
DeleteComponent ==
    /\ ~deleting
    /\ deleting' = TRUE /\ queued' = Enqueue("Component")
    /\ UNCHANGED <<configs, supported, cpExists, cms, pc, expected,
                   faults, edits>>

\* The informer's periodic resync enqueues every object.
Resync ==
    /\ ~queued
    /\ queued' = TRUE
    /\ UNCHANGED <<configs, deleting, supported, cpExists, cms, pc,
                   expected, faults, edits>>

Environment ==
    \/ CreateParameter \/ DeleteComponent \/ Resync
    \/ \E c \in Configs : CreateConfigMap(c) \/ EditConfig(c)

Next == Reconcile \/ Patch \/ Environment

Spec == Init /\ [][Next]_vars

\* The work queue hands every queued key to a worker, a worker finishes
\* the reconcile it started, and the informer resyncs.
Fairness == WF_vars(Reconcile) /\ WF_vars(Patch) /\ WF_vars(Resync)

FairSpec == Spec /\ Fairness

-----------------------------------------------------------------------------
(* Properties.                                                             *)

\* The config should be bound: externally managed, named, with a template
\* item in an existing ComponentParameter and a generated ConfigMap, on a
\* live Component of a supported version.
Wanted(c) ==
    /\ configs[c].ext /\ configs[c].named
    /\ cpExists /\ c \in Items /\ cms[c]
    /\ ~deleting /\ supported

\* A config that from some point on stays wanted is eventually bound for
\* good, although no ConfigMap event enqueues the Component: the
\* ConfigMap created after the last reconcile is found by a later one.
Converges ==
    \A c \in Configs : <>[]Wanted(c) => <>[](configs[c].ref # "nil")

\* The patch of a reconcile changes nothing but binding unbound configs to
\* their generated ConfigMaps: it never undoes what another writer did to
\* the Component since the reconcile read it.
PatchOnlyBinds ==
    [][pc = "patch" /\ configs' # configs =>
         \A c \in Configs :
            configs'[c] # configs[c] =>
                configs[c].ref = "nil" /\ configs'[c] = Bound(configs[c])]_vars

=============================================================================
