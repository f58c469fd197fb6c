--------------------------- MODULE HScaleProgress ---------------------------
(***************************************************************************)
(* Progress of a horizontal scaling OpsRequest on a component's replicas:  *)
(* handleComponentProgressForScalingReplicas of                            *)
(* pkg/operations/ops_progress_util.go with handleScaleOutProgressWith-    *)
(* InstanceSet and handleScaleInProgressWithInstanceSet.  The pods to      *)
(* create and to delete are fixed by the operation; the InstanceSet        *)
(* controller moves them through its status (current revisions, the        *)
(* InstanceReady, InstanceAvailable and InstanceFailure conditions, the    *)
(* role members): the environment actions below.  One handler call reads  *)
(* the InstanceSet once, so it is one atomic step.                         *)
(***************************************************************************)
EXTENDS ProgressDetail

CONSTANTS
    CreatedPods,    \* progressResource.createdPodSet
    DeletedPods,    \* progressResource.deletedPodSet
    NeedCheckRole   \* needToCheckRole: the component definition has roles

ASSUME CreatedPodsAssumption == IsFiniteSet(CreatedPods)
ASSUME DeletedPodsAssumption == IsFiniteSet(DeletedPods)
\* A pod name is either created or deleted by one operation.
ASSUME DisjointAssumption == CreatedPods \cap DeletedPods = {}
ASSUME NeedCheckRoleAssumption == NeedCheckRole \in BOOLEAN

Pods == CreatedPods \cup DeletedPods

\* The message of a row is its opsMessageKey (Create or Delete).
HMsgs == {"create", "delete"}

\* What the InstanceSet status says of a pod: listed in CurrentRevisions,
\* in the InstanceFailure, InstanceReady (not ready) and InstanceAvailable
\* (not available) conditions, and in MembersStatus.
InstanceView == [inRev : BOOLEAN, failure : BOOLEAN, notReady : BOOLEAN,
                 notAvailable : BOOLEAN, member : BOOLEAN]

VARIABLES
    its,        \* the InstanceSet status, per pod
    details,    \* compStatus.ProgressDetails, keyed by pod
    progress    \* (expect, completed) returned by the last call

vars == <<its, details, progress>>

TypeOK ==
    /\ its \in [Pods -> InstanceView]
    /\ DOMAIN details \subseteq Pods
    /\ details \in [DOMAIN details -> Row(HMsgs)]
    /\ progress \in [expect : Nat, completed : Nat]

\* The pods to create do not exist yet; the pods to delete run.
Init ==
    /\ its = [p \in Pods |->
                [inRev |-> p \in DeletedPods, failure |-> FALSE,
                 notReady |-> p \in CreatedPods,
                 notAvailable |-> p \in CreatedPods,
                 member |-> p \in DeletedPods]]
    /\ details = [k \in {} |-> NewDetail(Pending, "create")]
    /\ progress = [expect |-> 0, completed |-> 0]

-----------------------------------------------------------------------------
(* The handler.                                                            *)

\* A created pod that the loop passes over without touching its row.
Skip == "Skip"

\* Mutant: the Pending detail of a pod not yet created has no status.
ScaleOutStatusUnsetPending(v) ==
    IF ~v.inRev THEN ""
    ELSE IF v.failure THEN Failed
    ELSE IF v.notReady THEN Processing
    ELSE IF v.notAvailable THEN Skip
    ELSE IF ~v.member /\ NeedCheckRole THEN Skip
    ELSE Succeed

\* The loop body of handleScaleOutProgressWithInstanceSet: the status it
\* sets for a created pod, or Skip on the two bare continues.  The checks
\* are taken in the order of the code: a failed pod is also not ready.
ScaleOutStatus(v) ==
    IF ~v.inRev THEN Pending
    ELSE IF v.failure THEN Failed
    ELSE IF v.notReady THEN Processing
    ELSE IF v.notAvailable THEN Skip
    ELSE IF ~v.member /\ NeedCheckRole THEN Skip
    ELSE Succeed

\* Mutant: completedCount is incremented before the availability and role
\* checks.
ScaleOutCompletedBeforeSkip(v) == v.inRev /\ (v.failure \/ ~v.notReady)

\* Whether the scale-out loop counts the pod completed.
ScaleOutCompleted(v) == ScaleOutStatus(v) \in {Failed, Succeed}

\* The loop body of handleScaleInProgressWithInstanceSet.
ScaleInStatus(v) ==
    IF ~v.inRev THEN Succeed
    ELSE IF v.notReady THEN Processing
    ELSE Pending

\* handleComponentProgressForScalingReplicas.  Both loops touch distinct
\* keys, so they are one pass of setComponentStatusProgressDetail calls.
HandleScalingReplicas ==
    LET touched == {p \in CreatedPods : ScaleOutStatus(its[p]) # Skip}
        updates == [p \in touched \cup DeletedPods |->
                      IF p \in CreatedPods
                      THEN NewDetail(ScaleOutStatus(its[p]), "create")
                      ELSE NewDetail(ScaleInStatus(its[p]), "delete")]
        completed ==
            Cardinality({p \in CreatedPods : ScaleOutCompleted(its[p])})
            + Cardinality({p \in DeletedPods : ~its[p].inRev})
    IN /\ details' = SetDetails(details, updates)
       /\ progress' = [expect |-> Cardinality(Pods), completed |-> completed]
       /\ UNCHANGED its

-----------------------------------------------------------------------------
(* The environment: the InstanceSet controller.                           *)

CreatePod(p) ==
    /\ p \in CreatedPods /\ ~its[p].inRev
    /\ its' = [its EXCEPT ![p].inRev = TRUE]
    /\ UNCHANGED <<details, progress>>

BecomeReady(p) ==
    /\ its[p].inRev /\ its[p].notReady /\ ~its[p].failure
    /\ its' = [its EXCEPT ![p].notReady = FALSE]
    /\ UNCHANGED <<details, progress>>

\* Ready for minReadySeconds.
BecomeAvailable(p) ==
    /\ its[p].inRev /\ ~its[p].notReady /\ its[p].notAvailable
    /\ its' = [its EXCEPT ![p].notAvailable = FALSE]
    /\ UNCHANGED <<details, progress>>

AssignRole(p) ==
    /\ its[p].inRev /\ ~its[p].member
    /\ its' = [its EXCEPT ![p].member = TRUE]
    /\ UNCHANGED <<details, progress>>

\* The pod crashes (or the probe fails): not ready, not available, no role.
Crash(p) ==
    /\ its[p].inRev /\ ~its[p].notReady
    /\ its' = [its EXCEPT ![p].notReady = TRUE, ![p].notAvailable = TRUE,
                          ![p].member = FALSE]
    /\ UNCHANGED <<details, progress>>

SetFailure(p) ==
    /\ p \in CreatedPods /\ its[p].inRev /\ ~its[p].failure
    /\ its' = [its EXCEPT ![p].failure = TRUE, ![p].notReady = TRUE,
                          ![p].notAvailable = TRUE]
    /\ UNCHANGED <<details, progress>>

ClearFailure(p) ==
    /\ its[p].failure
    /\ its' = [its EXCEPT ![p].failure = FALSE]
    /\ UNCHANGED <<details, progress>>

\* A pod to delete terminates, then leaves the current revisions.
Terminate(p) ==
    /\ p \in DeletedPods /\ its[p].inRev /\ ~its[p].notReady
    /\ its' = [its EXCEPT ![p].notReady = TRUE, ![p].notAvailable = TRUE]
    /\ UNCHANGED <<details, progress>>

RemovePod(p) ==
    /\ p \in DeletedPods /\ its[p].inRev
    /\ its' = [its EXCEPT ![p].inRev = FALSE]
    /\ UNCHANGED <<details, progress>>

Environment ==
    \E p \in Pods :
        \/ CreatePod(p) \/ BecomeReady(p) \/ BecomeAvailable(p)
        \/ AssignRole(p) \/ Crash(p) \/ SetFailure(p) \/ ClearFailure(p)
        \/ Terminate(p) \/ RemovePod(p)

Next == HandleScalingReplicas \/ Environment

Spec == Init /\ [][Next]_vars

-----------------------------------------------------------------------------
(* Properties.                                                             *)

\* The completed count the handler reports is backed by the ledger: there
\* are at least as many rows in a terminal status as pods counted, although
\* the scale-out loop passes over some pods with a bare continue (neither
\* counted nor written) and the merge rule ignores some updates.  So a progress of n/n always comes with
\* a terminal row for every pod of the operation.
CountBackedByLedger ==
    progress.completed <=
        Cardinality({k \in DOMAIN details :
                        isCompletedProgressStatus(details[k].status)})

=============================================================================
