------------------------ MODULE RollingUpdateProgress ------------------------
(***************************************************************************)
(* Progress of an OpsRequest whose component pods are updated in place or  *)
(* re-created (restart, vertical scaling, reconfigure by restart...):      *)
(* handleComponentStatusProgress of pkg/operations/ops_progress_util.go,   *)
(* with its two loops handleProgressForPodsRollingUpdate and              *)
(* handleCancelProgressForPodsRollingUpdate.                               *)
(*                                                                         *)
(* The pods are changed by Kubernetes (the environment actions below); the *)
(* OpsRequest controller calls the handler on every reconcile.  One call   *)
(* lists the pods once and works on that snapshot, so it is one atomic     *)
(* step.  The per-operation callback podApplyOps is a property of the pod  *)
(* (field applied) that the environment sets.                              *)
(***************************************************************************)
EXTENDS ProgressDetail

CONSTANTS
    Pods,           \* the names of the pods the component owns
    UpdatedPodSet,  \* progressResource.updatedPodSet; {} means every pod
    Replicas        \* clusterComponent.Replicas

ASSUME PodsAssumption == IsFiniteSet(Pods)
ASSUME UpdatedPodSetAssumption == UpdatedPodSet \subseteq Pods
\* The InstanceSet owns exactly Replicas pods, with stable names.
ASSUME ReplicasAssumption == Replicas = Cardinality(Pods)

\* OpsRequest.status.phase values read by the handler.
OpsRunningPhase    == "Running"
OpsCancellingPhase == "Cancelling"

\* Creation times are abstracted to epochs: before the operation's
\* StartTimestamp, between it and the CancelTimestamp, and after that.
BeforeStart == 0
AfterStart  == 1
AfterCancel == 2

\* Messages: which opsMessageKey a row was written with ("none" is the
\* empty message of a Pending row).
Msgs == {"none", "op", "rollback"}

\* The observed pod: IsPodFailedAndTimedOut is the field failed,
\* podIsAvailable (readiness, minReadySeconds or role label) is available.
PodState == [exists : BOOLEAN, born : BeforeStart..AfterCancel,
             deleting : BOOLEAN, available : BOOLEAN, applied : BOOLEAN,
             failed : BOOLEAN]
Absent == [exists |-> FALSE, born |-> BeforeStart, deleting |-> FALSE,
           available |-> FALSE, applied |-> FALSE, failed |-> FALSE]

VARIABLES
    pods,       \* the live pods
    phase,      \* OpsRequest.status.phase
    details,    \* compStatus.ProgressDetails, keyed by pod
    lastEvent,  \* the last progress event recorded for each pod
    progress    \* (expectCount, completedCount) returned by the last call

vars == <<pods, phase, details, lastEvent, progress>>

NoProgress == [expect |-> 0, completed |-> 0]

TypeOK ==
    /\ pods \in [Pods -> PodState]
    /\ phase \in {OpsRunningPhase, OpsCancellingPhase}
    /\ DOMAIN details \subseteq Pods
    /\ details \in [DOMAIN details -> Row(Msgs)]
    /\ lastEvent \in [Pods -> Event(Msgs) \cup {NoEvent}]
    /\ progress \in [expect : Nat, completed : Nat]

Init ==
    /\ pods \in [Pods -> {s \in PodState : s.exists /\ s.born = BeforeStart
                                      /\ ~s.deleting /\ ~s.failed}]
    /\ phase = OpsRunningPhase
    /\ details = [k \in {} |-> NewDetail(Pending, "none")]
    /\ lastEvent = [k \in Pods |-> NoEvent]
    /\ progress = NoProgress

-----------------------------------------------------------------------------
(* The handler.                                                            *)

\* notRecreatedDuringOperation(t, pod)
notRecreatedDuringOperation(t, s) == s.born < t /\ ~s.deleting

\* podProcessedSuccessful
podProcessedSuccessful(s) == ~s.deleting /\ s.available /\ s.applied

\* handleFailedOrProcessingProgressDetail: the detail it sets.
FailedOrProcessingDetail(s, msg) ==
    IF s.failed THEN NewDetail(Failed, msg) ELSE NewDetail(Processing, msg)

\* Mutant: the Pending detail is set without its status.
RollingDetailUnsetPending(s) ==
    CASE podProcessedSuccessful(s) -> NewDetail(Succeed, "op")
      [] notRecreatedDuringOperation(AfterStart, s) /\ ~s.applied
            -> NewDetail("", "none")
      [] OTHER -> FailedOrProcessingDetail(s, "op")

\* The loop body of handleProgressForPodsRollingUpdate.
RollingDetail(s) ==
    CASE podProcessedSuccessful(s) -> NewDetail(Succeed, "op")
      [] notRecreatedDuringOperation(AfterStart, s) /\ ~s.applied
            -> NewDetail(Pending, "none")
      [] OTHER -> FailedOrProcessingDetail(s, "op")

\* The loop body of handleCancelProgressForPodsRollingUpdate skips a pod
\* not re-created since the cancellation and not applied.
CancelSkipped(s) ==
    /\ ~podProcessedSuccessful(s)
    /\ notRecreatedDuringOperation(AfterCancel, s) /\ ~s.applied

CancelDetail(s) ==
    IF podProcessedSuccessful(s) THEN NewDetail(Succeed, "rollback")
    ELSE FailedOrProcessingDetail(s, "rollback")

\* The pods ListOwnedPods returns, filtered by updatedPodSet when not empty.
ListedPods ==
    {p \in (IF UpdatedPodSet # {} THEN UpdatedPodSet ELSE Pods) :
        pods[p].exists}

\* expectReplicas before the cancelling override.
ExpectReplicas ==
    IF UpdatedPodSet # {} THEN Cardinality(UpdatedPodSet) ELSE Replicas

\* Mutant: the cancel loop drops every row that is not completed.
PruneNotCompleted(d) ==
    [k \in {x \in DOMAIN d : isCompletedProgressStatus(d[x].status)} |-> d[k]]

\* The cancel loop first drops every Pending row.
PrunePending(d) == [k \in {x \in DOMAIN d : d[x].status # Pending} |-> d[k]]

\* Completed pods: each loop adds one for a succeeded or a failed pod.
Completed(updates) ==
    Cardinality({p \in DOMAIN updates :
                    isCompletedProgressStatus(updates[p].status)})

\* handleComponentStatusProgress, not cancelling.
HandleRollingUpdate ==
    /\ phase = OpsRunningPhase
    /\ LET updates == [p \in ListedPods |-> RollingDetail(pods[p])]
       IN /\ details' = SetDetails(details, updates)
          /\ lastEvent' = SendEvents(lastEvent, details, updates)
          /\ progress' = [expect |-> ExpectReplicas,
                          completed |-> Completed(updates)]
    /\ UNCHANGED <<pods, phase>>

\* Mutant: the expected count is taken before the cancel pass.
HandleCancelProgressEarlyExpect ==
    /\ phase = OpsCancellingPhase
    /\ LET base    == PrunePending(details)
           visited == {p \in ListedPods : ~CancelSkipped(pods[p])}
           updates == [p \in visited |-> CancelDetail(pods[p])]
       IN /\ details' = SetDetails(base, updates)
          /\ lastEvent' = SendEvents(lastEvent, base, updates)
          /\ progress' = [expect |-> Cardinality(DOMAIN details),
                          completed |-> Completed(updates)]
    /\ UNCHANGED <<pods, phase>>

\* handleComponentStatusProgress while the OpsRequest is cancelling: only
\* the rows left after the pass are expected.
HandleCancelProgress ==
    /\ phase = OpsCancellingPhase
    /\ LET base    == PrunePending(details)
           visited == {p \in ListedPods : ~CancelSkipped(pods[p])}
           updates == [p \in visited |-> CancelDetail(pods[p])]
       IN /\ details' = SetDetails(base, updates)
          /\ lastEvent' = SendEvents(lastEvent, base, updates)
          /\ progress' = [expect |-> Cardinality(DOMAIN details'),
                          completed |-> Completed(updates)]
    /\ UNCHANGED <<pods, phase>>

-----------------------------------------------------------------------------
(* The environment: Kubernetes and the user.                               *)

\* The epoch a pod created now is born in.
Now == IF phase = OpsCancellingPhase THEN AfterCancel ELSE AfterStart

DeletePod(p) ==
    /\ pods[p].exists /\ ~pods[p].deleting
    /\ pods' = [pods EXCEPT ![p].deleting = TRUE]
    /\ UNCHANGED <<phase, details, lastEvent, progress>>

RemovePod(p) ==
    /\ pods[p].deleting
    /\ pods' = [pods EXCEPT ![p] = Absent]
    /\ UNCHANGED <<phase, details, lastEvent, progress>>

\* The workload re-creates the pod, with or without the change applied.
CreatePod(p, applied) ==
    /\ ~pods[p].exists
    /\ pods' = [pods EXCEPT ![p] = [Absent EXCEPT !.exists = TRUE,
                                      !.born = Now, !.applied = applied]]
    /\ UNCHANGED <<phase, details, lastEvent, progress>>

PodReady(p) ==
    /\ pods[p].exists /\ ~pods[p].deleting /\ ~pods[p].available
    /\ pods' = [pods EXCEPT ![p].available = TRUE, ![p].failed = FALSE]
    /\ UNCHANGED <<phase, details, lastEvent, progress>>

PodUnavailable(p) ==
    /\ pods[p].available
    /\ pods' = [pods EXCEPT ![p].available = FALSE]
    /\ UNCHANGED <<phase, details, lastEvent, progress>>

PodFailedAndTimedOut(p) ==
    /\ pods[p].exists /\ ~pods[p].deleting /\ ~pods[p].failed
    /\ pods' = [pods EXCEPT ![p].failed = TRUE, ![p].available = FALSE]
    /\ UNCHANGED <<phase, details, lastEvent, progress>>

\* The change reaches the running pod without re-creating it.
ApplyInPlace(p) ==
    /\ pods[p].exists /\ ~pods[p].applied
    /\ pods' = [pods EXCEPT ![p].applied = TRUE]
    /\ UNCHANGED <<phase, details, lastEvent, progress>>

CancelOps ==
    /\ phase = OpsRunningPhase
    /\ phase' = OpsCancellingPhase
    /\ UNCHANGED <<pods, details, lastEvent, progress>>

Environment ==
    \/ \E p \in Pods :
        \/ DeletePod(p) \/ RemovePod(p) \/ PodReady(p) \/ PodUnavailable(p)
        \/ PodFailedAndTimedOut(p) \/ ApplyInPlace(p)
        \/ \E a \in BOOLEAN : CreatePod(p, a)
    \/ CancelOps

Next == HandleRollingUpdate \/ HandleCancelProgress \/ Environment

Spec == Init /\ [][Next]_vars

-----------------------------------------------------------------------------
(* Properties.                                                             *)

\* The ledger this handler writes, as ProgressLedger sees it.
Ledger == INSTANCE ProgressLedger WITH Keys <- Pods, ledger <- details

\* The rows handleComponentStatusProgress writes keep the ledger's
\* promises across passes, cancellation and any pod changes: the cancel
\* pass drops only Pending rows, a Failed row (a pod that failed and timed
\* out) changes only to Succeed (setComponentStatusProgressDetail), and no
\* StartTime or EndTime is cleared (updateProgressDetailTime).
LedgerRefined == Ledger!Spec

\* Every non-Pending row is announced by an event carrying its status and
\* message, and no ignored update sends one: the last event recorded for a
\* pod agrees with its row (sendProgressDetailEvent after each change).
EventsMatchLedger ==
    \A k \in DOMAIN details :
        details[k].status # Pending =>
            lastEvent[k] = [status |-> details[k].status,
                            msg |-> details[k].msg]

\* updateProgressDetailTime: a completed row has an EndTime and a
\* Processing row a StartTime, whatever the rows went through before.
TimestampsConsistent ==
    \A k \in DOMAIN details :
        /\ isCompletedProgressStatus(details[k].status) => details[k].ended
        /\ details[k].status = Processing => details[k].started

\* The progress reported by handleComponentStatusProgress never exceeds
\* its expected count, also while cancelling, where the expected count is
\* the number of rows left after pruning.
ProgressWithinExpected == progress.completed <= progress.expect

\* The spec (section 2, 4.4): the ledger never regresses a terminal status.
\* The code only protects Failed: a Succeed row of a pod that becomes
\* unavailable again goes back to Processing.
TerminalNeverRegresses ==
    [][\A k \in DOMAIN details :
          isCompletedProgressStatus(details[k].status) =>
              k \in DOMAIN details' /\
              isCompletedProgressStatus(details'[k].status)]_vars

=============================================================================
