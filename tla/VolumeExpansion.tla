--------------------------- MODULE VolumeExpansion ---------------------------
(***************************************************************************)
(* The volume expansion OpsRequest (pkg/operations/volume_expansion.go):   *)
(* Action raises the storage request of the volume claim template in the   *)
(* Cluster, then ReconcileAction runs on every reconcile until it returns  *)
(* Succeed or Failed.  Each call lists the PVCs of the template, classifies *)
(* each tracked one through the progress ledger (handleVCTExpansionProgress)*)
(* patches the OpsRequest status if it changed, and decides the phase,     *)
(* with a 30 minute timeout from the operation's start.                   *)
(*                                                                         *)
(* One component and one volume claim template are modelled (the counts  *)
(* of several are summed).  Storage sizes are abstracted to 0 (no          *)
(* capacity yet), Old and New, with New the requested size.  The PVCs are  *)
(* changed by Kubernetes: the environment actions below.                   *)
(***************************************************************************)
EXTENDS ProgressDetail

CONSTANTS
    Instances,          \* the instances of the component, one PVC each
    TemplateInstances   \* the instances created from spec.instances templates

ASSUME InstancesAssumption == IsFiniteSet(Instances)
ASSUME TemplateInstancesAssumption == TemplateInstances \subseteq Instances

\* OpsRequest.status.phase.
OpsRunningPhase == "Running"
OpsSucceedPhase == "Succeed"
OpsFailedPhase  == "Failed"

\* Storage sizes: none (an unbound PVC has no capacity), the old size and
\* the requested one.
NoSize  == 0
OldSize == 1
NewSize == 2

\* The messages of a PVC row depend only on its key and status.
VEMsgs == {"volume"}

\* A PVC: its spec.resources.requests.storage (req), status.capacity
\* (cap), status.phase = Bound, and a Resizing or FileSystemResizePending
\* condition.
PVCState == [exists : BOOLEAN, req : {OldSize, NewSize},
             cap : {NoSize, OldSize, NewSize}, bound : BOOLEAN,
             resizing : BOOLEAN]

VARIABLES
    pvcs,        \* the PVC of each instance
    clusterReq,  \* the storage request of the template in the Cluster
    actionDone,  \* Action has updated the Cluster
    timedOut,    \* more than VolumeExpansionTimeOut since StartTimestamp
    opsPhase,    \* OpsRequest.status.phase
    details,     \* status.components[c].progressDetails, keyed by instance
    progress,    \* status.progress: (completed, expected)
    sent         \* the progress events recorded: <<key, status, msg>>

vars == <<pvcs, clusterReq, actionDone, timedOut, opsPhase, details,
          progress, sent>>

\* expectReplicas := compSpec.Replicas - getTemplateReplicas(compSpec.Instances)
expectCount == Cardinality(Instances) - Cardinality(TemplateInstances)

\* GenerateInstanceNamesFromTemplate(workloadName, "", expectCount, ...):
\* the names of the default template's instances.
instanceNameSet == Instances \ TemplateInstances

TypeOK ==
    /\ pvcs \in [Instances -> PVCState]
    /\ clusterReq \in {OldSize, NewSize}
    /\ actionDone \in BOOLEAN
    /\ timedOut \in BOOLEAN
    /\ opsPhase \in {OpsRunningPhase, OpsSucceedPhase, OpsFailedPhase}
    /\ DOMAIN details \subseteq Instances
    /\ details \in [DOMAIN details -> Row(VEMsgs)]
    /\ progress \in [completed : Nat, expect : Nat]
    /\ sent \subseteq Instances \X ProgressStatus \X VEMsgs

Init ==
    /\ pvcs = [i \in Instances |-> [exists |-> TRUE, req |-> OldSize,
                                    cap |-> OldSize, bound |-> TRUE,
                                    resizing |-> FALSE]]
    /\ clusterReq = OldSize
    /\ actionDone = FALSE
    /\ timedOut = FALSE
    /\ opsPhase = OpsRunningPhase
    /\ details = [k \in {} |-> NewDetail(Pending, "volume")]
    /\ progress = [completed |-> 0, expect |-> 0]
    /\ sent = {}

-----------------------------------------------------------------------------
(* The handler.                                                            *)

\* Action: setVolumeStorage on the Cluster's template, then cli.Update.
Action ==
    /\ ~actionDone
    /\ clusterReq' = NewSize
    /\ actionDone' = TRUE
    /\ UNCHANGED <<pvcs, timedOut, opsPhase, details, progress, sent>>

\* The success condition of handleVCTExpansionProgress: the capacity has
\* reached the request, the spec asks for it, and the PVC is Bound.
\* Mutant: the Bound check dropped.
ExpandedWithoutBound(v) == v.cap >= NewSize /\ v.req = NewSize

Expanded(v) == v.cap >= NewSize /\ v.req = NewSize /\ v.bound

\* pvcIsResizing
pvcIsResizing(v) == v.resizing

\* Mutant: the waiting PVC's detail is left without a status.
PVCDetailUnsetPending(v) ==
    IF Expanded(v) THEN NewDetail(Succeed, "volume")
    ELSE IF pvcIsResizing(v) THEN NewDetail(Processing, "volume")
    ELSE NewDetail("", "volume")

\* The detail set for a PVC whose row is not Failed.
PVCDetail(v) ==
    IF Expanded(v) THEN NewDetail(Succeed, "volume")
    ELSE IF pvcIsResizing(v) THEN NewDetail(Processing, "volume")
    ELSE NewDetail(Pending, "volume")

\* Mutant: a PVC waiting for its controller is counted completed.
CountedPendingToo(updates) ==
    {k \in DOMAIN updates : updates[k].status \in {Succeed, Pending}}

\* The PVCs counted completed in the loop besides the Failed rows.
CountedCompleted(updates) ==
    {k \in DOMAIN updates : updates[k].status = Succeed}

\* The phase ReconcileAction returns after the status patch.
Decide(completed, succeed) ==
    IF completed = expectCount
    THEN IF expectCount = succeed THEN OpsSucceedPhase ELSE OpsFailedPhase
    ELSE IF timedOut THEN OpsFailedPhase ELSE OpsRunningPhase

\* Whether the pass goes on after the status patch: no patch was needed
\* (the new status is DeepEqual to the old one) or it succeeded.
PatchSucceeded(needed, patchOK) == ~needed \/ patchOK

\* Mutant: the error of the status patch is only logged, and the phase
\* computed from the lost status is still returned.
ReconcileActionPatchErrorIgnored ==
    /\ actionDone /\ opsPhase = OpsRunningPhase
    /\ LET listed  == {i \in instanceNameSet : pvcs[i].exists}
           failed  == {i \in listed : i \in DOMAIN details
                                      /\ details[i].status = Failed}
           updates == [i \in listed \ failed |-> PVCDetail(pvcs[i])]
           succeed == Cardinality({k \in DOMAIN updates :
                                      updates[k].status = Succeed})
           completed == Cardinality(failed)
                        + Cardinality(CountedCompleted(updates))
           newDetails  == SetDetails(details, updates)
           newProgress == [completed |-> completed, expect |-> expectCount]
           needed == newDetails # details \/ newProgress # progress
       IN /\ sent' = sent \cup
                {<<k, updates[k].status, updates[k].msg>> :
                    k \in {x \in DOMAIN updates :
                              EventSent(details, x, updates[x])}}
          /\ \E patchOK \in BOOLEAN :
               IF PatchSucceeded(needed, patchOK)
               THEN /\ details' = newDetails
                    /\ progress' = newProgress
                    /\ opsPhase' = Decide(completed, succeed)
               ELSE /\ UNCHANGED <<details, progress>>
                    /\ opsPhase' = Decide(completed, succeed)
    /\ UNCHANGED <<pvcs, clusterReq, actionDone, timedOut>>

\* One ReconcileAction call.  The events are recorded by
\* setComponentStatusProgressDetail before the status is patched, so they
\* stay sent when the patch fails; the call then returns Running with the
\* error and the status computed in memory is lost.
ReconcileAction ==
    /\ actionDone /\ opsPhase = OpsRunningPhase
    /\ LET listed  == {i \in instanceNameSet : pvcs[i].exists}
           failed  == {i \in listed : i \in DOMAIN details
                                      /\ details[i].status = Failed}
           updates == [i \in listed \ failed |-> PVCDetail(pvcs[i])]
           succeed == Cardinality({k \in DOMAIN updates :
                                      updates[k].status = Succeed})
           completed == Cardinality(failed)
                        + Cardinality(CountedCompleted(updates))
           newDetails  == SetDetails(details, updates)
           newProgress == [completed |-> completed, expect |-> expectCount]
           needed == newDetails # details \/ newProgress # progress
       IN /\ sent' = sent \cup
                {<<k, updates[k].status, updates[k].msg>> :
                    k \in {x \in DOMAIN updates :
                              EventSent(details, x, updates[x])}}
          /\ \E patchOK \in BOOLEAN :
               IF PatchSucceeded(needed, patchOK)
               THEN /\ details' = newDetails
                    /\ progress' = newProgress
                    /\ opsPhase' = Decide(completed, succeed)
               ELSE UNCHANGED <<details, progress, opsPhase>>
    /\ UNCHANGED <<pvcs, clusterReq, actionDone, timedOut>>

-----------------------------------------------------------------------------
(* The environment: the InstanceSet controller, the CSI driver, the       *)
(* clock.                                                                 *)

\* The workload controller copies the template's request to the PVC.
UpdatePVCRequest(i) ==
    /\ pvcs[i].exists /\ pvcs[i].req # clusterReq
    /\ pvcs' = [pvcs EXCEPT ![i].req = clusterReq]
    /\ UNCHANGED <<clusterReq, actionDone, timedOut, opsPhase, details,
                   progress, sent>>

StartResize(i) ==
    /\ pvcs[i].exists /\ pvcs[i].bound /\ ~pvcs[i].resizing
    /\ pvcs[i].cap < pvcs[i].req
    /\ pvcs' = [pvcs EXCEPT ![i].resizing = TRUE]
    /\ UNCHANGED <<clusterReq, actionDone, timedOut, opsPhase, details,
                   progress, sent>>

FinishResize(i) ==
    /\ pvcs[i].exists /\ pvcs[i].resizing
    /\ pvcs' = [pvcs EXCEPT ![i].resizing = FALSE, ![i].cap = pvcs[i].req]
    /\ UNCHANGED <<clusterReq, actionDone, timedOut, opsPhase, details,
                   progress, sent>>

\* A PVC deleted for recovery, and re-created unbound from the template.
DeletePVC(i) ==
    /\ pvcs[i].exists
    /\ pvcs' = [pvcs EXCEPT ![i].exists = FALSE]
    /\ UNCHANGED <<clusterReq, actionDone, timedOut, opsPhase, details,
                   progress, sent>>

CreatePVC(i) ==
    /\ ~pvcs[i].exists
    /\ pvcs' = [pvcs EXCEPT ![i] = [exists |-> TRUE, req |-> clusterReq,
                                    cap |-> NoSize, bound |-> FALSE,
                                    resizing |-> FALSE]]
    /\ UNCHANGED <<clusterReq, actionDone, timedOut, opsPhase, details,
                   progress, sent>>

BindPVC(i) ==
    /\ pvcs[i].exists /\ ~pvcs[i].bound
    /\ pvcs' = [pvcs EXCEPT ![i].bound = TRUE, ![i].cap = pvcs[i].req]
    /\ UNCHANGED <<clusterReq, actionDone, timedOut, opsPhase, details,
                   progress, sent>>

\* The bound volume is lost (phase Lost): the capacity stays in the status.
LosePV(i) ==
    /\ pvcs[i].exists /\ pvcs[i].bound
    /\ pvcs' = [pvcs EXCEPT ![i].bound = FALSE, ![i].resizing = FALSE]
    /\ UNCHANGED <<clusterReq, actionDone, timedOut, opsPhase, details,
                   progress, sent>>

\* VolumeExpansionTimeOut elapses.
TimeOut ==
    /\ actionDone /\ ~timedOut
    /\ timedOut' = TRUE
    /\ UNCHANGED <<pvcs, clusterReq, actionDone, opsPhase, details,
                   progress, sent>>

Environment ==
    \/ \E i \in Instances :
         \/ UpdatePVCRequest(i) \/ StartResize(i) \/ FinishResize(i)
         \/ DeletePVC(i) \/ CreatePVC(i) \/ BindPVC(i) \/ LosePV(i)
    \/ TimeOut

Next == Action \/ ReconcileAction \/ Environment

Spec == Init /\ [][Next]_vars

-----------------------------------------------------------------------------
(* Properties.                                                             *)

\* When ReconcileAction declares the operation Succeed, every PVC of the
\* component has its new size, asks for it and is Bound: the success
\* condition of handleVCTExpansionProgress held for all of them in the pass
\* that decided it.
SucceedOnlyWhenExpanded ==
    [][opsPhase # OpsSucceedPhase /\ opsPhase' = OpsSucceedPhase =>
         \A i \in Instances :
             /\ pvcs[i].exists /\ pvcs[i].bound
             /\ pvcs[i].cap >= NewSize /\ pvcs[i].req = NewSize]_vars

\* No PVC row is ever set Failed, so the operation fails only through the
\* 30 minute timeout of ReconcileAction, never by its completion count.
FailedOnlyAfterTimeout == opsPhase = OpsFailedPhase => timedOut

\* A Succeed phase is only returned with the status it was computed from
\* persisted: the stored ledger then has a Succeed row for every tracked
\* PVC, even when the status patch of some pass failed.
SucceededLedgerComplete ==
    opsPhase = OpsSucceedPhase =>
        \A i \in instanceNameSet :
            i \in DOMAIN details /\ details[i].status = Succeed

\* Every row of the stored ledger that is not Pending was announced by an
\* event with its status, although the events of a pass whose status patch
\* failed are recorded without their rows.
RowsAnnounced ==
    \A k \in DOMAIN details :
        details[k].status # Pending =>
            <<k, details[k].status, details[k].msg>> \in sent

=============================================================================
