------------------------ MODULE VolumeExpansionProofs ------------------------
(***************************************************************************)
(* Proofs about VolumeExpansion for every finite set of instances: the     *)
(* type invariant, that the operation fails only through the timeout, that *)
(* a Succeed phase comes with a persisted all-Succeed ledger, that every   *)
(* stored row was announced, and, with every instance from the default     *)
(* template, that Succeed is declared only with every PVC expanded.        *)
(***************************************************************************)
EXTENDS VolumeExpansion, ProgressDetailTheorems, FiniteSetTheorems, TLAPS

\* The values of the LET of ReconcileAction, in the state the pass reads.
Listed == {i \in instanceNameSet : pvcs[i].exists}
FailedSet == {i \in Listed : i \in DOMAIN details
                             /\ details[i].status = Failed}
Updates == [i \in Listed \ FailedSet |-> PVCDetail(pvcs[i])]
SucceedSet == {k \in DOMAIN Updates : Updates[k].status = Succeed}
Completed == Cardinality(FailedSet) + Cardinality(CountedCompleted(Updates))
NewDetails == SetDetails(details, Updates)
Announced == {<<k, Updates[k].status, Updates[k].msg>> :
                 k \in {x \in DOMAIN Updates : EventSent(details, x, Updates[x])}}

\* A ReconcileAction step either persists the status it computed and
\* returns the phase Decide gives, or loses it; the events are sent either
\* way.
LEMMA ReconcileUnfolded ==
    ASSUME ReconcileAction
    PROVE  /\ actionDone /\ opsPhase = OpsRunningPhase
           /\ sent' = sent \cup Announced
           /\ \/ /\ details' = NewDetails
                 /\ progress' = [completed |-> Completed,
                                 expect |-> expectCount]
                 /\ opsPhase' = Decide(Completed, Cardinality(SucceedSet))
              \/ UNCHANGED <<details, progress, opsPhase>>
           /\ UNCHANGED <<pvcs, clusterReq, actionDone, timedOut>>
<1>1. PICK patchOK \in BOOLEAN :
        LET listed  == {i \in instanceNameSet : pvcs[i].exists}
            failed  == {i \in listed : i \in DOMAIN details
                                       /\ details[i].status = Failed}
            updates == [i \in listed \ failed |-> PVCDetail(pvcs[i])]
            succeed == Cardinality({k \in DOMAIN updates :
                                       updates[k].status = Succeed})
            completed == Cardinality(failed)
                         + Cardinality(CountedCompleted(updates))
            newDetails  == SetDetails(details, updates)
            newProgress == [completed |-> completed, expect |-> expectCount]
            needed == newDetails # details \/ newProgress # progress
        IN  IF PatchSucceeded(needed, patchOK)
            THEN /\ details' = newDetails
                 /\ progress' = newProgress
                 /\ opsPhase' = Decide(completed, succeed)
            ELSE UNCHANGED <<details, progress, opsPhase>>
    BY DEF ReconcileAction
<1> QED
    BY <1>1 DEF ReconcileAction, Listed, FailedSet, Updates, SucceedSet,
                Completed, NewDetails, Announced

\* The detail set for a PVC is a fresh row that is never Failed.
LEMMA PVCDetailType ==
    ASSUME NEW v
    PROVE  /\ PVCDetail(v) \in Row(VEMsgs)
           /\ ~PVCDetail(v).started /\ ~PVCDetail(v).ended
           /\ PVCDetail(v).status \in {Succeed, Processing, Pending}
           /\ PVCDetail(v).status = Succeed <=> Expanded(v)
BY DEF PVCDetail, NewDetail, Row, VEMsgs, ProgressStatus, Succeed,
       Processing, Pending, Failed

LEMMA UpdatesType ==
    /\ DOMAIN Updates = Listed \ FailedSet
    /\ DOMAIN Updates \subseteq instanceNameSet
    /\ \A k \in DOMAIN Updates :
          /\ Updates[k] = PVCDetail(pvcs[k])
          /\ Updates[k] \in Row(VEMsgs)
          /\ ~Updates[k].started /\ ~Updates[k].ended
          /\ Updates[k].status \in {Succeed, Processing, Pending}
BY PVCDetailType DEF Updates, Listed

\* The sets a pass counts are finite, and the expected count is the
\* number of instances from the default template.
LEMMA CountsType ==
    /\ IsFiniteSet(instanceNameSet)
    /\ expectCount = Cardinality(instanceNameSet)
    /\ IsFiniteSet(FailedSet) /\ Cardinality(FailedSet) \in Nat
    /\ IsFiniteSet(SucceedSet) /\ Cardinality(SucceedSet) \in Nat
    /\ IsFiniteSet(CountedCompleted(Updates))
    /\ Cardinality(CountedCompleted(Updates)) \in Nat
<1>1. IsFiniteSet(instanceNameSet)
      /\ Cardinality(instanceNameSet)
            = Cardinality(Instances) - Cardinality(TemplateInstances)
    <2>1. Instances \cap TemplateInstances = TemplateInstances
        BY TemplateInstancesAssumption
    <2> QED
        BY <2>1, InstancesAssumption, FS_Difference DEF instanceNameSet
<1>2. /\ FailedSet \subseteq instanceNameSet
      /\ SucceedSet \subseteq instanceNameSet
      /\ CountedCompleted(Updates) \subseteq instanceNameSet
    BY UpdatesType DEF FailedSet, Listed, SucceedSet, CountedCompleted
<1> QED
    BY <1>1, <1>2, FS_Subset, FS_CardinalityType DEF expectCount

-----------------------------------------------------------------------------
(* Type correctness.                                                      *)

\* Kubernetes and the clock change the PVCs or the timeout flag only, and
\* the timeout, once passed, stays passed.
LEMMA EnvironmentFacts ==
    ASSUME TypeOK, Environment
    PROVE  /\ pvcs' \in [Instances -> PVCState]
           /\ timedOut' \in BOOLEAN /\ (timedOut => timedOut')
           /\ UNCHANGED <<clusterReq, actionDone, opsPhase, details,
                          progress, sent>>
<1>1. CASE TimeOut
    BY <1>1 DEF TimeOut, TypeOK
<1>2. ASSUME NEW i \in Instances,
             \/ UpdatePVCRequest(i) \/ StartResize(i) \/ FinishResize(i)
             \/ DeletePVC(i) \/ CreatePVC(i) \/ BindPVC(i) \/ LosePV(i)
      PROVE  /\ pvcs' \in [Instances -> PVCState]
             /\ timedOut' \in BOOLEAN /\ (timedOut => timedOut')
             /\ UNCHANGED <<clusterReq, actionDone, opsPhase, details,
                            progress, sent>>
    <2>1. pvcs[i] \in PVCState
        BY DEF TypeOK
    <2>2. CASE UpdatePVCRequest(i)
        BY <2>1, <2>2 DEF UpdatePVCRequest, TypeOK, PVCState
    <2>3. CASE StartResize(i)
        BY <2>1, <2>3 DEF StartResize, TypeOK, PVCState
    <2>4. CASE FinishResize(i)
        BY <2>1, <2>4 DEF FinishResize, TypeOK, PVCState
    <2>5. CASE DeletePVC(i)
        BY <2>1, <2>5 DEF DeletePVC, TypeOK, PVCState
    <2>6. CASE CreatePVC(i)
        BY <2>1, <2>6 DEF CreatePVC, TypeOK, PVCState
    <2>7. CASE BindPVC(i)
        BY <2>1, <2>7 DEF BindPVC, TypeOK, PVCState
    <2>8. CASE LosePV(i)
        BY <2>1, <2>8 DEF LosePV, TypeOK, PVCState
    <2> QED
        BY <1>2, <2>2, <2>3, <2>4, <2>5, <2>6, <2>7, <2>8
<1> QED
    BY <1>1, <1>2 DEF Environment

\* The events a pass records are <<key, status, message>> triples.
LEMMA AnnouncedType ==
    Announced \subseteq Instances \X ProgressStatus \X VEMsgs
BY UpdatesType DEF Announced, Row, instanceNameSet

\* The phase a pass decides.
LEMMA DecideType ==
    ASSUME NEW c, NEW n
    PROVE  Decide(c, n) \in {OpsRunningPhase, OpsSucceedPhase, OpsFailedPhase}
BY DEF Decide

LEMMA ReconcileTypeOK ==
    ASSUME TypeOK, ReconcileAction PROVE TypeOK'
<1>1. \A x \in DOMAIN details : details[x] \in Row(VEMsgs)
    BY DEF TypeOK
<1>2. \A x \in DOMAIN Updates : Updates[x] \in Row(VEMsgs)
    BY UpdatesType
<1>3. /\ DOMAIN NewDetails = DOMAIN details \cup DOMAIN Updates
      /\ NewDetails \in [DOMAIN NewDetails -> Row(VEMsgs)]
    BY <1>1, <1>2, SetDetailsType DEF NewDetails
<1>4. DOMAIN NewDetails \subseteq Instances
    BY <1>3, UpdatesType DEF TypeOK, instanceNameSet
<1>5. Completed \in Nat /\ expectCount \in Nat
    BY CountsType, FS_CardinalityType DEF Completed
<1> QED
    BY <1>3, <1>4, <1>5, ReconcileUnfolded, AnnouncedType, DecideType
       DEF TypeOK

\* The initial state is well typed.
LEMMA InitTypeOK == Init => TypeOK
<1> SUFFICES ASSUME Init PROVE TypeOK
    OBVIOUS
<1>1. DOMAIN details = {} /\ details \in [{} -> Row(VEMsgs)]
    BY DEF Init
<1>2. pvcs \in [Instances -> PVCState]
    BY DEF Init, PVCState, OldSize, NoSize, NewSize
<1>3. /\ clusterReq \in {OldSize, NewSize} /\ actionDone \in BOOLEAN
      /\ timedOut \in BOOLEAN
      /\ opsPhase \in {OpsRunningPhase, OpsSucceedPhase, OpsFailedPhase}
      /\ progress \in [completed : Nat, expect : Nat] /\ sent = {}
    BY DEF Init
<1> QED
    BY <1>1, <1>2, <1>3 DEF TypeOK

\* Every step keeps the model well typed.
LEMMA NextTypeOK == TypeOK /\ [Next]_vars => TypeOK'
<1> SUFFICES ASSUME TypeOK, [Next]_vars PROVE TypeOK'
    OBVIOUS
<1>1. CASE Action
    BY <1>1 DEF Action, TypeOK, NewSize, OldSize
<1>2. CASE ReconcileAction
    BY <1>2, ReconcileTypeOK
<1>3. CASE Environment
    BY <1>3, EnvironmentFacts DEF TypeOK
<1>4. CASE UNCHANGED vars
    BY <1>4 DEF vars, TypeOK
<1> QED
    BY <1>1, <1>2, <1>3, <1>4 DEF Next

\* The model is well typed for every finite set of instances and every
\* set of template instances among them.
THEOREM TypeCorrect == Spec => []TypeOK
<1>1. Init => TypeOK
    BY InitTypeOK
<1>2. TypeOK /\ [Next]_vars => TypeOK'
    BY NextTypeOK
<1> QED
    BY <1>1, <1>2, PTL DEF Spec

-----------------------------------------------------------------------------
(* The phase a pass decides, and the rows it stores.                      *)

\* A pass that decides Succeed has seen a Succeed detail for every PVC of
\* the default template: its Succeed count equals expectCount, which is
\* the number of those PVCs, and it counts only among them.
LEMMA DecideSucceed ==
    ASSUME NEW c, Decide(c, Cardinality(SucceedSet)) = OpsSucceedPhase
    PROVE  SucceedSet = instanceNameSet
<1>1. expectCount = Cardinality(SucceedSet)
    BY DEF Decide, OpsSucceedPhase, OpsFailedPhase, OpsRunningPhase
<1>2. SucceedSet \subseteq instanceNameSet
    BY UpdatesType DEF SucceedSet
<1> QED
    BY <1>1, <1>2, CountsType, FS_Subset

\* No PVC row is Failed.
NoFailedRow == \A k \in DOMAIN details : details[k].status # Failed

\* With no Failed row the pass counts only the Succeed details.
LEMMA CompletedIsSucceed ==
    ASSUME NoFailedRow
    PROVE  Completed = Cardinality(SucceedSet)
<1>1. FailedSet = {}
    BY DEF NoFailedRow, FailedSet
<1>2. CountedCompleted(Updates) = SucceedSet
    BY DEF CountedCompleted, SucceedSet
<1> QED
    BY <1>1, <1>2, FS_EmptySet, CountsType DEF Completed

\* The row a pass stores for a PVC it classified, when no row is Failed:
\* it is not Failed, it is Succeed when the detail is, and unless the
\* early return kept the old row, the pass announced it.
LEMMA MergedRow ==
    ASSUME TypeOK, NoFailedRow, NEW k \in DOMAIN Updates
    PROVE  /\ k \in DOMAIN NewDetails
           /\ NewDetails[k].status # Failed
           /\ Updates[k].status = Succeed => NewDetails[k].status = Succeed
           /\ NewDetails[k].status # Pending =>
                \/ k \in DOMAIN details /\ NewDetails[k] = details[k]
                \/ <<k, NewDetails[k].status, NewDetails[k].msg>> \in Announced
<1>1. k \in DOMAIN NewDetails
      /\ NewDetails[k] = MergeRow(details, k, Updates[k])
    BY DEF NewDetails, SetDetails
<1>2. k \in DOMAIN details =>
        details[k] \in Row(VEMsgs) /\ details[k].status # Failed
    BY DEF TypeOK, NoFailedRow
<1>3. /\ Updates[k] \in Row(VEMsgs)
      /\ ~Updates[k].started /\ ~Updates[k].ended
      /\ Updates[k].status \in {Succeed, Processing, Pending}
    BY UpdatesType
<1>4. NewDetails[k] \in Row(VEMsgs)
    BY <1>1, <1>2, <1>3, MergeRowType
<1>5. CASE k \in DOMAIN details /\ Ignored(details[k], Updates[k])
           /\ MergeRow(details, k, Updates[k]) = details[k]
    <2>1. details[k].status = Updates[k].status
        BY <1>2, <1>5 DEF Ignored
    <2> QED
        BY <1>1, <1>2, <1>5, <2>1
<1>6. CASE /\ k \in DOMAIN details => ~Ignored(details[k], Updates[k])
           /\ MergeRow(details, k, Updates[k]).status = Updates[k].status
    <2>1. NewDetails[k].status = Updates[k].status
        BY <1>1, <1>6
    <2>2. NewDetails[k].msg = Updates[k].msg
        BY <1>3, <1>4 DEF Row, VEMsgs
    <2>3. NewDetails[k].status # Pending => EventSent(details, k, Updates[k])
        BY <1>6, <2>1 DEF EventSent
    <2>4. NewDetails[k].status # Pending =>
            <<k, NewDetails[k].status, NewDetails[k].msg>> \in Announced
        BY <2>1, <2>2, <2>3 DEF Announced
    <2> QED
        BY <1>1, <1>3, <2>1, <2>4 DEF Succeed, Processing, Pending, Failed
<1>7. \/ /\ k \in DOMAIN details /\ Ignored(details[k], Updates[k])
         /\ MergeRow(details, k, Updates[k]) = details[k]
      \/ /\ k \in DOMAIN details => ~Ignored(details[k], Updates[k])
         /\ MergeRow(details, k, Updates[k]).status = Updates[k].status
    <2>1. k \in DOMAIN details => details[k] \in Row(VEMsgs)
        BY <1>2
    <2>2. ASSUME NEW d, NEW j, NEW nd \in Row(VEMsgs), ~nd.started, ~nd.ended,
                 j \in DOMAIN d => d[j] \in Row(VEMsgs)
          PROVE  \/ /\ j \in DOMAIN d /\ Ignored(d[j], nd)
                    /\ MergeRow(d, j, nd) = d[j]
                 \/ /\ j \in DOMAIN d => ~Ignored(d[j], nd)
                    /\ MergeRow(d, j, nd).status = nd.status
                    /\ MergeRow(d, j, nd).started =
                         ((j \in DOMAIN d /\ d[j].started)
                          \/ nd.status = Processing)
                    /\ MergeRow(d, j, nd).ended =
                         ((j \in DOMAIN d /\ d[j].ended)
                          \/ isCompletedProgressStatus(nd.status))
        BY <2>2, MergeRowShape
    <2> QED
        BY <1>3, <2>1, <2>2
<1> QED
    BY <1>5, <1>6, <1>7

-----------------------------------------------------------------------------
(* The safety invariants.                                                 *)

\* The inductive invariant: the three properties of the run hold together
\* with NoFailedRow, which FailedOnlyAfterTimeout needs (a pass counts its
\* Failed rows as completed but not as Succeed) and SucceededLedgerComplete
\* needs (the early return keeps a Failed row against a Succeed detail).
IInv ==
    /\ TypeOK
    /\ NoFailedRow
    /\ FailedOnlyAfterTimeout
    /\ SucceededLedgerComplete
    /\ RowsAnnounced

LEMMA InitIInv == Init => IInv
<1> SUFFICES ASSUME Init PROVE IInv
    OBVIOUS
<1>1. TypeOK
    BY InitTypeOK
<1>2. DOMAIN details = {} /\ opsPhase = OpsRunningPhase
    BY DEF Init
<1> QED
    BY <1>1, <1>2 DEF IInv, NoFailedRow, FailedOnlyAfterTimeout,
       SucceededLedgerComplete, RowsAnnounced, OpsFailedPhase,
       OpsSucceedPhase, OpsRunningPhase

\* A pass keeps the invariant whether its status patch succeeds or fails.
LEMMA ReconcileIInv ==
    ASSUME IInv, ReconcileAction PROVE IInv'
<1>1. TypeOK /\ NoFailedRow /\ RowsAnnounced
    BY DEF IInv
<1>2. TypeOK'
    BY <1>1, ReconcileTypeOK
<1>3. sent \subseteq sent' /\ Announced \subseteq sent' /\ timedOut' = timedOut
    BY ReconcileUnfolded
<1>4. Decide(Completed, Cardinality(SucceedSet)) = OpsFailedPhase => timedOut
    BY <1>1, CompletedIsSucceed, CountsType
    DEF Decide, OpsFailedPhase, OpsSucceedPhase, OpsRunningPhase
<1>5. CASE /\ details' = NewDetails
           /\ opsPhase' = Decide(Completed, Cardinality(SucceedSet))
    <2>1. DOMAIN details' = DOMAIN details \cup DOMAIN Updates
        BY <1>5 DEF NewDetails, SetDetails
    <2>2. ASSUME NEW k \in DOMAIN details \ DOMAIN Updates
          PROVE  details'[k] = details[k]
        BY <1>5 DEF NewDetails, SetDetails
    <2>3. NoFailedRow'
        BY <1>1, <1>5, <2>1, <2>2, MergedRow DEF NoFailedRow
    <2>4. FailedOnlyAfterTimeout'
        BY <1>3, <1>4, <1>5 DEF FailedOnlyAfterTimeout
    <2>5. SucceededLedgerComplete'
        <3> SUFFICES ASSUME opsPhase' = OpsSucceedPhase,
                            NEW i \in instanceNameSet
                     PROVE  i \in DOMAIN details' /\ details'[i].status = Succeed
            BY DEF SucceededLedgerComplete
        <3>1. i \in DOMAIN Updates /\ Updates[i].status = Succeed
            BY <1>5, DecideSucceed DEF SucceedSet
        <3> QED
            BY <1>1, <1>5, <3>1, MergedRow
    <2>6. RowsAnnounced'
        <3> SUFFICES ASSUME NEW k \in DOMAIN details',
                            details'[k].status # Pending
                     PROVE  <<k, details'[k].status, details'[k].msg>> \in sent'
            BY DEF RowsAnnounced
        <3>1. CASE k \in DOMAIN Updates
            BY <1>1, <1>3, <1>5, <3>1, MergedRow DEF RowsAnnounced
        <3>2. CASE k \notin DOMAIN Updates
            BY <1>1, <1>3, <2>1, <2>2, <3>2 DEF RowsAnnounced
        <3> QED
            BY <3>1, <3>2
    <2> QED
        BY <1>2, <2>3, <2>4, <2>5, <2>6 DEF IInv
<1>6. CASE UNCHANGED <<details, progress, opsPhase>>
    BY <1>2, <1>3, <1>6 DEF IInv, NoFailedRow, FailedOnlyAfterTimeout,
                            SucceededLedgerComplete, RowsAnnounced
<1> QED
    BY <1>5, <1>6, ReconcileUnfolded

\* Kubernetes, the clock and Action keep the invariant: they leave the
\* ledger, the phase and the events alone, and the timeout stays passed.
LEMMA OthersIInv ==
    ASSUME IInv, Action \/ Environment \/ UNCHANGED vars PROVE IInv'
<1>1. TypeOK'
    BY NextTypeOK DEF IInv, Next
<1>2. /\ UNCHANGED <<opsPhase, details, sent>>
      /\ timedOut => timedOut'
    BY EnvironmentFacts DEF IInv, Action, vars
<1> QED
    BY <1>1, <1>2 DEF IInv, NoFailedRow, FailedOnlyAfterTimeout,
                      SucceededLedgerComplete, RowsAnnounced

\* The inductive invariant holds in every reachable state, for every
\* finite set of instances and of template instances.
THEOREM InductiveInvariant == Spec => []IInv
<1>1. Init => IInv
    BY InitIInv
<1>2. IInv /\ [Next]_vars => IInv'
    BY ReconcileIInv, OthersIInv DEF Next
<1> QED
    BY <1>1, <1>2, PTL DEF Spec

\* No PVC row is ever Failed, so ReconcileAction returns Failed only once
\* the 30 minute timeout has passed, never from its completion count.
THEOREM FailedOnlyAfterTimeoutProof == Spec => []FailedOnlyAfterTimeout
<1>1. IInv => FailedOnlyAfterTimeout
    BY DEF IInv
<1> QED
    BY <1>1, InductiveInvariant, PTL

\* ReconcileAction returns Succeed only with a persisted ledger holding a
\* Succeed row for every PVC of the default template, even when the status
\* patch of an earlier pass failed.
THEOREM SucceededLedgerCompleteProof == Spec => []SucceededLedgerComplete
<1>1. IInv => SucceededLedgerComplete
    BY DEF IInv
<1> QED
    BY <1>1, InductiveInvariant, PTL

\* Every non-Pending row of the stored ledger was announced by an event of
\* setComponentStatusProgressDetail with its status and message.
THEOREM RowsAnnouncedProof == Spec => []RowsAnnounced
<1>1. IInv => RowsAnnounced
    BY DEF IInv
<1> QED
    BY <1>1, InductiveInvariant, PTL

-----------------------------------------------------------------------------
(* The action property.                                                   *)

\* A step of the model that moves the phase to Succeed is a ReconcileAction
\* pass whose status patch went through, and that pass saw every PVC of
\* the default template listed and expanded.
LEMMA SucceedStep ==
    ASSUME [Next]_vars, opsPhase # OpsSucceedPhase, opsPhase' = OpsSucceedPhase
    PROVE  \A i \in instanceNameSet :
               /\ pvcs[i].exists /\ pvcs[i].bound
               /\ pvcs[i].cap >= NewSize /\ pvcs[i].req = NewSize
<1>1. ReconcileAction
    BY EnvironmentFacts DEF Next, vars, Action, Environment, TimeOut,
       UpdatePVCRequest, StartResize, FinishResize, DeletePVC, CreatePVC,
       BindPVC, LosePV
<1>2. Decide(Completed, Cardinality(SucceedSet)) = OpsSucceedPhase
    BY <1>1, ReconcileUnfolded
<1>3. SucceedSet = instanceNameSet
    BY <1>2, DecideSucceed
<1> SUFFICES ASSUME NEW i \in instanceNameSet
             PROVE  /\ pvcs[i].exists /\ pvcs[i].bound
                    /\ pvcs[i].cap >= NewSize /\ pvcs[i].req = NewSize
    OBVIOUS
<1>4. i \in Listed /\ Updates[i] = PVCDetail(pvcs[i])
      /\ PVCDetail(pvcs[i]).status = Succeed
    BY <1>3, UpdatesType DEF SucceedSet
<1>5. Expanded(pvcs[i])
    BY <1>4, PVCDetailType
<1> QED
    BY <1>4, <1>5 DEF Listed, Expanded

\* With every instance from the default template, as in the run, the
\* operation is declared Succeed only when every PVC is listed, Bound, and
\* has reached and asks for the new size.  (With template instances the
\* property fails: handleVCTExpansionProgress does not track their PVCs.)
THEOREM SucceedOnlyWhenExpandedProof ==
    TemplateInstances = {} => (Spec => SucceedOnlyWhenExpanded)
<1> SUFFICES ASSUME TemplateInstances = {} PROVE Spec => SucceedOnlyWhenExpanded
    OBVIOUS
<1>1. instanceNameSet = Instances
    BY DEF instanceNameSet
<1>2. [Next]_vars =>
        (opsPhase # OpsSucceedPhase /\ opsPhase' = OpsSucceedPhase =>
            \A i \in Instances :
                /\ pvcs[i].exists /\ pvcs[i].bound
                /\ pvcs[i].cap >= NewSize /\ pvcs[i].req = NewSize)
    BY <1>1, SucceedStep
<1> QED
    BY <1>2, PTL DEF Spec, SucceedOnlyWhenExpanded

=============================================================================
