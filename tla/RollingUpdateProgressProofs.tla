---------------------- MODULE RollingUpdateProgressProofs ----------------------
(***************************************************************************)
(* Proofs about RollingUpdateProgress for every set of pods: the type      *)
(* invariant, and that handleComponentStatusProgress never reports more    *)
(* completed pods than it expects, also while the operation is cancelled.  *)
(***************************************************************************)
EXTENDS RollingUpdateProgress, ProgressDetailTheorems, FiniteSetTheorems,
        TLAPS

\* The detail a pass sets for a pod is a row.
LEMMA HandlerDetailTypes ==
    ASSUME NEW s \in PodState
    PROVE  /\ RollingDetail(s) \in Row(Msgs)
           /\ CancelDetail(s) \in Row(Msgs)
<1>1. /\ FailedOrProcessingDetail(s, "op") \in Row(Msgs)
      /\ FailedOrProcessingDetail(s, "rollback") \in Row(Msgs)
  BY NewDetailType DEF FailedOrProcessingDetail, Msgs, ProgressStatus
<1>2. /\ NewDetail(Succeed, "op") \in Row(Msgs)
      /\ NewDetail(Pending, "none") \in Row(Msgs)
      /\ NewDetail(Succeed, "rollback") \in Row(Msgs)
  BY NewDetailType DEF Msgs, ProgressStatus
<1>3. QED
  BY <1>1, <1>2 DEF RollingDetail, CancelDetail

\* The pass counts a subset of the pods it sets details for.
LEMMA CompletedBound ==
    ASSUME NEW u, IsFiniteSet(DOMAIN u)
    PROVE  /\ Completed(u) \in Nat
           /\ Completed(u) <= Cardinality(DOMAIN u)
BY FS_Subset, FS_CardinalityType DEF Completed

\* Every subset of the pods is finite and has a cardinality.
LEMMA PodSubsets ==
    ASSUME NEW S \in SUBSET Pods
    PROVE  /\ IsFiniteSet(S)
           /\ Cardinality(S) \in Nat
           /\ Cardinality(S) <= Cardinality(Pods)
BY PodsAssumption, FS_Subset, FS_CardinalityType

LEMMA InitTypeOK == Init => TypeOK
<1>1. [k \in {} |-> NewDetail(Pending, "none")] \in [{} -> Row(Msgs)]
  OBVIOUS
<1>2. QED
  BY <1>1 DEF Init, TypeOK, NoProgress, PodState, NoEvent, Event

\* Each environment step keeps the pods typed and leaves the ledger alone.
LEMMA EnvironmentTypeOK ==
    ASSUME TypeOK, Environment
    PROVE  /\ pods' \in [Pods -> PodState]
           /\ phase' \in {OpsRunningPhase, OpsCancellingPhase}
           /\ UNCHANGED <<details, lastEvent, progress>>
<1>1. CASE CancelOps
  BY <1>1 DEF CancelOps, TypeOK
<1>2. CASE \E p \in Pods : \E a \in BOOLEAN : CreatePod(p, a)
  <2>1. PICK p \in Pods, a \in BOOLEAN : CreatePod(p, a)
    BY <1>2
  <2>2. Now \in BeforeStart..AfterCancel
    BY DEF Now, BeforeStart, AfterStart, AfterCancel
  <2>3. [Absent EXCEPT !.exists = TRUE, !.born = Now, !.applied = a]
          \in PodState
    BY <2>2 DEF Absent, PodState
  <2>4. QED
    BY <2>1, <2>3 DEF CreatePod, TypeOK
<1>3. ASSUME NEW p \in Pods
      PROVE  /\ DeletePod(p) \/ RemovePod(p) \/ PodReady(p)
                \/ PodUnavailable(p) \/ PodFailedAndTimedOut(p)
                \/ ApplyInPlace(p)
             => pods' \in [Pods -> PodState]
                /\ UNCHANGED <<phase, details, lastEvent, progress>>
  <2>1. pods[p] \in PodState
    BY DEF TypeOK
  <2>2. CASE DeletePod(p)
    BY <2>1, <2>2 DEF DeletePod, PodState, TypeOK
  <2>3. CASE RemovePod(p)
    <3>1. Absent \in PodState
      BY DEF Absent, PodState, BeforeStart, AfterCancel
    <3>2. QED
      BY <2>3, <3>1 DEF RemovePod, TypeOK
  <2>4. CASE PodReady(p)
    BY <2>1, <2>4 DEF PodReady, PodState, TypeOK
  <2>5. CASE PodUnavailable(p)
    BY <2>1, <2>5 DEF PodUnavailable, PodState, TypeOK
  <2>6. CASE PodFailedAndTimedOut(p)
    BY <2>1, <2>6 DEF PodFailedAndTimedOut, PodState, TypeOK
  <2>7. CASE ApplyInPlace(p)
    BY <2>1, <2>7 DEF ApplyInPlace, PodState, TypeOK
  <2>8. QED
    BY <2>2, <2>3, <2>4, <2>5, <2>6, <2>7
<1>4. QED
  BY <1>1, <1>2, <1>3 DEF Environment, TypeOK

LEMMA ListedPodsType == ListedPods \subseteq Pods
BY UpdatedPodSetAssumption DEF ListedPods

LEMMA NextTypeOK == TypeOK /\ [Next]_vars => TypeOK'
<1> SUFFICES ASSUME TypeOK, [Next]_vars PROVE TypeOK'
  OBVIOUS
<1>1. CASE HandleRollingUpdate
  <2> DEFINE u == [p \in ListedPods |-> RollingDetail(pods[p])]
  <2>1. /\ details' = SetDetails(details, u)
        /\ lastEvent' = SendEvents(lastEvent, details, u)
        /\ progress' = [expect |-> ExpectReplicas, completed |-> Completed(u)]
        /\ UNCHANGED <<pods, phase>>
    BY <1>1 DEF HandleRollingUpdate
  <2>2. \A x \in DOMAIN u : u[x] \in Row(Msgs)
    BY ListedPodsType, HandlerDetailTypes DEF TypeOK
  <2>3. \A x \in DOMAIN details : details[x] \in Row(Msgs)
    BY DEF TypeOK
  <2>4. /\ DOMAIN SetDetails(details, u) = DOMAIN details \cup DOMAIN u
        /\ SetDetails(details, u) \in [DOMAIN SetDetails(details, u) -> Row(Msgs)]
    BY <2>2, <2>3, SetDetailsType
  <2>5. lastEvent' \in [Pods -> Event(Msgs) \cup {NoEvent}]
    BY <2>1, <2>2, SendEventsType DEF TypeOK
  <2>6. ExpectReplicas \in Nat
    BY PodSubsets, UpdatedPodSetAssumption, ReplicasAssumption
    DEF ExpectReplicas
  <2>7. Completed(u) \in Nat
    BY ListedPodsType, PodSubsets, CompletedBound
  <2>8. QED
    BY <2>1, <2>4, <2>5, <2>6, <2>7, ListedPodsType DEF TypeOK
<1>2. CASE HandleCancelProgress
  <2> DEFINE base    == PrunePending(details)
             visited == {p \in ListedPods : ~CancelSkipped(pods[p])}
             u       == [p \in visited |-> CancelDetail(pods[p])]
  <2>1. /\ details' = SetDetails(base, u)
        /\ lastEvent' = SendEvents(lastEvent, base, u)
        /\ progress' = [expect |-> Cardinality(DOMAIN details'),
                        completed |-> Completed(u)]
        /\ UNCHANGED <<pods, phase>>
    BY <1>2 DEF HandleCancelProgress
  <2>2. /\ DOMAIN base \subseteq DOMAIN details
        /\ \A x \in DOMAIN base : base[x] \in Row(Msgs)
    BY DEF PrunePending, TypeOK
  <2>3. \A x \in DOMAIN u : u[x] \in Row(Msgs)
    BY ListedPodsType, HandlerDetailTypes DEF TypeOK
  <2>4. /\ DOMAIN SetDetails(base, u) = DOMAIN base \cup DOMAIN u
        /\ SetDetails(base, u) \in [DOMAIN SetDetails(base, u) -> Row(Msgs)]
    BY <2>2, <2>3, SetDetailsType
  <2>5. lastEvent' \in [Pods -> Event(Msgs) \cup {NoEvent}]
    BY <2>1, <2>3, SendEventsType DEF TypeOK
  <2>6. DOMAIN details' \subseteq Pods
    BY <2>1, <2>2, <2>4, ListedPodsType DEF TypeOK
  <2>7. Cardinality(DOMAIN details') \in Nat
    BY <2>6, PodSubsets
  <2>8. Completed(u) \in Nat
    BY ListedPodsType, PodSubsets, CompletedBound
  <2>9. QED
    BY <2>1, <2>4, <2>5, <2>6, <2>7, <2>8 DEF TypeOK
<1>3. CASE Environment
  BY <1>3, EnvironmentTypeOK DEF TypeOK
<1>4. CASE UNCHANGED vars
  BY <1>4 DEF vars, TypeOK
<1>5. QED
  BY <1>1, <1>2, <1>3, <1>4 DEF Next

\* Type correctness of the progress tracker model.
THEOREM TypeCorrect == Spec => []TypeOK
BY InitTypeOK, NextTypeOK, PTL DEF Spec

-----------------------------------------------------------------------------

\* handleComponentStatusProgress never reports more completed pods than it
\* expects: outside cancellation because it counts listed pods of the
\* expected set, while cancelling because every pod it counts has a row,
\* and the expected count is the number of rows after the pass.
THEOREM ProgressBounded == Spec => []ProgressWithinExpected
<1>1. Init => ProgressWithinExpected
  BY DEF Init, NoProgress, ProgressWithinExpected
<1>2. TypeOK /\ ProgressWithinExpected /\ [Next]_vars
        => ProgressWithinExpected'
  <2> SUFFICES ASSUME TypeOK, ProgressWithinExpected, [Next]_vars
               PROVE  ProgressWithinExpected'
    OBVIOUS
  <2>1. ListedPods \subseteq Pods
    BY ListedPodsType
  <2>2. CASE HandleRollingUpdate
    <3> DEFINE u == [p \in ListedPods |-> RollingDetail(pods[p])]
    <3>1. /\ IsFiniteSet(ListedPods)
          /\ Completed(u) <= Cardinality(ListedPods)
      BY <2>1, PodSubsets, CompletedBound
    <3>2. Cardinality(ListedPods) <= ExpectReplicas
      <4>1. CASE UpdatedPodSet # {}
        <5>1. ListedPods \subseteq UpdatedPodSet
          BY <4>1 DEF ListedPods
        <5>2. QED
          BY <4>1, <5>1, UpdatedPodSetAssumption, PodsAssumption, FS_Subset
          DEF ExpectReplicas
      <4>2. CASE UpdatedPodSet = {}
        BY <4>2, <2>1, PodSubsets, ReplicasAssumption DEF ExpectReplicas
      <4>3. QED
        BY <4>1, <4>2
    <3>3. /\ Completed(u) \in Nat
          /\ Cardinality(ListedPods) \in Nat
          /\ ExpectReplicas \in Nat
      BY <2>1, <3>1, PodSubsets, CompletedBound, UpdatedPodSetAssumption,
         ReplicasAssumption DEF ExpectReplicas
    <3>4. QED
      BY <2>2, <3>1, <3>2, <3>3 DEF HandleRollingUpdate, ProgressWithinExpected
  <2>3. CASE HandleCancelProgress
    <3> DEFINE base    == PrunePending(details)
               visited == {p \in ListedPods : ~CancelSkipped(pods[p])}
               u       == [p \in visited |-> CancelDetail(pods[p])]
    <3>0. /\ details' = SetDetails(base, u)
          /\ progress' = [expect |-> Cardinality(DOMAIN details'),
                          completed |-> Completed(u)]
      BY <2>3 DEF HandleCancelProgress
    <3>1. DOMAIN details' = DOMAIN base \cup visited
      BY <3>0 DEF SetDetails
    <3>2. DOMAIN details' \subseteq Pods
      BY <3>1, <2>1 DEF PrunePending, TypeOK
    <3>3. /\ IsFiniteSet(DOMAIN details')
          /\ Cardinality(DOMAIN details') \in Nat
      BY <3>2, PodSubsets
    <3>4. /\ Cardinality(visited) <= Cardinality(DOMAIN details')
          /\ Cardinality(visited) \in Nat
      BY <3>1, <3>3, FS_Subset, FS_CardinalityType
    <3>5. /\ Completed(u) <= Cardinality(visited)
          /\ Completed(u) \in Nat
      BY <2>1, PodSubsets, CompletedBound
    <3>6. QED
      BY <3>0, <3>3, <3>4, <3>5 DEF ProgressWithinExpected
  <2>4. CASE Environment
    BY <2>4 DEF Environment, DeletePod, RemovePod, CreatePod, PodReady,
       PodUnavailable, PodFailedAndTimedOut, ApplyInPlace, CancelOps,
       ProgressWithinExpected
  <2>5. CASE UNCHANGED vars
    BY <2>5 DEF vars, ProgressWithinExpected
  <2>6. QED
    BY <2>2, <2>3, <2>4, <2>5 DEF Next
<1>3. QED
  BY <1>1, <1>2, TypeCorrect, PTL DEF Spec

-----------------------------------------------------------------------------
(***************************************************************************)
(* The ledger implements ProgressLedger.  The one step that needs more     *)
(* than the merge rule is the cancel pass that drops a Pending row and    *)
(* adds the pod again: the dropped row must carry no StartTime or EndTime. *)
(* A row gets a time only when its pod has started the operation (it is   *)
(* applied, being deleted, re-created after the start or gone), which no  *)
(* pod change undoes, and a Pending detail is set only for a pod that has *)
(* not: so a Pending row never has a time.                                *)
(***************************************************************************)

\* The pod has started the operation: RollingDetail no longer sets Pending.
PStarted(s) == ~s.exists \/ s.applied \/ s.deleting \/ s.born >= AfterStart

LedgerInv ==
    \A k \in DOMAIN details :
        /\ (details[k].started \/ details[k].ended) => PStarted(pods[k])
        /\ details[k].status = Pending => ~details[k].started /\ ~details[k].ended

\* The detail of a listed pod is fresh, and Pending exactly when the pod
\* has not started.
LEMMA RollingDetailFacts ==
    ASSUME NEW s \in PodState, s.exists
    PROVE  /\ RollingDetail(s) \in Row(Msgs)
           /\ ~RollingDetail(s).started /\ ~RollingDetail(s).ended
           /\ RollingDetail(s).status = Pending <=> ~PStarted(s)
BY HandlerDetailTypes DEF RollingDetail, FailedOrProcessingDetail, NewDetail,
   PStarted, podProcessedSuccessful, notRecreatedDuringOperation, PodState,
   BeforeStart, AfterStart, AfterCancel, Pending, Processing, Succeed, Failed

\* The detail the cancel pass sets for a pod it visits is fresh, not
\* Pending, and the pod has started.
LEMMA CancelDetailFacts ==
    ASSUME NEW s \in PodState, ~CancelSkipped(s)
    PROVE  /\ CancelDetail(s) \in Row(Msgs)
           /\ ~CancelDetail(s).started /\ ~CancelDetail(s).ended
           /\ CancelDetail(s).status # Pending
           /\ PStarted(s)
BY HandlerDetailTypes DEF CancelDetail, CancelSkipped, FailedOrProcessingDetail,
   NewDetail, PStarted, podProcessedSuccessful, notRecreatedDuringOperation,
   PodState, BeforeStart, AfterStart, AfterCancel, Pending, Processing,
   Succeed, Failed

\* No pod change makes a started pod not started.
LEMMA EnvironmentKeepsStarted ==
    ASSUME TypeOK, Environment, NEW k \in Pods, PStarted(pods[k])
    PROVE  PStarted(pods'[k])
<1>1. CASE \E p \in Pods : \E a \in BOOLEAN : CreatePod(p, a)
  <2>1. PICK p \in Pods, a \in BOOLEAN : CreatePod(p, a)
    BY <1>1
  <2>2. Now >= AfterStart
    BY DEF Now, AfterStart, AfterCancel
  <2>3. QED
    BY <2>1, <2>2 DEF CreatePod, PStarted, Absent, TypeOK
<1>2. ASSUME NEW p \in Pods,
             DeletePod(p) \/ RemovePod(p) \/ PodReady(p) \/ PodUnavailable(p)
             \/ PodFailedAndTimedOut(p) \/ ApplyInPlace(p)
      PROVE  PStarted(pods'[k])
  BY <1>2 DEF DeletePod, RemovePod, PodReady, PodUnavailable,
     PodFailedAndTimedOut, ApplyInPlace, PStarted, Absent, TypeOK, PodState
<1>3. CASE CancelOps
  BY <1>3 DEF CancelOps
<1>4. QED
  BY <1>1, <1>2, <1>3 DEF Environment

\* A row a pass stores for a pod keeps LedgerInv, given the fresh detail
\* nd: a time is added only with a status that needs the pod started, and
\* a Pending detail (pod not started) finds a row without times.
LEMMA MergeKeepsLedgerInv ==
    ASSUME NEW d, NEW k \in Pods, NEW nd \in Row(Msgs), ~nd.started, ~nd.ended,
           NEW s \in PodState,
           k \in DOMAIN d => d[k] \in Row(Msgs),
           k \in DOMAIN d => /\ (d[k].started \/ d[k].ended) => PStarted(s)
                             /\ d[k].status = Pending
                                  => ~d[k].started /\ ~d[k].ended,
           nd.status # Pending => PStarted(s),
           nd.status = Pending => ~PStarted(s)
    PROVE  LET r == MergeRow(d, k, nd)
           IN  /\ (r.started \/ r.ended) => PStarted(s)
               /\ r.status = Pending => ~r.started /\ ~r.ended
<1>1. CASE k \in DOMAIN d /\ Ignored(d[k], nd) /\ MergeRow(d, k, nd) = d[k]
  BY <1>1
<1>2. CASE /\ k \in DOMAIN d => ~Ignored(d[k], nd)
           /\ MergeRow(d, k, nd).status = nd.status
           /\ MergeRow(d, k, nd).started =
                ((k \in DOMAIN d /\ d[k].started) \/ nd.status = Processing)
           /\ MergeRow(d, k, nd).ended =
                ((k \in DOMAIN d /\ d[k].ended)
                 \/ isCompletedProgressStatus(nd.status))
  BY <1>2 DEF isCompletedProgressStatus, Pending, Processing, Succeed, Failed
<1>3. QED
  BY <1>1, <1>2, MergeRowShape

LEMMA InitLedgerInv == Init => LedgerInv
BY DEF Init, LedgerInv

LEMMA NextLedgerInv ==
    TypeOK /\ LedgerInv /\ [Next]_vars => LedgerInv'
<1> SUFFICES ASSUME TypeOK, LedgerInv, [Next]_vars PROVE LedgerInv'
  OBVIOUS
<1>0. \A k \in DOMAIN details : k \in Pods /\ details[k] \in Row(Msgs)
  BY DEF TypeOK
<1>1. CASE HandleRollingUpdate
  <2> DEFINE u == [p \in ListedPods |-> RollingDetail(pods[p])]
  <2>1. details' = SetDetails(details, u) /\ pods' = pods
    BY <1>1 DEF HandleRollingUpdate
  <2>2. SUFFICES ASSUME NEW k \in DOMAIN details'
                 PROVE  /\ (details'[k].started \/ details'[k].ended)
                              => PStarted(pods[k])
                        /\ details'[k].status = Pending
                              => ~details'[k].started /\ ~details'[k].ended
    BY <2>1 DEF LedgerInv
  <2>3. CASE k \in ListedPods
    <3>1. k \in Pods /\ pods[k] \in PodState /\ pods[k].exists
      BY <2>3, ListedPodsType DEF ListedPods, TypeOK
    <3>2. details'[k] = MergeRow(details, k, RollingDetail(pods[k]))
      BY <2>1, <2>3 DEF SetDetails
    <3>3. /\ RollingDetail(pods[k]) \in Row(Msgs)
          /\ ~RollingDetail(pods[k]).started /\ ~RollingDetail(pods[k]).ended
          /\ RollingDetail(pods[k]).status # Pending => PStarted(pods[k])
          /\ RollingDetail(pods[k]).status = Pending => ~PStarted(pods[k])
      BY <3>1, RollingDetailFacts
    <3>4. k \in DOMAIN details =>
            /\ details[k] \in Row(Msgs)
            /\ (details[k].started \/ details[k].ended) => PStarted(pods[k])
            /\ details[k].status = Pending
                 => ~details[k].started /\ ~details[k].ended
      BY <1>0 DEF LedgerInv
    <3>5. QED
      BY <3>1, <3>2, <3>3, <3>4, MergeKeepsLedgerInv
  <2>4. CASE k \notin ListedPods
    <3>1. k \in DOMAIN details /\ details'[k] = details[k]
      BY <2>1, <2>4 DEF SetDetails
    <3>2. QED
      BY <3>1 DEF LedgerInv
  <2>5. QED
    BY <2>3, <2>4
<1>2. CASE HandleCancelProgress
  <2> DEFINE base    == PrunePending(details)
             visited == {p \in ListedPods : ~CancelSkipped(pods[p])}
             u       == [p \in visited |-> CancelDetail(pods[p])]
  <2>1. details' = SetDetails(base, u) /\ pods' = pods
    BY <1>2 DEF HandleCancelProgress
  <2>2. /\ DOMAIN base \subseteq DOMAIN details
        /\ \A x \in DOMAIN base : base[x] = details[x]
    BY DEF PrunePending
  <2>3. SUFFICES ASSUME NEW k \in DOMAIN details'
                 PROVE  /\ (details'[k].started \/ details'[k].ended)
                              => PStarted(pods[k])
                        /\ details'[k].status = Pending
                              => ~details'[k].started /\ ~details'[k].ended
    BY <2>1 DEF LedgerInv
  <2>4. CASE k \in visited
    <3>1. k \in Pods /\ pods[k] \in PodState /\ ~CancelSkipped(pods[k])
      BY <2>4, ListedPodsType DEF TypeOK
    <3>2. details'[k] = MergeRow(base, k, CancelDetail(pods[k]))
      BY <2>1, <2>4 DEF SetDetails
    <3>3. /\ CancelDetail(pods[k]) \in Row(Msgs)
          /\ ~CancelDetail(pods[k]).started /\ ~CancelDetail(pods[k]).ended
          /\ CancelDetail(pods[k]).status # Pending
          /\ PStarted(pods[k])
      BY <3>1, CancelDetailFacts
    <3>4. k \in DOMAIN base =>
            /\ base[k] \in Row(Msgs)
            /\ (base[k].started \/ base[k].ended) => PStarted(pods[k])
            /\ base[k].status = Pending
                 => ~base[k].started /\ ~base[k].ended
      BY <1>0, <2>2 DEF LedgerInv
    <3>5. QED
      BY <3>1, <3>2, <3>3, <3>4, MergeKeepsLedgerInv
  <2>5. CASE k \notin visited
    <3>1. k \in DOMAIN base /\ details'[k] = base[k]
      BY <2>1, <2>5 DEF SetDetails
    <3>2. QED
      BY <3>1, <2>2 DEF LedgerInv
  <2>6. QED
    BY <2>4, <2>5
<1>3. CASE Environment
  <2>1. UNCHANGED details
    BY <1>3, EnvironmentTypeOK
  <2>2. QED
    BY <1>0, <1>3, <2>1, EnvironmentKeepsStarted DEF LedgerInv
<1>4. CASE UNCHANGED vars
  BY <1>4 DEF vars, LedgerInv
<1>5. QED
  BY <1>1, <1>2, <1>3, <1>4 DEF Next

\* The rows never start without their pod having started.
THEOREM LedgerInvariant == Spec => []LedgerInv
BY InitLedgerInv, NextLedgerInv, TypeCorrect, PTL DEF Spec

\* The abstract ledger's rows and statuses are the handler's.
LEMMA LedgerNames ==
    /\ Ledger!Row(Msgs) = Row(Msgs)
    /\ Ledger!Pending = Pending
BY DEF Ledger!Row, Row, Ledger!ProgressStatus, ProgressStatus, Ledger!Pending,
   Ledger!Processing, Ledger!Succeed, Ledger!Failed, Pending, Processing,
   Succeed, Failed

\* A row a pass stores over an old row of the ledger is kept in the sense
\* of ProgressLedger: the early returns keep it, and otherwise the new
\* status is not a Failed row's unless Succeed, and the times only grow.
LEMMA MergeRowKept ==
    ASSUME NEW d, NEW k \in DOMAIN d, d[k] \in Row(Msgs),
           NEW nd \in Row(Msgs), ~nd.started, ~nd.ended
    PROVE  Ledger!Kept(d[k], MergeRow(d, k, nd))
<1>1. CASE Ignored(d[k], nd) /\ MergeRow(d, k, nd) = d[k]
  BY <1>1 DEF Ledger!Kept
<1>2. CASE /\ ~Ignored(d[k], nd)
           /\ MergeRow(d, k, nd).status = nd.status
           /\ MergeRow(d, k, nd).started = (d[k].started \/ nd.status = Processing)
           /\ MergeRow(d, k, nd).ended =
                (d[k].ended \/ isCompletedProgressStatus(nd.status))
  BY <1>2 DEF Ledger!Kept, Ignored, isCompletedProgressStatus, Ledger!Failed,
     Ledger!Succeed, Failed, Succeed, Processing
<1>3. QED
  BY <1>1, <1>2, MergeRowShape

\* Each step of the handler model is a write of the abstract ledger or
\* leaves the ledger alone.
LEMMA NextRefines ==
    TypeOK /\ TypeOK' /\ LedgerInv /\ [Next]_vars => [Ledger!Write]_details
<1> SUFFICES ASSUME TypeOK, TypeOK', LedgerInv, [Next]_vars
             PROVE  [Ledger!Write]_details
  OBVIOUS
<1>0. /\ DOMAIN details' \subseteq Pods
      /\ details' \in [DOMAIN details' -> Row(Msgs)]
      /\ \A k \in DOMAIN details : details[k] \in Row(Msgs)
  BY DEF TypeOK
<1>1. CASE HandleRollingUpdate
  <2> DEFINE u == [p \in ListedPods |-> RollingDetail(pods[p])]
  <2>1. details' = SetDetails(details, u)
    BY <1>1 DEF HandleRollingUpdate
  <2>2. \A k \in DOMAIN details \ DOMAIN details' : details[k].status = Pending
    BY <2>1 DEF SetDetails
  <2>3. ASSUME NEW k \in DOMAIN details \cap DOMAIN details'
        PROVE  Ledger!Kept(details[k], details'[k])
    <3>1. CASE k \in ListedPods
      <4>1. details'[k] = MergeRow(details, k, RollingDetail(pods[k]))
        BY <2>1, <3>1 DEF SetDetails
      <4>2. /\ RollingDetail(pods[k]) \in Row(Msgs)
            /\ ~RollingDetail(pods[k]).started
            /\ ~RollingDetail(pods[k]).ended
        BY <3>1, ListedPodsType, RollingDetailFacts DEF ListedPods, TypeOK
      <4>3. QED
        BY <1>0, <4>1, <4>2, MergeRowKept
    <3>2. CASE k \notin ListedPods
      BY <2>1, <3>2 DEF SetDetails, Ledger!Kept
    <3>3. QED
      BY <3>1, <3>2
  <2>4. QED
    BY <1>0, <2>2, <2>3, LedgerNames DEF Ledger!Write
<1>2. CASE HandleCancelProgress
  <2> DEFINE base    == PrunePending(details)
             visited == {p \in ListedPods : ~CancelSkipped(pods[p])}
             u       == [p \in visited |-> CancelDetail(pods[p])]
  <2>1. details' = SetDetails(base, u)
    BY <1>2 DEF HandleCancelProgress
  <2>2. /\ DOMAIN base = {x \in DOMAIN details : details[x].status # Pending}
        /\ \A x \in DOMAIN base : base[x] = details[x]
    BY DEF PrunePending
  <2>3. \A k \in DOMAIN details \ DOMAIN details' : details[k].status = Pending
    BY <2>1, <2>2 DEF SetDetails
  <2>4. ASSUME NEW k \in DOMAIN details \cap DOMAIN details'
        PROVE  Ledger!Kept(details[k], details'[k])
    <3>1. CASE k \in DOMAIN base /\ k \in visited
      <4>1. details'[k] = MergeRow(base, k, CancelDetail(pods[k]))
        BY <2>1, <3>1 DEF SetDetails
      <4>2. /\ CancelDetail(pods[k]) \in Row(Msgs)
            /\ ~CancelDetail(pods[k]).started
            /\ ~CancelDetail(pods[k]).ended
        BY <3>1, ListedPodsType, CancelDetailFacts DEF TypeOK
      <4>3. Ledger!Kept(base[k], MergeRow(base, k, CancelDetail(pods[k])))
        BY <1>0, <2>2, <3>1, <4>2, MergeRowKept
      <4>4. QED
        BY <2>2, <3>1, <4>1, <4>3
    <3>2. CASE k \in DOMAIN base /\ k \notin visited
      BY <2>1, <2>2, <3>2 DEF SetDetails, Ledger!Kept
    <3>3. CASE k \notin DOMAIN base
      <4>1. details[k].status = Pending
        BY <2>2, <3>3
      <4>2. ~details[k].started /\ ~details[k].ended
        BY <4>1 DEF LedgerInv
      <4>3. QED
        BY <4>1, <4>2 DEF Ledger!Kept, Ledger!Failed, Pending, Failed
    <3>4. QED
      BY <3>1, <3>2, <3>3
  <2>5. QED
    BY <1>0, <2>3, <2>4, LedgerNames DEF Ledger!Write
<1>3. CASE Environment
  BY <1>3, EnvironmentTypeOK
<1>4. CASE UNCHANGED vars
  BY <1>4 DEF vars
<1>5. QED
  BY <1>1, <1>2, <1>3, <1>4 DEF Next

\* handleComponentStatusProgress implements ProgressLedger: from an empty
\* ledger, every pass, cancelled or not, and every pod change is a write
\* of the abstract ledger or leaves it alone, for every set of pods.
THEOREM Refinement == Spec => LedgerRefined
<1>1. Init => Ledger!Init
  BY DEF Init, Ledger!Init
<1>2. QED
  BY <1>1, NextRefines, TypeCorrect, LedgerInvariant, PTL
  DEF Spec, LedgerRefined, Ledger!Spec

-----------------------------------------------------------------------------
(* The events and the timestamps of the ledger.                           *)

\* Both handlers make one pass of setComponentStatusProgressDetail calls
\* over a ledger that is the stored one or the stored one with its Pending
\* rows pruned, with fresh rows for pods.
LEMMA HandlerPass ==
    ASSUME TypeOK, HandleRollingUpdate \/ HandleCancelProgress
    PROVE  \E base, u :
              /\ details' = SetDetails(base, u)
              /\ lastEvent' = SendEvents(lastEvent, base, u)
              /\ DOMAIN base \subseteq DOMAIN details
              /\ \A x \in DOMAIN base : base[x] = details[x]
              /\ DOMAIN u \subseteq Pods
              /\ \A x \in DOMAIN u : u[x] \in Row(Msgs)
<1>1. CASE HandleRollingUpdate
  <2> DEFINE u == [p \in ListedPods |-> RollingDetail(pods[p])]
  <2>1. details' = SetDetails(details, u)
        /\ lastEvent' = SendEvents(lastEvent, details, u)
    BY <1>1 DEF HandleRollingUpdate
  <2>2. DOMAIN u \subseteq Pods /\ \A x \in DOMAIN u : u[x] \in Row(Msgs)
    BY ListedPodsType, HandlerDetailTypes DEF TypeOK
  <2> QED
    BY <2>1, <2>2
<1>2. CASE HandleCancelProgress
  <2> DEFINE base    == PrunePending(details)
             visited == {p \in ListedPods : ~CancelSkipped(pods[p])}
             u       == [p \in visited |-> CancelDetail(pods[p])]
  <2>1. details' = SetDetails(base, u)
        /\ lastEvent' = SendEvents(lastEvent, base, u)
    BY <1>2 DEF HandleCancelProgress
  <2>2. DOMAIN u \subseteq Pods /\ \A x \in DOMAIN u : u[x] \in Row(Msgs)
    BY ListedPodsType, HandlerDetailTypes DEF TypeOK
  <2>3. DOMAIN base \subseteq DOMAIN details
        /\ \A x \in DOMAIN base : base[x] = details[x]
    BY DEF PrunePending
  <2> QED
    BY <2>1, <2>2, <2>3
<1> QED
  BY <1>1, <1>2

\* The environment leaves the ledger and the events alone.
LEMMA EnvironmentKeepsLedger ==
    ASSUME TypeOK, Environment \/ UNCHANGED vars
    PROVE  UNCHANGED <<details, lastEvent>>
BY EnvironmentTypeOK DEF vars

\* The last event sent for each pod announces the status and message of
\* its row, whenever the row is not Pending, for every finite set of
\* pods: an early return of setComponentStatusProgressDetail sends nothing
\* and changes nothing, and the cancel pass prunes only Pending rows.
THEOREM EventsMatchLedgerProof == Spec => []EventsMatchLedger
<1>1. Init => EventsMatchLedger
  BY DEF Init, EventsMatchLedger
<1>2. ASSUME TypeOK, EventsMatchLedger, [Next]_vars PROVE EventsMatchLedger'
  <2>1. CASE HandleRollingUpdate \/ HandleCancelProgress
    <3>1. PICK base, u :
              /\ details' = SetDetails(base, u)
              /\ lastEvent' = SendEvents(lastEvent, base, u)
              /\ DOMAIN base \subseteq DOMAIN details
              /\ \A x \in DOMAIN base : base[x] = details[x]
              /\ DOMAIN u \subseteq Pods
              /\ \A x \in DOMAIN u : u[x] \in Row(Msgs)
      BY <1>2, <2>1, HandlerPass
    <3>2. \A x \in DOMAIN base : base[x] \in Row(Msgs)
                                 /\ Announces(base, lastEvent, x)
      BY <1>2, <3>1 DEF TypeOK, EventsMatchLedger, Announces
    <3>3. DOMAIN base \cup DOMAIN u \subseteq DOMAIN lastEvent
      BY <1>2, <3>1 DEF TypeOK
    <3> QED
      BY <3>1, <3>2, <3>3, SetDetailsAnnounced DEF EventsMatchLedger, Announces
  <2>2. CASE Environment \/ UNCHANGED vars
    BY <1>2, <2>2, EnvironmentKeepsLedger DEF EventsMatchLedger
  <2> QED
    BY <1>2, <2>1, <2>2 DEF Next
<1> QED
  BY <1>1, <1>2, TypeCorrect, PTL DEF Spec

\* Every completed row has an EndTime and every Processing row a StartTime,
\* for every finite set of pods, through appends, overwrites, early
\* returns and the cancel pass's pruning.
THEOREM TimestampsConsistentProof == Spec => []TimestampsConsistent
<1>1. Init => TimestampsConsistent
  BY DEF Init, TimestampsConsistent
<1>2. ASSUME TypeOK, TimestampsConsistent, [Next]_vars
      PROVE  TimestampsConsistent'
  <2>1. CASE HandleRollingUpdate \/ HandleCancelProgress
    <3>1. PICK base, u :
              /\ details' = SetDetails(base, u)
              /\ lastEvent' = SendEvents(lastEvent, base, u)
              /\ DOMAIN base \subseteq DOMAIN details
              /\ \A x \in DOMAIN base : base[x] = details[x]
              /\ DOMAIN u \subseteq Pods
              /\ \A x \in DOMAIN u : u[x] \in Row(Msgs)
      BY <1>2, <2>1, HandlerPass
    <3>2. \A x \in DOMAIN base : base[x] \in Row(Msgs) /\ Stamped(base[x])
      BY <1>2, <3>1 DEF TypeOK, TimestampsConsistent, Stamped
    <3> QED
      BY <3>1, <3>2, SetDetailsStamped DEF TimestampsConsistent, Stamped
  <2>2. CASE Environment \/ UNCHANGED vars
    BY <1>2, <2>2, EnvironmentKeepsLedger DEF TimestampsConsistent
  <2> QED
    BY <1>2, <2>1, <2>2 DEF Next
<1> QED
  BY <1>1, <1>2, TypeCorrect, PTL DEF Spec

=============================================================================
