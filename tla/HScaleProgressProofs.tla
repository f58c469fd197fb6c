------------------------ MODULE HScaleProgressProofs ------------------------
(***************************************************************************)
(* Proofs about HScaleProgress for every finite set of pods to create and  *)
(* to delete: the type invariant, and that the completed count reported by *)
(* handleComponentProgressForScalingReplicas is backed by terminal rows.   *)
(***************************************************************************)
EXTENDS HScaleProgress, ProgressDetailTheorems, FiniteSetTheorems, TLAPS

\* The pods of the operation are finite.
LEMMA PodsFinite == IsFiniteSet(Pods)
BY CreatedPodsAssumption, DeletedPodsAssumption, FS_Union DEF Pods

\* The status the scale-out loop sets for a pod it touches is a status.
LEMMA ScaleOutStatusType ==
    ASSUME NEW v, ScaleOutStatus(v) # Skip
    PROVE  ScaleOutStatus(v) \in ProgressStatus
BY DEF ScaleOutStatus, Skip, ProgressStatus, Pending, Processing, Succeed,
       Failed

\* The pods the scale-out loop touches and the details the call sets, as
\* in the LET of HandleScalingReplicas.
Touched == {p \in CreatedPods : ScaleOutStatus(its[p]) # Skip}
Updates == [p \in Touched \cup DeletedPods |->
              IF p \in CreatedPods
              THEN NewDetail(ScaleOutStatus(its[p]), "create")
              ELSE NewDetail(ScaleInStatus(its[p]), "delete")]

\* The pods a handler call counts completed.
CountedOut == {p \in CreatedPods : ScaleOutCompleted(its[p])}
CountedIn == {p \in DeletedPods : ~its[p].inRev}

LEMMA HandlerUnfolded ==
    HandleScalingReplicas <=>
        /\ details' = SetDetails(details, Updates)
        /\ progress' = [expect |-> Cardinality(Pods),
                        completed |-> Cardinality(CountedOut)
                                      + Cardinality(CountedIn)]
        /\ UNCHANGED its
BY DEF HandleScalingReplicas, Updates, Touched, CountedOut, CountedIn

\* The details one handler call sets are rows for pods of the operation.
LEMMA UpdatesType ==
    /\ DOMAIN Updates \subseteq Pods
    /\ \A p \in DOMAIN Updates : Updates[p] \in Row(HMsgs)
<1>1. DOMAIN Updates = Touched \cup DeletedPods
    BY DEF Updates
<1>2. ASSUME NEW p \in Touched
      PROVE  Updates[p] \in Row(HMsgs)
    <2>1. p \in CreatedPods /\ ScaleOutStatus(its[p]) # Skip
        BY <1>2 DEF Touched
    <2>2. Updates[p] = NewDetail(ScaleOutStatus(its[p]), "create")
        BY <1>2, <2>1 DEF Updates
    <2> QED
        BY <2>1, <2>2, ScaleOutStatusType, NewDetailType DEF HMsgs
<1>3. ASSUME NEW p \in DeletedPods
      PROVE  Updates[p] \in Row(HMsgs)
    <2>1. p \notin CreatedPods
        BY DisjointAssumption
    <2>2. Updates[p] = NewDetail(ScaleInStatus(its[p]), "delete")
        BY <2>1 DEF Updates
    <2>3. ScaleInStatus(its[p]) \in ProgressStatus
        BY DEF ScaleInStatus, ProgressStatus
    <2> QED
        BY <2>2, <2>3, NewDetailType DEF HMsgs
<1> QED
    BY <1>1, <1>2, <1>3 DEF Touched, Pods

\* Every pod a handler call counts completed gets a Succeed or Failed
\* detail.
LEMMA CountedUpdated ==
    ASSUME TypeOK
    PROVE  \A p \in CountedOut \cup CountedIn :
        /\ p \in DOMAIN Updates
        /\ isCompletedProgressStatus(Updates[p].status)
<1>1. ASSUME NEW p \in CountedOut
      PROVE  p \in DOMAIN Updates /\ isCompletedProgressStatus(Updates[p].status)
    <2>1. p \in CreatedPods /\ ScaleOutStatus(its[p]) \in {Failed, Succeed}
        BY <1>1 DEF CountedOut, ScaleOutCompleted
    <2>2. p \in Touched
        BY <2>1 DEF Touched, Skip, Failed, Succeed
    <2>3. Updates[p] = NewDetail(ScaleOutStatus(its[p]), "create")
        BY <2>1, <2>2 DEF Updates
    <2> QED
        BY <2>1, <2>2, <2>3 DEF Updates, NewDetail, isCompletedProgressStatus
<1>2. ASSUME NEW p \in CountedIn
      PROVE  p \in DOMAIN Updates /\ isCompletedProgressStatus(Updates[p].status)
    <2>1. p \in DeletedPods /\ ~its[p].inRev /\ p \notin CreatedPods
        BY <1>2, DisjointAssumption DEF CountedIn
    <2>2. Updates[p] = NewDetail(ScaleInStatus(its[p]), "delete")
        BY <2>1 DEF Updates
    <2>3. ScaleInStatus(its[p]) = Succeed
        <3>1. its[p].inRev = FALSE
            BY <2>1 DEF TypeOK, Pods, InstanceView
        <3> QED
            BY <3>1 DEF ScaleInStatus
    <2> QED
        BY <2>1, <2>2, <2>3 DEF Updates, NewDetail, isCompletedProgressStatus
<1> QED
    BY <1>1, <1>2

-----------------------------------------------------------------------------

\* An environment step changes one pod's InstanceSet status.
LEMMA EnvironmentTypeOK ==
    ASSUME TypeOK, Environment PROVE TypeOK'
<1> PICK p \in Pods :
        \/ CreatePod(p) \/ BecomeReady(p) \/ BecomeAvailable(p)
        \/ AssignRole(p) \/ Crash(p) \/ SetFailure(p) \/ ClearFailure(p)
        \/ Terminate(p) \/ RemovePod(p)
    BY DEF Environment
<1>1. its[p] \in InstanceView
    BY DEF TypeOK
<1>2. CASE CreatePod(p)
    BY <1>1, <1>2 DEF CreatePod, TypeOK, InstanceView
<1>3. CASE BecomeReady(p)
    BY <1>1, <1>3 DEF BecomeReady, TypeOK, InstanceView
<1>4. CASE BecomeAvailable(p)
    BY <1>1, <1>4 DEF BecomeAvailable, TypeOK, InstanceView
<1>5. CASE AssignRole(p)
    BY <1>1, <1>5 DEF AssignRole, TypeOK, InstanceView
<1>6. CASE Crash(p)
    BY <1>1, <1>6 DEF Crash, TypeOK, InstanceView
<1>7. CASE SetFailure(p)
    BY <1>1, <1>7 DEF SetFailure, TypeOK, InstanceView
<1>8. CASE ClearFailure(p)
    BY <1>1, <1>8 DEF ClearFailure, TypeOK, InstanceView
<1>9. CASE Terminate(p)
    BY <1>1, <1>9 DEF Terminate, TypeOK, InstanceView
<1>10. CASE RemovePod(p)
    BY <1>1, <1>10 DEF RemovePod, TypeOK, InstanceView
<1> QED
    BY <1>2, <1>3, <1>4, <1>5, <1>6, <1>7, <1>8, <1>9, <1>10

\* The counts of one handler call are naturals.
LEMMA CountsType ==
    /\ IsFiniteSet(CountedOut) /\ Cardinality(CountedOut) \in Nat
    /\ IsFiniteSet(CountedIn) /\ Cardinality(CountedIn) \in Nat
    /\ Cardinality(Pods) \in Nat
BY PodsFinite, CreatedPodsAssumption, DeletedPodsAssumption, FS_Subset,
   FS_CardinalityType DEF CountedOut, CountedIn

LEMMA HandlerTypeOK ==
    ASSUME TypeOK, HandleScalingReplicas PROVE TypeOK'
<1>1. details' = SetDetails(details, Updates)
    BY HandlerUnfolded
<1>5. \A x \in DOMAIN details : details[x] \in Row(HMsgs)
    BY DEF TypeOK
<1>6. \A x \in DOMAIN Updates : Updates[x] \in Row(HMsgs)
    BY UpdatesType
<1>7. /\ DOMAIN SetDetails(details, Updates) = DOMAIN details \cup DOMAIN Updates
      /\ SetDetails(details, Updates)
            \in [DOMAIN SetDetails(details, Updates) -> Row(HMsgs)]
    BY <1>5, <1>6, SetDetailsType
<1>2. /\ DOMAIN details' = DOMAIN details \cup DOMAIN Updates
      /\ details' \in [DOMAIN details' -> Row(HMsgs)]
    BY <1>1, <1>7
<1>3. progress' \in [expect : Nat, completed : Nat]
    BY CountsType, HandlerUnfolded
<1>4. its' = its
    BY HandlerUnfolded
<1> QED
    BY <1>2, <1>3, <1>4, UpdatesType DEF TypeOK

\* The model is well typed for every finite set of pods to create and to
\* delete: the ledger stays a function from the operation's pods to rows.
THEOREM TypeCorrect == Spec => []TypeOK
<1>1. Init => TypeOK
    BY DEF Init, TypeOK, InstanceView
<1>2. TypeOK /\ [Next]_vars => TypeOK'
    BY HandlerTypeOK, EnvironmentTypeOK DEF Next, vars, TypeOK
<1> QED
    BY <1>1, <1>2, PTL DEF Spec

-----------------------------------------------------------------------------

\* The rows of the ledger in a completed status.
Done(d) == {k \in DOMAIN d : isCompletedProgressStatus(d[k].status)}

\* After a handler call, every pod it counted has a Succeed or Failed row.
LEMMA CountedDone ==
    ASSUME TypeOK, HandleScalingReplicas
    PROVE  CountedOut \cup CountedIn \subseteq Done(details')
<1> SUFFICES ASSUME NEW p \in CountedOut \cup CountedIn
             PROVE  p \in Done(details')
    BY DEF Done
<1>1. p \in DOMAIN Updates /\ isCompletedProgressStatus(Updates[p].status)
    BY CountedUpdated
<1>2. Updates[p] \in Row(HMsgs)
    BY <1>1, UpdatesType
<1>3. p \in DOMAIN details => details[p] \in Row(HMsgs)
    BY DEF TypeOK
<1>4. isCompletedProgressStatus(MergeRow(details, p, Updates[p]).status)
    BY <1>1, <1>2, <1>3, MergeRowCompleted
<1>5. details' = SetDetails(details, Updates)
    BY HandlerUnfolded
<1>6. p \in DOMAIN details' /\ details'[p] = MergeRow(details, p, Updates[p])
    BY <1>1, <1>5 DEF SetDetails
<1> QED
    BY <1>4, <1>6 DEF Done

\* The two counts of a handler call add up to the pods they count.
LEMMA CountsAdd ==
    Cardinality(CountedOut) + Cardinality(CountedIn)
        = Cardinality(CountedOut \cup CountedIn)
<1>1. CountedOut \cap CountedIn = {}
    BY DisjointAssumption DEF CountedOut, CountedIn
<1>2. Cardinality(CountedOut \cup CountedIn)
          = Cardinality(CountedOut) + Cardinality(CountedIn)
            - Cardinality(CountedOut \cap CountedIn)
    BY CountsType, FS_Union
<1>3. Cardinality(CountedOut \cap CountedIn) = 0
    BY <1>1, FS_EmptySet
<1> QED
    BY <1>2, <1>3, CountsType

\* The completed count of handleComponentProgressForScalingReplicas never
\* exceeds the Succeed and Failed rows of the ledger, for every finite set
\* of pods to create and to delete, although the scale-out loop passes
\* over some pods without writing or counting them and the merge ignores
\* some updates:
\* every pod it counts gets a completed detail, and the merge keeps a
\* completed status completed.
THEOREM CountBacked == Spec => []CountBackedByLedger
<1>1. Init => CountBackedByLedger
    BY FS_EmptySet DEF Init, CountBackedByLedger
<1>2. ASSUME TypeOK, TypeOK', CountBackedByLedger, [Next]_vars
      PROVE  CountBackedByLedger'
    <2>1. CASE HandleScalingReplicas
        <3>1. IsFiniteSet(Done(details'))
            BY <1>2, PodsFinite, FS_Subset DEF TypeOK, Done
        <3>2. Cardinality(CountedOut \cup CountedIn)
                  <= Cardinality(Done(details'))
            BY <1>2, <2>1, <3>1, CountedDone, FS_Subset
        <3>3. progress'.completed
                  = Cardinality(CountedOut) + Cardinality(CountedIn)
            BY <2>1, HandlerUnfolded
        <3> QED
            BY <3>2, <3>3, CountsAdd DEF CountBackedByLedger, Done
    <2>2. CASE Environment \/ UNCHANGED vars
        <3>1. UNCHANGED <<details, progress>>
            BY <2>2 DEF Environment, CreatePod, BecomeReady, BecomeAvailable,
                        AssignRole, Crash, SetFailure, ClearFailure,
                        Terminate, RemovePod, vars
        <3> QED
            BY <1>2, <3>1 DEF CountBackedByLedger
    <2> QED
        BY <1>2, <2>1, <2>2 DEF Next
<1> QED
    BY <1>1, <1>2, TypeCorrect, PTL DEF Spec

=============================================================================
