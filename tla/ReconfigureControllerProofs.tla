-------------------- MODULE ReconfigureControllerProofs --------------------
(***************************************************************************)
(* Proofs about the reconfigure controller model: its type invariant and   *)
(* AppliedMeansReloaded, for every number of tasks, of edits and every set *)
(* of executor outcomes in which ESNone comes without an error.            *)
(***************************************************************************)
EXTENDS ReconfigureController, WellFoundedInduction, TLAPS

\* What the executors outside src/ are assumed to do: a reload that returns
\* ESNone returns no error.  performUpgrade (reconfigure_controller.go:246)
\* treats ESNone with an error as success, so without this assumption a
\* pass that reloaded nothing records the data as applied.
NoneMeansNoError == \A o \in Outcomes : o.status = ESNone => ~o.err

\* AppliedMeansReloaded without the maximum: every edit that changed a
\* parameter, up to the applied version, is pushed by every task.
ModifiesReloaded ==
    \A t \in Tasks, v \in modifies : v <= applied => v <= reloaded[t]

\* The inductive invariant: edits and versions never run ahead of the
\* data; during a pass the annotation is not ahead of the pass's version
\* and the tasks done in the pass have pushed that version.
IInv ==
    /\ TypeOK
    /\ \A v \in modifies : v <= cmData
    /\ applied <= cmData /\ snap <= cmData
    /\ pc # Idle => /\ applied <= snap
                    /\ \A t \in 1..(pc - 1) : reloaded[t] = snap
    /\ ModifiesReloaded

-----------------------------------------------------------------------------

\* A non-empty set of naturals bounded by n has a greatest element.
LEMMA BoundedMaximum ==
    ASSUME NEW S \in SUBSET Nat, S # {}, NEW n \in Nat, \A s \in S : s <= n
    PROVE  \E u \in S : \A w \in S : w <= u
<1> DEFINE T == {n - s : s \in S}
<1>1. \A s \in S : n - s \in Nat
    OBVIOUS
<1>2. T \subseteq Nat /\ T # {}
    BY <1>1
<1>3. \E x \in T : \A y \in T : ~(<<y, x>> \in OpToRel(<, Nat))
    BY <1>2, NatLessThanWellFounded, WFMin
<1>4. PICK x \in T : \A y \in T : ~(<<y, x>> \in OpToRel(<, Nat))
    BY <1>3
<1>5. PICK u \in S : x = n - u
    BY <1>4
<1>6. \A w \in S : ~(<<n - w, n - u>> \in OpToRel(<, Nat))
    BY <1>4, <1>5
<1>7. \A w \in S : ~(n - w < n - u)
    BY <1>1, <1>6, Zenon DEF OpToRel
<1> QED
    BY <1>5, <1>7

\* The strengthening implies the property stated with LastModify.
LEMMA ModifiesReloadedIsApplied ==
    ASSUME TypeOK, ModifiesReloaded
    PROVE  AppliedMeansReloaded
<1> SUFFICES ASSUME NEW t \in Tasks PROVE reloaded[t] >= LastModify(applied)
    BY DEF AppliedMeansReloaded
<1>1. CASE \E u \in modifies : u <= applied
    <2> DEFINE S == {u \in modifies : u <= applied}
    <2>1. modifies \subseteq Nat /\ applied \in Nat
        BY MaxVersionAssumption DEF TypeOK, Versions
    <2>2. S \in SUBSET Nat /\ S # {} /\ \A s \in S : s <= applied
        BY <1>1, <2>1
    <2>3. \E u \in S : \A w \in S : w <= u
        BY <2>1, <2>2, BoundedMaximum
    <2>4. LastModify(applied) \in modifies /\ LastModify(applied) <= applied
        BY <1>1, <2>3 DEF LastModify
    <2> QED
        BY <2>4, MaxVersionAssumption DEF ModifiesReloaded, TypeOK, Versions, Tasks
<1>2. CASE ~\E u \in modifies : u <= applied
    BY <1>2, MaxVersionAssumption DEF LastModify, TypeOK, Versions, Tasks
<1> QED
    BY <1>1, <1>2

LEMMA InitIInv == Init => IInv
BY NTasksAssumption, MaxVersionAssumption
   DEF Init, IInv, TypeOK, ModifiesReloaded, Versions, Tasks, Phases, Idle

\* Reconcile and sync keep the invariant: the only write of the annotation
\* outside a pass is for data whose edits since the last-applied version
\* changed no parameter.
LEMMA ReconcileIInv ==
    ASSUME IInv, Reconcile PROVE IInv'
<1> USE NTasksAssumption, MaxVersionAssumption
<1>1. CASE applied = cmData \/ Related = "noConfigSpec"
    BY <1>1 DEF Reconcile, IInv, TypeOK, ModifiesReloaded, Versions, Tasks,
                Phases, Idle
<1>2. CASE applied # cmData /\ Related # "noConfigSpec"
    <2>1. Sync /\ UNCHANGED <<cmData, modifies, reloaded>> /\ pc = Idle
        BY <1>2 DEF Reconcile
    <2>2. CASE Related \in {"noComponent", "noInstanceSet"}
        BY <2>1, <2>2 DEF Sync, IInv, TypeOK, ModifiesReloaded, Versions,
                          Tasks, Phases, Idle
    <2>3. CASE Related \notin {"noComponent", "noInstanceSet"}
               /\ ~IsModify(applied, cmData)
        <3>1. UpdateConfigCMStatus(cmData, phase) /\ UNCHANGED <<pc, snap>>
            BY <2>1, <2>3 DEF Sync
        <3>2. CASE applied' = cmData /\ phase' = phase
            BY <2>1, <2>3, <3>1, <3>2
               DEF IInv, TypeOK, ModifiesReloaded, IsModify, Versions,
                   Tasks, Idle
        <3>3. CASE UNCHANGED <<applied, phase>>
            BY <2>1, <3>1, <3>3 DEF IInv, TypeOK, ModifiesReloaded
        <3> QED
            BY <3>1, <3>2, <3>3 DEF UpdateConfigCMStatus
    <2>4. CASE Related \notin {"noComponent", "noInstanceSet"}
               /\ IsModify(applied, cmData)
        <3>1. pc' = 1 /\ snap' = cmData /\ UNCHANGED <<applied, phase>>
            BY <2>1, <2>4 DEF Sync
        <3> QED
            BY <2>1, <3>1 DEF IInv, TypeOK, ModifiesReloaded, Versions,
                              Tasks, Idle
    <2> QED
        BY <2>2, <2>3, <2>4
<1> QED
    BY <1>1, <1>2

\* One reload keeps the invariant.  A pass ends by writing the annotation
\* only after the last task pushed the pass's version: an outcome whose
\* phase is Finished is a reload, since ESNone comes without an error.
LEMMA ExecReloadIInv ==
    ASSUME NoneMeansNoError, IInv, ExecReload PROVE IInv'
<1> USE NTasksAssumption, MaxVersionAssumption
<1>1. PICK o \in Outcomes :
        /\ reloaded' = IF o = Reloaded THEN [reloaded EXCEPT ![pc] = snap]
                                       ELSE reloaded
        /\ IF o = Reloaded /\ pc < NTasks
           THEN pc' = pc + 1 /\ UNCHANGED <<applied, phase>>
           ELSE /\ pc' = Idle
                /\ IF StatusPhase(o) = CFinishedPhase
                   THEN UpdateConfigCMStatus(snap, CFinishedPhase)
                   ELSE /\ phase' = StatusPhase(o)
                        /\ UNCHANGED applied
        /\ UNCHANGED <<cmData, modifies, snap>>
    BY DEF ExecReload
<1>2. pc \in Tasks
    BY DEF ExecReload
<1>3. o \in Outcome
    BY OutcomesAssumption
<1>4. StatusPhase(o) \in Phases
    BY DEF StatusPhase, Phases
<1>5. CASE o = Reloaded /\ pc < NTasks
    BY <1>1, <1>2, <1>5 DEF IInv, TypeOK, ModifiesReloaded, Versions, Tasks,
                            Idle
<1>6. CASE o = Reloaded /\ ~(pc < NTasks)
    <2>1. pc = NTasks /\ pc' = Idle /\ StatusPhase(o) = CFinishedPhase
        BY <1>1, <1>2, <1>6 DEF Tasks, StatusPhase, Reloaded
    <2>2. \A t \in Tasks : reloaded'[t] = snap
        <3>1. reloaded' = [reloaded EXCEPT ![pc] = snap]
            BY <1>1, <1>6
        <3>2. \A t \in 1..(pc - 1) : reloaded[t] = snap
            BY <1>2 DEF IInv, Tasks, Idle
        <3> QED
            BY <2>1, <3>1, <3>2 DEF IInv, TypeOK, Tasks
    <2>3. UpdateConfigCMStatus(snap, CFinishedPhase)
        BY <1>1, <2>1
    <2> QED
        BY <1>1, <2>1, <2>2, <2>3
           DEF UpdateConfigCMStatus, IInv, TypeOK, ModifiesReloaded, Versions,
               Tasks, Phases, Idle
<1>7. CASE o # Reloaded
    <2>1. StatusPhase(o) # CFinishedPhase
        BY <1>3, <1>7 DEF NoneMeansNoError, StatusPhase, Reloaded, Outcome,
                          CFinishedPhase, CFailedPhase, CUpgradingPhase,
                          CFailedAndPausePhase, ESNone, ESRetry, ESFailed,
                          ESFailedAndRetry, ESUnknown
    <2> QED
        BY <1>1, <1>4, <1>7, <2>1
           DEF IInv, TypeOK, ModifiesReloaded, Versions, Tasks, Idle
<1> QED
    BY <1>5, <1>6, <1>7

\* Restarts and edits keep the invariant: a new edit is above every
\* version recorded.
LEMMA EnvironmentIInv ==
    ASSUME IInv, Restart \/ EditConfig \/ UNCHANGED vars PROVE IInv'
<1> USE NTasksAssumption, MaxVersionAssumption
<1>1. CASE Restart
    BY <1>1 DEF Restart, IInv, TypeOK, ModifiesReloaded, Tasks, Idle
<1>2. CASE EditConfig
    BY <1>2 DEF EditConfig, IInv, TypeOK, ModifiesReloaded, Versions, Tasks,
                Idle
<1>3. CASE UNCHANGED vars
    BY <1>3 DEF vars, IInv, TypeOK, ModifiesReloaded
<1> QED
    BY <1>1, <1>2, <1>3

LEMMA NextIInv ==
    ASSUME NoneMeansNoError, IInv, [Next]_vars PROVE IInv'
BY ReconcileIInv, ExecReloadIInv, EnvironmentIInv DEF Next

-----------------------------------------------------------------------------

\* Every step keeps the types, whatever the executors return.
LEMMA NextTypeOK ==
    ASSUME TypeOK, [Next]_vars PROVE TypeOK'
<1> USE NTasksAssumption, MaxVersionAssumption
<1>1. CASE Reconcile
    <2>1. CASE applied = cmData \/ Related = "noConfigSpec"
        BY <1>1, <2>1 DEF Reconcile, TypeOK, Phases
    <2>2. CASE applied # cmData /\ Related # "noConfigSpec"
        <3>1. Sync /\ UNCHANGED <<cmData, modifies, reloaded>>
            BY <1>1, <2>2 DEF Reconcile
        <3> QED
            BY <3>1 DEF Sync, UpdateConfigCMStatus, TypeOK, Phases, Tasks,
                        Versions
    <2> QED
        BY <2>1, <2>2
<1>2. CASE ExecReload
    <2>1. PICK o \in Outcomes :
            /\ reloaded' = IF o = Reloaded THEN [reloaded EXCEPT ![pc] = snap]
                                           ELSE reloaded
            /\ IF o = Reloaded /\ pc < NTasks
               THEN pc' = pc + 1 /\ UNCHANGED <<applied, phase>>
               ELSE /\ pc' = Idle
                    /\ IF StatusPhase(o) = CFinishedPhase
                       THEN UpdateConfigCMStatus(snap, CFinishedPhase)
                       ELSE /\ phase' = StatusPhase(o)
                            /\ UNCHANGED applied
            /\ UNCHANGED <<cmData, modifies, snap>>
        BY <1>2 DEF ExecReload
    <2>2. pc \in Tasks /\ StatusPhase(o) \in Phases
        BY <1>2 DEF ExecReload, StatusPhase, Phases
    <2> QED
        BY <2>1, <2>2 DEF UpdateConfigCMStatus, TypeOK, Phases, Tasks,
                          Versions, Idle
<1>3. CASE Restart \/ UNCHANGED vars
    BY <1>3 DEF Restart, vars, TypeOK
<1>4. CASE EditConfig
    <2>1. PICK c \in BOOLEAN :
            modifies' = IF c THEN modifies \cup {cmData + 1} ELSE modifies
        BY <1>4 DEF EditConfig
    <2>2. cmData < MaxVersion /\ cmData' = cmData + 1
          /\ UNCHANGED <<applied, phase, reloaded, pc, snap>>
        BY <1>4 DEF EditConfig
    <2> QED
        BY <2>1, <2>2 DEF TypeOK, Versions
<1> QED
    BY <1>1, <1>2, <1>3, <1>4 DEF Next

\* The model of the controller is well typed: the versions, the phase,
\* the task counter and what each task reloaded stay in their ranges,
\* whatever the executors return.
THEOREM TypeCorrect == Spec => []TypeOK
<1>1. Init => TypeOK
    BY InitIInv DEF IInv
<1> QED
    BY <1>1, NextTypeOK, PTL DEF Spec

\* The last-applied annotation written by updateConfigCMStatus never
\* claims a parameter change that a reload task has not pushed, across
\* restarts between tasks, edits during a pass and failed status patches,
\* for every number of tasks and edits, provided an executor that returns
\* ESNone returns no error.
THEOREM AppliedMeansReloadedProof ==
    NoneMeansNoError => (Spec => []AppliedMeansReloaded)
<1> SUFFICES ASSUME NoneMeansNoError PROVE Spec => []AppliedMeansReloaded
    OBVIOUS
<1>1. IInv => AppliedMeansReloaded
    BY ModifiesReloadedIsApplied DEF IInv
<1> QED
    BY InitIInv, NextIInv, <1>1, PTL DEF Spec

=============================================================================
