------------------------ MODULE ReconfigureController ------------------------
(***************************************************************************)
(* The reconfigure controller of a configuration ConfigMap                 *)
(* (controllers/parameters/reconfigure_controller.go): Reconcile and sync *)
(* decide whether the ConfigMap's data differs from its last-applied       *)
(* annotation, generate the reload tasks, and performUpgrade executes them *)
(* in order, stopping at the first one that does not return ESNone; the    *)
(* returned status decides the ParameterPhase, and only a pass whose tasks *)
(* all succeed records the data as applied (updateConfigCMStatus).         *)
(*                                                                         *)
(* The data of the ConfigMap is abstracted to a version number, bumped by  *)
(* each edit; an edit either changes parameters or not (formatting, files  *)
(* no parameter reads).  A pass is split at each task: the controller may  *)
(* restart between two of them, losing the pass.  The executors (outside   *)
(* src/) return an outcome from the set Outcomes; a task that returns      *)
(* ESNone without error has reloaded the pass's version.                   *)
(***************************************************************************)
EXTENDS Naturals, FiniteSets

\* ReturnedStatus of an executor (ExecStatus values) and an unknown one.
ESNone           == "ESNone"
ESRetry          == "ESRetry"
ESFailed         == "ESFailed"
ESFailedAndRetry == "ESFailedAndRetry"
ESUnknown        == "ESUnknown"

\* An executor outcome: its status and whether it returned an error.
Outcome == [status : {ESNone, ESRetry, ESFailed, ESFailedAndRetry, ESUnknown},
            err : BOOLEAN]
Reloaded == [status |-> ESNone, err |-> FALSE]

CONSTANTS
    NTasks,      \* the number of reload tasks a pass generates
    MaxVersion,  \* the number of edits of the ConfigMap explored
    Outcomes,    \* what ExecReload may return
    Related      \* what prepareRelatedResource and GetRelatedObjects find

ASSUME NTasksAssumption == NTasks \in Nat \ {0}
ASSUME MaxVersionAssumption == MaxVersion \in Nat
ASSUME OutcomesAssumption == Reloaded \in Outcomes /\ Outcomes \subseteq Outcome
ASSUME RelatedAssumption ==
    Related \in {"ok", "noConfigSpec", "noComponent", "noInstanceSet"}

Tasks == 1..NTasks
Versions == 0..MaxVersion

\* ParameterPhase
CFinishedPhase       == "Finished"
CUpgradingPhase      == "Upgrading"
CFailedPhase         == "Failed"
CFailedAndPausePhase == "FailedAndPause"
Phases == {CFinishedPhase, CUpgradingPhase, CFailedPhase, CFailedAndPausePhase}

\* No pass in progress.
Idle == 0

VARIABLES
    cmData,     \* the version of the ConfigMap's data
    modifies,   \* the edits that changed a parameter
    applied,    \* the version in the last-applied-configuration annotation
    phase,      \* the ParameterPhase recorded for the ConfigMap
    reloaded,   \* the last version each task has reloaded into its pods
    pc,         \* the task performUpgrade executes next, or Idle
    snap        \* the version the pass in progress works on

vars == <<cmData, modifies, applied, phase, reloaded, pc, snap>>

TypeOK ==
    /\ cmData \in Versions
    /\ modifies \subseteq 1..MaxVersion
    /\ applied \in Versions
    /\ phase \in Phases
    /\ reloaded \in [Tasks -> Versions]
    /\ pc \in {Idle} \cup Tasks
    /\ snap \in Versions

\* The ConfigMap as rendered first: applied and finished.
Init ==
    /\ cmData = 0
    /\ modifies = {}
    /\ applied = 0
    /\ phase = CFinishedPhase
    /\ reloaded = [t \in Tasks |-> 0]
    /\ pc = Idle
    /\ snap = 0

-----------------------------------------------------------------------------
(* The controller.                                                         *)

\* Mutant: the patch is computed against the previous data instead of
\* the last-applied annotation.
IsModifyAgainstPrevious(from, to) == to \in modifies

\* createConfigPatch(...).IsModify: some edit since the last-applied
\* version changed a parameter.
IsModify(from, to) == \E v \in modifies : from < v /\ v <= to

\* The end of a pass through updateConfigCMStatus: the annotation records
\* the version and the phase is the result's, unless the patch fails and
\* the pass is requeued.
UpdateConfigCMStatus(version, newPhase) ==
    \E ok \in BOOLEAN :
        IF ok THEN applied' = version /\ phase' = newPhase
              ELSE UNCHANGED <<applied, phase>>

\* sync up to performUpgrade: the component and its InstanceSets are looked
\* up, then the patch against the last-applied data decides between
\* recording a change without parameters and generating the tasks.
Sync ==
    IF Related = "noComponent"
    THEN UNCHANGED <<applied, phase, pc, snap>>
    ELSE IF Related = "noInstanceSet"
    THEN /\ phase' = CFinishedPhase
         /\ UNCHANGED <<applied, pc, snap>>
    ELSE IF ~IsModify(applied, cmData)
    THEN \* Nothing changed: recorded as applied without a reload.
         /\ UpdateConfigCMStatus(cmData, phase)
         /\ UNCHANGED <<pc, snap>>
    ELSE /\ pc' = 1 /\ snap' = cmData
         /\ UNCHANGED <<applied, phase>>

\* Reconcile, for a ConfigMap with the required labels and not being
\* deleted.  The error returns (a failed Get, list or parse) change nothing
\* and are stuttering steps.
Reconcile ==
    /\ pc = Idle
    /\ UNCHANGED <<cmData, modifies, reloaded>>
    /\ IF applied = cmData
       THEN \* checkAndApplyConfigsChanged: nothing to do.
            /\ phase' = CFinishedPhase
            /\ UNCHANGED <<applied, pc, snap>>
       ELSE IF Related = "noConfigSpec"
       THEN /\ phase' = CFinishedPhase
            /\ UNCHANGED <<applied, pc, snap>>
       ELSE Sync

\* Mutant: an unknown status leaves the phase unset.
StatusPhaseUnset(o) ==
    CASE o.status = ESFailedAndRetry -> CFailedPhase
      [] o.status = ESRetry          -> CUpgradingPhase
      [] o.status = ESFailed         -> CFailedAndPausePhase
      [] o.status = ESNone           -> CFinishedPhase
      [] OTHER                       -> ""

\* status: the phase a returned status leads to (Finished through succeed).
StatusPhase(o) ==
    CASE o.status = ESFailedAndRetry -> CFailedPhase
      [] o.status = ESRetry          -> CUpgradingPhase
      [] o.status = ESFailed         -> CFailedAndPausePhase
      [] o.status = ESNone           -> CFinishedPhase
      [] OTHER                       -> CFailedAndPausePhase

\* One iteration of performUpgrade's loop: ExecReload of task pc, then the
\* next task, succeed after the last one, or status on an error or a
\* status other than ESNone.
ExecReload ==
    /\ pc \in Tasks
    /\ \E o \in Outcomes :
         /\ reloaded' = IF o = Reloaded THEN [reloaded EXCEPT ![pc] = snap]
                                        ELSE reloaded
         /\ IF o = Reloaded /\ pc < NTasks
            THEN pc' = pc + 1 /\ UNCHANGED <<applied, phase>>
            ELSE /\ pc' = Idle
                 /\ IF StatusPhase(o) = CFinishedPhase
                    THEN UpdateConfigCMStatus(snap, CFinishedPhase)
                    ELSE /\ phase' = StatusPhase(o)
                         /\ UNCHANGED applied
    /\ UNCHANGED <<cmData, modifies, snap>>

\* The controller restarts: the pass in progress is lost.
Restart ==
    /\ pc # Idle
    /\ pc' = Idle
    /\ UNCHANGED <<cmData, modifies, applied, phase, reloaded, snap>>

\* Someone edits the ConfigMap, changing a parameter or not.
EditConfig ==
    /\ cmData < MaxVersion
    /\ cmData' = cmData + 1
    /\ \E changesParameter \in BOOLEAN :
         modifies' = IF changesParameter THEN modifies \cup {cmData + 1}
                                         ELSE modifies
    /\ UNCHANGED <<applied, phase, reloaded, pc, snap>>

Next == Reconcile \/ ExecReload \/ Restart \/ EditConfig

Spec == Init /\ [][Next]_vars

-----------------------------------------------------------------------------
(* Properties.                                                             *)

\* The last edit that changed a parameter, up to version v.
LastModify(v) ==
    IF \E u \in modifies : u <= v
    THEN CHOOSE u \in modifies : u <= v /\ \A w \in modifies : w <= v => w <= u
    ELSE 0

\* The last-applied annotation never claims a parameter change that some
\* reload task has not pushed to its pods: the annotation is written only
\* after every task of a pass succeeded, or when nothing changed since the
\* last version recorded, across restarts between tasks and edits during a
\* pass.
AppliedMeansReloaded == \A t \in Tasks : reloaded[t] >= LastModify(applied)

\* The spec (section 7): FailedAndPause requires explicit operator action
\* to clear, the system does not retry by itself.  Reconcile never reads
\* the phase, so any later reconcile of the unchanged ConfigMap runs the
\* reload again.
FailedAndPauseHolds ==
    [][phase = CFailedAndPausePhase /\ cmData' = cmData
         => phase' = CFailedAndPausePhase]_vars

=============================================================================
