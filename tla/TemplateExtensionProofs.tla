----------------------- MODULE TemplateExtensionProofs -----------------------
(***************************************************************************)
(* Proofs about the parameter template extension controller model: type   *)
(* correctness, and that the merge patch of a reconcile only binds        *)
(* unbound configs when no other writer edits the Component's configs.   *)
(***************************************************************************)
EXTENDS TemplateExtension, TLAPS

\* updateConfigObject keeps a config a config.
LEMMA BoundType ==
    ASSUME NEW v \in CfgView PROVE Bound(v) \in CfgView
BY DEF Bound, CfgView, Refs

\* The configs a reconcile computes on its deep copy are configs.
LEMMA ExpectedType ==
    ASSUME TypeOK PROVE updateConfigsForParameterTemplate \in [Configs -> CfgView]
BY BoundType DEF TypeOK, updateConfigsForParameterTemplate

LEMMA InitTypeOK == Init => TypeOK
<1> SUFFICES ASSUME Init PROVE TypeOK
  OBVIOUS
<1>1. configs \in [Configs -> CfgView]
  <2>1. \A c \in Configs : configs[c] \in CfgView
    BY DEF Init
  <2> QED
    BY <2>1, Zenon DEF Init
<1>2. expected \in [Configs -> CfgView] /\ cms \in [Configs -> BOOLEAN]
  BY <1>1 DEF Init
<1>3. faults \in 0..MaxFaults /\ edits \in 0..MaxEdits
  BY BoundsAssumption DEF Init
<1>4. /\ deleting \in BOOLEAN /\ supported \in BOOLEAN /\ cpExists \in BOOLEAN
      /\ queued \in BOOLEAN /\ pc \in {"idle", "patch"}
  BY DEF Init
<1> QED
  BY <1>1, <1>2, <1>3, <1>4 DEF TypeOK

\* Every step keeps the model well typed.
LEMMA NextTypeOK == TypeOK /\ [Next]_vars => TypeOK'
<1> SUFFICES ASSUME TypeOK, [Next]_vars PROVE TypeOK'
  OBVIOUS
<1>0. MaxFaults \in Nat /\ MaxEdits \in Nat
  BY BoundsAssumption
<1>1. CASE Reconcile
  <2>1. updateConfigsForParameterTemplate \in [Configs -> CfgView]
    BY ExpectedType
  <2>2. UNCHANGED <<configs, deleting, supported, cpExists, cms, edits>>
        /\ queued' \in BOOLEAN
    BY <1>1 DEF Reconcile
  <2>3. /\ faults' \in 0..MaxFaults
        /\ pc' \in {"idle", "patch"} /\ expected' \in [Configs -> CfgView]
    BY <1>0, <1>1, <2>1 DEF Reconcile, TypeOK
  <2> QED
    BY <2>2, <2>3 DEF TypeOK
<1>2. CASE Patch
  <2>1. UNCHANGED <<deleting, supported, cpExists, cms, expected, edits>>
        /\ pc' = "idle" /\ queued' \in BOOLEAN
    BY <1>2 DEF Patch, Enqueue
  <2>2. configs' \in [Configs -> CfgView] /\ faults' \in 0..MaxFaults
    BY <1>0, <1>2 DEF Patch, TypeOK
  <2> QED
    BY <2>1, <2>2 DEF TypeOK
<1>3. CASE CreateParameter \/ DeleteComponent \/ Resync
  BY <1>3 DEF CreateParameter, DeleteComponent, Resync, Enqueue, TypeOK
<1>4. ASSUME NEW c \in Configs, CreateConfigMap(c) PROVE TypeOK'
  BY <1>4 DEF CreateConfigMap, Enqueue, TypeOK
<1>5. ASSUME NEW c \in Configs, EditConfig(c) PROVE TypeOK'
  BY <1>0, <1>5 DEF EditConfig, Enqueue, TypeOK
<1>6. CASE UNCHANGED vars
  BY <1>6 DEF vars, TypeOK
<1> QED
  BY <1>1, <1>2, <1>3, <1>4, <1>5, <1>6 DEF Next, Environment

\* The model of the controller is well typed for every set of configs and
\* template items and every bound on API errors and edits.
THEOREM TypeCorrect == Spec => []TypeOK
BY InitTypeOK, NextTypeOK, PTL DEF Spec

-----------------------------------------------------------------------------
(* The patch without other writers.                                       *)

\* Between the read and the patch, each computed config is the running one
\* or the running one, unbound, bound to its generated ConfigMap.
PatchReady ==
    pc = "patch" =>
        \A c \in Configs :
            \/ expected[c] = configs[c]
            \/ configs[c].ref = "nil" /\ expected[c] = Bound(configs[c])

IInv == TypeOK /\ PatchReady

LEMMA InitIInv == Init => IInv
BY InitTypeOK DEF Init, IInv, PatchReady

\* With no edits allowed, only the patch writes the configs, and a
\* reconcile computes its configs from the configs it reads: updateConfig-
\* Object binds only configs that needUpdateConfigObject found unbound.
LEMMA NextIInv ==
    ASSUME MaxEdits = 0, IInv, [Next]_vars PROVE IInv'
<1>1. TypeOK'
  BY NextTypeOK DEF IInv
<1> SUFFICES PatchReady'
  BY <1>1 DEF IInv
<1>2. CASE Reconcile
  <2>1. UNCHANGED configs /\ pc = "idle"
    BY <1>2 DEF Reconcile
  <2>2. CASE pc' = "patch"
    <3>1. expected' = updateConfigsForParameterTemplate
      BY <1>2, <2>1, <2>2 DEF Reconcile
    <3> QED
      BY <2>1, <3>1 DEF PatchReady, updateConfigsForParameterTemplate,
         Checked, needUpdateConfigObject
  <2> QED
    BY <2>2 DEF PatchReady
<1>3. CASE Patch
  BY <1>3 DEF Patch, PatchReady
<1>4. CASE Environment
  <2>1. ~\E c \in Configs : EditConfig(c)
    BY DEF IInv, TypeOK, EditConfig
  <2>2. UNCHANGED <<configs, pc, expected>>
    BY <1>4, <2>1 DEF Environment, CreateParameter, DeleteComponent,
       Resync, CreateConfigMap
  <2> QED
    BY <2>2 DEF IInv, PatchReady
<1>5. CASE UNCHANGED vars
  BY <1>5 DEF vars, IInv, PatchReady
<1> QED
  BY <1>2, <1>3, <1>4, <1>5 DEF Next

\* A step from the patch state that changes the configs is the patch,
\* which writes the computed configs.
LEMMA PatchStep ==
    ASSUME MaxEdits = 0, IInv, [Next]_vars, pc = "patch", configs' # configs
    PROVE  configs' = expected
<1>1. ~Reconcile
  BY DEF Reconcile
<1>2. ~Environment
  <2>1. ~\E c \in Configs : EditConfig(c)
    BY DEF IInv, TypeOK, EditConfig
  <2> QED
    BY <2>1 DEF Environment, CreateParameter, DeleteComponent, Resync,
       CreateConfigMap
<1>3. Patch
  BY <1>1, <1>2 DEF Next, vars
<1> QED
  BY <1>3 DEF Patch

\* When no other writer edits the Component's configs, the merge patch of
\* a reconcile changes nothing but binding unbound configs to their
\* generated ConfigMaps: the lost update that violates PatchOnlyBinds
\* needs an edit between the read and the patch.
THEOREM PatchOnlyBindsProof == MaxEdits = 0 => (Spec => PatchOnlyBinds)
<1> SUFFICES ASSUME MaxEdits = 0 PROVE Spec => PatchOnlyBinds
  OBVIOUS
<1>1. IInv /\ [Next]_vars
        => [pc = "patch" /\ configs' # configs =>
              \A c \in Configs :
                 configs'[c] # configs[c] =>
                    configs[c].ref = "nil" /\ configs'[c] = Bound(configs[c])]_vars
  BY PatchStep DEF IInv, PatchReady
<1>2. Spec => []IInv
  BY InitIInv, NextIInv, PTL DEF Spec
<1> QED
  BY <1>1, <1>2, PTL DEF Spec, PatchOnlyBinds

=============================================================================
