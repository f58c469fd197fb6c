# TLA+ models of the KubeBlocks operations and parameters controllers

This directory has TLA+ models of the control logic in `src/`. It also has
the TLC configurations that model-check them and the TLAPS proofs of their
main invariants. Every definition is translated from the Go source. The
lines each definition models are listed in `PROJECT.json` under `map`.

## The system and its parts

| Part | Source | State | Operations | Module |
|---|---|---|---|---|
| Progress ledger | `pkg/operations/ops_progress_util.go` 46-160 | `ProgressDetails` rows (key, status, message, start/end time); events | `setComponentStatusProgressDetail`, `updateProgressDetailTime`, `sendProgressDetailEvent` | `ProgressDetail` |
| Rolling-update progress | `ops_progress_util.go` 162-374 | the pods, the OpsRequest phase, the ledger, the returned counts | `handleComponentStatusProgress` with its running and cancelling loops | `RollingUpdateProgress` |
| Horizontal-scaling progress | `ops_progress_util.go` 376-513 | InstanceSet status per pod, ledger, counts | `handleComponentProgressForScalingReplicas`, scale-out and scale-in loops | `HScaleProgress` |
| Shard-scaling progress | `ops_progress_util.go` 530-621 | shard components, ledger, counts | `handleComponentProgressForScalingShards`, `handleScaleOutForShards`, `handleScaleInForShards` | `ShardScaleProgress` |
| Volume expansion | `pkg/operations/volume_expansion.go` | PVCs, Cluster request, ledger, OpsRequest phase, timeout | `Action`, `ReconcileAction`, `handleVCTExpansionProgress` | `VolumeExpansion` (partly) |
| Reconfigure controller | `controllers/parameters/reconfigure_controller.go` | ConfigMap data and last-applied annotation, reload tasks, `ParameterPhase` | `Reconcile`, `sync`, `performUpgrade`, `updateConfigCMStatus` | `ReconfigureController` (partly) |
| kbagent action client | `pkg/controller/lifecycle/kbagent.go` | the action definition, ready objects, target pods, agent replies, runs per pod | `checkedCallAction`, `precondition`, `SelectTargetPods`, `callActionWithSelector` | `KbAgentAction` (partly) |
| Template extension controller | `controllers/parameters/parametertemplateextension_controller.go` | Component configs, ComponentParameter and generated ConfigMaps, the work queue, a reconcile between its read and its patch | `Reconcile`, `updateConfigsForComponent`, `updateConfigObject`, `update` | `TemplateExtension` |
| Utilities, data-protection helpers, docgen, constants | `pkg/controllerutil`, `pkg/dataprotection/utils`, `hack/docgen`, `pkg/constant` | none | glue, I/O and constants | not modelled |

How the parts interact:
- The OpsRequest controller calls an ops handler's `ReconcileAction` on every reconcile.
- Each handler (rolling update, horizontal scaling of replicas or shards, volume expansion) computes a progress row per object.
- It stores the row through the one merge rule of the progress ledger, which also emits the events.
- The handler returns (expected, completed) counts. From them the controller decides the phase.
- Pods, PVCs and InstanceSets change under the handler, because Kubernetes changes them.
- The user can cancel the OpsRequest at any time.
- Separately, the reconfigure controller watches configuration ConfigMaps. When the data differs from the last-applied annotation it generates reload tasks and runs them in order; a task reloads through the executors, which call the kbagent client for dynamic reloads.
- The template extension controller watches Components and ComponentParameters. It binds each externally managed config to the ConfigMap the parameters controller generated, by a merge patch of the Component.
- The kbagent client is what component controllers use to run lifecycle actions (member join/leave, switchover, reconfigure...) in the pods through the agent sidecar.

## Modules

`ProgressLedger` is the abstract specification of the ledger, with one variable `ledger` (a function from keys to rows) and one action `Write`: a write may add rows, drop only Pending rows, and change a kept row only as `Kept` allows (a Failed row stays or turns Succeed; the started and ended marks are never lost). It is what every pass of a handler promises about the rows it leaves behind.

`ProgressDetail` has no variables. It holds the ledger as operators:
- a row is a record `[status, msg, started, ended]`;
- the ledger is a function from `ObjectKey` to row;
- `MergeRow` is `setComponentStatusProgressDetail` (append, its two early returns, overwrite, then time stamping);
- `EventSent` says when an event leaves the call;
- `SetDetails` and `SendEvents` are one pass of calls over distinct keys.

The Go slice is keyed by a search on `ObjectKey`, and a row is appended only
when that search fails, so a function is a faithful encoding.

`RollingUpdateProgress` is `handleComponentStatusProgress` for pods updated
in place or re-created.
- Its constants are `Pods`, `UpdatedPodSet` (the filter of `updatedPodSet`) and `Replicas`.
- Its variables are:
  - `pods`, the observed pods;
  - `phase`, `Running` or `Cancelling`;
  - `details`, the ledger;
  - `lastEvent`, the last event per pod;
  - `progress`, the counts the last call returned.
- A handler call lists the pods once and processes the snapshot, so it is one atomic action:
  - `HandleRollingUpdate` models `handleProgressForPodsRollingUpdate`;
  - `HandleCancelProgress` models `handleCancelProgressForPodsRollingUpdate`, including the pruning of Pending rows and the `expectReplicas = len(details)` override.
- The environment actions are what Kubernetes and the user do:
  - `DeletePod` and `RemovePod`;
  - `CreatePod` with or without the change applied;
  - `PodReady`, `PodUnavailable` and `PodFailedAndTimedOut`;
  - `ApplyInPlace`, the per-operation `podApplyOps` becoming true;
  - `CancelOps`.
- Creation times are abstracted to three epochs: before the start, after the start, and after the cancellation. `notRecreatedDuringOperation` compares a pod's epoch with the epoch of the timestamp it is given.
- Messages are abstracted to which message key wrote them: `op`, `rollback`, or `none` for Pending.

`VolumeExpansion` is the volume expansion OpsRequest for one component and one volume claim template.
- Constants: `Instances` (one PVC each) and `TemplateInstances` (instances named from `spec.instances` templates).
- Variables: `pvcs` (exists, requested and actual size, Bound, resizing), `clusterReq`, `actionDone`, `timedOut`, `opsPhase`, `details`, `progress`, and `sent`, the events sent as (key, status, message).
- Sizes are abstracted to 0 (no capacity), Old and New.
- `Action` is `Action` (setting the template's request). `ReconcileAction` is one whole `ReconcileAction` call: list the PVCs, classify each tracked one (`PVCDetail`, `Expanded`, `pvcIsResizing`), merge the rows, count, patch the status if it changed, then `Decide` the phase. The events leave during the merge, before the patch. A failed patch returns with the error, and the status computed in memory is lost.
- The environment is the workload controller, the CSI driver and the clock: `UpdatePVCRequest`, `StartResize`, `FinishResize`, `DeletePVC`, `CreatePVC`, `BindPVC`, `LosePV`, `TimeOut`.
- Partly modelled: `Action`'s validation and the cancel path (`Cancel` is not implemented for this handler) are left out.

`HScaleProgress` is the replicas part of horizontal scaling.
- Constants: `CreatedPods`, `DeletedPods` (disjoint) and `NeedCheckRole`.
- Variables: `its` (per pod: in the current revisions, the InstanceFailure, InstanceReady and InstanceAvailable conditions, role member), `details`, `progress`.
- `HandleScalingReplicas` is one call: the scale-out loop (`ScaleOutStatus`, with its two bare `continue`s as `Skip`, and `ScaleOutCompleted`) and the scale-in loop (`ScaleInStatus`), merged into the ledger.
- The environment is the InstanceSet controller: create, ready, available, role, crash, failure set and cleared, terminate, remove.

`ShardScaleProgress` is the shards part of horizontal scaling.
- Constants: `Comps` (names), `InitialComps`, `ShardTargets` (the counts an operation may ask for, one is chosen at `Init`) and `MaxRebuilds`.
- Variables: `shards`, `comps` (exists, created after the start, being deleted, phase), `details`, `progress`, `rebuilds`, `rebuilding` (shards another operation deleted and will create again).
- `HandleScalingShards` is one call of `handleComponentProgressForScalingShards`: scale out (`ScaleOutUpdates`, `ScaleOutCompleted`) or scale in (`ScaleInUpdates` with both loops, the `ScaleInDone` shortcut), then the clamp of the count to the shards updated.
- The environment: the sharding controller adds, settles, marks and removes shards, and another operation may rebuild a shard up to `MaxRebuilds` times. A rebuild is three steps apart: `RebuildDelete` marks the shard deleted, `RemoveShard` removes it, `RebuildCreate` creates it again under its name, created after the start. A pass may run between any two of them. The controller keeps `Kept` shards at the target: the live ones and those being rebuilt.
- `Settled` judges the operation's own shards: `Kept` is at the target, no shard outside `rebuilding` is being deleted, and no shard outside `InitialComps \cup rebuilding` is still being created.

`ReconfigureController` is the reconfigure controller of one ConfigMap.
- Constants: `NTasks` (reload tasks per pass), `MaxVersion` (edits explored), `Outcomes` (what an executor may return: a status and an error flag) and `Related` (what the related-object lookups find).
- Variables: `cmData` (the data's version), `modifies` (the edits that changed a parameter), `applied` (the last-applied annotation), `phase`, `reloaded` (the version each task pushed), `pc` (the task running, or `Idle`) and `snap` (the pass's version).
- `Reconcile` runs `Reconcile` and `sync` up to the tasks. `IsModify` is the patch against the last-applied data. `ExecReload` is one iteration of `performUpgrade`, with `StatusPhase` and `UpdateConfigCMStatus` (a patch that may fail). `Restart` loses a pass between two tasks. `EditConfig` is a user edit.
- Partly modelled: the diff engine and the task planner are outside `src/`; their result is abstracted to whether an edit changed a parameter and to `NTasks` tasks.

`KbAgentAction` is one lifecycle action called through the kbagent client.
- Constants: `Pods`, `ThePod`, `RoleOf` (role labels), `AgentPods` (pods with the agent container), `MaxCalls` (how often the caller calls) and `Specs` (action definitions).
- Variables: `spec`, `ready` (the InstanceSet, Component and Cluster readiness), `calling`, `targets`, `order` (pods called, in order), `oks` and `outs` (pods that replied without error, with an output), `output`, `result`, `executed` (runs per pod) and `calls`.
- `CheckedCallAction` is `checkedCallAction` and `callAction` up to the loop: the definition check, `precondition`, the request build, `SelectTargetPods`, the no-pod error. `CallPod` is one iteration of the loop: skip a pod without agent, abort on an HTTP error or an error response, else keep the first output (`KeptOutput`). `ReturnOutput` ends the loop. `ReadyChange` is the readiness changing at any time, during a call too.
- Partly modelled: the request builders of each action, `formatError`'s error taxonomy and the endpoint resolution are abstracted to the kind of a reply.

`TemplateExtension` is the parameter template extension controller for one Component.
- Constants: `Configs` (the config names), `Items` (those with a template item in the ComponentParameter), `MaxFaults` (API errors explored) and `MaxEdits` (edits by other writers).
- Variables: `configs` (per config: ExternalManaged, named, and the ConfigMap reference: nil, the generated one, or one a user set), `deleting`, `supported`, `cpExists`, `cms` (the generated ConfigMaps), `queued` (the work queue, one flag), `pc`, `expected`, `faults`, `edits`.
- `Reconcile` is `Reconcile` up to `update`: a failed Get requeues, a deleting Component or an unsupported version ends the pass, otherwise `updateConfigsForParameterTemplate` computes the expected configs on a copy (`needUpdateConfigObject`, the template item check, `Bound` after a successful ConfigMap Get). `Patch` is `update`: the merge patch from the configs read to the expected ones; it is an event on the Component, which enqueues the key again.
- The environment: the ComponentParameter and the ConfigMaps are created, another writer edits a config, the Component is deleted, the informer resyncs. `Enqueue(kind)` enqueues for the two watched kinds only; a ConfigMap event enqueues nothing.

## Runs

| Run | cfg | Checks | Shows |
|---|---|---|---|
| `rolling_update_progress` | `MCRollingUpdateProgress.cfg` | `TypeOK`, `EventsMatchLedger`, `TimestampsConsistent`, `ProgressWithinExpected`, `LedgerRefined` | Pods are deleted, re-created, ready, unavailable or failed in any order, and the operation may be cancelled at any time. Through all of it the ledger implements `ProgressLedger` (`LedgerRefined`, the abstract spec instantiated with `Keys <- Pods, ledger <- details`): Failed rows are never dropped or regressed, timestamps are never lost, and only Pending rows vanish, in the cancel pass too. The last event of a pod agrees with its row. Completed rows have an EndTime. The reported progress never exceeds the expected count. |
| `rolling_update_terminal_regress` | `MCRollingUpdateProgress_regress.cfg` | `TerminalNeverRegresses` (expected violation) | The spec says terminal states never regress. The code protects only Failed: a Succeed row goes back to Processing when its pod is deleted again (`ops_progress_util.go:86`). |
| `volume_expansion` | `MCVolumeExpansion.cfg` | `TypeOK`, `FailedOnlyAfterTimeout`, `SucceededLedgerComplete`, `RowsAnnounced`, `SucceedOnlyWhenExpanded` | PVCs resize, lose their PV, are deleted and re-created, status patches fail, the clock passes the timeout. A Succeed phase comes only when every PVC is expanded and Bound, and with a stored ledger of Succeed rows. Failed comes only from the timeout. Every stored non-Pending row was announced by an event. |
| `volume_expansion_template_instances` | `MCVolumeExpansion_template.cfg` | `SucceedOnlyWhenExpanded` (expected violation) | Instances named from templates are not tracked (`volume_expansion.go:304`), so the operation succeeds with such a PVC not expanded. |
| `hscale_progress` | `MCHScaleProgress.cfg` | `TypeOK`, `CountBackedByLedger` | The completed count the replicas handler reports never exceeds the rows in a terminal status, although the scale-out loop passes over some pods with a bare `continue` (neither counted nor written) and the merge rule ignores some updates. |
| `shard_scale_progress` | `MCShardScaleProgress.cfg` | `TypeOK`, `SettledUnlessRebuilt` | With shards added, settled, marked and removed in any order, a pass reporting n/n before any rebuild sees the shards at their count, none being deleted and none it added still being created, in both directions. |
| `shard_scale_rebuilt` | `MCShardScaleProgress_rebuild.cfg` | `FullProgressMeansSettled` (expected violation) | A rebuild by another operation breaks the count. In a scale-in, a shard removed for a rebuild makes the listed count drop to the target, so the shortcut reports n/n while a surplus shard is still being deleted (`ops_progress_util.go:617`). In a scale-out (found with `ShardTargets = {5}`), a rebuilt old shard counts as a new one and the clamp hides the excess (`ops_progress_util.go:552`). |
| `reconfigure` | `MCReconfigureController.cfg` | `TypeOK`, `AppliedMeansReloaded` | With edits during a pass, restarts between tasks, every executor status and failing status patches, the last-applied annotation never claims a parameter change that some task has not reloaded. |
| `reconfigure_pause_not_held` | `MCReconfigureController_pause.cfg` | `FailedAndPauseHolds` (expected violation) | The spec says FailedAndPause needs an operator. `Reconcile` never reads the phase, so the next reconcile of the same data runs the reload again (`reconfigure_controller.go:114`). |
| `kbagent_action` | `MCKbAgentAction.cfg` | `TypeOK`, `FirstOutputWins`, `SuccessRanOnAllTargets` | Over every precondition and selector kind, readiness changing during a call, every reply kind and three calls: a successful call ran the action without error on every target with an agent, and returns the first output in call order. |
| `template_extension` | `MCTemplateExtension.cfg` | `TypeOK`, `Converges` (under `FairSpec`) | Two configs, one with a template item, every initial config view, one API error and one edit by another writer: a config that stays wanted is eventually bound for good, although a ConfigMap created after the last reconcile enqueues nothing; the informer resync finds it. |
| `template_extension_lost_update` | `MCTemplateExtension_lost.cfg` | `PatchOnlyBinds` (expected violation) | The merge patch is computed from the Component read at the start of the reconcile and sent without an optimistic lock (`parametertemplateextension_controller.go:175`): a config another writer edited in between is put back to its old value. |

Bounds of the rolling-update run:
- There are two pods, both affected by the operation (`UpdatedPodSet = {}` means every pod).
- Pod names are interchangeable, so symmetry over them is sound.
- Two pods are enough for every per-pod combination, and for passes in which one pod is done and the other is not.
- The pod state space is finite: three epochs and four booleans per pod. This needs no counter bound.
- The run reaches 171 055 distinct states in a few seconds.

Bounds of the other runs:
- Volume expansion: two instances, symmetric when none is a template instance. Two are enough for one expanded and one not, and for a pass with one PVC missing. Three sizes cover "no capacity yet", old and new. Deleting and re-creating a PVC is unbounded but finite (booleans).
- Horizontal scaling: two pods to create and one to delete, symmetry over the created pods, `NeedCheckRole = TRUE` so that the role check is reached (204 876 states).
- Shard scaling: three initial shards, targets 1, 2, 3 and 5 (scale in by one and two, no change, scale out by two), five names, one rebuild.
- Reconfigure: two tasks (a pass interrupted between them, or failing at the second after the first reloaded), three edits (an edit during a pass, and two edits of which only one changes a parameter), all five executor statuses.
- Template extension: two configs (one with a template item, one without), all eight config views at `Init`, one API error (enough to requeue at the read and at the patch), one edit (enough for the lost update).
- kbagent: three pods (one the action's own, one a leader, one without agent), nine action definitions covering every precondition, selector and the undefined action, three calls (two retries).

Four behaviours the models show are accepted by the code and not checked as properties: a volume expansion pass after the 30 minute timeout that finds every PVC expanded returns Succeed, because completion is checked before the timeout (`volume_expansion.go:193`; the spec says the timeout forces Failed); a scale-in of shards counts a shard deleted between two passes complete without writing a row for it (`ops_progress_util.go:617`), an executor returning ESNone together with an error ends the reconfigure pass Finished and records the data as applied (`reconfigure_controller.go:246`; what an executor returns is decided outside `src/`), and a kbagent action called again after one pod's error runs a second time on the pods that ran it (the `TODO: exactly once` of `kbagent.go:151`).

Each property has a mutant (see `PROJECT.json`): a plausible bug in the code that TLC catches with the property.

## Fairness and liveness

Only `template_extension` checks liveness. Its `FairSpec` adds weak fairness of `Reconcile`, `Patch` and `Resync`:
- `Reconcile`: a key in the work queue is handed to a worker by controller-runtime's worker loop;
- `Patch`: a worker that read the Component finishes its reconcile;
- `Resync`: the informer's periodic resync re-enqueues every Component.

No fairness is assumed of the environment: the ComponentParameter and the ConfigMaps may never appear, edits and API errors are bounded. `Converges` is conditional on the config staying wanted. Without `WF(Resync)` it fails: a ConfigMap created after the last reconcile enqueues nothing (`SetupWithManager` watches Components and ComponentParameters only), and the config would stay unbound.

The other runs check safety only. Their handlers are re-run by the work queue too, but the pods, PVCs, shards, executors and agents they wait for may fail forever, and the code does not justify assuming otherwise.

## Proofs

- `ProgressDetailTheorems` proves the typing lemmas of the ledger operators: `MergeRow`, `SetDetails` and `SendEvents` keep rows and events well typed.
- `RollingUpdateProgressProofs` proves two theorems, for every finite set of pods and every `UpdatedPodSet \subseteq Pods`:
  - `TypeCorrect`: `Spec => []TypeOK`. `TypeOK` is inductive. The proof has one step per action, and the environment actions are split per pod with `PICK`.
  - `ProgressBounded`: `Spec => []ProgressWithinExpected`. This needs no strengthening beyond `TypeOK`, because each handler step re-establishes the bound from the pass's own updates:
    - in the running pass, the completed pods are a subset of the listed pods, and those are within `UpdatedPodSet` or `Pods`, whose size is the expected count;
    - in the cancelling pass, the completed pods are a subset of the keys of the new ledger, and the expected count is that ledger's size.

  Cardinality facts come from `FiniteSetTheorems`.

- `KbAgentActionProofs` proves, for every `Pods`, `RoleOf`, `AgentPods`, `Specs` and `MaxCalls` the assumptions allow:
  - `TypeCorrect`: `Spec => []TypeOK`;
  - `SuccessRanProof`: `Spec => SuccessRanOnAllTargets`.

  Both rest on the inductive invariant `IInv`. `TypeOK` alone is not inductive, because `executed[p] <= MaxCalls` needs a per-call count. `IInv` says four things:
  - during a call the result is still the previous error;
  - the pods called are targets, and each called pod with an agent is in `oks`;
  - every pod in `oks` ran the action;
  - `executed[p]`, plus one if `p` is still to be called in the call in progress, is at most `calls`.

  A successful step can then only be `ReturnOutput`. Its guard `Uncalled = {}` and the invariant give the property.

- `RollingUpdateProgressProofs` also proves the refinement:
  - `LedgerInvariant`: `Spec => []LedgerInv`. A row with a timestamp belongs to a pod that has started (`PStarted`: gone, changed, being deleted or created after the start), and a Pending row has no timestamp. No pod change undoes `PStarted`, and the merge stamps a time only for a started pod.
  - `Refinement`: `Spec => LedgerRefined`. The initial ledger is empty. Each step is a `Ledger!Write` or leaves `details` alone. The one hard case is the cancel pass: it prunes Pending rows and may add a row for the same pod again in the same step. `LedgerInv` is needed there, because a pruned Pending row carries no marks that the new row could lose. `MergeRowShape` (in `ProgressDetailTheorems`) gives the shape of a merged row, and `MergeRowKept` shows it satisfies `Kept`.

- `RollingUpdateProgressProofs` also proves the events:
  - `EventsMatchLedgerProof`: `Spec => []EventsMatchLedger`;
  - `TimestampsConsistentProof`: `Spec => []TimestampsConsistent`.

  `HandlerPass` shows that both handlers make one pass of `SetDetails` over the stored ledger, or over the ledger with its Pending rows pruned. Two lemmas of `ProgressDetailTheorems` carry the properties through that pass:
  - `SetDetailsAnnounced`: every row the pass writes that is not Pending was announced by an event with its status and message;
  - `SetDetailsStamped`: a completed row has an end time and a Processing row a start time.

  An early return sends nothing and changes nothing. The prune removes only Pending rows, which the property does not constrain.
- `KbAgentActionProofs` also proves `FirstOutputWinsProof`: `Spec => []FirstOutputWins`. It needs `NoOutputAssumption` (the nil output is no pod) and the inductive invariant `OutputFirst`: the kept output is the first output, in call order, among the pods called so far. `AppendKeepsFirst` and `AppendOutputFirst` show that calling one more pod keeps this. `FirstIsChosen` relates it to the `CHOOSE` of the property.
- `ReconfigureControllerProofs` proves:
  - `TypeCorrect`;
  - `AppliedMeansReloadedProof`: `NoneMeansNoError => (Spec => []AppliedMeansReloaded)`.

  The hypothesis says that an executor returning `ESNone` returns no error. `performUpgrade` treats `ESNone` with an error as success, so without the hypothesis a pass that reloaded nothing would be recorded as applied. TLC explores only outcomes that satisfy it.

  The inductive invariant `IInv` says three things:
  - edits and versions never run ahead of the data;
  - during a pass, the annotation is not ahead of the pass's version;
  - the tasks done in the pass have pushed that version.

  `ModifiesReloaded` states the property without the maximum, and `BoundedMaximum` turns it into the property stated with `LastModify`.
- `HScaleProgressProofs` proves:
  - `TypeCorrect`;
  - `CountBacked`: `Spec => []CountBackedByLedger`.

  The scale-out loop passes over some pods without writing or counting them, and the merge ignores some updates, so the count and the rows are not in step; the argument goes through the details a pass sets instead. `CountedUpdated` shows that every pod a pass counts gets a Succeed or Failed detail. `CountsAdd` shows that the two loops' counts add up over disjoint sets. The merge keeps a completed status completed.
- `VolumeExpansionProofs` proves, for every finite set of instances:
  - `TypeCorrect`;
  - `FailedOnlyAfterTimeoutProof`, `SucceededLedgerCompleteProof` and `RowsAnnouncedProof`;
  - `SucceedOnlyWhenExpandedProof`: `TemplateInstances = {} => (Spec => SucceedOnlyWhenExpanded)`.

  The three invariants are proved from the inductive invariant `IInv`. It is the three of them together with `NoFailedRow`: `handleVCTExpansionProgress` never sets a Failed row. That extra conjunct is needed for two reasons:
  - a pass counts Failed rows as completed but not as Succeed;
  - the early return of the merge keeps a Failed row against a Succeed detail.

  The hypothesis of `SucceedOnlyWhenExpandedProof` is that of the passing run. With template instances the property fails, as the run `volume_expansion_template_instances` shows.
- `ShardScaleProgressProofs` proves, for every finite set of shard names and every set of shard targets:
  - `TypeCorrect`;
  - `SettledProof`: `Spec => SettledUnlessRebuilt`, through the lemma `Spec => []IInv`.

  `IInv` has a part for every direction and a part about rebuilds:
  - before a rebuild nothing is being rebuilt, and a shard being rebuilt is, while it exists, marked deleted (`RebuildingGone`);
  - in a scale-out (`ScaleOutInv`): only shards being rebuilt are marked deleted, every initial shard is listed or being rebuilt, at most `shards` are kept, and every listed non-initial shard was created after the start. Until a rebuild, no initial shard is marked as created after the start.
  - in a scale-in (`ScaleInInv`): nothing is added (listed and rebuilding shards are initial), at least `shards` shards are kept, and the ledger names only initial shards.

  The settled property alone is not inductive: it speaks of a pass, and a pass reads state the environment built over many steps. The direction parts carry what the count needs across those steps. Each environment action has a lemma of its own; `NoRebuild` reduces `Kept` to the live shards while `rebuilds = 0`.

  `SettledProof` is a cardinality argument over `FiniteSetTheorems`:
  - Scale-out: the counted shards are a subset of `Listed \ InitialComps`, which has at most `shards - OldShards` elements. A full count therefore makes them equal (`FS_Subset`), and the listed shards number exactly `shards`.
  - Scale-in: the rows of vanished shards are a subset of `InitialComps \ Listed`. A full count, or the shortcut, leaves at most `shards` listed. At least that many are live, so every listed shard is live.
- `TemplateExtensionProofs` proves:
  - `TypeCorrect`;
  - `PatchOnlyBindsProof`: `MaxEdits = 0 => (Spec => PatchOnlyBinds)`.

  The inductive invariant `PatchReady` says that between the read and the patch, every computed config is either the running one or the running one, unbound, bound to its ConfigMap. Without other writers only the patch writes the configs, so that computed config is exactly what gets written. With one edit, the run `template_extension_lost_update` finds the lost update. The theorem thus shows that a concurrent writer is needed for it.

Proofs that need a restriction state it as the hypothesis of an implication, never as an assumption on the constants:
- `NoneMeansNoError`;
- `TemplateInstances = {}`;
- `MaxEdits = 0`.

The only constant assumption added for a proof is `NoOutputAssumption`. It holds in every run, since `NoOutput` is a model value outside `Pods`.

Where a proof needed a `CASE` of the model unfolded, the proof module defines the `LET` values of the handler by name (`Diff`, `UpdateShards`, `CompletedCount`, `Updates`) and shows `HandlerUnfolded` once.

Only model-checked: `Converges`, the liveness of the template extension controller. The violation runs are counterexamples: TLC finds them, and there is nothing to prove.

Out of the prover's reach, and left to TLC:
- liveness and `ENABLED` (`Converges`);
- properties of recursive definitions for every input.

No module of this project declares a RECURSIVE operator.

## Plan

Done:
1. Progress ledger and rolling-update progress, with proofs of `TypeOK` and `ProgressWithinExpected`.
2. Volume expansion: `ReconcileAction` with PVC states, the ledger, the status patch, the timeout and the phase decision.
3. Horizontal scaling progress of replicas and of shards.
4. Reconfigure controller: reconcile, sequential reload tasks, the phase machine, restarts between tasks, edits during a pass.
5. kbagent action client: definition and precondition checks, target selection, sequential fan-out, caller retries, with proofs of `TypeOK` and `SuccessRanOnAllTargets`.

6. Parameter template extension controller, with liveness under fairness of the workers and the resync, and the lost update of its merge patch.
7. The abstract ledger specification `ProgressLedger`, refined by the rolling-update handler, checked by TLC and proved by TLAPS.

8. Proofs of every safety invariant and action property of the passing runs: `CountBackedByLedger`, `AppliedMeansReloaded`, `FirstOutputWins`, `EventsMatchLedger`, `TimestampsConsistent`, the volume expansion properties, `SettledUnlessRebuilt`, and `PatchOnlyBinds` without other writers.

Next:
9. Refinement of `ProgressLedger` by the scaling and volume expansion handlers.
10. Liveness of the reconfigure pass and of the cancel path under fairness of the handlers.

## Not modelled

- `hack/docgen` is a documentation generator: pure I/O.
- `pkg/dataprotection/utils` holds helper lookups and formatting for backups, with no state machine.
- `pkg/constant` holds constants.
- The Kubernetes client glue in `pkg/controllerutil/util.go`.
- `syncProgressToOpsRequest` only formats the count and patches.
