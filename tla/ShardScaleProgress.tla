------------------------- MODULE ShardScaleProgress -------------------------
(***************************************************************************)
(* Progress of a horizontal scaling OpsRequest on the shards of a sharding *)
(* component: handleComponentProgressForScalingShards of                   *)
(* pkg/operations/ops_progress_util.go with handleScaleOutForShards and    *)
(* handleScaleInForShards.  A shard is a Component; the sharding controller *)
(* creates the new ones and deletes the surplus (the environment actions), *)
(* and another operation may rebuild a shard (delete it and create it      *)
(* again under the same name, three steps apart: the deletion timestamp,  *)
(* the removal and the new creation), which the code's comment            *)
(* anticipates.  One                                                      *)
(* handler call lists the shards once, so it is one atomic step.           *)
(*                                                                         *)
(* A shard is created before or after the operation's start timestamp and  *)
(* its deletion timestamp, if any, is after it: the operation's own        *)
(* deletions.                                                              *)
(***************************************************************************)
EXTENDS ProgressDetail, Integers

CONSTANTS
    Comps,          \* the names a shard component may have
    InitialComps,   \* the shards when the operation starts
    ShardTargets,   \* the shard counts an operation may ask for
    MaxRebuilds     \* how many rebuilds by other operations are explored

ASSUME CompsAssumption == IsFiniteSet(Comps) /\ InitialComps \subseteq Comps
ASSUME ShardTargetsAssumption == ShardTargets \subseteq Nat
ASSUME MaxRebuildsAssumption == MaxRebuilds \in Nat

\* lastConfiguration.Components[...].Shards
OldShards == Cardinality(InitialComps)

\* ComponentPhase values the handler tells apart.
CreatingPhase == "Creating"
RunningPhase  == "Running"
FailedPhase   == "Failed"

\* The message of a row is the opsMessageKey it was written with; "unset"
\* when the scale-in pass saw no deleting shard and kept the caller's key.
SMsgs == {"create", "delete", "unset"}

\* A shard component: whether it exists, was created after the start
\* timestamp, has a deletion timestamp, and its phase.
CompView == [exists : BOOLEAN, after : BOOLEAN, deleting : BOOLEAN,
             phase : {CreatingPhase, RunningPhase, FailedPhase}]

VARIABLES
    shards,     \* pgRes.shards, the shard count asked for
    comps,      \* the shard components, per name
    details,    \* compStatus.ProgressDetails, keyed by component
    progress,   \* (expect, completed) returned by the last call
    rebuilds,   \* rebuilds started by other operations
    rebuilding  \* shards another operation deleted and will create again

vars == <<shards, comps, details, progress, rebuilds, rebuilding>>

TypeOK ==
    /\ shards \in ShardTargets
    /\ comps \in [Comps -> CompView]
    /\ DOMAIN details \subseteq Comps
    /\ details \in [DOMAIN details -> Row(SMsgs)]
    /\ progress \in [expect : Nat, completed : Nat]
    /\ rebuilds \in 0..MaxRebuilds
    /\ rebuilding \subseteq Comps

Init ==
    /\ shards \in ShardTargets
    /\ comps = [c \in Comps |->
                  [exists |-> c \in InitialComps, after |-> FALSE,
                   deleting |-> FALSE, phase |-> RunningPhase]]
    /\ details = [k \in {} |-> NewDetail(Pending, "create")]
    /\ progress = [expect |-> 0, completed |-> 0]
    /\ rebuilds = 0
    /\ rebuilding = {}

\* What ListShardingComponents returns.
Listed == {c \in Comps : comps[c].exists}

-----------------------------------------------------------------------------
(* The handler.                                                            *)

\* Mutant: a phase the switch does not name leaves the status unset.
ShardStatusUnset(phase) ==
    CASE phase = RunningPhase -> Succeed
      [] phase = FailedPhase  -> Failed
      [] OTHER                -> ""

\* The switch of handleScaleOutForShards on the component phase.
ShardStatus(phase) ==
    CASE phase = RunningPhase -> Succeed
      [] phase = FailedPhase  -> Failed
      [] OTHER                -> Processing

\* handleScaleOutForShards: rows and count for the shards created after
\* the start.
ScaleOutUpdates ==
    [c \in {c \in Listed : comps[c].after} |->
        NewDetail(ShardStatus(comps[c].phase), "create")]

ScaleOutCompleted ==
    Cardinality({c \in Listed : comps[c].after
                                /\ comps[c].phase # CreatingPhase})

\* handleScaleInForShards, first loop: the shards being deleted.  Second
\* loop: every row whose shard is no longer listed succeeds, with the last
\* opsMessageKey set.  The keys of the two loops are disjoint.
ScaleInUpdates ==
    LET deleting == {c \in Listed : comps[c].deleting}
        key == IF deleting = {} THEN "unset" ELSE "delete"
    IN [c \in deleting \cup (DOMAIN details \ Listed) |->
          IF c \in Listed THEN NewDetail(Processing, "delete")
                          ELSE NewDetail(Succeed, key)]

\* Mutant: the shortcut compares the shards not being deleted.
ScaleInDoneCountingLive ==
    Cardinality({c \in Listed : ~comps[c].deleting}) = shards

\* The shortcut at the end of handleScaleInForShards: all the listed
\* components make up the shard count asked for.
ScaleInDone == Cardinality(Listed) = shards

ScaleInCompleted(updateShards) ==
    IF ScaleInDone THEN updateShards
    ELSE Cardinality(DOMAIN details \ Listed)

\* handleComponentProgressForScalingShards: scale out, scale in or
\* nothing, then completedCount clamped to the shards updated.
HandleScalingShards ==
    LET diff == shards - OldShards
        updateShards == IF diff < 0 THEN -diff ELSE diff
        completed ==
            CASE diff > 0 -> ScaleOutCompleted
              [] diff < 0 -> ScaleInCompleted(updateShards)
              [] OTHER    -> 0
        updates ==
            CASE diff > 0 -> ScaleOutUpdates
              [] diff < 0 -> ScaleInUpdates
              [] OTHER    -> [c \in {} |-> NewDetail(Pending, "create")]
    IN /\ details' = SetDetails(details, updates)
       /\ progress' = [expect |-> updateShards,
                       completed |-> IF completed > updateShards
                                     THEN updateShards ELSE completed]
       /\ UNCHANGED <<shards, comps, rebuilds, rebuilding>>

-----------------------------------------------------------------------------
(* The environment: the sharding controller and other operations.          *)

\* The shards that exist and are not being deleted.
Live == {c \in Listed : ~comps[c].deleting}

\* The shards the cluster keeps: the live ones and those being rebuilt,
\* which the sharding controller neither replaces nor counts as surplus.
Kept == Live \cup rebuilding

AddShard(c) ==
    /\ ~comps[c].exists /\ c \notin InitialComps \cup rebuilding
    /\ Cardinality(Kept) < shards
    /\ comps' = [comps EXCEPT ![c] = [exists |-> TRUE, after |-> TRUE,
                                      deleting |-> FALSE,
                                      phase |-> CreatingPhase]]
    /\ UNCHANGED <<shards, details, progress, rebuilds, rebuilding>>

Settle(c) ==
    /\ comps[c].exists /\ comps[c].phase = CreatingPhase
    /\ \E ph \in {RunningPhase, FailedPhase} :
         comps' = [comps EXCEPT ![c].phase = ph]
    /\ UNCHANGED <<shards, details, progress, rebuilds, rebuilding>>

MarkDelete(c) ==
    /\ c \in Live
    /\ Cardinality(Kept) > shards
    /\ comps' = [comps EXCEPT ![c].deleting = TRUE]
    /\ UNCHANGED <<shards, details, progress, rebuilds, rebuilding>>

RemoveShard(c) ==
    /\ comps[c].exists /\ comps[c].deleting
    /\ comps' = [comps EXCEPT ![c].exists = FALSE]
    /\ UNCHANGED <<shards, details, progress, rebuilds, rebuilding>>

\* Another operation deletes a live shard to create it again: it gets a
\* deletion timestamp after the start.
RebuildDelete(c) ==
    /\ c \in Live /\ rebuilds < MaxRebuilds
    /\ comps' = [comps EXCEPT ![c].deleting = TRUE]
    /\ rebuilds' = rebuilds + 1 /\ rebuilding' = rebuilding \cup {c}
    /\ UNCHANGED <<shards, details, progress>>

\* Once it is gone, the shard is created again under the same name, after
\* the start.
RebuildCreate(c) ==
    /\ c \in rebuilding /\ ~comps[c].exists
    /\ comps' = [comps EXCEPT ![c] = [exists |-> TRUE, after |-> TRUE,
                                      deleting |-> FALSE,
                                      phase |-> CreatingPhase]]
    /\ rebuilding' = rebuilding \ {c}
    /\ UNCHANGED <<shards, details, progress, rebuilds>>

Environment ==
    \E c \in Comps :
        \/ AddShard(c) \/ Settle(c) \/ MarkDelete(c) \/ RemoveShard(c)
        \/ RebuildDelete(c) \/ RebuildCreate(c)

Next == HandleScalingShards \/ Environment

Spec == Init /\ [][Next]_vars

-----------------------------------------------------------------------------
(* Properties.                                                             *)

\* The shards have reached the count asked for, none is still being
\* deleted and none the operation added is still being created; a shard
\* another operation is rebuilding is kept and is that operation's.
Settled ==
    /\ Cardinality(Kept) = shards
    /\ \A c \in Listed \ rebuilding : ~comps[c].deleting
    /\ \A c \in Listed \ (InitialComps \cup rebuilding) :
           comps[c].phase # CreatingPhase

\* A handler call that reports the scaling complete (n/n with n > 0) sees
\* the shards settled: the scale-out count of finished new shards and the
\* scale-in count of vanished rows, with its shortcut, both reach n only
\* when the sharding controller is done.
FullProgressMeansSettled ==
    [][HandleScalingShards /\ progress'.expect > 0
         /\ progress'.completed = progress'.expect => Settled]_vars

\* The same while no other operation has rebuilt a shard.  A rebuild
\* breaks both directions: in a scale-out the rebuilt shard is created
\* after the start and inflates the count, as the comment of
\* handleComponentProgressForScalingShards expects, and the clamp hides the
\* excess; in a scale-in the shard gone for its rebuild makes the listed
\* shards reach the count asked for while a surplus one is still deleting.
SettledUnlessRebuilt ==
    [][HandleScalingShards /\ progress'.expect > 0
         /\ progress'.completed = progress'.expect
         /\ rebuilds = 0 => Settled]_vars

=============================================================================
