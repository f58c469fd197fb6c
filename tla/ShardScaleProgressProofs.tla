---------------------- MODULE ShardScaleProgressProofs ----------------------
(***************************************************************************)
(* Proofs about ShardScaleProgress for every finite set of shard names,    *)
(* initial shards, shard targets and rebuild bound: the type invariant,    *)
(* and that a handler call reporting the scaling complete sees the shards  *)
(* settled while no other operation has rebuilt a shard.                  *)
(***************************************************************************)
EXTENDS ShardScaleProgress, ProgressDetailTheorems, FiniteSetTheorems, TLAPS

\* The values of the LET of HandleScalingShards.
Diff == shards - OldShards
UpdateShards == IF Diff < 0 THEN -Diff ELSE Diff
CompletedCount ==
    CASE Diff > 0 -> ScaleOutCompleted
      [] Diff < 0 -> ScaleInCompleted(UpdateShards)
      [] OTHER    -> 0
Updates ==
    CASE Diff > 0 -> ScaleOutUpdates
      [] Diff < 0 -> ScaleInUpdates
      [] OTHER    -> [c \in {} |-> NewDetail(Pending, "create")]

\* Every set of shard names is finite.
LEMMA CompsSubsets ==
    ASSUME NEW S \in SUBSET Comps
    PROVE  /\ IsFiniteSet(S) /\ Cardinality(S) \in Nat
           /\ Cardinality(S) <= Cardinality(Comps)
BY CompsAssumption, FS_Subset, FS_CardinalityType

LEMMA OldShardsType == OldShards \in Nat
BY CompsSubsets, CompsAssumption DEF OldShards

\* One handler call stores the rows of the pass and the clamped count.
LEMMA HandlerUnfolded ==
    ASSUME HandleScalingShards
    PROVE  /\ details' = SetDetails(details, Updates)
           /\ progress' = [expect |-> UpdateShards,
                           completed |-> IF CompletedCount > UpdateShards
                                         THEN UpdateShards
                                         ELSE CompletedCount]
           /\ UNCHANGED <<shards, comps, rebuilds, rebuilding>>
BY DEF HandleScalingShards, Diff, UpdateShards, CompletedCount, Updates

LEMMA DiffType == ASSUME TypeOK PROVE shards \in Nat /\ Diff \in Int
BY OldShardsType, ShardTargetsAssumption DEF TypeOK, Diff

\* The switch on the component phase gives a progress status.
LEMMA ShardStatusType ==
    ASSUME NEW ph PROVE ShardStatus(ph) \in ProgressStatus
<1>1. CASE ph = RunningPhase
  BY <1>1 DEF ShardStatus, RunningPhase, FailedPhase, ProgressStatus, Succeed
<1>2. CASE ph = FailedPhase
  BY <1>2 DEF ShardStatus, RunningPhase, FailedPhase, ProgressStatus, Failed
<1>3. CASE ph # RunningPhase /\ ph # FailedPhase
  BY <1>3 DEF ShardStatus, ProgressStatus, Processing
<1> QED
  BY <1>1, <1>2, <1>3

\* The rows a pass computes are rows for shard names.
LEMMA UpdatesType ==
    ASSUME TypeOK
    PROVE  /\ DOMAIN Updates \subseteq Comps
           /\ \A x \in DOMAIN Updates : Updates[x] \in Row(SMsgs)
<1>1. CASE Diff > 0
  <2>1. Updates = ScaleOutUpdates
    BY <1>1, DiffType DEF Updates
  <2>2. DOMAIN ScaleOutUpdates \subseteq Comps
    BY DEF ScaleOutUpdates, Listed
  <2>3. ASSUME NEW x \in DOMAIN ScaleOutUpdates
        PROVE  ScaleOutUpdates[x] \in Row(SMsgs)
    <3>1. ScaleOutUpdates[x] = NewDetail(ShardStatus(comps[x].phase), "create")
      BY DEF ScaleOutUpdates
    <3>2. ShardStatus(comps[x].phase) \in ProgressStatus /\ "create" \in SMsgs
      BY ShardStatusType DEF SMsgs
    <3> QED
      BY <3>1, <3>2, NewDetailType
  <2> QED
    BY <2>1, <2>2, <2>3
<1>2. CASE Diff < 0
  <2>1. Updates = ScaleInUpdates
    BY <1>2, DiffType DEF Updates
  <2>2. \A x \in DOMAIN ScaleInUpdates : ScaleInUpdates[x] \in Row(SMsgs)
    BY NewDetailType DEF ScaleInUpdates, SMsgs, ProgressStatus
  <2> QED
    BY <2>1, <2>2 DEF ScaleInUpdates, Listed, TypeOK
<1>3. CASE ~(Diff > 0) /\ ~(Diff < 0)
  BY <1>3, DiffType DEF Updates
<1> QED
  BY <1>1, <1>2, <1>3

\* The counts of a pass are natural numbers.
LEMMA CountsType ==
    ASSUME TypeOK
    PROVE  UpdateShards \in Nat /\ CompletedCount \in Nat
<1>1. shards \in Nat /\ Diff \in Int
  BY DiffType
<1>2. UpdateShards \in Nat
  BY <1>1 DEF UpdateShards
<1>3. ScaleOutCompleted \in Nat
  BY CompsSubsets DEF ScaleOutCompleted, Listed
<1>4. ScaleInCompleted(UpdateShards) \in Nat
  BY <1>2, CompsSubsets DEF ScaleInCompleted, Listed, TypeOK
<1> QED
  BY <1>1, <1>2, <1>3, <1>4 DEF CompletedCount

LEMMA HandlerTypeOK ==
    ASSUME TypeOK, HandleScalingShards PROVE TypeOK'
<1>1. \A x \in DOMAIN details : details[x] \in Row(SMsgs)
  BY DEF TypeOK
<1>2. /\ DOMAIN SetDetails(details, Updates) = DOMAIN details \cup DOMAIN Updates
      /\ SetDetails(details, Updates)
            \in [DOMAIN SetDetails(details, Updates) -> Row(SMsgs)]
  BY <1>1, UpdatesType, SetDetailsType
<1> QED
  BY <1>2, UpdatesType, CountsType, HandlerUnfolded DEF TypeOK

\* A shard created by the sharding controller or again after a rebuild.
NewShard == [exists |-> TRUE, after |-> TRUE, deleting |-> FALSE,
             phase |-> CreatingPhase]

\* The sharding controller and the other operations keep the shards typed,
\* leave the ledger alone and rebuild within the bound.
LEMMA EnvironmentTypeOK ==
    ASSUME TypeOK, Environment PROVE TypeOK'
<1>1. PICK c \in Comps :
        \/ AddShard(c) \/ Settle(c) \/ MarkDelete(c) \/ RemoveShard(c)
        \/ RebuildDelete(c) \/ RebuildCreate(c)
  BY DEF Environment
<1>2. comps[c] \in CompView /\ NewShard \in CompView
  BY DEF TypeOK, CompView, NewShard
<1>3. CASE AddShard(c)
  BY <1>2, <1>3 DEF AddShard, TypeOK, NewShard
<1>4. CASE Settle(c)
  BY <1>2, <1>4 DEF Settle, TypeOK, CompView
<1>5. CASE MarkDelete(c)
  BY <1>2, <1>5 DEF MarkDelete, TypeOK, CompView
<1>6. CASE RemoveShard(c)
  BY <1>2, <1>6 DEF RemoveShard, TypeOK, CompView
<1>7. CASE RebuildDelete(c)
  <2>1. rebuilds + 1 \in 0..MaxRebuilds
    BY <1>7, MaxRebuildsAssumption DEF RebuildDelete, TypeOK
  <2> QED
    BY <1>2, <1>7, <2>1 DEF RebuildDelete, TypeOK, CompView
<1>8. CASE RebuildCreate(c)
  BY <1>2, <1>8 DEF RebuildCreate, TypeOK, NewShard
<1> QED
  BY <1>1, <1>3, <1>4, <1>5, <1>6, <1>7, <1>8

LEMMA InitTypeOK == Init => TypeOK
<1> SUFFICES ASSUME Init PROVE TypeOK
  OBVIOUS
<1>1. comps \in [Comps -> CompView]
  BY DEF Init, CompView
<1>2. DOMAIN details = {} /\ details \in [{} -> Row(SMsgs)]
  BY DEF Init
<1>3. /\ rebuilds \in 0..MaxRebuilds /\ rebuilding \subseteq Comps
      /\ progress \in [expect : Nat, completed : Nat]
  BY MaxRebuildsAssumption DEF Init
<1> QED
  BY <1>1, <1>2, <1>3 DEF Init, TypeOK

LEMMA NextTypeOK == TypeOK /\ [Next]_vars => TypeOK'
BY HandlerTypeOK, EnvironmentTypeOK DEF Next, vars, TypeOK

\* The model of handleComponentProgressForScalingShards is well typed for
\* every finite set of shard names and every set of shard targets.
THEOREM TypeCorrect == Spec => []TypeOK
BY InitTypeOK, NextTypeOK, PTL DEF Spec

-----------------------------------------------------------------------------
(* The inductive invariant.                                               *)

\* A shard another operation rebuilds is being deleted or gone until it
\* is created again.
RebuildingGone == \A c \in rebuilding : comps[c].exists => comps[c].deleting

\* The shards of a scale-out: only rebuilds delete, the initial shards stay
\* or are being rebuilt, the kept ones never exceed the count asked for,
\* every listed shard not there at the start was created after it, and,
\* until another operation rebuilds one, only those.
ScaleOutInv ==
    /\ \A c \in Comps : comps[c].deleting => c \in rebuilding
    /\ InitialComps \subseteq Listed \cup rebuilding
    /\ Cardinality(Kept) <= shards
    /\ \A c \in Listed \ InitialComps : comps[c].after
    /\ rebuilds = 0 => \A c \in InitialComps : ~comps[c].after

\* The shards of a scale-in: none is added, the kept ones never drop below
\* the count asked for, and the ledger only has rows for initial shards.
ScaleInInv ==
    /\ Listed \cup rebuilding \subseteq InitialComps
    /\ Cardinality(Kept) >= shards
    /\ DOMAIN details \subseteq InitialComps

\* The shards and the ledger are as the direction of the operation allows.
IInv ==
    /\ TypeOK
    /\ rebuilds = 0 => rebuilding = {}
    /\ RebuildingGone
    /\ shards > OldShards => ScaleOutInv
    /\ shards < OldShards => ScaleInInv

LEMMA InitIInv == Init => IInv
<1> SUFFICES ASSUME Init PROVE IInv
  OBVIOUS
<1>1. TypeOK
  BY InitTypeOK
<1>2. Listed = InitialComps /\ Kept = InitialComps /\ rebuilding = {}
      /\ \A c \in Comps : ~comps[c].deleting /\ ~comps[c].after
  BY CompsAssumption DEF Init, Listed, Live, Kept
<1>3. Cardinality(Kept) = OldShards
  BY <1>2 DEF OldShards
<1>4. DOMAIN details = {} /\ rebuilds = 0
  BY DEF Init
<1>5. shards \in Nat /\ OldShards \in Nat
  BY <1>1, DiffType, OldShardsType
<1>6. shards > OldShards => ScaleOutInv
  BY <1>2, <1>3, <1>4, <1>5, CompsAssumption DEF ScaleOutInv
<1>7. shards < OldShards => ScaleInInv
  BY <1>2, <1>3, <1>4, <1>5 DEF ScaleInInv
<1> QED
  BY <1>1, <1>2, <1>4, <1>6, <1>7 DEF IInv, RebuildingGone

\* A handler call changes only the ledger and the count; a scale-in pass
\* writes rows for listed or already recorded shards.
LEMMA HandlerIInv ==
    ASSUME IInv, HandleScalingShards PROVE IInv'
<1>1. TypeOK'
  BY HandlerTypeOK DEF IInv
<1>2. UNCHANGED <<shards, comps, rebuilds, rebuilding>>
      /\ DOMAIN details' = DOMAIN details \cup DOMAIN Updates
  BY HandlerUnfolded DEF SetDetails
<1>3. UNCHANGED <<Listed, Kept>>
  BY <1>2 DEF Listed, Live, Kept
<1>4. shards < OldShards => DOMAIN Updates \subseteq Listed \cup DOMAIN details
  <2> SUFFICES ASSUME shards < OldShards
               PROVE  DOMAIN Updates \subseteq Listed \cup DOMAIN details
    OBVIOUS
  <2>1. Updates = ScaleInUpdates
    BY DiffType, OldShardsType DEF IInv, Updates, Diff
  <2> QED
    BY <2>1 DEF ScaleInUpdates
<1> QED
  BY <1>1, <1>2, <1>3, <1>4 DEF IInv, RebuildingGone, ScaleOutInv, ScaleInInv

\* The shard sets are finite, and the shards being rebuilt are not live.
LEMMA ShardSets ==
    ASSUME IInv
    PROVE  /\ IsFiniteSet(Listed) /\ IsFiniteSet(Live) /\ IsFiniteSet(Kept)
           /\ Cardinality(Listed) \in Nat /\ Cardinality(Kept) \in Nat
           /\ Listed \subseteq Comps /\ Live \subseteq Listed
           /\ Live \cap rebuilding = {}
<1>1. Listed \subseteq Comps /\ Live \subseteq Listed /\ Kept \subseteq Comps
  BY DEF IInv, TypeOK, Listed, Live, Kept
<1>2. Live \cap rebuilding = {}
  BY DEF IInv, RebuildingGone, Live, Listed
<1> QED
  BY <1>1, <1>2, CompsSubsets

\* What every environment step leaves alone.
LEMMA EnvironmentFrame ==
    ASSUME IInv, Environment
    PROVE  TypeOK' /\ shards' = shards /\ shards \in Nat /\ UNCHANGED details
BY EnvironmentTypeOK, DiffType DEF IInv, Environment, AddShard, Settle,
   MarkDelete, RemoveShard, RebuildDelete, RebuildCreate

\* The sharding controller adds a shard only while the kept ones are fewer
\* than asked for: never in a scale-in, and up to the count in a scale-out.
LEMMA AddShardIInv ==
    ASSUME IInv, NEW c \in Comps, AddShard(c) PROVE IInv'
<1>0. TypeOK' /\ shards' = shards /\ shards \in Nat /\ UNCHANGED details
  BY EnvironmentFrame DEF Environment
<1>1. /\ ~comps[c].exists /\ c \notin InitialComps /\ c \notin rebuilding
      /\ Cardinality(Kept) < shards /\ UNCHANGED <<rebuilds, rebuilding>>
      /\ comps'[c] = NewShard /\ \A x \in Comps \ {c} : comps'[x] = comps[x]
  BY DEF AddShard, IInv, TypeOK, NewShard
<1>2. /\ Listed' = Listed \cup {c} /\ Kept' = Kept \cup {c} /\ c \notin Kept
  BY <1>1 DEF Listed, Live, Kept, NewShard
<1>3. Cardinality(Kept') = Cardinality(Kept) + 1
  BY <1>2, ShardSets, FS_AddElement
<1>4. RebuildingGone'
  BY <1>1 DEF IInv, TypeOK, RebuildingGone, NewShard
<1>5. ~(shards < OldShards)
  BY <1>0, <1>1, ShardSets, OldShardsType DEF IInv, ScaleInInv
<1>6. ASSUME shards > OldShards PROVE ScaleOutInv'
  <2>1. ScaleOutInv
    BY <1>6 DEF IInv
  <2>2. \A x \in Comps : comps'[x].deleting => x \in rebuilding'
    BY <1>1, <2>1 DEF ScaleOutInv, NewShard
  <2>3. \A x \in Listed' \ InitialComps : comps'[x].after
    BY <1>1, <1>2, <2>1, ShardSets DEF ScaleOutInv, NewShard
  <2>4. rebuilds' = 0 => \A x \in InitialComps : ~comps'[x].after
    BY <1>1, <2>1, CompsAssumption DEF ScaleOutInv
  <2> QED
    BY <1>0, <1>1, <1>2, <1>3, <2>1, <2>2, <2>3, <2>4, ShardSets
    DEF ScaleOutInv
<1> QED
  BY <1>0, <1>1, <1>4, <1>5, <1>6 DEF IInv

\* A shard settling changes its phase only.
LEMMA SettleIInv ==
    ASSUME IInv, NEW c \in Comps, Settle(c) PROVE IInv'
<1>0. TypeOK' /\ shards' = shards /\ shards \in Nat /\ UNCHANGED details
  BY EnvironmentFrame DEF Environment
<1>1. PICK ph \in {RunningPhase, FailedPhase} :
        comps' = [comps EXCEPT ![c].phase = ph]
  BY DEF Settle
<1>2. /\ \A x \in Comps : /\ comps'[x].exists = comps[x].exists
                          /\ comps'[x].deleting = comps[x].deleting
                          /\ comps'[x].after = comps[x].after
      /\ UNCHANGED <<rebuilds, rebuilding>>
  BY <1>1 DEF Settle, IInv, TypeOK, CompView
<1>3. Listed' = Listed /\ Kept' = Kept
  BY <1>2 DEF Listed, Live, Kept
<1>4. ScaleOutInv => ScaleOutInv'
  BY <1>0, <1>2, <1>3, CompsAssumption DEF ScaleOutInv, Listed
<1>5. ScaleInInv => ScaleInInv'
  BY <1>0, <1>2, <1>3 DEF ScaleInInv
<1> QED
  BY <1>0, <1>2, <1>4, <1>5 DEF IInv, TypeOK, RebuildingGone

\* The sharding controller marks a shard for deletion only while the kept
\* ones are more than asked for: never in a scale-out, and down to the
\* count in a scale-in.
LEMMA MarkDeleteIInv ==
    ASSUME IInv, NEW c \in Comps, MarkDelete(c) PROVE IInv'
<1>0. TypeOK' /\ shards' = shards /\ shards \in Nat /\ UNCHANGED details
  BY EnvironmentFrame DEF Environment
<1>1. /\ c \in Live /\ c \notin rebuilding /\ Cardinality(Kept) > shards
      /\ \A x \in Comps : /\ comps'[x].exists = comps[x].exists
                          /\ comps'[x].after = comps[x].after
      /\ \A x \in Comps \ {c} : comps'[x].deleting = comps[x].deleting
      /\ comps'[c].deleting /\ UNCHANGED <<rebuilds, rebuilding>>
  BY ShardSets DEF MarkDelete, IInv, TypeOK, CompView
<1>2. Listed' = Listed /\ Kept' = Kept \ {c} /\ c \in Kept
  BY <1>1 DEF Listed, Live, Kept
<1>3. Cardinality(Kept') = Cardinality(Kept) - 1
  BY <1>2, ShardSets, FS_RemoveElement
<1>4. ~(shards > OldShards)
  BY <1>0, <1>1, ShardSets DEF IInv, ScaleOutInv
<1>5. RebuildingGone'
  BY <1>1 DEF IInv, TypeOK, RebuildingGone, NewShard
<1> QED
  BY <1>0, <1>1, <1>2, <1>3, <1>4, <1>5, ShardSets DEF IInv, ScaleInInv

\* A shard being deleted disappears; in a scale-out it is one being
\* rebuilt, which stays kept.
LEMMA RemoveShardIInv ==
    ASSUME IInv, NEW c \in Comps, RemoveShard(c) PROVE IInv'
<1>0. TypeOK' /\ shards' = shards /\ shards \in Nat /\ UNCHANGED details
  BY EnvironmentFrame DEF Environment
<1>1. /\ comps[c].deleting /\ ~comps'[c].exists
      /\ comps'[c].deleting /\ comps'[c].after = comps[c].after
      /\ \A x \in Comps \ {c} : comps'[x] = comps[x]
      /\ UNCHANGED <<rebuilds, rebuilding>>
  BY DEF RemoveShard, IInv, TypeOK, CompView
<1>2. Listed' = Listed \ {c} /\ Kept' = Kept
  BY <1>1 DEF Listed, Live, Kept
<1>3. RebuildingGone'
  BY <1>1 DEF IInv, TypeOK, RebuildingGone, NewShard
<1>4. ScaleOutInv => ScaleOutInv'
  <2> SUFFICES ASSUME ScaleOutInv PROVE ScaleOutInv'
    OBVIOUS
  <2>1. c \in rebuilding
    BY <1>1 DEF ScaleOutInv
  <2>2. \A x \in Comps : comps'[x].deleting => x \in rebuilding'
    BY <1>1, <2>1 DEF ScaleOutInv
  <2>3. InitialComps \subseteq Listed' \cup rebuilding'
    BY <1>1, <1>2, <2>1 DEF ScaleOutInv
  <2>4. \A x \in Listed' \ InitialComps : comps'[x].after
    BY <1>1, <1>2 DEF ScaleOutInv, Listed
  <2>5. rebuilds' = 0 => \A x \in InitialComps : ~comps'[x].after
    BY <1>1, CompsAssumption DEF ScaleOutInv
  <2> QED
    BY <1>0, <1>2, <2>2, <2>3, <2>4, <2>5 DEF ScaleOutInv
<1>5. ScaleInInv => ScaleInInv'
  BY <1>0, <1>1, <1>2 DEF ScaleInInv
<1> QED
  BY <1>0, <1>1, <1>3, <1>4, <1>5 DEF IInv

\* Another operation deletes a live shard to rebuild it: it leaves the
\* live shards for the rebuilt ones, and the kept shards stay as they are.
LEMMA RebuildDeleteIInv ==
    ASSUME IInv, NEW c \in Comps, RebuildDelete(c) PROVE IInv'
<1>0. TypeOK' /\ shards' = shards /\ shards \in Nat /\ UNCHANGED details
  BY EnvironmentFrame DEF Environment
<1>1. /\ c \in Live /\ c \in Listed
      /\ comps'[c].exists /\ comps'[c].deleting
      /\ comps'[c].after = comps[c].after
      /\ \A x \in Comps \ {c} : comps'[x] = comps[x]
      /\ rebuilds' # 0 /\ rebuilding' = rebuilding \cup {c}
  BY DEF RebuildDelete, IInv, TypeOK, CompView, Live, Listed
<1>2. Listed' = Listed /\ Kept' = Kept
  BY <1>1 DEF Listed, Live, Kept
<1>3. RebuildingGone'
  BY <1>1 DEF IInv, TypeOK, RebuildingGone, NewShard
<1>4. ScaleOutInv => ScaleOutInv'
  BY <1>0, <1>1, <1>2 DEF ScaleOutInv, Listed
<1>5. ScaleInInv => ScaleInInv'
  BY <1>0, <1>1, <1>2 DEF ScaleInInv
<1> QED
  BY <1>0, <1>1, <1>3, <1>4, <1>5 DEF IInv

\* The rebuilt shard is created again under its name, after the start: it
\* moves from the rebuilt shards to the live ones.
LEMMA RebuildCreateIInv ==
    ASSUME IInv, NEW c \in Comps, RebuildCreate(c) PROVE IInv'
<1>0. TypeOK' /\ shards' = shards /\ shards \in Nat /\ UNCHANGED details
  BY EnvironmentFrame DEF Environment
<1>1. /\ c \in rebuilding /\ ~comps[c].exists /\ rebuilds # 0
      /\ comps'[c] = NewShard /\ \A x \in Comps \ {c} : comps'[x] = comps[x]
      /\ rebuilding' = rebuilding \ {c} /\ UNCHANGED rebuilds
  BY DEF RebuildCreate, IInv, TypeOK, NewShard
<1>2. Listed' = Listed \cup {c} /\ Kept' = Kept
  BY <1>1 DEF Listed, Live, Kept, NewShard
<1>3. RebuildingGone'
  BY <1>1 DEF IInv, TypeOK, RebuildingGone, NewShard
<1>4. ScaleOutInv => ScaleOutInv'
  BY <1>0, <1>1, <1>2 DEF ScaleOutInv, Listed, NewShard
<1>5. ScaleInInv => ScaleInInv'
  BY <1>0, <1>1, <1>2 DEF ScaleInInv
<1> QED
  BY <1>0, <1>1, <1>3, <1>4, <1>5 DEF IInv

LEMMA EnvironmentIInv ==
    ASSUME IInv, Environment PROVE IInv'
<1>1. PICK c \in Comps :
        \/ AddShard(c) \/ Settle(c) \/ MarkDelete(c) \/ RemoveShard(c)
        \/ RebuildDelete(c) \/ RebuildCreate(c)
  BY DEF Environment
<1> QED
  BY <1>1, AddShardIInv, SettleIInv, MarkDeleteIInv, RemoveShardIInv,
     RebuildDeleteIInv, RebuildCreateIInv

\* The invariant holds in every reachable state.
THEOREM InductiveInvariant == Spec => []IInv
<1>1. IInv /\ [Next]_vars => IInv'
  <2> SUFFICES ASSUME IInv, [Next]_vars PROVE IInv'
    OBVIOUS
  <2>1. CASE HandleScalingShards
    BY <2>1, HandlerIInv
  <2>2. CASE Environment
    BY <2>2, EnvironmentIInv
  <2>3. CASE UNCHANGED vars
    <3>1. UNCHANGED <<Listed, Kept>>
      BY <2>3 DEF vars, Listed, Live, Kept
    <3> QED
      BY <2>3, <3>1 DEF vars, IInv, RebuildingGone, ScaleOutInv, ScaleInInv,
         TypeOK
  <2> QED
    BY <2>1, <2>2, <2>3 DEF Next
<1> QED
  BY InitIInv, <1>1, PTL DEF Spec

-----------------------------------------------------------------------------
(* A complete count means settled shards.                                 *)

\* Settled while no shard was ever rebuilt: the listed shards are the
\* count asked for and all live, and the new ones are out of Creating.
SettledListed ==
    /\ Cardinality(Listed) = shards
    /\ \A c \in Listed : ~comps[c].deleting
    /\ \A c \in Listed \ InitialComps : comps[c].phase # CreatingPhase

\* With no rebuild, no shard is being rebuilt and the kept shards are
\* the live ones.
LEMMA NoRebuild ==
    ASSUME IInv, rebuilds = 0 PROVE rebuilding = {} /\ Kept = Live
BY DEF IInv, Kept

LEMMA SettledListedIsSettled ==
    ASSUME IInv, rebuilds = 0, SettledListed PROVE Settled
<1>1. rebuilding = {} /\ Kept = Live
  BY NoRebuild
<1>2. Live = Listed
  BY DEF SettledListed, Live
<1> QED
  BY <1>1, <1>2 DEF SettledListed, Settled

\* In a scale-out with no shard rebuilt, only shards created after the
\* start are counted by handleScaleOutForShards, and there are at most
\* shards - OldShards of them: a count that reaches that number has every
\* new shard out of Creating and the listed shards exactly the count.
LEMMA ScaleOutSettled ==
    ASSUME IInv, shards > OldShards, rebuilds = 0,
           ScaleOutCompleted >= shards - OldShards
    PROVE  SettledListed
<1> DEFINE A == {c \in Listed : comps[c].after
                                /\ comps[c].phase # CreatingPhase}
           New == Listed \ InitialComps
<1>1. ScaleOutInv /\ shards \in Nat /\ rebuilding = {}
  BY DiffType, NoRebuild DEF IInv
<1>2. A \subseteq New
  BY <1>1 DEF ScaleOutInv
<1>3. IsFiniteSet(Listed) /\ Cardinality(Listed) \in Nat
  BY CompsSubsets DEF Listed
<1>4. Cardinality(New) = Cardinality(Listed) - OldShards
  <2>1. Listed \cap InitialComps = InitialComps
    BY <1>1 DEF ScaleOutInv
  <2> QED
    BY <1>3, <2>1, FS_Difference DEF OldShards
<1>5. IsFiniteSet(New) /\ Cardinality(New) \in Nat
  BY CompsSubsets DEF Listed
<1>6. IsFiniteSet(A) /\ Cardinality(A) <= Cardinality(New)
      /\ (Cardinality(New) = Cardinality(A) => New = A)
  BY <1>2, <1>5, FS_Subset
<1>7. Cardinality(A) >= shards - OldShards /\ Cardinality(A) \in Nat
  BY <1>6, FS_CardinalityType DEF ScaleOutCompleted
<1>10. \A c \in Listed : ~comps[c].deleting
  BY <1>1 DEF ScaleOutInv, Listed
<1>11. Kept = Listed
  BY <1>1, <1>10 DEF Kept, Live
<1>8. Cardinality(Listed) = shards /\ Cardinality(New) = Cardinality(A)
  BY <1>1, <1>3, <1>4, <1>5, <1>6, <1>7, <1>11, OldShardsType DEF ScaleOutInv
<1>9. New = A
  BY <1>6, <1>8
<1> QED
  BY <1>8, <1>9, <1>10 DEF SettledListed

\* In a scale-in with no shard rebuilt the live shards never drop below
\* the count asked for and no shard is added: either the shortcut sees the listed shards at that
\* count, or the rows of the vanished shards reach OldShards - shards,
\* which leaves at most shards listed; both make every listed shard live.
LEMMA ScaleInSettled ==
    ASSUME IInv, shards < OldShards, rebuilds = 0,
           ScaleInCompleted(OldShards - shards) >= OldShards - shards
    PROVE  SettledListed
<1>1. ScaleInInv /\ shards \in Nat /\ Cardinality(Live) >= shards
  BY DiffType, NoRebuild DEF IInv, ScaleInInv
<1>2. /\ IsFiniteSet(Listed) /\ Cardinality(Listed) \in Nat
      /\ Live \subseteq Listed /\ IsFiniteSet(Live)
      /\ Cardinality(Live) <= Cardinality(Listed)
      /\ Cardinality(Live) \in Nat
      /\ (Cardinality(Listed) = Cardinality(Live) => Listed = Live)
  BY CompsSubsets, FS_Subset, FS_CardinalityType DEF Listed, Live
<1>3. Cardinality(Listed) <= shards
  <2>1. CASE ScaleInDone
    BY <1>1, <2>1 DEF ScaleInDone
  <2>2. CASE ~ScaleInDone
    <3> DEFINE Gone == DOMAIN details \ Listed
    <3>1. Cardinality(Gone) >= OldShards - shards
      BY <2>2 DEF ScaleInCompleted
    <3>2. Gone \subseteq InitialComps \ Listed
      BY <1>1 DEF ScaleInInv
    <3>3. IsFiniteSet(InitialComps \ Listed)
          /\ Cardinality(InitialComps \ Listed) = OldShards - Cardinality(Listed)
      <4>1. InitialComps \cap Listed = Listed
        BY <1>1 DEF ScaleInInv
      <4> QED
        BY <4>1, CompsSubsets, CompsAssumption, FS_Difference DEF OldShards
    <3>4. Cardinality(Gone) <= Cardinality(InitialComps \ Listed)
          /\ Cardinality(Gone) \in Nat
      BY <3>2, <3>3, FS_Subset, FS_CardinalityType
    <3> QED
      BY <1>1, <1>2, <3>1, <3>3, <3>4, OldShardsType
  <2> QED
    BY <2>1, <2>2
<1>4. Cardinality(Listed) = shards /\ Listed = Live
  BY <1>1, <1>2, <1>3
<1> QED
  BY <1>1, <1>4 DEF SettledListed, Live, ScaleInInv

\* A handler call that reports n/n with n > 0, with no shard rebuilt,
\* sees the shards settled.
LEMMA HandlerSettled ==
    ASSUME IInv, HandleScalingShards, progress'.expect > 0,
           progress'.completed = progress'.expect, rebuilds = 0
    PROVE  Settled
<1> SUFFICES SettledListed
  BY SettledListedIsSettled
<1>1. shards \in Nat /\ Diff \in Int /\ UpdateShards \in Nat
      /\ CompletedCount \in Nat
  BY DiffType, CountsType DEF IInv
<1>2. UpdateShards > 0 /\ CompletedCount >= UpdateShards
  BY <1>1, HandlerUnfolded
<1>3. CASE shards > OldShards
  <2>1. Diff > 0 /\ UpdateShards = shards - OldShards
    BY <1>1, <1>3, OldShardsType DEF Diff, UpdateShards
  <2>2. CompletedCount = ScaleOutCompleted
    BY <1>1, <2>1 DEF CompletedCount
  <2> QED
    BY <1>2, <1>3, <2>1, <2>2, ScaleOutSettled
<1>4. CASE shards < OldShards
  <2>1. Diff < 0 /\ UpdateShards = OldShards - shards
    BY <1>1, <1>4, OldShardsType DEF Diff, UpdateShards
  <2>2. CompletedCount = ScaleInCompleted(OldShards - shards)
    BY <1>1, <2>1 DEF CompletedCount
  <2> QED
    BY <1>2, <1>4, <2>1, <2>2, ScaleInSettled
<1>5. CASE shards = OldShards
  BY <1>1, <1>2, <1>5, OldShardsType DEF UpdateShards, Diff
<1> QED
  BY <1>1, <1>3, <1>4, <1>5, OldShardsType

\* While no other operation has rebuilt a shard, the handler reports a
\* complete scale-in or scale-out only once the sharding controller has
\* settled the shards: handleScaleOutForShards's count of new shards and
\* handleScaleInForShards's count of vanished rows, with its shortcut.
THEOREM SettledProof == Spec => SettledUnlessRebuilt
<1>1. IInv /\ [Next]_vars
        => [HandleScalingShards /\ progress'.expect > 0
              /\ progress'.completed = progress'.expect
              /\ rebuilds = 0 => Settled]_vars
  BY HandlerSettled
<1> QED
  BY InductiveInvariant, <1>1, PTL DEF SettledUnlessRebuilt, Spec

=============================================================================
