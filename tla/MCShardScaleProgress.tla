------------------------ MODULE MCShardScaleProgress ------------------------
(* Three shards at the start, operations to one, two, three (no change)   *)
(* and five shards, and two more names for the shards a scale-out adds.   *)
EXTENDS ShardScaleProgress

CONSTANTS s1, s2, s3, s4, s5

MCComps == {s1, s2, s3, s4, s5}
MCInitialComps == {s1, s2, s3}
=============================================================================
