---------------------------- MODULE MCDedupIndex ----------------------------
(* DedupIndex with three keys, two of them in one shard, whose bits overlap. *)
EXTENDS DedupIndex, TLC

CONSTANTS a, b, c, r1

MCShardOf == a :> 1 @@ b :> 2 @@ c :> 2

\* The bits of b are covered by those of a and c together.
MCBitsOf == a :> {1, 2} @@ b :> {2, 3} @@ c :> {3, 4}

\* A new directory, and one that two older releases have written to.
MCInstallations == { [lsm |-> {}, redb |-> {}], [lsm |-> {a}, redb |-> {c}] }
=============================================================================
