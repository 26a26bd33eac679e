------------------------------- MODULE MCStore -------------------------------
(* Store on small instances: which requests, identifiers and batches.        *)
EXTENDS Store, TLC

CONSTANTS r1, r2, r3, a, b, f, g

\* a and b lie in different dedup shards, f and g on different state shards.
MCDedupShardOf == a :> 0 @@ b :> 1
MCStateShardOf == f :> 0 @@ g :> 1

Op(i, c) == [id |-> i, fp |-> c]

\* Two batches that overlap in both identifiers, one that conflicts with both
\* of them, a single operation, and a batch that contradicts itself.
MCBatches == { {Op(a, f), Op(b, g)}, {Op(a, g), Op(b, g)}, {Op(b, g)},
               {Op(a, f), Op(a, g)} }

\* For the liveness run the self-contradicting batch is left out: it is answered
\* in the step that submits it.
MCLiveBatches == MCBatches \ {{Op(a, f), Op(a, g)}}
=============================================================================
