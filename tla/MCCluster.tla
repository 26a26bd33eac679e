----------------------------- MODULE MCCluster -----------------------------
(* Cluster with two nodes and two requests that bring one operation twice,   *)
(* or one identifier with two contents.                                      *)
EXTENDS Cluster, TLC

CONSTANTS n1, n2, r1, r2

A1 == [id |-> "a", fp |-> 1]
A2 == [id |-> "a", fp |-> 2]
OpsAB == {A1, A2}
WorkloadsAB == {(r1 :> A1 @@ r2 :> A1), (r1 :> A1 @@ r2 :> A2)}

\* r1 is the first to be handled.  Nothing is lost: exchanging the requests, and
\* with them the two contents, leaves workloads and properties as they are.
InTurn == pc[r2] # "new" => pc[r1] # "new"

\* A node goes down only where that differs from a failing tail.  Nothing is lost:
\* the crash of a node without a handler and without a fence under way is a
\* failing tail's rewind, behind which the node serves later and does nothing else.
LikeFailingTail(n) == FenceOf(n) = {} /\ \A r \in Requests : at[r] # n

CrashesDiffer ==
    \A n \in Nodes : Serving(n) /\ LikeFailingTail(n) => barrier'[n] = 0
=============================================================================
