---------------------------- MODULE MCWriterLease ----------------------------
(* WriterLease with two nodes; a tick is 1.25 s, and LeaseTime, Margin and    *)
(* MaxLag are such that LeaseTime + MaxLag = Ttl + Margin: no reply may be   *)
(* any slower.                                                               *)
EXTENDS WriterLease, TLC

CONSTANTS n1, n2

\* The nodes are told apart by nothing but their names.
NodeSymmetry == Permutations(Nodes)
=============================================================================
