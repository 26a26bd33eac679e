--------------------------------- MODULE MCWal ---------------------------------
(* Wal with four appends of different lengths.                               *)
EXTENDS Wal, TLC

CONSTANTS r1, r2, r3, r4

\* One long record, so that a cut one can hide shorter ones behind it.
MCSize == r1 :> 3 @@ r2 :> 1 @@ r3 :> 2 @@ r4 :> 1
=============================================================================
