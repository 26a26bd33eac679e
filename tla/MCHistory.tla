----------------------------- MODULE MCHistory -----------------------------
(* History with logs in which a takeover rejects a late record, an operation *)
(* is logged twice and identifiers come in an order that is not theirs.      *)
EXTENDS History, TLC

Takeover == <<Fence(1), Operations(1, 3), Fence(2), Operations(1, 2), Operations(2, 3),
              Operations(2, 1)>>
Unordered == <<Fence(1), Operations(1, 3), Poison, Operations(1, 1), Operations(1, 2)>>
SomeLogs == {Takeover, Unordered}
=============================================================================
