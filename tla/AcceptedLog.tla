---------------------------- MODULE AcceptedLog ----------------------------
(***************************************************************************)
(* What catch_up makes of the replicated log: fences announce the epoch in *)
(* force, and only operations records with that epoch are applied.  The    *)
(* live tail, the history tail and the lease are about the same log.       *)
(***************************************************************************)
EXTENDS Naturals, Sequences

\* writer_epoch behind the first i records of the log L.
EpochIn(L, i) ==
    LET fences == {L[j].epoch : j \in {k \in 1..i : L[k].kind = "fence"}}
    IN  CHOOSE e \in fences \cup {0} : \A f \in fences : f <= e

\* catch_up applies record i, and what it has applied of the first i records.
TakenIn(L, i) == L[i].kind = "operations" /\ L[i].epoch = EpochIn(L, i - 1)
TakenTo(L, i) == {L[j].op : j \in {k \in 1..i : TakenIn(L, k)}}

\* Record i came ahead of the fence of its epoch; no catch_up applies it.
EarlyIn(L, i) == L[i].kind = "operations" /\ L[i].epoch > EpochIn(L, i - 1)
EarlyTo(L, i) == {L[j].op : j \in {k \in 1..i : EarlyIn(L, k)}}
=============================================================================
