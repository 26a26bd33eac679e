------------------------------ MODULE Replicas ------------------------------
(***************************************************************************)
(* What the cluster promises, with the log, its epochs, the lease, the     *)
(* tails and the checkpoints left out.  Operations are chosen one by one   *)
(* and stay chosen.  A node keeps what it holds through every crash, and   *)
(* never holds two contents of one operation_id.  What it learns is        *)
(* chosen; what it acknowledges is chosen too, or it is early: put in the  *)
(* log by a writer that has no fence there, which nobody learns.  "ok"     *)
(* means that some node holds the operation; "conflict" that its           *)
(* identifier was used for another one.                                    *)
(***************************************************************************)
CONSTANTS
    Nodes,
    Requests,
    Ops         \* operations: records with the fields id and fp

VARIABLES
    asked,      \* the operation of each request
    chosen,     \* the operations every node has to apply
    early,      \* those of a writer without a fence
    held,       \* what each node has applied
    answer      \* the reply of each request, "none" before it is given

replicaVars == <<asked, chosen, early, held, answer>>

Clash(o, p) == o.id = p.id /\ o.fp # p.fp

ReplicasInit ==
    /\ asked \in [Requests -> Ops]
    /\ chosen = {} /\ early = {}
    /\ held = [n \in Nodes |-> {}]
    /\ answer = [r \in Requests |-> "none"]

Choose(o) ==
    /\ UNCHANGED <<asked, held, answer, early>>
    /\ chosen' = chosen \cup {o}

ComeEarly(o) ==
    /\ UNCHANGED <<asked, held, answer, chosen>>
    /\ early' = early \cup {o}

Hold(n, o) ==
    /\ \A p \in held[n] : ~Clash(o, p)
    /\ held' = [held EXCEPT ![n] = @ \cup {o}]

Learn(n) ==
    /\ UNCHANGED <<asked, answer, chosen, early>>
    /\ \E o \in chosen : Hold(n, o)

AnswerOk(r) ==
    /\ answer' = [answer EXCEPT ![r] = "ok"]
    /\ asked[r] \in chosen \cup early
    /\ \E n \in Nodes : Hold(n, asked[r])

AnswerConflict(r) ==
    /\ answer' = [answer EXCEPT ![r] = "conflict"]
    /\ UNCHANGED held
    /\ \E s \in Requests : Clash(asked[r], asked[s])

\* The requests of a node that goes down, or one that it cannot serve.
Fail(rs) ==
    /\ \A r \in rs : answer[r] = "none"
    /\ answer' = [r \in Requests |-> IF r \in rs THEN "unavailable" ELSE answer[r]]
    /\ UNCHANGED <<asked, held, chosen, early>>

Answer(r) ==
    /\ answer[r] = "none"
    /\ AnswerOk(r) \/ AnswerConflict(r)
    /\ UNCHANGED <<asked, chosen, early>>

ReplicasNext ==
    \/ \E rs \in SUBSET Requests : Fail(rs)
    \/ \E r \in Requests : Answer(r)
    \/ \E n \in Nodes : Learn(n)
    \/ \E o \in Ops : Choose(o) \/ ComeEarly(o)

ReplicasSpec == ReplicasInit /\ [][ReplicasNext]_replicaVars
=============================================================================
