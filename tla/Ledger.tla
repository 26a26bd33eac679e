------------------------------- MODULE Ledger -------------------------------
(***************************************************************************)
(* What one node promises the clients of its HTTP API, with every queue,   *)
(* lock and file left out.  A request brings a batch of operations.  The   *)
(* ledger is the set of operations the node has made durable; it only      *)
(* grows, all the missing operations of a request enter it in one step,    *)
(* and it never holds two operations with one operation_id.  A request is  *)
(* answered "ok" only for a batch the ledger contains, "conflict" only     *)
(* when somebody really used one of its identifiers for another content.   *)
(***************************************************************************)
EXTENDS Naturals, FiniteSets

CONSTANTS
    Requests,   \* calls of the batch endpoint
    Ops         \* operations: records with at least the fields id and fp

VARIABLES
    ledger,     \* the durable operations
    asked,      \* the batch of each request, empty before it is submitted
    answer      \* the reply of each request, "none" before it is given

ledgerVars == <<ledger, asked, answer>>

Replies == {"none", "ok", "conflict", "unavailable", "gone"}

\* Two operations a ledger may never hold together: one operation_id used for
\* two contents.
Clash(o, p) == o.id = p.id /\ o.fp # p.fp

\* Every operation the node has ever been shown.
Seen == ledger \cup UNION {asked[r] : r \in Requests}

LedgerTypeOK ==
    /\ ledger \subseteq Ops
    /\ asked \in [Requests -> SUBSET Ops]
    /\ answer \in [Requests -> Replies]

LedgerInit ==
    /\ ledger = {}
    /\ asked = [r \in Requests |-> {}]
    /\ answer = [r \in Requests |-> "none"]

\* A client sends a batch; one whose own operations clash is refused at once.
Ask(r, ops) ==
    /\ asked[r] = {}
    /\ asked' = [asked EXCEPT ![r] = ops]
    /\ answer' = [answer EXCEPT ![r] =
                    IF \E o, p \in ops : Clash(o, p) THEN "conflict" ELSE "none"]
    /\ UNCHANGED ledger

\* Everything of r's batch that is missing becomes durable, in one step.  The
\* client may have gone in the meantime.
Commit(r) ==
    /\ asked[r] # {}
    /\ answer[r] \in {"none", "gone"}
    /\ \A o \in asked[r] : \A p \in ledger \cup asked[r] : ~Clash(o, p)
    /\ ledger' = ledger \cup asked[r]
    /\ UNCHANGED <<asked, answer>>

AnswerOk(r) == asked[r] \subseteq ledger /\ answer' = [answer EXCEPT ![r] = "ok"]

AnswerConflict(r) ==
    /\ \E o \in asked[r] : \E p \in Seen : Clash(o, p)
    /\ answer' = [answer EXCEPT ![r] = "conflict"]

AnswerUnavailable(r) == answer' = [answer EXCEPT ![r] = "unavailable"]

\* The client hangs up and will never see a reply.
HangUp(r) == answer' = [answer EXCEPT ![r] = "gone"]

Answer(r) ==
    /\ asked[r] # {}
    /\ answer[r] = "none"
    /\ UNCHANGED <<ledger, asked>>
    /\ \/ AnswerOk(r)
       \/ AnswerConflict(r)
       \/ AnswerUnavailable(r)
       \/ HangUp(r)

LedgerNext ==
    \E r \in Requests :
        \/ \E ops \in (SUBSET Ops) \ {{}} : Ask(r, ops)
        \/ Commit(r)
        \/ Answer(r)

LedgerSpec == LedgerInit /\ [][LedgerNext]_ledgerVars
=============================================================================
