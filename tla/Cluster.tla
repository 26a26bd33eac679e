------------------------------ MODULE Cluster ------------------------------
(***************************************************************************)
(* Several nodes that apply one replicated log: the writer's handlers,     *)
(* which publish a record and apply it themselves, and the tail of every   *)
(* node, which replays the log from its checkpoint under the epochs the    *)
(* fences announce and sends what it rejects to the dead-letter queue.     *)
(*                                                                         *)
(* The lease is what WriterLease shows it to be, one owner at a time; its  *)
(* epoch is fenced in the log before the owner serves, unless the fence    *)
(* fails and the owner renews.  A node's index, WAL and state are          *)
(* one durable set of applied operations (Store, Recovery).  A request     *)
(* carries one operation; one turned away by ensure_writer at once changes *)
(* nothing and is left out.                                                *)
(*                                                                         *)
(* Operators marked "Mutation" are plausible mistakes in the operator      *)
(* below them; the specification does not use them.                        *)
(***************************************************************************)
EXTENDS Naturals, Sequences, AcceptedLog

CONSTANTS
    Nodes, Requests,
    Ops,            \* operations: records with the fields id and fp
    Workloads,      \* what the requests may bring: functions to Ops
    MaxEpoch,       \* bound on takeovers
    MaxFaults,      \* bound on crashes, poison records, failed reads, appends and fences
    PoisonPlaces,   \* bound on the sequences that poison records may get
    FirstWriter,    \* the node without a WRITER_PRIORITY_DELAY
    NoNode

ASSUME ClusterAssumption ==
    /\ NoNode \notin Nodes /\ FirstWriter \in Nodes
    /\ Workloads \subseteq [Requests -> Ops]
    /\ MaxEpoch \in Nat /\ MaxFaults \in Nat /\ PoisonPlaces \subseteq Nat

VARIABLES
    log,            \* the stream WAREHOUSE_OPERATIONS
    late,           \* records under way whose senders have given up
    dlq,            \* sequences of the records in WAREHOUSE_DLQ
    owner, lease,   \* the node the entry WRITER_KEY names, its epoch
    stage,          \* of the owner: it waits for its fence, the fence has failed, or
                    \* it has a valid lease
    known,          \* what each node has applied
    tail,           \* where catch_up is: a position and the epoch in force
    ckpt,           \* the checkpoint file, the same two numbers
    barrier,        \* a starting node's last_sequence, 0 when it serves
    asked, pc, at, ep, answer, \* the requests: operation, handler, reply
    faults

vars == <<log, late, dlq, owner, lease, stage, known, tail, ckpt, barrier,
          asked, pc, at, ep, answer, faults>>
leaseVars   == <<owner, lease, stage>>
tailVars    == <<tail, ckpt, barrier>>
requestVars == <<asked, pc, at, ep, answer>>

Fence(e)         == [kind |-> "fence", epoch |-> e]
Operations(e, o) == [kind |-> "operations", epoch |-> e, op |-> o]
Poison           == [kind |-> "poison"]

Epochs  == 0..MaxEpoch
Records == {Fence(e) : e \in Epochs} \cup {Poison}
           \cup {Operations(e, o) : e \in Epochs, o \in Ops}
Cursors == [pos : Nat, epoch : Epochs]

Clash(o, p) == o.id = p.id /\ o.fp # p.fp

TypeOK ==
    /\ log \in Seq(Records) /\ late \subseteq Records
    /\ dlq \subseteq 1..Len(log)
    /\ owner \in Nodes \cup {NoNode} /\ lease \in Epochs
    /\ stage \in {"none", "promoted", "failed", "held"}
    /\ known \in [Nodes -> SUBSET Ops]
    /\ tail \in [Nodes -> Cursors] /\ ckpt \in [Nodes -> Cursors]
    /\ barrier \in [Nodes -> Nat]
    /\ asked \in [Requests -> Ops]
    /\ pc \in [Requests -> {"new", "checked", "sent", "landed", "done"}]
    /\ at \in [Requests -> Nodes \cup {NoNode}] /\ ep \in [Requests -> Epochs]
    /\ answer \in [Requests -> {"none", "ok", "conflict", "unavailable"}]
    /\ faults \in 0..MaxFaults

Init ==
    /\ log = << >> /\ late = {} /\ dlq = {}
    /\ owner = NoNode /\ lease = 0 /\ stage = "none"
    /\ known = [n \in Nodes |-> {}]
    /\ tail = [n \in Nodes |-> [pos |-> 0, epoch |-> 0]]
    /\ ckpt = tail
    /\ barrier = [n \in Nodes |-> 0]
    /\ asked \in Workloads
    /\ pc = [r \in Requests |-> "new"]
    /\ at = [r \in Requests |-> NoNode] /\ ep = [r \in Requests |-> 0]
    /\ answer = [r \in Requests |-> "none"]
    /\ faults = 0

Serving(n) == barrier[n] = 0
Fault == faults < MaxFaults /\ faults' = faults + 1

-----------------------------------------------------------------------------
(* The lease, as WriterLease shows it: it may go at any moment, and the next *)
(* owner, perhaps the same node, has a new epoch.  Nothing in                *)
(* start_writer_lease waits until the new writer's tail has passed the old   *)
(* writer's records.  A lease that is lost and not yet taken answers 503,    *)
(* which PublishTimeout covers.                                              *)

\* The entry has expired; create and the first update of the next one.
Promote(n) ==
    /\ Serving(n) /\ lease < MaxEpoch /\ (lease = 0 => n = FirstWriter)
    /\ stage # "promoted"
    /\ owner' = n /\ lease' = lease + 1 /\ stage' = "promoted"
    /\ UNCHANGED <<log, late, dlq, known, tailVars, requestVars, faults>>

\* append_fence; with a lost reply it is FenceFails and a late record.
FenceLands ==
    /\ stage = "promoted" /\ stage' = "held"
    /\ log' = Append(log, Fence(lease))
    /\ UNCHANGED <<owner, lease, late, dlq, known, tailVars, requestVars, faults>>

\* The update's reply is lost or append_fence fails: the entry stays.
FenceFails ==
    /\ Fault /\ stage = "promoted" /\ stage' = "failed"
    /\ late' = late \cup {Fence(lease)}
    /\ UNCHANGED <<owner, lease, log, dlq, known, tailVars, requestVars>>

\* The next round finds its own entry with an epoch, and asks for no fence.
Renew ==
    /\ stage = "failed" /\ Serving(owner) /\ stage' = "held"
    /\ UNCHANGED <<owner, lease, log, late, dlq, known, tailVars, requestVars, faults>>

-----------------------------------------------------------------------------
(* Handlers *)

\* What handlers of n have reserved.
Pending(n) ==
    {asked[r] : r \in {q \in Requests : at[q] = n /\ pc[q] \in {"sent", "landed"}}}

\* Mutation: a pending reservation with another content is no conflict.
RefusesKnown(n, o) == \E p \in known[n] : Clash(o, p)

Refuses(n, o) == \E p \in known[n] \cup Pending(n) : Clash(o, p)

Goto(r, place) ==
    pc' = [pc EXCEPT ![r] = place] /\ UNCHANGED <<asked, at, ep, answer>>

\* The handlers of the requests rs end with the answer a, "unavailable" if it is
\* none.
End(rs, a) ==
    /\ pc' = [r \in Requests |-> IF r \in rs THEN "done" ELSE pc[r]]
    /\ at' = [r \in Requests |-> IF r \in rs THEN NoNode ELSE at[r]]
    /\ ep' = [r \in Requests |-> IF r \in rs THEN 0 ELSE ep[r]]
    /\ answer' = [r \in Requests |-> IF r \in rs THEN a ELSE answer[r]]
    /\ UNCHANGED asked

Reply(r, a) == End({r}, a)

\* ensure_writer: the epoch is read here and used for the record.
CheckWriter(r, n) ==
    /\ pc[r] = "new" /\ Serving(n) /\ owner = n /\ stage = "held"
    /\ pc' = [pc EXCEPT ![r] = "checked"]
    /\ at' = [at EXCEPT ![r] = n]
    /\ ep' = [ep EXCEPT ![r] = lease]
    /\ UNCHANGED <<log, late, dlq, leaseVars, known, tailVars, asked, answer, faults>>

\* The preflight: an operation known here with this content is a duplicate and
\* answered without the quorum, another content is a conflict, one that is
\* pending is waited for, and an unknown one is reserved and published.
Preflight(r) ==
    LET n == at[r] o == asked[r]
    IN  /\ pc[r] = "checked"
        /\ \/ Refuses(n, o) /\ Reply(r, "conflict")
           \/ o \in known[n] /\ Reply(r, "ok")
           \/ /\ ~Refuses(n, o) /\ o \notin known[n] \cup Pending(n)
              /\ Goto(r, "sent")
        /\ UNCHANGED <<log, late, dlq, leaseVars, known, tailVars, faults>>

\* The quorum stores a record, or takes an identical one, with the same
\* Nats-Msg-Id, for it.
Land(record) ==
    log' \in {Append(log, record)}
             \cup (IF \E i \in 1..Len(log) : log[i] = record THEN {log} ELSE {})

RecordLands(r) ==
    /\ pc[r] = "sent" /\ Goto(r, "landed")
    /\ Land(Operations(ep[r], asked[r]))
    /\ UNCHANGED <<late, dlq, leaseVars, known, tailVars, faults>>

LateRecordLands(record) ==
    /\ late' = late \ {record}
    /\ Land(record)
    /\ UNCHANGED <<dlq, leaseVars, known, tailVars, requestVars, faults>>

\* Mutation: the second check asks for the lease, not for the same epoch.
StillOwner(r) == owner = at[r] /\ stage = "held"

\* The second ensure_writer.
StillWriter(r) == owner = at[r] /\ stage = "held" /\ lease = ep[r]

\* The acknowledgement is here and the lease is checked again: the operation is
\* applied and answered, or the reservation is dropped.
Confirm(r) ==
    LET n == at[r]
    IN  /\ pc[r] = "landed"
        /\ IF StillWriter(r)
           THEN Reply(r, "ok") /\ known' = [known EXCEPT ![n] = @ \cup {asked[r]}]
           ELSE Reply(r, "unavailable") /\ UNCHANGED known
        /\ UNCHANGED <<log, late, dlq, leaseVars, tailVars, faults>>

\* What a handler that ends early leaves under way.
Abandoned(r) == IF pc[r] = "sent" THEN {Operations(ep[r], asked[r])} ELSE {}

\* The fence a node that goes down leaves under way.
FenceOf(n) == IF owner = n /\ stage = "promoted" THEN {Fence(lease)} ELSE {}

\* 503: replicate's two seconds are over and the record may land later, or it
\* has landed and the WAL refuses the operation.
PublishTimeout(r) ==
    /\ pc[r] \in {"sent", "landed"} /\ Reply(r, "unavailable")
    /\ late' = late \cup Abandoned(r)
    /\ UNCHANGED <<log, dlq, leaseVars, known, tailVars, faults>>

-----------------------------------------------------------------------------
(* The tail: catch_up at start-up and in run_live_tail *)

Behind(n) == tail[n].pos < Len(log)
Ahead(n)  == log[tail[n].pos + 1]

Pass(n, e) == tail' = [tail EXCEPT ![n] = [pos |-> @.pos + 1, epoch |-> e]]

TailFence(n) ==
    /\ Behind(n) /\ Ahead(n).kind = "fence"
    /\ Pass(n, IF Ahead(n).epoch > tail[n].epoch THEN Ahead(n).epoch ELSE tail[n].epoch)
    /\ UNCHANGED <<log, late, dlq, leaseVars, known, ckpt, barrier, requestVars, faults>>

\* The record the tail stands before has the epoch in force.
InForce(n) ==
    Behind(n) /\ Ahead(n).kind = "operations" /\ Ahead(n).epoch = tail[n].epoch

\* restore_chunk: what is missing is applied; it waits for a handler that has
\* reserved the same operation.
TailApplies(n) ==
    /\ InForce(n) /\ ~Refuses(n, Ahead(n).op) /\ Ahead(n).op \notin Pending(n)
    /\ known' = [known EXCEPT ![n] = @ \cup {Ahead(n).op}]
    /\ Pass(n, tail[n].epoch)
    /\ UNCHANGED <<log, late, dlq, leaseVars, ckpt, barrier, requestVars, faults>>

\* Mutation: a poison record is not passed.
RejectsStale(n) == Behind(n) /\ ~InForce(n) /\ Ahead(n).kind = "operations"

\* read() cannot decode the record, or its epoch is not in force.
Rejects(n) == Behind(n) /\ ~InForce(n) /\ Ahead(n).kind # "fence"

\* Mutation: the sequence behind the record's is quarantined.
SourceNext(n) == tail[n].pos + 2

\* source_sequence
Source(n) == tail[n].pos + 1

\* To the DLQ, where Nats-Msg-Id makes the copies of all nodes one.
TailRejects(n) ==
    /\ Rejects(n)
    /\ dlq' = dlq \cup {Source(n)}
    /\ Pass(n, tail[n].epoch)
    /\ UNCHANGED <<log, late, leaseVars, known, ckpt, barrier, requestVars, faults>>

\* Back to the checkpoint; a node that was starting ends and starts again.
Rewind(n) ==
    /\ tail' = [tail EXCEPT ![n] = ckpt[n]]
    /\ barrier' = [barrier EXCEPT ![n] = IF Serving(n) THEN 0 ELSE Len(log)]

\* catch_up returns an error: the record's content clashes with what the node
\* knows, or the read, the WAL, the DLQ or the checkpoint's file failed.
TailFails(n) ==
    /\ \/ InForce(n) /\ Refuses(n, Ahead(n).op) /\ UNCHANGED faults
       \/ Fault /\ tail[n] # ckpt[n]
    /\ Rewind(n)
    /\ UNCHANGED <<log, late, dlq, leaseVars, known, ckpt, requestVars>>

\* Mutation: the checkpoint keeps the epoch it was opened with.
SavedPosition(n) == [tail[n] EXCEPT !.epoch = ckpt[n].epoch]

\* CheckpointValue
Saved(n) == tail[n]

\* After 64 records or at the end of a catch_up; any place may be one.
AdvanceCheckpoint(n) ==
    /\ ckpt[n].pos < tail[n].pos
    /\ ckpt' = [ckpt EXCEPT ![n] = Saved(n)]
    /\ UNCHANGED <<log, late, dlq, leaseVars, known, tail, barrier, requestVars, faults>>

\* Start-up's catch_up is through and saved.
Serve(n) ==
    /\ ~Serving(n) /\ ckpt[n].pos >= barrier[n]
    /\ barrier' = [barrier EXCEPT ![n] = 0]
    /\ UNCHANGED <<log, late, dlq, leaseVars, known, tail, ckpt, requestVars, faults>>

\* The process dies and starts again under its instance_id, so that a lease
\* that has not expired stays its own, with its epoch.  Its clients know as much
\* as behind a 503.
Crash(n) ==
    LET lost == {r \in Requests : at[r] = n /\ pc[r] # "done"}
    IN  /\ Fault /\ End(lost, "unavailable")
        /\ late' = late \cup FenceOf(n) \cup UNION {Abandoned(r) : r \in lost}
        /\ stage' = IF FenceOf(n) = {} THEN stage ELSE "failed"
        /\ tail' = [tail EXCEPT ![n] = ckpt[n]]
        /\ barrier' = [barrier EXCEPT ![n] = Len(log)]
        /\ UNCHANGED <<log, dlq, owner, lease, known, ckpt>>

\* Somebody publishes what is no record.
PoisonLands ==
    /\ Fault /\ Len(log) + 1 \in PoisonPlaces
    /\ log' = Append(log, Poison)
    /\ UNCHANGED <<late, dlq, leaseVars, known, tailVars, requestVars>>

-----------------------------------------------------------------------------
HandlerStep(r) ==
    \/ \E n \in Nodes : CheckWriter(r, n)
    \/ Preflight(r) \/ RecordLands(r) \/ Confirm(r) \/ PublishTimeout(r)

TailStep(n) ==
    TailFence(n) \/ TailApplies(n) \/ TailRejects(n)

Next ==
    \/ \E n \in Nodes :
          \/ Promote(n) \/ TailStep(n) \/ TailFails(n)
          \/ AdvanceCheckpoint(n) \/ Serve(n) \/ Crash(n)
    \/ FenceLands \/ FenceFails \/ Renew
    \/ PoisonLands
    \/ \E r \in Requests : HandlerStep(r)
    \/ \E record \in late : LateRecordLands(record)

\* A handler that waits for the quorum gets its answer or its timeout; the task
\* that runs start-up's catch_up, saves its checkpoint and then tails the log goes
\* on as long as it has something to do.
Fairness ==
    /\ \A r \in Requests : WF_vars(Confirm(r) \/ PublishTimeout(r))
    /\ \A n \in Nodes : WF_vars(TailStep(n) \/ AdvanceCheckpoint(n) \/ Serve(n))

Spec == Init /\ [][Next]_vars /\ Fairness

-----------------------------------------------------------------------------
(* Properties *)

\* The epoch in force behind the first i records, and what catch_up makes of them.
EpochAfter(i) == EpochIn(log, i)
AcceptedTo(i) == TakenTo(log, i)
Accepted      == AcceptedTo(Len(log))
Rejected      == {i \in 1..Len(log) : log[i].kind # "fence" /\ ~TakenIn(log, i)}

\* What a writer has put in the log ahead of its own fence: append_fence has
\* failed and the next round has renewed the lease without one.
Early == EarlyTo(log, Len(log))

\* Before its next checkpoint a node's tail comes to another content of what the
\* node has applied, which catch_up takes for an error each time.
Stopped(n) ==
    \E i \in ckpt[n].pos + 1..Len(log) :
        TakenIn(log, i) /\ \E p \in known[n] : Clash(log[i].op, p)

\* The cluster keeps what Replicas promises, whoever holds or held the lease: a
\* tail applies only what every node's catch_up accepts, no crash makes a node
\* forget, none holds two contents of one operation_id, and "ok" is said only for
\* what is applied, and accepted unless it came ahead of its writer's fence.
R == INSTANCE Replicas WITH chosen <- Accepted, early <- Early, held <- known
ImplementsReplicas == R!ReplicasSpec

\* A tail passes no record it should apply without applying it, over every
\* restart, rewind and race with its own node's handlers: its epoch is the one
\* the fences before it give, and so is its checkpoint's.
PassedIsApplied ==
    \A n \in Nodes :
        /\ AcceptedTo(tail[n].pos) \subseteq known[n]
        /\ \A c \in {tail[n], ckpt[n]} : c.epoch = EpochAfter(c.pos)

\* The DLQ holds what tails have rejected, all of it and nothing else: never a
\* record that the tail of another node applies (PRESENTATION-CHEATSHEET.md:152).
\* Its writer may have applied it, if its fence is not in the log before it.
DeadLettersAreRejects ==
    /\ dlq \subseteq Rejected
    /\ \A n \in Nodes : Rejected \cap (1..tail[n].pos) \subseteq dlq

\* RESULTS.md: nodes converge.  Every node ends up at the end of the log with
\* everything that was accepted, and with nothing else but what it acknowledged
\* ahead of its fence, unless it stands before another content of an operation
\* it has applied.
EventuallyAgree ==
    <>[]\A n \in Nodes :
          \/ /\ tail[n].pos = Len(log)
             /\ Accepted \subseteq known[n] /\ known[n] \subseteq Accepted \cup Early
          \/ Stopped(n)

\* PRESENTATION-CHEATSHEET.md:90: the same identifier with another content is a
\* conflict.  Under one writer two contents are never both acknowledged, over
\* timeouts, late records and its restarts.  The log may still take both, when the
\* first request has timed out and its record lands late (Stopped); and the next
\* writer may acknowledge the second, asked before its tail knows the first.
OneWriterOneContent ==
    lease < 2 => \A r, s \in Requests :
        answer[r] = "ok" /\ answer[s] = "ok" => ~Clash(asked[r], asked[s])

\* PRESENTATION-CHEATSHEET.md:152: the epoch is written to the canonical log, so
\* that what is acknowledged under it every node applies.
AckedIsAccepted == \A r \in Requests : answer[r] = "ok" => asked[r] \in Accepted

-----------------------------------------------------------------------------
(* The inductive invariant behind them and behind the refinement             *)

\* No epoch is newer than the present lease's, in the log, under way or read by a
\* handler; the lease's own fence may be missing.
EpochInv ==
    /\ EpochAfter(Len(log)) <= lease
    /\ \A i \in 1..Len(log) : log[i].kind = "operations" => log[i].epoch <= lease
    /\ \A record \in late :
          record.kind \in {"fence", "operations"} /\ record.epoch <= lease
    /\ \A r \in Requests : ep[r] <= lease

\* A checkpoint is behind its tail, a tail within the log.
CursorInv ==
    \A n \in Nodes : ckpt[n].pos <= tail[n].pos /\ tail[n].pos <= Len(log)

\* The log carries only what was asked for.
AskedInv ==
    /\ \A i \in 1..Len(log) : log[i].kind = "operations" =>
          \E r \in Requests : log[i].op = asked[r]
    /\ \A record \in late : record.kind = "operations" =>
          \E r \in Requests : record.op = asked[r]

\* A handler runs at a node until it has answered, and waits for its confirmation
\* only behind its record.
HandlerInv ==
    \A r \in Requests :
        /\ answer[r] = "none" <=> pc[r] # "done"
        /\ pc[r] \in {"checked", "sent", "landed"} => at[r] \in Nodes
        /\ pc[r] = "landed" =>
              \E i \in 1..Len(log) : log[i] = Operations(ep[r], asked[r])

\* A node has applied only what every node's catch_up accepts or what came ahead of
\* its fence, and has applied or reserved one content of an identifier.
KnownInv ==
    \A n \in Nodes :
        /\ known[n] \subseteq Accepted \cup Early
        /\ \A o, p \in known[n] \cup Pending(n) : ~Clash(o, p)

\* Under the first lease everything is asked of one node.
FirstInv ==
    /\ lease = 0 => owner = NoNode
    /\ lease < 2 =>
          /\ owner \in {FirstWriter, NoNode}
          /\ \A r \in Requests :
                /\ pc[r] \in {"checked", "sent", "landed"} => at[r] = FirstWriter
                /\ answer[r] = "ok" => asked[r] \in known[FirstWriter]

CInv ==
    /\ TypeOK
    /\ CursorInv
    /\ EpochInv
    /\ PassedIsApplied
    /\ DeadLettersAreRejects
    /\ AskedInv
    /\ HandlerInv
    /\ KnownInv
    /\ FirstInv
=============================================================================
