--------------------------- MODULE ClusterProofs ---------------------------
(***************************************************************************)
(* The cluster keeps its inductive invariant CInv, and with it what it      *)
(* promises, for every set of nodes, requests and operations and every      *)
(* bound on takeovers and faults; and each of its steps is a step of        *)
(* Replicas or none.                                                        *)
(***************************************************************************)
EXTENDS Cluster, AcceptedLogProofs

-----------------------------------------------------------------------------
(* Records and the epochs of a log *)

\* The kinds of records are told apart by their kind, operations also by their
\* epoch and operation.
LEMMA RecordKinds ==
    /\ \A e : Fence(e).kind = "fence" /\ Fence(e).epoch = e
    /\ \A e, o : /\ Operations(e, o).kind = "operations"
                 /\ Operations(e, o).epoch = e /\ Operations(e, o).op = o
    /\ Poison.kind = "poison"
BY DEF Fence, Operations, Poison

LEMMA RecordFields ==
    ASSUME NEW L \in Seq(Records), NEW k \in 1..Len(L)
    PROVE  /\ L[k].kind \in {"fence", "operations", "poison"}
           /\ L[k].kind = "fence" => L[k].epoch \in Epochs
           /\ L[k].kind = "operations" => L[k].epoch \in Epochs /\ L[k].op \in Ops
<1>1. L[k] \in Records
  OBVIOUS
<1>2. CASE \E e \in Epochs : L[k] = Fence(e)
  BY <1>2, RecordKinds
<1>3. CASE L[k] = Poison
  BY <1>3, RecordKinds
<1>4. CASE \E e \in Epochs, o \in Ops : L[k] = Operations(e, o)
  BY <1>4, RecordKinds
<1>. QED
  BY <1>1, <1>2, <1>3, <1>4 DEF Records

\* The log of the cluster is a log.
LEMMA RecordsAreLog ==
    ASSUME NEW L \in Seq(Records)
    PROVE  IsLog(L)
BY RecordFields DEF IsLog, Epochs

\* A record appended leaves everything before it alone.
LEMMA Appended ==
    ASSUME NEW L \in Seq(Records), NEW record \in Records
    PROVE  /\ Append(L, record) \in Seq(Records)
           /\ Len(Append(L, record)) = Len(L) + 1
           /\ Append(L, record)[Len(L) + 1] = record
           /\ \A k \in 1..Len(L) : Append(L, record)[k] = L[k]
           /\ \A i \in 0..Len(L) :
                 /\ EpochIn(Append(L, record), i) = EpochIn(L, i)
                 /\ TakenTo(Append(L, record), i) = TakenTo(L, i)
                 /\ EarlyTo(Append(L, record), i) = EarlyTo(L, i)
           /\ \A k \in 1..Len(L) : TakenIn(Append(L, record), k) <=> TakenIn(L, k)
<1>. DEFINE M == Append(L, record)
<1>1. /\ M \in Seq(Records) /\ Len(M) = Len(L) + 1
      /\ M[Len(L) + 1] = record /\ \A k \in 1..Len(L) : M[k] = L[k]
      /\ Len(L) \in Nat
  OBVIOUS
<1>. HIDE DEF M
<1>2. ASSUME NEW i \in 0..Len(L)
      PROVE  /\ EpochIn(M, i) = EpochIn(L, i) /\ TakenTo(M, i) = TakenTo(L, i)
             /\ EarlyTo(M, i) = EarlyTo(L, i)
  <2>1. i \in Nat /\ i <= Len(L) /\ i <= Len(M) /\ \A k \in 1..i : M[k] = L[k]
    BY <1>1, <1>2
  <2>. QED
    BY <1>1, <2>1, SamePrefix, RecordsAreLog
<1>3. \A k \in 1..Len(L) : TakenIn(M, k) <=> TakenIn(L, k)
  <2>1. Len(L) <= Len(M)
    BY <1>1
  <2>. QED
    BY <1>1, <2>1, SamePrefix, RecordsAreLog
<1>. QED
  BY <1>1, <1>2, <1>3 DEF M

-----------------------------------------------------------------------------
(* Steps *)

\* What a step does to the requests: one reserves its operation or has its record
\* in the log, or some end.
Reserves(r) ==
    /\ pc[r] = "checked" /\ Goto(r, "sent")
    /\ ~Refuses(at[r], asked[r])
    /\ UNCHANGED <<log, known>>

Proceeds == \E r \in Requests : Reserves(r) \/ RecordLands(r)

Ends == \E rs \in SUBSET Requests, a \in {"ok", "conflict", "unavailable"} : End(rs, a)

LEMMA RequestCases ==
    ASSUME TypeOK, [Next]_vars
    PROVE  \/ UNCHANGED requestVars
           \/ \E r \in Requests, n \in Nodes : CheckWriter(r, n)
           \/ Proceeds
           \/ Ends
<1>1. \A r \in Requests : {r} \in SUBSET Requests
  OBVIOUS
<1>2. ASSUME NEW n \in Nodes,
             \/ Promote(n) \/ TailStep(n) \/ TailFails(n)
             \/ AdvanceCheckpoint(n) \/ Serve(n)
      PROVE  UNCHANGED requestVars
  BY <1>2 DEF Promote, TailStep, TailFence, TailApplies, TailRejects, TailFails,
              AdvanceCheckpoint, Serve, requestVars
<1>3. ASSUME NEW n \in Nodes, Crash(n)
      PROVE  Ends
  <2>. DEFINE lost == {r \in Requests : at[r] = n /\ pc[r] # "done"}
  <2>1. End(lost, "unavailable")
    BY <1>3 DEF Crash
  <2>2. lost \in SUBSET Requests
    OBVIOUS
  <2>. QED
    BY <2>1, <2>2 DEF Ends
<1>4. ASSUME \/ PoisonLands \/ FenceLands \/ FenceFails \/ Renew \/ UNCHANGED vars
             \/ \E record \in late : LateRecordLands(record)
      PROVE  UNCHANGED requestVars
  BY <1>4 DEF PoisonLands, FenceLands, FenceFails, Renew, vars, LateRecordLands, requestVars
<1>5. ASSUME NEW r \in Requests, Preflight(r)
      PROVE  Proceeds \/ Ends
  <2>1. Ends \/ Reserves(r)
    BY <1>1, <1>5, Zenon DEF Preflight, Reply, Reserves, Ends
  <2>. QED
    BY <2>1 DEF Proceeds
<1>6. ASSUME NEW r \in Requests, RecordLands(r)
      PROVE  Proceeds
  BY <1>6 DEF Proceeds
<1>7. ASSUME NEW r \in Requests, Confirm(r) \/ PublishTimeout(r)
      PROVE  Ends
  BY <1>1, <1>7, Zenon DEF Confirm, PublishTimeout, Reply, Ends
<1>. QED
  BY <1>2, <1>3, <1>4, <1>5, <1>6, <1>7 DEF Next, HandlerStep

LEMMA OperationsAreRecords ==
    ASSUME TypeOK
    PROVE  /\ \A r \in Requests : Operations(ep[r], asked[r]) \in Records
           /\ \A r \in Requests : Abandoned(r) \subseteq Records
           /\ Fence(lease) \in Records
BY DEF TypeOK, Records, Abandoned

\* What a step does to the log: nothing, or one record comes behind the others, a
\* poison record, or a fence or an operation somebody has asked for, with an epoch
\* that is not newer than the lease.
Lands(record) ==
    /\ record \in Records
    /\ log' = Append(log, record)
    /\ \/ record.kind = "poison"
       \/ record.kind = "fence" /\ record.epoch <= lease
       \/ /\ record.kind = "operations" /\ record.epoch <= lease
          /\ \E r \in Requests : record.op = asked[r]

LEMMA LogCases ==
    ASSUME TypeOK, EpochInv, AskedInv, [Next]_vars
    PROVE  log' = log \/ \E record \in Records : Lands(record)
<1>1. ASSUME FenceLands
      PROVE  Lands(Fence(lease)) /\ Fence(lease) \in Records
  <2>1. lease <= lease
    BY DEF TypeOK, Epochs
  <2>. QED
    BY <1>1, <2>1, OperationsAreRecords, RecordKinds DEF FenceLands, Lands
<1>2. ASSUME PoisonLands
      PROVE  Lands(Poison) /\ Poison \in Records
  BY <1>2, RecordKinds DEF PoisonLands, Lands, Records
<1>3. ASSUME NEW r \in Requests, RecordLands(r)
      PROVE  log' = log \/ \E record \in Records : Lands(record)
  <2>. DEFINE record == Operations(ep[r], asked[r])
  <2>1. record \in Records
    BY OperationsAreRecords
  <2>2. record.kind = "operations" /\ record.epoch <= lease /\ record.op = asked[r]
    BY RecordKinds DEF EpochInv
  <2>3. log' = log \/ log' = Append(log, record)
    BY <1>3 DEF RecordLands, Land
  <2>. HIDE DEF record
  <2>. QED
    BY <2>1, <2>2, <2>3 DEF Lands
<1>4. ASSUME NEW record \in late, LateRecordLands(record)
      PROVE  log' = log \/ (Lands(record) /\ record \in Records)
  <2>1. record \in Records /\ record.kind \in {"fence", "operations"} /\ record.epoch <= lease
    BY DEF TypeOK, EpochInv
  <2>2. record.kind = "operations" => \E r \in Requests : record.op = asked[r]
    BY DEF AskedInv
  <2>3. log' = log \/ log' = Append(log, record)
    BY <1>4 DEF LateRecordLands, Land
  <2>. QED
    BY <2>1, <2>2, <2>3 DEF Lands
<1>5. ASSUME NEW n \in Nodes,
             \/ Promote(n) \/ TailStep(n) \/ TailFails(n)
             \/ AdvanceCheckpoint(n) \/ Serve(n) \/ Crash(n)
      PROVE  log' = log
  BY <1>5 DEF Promote, TailStep, TailFence, TailApplies, TailRejects, TailFails,
              AdvanceCheckpoint, Serve, Crash
<1>6. ASSUME NEW r \in Requests,
             \/ \E n \in Nodes : CheckWriter(r, n)
             \/ Preflight(r) \/ Confirm(r) \/ PublishTimeout(r)
      PROVE  log' = log
  BY <1>6 DEF CheckWriter, Preflight, Confirm, PublishTimeout
<1>7. ASSUME FenceFails \/ Renew \/ UNCHANGED vars
      PROVE  log' = log
  BY <1>7 DEF FenceFails, Renew, vars
<1>. QED
  BY <1>1, <1>2, <1>3, <1>4, <1>5, <1>6, <1>7 DEF Next, HandlerStep

\* The lease changes when a node promotes its entry, and only then.
LEMMA LeaseCases ==
    ASSUME [Next]_vars
    PROVE  UNCHANGED <<owner, lease>> \/ \E n \in Nodes : Promote(n)
<1>1. ASSUME NEW n \in Nodes,
             \/ TailStep(n) \/ TailFails(n)
             \/ AdvanceCheckpoint(n) \/ Serve(n) \/ Crash(n)
      PROVE  UNCHANGED <<owner, lease>>
  BY <1>1 DEF TailStep, TailFence, TailApplies, TailRejects, TailFails,
              AdvanceCheckpoint, Serve, Crash, leaseVars
<1>2. ASSUME \/ PoisonLands \/ FenceLands \/ FenceFails \/ Renew \/ UNCHANGED vars
             \/ \E r \in Requests : HandlerStep(r)
             \/ \E record \in late : LateRecordLands(record)
      PROVE  UNCHANGED <<owner, lease>>
  BY <1>2 DEF PoisonLands, FenceLands, FenceFails, Renew, vars, HandlerStep, CheckWriter,
              Preflight, RecordLands, Confirm, PublishTimeout, LateRecordLands, leaseVars
<1>. QED
  BY <1>1, <1>2 DEF Next

\* Behind a step the log is as long as before or one record longer, and what was
\* in it is where it was and means what it meant.
LEMMA LogKept ==
    ASSUME TypeOK, EpochInv, AskedInv, [Next]_vars
    PROVE  /\ log' \in Seq(Records) /\ Len(log) \in Nat /\ Len(log') \in Nat
           /\ Len(log) <= Len(log')
           /\ \A k \in 1..Len(log) : log'[k] = log[k] /\ (TakenIn(log', k) <=> TakenIn(log, k))
           /\ \A i \in 0..Len(log) : /\ EpochIn(log', i) = EpochIn(log, i)
                                     /\ TakenTo(log', i) = TakenTo(log, i)
           /\ TakenTo(log, Len(log)) \subseteq TakenTo(log', Len(log'))
           /\ EarlyTo(log, Len(log)) \subseteq EarlyTo(log', Len(log'))
<1>1. log \in Seq(Records) /\ Len(log) \in Nat
  BY DEF TypeOK
<1>2. CASE log' = log
  BY <1>1, <1>2
<1>3. ASSUME NEW record \in Records, log' = Append(log, record)
      PROVE  /\ log' \in Seq(Records) /\ Len(log') \in Nat /\ Len(log) <= Len(log')
             /\ \A k \in 1..Len(log) : log'[k] = log[k] /\ (TakenIn(log', k) <=> TakenIn(log, k))
             /\ \A i \in 0..Len(log) : /\ EpochIn(log', i) = EpochIn(log, i)
                                       /\ TakenTo(log', i) = TakenTo(log, i)
             /\ TakenTo(log, Len(log)) \subseteq TakenTo(log', Len(log'))
             /\ EarlyTo(log, Len(log)) \subseteq EarlyTo(log', Len(log'))
  <2>1. /\ log' \in Seq(Records) /\ Len(log') = Len(log) + 1
        /\ \A k \in 1..Len(log) : log'[k] = log[k] /\ (TakenIn(log', k) <=> TakenIn(log, k))
        /\ \A i \in 0..Len(log) : /\ EpochIn(log', i) = EpochIn(log, i)
                                  /\ TakenTo(log', i) = TakenTo(log, i)
                                  /\ EarlyTo(log', i) = EarlyTo(log, i)
    BY <1>1, <1>3, Appended
  <2>2. Len(log) <= Len(log') /\ Len(log') \in Nat /\ Len(log) \in 0..Len(log)
    BY <1>1, <2>1
  <2>3. /\ TakenTo(log', Len(log)) \subseteq TakenTo(log', Len(log'))
        /\ EarlyTo(log', Len(log)) \subseteq EarlyTo(log', Len(log'))
    BY <1>1, <2>1, <2>2, Grows, RecordsAreLog
  <2>. QED
    BY <2>1, <2>2, <2>3
<1>. QED
  BY <1>1, <1>2, <1>3, LogCases DEF Lands

-----------------------------------------------------------------------------
(* Type correctness *)

LEMMA RequestTypes ==
    ASSUME TypeOK, [Next]_vars
    PROVE  /\ asked' = asked
           /\ pc' \in [Requests -> {"new", "checked", "sent", "landed", "done"}]
           /\ at' \in [Requests -> Nodes \cup {NoNode}] /\ ep' \in [Requests -> Epochs]
           /\ answer' \in [Requests -> {"none", "ok", "conflict", "unavailable"}]
<1>. USE DEF TypeOK
<1>1. CASE UNCHANGED requestVars
  BY <1>1 DEF requestVars
<1>2. ASSUME NEW r \in Requests, NEW n \in Nodes, CheckWriter(r, n)
      PROVE  /\ asked' = asked
             /\ pc' \in [Requests -> {"new", "checked", "sent", "landed", "done"}]
             /\ at' \in [Requests -> Nodes \cup {NoNode}] /\ ep' \in [Requests -> Epochs]
             /\ answer' = answer
  BY <1>2 DEF CheckWriter
<1>3. CASE Proceeds
  BY <1>3 DEF Proceeds, Reserves, RecordLands, Goto
<1>4. CASE Ends
  <2>1. 0 \in Epochs
    BY ClusterAssumption DEF Epochs
  <2>2. PICK rs \in SUBSET Requests, a \in {"ok", "conflict", "unavailable"} :
            End(rs, a)
    BY <1>4 DEF Ends
  <2>. QED
    BY <2>1, <2>2 DEF End
<1>. QED
  BY <1>1, <1>2, <1>3, <1>4, RequestCases

LEMMA CursorTypes ==
    ASSUME TypeOK, [Next]_vars
    PROVE  /\ tail' \in [Nodes -> Cursors] /\ ckpt' \in [Nodes -> Cursors]
           /\ barrier' \in [Nodes -> Nat]
<1>1. /\ tail \in [Nodes -> Cursors] /\ ckpt \in [Nodes -> Cursors]
      /\ barrier \in [Nodes -> Nat] /\ Len(log) \in Nat
  BY DEF TypeOK
<1>2. ASSUME NEW n \in Nodes, NEW e \in Epochs, Pass(n, e)
      PROVE  tail' \in [Nodes -> Cursors]
  <2>1. [pos |-> tail[n].pos + 1, epoch |-> e] \in Cursors
    BY <1>1 DEF Cursors
  <2>. QED
    BY <1>1, <1>2, <2>1 DEF Pass
<1>3. ASSUME NEW n \in Nodes, TailStep(n)
      PROVE  tail' \in [Nodes -> Cursors] /\ UNCHANGED <<ckpt, barrier>>
  <2>1. tail[n].epoch \in Epochs
    BY <1>1 DEF Cursors
  <2>2. Behind(n) /\ Ahead(n).kind = "fence" => Ahead(n).epoch \in Epochs
    <3>1. ASSUME Behind(n)
          PROVE  tail[n].pos + 1 \in 1..Len(log)
      BY <1>1, <3>1 DEF Behind, Cursors
    <3>. QED
      BY <3>1, RecordFields DEF Ahead, TypeOK
  <2>3. CASE TailFence(n)
    <3>1. PICK e \in Epochs : Pass(n, e)
      BY <2>1, <2>2, <2>3 DEF TailFence
    <3>. QED
      BY <1>2, <2>3, <3>1 DEF TailFence
  <2>4. CASE TailApplies(n) \/ TailRejects(n)
    <3>1. Pass(n, tail[n].epoch) /\ UNCHANGED <<ckpt, barrier>>
      BY <2>4 DEF TailApplies, TailRejects
    <3>. QED
      BY <1>2, <2>1, <3>1
  <2>. QED
    BY <1>3, <2>3, <2>4 DEF TailStep
<1>4. ASSUME NEW n \in Nodes, TailFails(n) \/ Crash(n)
      PROVE  /\ tail' = [tail EXCEPT ![n] = ckpt[n]]
             /\ ckpt' = ckpt
             /\ barrier' \in [Nodes -> Nat]
  <2>1. CASE TailFails(n)
    BY <1>1, <2>1 DEF TailFails, Rewind
  <2>2. CASE Crash(n)
    BY <1>1, <2>2 DEF Crash
  <2>. QED
    BY <1>4, <2>1, <2>2
<1>5. ASSUME NEW n \in Nodes, AdvanceCheckpoint(n)
      PROVE  /\ ckpt' = [ckpt EXCEPT ![n] = tail[n]]
             /\ UNCHANGED <<tail, barrier>>
  BY <1>5 DEF AdvanceCheckpoint, Saved
<1>6. ASSUME NEW n \in Nodes, Serve(n)
      PROVE  barrier' \in [Nodes -> Nat] /\ UNCHANGED <<tail, ckpt>>
  BY <1>1, <1>6 DEF Serve
<1>7. ASSUME \/ \E n \in Nodes : Promote(n)
             \/ PoisonLands \/ FenceLands \/ FenceFails \/ Renew
             \/ \E r \in Requests : HandlerStep(r)
             \/ \E record \in late : LateRecordLands(record)
             \/ UNCHANGED vars
      PROVE  UNCHANGED <<tail, ckpt, barrier>>
  BY <1>7 DEF Promote, PoisonLands, FenceLands, FenceFails, Renew, HandlerStep, CheckWriter,
              Preflight, RecordLands, Confirm, PublishTimeout, LateRecordLands, vars, tailVars
<1>8. CASE \E n \in Nodes : TailStep(n)
  BY <1>1, <1>3, <1>8
<1>9. CASE \E n \in Nodes : TailFails(n) \/ Crash(n)
  <2>1. PICK n \in Nodes : TailFails(n) \/ Crash(n)
    BY <1>9
  <2>. QED
    BY <1>1, <1>4, <2>1
<1>10. CASE \E n \in Nodes : AdvanceCheckpoint(n) \/ Serve(n)
  <2>1. PICK n \in Nodes : AdvanceCheckpoint(n) \/ Serve(n)
    BY <1>10
  <2>. QED
    BY <1>1, <1>5, <1>6, <2>1
<1>. QED
  BY <1>1, <1>7, <1>8, <1>9, <1>10 DEF Next

LEMMA KnownCases ==
    ASSUME [Next]_vars
    PROVE  \/ known' = known
           \/ \E n \in Nodes : TailApplies(n)
           \/ \E r \in Requests : Confirm(r) /\ StillWriter(r)
<1>1. ASSUME NEW n \in Nodes,
             \/ Promote(n) \/ TailFence(n) \/ TailRejects(n) \/ TailFails(n)
             \/ AdvanceCheckpoint(n) \/ Serve(n) \/ Crash(n)
      PROVE  known' = known
  BY <1>1 DEF Promote, TailFence, TailRejects, TailFails, AdvanceCheckpoint, Serve, Crash
<1>2. ASSUME NEW r \in Requests,
             \/ \E n \in Nodes : CheckWriter(r, n)
             \/ Preflight(r) \/ RecordLands(r) \/ PublishTimeout(r)
             \/ Confirm(r) /\ ~StillWriter(r)
      PROVE  known' = known
  BY <1>2 DEF CheckWriter, Preflight, RecordLands, PublishTimeout, Confirm
<1>3. ASSUME \/ PoisonLands \/ FenceLands \/ FenceFails \/ Renew \/ UNCHANGED vars
             \/ \E record \in late : LateRecordLands(record)
      PROVE  known' = known
  BY <1>3 DEF PoisonLands, FenceLands, FenceFails, Renew, vars, LateRecordLands
<1>. QED
  BY <1>1, <1>2, <1>3 DEF Next, HandlerStep, TailStep

LEMMA TypeStep ==
    ASSUME TypeOK, CursorInv, EpochInv, AskedInv, HandlerInv, [Next]_vars
    PROVE  TypeOK'
<1>1. log' \in Seq(Records) /\ Len(log) \in Nat /\ Len(log') \in Nat /\ Len(log) <= Len(log')
  BY LogKept
<1>2. late' \subseteq Records
  <2>1. late \subseteq Records
    BY DEF TypeOK
  <2>2. CASE late' \subseteq late
    BY <2>1, <2>2
  <2>3. ASSUME NEW r \in Requests, PublishTimeout(r)
        PROVE  late' \subseteq Records
    BY <2>1, <2>3, OperationsAreRecords DEF PublishTimeout
  <2>4. ASSUME NEW n \in Nodes, Crash(n)
        PROVE  late' \subseteq Records
    BY <2>1, <2>4, OperationsAreRecords DEF Crash, FenceOf
  <2>5. ASSUME NEW n \in Nodes,
               \/ Promote(n) \/ TailStep(n) \/ TailFails(n)
               \/ AdvanceCheckpoint(n) \/ Serve(n)
        PROVE  late' = late
    BY <2>5 DEF Promote, TailStep, TailFence, TailApplies, TailRejects, TailFails,
                AdvanceCheckpoint, Serve
  <2>6. ASSUME NEW r \in Requests,
               \/ \E n \in Nodes : CheckWriter(r, n)
               \/ Preflight(r) \/ RecordLands(r) \/ Confirm(r)
        PROVE  late' = late
    BY <2>6 DEF CheckWriter, Preflight, RecordLands, Confirm
  <2>7. ASSUME PoisonLands \/ FenceLands \/ Renew \/ UNCHANGED vars
        PROVE  late' = late
    BY <2>7 DEF PoisonLands, FenceLands, Renew, vars
  <2>8. ASSUME NEW record \in late, LateRecordLands(record)
        PROVE  late' \subseteq late
    BY <2>8 DEF LateRecordLands
  <2>9. ASSUME FenceFails
        PROVE  late' \subseteq Records
    BY <2>1, <2>9, OperationsAreRecords DEF FenceFails
  <2>. QED
    BY <2>1, <2>2, <2>3, <2>4, <2>5, <2>6, <2>7, <2>8, <2>9 DEF Next, HandlerStep
<1>3. dlq' \subseteq 1..Len(log')
  <2>1. dlq \subseteq 1..Len(log) /\ 1..Len(log) \subseteq 1..Len(log')
    BY <1>1 DEF TypeOK
  <2>2. ASSUME NEW n \in Nodes, TailRejects(n)
        PROVE  dlq' \subseteq 1..Len(log')
    <3>1. Source(n) \in 1..Len(log) /\ dlq' = dlq \cup {Source(n)}
      BY <1>1, <2>2 DEF TailRejects, Rejects, Behind, Source, TypeOK, Cursors
    <3>. QED
      BY <2>1, <3>1
  <2>3. ASSUME NEW n \in Nodes,
               \/ Promote(n) \/ TailFence(n) \/ TailApplies(n) \/ TailFails(n)
               \/ AdvanceCheckpoint(n) \/ Serve(n) \/ Crash(n)
        PROVE  dlq' = dlq
    BY <2>3 DEF Promote, TailFence, TailApplies, TailFails, AdvanceCheckpoint, Serve, Crash
  <2>4. ASSUME \/ PoisonLands \/ FenceLands \/ FenceFails \/ Renew \/ UNCHANGED vars
               \/ \E r \in Requests : HandlerStep(r)
               \/ \E record \in late : LateRecordLands(record)
        PROVE  dlq' = dlq
    BY <2>4 DEF PoisonLands, FenceLands, FenceFails, Renew, vars, HandlerStep, CheckWriter,
                Preflight, RecordLands, Confirm, PublishTimeout, LateRecordLands
  <2>. QED
    BY <2>1, <2>2, <2>3, <2>4 DEF Next, TailStep
<1>4. /\ owner' \in Nodes \cup {NoNode} /\ lease' \in Epochs
      /\ stage' \in {"none", "promoted", "failed", "held"}
  <2>1. /\ owner \in Nodes \cup {NoNode} /\ lease \in Epochs
        /\ stage \in {"none", "promoted", "failed", "held"}
    BY DEF TypeOK
  <2>2. ASSUME NEW n \in Nodes, Promote(n)
        PROVE  owner' \in Nodes /\ lease' \in Epochs
    BY <2>1, <2>2, ClusterAssumption DEF Promote, Epochs
  <2>3. ASSUME NEW n \in Nodes,
               \/ Promote(n) \/ TailStep(n) \/ TailFails(n)
               \/ AdvanceCheckpoint(n) \/ Serve(n) \/ Crash(n)
        PROVE  stage' = stage \/ stage' \in {"promoted", "failed"}
    BY <2>3 DEF Promote, TailStep, TailFence, TailApplies, TailRejects, TailFails,
                AdvanceCheckpoint, Serve, Crash, leaseVars
  <2>4. ASSUME \/ PoisonLands \/ FenceLands \/ FenceFails \/ Renew \/ UNCHANGED vars
               \/ \E r \in Requests : HandlerStep(r)
               \/ \E record \in late : LateRecordLands(record)
        PROVE  stage' = stage \/ stage' \in {"failed", "held"}
    BY <2>4 DEF PoisonLands, FenceLands, FenceFails, Renew, vars, HandlerStep, CheckWriter,
                Preflight, RecordLands, Confirm, PublishTimeout, LateRecordLands, leaseVars
  <2>5. stage' = stage \/ stage' \in {"promoted", "failed", "held"}
    BY <2>3, <2>4 DEF Next
  <2>. QED
    BY <2>1, <2>2, <2>5, LeaseCases
<1>5. known' \in [Nodes -> SUBSET Ops]
  <2>1. known \in [Nodes -> SUBSET Ops] /\ asked \in [Requests -> Ops]
    BY DEF TypeOK
  <2>2. ASSUME NEW n \in Nodes, TailApplies(n)
        PROVE  known' \in [Nodes -> SUBSET Ops]
    <3>1. tail[n].pos + 1 \in 1..Len(log) /\ Ahead(n).kind = "operations"
      BY <1>1, <2>2 DEF TailApplies, InForce, Behind, TypeOK, Cursors
    <3>2. Ahead(n).op \in Ops
      BY <3>1, RecordFields DEF TypeOK, Ahead
    <3>. QED
      BY <2>1, <2>2, <3>2 DEF TailApplies
  <2>3. ASSUME NEW r \in Requests, Confirm(r), StillWriter(r)
        PROVE  known' \in [Nodes -> SUBSET Ops]
    BY <2>1, <2>3 DEF Confirm
  <2>. QED
    BY <2>1, <2>2, <2>3, KnownCases
<1>6. faults' \in 0..MaxFaults
  <2>1. faults \in 0..MaxFaults /\ MaxFaults \in Nat
    BY ClusterAssumption DEF TypeOK
  <2>2. CASE Fault
    BY <2>1, <2>2 DEF Fault
  <2>3. ASSUME NEW n \in Nodes,
               \/ Promote(n) \/ TailStep(n) \/ TailFails(n)
               \/ AdvanceCheckpoint(n) \/ Serve(n) \/ Crash(n)
        PROVE  faults' = faults \/ Fault
    BY <2>3 DEF Promote, TailStep, TailFence, TailApplies, TailRejects, TailFails,
                AdvanceCheckpoint, Serve, Crash
  <2>4. ASSUME \/ PoisonLands \/ FenceLands \/ FenceFails \/ Renew \/ UNCHANGED vars
               \/ \E r \in Requests : HandlerStep(r)
               \/ \E record \in late : LateRecordLands(record)
        PROVE  faults' = faults \/ Fault
    BY <2>4 DEF PoisonLands, FenceLands, FenceFails, Renew, vars, HandlerStep, CheckWriter,
                Preflight, RecordLands, Confirm, PublishTimeout, LateRecordLands
  <2>. QED
    BY <2>1, <2>2, <2>3, <2>4 DEF Next
<1>. QED
  BY <1>1, <1>2, <1>3, <1>4, <1>5, <1>6, RequestTypes, CursorTypes DEF TypeOK

-----------------------------------------------------------------------------
(* The tails *)

\* How the cursors of node m move: not at all, back to the checkpoint, the
\* checkpoint up to the tail, or the tail over one record.
Stays(m)   == tail'[m] = tail[m] /\ ckpt'[m] = ckpt[m]
Rewinds(m) == tail'[m] = ckpt[m] /\ ckpt'[m] = ckpt[m]
Saves(m)   == tail'[m] = tail[m] /\ ckpt'[m] = tail[m]
Passes(m)  ==
    /\ TailStep(m) /\ ckpt'[m] = ckpt[m] /\ log' = log
    /\ tail[m].pos < Len(log)
    /\ tail'[m].pos = tail[m].pos + 1

LEMMA CursorCases ==
    ASSUME TypeOK, [Next]_vars, NEW m \in Nodes
    PROVE  Stays(m) \/ Rewinds(m) \/ Saves(m) \/ Passes(m)
<1>1. tail \in [Nodes -> Cursors] /\ ckpt \in [Nodes -> Cursors]
  BY DEF TypeOK
<1>2. ASSUME NEW n \in Nodes, TailStep(n)
      PROVE  Stays(m) \/ Passes(m)
  <2>1. Behind(n) /\ \E e : Pass(n, e)
    BY <1>2 DEF TailStep, TailFence, TailApplies, TailRejects, InForce, Rejects
  <2>2. UNCHANGED <<ckpt, log>>
    BY <1>2 DEF TailStep, TailFence, TailApplies, TailRejects
  <2>3. CASE n = m
    BY <1>1, <1>2, <2>1, <2>2, <2>3 DEF Passes, Pass, Behind
  <2>4. CASE n # m
    BY <1>1, <2>1, <2>2, <2>4 DEF Stays, Pass
  <2>. QED
    BY <2>3, <2>4
<1>3. ASSUME NEW n \in Nodes, TailFails(n) \/ Crash(n)
      PROVE  Stays(m) \/ Rewinds(m)
  <2>1. tail' = [tail EXCEPT ![n] = ckpt[n]] /\ ckpt' = ckpt
    BY <1>3 DEF TailFails, Rewind, Crash
  <2>. QED
    BY <1>1, <2>1 DEF Stays, Rewinds
<1>4. ASSUME NEW n \in Nodes, AdvanceCheckpoint(n)
      PROVE  Stays(m) \/ Saves(m)
  <2>1. ckpt' = [ckpt EXCEPT ![n] = tail[n]] /\ tail' = tail
    BY <1>4 DEF AdvanceCheckpoint, Saved
  <2>. QED
    BY <1>1, <2>1 DEF Stays, Saves
<1>5. ASSUME \/ \E n \in Nodes : Promote(n) \/ Serve(n)
             \/ PoisonLands \/ FenceLands \/ FenceFails \/ Renew
             \/ \E r \in Requests : HandlerStep(r)
             \/ \E record \in late : LateRecordLands(record)
             \/ UNCHANGED vars
      PROVE  Stays(m)
  <2>1. UNCHANGED <<tail, ckpt>>
    BY <1>5 DEF Promote, Serve, PoisonLands, FenceLands, FenceFails, Renew, HandlerStep,
                CheckWriter, Preflight, RecordLands, Confirm, PublishTimeout,
                LateRecordLands, vars, tailVars
  <2>. QED
    BY <2>1 DEF Stays
<1>. QED
  BY <1>2, <1>3, <1>4, <1>5 DEF Next

LEMMA CursorStep ==
    ASSUME TypeOK, CursorInv, EpochInv, AskedInv, [Next]_vars
    PROVE  CursorInv'
<1>1. Len(log) <= Len(log') /\ Len(log) \in Nat /\ Len(log') \in Nat
  BY LogKept
<1>2. ASSUME NEW m \in Nodes
      PROVE  ckpt'[m].pos <= tail'[m].pos /\ tail'[m].pos <= Len(log')
  <2>1. /\ tail[m].pos \in Nat /\ ckpt[m].pos \in Nat
        /\ ckpt[m].pos <= tail[m].pos /\ tail[m].pos <= Len(log)
    BY DEF TypeOK, CursorInv, Cursors
  <2>2. CASE Passes(m)
    BY <1>1, <2>1, <2>2 DEF Passes
  <2>3. CASE Stays(m) \/ Rewinds(m) \/ Saves(m)
    BY <1>1, <2>1, <2>3 DEF Stays, Rewinds, Saves
  <2>. QED
    BY <2>2, <2>3, CursorCases
<1>. QED
  BY <1>2 DEF CursorInv

\* Nothing a node has applied is forgotten.
LEMMA KnownGrows ==
    ASSUME TypeOK, [Next]_vars, NEW m \in Nodes
    PROVE  known[m] \subseteq known'[m]
<1>1. known \in [Nodes -> SUBSET Ops]
  BY DEF TypeOK
<1>2. ASSUME NEW n \in Nodes, NEW o, known' = [known EXCEPT ![n] = @ \cup {o}]
      PROVE  known[m] \subseteq known'[m]
  BY <1>1, <1>2
<1>3. ASSUME NEW r \in Requests, Confirm(r), StillWriter(r)
      PROVE  known[m] \subseteq known'[m]
  <2>1. known' = [known EXCEPT ![at[r]] = @ \cup {asked[r]}]
    BY <1>3 DEF Confirm
  <2>. QED
    BY <1>1, <2>1
<1>. QED
  BY <1>2, <1>3, KnownCases DEF TailApplies

\* Passing a record, the tail takes it for what the log says it is.
LEMMA PassedRecord ==
    ASSUME TypeOK, PassedIsApplied, NEW m \in Nodes, Passes(m)
    PROVE  /\ tail'[m].epoch = EpochIn(log, tail'[m].pos)
           /\ TakenIn(log, tail'[m].pos) => log[tail'[m].pos].op \in known'[m]
           /\ log[tail'[m].pos].kind # "fence" /\ ~TakenIn(log, tail'[m].pos) =>
                  tail'[m].pos \in dlq'
<1>. DEFINE i == tail[m].pos
<1>1. /\ tail \in [Nodes -> Cursors] /\ i \in Nat /\ i < Len(log) /\ log \in Seq(Records)
      /\ tail[m].epoch \in Nat /\ known \in [Nodes -> SUBSET Ops]
  BY DEF TypeOK, Cursors, Passes, Epochs
<1>2. tail'[m].pos = i + 1 /\ Behind(m) /\ Ahead(m) = log[i + 1] /\ Source(m) = i + 1
  BY DEF Passes, Behind, Ahead, Source
<1>3. tail[m].epoch = EpochIn(log, i)
  BY DEF PassedIsApplied, EpochAfter
<1>4. /\ i + 1 \in 1..Len(log)
      /\ log[i + 1].kind \in {"fence", "operations", "poison"}
      /\ log[i + 1].kind = "fence" => log[i + 1].epoch \in Nat
  <2>1. i + 1 \in 1..Len(log)
    BY <1>1
  <2>. QED
    BY <1>1, <2>1, RecordFields DEF Epochs
<1>5. EpochIn(log, i + 1) =
          IF log[i + 1].kind = "fence" /\ log[i + 1].epoch > EpochIn(log, i)
          THEN log[i + 1].epoch ELSE EpochIn(log, i)
  BY <1>1, EpochStep, RecordsAreLog
<1>6. InForce(m) <=> TakenIn(log, i + 1)
  <2>1. (i + 1) - 1 = i
    BY <1>1
  <2>. QED
    BY <1>2, <1>3, <2>1 DEF InForce, TakenIn
<1>7. ASSUME NEW e, Pass(m, e)
      PROVE  tail'[m].epoch = e
  BY <1>1, <1>7 DEF Pass
<1>. HIDE DEF i
<1>8. CASE TailFence(m)
  <2>1. log[i + 1].kind = "fence" /\ ~TakenIn(log, i + 1) /\ known' = known /\ dlq' = dlq
    BY <1>2, <1>8 DEF TailFence, TakenIn
  <2>2. tail'[m].epoch = IF log[i + 1].epoch > EpochIn(log, i)
                         THEN log[i + 1].epoch ELSE EpochIn(log, i)
    BY <1>2, <1>3, <1>7, <1>8 DEF TailFence
  <2>. QED
    BY <1>2, <1>5, <2>1, <2>2
<1>9. CASE TailApplies(m)
  <2>1. /\ TakenIn(log, i + 1) /\ log[i + 1].kind = "operations" /\ dlq' = dlq
        /\ known' = [known EXCEPT ![m] = @ \cup {log[i + 1].op}]
        /\ tail'[m].epoch = tail[m].epoch
    BY <1>2, <1>6, <1>7, <1>9 DEF TailApplies, TakenIn
  <2>2. log[i + 1].op \in known'[m]
    BY <1>1, <2>1
  <2>. QED
    BY <1>2, <1>3, <1>5, <2>1, <2>2
<1>10. CASE TailRejects(m)
  <2>1. /\ ~TakenIn(log, i + 1) /\ log[i + 1].kind # "fence" /\ known' = known
        /\ dlq' = dlq \cup {i + 1}
        /\ tail'[m].epoch = tail[m].epoch
    BY <1>2, <1>6, <1>7, <1>10 DEF TailRejects, Rejects
  <2>. QED
    BY <1>2, <1>3, <1>5, <2>1
<1>. QED
  BY <1>8, <1>9, <1>10 DEF Passes, TailStep

LEMMA PassedStep ==
    ASSUME TypeOK, CursorInv, EpochInv, AskedInv, PassedIsApplied, [Next]_vars
    PROVE  PassedIsApplied'
<1>1. /\ \A i \in 0..Len(log) : EpochIn(log', i) = EpochIn(log, i) /\ TakenTo(log', i) = TakenTo(log, i)
      /\ log \in Seq(Records) /\ Len(log) \in Nat
  BY LogKept DEF TypeOK
<1>2. ASSUME NEW m \in Nodes
      PROVE  /\ TakenTo(log', tail'[m].pos) \subseteq known'[m]
             /\ tail'[m].epoch = EpochIn(log', tail'[m].pos)
             /\ ckpt'[m].epoch = EpochIn(log', ckpt'[m].pos)
  <2>1. /\ tail[m].pos \in 0..Len(log) /\ ckpt[m].pos \in 0..Len(log)
        /\ ckpt[m].pos <= tail[m].pos
    BY <1>1 DEF TypeOK, CursorInv, Cursors
  <2>2. /\ TakenTo(log, tail[m].pos) \subseteq known[m]
        /\ tail[m].epoch = EpochIn(log, tail[m].pos)
        /\ ckpt[m].epoch = EpochIn(log, ckpt[m].pos)
    BY DEF PassedIsApplied, AcceptedTo, EpochAfter
  <2>3. TakenTo(log, ckpt[m].pos) \subseteq known[m]
    BY <1>1, <2>1, <2>2, Grows, RecordsAreLog
  <2>4. known[m] \subseteq known'[m]
    BY KnownGrows
  <2>5. CASE Stays(m) \/ Rewinds(m) \/ Saves(m)
    BY <1>1, <2>1, <2>2, <2>3, <2>4, <2>5 DEF Stays, Rewinds, Saves
  <2>6. CASE Passes(m)
    <3>1. /\ tail[m].pos \in Nat /\ tail[m].pos < Len(log) /\ log' = log
          /\ tail'[m].pos = tail[m].pos + 1 /\ ckpt'[m] = ckpt[m]
      BY <2>1, <2>6 DEF Passes
    <3>2. TakenTo(log, tail'[m].pos) = TakenTo(log, tail[m].pos) \cup
             (IF TakenIn(log, tail'[m].pos) THEN {log[tail'[m].pos].op} ELSE {})
      <4>1. IsLog(log)
        BY <1>1, RecordsAreLog
      <4>2. ASSUME NEW i \in Nat, i < Len(log)
            PROVE  TakenTo(log, i + 1) =
                       TakenTo(log, i) \cup (IF TakenIn(log, i + 1) THEN {log[i + 1].op} ELSE {})
        BY <4>1, <4>2, TakenStep
      <4>. QED
        BY <3>1, <4>2
    <3>3. /\ tail'[m].epoch = EpochIn(log, tail'[m].pos)
          /\ TakenIn(log, tail'[m].pos) => log[tail'[m].pos].op \in known'[m]
      BY <2>6, PassedRecord
    <3>. QED
      BY <2>2, <2>4, <3>1, <3>2, <3>3
  <2>. QED
    BY <2>5, <2>6, CursorCases
<1>. QED
  BY <1>2 DEF PassedIsApplied, AcceptedTo, EpochAfter

LEMMA DeadLettersStep ==
    ASSUME TypeOK, CursorInv, EpochInv, AskedInv, PassedIsApplied, DeadLettersAreRejects,
           [Next]_vars
    PROVE  DeadLettersAreRejects'
<1>. DEFINE Out(L) == {i \in 1..Len(L) : L[i].kind # "fence" /\ ~TakenIn(L, i)}
<1>1. /\ Len(log) \in Nat /\ Len(log') \in Nat /\ Len(log) <= Len(log')
      /\ \A k \in 1..Len(log) : log'[k] = log[k] /\ (TakenIn(log', k) <=> TakenIn(log, k))
  BY LogKept
<1>2. Rejected = Out(log) /\ Rejected' = Out(log')
  BY DEF Rejected
<1>3. Out(log) \subseteq Out(log') /\ \A i \in 1..Len(log) : i \in Out(log') => i \in Out(log)
  BY <1>1
<1>4. \/ dlq' = dlq
      \/ \E n \in Nodes : TailRejects(n)
  <2>1. ASSUME NEW n \in Nodes,
               \/ Promote(n) \/ TailFence(n) \/ TailApplies(n) \/ TailFails(n)
               \/ AdvanceCheckpoint(n) \/ Serve(n) \/ Crash(n)
        PROVE  dlq' = dlq
    BY <2>1 DEF Promote, TailFence, TailApplies, TailFails, AdvanceCheckpoint, Serve, Crash
  <2>2. ASSUME \/ PoisonLands \/ FenceLands \/ FenceFails \/ Renew \/ UNCHANGED vars
               \/ \E r \in Requests : HandlerStep(r)
               \/ \E record \in late : LateRecordLands(record)
        PROVE  dlq' = dlq
    BY <2>2 DEF PoisonLands, FenceLands, FenceFails, Renew, vars, HandlerStep, CheckWriter,
                Preflight, RecordLands, Confirm, PublishTimeout, LateRecordLands
  <2>. QED
    BY <2>1, <2>2 DEF Next, TailStep
<1>5. dlq \subseteq dlq' /\ dlq' \subseteq Out(log')
  <2>1. dlq \subseteq Out(log)
    BY <1>2 DEF DeadLettersAreRejects
  <2>2. ASSUME NEW n \in Nodes, TailRejects(n)
        PROVE  dlq \subseteq dlq' /\ dlq' \subseteq Out(log')
    <3>1. /\ Source(n) \in 1..Len(log) /\ dlq' = dlq \cup {Source(n)} /\ log' = log
          /\ Source(n) = tail[n].pos + 1
      BY <1>1, <2>2 DEF TailRejects, Rejects, Behind, Source, TypeOK, Cursors
    <3>2. log[Source(n)].kind # "fence" /\ ~TakenIn(log, Source(n))
      <4>1. Ahead(n) = log[Source(n)] /\ Rejects(n) /\ Source(n) - 1 = tail[n].pos
        BY <2>2, <3>1 DEF Ahead, TailRejects, TypeOK, Cursors
      <4>2. tail[n].epoch = EpochIn(log, Source(n) - 1)
        BY <4>1 DEF PassedIsApplied, EpochAfter
      <4>. QED
        BY <4>1, <4>2 DEF Rejects, InForce, TakenIn
    <3>. QED
      BY <2>1, <3>1, <3>2
  <2>. QED
    BY <1>3, <1>4, <2>1, <2>2
<1>6. ASSUME NEW m \in Nodes
      PROVE  Out(log') \cap (1..tail'[m].pos) \subseteq dlq'
  <2>1. /\ tail[m].pos \in Nat /\ ckpt[m].pos \in Nat
        /\ ckpt[m].pos <= tail[m].pos /\ tail[m].pos <= Len(log)
    BY DEF TypeOK, CursorInv, Cursors
  <2>2. Out(log) \cap (1..tail[m].pos) \subseteq dlq
    BY <1>2 DEF DeadLettersAreRejects
  <2>. HIDE DEF Out
  <2>3. CASE Stays(m) \/ Rewinds(m) \/ Saves(m)
    <3>1. tail'[m].pos \in Nat /\ tail'[m].pos <= tail[m].pos
      BY <2>1, <2>3 DEF Stays, Rewinds, Saves
    <3>2. \A i \in 1..tail'[m].pos : i \in 1..tail[m].pos /\ i \in 1..Len(log)
      BY <1>1, <2>1, <3>1
    <3>. QED
      BY <1>3, <1>5, <2>2, <3>2
  <2>4. CASE Passes(m)
    <3>1. log' = log /\ tail'[m].pos = tail[m].pos + 1
      BY <2>4 DEF Passes
    <3>2. tail'[m].pos \in Out(log) => tail'[m].pos \in dlq'
      BY <2>4, PassedRecord DEF Out
    <3>3. \A i \in 1..tail'[m].pos : i \in 1..tail[m].pos \/ i = tail'[m].pos
      BY <2>1, <3>1
    <3>. QED
      BY <1>5, <2>2, <3>1, <3>2, <3>3
  <2>. QED
    BY <2>3, <2>4, CursorCases
<1>. QED
  BY <1>2, <1>5, <1>6 DEF DeadLettersAreRejects

-----------------------------------------------------------------------------
(* Epochs and requests *)

\* What a step does to the records under way: one lands, or handlers and a fence's
\* sender give up.
LEMMA LateCases ==
    ASSUME [Next]_vars
    PROVE  late' \subseteq late \cup {Fence(lease)} \cup UNION {Abandoned(r) : r \in Requests}
<1>1. ASSUME NEW n \in Nodes,
             \/ Promote(n) \/ TailStep(n) \/ TailFails(n)
             \/ AdvanceCheckpoint(n) \/ Serve(n)
      PROVE  late' = late
  BY <1>1 DEF Promote, TailStep, TailFence, TailApplies, TailRejects, TailFails,
              AdvanceCheckpoint, Serve
<1>2. ASSUME NEW r \in Requests,
             \/ \E n \in Nodes : CheckWriter(r, n)
             \/ Preflight(r) \/ RecordLands(r) \/ Confirm(r)
      PROVE  late' = late
  BY <1>2 DEF CheckWriter, Preflight, RecordLands, Confirm
<1>3. ASSUME \/ PoisonLands \/ FenceLands \/ FenceFails \/ Renew \/ UNCHANGED vars
             \/ \E record \in late : LateRecordLands(record)
      PROVE  late' \subseteq late \cup {Fence(lease)}
  BY <1>3 DEF PoisonLands, FenceLands, FenceFails, Renew, vars, LateRecordLands
<1>4. ASSUME NEW r \in Requests, PublishTimeout(r)
      PROVE  late' \subseteq late \cup UNION {Abandoned(q) : q \in Requests}
  <2>1. late' = late \cup Abandoned(r)
    BY <1>4 DEF PublishTimeout
  <2>. QED
    BY <2>1
<1>5. ASSUME NEW n \in Nodes, Crash(n)
      PROVE  late' \subseteq late \cup {Fence(lease)} \cup UNION {Abandoned(q) : q \in Requests}
  <2>1. late' = late \cup FenceOf(n) \cup
                UNION {Abandoned(r) : r \in {q \in Requests : at[q] = n /\ pc[q] # "done"}}
    BY <1>5 DEF Crash
  <2>. QED
    BY <2>1 DEF FenceOf
<1>. QED
  BY <1>1, <1>2, <1>3, <1>4, <1>5 DEF Next, HandlerStep

\* A record given up is the request's operation with the epoch that was read.
LEMMA AbandonedRecord ==
    ASSUME TypeOK, NEW r \in Requests, NEW record \in Abandoned(r)
    PROVE  /\ record.kind = "operations" /\ record.epoch = ep[r] /\ record.op = asked[r]
           /\ record \in Records
BY RecordKinds, OperationsAreRecords DEF Abandoned

LEMMA LeaseGrows ==
    ASSUME TypeOK, [Next]_vars
    PROVE  lease \in Nat /\ lease' \in Nat /\ lease <= lease'
<1>1. lease \in Nat
  BY DEF TypeOK, Epochs
<1>2. ASSUME NEW n \in Nodes, Promote(n)
      PROVE  lease' = lease + 1
  BY <1>2 DEF Promote
<1>. QED
  BY <1>1, <1>2, LeaseCases

LEMMA EpochInvStep ==
    ASSUME TypeOK, EpochInv, AskedInv, [Next]_vars
    PROVE  EpochInv'
<1>1. /\ log \in Seq(Records) /\ log' \in Seq(Records)
      /\ Len(log) \in Nat /\ Len(log') \in Nat /\ Len(log) <= Len(log')
      /\ \A k \in 1..Len(log) : log'[k] = log[k]
      /\ \A i \in 0..Len(log) : EpochIn(log', i) = EpochIn(log, i)
  BY LogKept DEF TypeOK
<1>2. lease \in Nat /\ lease' \in Nat /\ lease <= lease'
  BY LeaseGrows
<1>3. /\ EpochIn(log, Len(log)) \in Nat /\ EpochIn(log, Len(log)) <= lease
      /\ \A i \in 1..Len(log) : log[i].kind = "operations" =>
            log[i].epoch \in Nat /\ log[i].epoch <= lease
  <2>1. EpochIn(log, Len(log)) \in Nat
    <3>1. Len(log) \in 0..Len(log)
      BY <1>1
    <3>. QED
      BY <1>1, <3>1, EpochFacts, RecordsAreLog
  <2>. QED
    BY <1>1, <2>1, RecordFields DEF EpochInv, EpochAfter, Epochs
<1>4. ASSUME NEW record \in Records, Lands(record)
      PROVE  /\ EpochIn(log', Len(log')) <= lease'
             /\ \A i \in 1..Len(log') : log'[i].kind = "operations" => log'[i].epoch <= lease'
  <2>1. /\ Len(log') = Len(log) + 1 /\ log'[Len(log) + 1] = record
    BY <1>1, <1>4, Appended DEF Lands
  <2>2. EpochIn(log', Len(log)) = EpochIn(log, Len(log))
    BY <1>1
  <2>3. EpochIn(log', Len(log) + 1) =
            IF record.kind = "fence" /\ record.epoch > EpochIn(log, Len(log))
            THEN record.epoch ELSE EpochIn(log, Len(log))
    <3>1. Len(log) < Len(log')
      BY <1>1, <2>1
    <3>. QED
      BY <1>1, <2>1, <2>2, <3>1, EpochStep, RecordsAreLog
  <2>4. record.kind \in {"fence", "operations"} => record.epoch \in Nat /\ record.epoch <= lease
    <3>1. record.kind = "fence" \/ record.kind = "operations" => record.epoch \in Nat
      BY <1>1, <2>1, RecordFields DEF Epochs
    <3>. QED
      BY <1>4, <3>1 DEF Lands
  <2>5. EpochIn(log', Len(log')) <= lease'
    BY <1>2, <1>3, <2>1, <2>3, <2>4
  <2>6. ASSUME NEW i \in 1..Len(log'), log'[i].kind = "operations"
        PROVE  log'[i].epoch <= lease'
    <3>1. CASE i \in 1..Len(log)
      BY <1>1, <1>2, <1>3, <2>6, <3>1
    <3>2. CASE i = Len(log) + 1
      BY <1>2, <2>1, <2>4, <2>6, <3>2
    <3>. QED
      BY <1>1, <2>1, <2>6, <3>1, <3>2
  <2>. QED
    BY <2>5, <2>6
<1>5. ASSUME log' = log
      PROVE  /\ EpochIn(log', Len(log')) <= lease'
             /\ \A i \in 1..Len(log') : log'[i].kind = "operations" => log'[i].epoch <= lease'
  BY <1>2, <1>3, <1>5
<1>6. \A record \in late' :
          record.kind \in {"fence", "operations"} /\ record.epoch <= lease'
  <2>1. \A record \in late :
            record.kind \in {"fence", "operations"} /\ record.epoch <= lease
    BY DEF EpochInv
  <2>2. \A r \in Requests : ep[r] \in Nat /\ ep[r] <= lease
    BY DEF EpochInv, TypeOK, Epochs
  <2>3. ASSUME NEW record \in late'
        PROVE  record.kind \in {"fence", "operations"} /\ record.epoch <= lease'
    <3>1. CASE record \in late
      <4>1. record.epoch \in Nat
        <5>1. record \in Records
          BY <3>1 DEF TypeOK
        <5>. QED
          BY <2>1, <3>1, <5>1, RecordKinds DEF Records, Epochs
      <4>. QED
        BY <1>2, <2>1, <3>1, <4>1
    <3>2. ASSUME NEW r \in Requests, record \in Abandoned(r)
          PROVE  record.kind = "operations" /\ record.epoch <= lease'
      BY <1>2, <2>2, <3>2, AbandonedRecord
    <3>3. CASE record = Fence(lease)
      BY <1>2, <3>3, RecordKinds
    <3>. QED
      BY <2>3, <3>1, <3>2, <3>3, LateCases
  <2>. QED
    BY <2>3
<1>7. \A r \in Requests : ep'[r] <= lease'
  <2>1. \A r \in Requests : ep[r] \in Nat /\ ep[r] <= lease
    BY DEF EpochInv, TypeOK, Epochs
  <2>2. ASSUME NEW r \in Requests
        PROVE  ep'[r] = ep[r] \/ ep'[r] = 0 \/ ep'[r] = lease
    <3>1. CASE UNCHANGED requestVars
      BY <3>1 DEF requestVars
    <3>2. ASSUME NEW q \in Requests, NEW n \in Nodes, CheckWriter(q, n)
          PROVE  ep'[r] = ep[r] \/ ep'[r] = lease
      BY <3>2 DEF CheckWriter, TypeOK
    <3>3. CASE Proceeds
      BY <3>3 DEF Proceeds, Reserves, RecordLands, Goto
    <3>4. CASE Ends
      BY <3>4 DEF Ends, End
    <3>. QED
      BY <3>1, <3>2, <3>3, <3>4, RequestCases
  <2>. QED
    BY <1>2, <2>1, <2>2
<1>. QED
  BY <1>4, <1>5, <1>6, <1>7, LogCases DEF EpochInv, EpochAfter

LEMMA AskedStep ==
    ASSUME TypeOK, EpochInv, AskedInv, [Next]_vars
    PROVE  AskedInv'
<1>1. asked' = asked
  BY RequestTypes
<1>2. /\ Len(log) \in Nat /\ log \in Seq(Records)
      /\ \A i \in 1..Len(log) : log[i].kind = "operations" =>
            \E r \in Requests : log[i].op = asked[r]
      /\ \A record \in late : record.kind = "operations" =>
            \E r \in Requests : record.op = asked[r]
  BY DEF TypeOK, AskedInv
<1>3. ASSUME NEW i \in 1..Len(log'), log'[i].kind = "operations"
      PROVE  \E r \in Requests : log'[i].op = asked[r]
  <2>1. CASE log' = log
    BY <1>2, <1>3, <2>1
  <2>2. ASSUME NEW record \in Records, Lands(record)
        PROVE  \E r \in Requests : log'[i].op = asked[r]
    <3>1. /\ Len(log') = Len(log) + 1 /\ log'[Len(log) + 1] = record
          /\ \A k \in 1..Len(log) : log'[k] = log[k]
      BY <1>2, <2>2, Appended DEF Lands
    <3>2. record.kind = "operations" => \E r \in Requests : record.op = asked[r]
      BY <2>2, RecordKinds DEF Lands
    <3>. QED
      BY <1>2, <1>3, <3>1, <3>2
  <2>. QED
    BY <2>1, <2>2, LogCases
<1>4. ASSUME NEW record \in late', record.kind = "operations"
      PROVE  \E r \in Requests : record.op = asked[r]
  <2>1. record # Fence(lease)
    BY <1>4, RecordKinds
  <2>. QED
    BY <1>2, <1>4, <2>1, LateCases, AbandonedRecord
<1>. QED
  BY <1>1, <1>3, <1>4 DEF AskedInv

LEMMA HandlerInvStep ==
    ASSUME TypeOK, EpochInv, AskedInv, HandlerInv, [Next]_vars
    PROVE  HandlerInv'
<1>1. /\ Len(log) \in Nat /\ Len(log') \in Nat /\ Len(log) <= Len(log')
      /\ \A k \in 1..Len(log) : log'[k] = log[k]
      /\ asked' = asked
  BY LogKept, RequestTypes
<1>2. ASSUME NEW r \in Requests, pc[r] = "landed"
      PROVE  \E i \in 1..Len(log') : log'[i] = Operations(ep[r], asked[r])
  <2>1. PICK i \in 1..Len(log) : log[i] = Operations(ep[r], asked[r])
    BY <1>2 DEF HandlerInv
  <2>. QED
    BY <1>1, <2>1
<1>3. ASSUME NEW r \in Requests
      PROVE  /\ answer[r] = "none" <=> pc[r] # "done"
             /\ pc[r] \in {"checked", "sent", "landed"} => at[r] \in Nodes
  BY DEF HandlerInv
<1>4. CASE UNCHANGED requestVars
  BY <1>2, <1>3, <1>4 DEF requestVars, HandlerInv
<1>5. ASSUME NEW q \in Requests, NEW n \in Nodes, CheckWriter(q, n)
      PROVE  HandlerInv'
  <2>1. /\ pc' = [pc EXCEPT ![q] = "checked"] /\ at' = [at EXCEPT ![q] = n]
        /\ ep' = [ep EXCEPT ![q] = lease] /\ answer' = answer /\ pc[q] = "new"
    BY <1>5 DEF CheckWriter
  <2>2. ASSUME NEW r \in Requests
        PROVE  /\ answer'[r] = "none" <=> pc'[r] # "done"
               /\ pc'[r] \in {"checked", "sent", "landed"} => at'[r] \in Nodes
               /\ pc'[r] = "landed" => pc[r] = "landed" /\ ep'[r] = ep[r]
    BY <1>3, <2>1 DEF TypeOK
  <2>. QED
    BY <1>1, <1>2, <2>2 DEF HandlerInv
<1>6. ASSUME NEW q \in Requests, Reserves(q)
      PROVE  HandlerInv'
  <2>1. /\ pc' = [pc EXCEPT ![q] = "sent"] /\ UNCHANGED <<at, ep, answer>> /\ pc[q] = "checked"
    BY <1>6 DEF Reserves, Goto
  <2>2. ASSUME NEW r \in Requests
        PROVE  /\ answer'[r] = "none" <=> pc'[r] # "done"
               /\ pc'[r] \in {"checked", "sent", "landed"} => at'[r] \in Nodes
               /\ pc'[r] = "landed" => pc[r] = "landed" /\ ep'[r] = ep[r]
    BY <1>3, <2>1 DEF TypeOK
  <2>. QED
    BY <1>1, <1>2, <2>2 DEF HandlerInv
<1>7. ASSUME NEW q \in Requests, RecordLands(q)
      PROVE  HandlerInv'
  <2>1. /\ pc' = [pc EXCEPT ![q] = "landed"] /\ UNCHANGED <<at, ep, answer>> /\ pc[q] = "sent"
    BY <1>7 DEF RecordLands, Goto
  <2>2. ASSUME NEW r \in Requests
        PROVE  /\ answer'[r] = "none" <=> pc'[r] # "done"
               /\ pc'[r] \in {"checked", "sent", "landed"} => at'[r] \in Nodes
               /\ pc'[r] = "landed" => pc[r] = "landed" \/ r = q
    BY <1>3, <2>1 DEF TypeOK
  <2>3. \E i \in 1..Len(log') : log'[i] = Operations(ep[q], asked[q])
    <3>. DEFINE record == Operations(ep[q], asked[q])
    <3>1. record \in Records /\ log \in Seq(Records)
      BY OperationsAreRecords DEF TypeOK
    <3>2. CASE log' = Append(log, record)
      BY <1>1, <3>1, <3>2, Appended
    <3>3. CASE log' = log /\ \E i \in 1..Len(log) : log[i] = record
      BY <3>3
    <3>. QED
      BY <1>7, <3>2, <3>3 DEF RecordLands, Land
  <2>. QED
    BY <1>1, <1>2, <2>1, <2>2, <2>3 DEF HandlerInv
<1>8. CASE Ends
  <2>1. PICK rs \in SUBSET Requests, a \in {"ok", "conflict", "unavailable"} :
            End(rs, a)
    BY <1>8 DEF Ends
  <2>2. ASSUME NEW r \in Requests
        PROVE  /\ answer'[r] = "none" <=> pc'[r] # "done"
               /\ pc'[r] \in {"checked", "sent", "landed"} => at'[r] \in Nodes
               /\ pc'[r] = "landed" => pc[r] = "landed" /\ ep'[r] = ep[r]
    BY <1>3, <2>1 DEF End
  <2>. QED
    BY <1>1, <1>2, <2>2 DEF HandlerInv
<1>. QED
  BY <1>4, <1>5, <1>6, <1>7, <1>8, RequestCases DEF Proceeds

-----------------------------------------------------------------------------
(* What a node knows *)

LEMMA PendingCases ==
    ASSUME TypeOK, HandlerInv, [Next]_vars, NEW m \in Nodes
    PROVE  \/ Pending(m)' \subseteq Pending(m)
           \/ \E r \in Requests : /\ Reserves(r) /\ at[r] = m
                                  /\ Pending(m)' \subseteq Pending(m) \cup {asked[r]}
<1>. DEFINE Held(r)   == at[r] = m /\ pc[r] \in {"sent", "landed"}
            HeldNow(r) == at'[r] = m /\ pc'[r] \in {"sent", "landed"}
<1>1. /\ Pending(m) = {asked[r] : r \in {q \in Requests : Held(q)}}
      /\ Pending(m)' = {asked'[r] : r \in {q \in Requests : HeldNow(q)}}
      /\ asked' = asked
  BY RequestTypes DEF Pending
<1>2. ASSUME \A r \in Requests : HeldNow(r) => Held(r)
      PROVE  Pending(m)' \subseteq Pending(m)
  BY <1>1, <1>2
<1>3. CASE UNCHANGED requestVars
  BY <1>2, <1>3 DEF requestVars
<1>4. ASSUME NEW q \in Requests, NEW n \in Nodes, CheckWriter(q, n)
      PROVE  \A r \in Requests : HeldNow(r) => Held(r)
  BY <1>4 DEF CheckWriter, TypeOK
<1>5. ASSUME NEW q \in Requests, RecordLands(q)
      PROVE  \A r \in Requests : HeldNow(r) => Held(r)
  BY <1>5 DEF RecordLands, Goto, TypeOK
<1>6. CASE Ends
  <2>1. PICK rs \in SUBSET Requests, a \in {"ok", "conflict", "unavailable"} :
            End(rs, a)
    BY <1>6 DEF Ends
  <2>2. \A r \in Requests : HeldNow(r) => Held(r)
    BY <2>1 DEF End
  <2>. QED
    BY <1>2, <2>2
<1>7. ASSUME NEW q \in Requests, Reserves(q)
      PROVE  \/ Pending(m)' \subseteq Pending(m)
             \/ /\ at[q] = m
                /\ Pending(m)' \subseteq Pending(m) \cup {asked[q]}
  <2>1. \A r \in Requests : HeldNow(r) => Held(r) \/ (r = q /\ at[q] = m)
    BY <1>7 DEF Reserves, Goto, TypeOK
  <2>. HIDE DEF Held, HeldNow
  <2>. QED
    BY <1>1, <2>1
<1>. QED
  BY <1>2, <1>3, <1>4, <1>5, <1>6, <1>7, RequestCases DEF Proceeds

\* A confirmed operation was accepted or came early: its record has the last epoch
\* there is.
LEMMA ConfirmedIsAccepted ==
    ASSUME TypeOK, EpochInv, HandlerInv, NEW r \in Requests,
           pc[r] = "landed", StillWriter(r)
    PROVE  asked[r] \in Accepted \cup Early
<1>1. PICK i \in 1..Len(log) : log[i] = Operations(ep[r], asked[r])
  BY DEF HandlerInv
<1>2. /\ log[i].kind = "operations" /\ log[i].epoch = lease /\ log[i].op = asked[r]
  BY <1>1, RecordKinds DEF StillWriter
<1>3. /\ log \in Seq(Records) /\ Len(log) \in Nat /\ i - 1 \in Nat
      /\ i - 1 <= Len(log) /\ i - 1 \in 0..Len(log)
  BY DEF TypeOK
<1>4. /\ EpochIn(log, i - 1) <= EpochIn(log, Len(log))
      /\ EpochIn(log, i - 1) \in Nat /\ EpochIn(log, Len(log)) \in Nat /\ lease \in Nat
  <2>1. Len(log) \in 0..Len(log)
    BY <1>3
  <2>. QED
    BY <1>3, <2>1, Grows, EpochFacts, RecordsAreLog DEF TypeOK, Epochs
<1>5. EpochIn(log, i - 1) <= lease
  BY <1>4 DEF EpochInv, EpochAfter
<1>6. TakenIn(log, i) \/ EarlyIn(log, i)
  BY <1>2, <1>4, <1>5 DEF TakenIn, EarlyIn
<1>. QED
  BY <1>2, <1>6 DEF Accepted, AcceptedTo, TakenTo, Early, EarlyTo

\* What a tail applies is accepted.
LEMMA TailAppliesAccepted ==
    ASSUME TypeOK, PassedIsApplied, NEW n \in Nodes, TailApplies(n)
    PROVE  /\ Ahead(n).op \in Accepted
           /\ known' = [known EXCEPT ![n] = @ \cup {Ahead(n).op}]
<1>1. /\ tail[n].pos \in Nat /\ tail[n].pos < Len(log) /\ Ahead(n) = log[tail[n].pos + 1]
      /\ Ahead(n).kind = "operations" /\ Ahead(n).epoch = tail[n].epoch
  BY DEF TailApplies, InForce, Behind, Ahead, TypeOK, Cursors
<1>2. tail[n].epoch = EpochIn(log, tail[n].pos) /\ (tail[n].pos + 1) - 1 = tail[n].pos
  BY <1>1 DEF PassedIsApplied, EpochAfter
<1>3. TakenIn(log, tail[n].pos + 1) /\ tail[n].pos + 1 \in 1..Len(log)
  BY <1>1, <1>2 DEF TakenIn, TypeOK
<1>. QED
  BY <1>1, <1>3 DEF TailApplies, Accepted, AcceptedTo, TakenTo

\* The two steps by which a node applies an operation.
LEMMA AppliedBy ==
    ASSUME TypeOK, EpochInv, PassedIsApplied, HandlerInv, [Next]_vars, known' # known
    PROVE  \E n \in Nodes, o \in Accepted \cup Early : known' = [known EXCEPT ![n] = @ \cup {o}]
<1>1. ASSUME NEW r \in Requests, Confirm(r), StillWriter(r)
      PROVE  /\ asked[r] \in Accepted \cup Early /\ at[r] \in Nodes
             /\ known' = [known EXCEPT ![at[r]] = @ \cup {asked[r]}]
  <2>1. pc[r] = "landed" /\ known' = [known EXCEPT ![at[r]] = @ \cup {asked[r]}]
    BY <1>1 DEF Confirm
  <2>2. at[r] \in Nodes
    BY <2>1 DEF HandlerInv
  <2>. QED
    BY <1>1, <2>1, <2>2, ConfirmedIsAccepted
<1>. QED
  BY <1>1, TailAppliesAccepted, KnownCases

LEMMA KnownInvStep ==
    ASSUME TypeOK, CursorInv, EpochInv, AskedInv, PassedIsApplied, HandlerInv, KnownInv,
           [Next]_vars
    PROVE  KnownInv'
<1>1. /\ known \in [Nodes -> SUBSET Ops] /\ asked' = asked
  BY RequestTypes DEF TypeOK
<1>2. Accepted \cup Early \subseteq Accepted' \cup Early'
  BY LogKept DEF Accepted, AcceptedTo, Early
<1>3. ASSUME NEW m \in Nodes
      PROVE  known'[m] \subseteq Accepted' \cup Early'
  <2>1. known[m] \subseteq Accepted \cup Early
    BY DEF KnownInv
  <2>2. CASE known' = known
    BY <1>1, <1>2, <2>1, <2>2
  <2>3. ASSUME NEW n \in Nodes, NEW o \in Accepted \cup Early,
               known' = [known EXCEPT ![n] = @ \cup {o}]
        PROVE  known'[m] \subseteq Accepted' \cup Early'
    <3>1. known'[m] \subseteq known[m] \cup {o}
      BY <1>1, <2>3
    <3>. QED
      BY <1>1, <1>2, <2>1, <3>1
  <2>. QED
    BY <2>2, <2>3, AppliedBy
<1>4. ASSUME NEW m \in Nodes
      PROVE  \A o, p \in known'[m] \cup Pending(m)' : ~Clash(o, p)
  <2>. DEFINE Before == known[m] \cup Pending(m)
              After  == known'[m] \cup Pending(m)'
  <2>1. \A o, p \in Before : ~Clash(o, p)
    BY DEF KnownInv
  <2>2. ASSUME NEW x, After \subseteq Before \cup {x}, \A p \in Before : ~Clash(x, p)
        PROVE  \A o, p \in After : ~Clash(o, p)
    <3>. HIDE DEF Before, After
    <3>1. ~Clash(x, x) /\ \A p \in Before : ~Clash(p, x)
      BY <2>2 DEF Clash
    <3>. QED
      BY <2>1, <2>2, <3>1
  <2>3. CASE known' = known
    <3>1. CASE Pending(m)' \subseteq Pending(m)
      BY <2>1, <2>3, <3>1
    <3>2. ASSUME NEW r \in Requests, Reserves(r), at[r] = m,
                 Pending(m)' \subseteq Pending(m) \cup {asked[r]}
          PROVE  \A o, p \in After : ~Clash(o, p)
      <4>1. \A p \in Before : ~Clash(asked[r], p)
        BY <3>2 DEF Reserves, Refuses
      <4>2. After \subseteq Before \cup {asked[r]}
        BY <2>3, <3>2
      <4>. QED
        BY <2>2, <4>1, <4>2
    <3>. QED
      BY <3>1, <3>2, PendingCases
  <2>4. ASSUME NEW n \in Nodes, TailApplies(n)
        PROVE  \A o, p \in After : ~Clash(o, p)
    <3>1. /\ known' = [known EXCEPT ![n] = @ \cup {Ahead(n).op}]
          /\ Pending(m)' = Pending(m)
          /\ \A p \in known[n] \cup Pending(n) : ~Clash(Ahead(n).op, p)
      BY <2>4 DEF TailApplies, Refuses, Pending, requestVars
    <3>2. CASE n = m
      <4>1. After \subseteq Before \cup {Ahead(m).op}
        BY <1>1, <3>1, <3>2
      <4>2. \A p \in Before : ~Clash(Ahead(m).op, p)
        BY <3>1, <3>2
      <4>. QED
        BY <2>2, <4>1, <4>2
    <3>3. CASE n # m
      <4>1. known'[m] = known[m]
        BY <1>1, <3>1, <3>3
      <4>. QED
        BY <2>1, <3>1, <4>1
    <3>. QED
      BY <3>2, <3>3
  <2>5. ASSUME NEW r \in Requests, Confirm(r), StillWriter(r)
        PROVE  \A o, p \in After : ~Clash(o, p)
    <3>1. /\ known' = [known EXCEPT ![at[r]] = @ \cup {asked[r]}]
          /\ pc[r] = "landed" /\ Reply(r, "ok")
      BY <2>5 DEF Confirm
    <3>2. \A q : ~Reserves(q)
      <4>1. pc'[r] = "done"
        BY <3>1 DEF Reply, End
      <4>2. ASSUME NEW q, Reserves(q)
            PROVE  FALSE
        <5>1. pc'[r] \in {"landed", "sent"}
          BY <3>1, <4>2 DEF Reserves, Goto, TypeOK
        <5>. QED
          BY <4>1, <5>1
      <4>. QED
        BY <4>2
    <3>3. Pending(m)' \subseteq Pending(m)
      BY <3>2, PendingCases
    <3>4. known'[m] \subseteq Before
      <4>1. CASE at[r] = m
        <5>1. asked[r] \in Pending(m)
          BY <3>1, <4>1 DEF Pending
        <5>. QED
          BY <1>1, <3>1, <4>1, <5>1
      <4>2. CASE at[r] # m
        BY <1>1, <3>1, <4>2
      <4>. QED
        BY <4>1, <4>2
    <3>. QED
      BY <2>1, <3>3, <3>4
  <2>. QED
    BY <2>3, <2>4, <2>5, KnownCases
<1>. QED
  BY <1>3, <1>4 DEF KnownInv

\* "ok" is said of an operation which the node that says it has applied.
LEMMA OkIsKnown ==
    ASSUME TypeOK, HandlerInv, [Next]_vars, NEW r \in Requests,
           answer'[r] = "ok", answer[r] # "ok"
    PROVE  pc[r] \in {"checked", "landed"} /\ at[r] \in Nodes /\ asked[r] \in known'[at[r]]
<1>1. ASSUME NEW n \in Nodes,
             \/ Promote(n) \/ TailStep(n) \/ TailFails(n)
             \/ AdvanceCheckpoint(n) \/ Serve(n)
      PROVE  answer' = answer
  BY <1>1 DEF Promote, TailStep, TailFence, TailApplies, TailRejects, TailFails,
              AdvanceCheckpoint, Serve, requestVars
<1>2. ASSUME \/ PoisonLands \/ FenceLands \/ FenceFails \/ Renew \/ UNCHANGED vars
             \/ \E record \in late : LateRecordLands(record)
             \/ \E q \in Requests, n \in Nodes : CheckWriter(q, n)
             \/ \E q \in Requests : RecordLands(q)
      PROVE  answer' = answer
  BY <1>2 DEF PoisonLands, FenceLands, FenceFails, Renew, vars, LateRecordLands, CheckWriter, RecordLands, Goto, requestVars
<1>3. ASSUME NEW n \in Nodes, Crash(n)
      PROVE  answer'[r] # "ok"
  BY <1>3 DEF Crash, End
<1>4. ASSUME NEW q \in Requests, PublishTimeout(q)
      PROVE  answer'[r] # "ok"
  BY <1>4 DEF PublishTimeout, Reply, End
<1>5. ASSUME NEW q \in Requests, Preflight(q)
      PROVE  pc[r] \in {"checked", "landed"} /\ at[r] \in Nodes /\ asked[r] \in known'[at[r]]
  <2>1. pc[q] = "checked" /\ at[q] \in Nodes /\ known' = known
    BY <1>5 DEF Preflight, HandlerInv
  <2>2. r = q /\ asked[q] \in known[at[q]]
    BY <1>5 DEF Preflight, Reply, End, Goto
  <2>. QED
    BY <2>1, <2>2
<1>6. ASSUME NEW q \in Requests, Confirm(q)
      PROVE  pc[r] \in {"checked", "landed"} /\ at[r] \in Nodes /\ asked[r] \in known'[at[r]]
  <2>1. pc[q] = "landed" /\ at[q] \in Nodes
    BY <1>6 DEF Confirm, HandlerInv
  <2>2. r = q /\ known' = [known EXCEPT ![at[q]] = @ \cup {asked[q]}]
    BY <1>6 DEF Confirm, Reply, End
  <2>. QED
    BY <2>1, <2>2 DEF TypeOK
<1>. QED
  BY <1>1, <1>2, <1>3, <1>4, <1>5, <1>6 DEF Next, HandlerStep

LEMMA FirstStep ==
    ASSUME TypeOK, EpochInv, AskedInv, HandlerInv, FirstInv, [Next]_vars
    PROVE  FirstInv'
<1>1. /\ lease \in Nat /\ lease' \in Nat /\ lease <= lease'
      /\ asked' = asked /\ NoNode \notin Nodes /\ FirstWriter \in Nodes
  BY LeaseGrows, RequestTypes, ClusterAssumption
<1>2. UNCHANGED <<owner, lease>> \/ \E n \in Nodes : Promote(n)
  BY LeaseCases
<1>3. /\ lease' = 0 => owner' = NoNode
      /\ lease' < 2 => owner' \in {FirstWriter, NoNode}
  <2>1. CASE UNCHANGED <<owner, lease>>
    BY <2>1 DEF FirstInv
  <2>2. ASSUME NEW n \in Nodes, Promote(n)
        PROVE  lease' # 0 /\ (lease' < 2 => owner' = FirstWriter)
    BY <1>1, <2>2 DEF Promote
  <2>. QED
    BY <1>2, <2>1, <2>2
<1>4. ASSUME lease' < 2, NEW r \in Requests, pc'[r] \in {"checked", "sent", "landed"}
      PROVE  at'[r] = FirstWriter
  <2>1. /\ lease < 2 /\ owner \in {FirstWriter, NoNode}
        /\ \A q \in Requests : pc[q] \in {"checked", "sent", "landed"} => at[q] = FirstWriter
    BY <1>1, <1>4 DEF FirstInv
  <2>2. CASE UNCHANGED requestVars
    BY <1>4, <2>1, <2>2 DEF requestVars
  <2>3. ASSUME NEW q \in Requests, NEW n \in Nodes, CheckWriter(q, n)
        PROVE  at'[r] = FirstWriter
    BY <1>1, <1>4, <2>1, <2>3 DEF CheckWriter, TypeOK
  <2>4. CASE Proceeds
    BY <1>4, <2>1, <2>4 DEF Proceeds, Reserves, RecordLands, Goto, TypeOK
  <2>5. CASE Ends
    BY <1>4, <2>1, <2>5 DEF Ends, End
  <2>. QED
    BY <2>2, <2>3, <2>4, <2>5, RequestCases
<1>5. ASSUME lease' < 2, NEW r \in Requests, answer'[r] = "ok"
      PROVE  asked'[r] \in known'[FirstWriter]
  <2>1. lease < 2
    BY <1>1, <1>5
  <2>2. CASE answer[r] = "ok"
    <3>1. asked[r] \in known[FirstWriter]
      BY <2>1, <2>2 DEF FirstInv
    <3>. QED
      BY <1>1, <3>1, KnownGrows
  <2>3. CASE answer[r] # "ok"
    <3>1. pc[r] \in {"checked", "landed"} /\ asked[r] \in known'[at[r]]
      BY <1>5, <2>3, OkIsKnown
    <3>. QED
      BY <1>1, <2>1, <3>1 DEF FirstInv
  <2>. QED
    BY <2>2, <2>3
<1>. QED
  BY <1>3, <1>4, <1>5 DEF FirstInv

-----------------------------------------------------------------------------
(* The invariant *)

LEMMA CInvInit ==
    ASSUME Init
    PROVE  CInv
<1>. USE DEF Init
<1>1. 0 \in Epochs /\ MaxFaults \in Nat
  BY ClusterAssumption DEF Epochs
<1>2. log \in Seq(Records) /\ Len(log) = 0 /\ \A i : i \notin 1..Len(log)
  OBVIOUS
<1>3. EpochIn(log, 0) = 0 /\ TakenTo(log, 0) = {}
  BY <1>2, EmptyLog, RecordsAreLog
<1>4. TypeOK
  <2>1. asked \in [Requests -> Ops]
    BY ClusterAssumption
  <2>2. [pos |-> 0, epoch |-> 0] \in Cursors
    BY <1>1 DEF Cursors
  <2>. QED
    BY <1>1, <1>2, <2>1, <2>2 DEF TypeOK
<1>5. ASSUME NEW n \in Nodes
       PROVE  /\ tail[n] = [pos |-> 0, epoch |-> 0] /\ ckpt[n] = tail[n]
              /\ tail[n].pos = 0 /\ tail[n].epoch = 0 /\ known[n] = {}
  OBVIOUS
<1>6. CursorInv
  <2>. SUFFICES ASSUME NEW n \in Nodes
                PROVE  ckpt[n].pos <= tail[n].pos /\ tail[n].pos <= Len(log)
    BY DEF CursorInv
  <2>1. ckpt[n].pos = 0 /\ tail[n].pos = 0
    BY <1>5
  <2>. QED
    BY <1>2, <2>1
<1>7. EpochInv
  BY <1>2, <1>3 DEF EpochInv, EpochAfter
<1>8. PassedIsApplied
  BY <1>3, <1>5 DEF PassedIsApplied, AcceptedTo, EpochAfter
<1>9. DeadLettersAreRejects
  BY <1>2 DEF DeadLettersAreRejects, Rejected
<1>10. AskedInv /\ HandlerInv
  BY <1>2 DEF AskedInv, HandlerInv
<1>11. KnownInv
  BY DEF KnownInv, Pending
<1>12. FirstInv
  BY DEF FirstInv
<1>. QED
  BY <1>4, <1>6, <1>7, <1>8, <1>9, <1>10, <1>11, <1>12 DEF CInv

LEMMA CInvStep ==
    ASSUME CInv, [Next]_vars
    PROVE  CInv'
BY TypeStep, CursorStep, PassedStep, DeadLettersStep, EpochInvStep, AskedStep,
   HandlerInvStep, KnownInvStep, FirstStep DEF CInv

\* In every reachable state the log, the tails, the checkpoints, the dead letters,
\* the requests and the nodes' knowledge agree as CInv says: the code of
\* src/src/cluster.rs and of catch_up keeps one account of what was accepted.
THEOREM ClusterInvariant == Spec => []CInv
<1>1. Init => CInv
  BY CInvInit
<1>2. CInv /\ [Next]_vars => CInv'
  BY CInvStep
<1>. QED
  BY <1>1, <1>2, PTL DEF Spec

\* No tail passes a record it should apply without applying it, and every
\* checkpoint carries the epoch in force where it points.
THEOREM PassedRecordsAreApplied == Spec => []PassedIsApplied
<1>1. CInv => PassedIsApplied
  BY DEF CInv
<1>. QED
  BY <1>1, ClusterInvariant, PTL

\* The dead-letter queue holds all that tails have rejected and nothing else.
THEOREM DeadLettersExact == Spec => []DeadLettersAreRejects
<1>1. CInv => DeadLettersAreRejects
  BY DEF CInv
<1>. QED
  BY <1>1, ClusterInvariant, PTL

\* Under one writer two contents of an identifier are never both answered "ok".
THEOREM OneContentUnderOneWriter == Spec => []OneWriterOneContent
<1>1. ASSUME CInv, lease < 2, NEW r \in Requests, NEW s \in Requests,
             answer[r] = "ok", answer[s] = "ok"
      PROVE  ~Clash(asked[r], asked[s])
  <2>1. asked[r] \in known[FirstWriter] /\ asked[s] \in known[FirstWriter]
    BY <1>1 DEF CInv, FirstInv
  <2>2. FirstWriter \in Nodes
    BY ClusterAssumption
  <2>. QED
    BY <1>1, <2>1, <2>2 DEF CInv, KnownInv
<1>2. CInv => OneWriterOneContent
  BY <1>1 DEF OneWriterOneContent
<1>. QED
  BY <1>2, ClusterInvariant, PTL

-----------------------------------------------------------------------------
(* Cluster implements Replicas *)

\* A step takes at most one more operation or gets one ahead of its fence, and
\* neither if the log stays.
LEMMA AcceptedStep ==
    ASSUME CInv, [Next]_vars
    PROVE  /\ log' = log => UNCHANGED <<Accepted, Early>>
           /\ \/ UNCHANGED <<Accepted, Early>>
              \/ \E o \in Ops : \/ Accepted' = Accepted \cup {o} /\ UNCHANGED Early
                                \/ Early' = Early \cup {o} /\ UNCHANGED Accepted
<1>1. /\ Accepted = TakenTo(log, Len(log)) /\ Accepted' = TakenTo(log', Len(log'))
      /\ Early = EarlyTo(log, Len(log)) /\ Early' = EarlyTo(log', Len(log'))
  BY DEF Accepted, AcceptedTo, Early
<1>2. log \in Seq(Records) /\ Len(log) \in Nat /\ TypeOK /\ EpochInv /\ AskedInv
  BY DEF CInv, TypeOK
<1>3. ASSUME NEW record \in Records, Lands(record)
      PROVE  \/ UNCHANGED <<Accepted, Early>>
             \/ \E o \in Ops : \/ Accepted' = Accepted \cup {o} /\ UNCHANGED Early
                               \/ Early' = Early \cup {o} /\ UNCHANGED Accepted
  <2>1. /\ log' \in Seq(Records) /\ Len(log') = Len(log) + 1
        /\ TakenTo(log', Len(log)) = TakenTo(log, Len(log))
        /\ EarlyTo(log', Len(log)) = EarlyTo(log, Len(log))
        /\ Len(log) < Len(log') /\ Len(log') \in 1..Len(log')
    <3>1. Len(log) \in 0..Len(log)
      BY <1>2
    <3>. QED
      BY <1>2, <1>3, <3>1, Appended DEF Lands
  <2>. DEFINE last == Len(log')
  <2>2. /\ TakenTo(log', last) = TakenTo(log, Len(log)) \cup
              (IF TakenIn(log', last) THEN {log'[last].op} ELSE {})
        /\ EarlyTo(log', last) = EarlyTo(log, Len(log)) \cup
              (IF EarlyIn(log', last) THEN {log'[last].op} ELSE {})
    BY <1>2, <2>1, TakenStep, RecordsAreLog
  <2>3. TakenIn(log', last) \/ EarlyIn(log', last) => log'[last].op \in Ops
    BY <2>1, RecordFields DEF TakenIn, EarlyIn
  <2>4. ~(TakenIn(log', last) /\ EarlyIn(log', last))
    <3>1. last - 1 \in 0..Len(log')
      BY <1>2, <2>1
    <3>2. EpochIn(log', last - 1) \in Nat
      BY <2>1, <3>1, EpochFacts, RecordsAreLog
    <3>. QED
      BY <3>2 DEF TakenIn, EarlyIn
  <2>. HIDE DEF last
  <2>5. CASE TakenIn(log', last)
    BY <1>1, <2>2, <2>3, <2>4, <2>5 DEF last
  <2>6. CASE EarlyIn(log', last)
    BY <1>1, <2>2, <2>3, <2>4, <2>6 DEF last
  <2>7. CASE ~TakenIn(log', last) /\ ~EarlyIn(log', last)
    BY <1>1, <2>2, <2>7 DEF last
  <2>. QED
    BY <2>5, <2>6, <2>7
<1>. QED
  BY <1>1, <1>2, <1>3, LogCases

\* What a node knows, somebody has asked for.
LEMMA KnownIsAsked ==
    ASSUME CInv, NEW n \in Nodes, NEW p \in known[n] \cup Pending(n)
    PROVE  \E s \in Requests : p = asked[s]
<1>1. CASE p \in Pending(n)
  BY <1>1 DEF Pending
<1>2. CASE p \in known[n]
  <2>1. p \in TakenTo(log, Len(log)) \cup EarlyTo(log, Len(log))
    BY <1>2 DEF CInv, KnownInv, Accepted, AcceptedTo, Early
  <2>2. PICK j \in 1..Len(log) : (TakenIn(log, j) \/ EarlyIn(log, j)) /\ p = log[j].op
    BY <2>1 DEF TakenTo, EarlyTo
  <2>. QED
    BY <2>2 DEF TakenIn, EarlyIn, CInv, AskedInv
<1>. QED
  BY <1>1, <1>2

\* A node applies what clashes with nothing it holds.
LEMMA AppliesIsHold ==
    ASSUME CInv, CInv', [Next]_vars, NEW n \in Nodes, NEW o,
           known' = [known EXCEPT ![n] = @ \cup {o}]
    PROVE  R!Hold(n, o)
<1>1. known \in [Nodes -> SUBSET Ops] /\ known' \in [Nodes -> SUBSET Ops]
  BY DEF CInv, TypeOK
<1>2. o \in known'[n] /\ known[n] \subseteq known'[n]
  BY <1>1
<1>3. \A x, y \in known'[n] : ~Clash(x, y)
  BY DEF CInv, KnownInv
<1>4. \A p \in known[n] : ~R!Clash(o, p)
  BY <1>2, <1>3 DEF Clash, R!Clash
<1>. QED
  BY <1>4 DEF R!Hold

LEMMA TailAppliesIsLearn ==
    ASSUME CInv, CInv', [Next]_vars, NEW n \in Nodes, TailApplies(n)
    PROVE  [R!ReplicasNext]_(R!replicaVars)
<1>1. UNCHANGED <<asked, answer>> /\ log' = log
  BY DEF TailApplies, requestVars
<1>2. UNCHANGED <<Accepted, Early>>
  BY <1>1, AcceptedStep
<1>3. CASE known' = known
  BY <1>1, <1>2, <1>3 DEF R!replicaVars
<1>4. CASE known' # known
  <2>1. Ahead(n).op \in Accepted /\ known' = [known EXCEPT ![n] = @ \cup {Ahead(n).op}]
    BY TailAppliesAccepted DEF CInv
  <2>2. R!Hold(n, Ahead(n).op)
    BY <2>1, AppliesIsHold
  <2>3. R!Learn(n)
    BY <1>1, <1>2, <2>1, <2>2 DEF R!Learn
  <2>. QED
    BY <2>3 DEF R!ReplicasNext
<1>. QED
  BY <1>3, <1>4

LEMMA ReplyForm ==
    ASSUME CInv, NEW r \in Requests, NEW a, Reply(r, a)
    PROVE  answer' = [answer EXCEPT ![r] = a] /\ asked' = asked
BY DEF Reply, End, CInv, TypeOK

LEMMA OkIsAnswerOk ==
    ASSUME CInv, CInv', [Next]_vars, NEW r \in Requests,
           \/ Preflight(r) /\ Reply(r, "ok") /\ asked[r] \in known[at[r]]
           \/ Confirm(r) /\ StillWriter(r)
    PROVE  R!Answer(r)
<1>1. /\ at[r] \in Nodes /\ answer[r] = "none" /\ log' = log
      /\ known \in [Nodes -> SUBSET Ops]
  BY DEF CInv, HandlerInv, TypeOK, Preflight, Confirm
<1>2. /\ answer' = [answer EXCEPT ![r] = "ok"] /\ asked' = asked
      /\ known' = [known EXCEPT ![at[r]] = @ \cup {asked[r]}]
      /\ asked[r] \in Accepted \cup Early
  <2>1. CASE Preflight(r) /\ Reply(r, "ok") /\ asked[r] \in known[at[r]]
    <3>1. known' = known
      BY <2>1 DEF Preflight
    <3>2. known[at[r]] \cup {asked[r]} = known[at[r]]
      BY <2>1
    <3>3. asked[r] \in Accepted \cup Early
      BY <1>1, <2>1 DEF CInv, KnownInv
    <3>. QED
      BY <1>1, <2>1, <3>1, <3>2, <3>3, ReplyForm
  <2>2. CASE Confirm(r) /\ StillWriter(r)
    <3>1. pc[r] = "landed" /\ Reply(r, "ok") /\ known' = [known EXCEPT ![at[r]] = @ \cup {asked[r]}]
      BY <2>2 DEF Confirm
    <3>2. asked[r] \in Accepted \cup Early
      BY <2>2, <3>1, ConfirmedIsAccepted DEF CInv
    <3>. QED
      BY <3>1, <3>2, ReplyForm
  <2>. QED
    BY <2>1, <2>2
<1>3. R!Hold(at[r], asked[r])
  BY <1>1, <1>2, AppliesIsHold
<1>4. R!AnswerOk(r)
  BY <1>1, <1>2, <1>3 DEF R!AnswerOk
<1>5. UNCHANGED <<Accepted, Early>>
  BY <1>1, AcceptedStep
<1>. QED
  BY <1>1, <1>2, <1>4, <1>5 DEF R!Answer

LEMMA ConflictIsAnswerConflict ==
    ASSUME CInv, [Next]_vars, NEW r \in Requests,
           Preflight(r), Reply(r, "conflict"), Refuses(at[r], asked[r])
    PROVE  R!Answer(r)
<1>1. at[r] \in Nodes /\ answer[r] = "none" /\ log' = log /\ known' = known
  BY DEF CInv, HandlerInv, Preflight
<1>2. PICK p \in known[at[r]] \cup Pending(at[r]) : Clash(asked[r], p)
  BY DEF Refuses
<1>3. PICK s \in Requests : p = asked[s]
  BY <1>1, KnownIsAsked
<1>4. R!Clash(asked[r], asked[s])
  BY <1>2, <1>3 DEF Clash, R!Clash
<1>5. UNCHANGED <<Accepted, Early>>
  BY <1>1, AcceptedStep
<1>6. answer' = [answer EXCEPT ![r] = "conflict"] /\ asked' = asked
  BY ReplyForm
<1>. QED
  BY <1>1, <1>4, <1>5, <1>6 DEF R!Answer, R!AnswerConflict

LEMMA EndIsFail ==
    ASSUME CInv, [Next]_vars, NEW rs \in SUBSET Requests,
           End(rs, "unavailable"), \A r \in rs : pc[r] # "done", UNCHANGED <<log, known>>
    PROVE  R!Fail(rs)
<1>1. \A r \in rs : answer[r] = "none"
  BY DEF CInv, HandlerInv
<1>2. UNCHANGED <<Accepted, Early>>
  BY AcceptedStep
<1>3. answer' = [r \in Requests |-> IF r \in rs THEN "unavailable" ELSE answer[r]]
      /\ asked' = asked
  BY DEF End
<1>. QED
  BY <1>1, <1>2, <1>3 DEF R!Fail

LEMMA ReplicasStep ==
    ASSUME CInv, CInv', [Next]_vars
    PROVE  [R!ReplicasNext]_(R!replicaVars)
<1>1. ASSUME UNCHANGED <<known, asked, answer>>
      PROVE  [R!ReplicasNext]_(R!replicaVars)
  <2>1. CASE UNCHANGED <<Accepted, Early>>
    BY <1>1, <2>1 DEF R!replicaVars
  <2>2. ASSUME NEW o \in Ops, \/ Accepted' = Accepted \cup {o} /\ UNCHANGED Early
                              \/ Early' = Early \cup {o} /\ UNCHANGED Accepted
        PROVE  R!ReplicasNext
    <3>1. R!Choose(o) \/ R!ComeEarly(o)
      BY <1>1, <2>2 DEF R!Choose, R!ComeEarly
    <3>. QED
      BY <3>1 DEF R!ReplicasNext
  <2>. QED
    BY <2>1, <2>2, AcceptedStep
<1>2. ASSUME NEW n \in Nodes,
             \/ Promote(n) \/ TailFence(n) \/ TailRejects(n) \/ TailFails(n)
             \/ AdvanceCheckpoint(n) \/ Serve(n)
      PROVE  UNCHANGED <<known, asked, answer>>
  BY <1>2 DEF Promote, TailFence, TailRejects, TailFails, AdvanceCheckpoint, Serve, requestVars
<1>3. ASSUME \/ PoisonLands \/ FenceLands \/ FenceFails \/ Renew \/ UNCHANGED vars
             \/ \E record \in late : LateRecordLands(record)
             \/ \E r \in Requests, n \in Nodes : CheckWriter(r, n)
             \/ \E r \in Requests : RecordLands(r)
      PROVE  UNCHANGED <<known, asked, answer>>
  BY <1>3 DEF PoisonLands, FenceLands, FenceFails, Renew, vars, LateRecordLands, CheckWriter, RecordLands, Goto, requestVars
<1>4. ASSUME NEW n \in Nodes, Crash(n)
      PROVE  R!ReplicasNext
  <2>. DEFINE lost == {r \in Requests : at[r] = n /\ pc[r] # "done"}
  <2>1. /\ End(lost, "unavailable") /\ UNCHANGED <<log, known>>
        /\ lost \in SUBSET Requests /\ \A r \in lost : pc[r] # "done"
    BY <1>4 DEF Crash
  <2>. HIDE DEF lost
  <2>2. R!Fail(lost)
    BY <2>1, EndIsFail
  <2>. QED
    BY <2>1, <2>2 DEF R!ReplicasNext
<1>5. ASSUME NEW r \in Requests, Preflight(r)
      PROVE  R!ReplicasNext \/ UNCHANGED <<known, asked, answer>>
  <2>1. \/ Refuses(at[r], asked[r]) /\ Reply(r, "conflict")
        \/ asked[r] \in known[at[r]] /\ Reply(r, "ok")
        \/ Goto(r, "sent") /\ known' = known
    BY <1>5 DEF Preflight
  <2>2. CASE Refuses(at[r], asked[r]) /\ Reply(r, "conflict")
    BY <1>5, <2>2, ConflictIsAnswerConflict DEF R!ReplicasNext
  <2>3. CASE asked[r] \in known[at[r]] /\ Reply(r, "ok")
    BY <1>5, <2>3, OkIsAnswerOk DEF R!ReplicasNext
  <2>4. CASE Goto(r, "sent") /\ known' = known
    BY <2>4 DEF Goto
  <2>. QED
    BY <2>1, <2>2, <2>3, <2>4
<1>6. ASSUME NEW r \in Requests, Confirm(r) \/ PublishTimeout(r)
      PROVE  R!ReplicasNext
  <2>1. CASE Confirm(r) /\ StillWriter(r)
    BY <2>1, OkIsAnswerOk DEF R!ReplicasNext
  <2>2. CASE (Confirm(r) /\ ~StillWriter(r)) \/ PublishTimeout(r)
    <3>1. /\ End({r}, "unavailable") /\ UNCHANGED <<log, known>>
          /\ pc[r] # "done" /\ {r} \in SUBSET Requests
      BY <2>2 DEF Confirm, PublishTimeout, Reply
    <3>2. R!Fail({r})
      BY <3>1, EndIsFail
    <3>. QED
      BY <3>1, <3>2 DEF R!ReplicasNext
  <2>. QED
    BY <1>6, <2>1, <2>2
<1>. QED
  BY <1>1, <1>2, <1>3, <1>4, <1>5, <1>6, TailAppliesIsLearn DEF Next, HandlerStep, TailStep

\* The nodes, the log, the lease and the handlers together keep what Replicas
\* promises, whatever crashes, is late, is lost or is taken over.
THEOREM ClusterImplementsReplicas == Spec => ImplementsReplicas
<1>1. Init => R!ReplicasInit
  <2>1. ASSUME Init
        PROVE  Accepted = {} /\ Early = {} /\ asked \in [Requests -> Ops]
    <3>1. log \in Seq(Records) /\ Len(log) = 0
      BY <2>1 DEF Init
    <3>. QED
      BY <2>1, <3>1, EmptyLog, RecordsAreLog, ClusterAssumption
      DEF Init, Accepted, AcceptedTo, Early
  <2>. QED
    BY <2>1 DEF Init, R!ReplicasInit
<1>2. CInv /\ CInv' /\ [Next]_vars => [R!ReplicasNext]_(R!replicaVars)
  BY ReplicasStep
<1>. QED
  BY <1>1, <1>2, ClusterInvariant, PTL DEF Spec, ImplementsReplicas, R!ReplicasSpec

-----------------------------------------------------------------------------
(* What the promises of Replicas come to *)

\* "ok" was said for an operation that some node holds.
AckedIsHeld == \A r \in Requests : answer[r] = "ok" => \E n \in Nodes : asked[r] \in known[n]

\* Nothing that every node has to apply, that a node has applied, or that a client
\* was told, is ever taken back.
OnlyMore ==
    /\ Accepted \subseteq Accepted' /\ Early \subseteq Early'
    /\ \A n \in Nodes : known[n] \subseteq known'[n]
    /\ asked' = asked
    /\ \A r \in Requests : answer[r] # "none" => answer'[r] = answer[r]

LEMMA MoreStep ==
    ASSUME CInv, [R!ReplicasNext]_(R!replicaVars)
    PROVE  OnlyMore /\ (AckedIsHeld => AckedIsHeld')
<1>1. /\ known \in [Nodes -> SUBSET Ops] /\ asked \in [Requests -> Ops]
      /\ DOMAIN answer = Requests
  BY DEF CInv, TypeOK
<1>2. CASE UNCHANGED R!replicaVars
  BY <1>2 DEF R!replicaVars, OnlyMore, AckedIsHeld
<1>3. ASSUME NEW o \in Ops, R!Choose(o)
      PROVE  OnlyMore /\ (AckedIsHeld => AckedIsHeld')
  BY <1>3 DEF R!Choose, OnlyMore, AckedIsHeld
<1>4. ASSUME NEW n \in Nodes, NEW o, R!Hold(n, o)
      PROVE  o \in known'[n] /\ \A m \in Nodes : known[m] \subseteq known'[m]
  BY <1>1, <1>4 DEF R!Hold
<1>5. ASSUME NEW n \in Nodes, R!Learn(n)
      PROVE  OnlyMore /\ (AckedIsHeld => AckedIsHeld')
  <2>1. \A m \in Nodes : known[m] \subseteq known'[m]
    BY <1>4, <1>5 DEF R!Learn
  <2>. QED
    BY <1>5, <2>1 DEF R!Learn, OnlyMore, AckedIsHeld
<1>6. ASSUME NEW r \in Requests, R!Answer(r)
      PROVE  OnlyMore /\ (AckedIsHeld => AckedIsHeld')
  <2>1. /\ \A m \in Nodes : known[m] \subseteq known'[m]
        /\ asked' = asked /\ UNCHANGED <<Accepted, Early>>
    BY <1>4, <1>6 DEF R!Answer, R!AnswerOk, R!AnswerConflict
  <2>2. \A q \in Requests : q # r => answer'[q] = answer[q]
    BY <1>1, <1>6 DEF R!Answer, R!AnswerOk, R!AnswerConflict
  <2>3. answer[r] = "none"
    BY <1>6 DEF R!Answer
  <2>4. answer'[r] = "ok" => \E n \in Nodes : asked[r] \in known'[n]
    BY <1>1, <1>4, <1>6 DEF R!Answer, R!AnswerOk, R!AnswerConflict
  <2>. QED
    BY <2>1, <2>2, <2>3, <2>4 DEF OnlyMore, AckedIsHeld
<1>7. ASSUME NEW rs \in SUBSET Requests, R!Fail(rs)
      PROVE  OnlyMore /\ (AckedIsHeld => AckedIsHeld')
  BY <1>7 DEF R!Fail, OnlyMore, AckedIsHeld
<1>8. ASSUME NEW o \in Ops, R!ComeEarly(o)
      PROVE  OnlyMore /\ (AckedIsHeld => AckedIsHeld')
  BY <1>8 DEF R!ComeEarly, OnlyMore, AckedIsHeld
<1>. QED
  BY <1>2, <1>3, <1>5, <1>6, <1>7, <1>8 DEF R!ReplicasNext

\* An accepted operation stays accepted behind every fence that comes, a node that
\* has applied one has it after every crash, and no reply changes (main.rs:462-482).
THEOREM NothingTakenBack == Spec => [][OnlyMore]_vars
<1>1. CInv /\ CInv' /\ [Next]_vars => OnlyMore
  BY ReplicasStep, MoreStep
<1>. QED
  BY <1>1, ClusterInvariant, PTL DEF Spec

\* "ok" is said only for an operation that some node has applied, and that every
\* node's catch_up accepts unless its record is ahead of its writer's fence: under
\* each lease, over all takeovers, lost fences, timeouts, late records and crashes
\* (main.rs:709-725).  Where no record is, "ok" means accepted.
THEOREM AcknowledgedIsAccepted ==
    Spec => []( /\ AckedIsHeld
                /\ \A r \in Requests : answer[r] = "ok" => asked[r] \in Accepted \cup Early
                /\ Early = {} => AckedIsAccepted )
<1>1. Init => AckedIsHeld
  BY DEF Init, AckedIsHeld
<1>2. CInv /\ CInv' /\ [Next]_vars /\ AckedIsHeld => AckedIsHeld'
  BY ReplicasStep, MoreStep
<1>3. CInv /\ AckedIsHeld =>
          /\ \A r \in Requests : answer[r] = "ok" => asked[r] \in Accepted \cup Early
          /\ Early = {} => AckedIsAccepted
  BY DEF CInv, KnownInv, AckedIsHeld, AckedIsAccepted
<1>. QED
  BY <1>1, <1>2, <1>3, ClusterInvariant, PTL DEF Spec
=============================================================================
