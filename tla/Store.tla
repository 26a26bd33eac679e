-------------------------------- MODULE Store --------------------------------
(***************************************************************************)
(* One node's Store: requests reserve their identifiers in the sharded     *)
(* dedup index, wait for whoever holds them, write the WAL, let the state  *)
(* shards change the balances, commit the reservations, publish the        *)
(* balances and hand the identifiers to the disk index.                    *)
(*                                                                         *)
(* A request is a call of the batch endpoint, or one chunk the tail of the *)
(* replicated log restores (Tails).  A step is what happens between two    *)
(* awaits or under one lock.  The content of an operation is only its      *)
(* fingerprint; a balance is counted per operation, so that "applied       *)
(* twice" is visible.  Submitted operations carry the order of arrival     *)
(* only as far as one dedup shard can tell: any part of the new operations *)
(* of a shard may come before the one that stops the scan.                 *)
(*                                                                         *)
(* Operators marked "Mutation" are plausible mistakes in the operator      *)
(* below them; the specification does not use them.                        *)
(***************************************************************************)
EXTENDS Naturals, Sequences, FiniteSets

CONSTANTS
    Requests,       \* handler calls and restored chunks
    Tails,          \* the restored chunks among them
    Ids,            \* operation_ids
    Fps,            \* fingerprints: owner, sku, delta and version
    DedupShardOf,   \* dedup shard of an id (a number below DEDUP_SHARDS)
    StateShardOf,   \* state shard of the (owner, sku) in a fingerprint
    Batches,        \* the batches a request may carry
    PersistCap,     \* capacity of the disk_persist channel (128)
    PublishGroup,   \* publications joined at most (256)
    Faults,         \* which things may fail in this instance
    NoFp, NoReq

AllFaults == {"quorum", "wal", "diskWrite", "diskRead", "cancel"}

Ops == [id : Ids, fp : Fps]

ASSUME StoreAssumption ==
    /\ Tails \subseteq Requests
    /\ DedupShardOf \in [Ids -> Nat]
    /\ StateShardOf \in [Fps -> Nat]
    /\ Batches \subseteq (SUBSET Ops) \ {{}}
    /\ PersistCap \in Nat \ {0}
    /\ PublishGroup \in Nat \ {0}
    /\ Faults \subseteq AllFaults
    /\ NoFp \notin Fps
    /\ NoReq \notin Requests

VARIABLES
    pc,             \* where each request stands
    batch,          \* its operations ({} before it is submitted)
    todo,           \* dedup shards the current loop has still to lock
    fresh,          \* new_operations: what this attempt reserved
    waitOn,         \* whose Notify it registered with
    harvest,        \* disk_entries collected while committing
    wakes,          \* Notify handles collected while committing or aborting
    answer,         \* its reply
    memory,         \* the dedup shards' maps
    disk,           \* the disk dedup index
    logged,         \* operations of acknowledged WAL appends
    jobs,           \* ApplyBatch commands sent and not yet executed
    balance,        \* how often a state shard applied each operation
    published,      \* how often published_balances absorbed it
    pubQueue, pubBatch,                       \* run_balance_publisher
    persistQueue, persistBatch, persistPhase  \* run_disk_persist

reqVars  == <<pc, batch, todo, fresh, waitOn, harvest, wakes, answer>>
pubVars  == <<pubQueue, pubBatch, published>>
diskVars == <<persistQueue, persistBatch, persistPhase, disk>>
stateVars == <<logged, jobs, balance>>
vars == <<pc, batch, todo, fresh, waitOn, harvest, wakes, answer, memory, disk,
          logged, jobs, balance, published, pubQueue, pubBatch,
          persistQueue, persistBatch, persistPhase>>

Vacant        == [kind |-> "vacant", fp |-> NoFp, by |-> NoReq]
Pending(f, r) == [kind |-> "pending", fp |-> f, by |-> r]
Committed(f)  == [kind |-> "committed", fp |-> f, by |-> NoReq]

Entries == {Vacant}
           \cup [kind : {"pending"}, fp : Fps, by : Requests]
           \cup [kind : {"committed"}, fp : Fps, by : {NoReq}]

Places == {"idle", "reserving", "yielding", "refusing", "waiting", "logging",
           "applying", "committing", "publishing", "persisting", "waking",
           "aborting", "detached", "done"}

Replies == {"none", "ok", "conflict", "unavailable", "gone"}

Clash(o, p)    == o.id = p.id /\ o.fp # p.fp
IdsOf(ops)     == {o.id : o \in ops}
ShardsOf(ops)  == {DedupShardOf[o.id] : o \in ops}
InShard(ops, s) == {o \in ops : DedupShardOf[o.id] = s}

\* The content ops has for identifier i.
FpIn(ops, i) == CHOOSE f \in Fps : [id |-> i, fp |-> f] \in ops

\* The shard loops run upwards over 0..DEDUP_SHARDS.
IsNextShard(r, s) == s \in todo[r] /\ \A t \in todo[r] : s <= t

TypeOK ==
    /\ pc \in [Requests -> Places]
    /\ batch \in [Requests -> SUBSET Ops]
    /\ todo \in [Requests -> SUBSET Nat]
    /\ fresh \in [Requests -> SUBSET Ops]
    /\ waitOn \in [Requests -> Requests \cup {NoReq}]
    /\ harvest \in [Requests -> SUBSET Ops]
    /\ wakes \in [Requests -> SUBSET (Requests \cup {NoReq})]
    /\ answer \in [Requests -> Replies]
    /\ memory \in [Ids -> Entries]
    /\ disk \in [Ids -> Fps \cup {NoFp}]
    /\ logged \subseteq Ops
    /\ jobs \subseteq Requests \X Nat
    /\ balance \in [Ops -> Nat]
    /\ published \in [Ops -> Nat]
    /\ pubQueue \in Seq(Requests)
    /\ pubBatch \subseteq Requests /\ IsFiniteSet(pubBatch)
    /\ persistQueue \in Seq(SUBSET Ops)
    /\ persistBatch \subseteq Ops
    /\ persistPhase \in {"collecting", "evicting"}

Init ==
    /\ pc = [r \in Requests |-> "idle"]
    /\ batch = [r \in Requests |-> {}]
    /\ todo = [r \in Requests |-> {}]
    /\ fresh = [r \in Requests |-> {}]
    /\ waitOn = [r \in Requests |-> NoReq]
    /\ harvest = [r \in Requests |-> {}]
    /\ wakes = [r \in Requests |-> {}]
    /\ answer = [r \in Requests |-> "none"]
    /\ memory = [i \in Ids |-> Vacant]
    /\ disk = [i \in Ids |-> NoFp]
    /\ logged = {}
    /\ jobs = {}
    /\ balance = [o \in Ops |-> 0]
    /\ published = [o \in Ops |-> 0]
    /\ pubQueue = << >>
    /\ pubBatch = {}
    /\ persistQueue = << >>
    /\ persistBatch = {}
    /\ persistPhase = "collecting"

-----------------------------------------------------------------------------
(* preflight_batch: reserve the identifiers, shard by shard. *)

Goto(r, place)   == pc' = [pc EXCEPT ![r] = place]
Finish(r, reply) == Goto(r, "done") /\ answer' = [answer EXCEPT ![r] = reply]

\* A batch whose own operations clash is refused before any state is touched.
Submit(r, ops) ==
    /\ pc[r] = "idle"
    /\ batch' = [batch EXCEPT ![r] = ops]
    /\ IF \E o, p \in ops : Clash(o, p)
         THEN Finish(r, "conflict") /\ UNCHANGED todo
         ELSE /\ Goto(r, "reserving")
              /\ todo' = [todo EXCEPT ![r] = ShardsOf(ops)]
              /\ UNCHANGED answer
    /\ UNCHANGED <<fresh, waitOn, harvest, wakes, memory>>
    /\ UNCHANGED <<stateVars, pubVars, diskVars>>

\* Mutation: the scan asks the memory index alone.
IsNewInMemory(o) == memory[o.id] = Vacant

\* How the scan under a shard's lock judges one operation.
IsNew(o) == memory[o.id] = Vacant /\ disk[o.id] = NoFp
\* Mutation: a reservation with the same content already counts as a duplicate.
IsHeldByNobody(o) == FALSE

IsHeld(o) == memory[o.id].kind = "pending" /\ memory[o.id].fp = o.fp
\* Mutation: the content the disk index has is not compared.
IsRefusedInMemory(o) == memory[o.id] # Vacant /\ memory[o.id].fp # o.fp

IsRefused(o) == IF memory[o.id] = Vacant THEN disk[o.id] \notin {NoFp, o.fp}
                                         ELSE memory[o.id].fp # o.fp

\* The shard's map once r has reserved the operations in taken.
Reserve(r, taken) ==
    /\ memory' = [i \in Ids |-> IF i \in IdsOf(taken)
                                  THEN Pending(FpIn(taken, i), r) ELSE memory[i]]
    /\ fresh' = [fresh EXCEPT ![r] = @ \cup taken]

\* Nothing in the shard stops the scan: reserve what is new, go on.
ReserveShard(r, s) ==
    /\ pc[r] = "reserving" /\ IsNextShard(r, s)
    /\ \A o \in InShard(batch[r], s) : ~IsHeld(o) /\ ~IsRefused(o)
    /\ Reserve(r, {o \in InShard(batch[r], s) : IsNew(o)})
    /\ todo' = [todo EXCEPT ![r] = @ \ {s}]
    /\ UNCHANGED <<pc, batch, waitOn, harvest, wakes, answer>>
    /\ UNCHANGED <<stateVars, pubVars, diskVars>>

\* The scan meets an operation it cannot pass: someone's reservation, whose
\* Notify it registers with under the lock, or another content.
ReserveStops(r, s, o) ==
    /\ pc[r] = "reserving" /\ IsNextShard(r, s)
    /\ o \in InShard(batch[r], s)
    /\ \/ IsHeld(o) /\ Goto(r, "yielding")
          /\ waitOn' = [waitOn EXCEPT ![r] = memory[o.id].by]
       \/ IsRefused(o) /\ Goto(r, "refusing") /\ UNCHANGED waitOn
    /\ \E taken \in SUBSET {p \in InShard(batch[r], s) : IsNew(p)} :
         /\ Reserve(r, taken)
         /\ todo' = [todo EXCEPT ![r] = ShardsOf(fresh[r] \cup taken)]
    /\ UNCHANGED <<batch, harvest, wakes, answer>>
    /\ UNCHANGED <<stateVars, pubVars, diskVars>>

\* get_many fails: the error leaves the function with the earlier shards'
\* reservations in place.
ReserveReadFails(r) ==
    /\ "diskRead" \in Faults
    /\ pc[r] = "reserving" /\ todo[r] # {}
    /\ Finish(r, "unavailable")
    /\ UNCHANGED <<batch, todo, fresh, waitOn, harvest, wakes, memory>>
    /\ UNCHANGED <<stateVars, pubVars, diskVars>>

\* rollback_reservation: only entries that are still r's own.
RollbackShard(r, s) ==
    /\ pc[r] \in {"yielding", "refusing"} /\ IsNextShard(r, s)
    /\ memory' = [i \in Ids |->
                    IF i \in IdsOf(InShard(fresh[r], s))
                       /\ memory[i].kind = "pending" /\ memory[i].by = r
                      THEN Vacant ELSE memory[i]]
    /\ fresh' = [fresh EXCEPT ![r] = {o \in @ : DedupShardOf[o.id] # s}]
    /\ todo' = [todo EXCEPT ![r] = @ \ {s}]
    /\ UNCHANGED <<pc, batch, waitOn, harvest, wakes, answer>>
    /\ UNCHANGED <<stateVars, pubVars, diskVars>>

\* Mutation: notify_one instead of notify_waiters.
NotifyOne(hs) ==
    LET sleepers == {q \in Requests : waitOn[q] \in hs \ {NoReq}}
        woken == CHOOSE q \in sleepers : TRUE
    IN  waitOn' = IF sleepers = {} THEN waitOn ELSE [waitOn EXCEPT ![woken] = NoReq]

\* notify_waiters on the reservations in hs.
Notify(hs) == waitOn' = [q \in Requests |-> IF waitOn[q] \in hs THEN NoReq ELSE waitOn[q]]

RollbackDone(r) ==
    /\ todo[r] = {}
    /\ \/ pc[r] = "yielding" /\ Goto(r, "waiting") /\ UNCHANGED answer
       \/ pc[r] = "refusing" /\ Finish(r, "conflict")
    /\ Notify({r})
    /\ UNCHANGED <<batch, todo, fresh, harvest, wakes, memory>>
    /\ UNCHANGED <<stateVars, pubVars, diskVars>>

\* Notified: scan again from the first shard with a reservation of its own.
Retry(r) ==
    /\ pc[r] = "waiting" /\ waitOn[r] = NoReq
    /\ Goto(r, "reserving")
    /\ todo' = [todo EXCEPT ![r] = ShardsOf(batch[r])]
    /\ UNCHANGED <<batch, fresh, waitOn, harvest, wakes, answer, memory>>
    /\ UNCHANGED <<stateVars, pubVars, diskVars>>

-----------------------------------------------------------------------------
(* The commit path of a handler, and of restore_chunk. *)

Reserved(r) == pc[r] = "reserving" /\ todo[r] = {}

\* Every operation is a duplicate: nothing to make durable.
AnswerDuplicates(r) ==
    /\ Reserved(r) /\ fresh[r] = {}
    /\ Finish(r, "ok")
    /\ UNCHANGED <<batch, todo, fresh, waitOn, harvest, wakes, memory>>
    /\ UNCHANGED <<stateVars, pubVars, diskVars>>

\* The quorum has the record and the lease still holds; a restored chunk comes
\* out of the log and needs neither.
Replicated(r) ==
    /\ Reserved(r) /\ fresh[r] # {}
    /\ Goto(r, "logging")
    /\ UNCHANGED <<batch, todo, fresh, waitOn, harvest, wakes, answer, memory>>
    /\ UNCHANGED <<stateVars, pubVars, diskVars>>

\* Mutation: the error is returned without finish_batch(false).
StartAbortForgotten(r) ==
    /\ Finish(r, "unavailable")
    /\ UNCHANGED <<batch, todo, fresh, waitOn, harvest, wakes, memory>>
    /\ UNCHANGED <<stateVars, pubVars, diskVars>>

StartAbort(r) ==
    /\ Goto(r, "aborting")
    /\ todo' = [todo EXCEPT ![r] = ShardsOf(fresh[r])]
    /\ UNCHANGED <<batch, fresh, waitOn, harvest, wakes, answer, memory>>
    /\ UNCHANGED <<stateVars, pubVars, diskVars>>

ReplicationFails(r) ==
    /\ "quorum" \in Faults /\ r \notin Tails
    /\ Reserved(r) /\ fresh[r] # {}
    /\ StartAbort(r)

LogFails(r) ==
    /\ "wal" \in Faults
    /\ pc[r] = "logging"
    /\ StartAbort(r)

\* append_many is acknowledged; the operations go to their state shards.
AppendLog(r) ==
    /\ pc[r] = "logging"
    /\ logged' = logged \cup fresh[r]
    /\ jobs' = jobs \cup ({r} \X {StateShardOf[o.fp] : o \in fresh[r]})
    /\ Goto(r, "applying")
    /\ UNCHANGED <<batch, todo, fresh, waitOn, harvest, wakes, answer, memory, balance>>
    /\ UNCHANGED <<pubVars, diskVars>>

\* Mutation: a state shard publishes its own part of the batch.
ApplyShardPublishes(r, s) ==
    /\ <<r, s>> \in jobs
    /\ jobs' = jobs \ {<<r, s>>}
    /\ LET part == {o \in fresh[r] : StateShardOf[o.fp] = s}
       IN  /\ balance' = [o \in Ops |-> IF o \in part THEN balance[o] + 1 ELSE balance[o]]
           /\ published' = [o \in Ops |-> IF o \in part THEN published[o] + 1
                                                        ELSE published[o]]
    /\ UNCHANGED <<logged, memory, pubQueue, pubBatch, reqVars, diskVars>>

\* run_shard executes one request's ApplyBatch.
ApplyShard(r, s) ==
    /\ <<r, s>> \in jobs
    /\ jobs' = jobs \ {<<r, s>>}
    /\ balance' = [o \in Ops |-> IF o \in fresh[r] /\ StateShardOf[o.fp] = s
                                   THEN balance[o] + 1 ELSE balance[o]]
    /\ UNCHANGED <<logged, memory>>
    /\ UNCHANGED <<reqVars, pubVars, diskVars>>

\* Mutation: the request does not wait for the state shards.
AppliedAtOnce(r) ==
    /\ pc[r] = "applying"
    /\ Goto(r, "committing")
    /\ todo' = [todo EXCEPT ![r] = ShardsOf(fresh[r])]
    /\ UNCHANGED <<batch, fresh, waitOn, harvest, wakes, answer, memory>>
    /\ UNCHANGED <<stateVars, pubVars, diskVars>>

\* All the state shards have replied.
Applied(r) ==
    /\ pc[r] = "applying"
    /\ \A s \in {StateShardOf[o.fp] : o \in fresh[r]} : <<r, s>> \notin jobs
    /\ Goto(r, "committing")
    /\ todo' = [todo EXCEPT ![r] = ShardsOf(fresh[r])]
    /\ UNCHANGED <<batch, fresh, waitOn, harvest, wakes, answer, memory>>
    /\ UNCHANGED <<stateVars, pubVars, diskVars>>

-----------------------------------------------------------------------------
(* finish_batch *)

Held(ids) == {i \in ids : memory[i].kind = "pending"}

\* committed = true: turn the pending entries of one shard into committed ones.
CommitShard(r, s) ==
    /\ pc[r] = "committing" /\ IsNextShard(r, s)
    /\ LET held == Held(IdsOf(InShard(fresh[r], s)))
       IN  /\ memory' = [i \in Ids |-> IF i \in held THEN Committed(memory[i].fp)
                                                     ELSE memory[i]]
           /\ harvest' = [harvest EXCEPT ![r] =
                            @ \cup {[id |-> i, fp |-> memory[i].fp] : i \in held}]
           /\ wakes' = [wakes EXCEPT ![r] = @ \cup {memory[i].by : i \in held}]
    /\ todo' = [todo EXCEPT ![r] = @ \ {s}]
    /\ UNCHANGED <<pc, batch, fresh, waitOn, answer>>
    /\ UNCHANGED <<stateVars, pubVars, diskVars>>

\* committed = false: remove whatever the map holds for r's identifiers.
AbortShard(r, s) ==
    /\ pc[r] = "aborting" /\ IsNextShard(r, s)
    /\ LET ids == IdsOf(InShard(fresh[r], s))
       IN  /\ memory' = [i \in Ids |-> IF i \in ids THEN Vacant ELSE memory[i]]
           /\ wakes' = [wakes EXCEPT ![r] = @ \cup {memory[i].by : i \in Held(ids)}]
    /\ fresh' = [fresh EXCEPT ![r] = {o \in @ : DedupShardOf[o.id] # s}]
    /\ todo' = [todo EXCEPT ![r] = @ \ {s}]
    /\ UNCHANGED <<pc, batch, waitOn, harvest, answer>>
    /\ UNCHANGED <<stateVars, pubVars, diskVars>>

SendPublish(r) ==
    /\ pc[r] = "committing" /\ todo[r] = {}
    /\ pubQueue' = Append(pubQueue, r)
    /\ Goto(r, "publishing")
    /\ UNCHANGED <<batch, todo, fresh, waitOn, harvest, wakes, answer, memory>>
    /\ UNCHANGED <<pubBatch, published, stateVars, diskVars>>

\* The publisher has answered; the send blocks while the channel is full.
SendPersist(r) ==
    /\ pc[r] = "persisting"
    /\ IF harvest[r] = {} THEN UNCHANGED persistQueue
       ELSE /\ Len(persistQueue) < PersistCap
            /\ persistQueue' = Append(persistQueue, harvest[r])
    /\ Goto(r, "waking")
    /\ UNCHANGED <<batch, todo, fresh, waitOn, harvest, wakes, answer, memory>>
    /\ UNCHANGED <<persistBatch, persistPhase, disk, stateVars, pubVars>>

\* Mutation: only a commit wakes those who wait.
WakeOnCommit(r) ==
    /\ \/ pc[r] = "waking" /\ Finish(r, "ok") /\ Notify(wakes[r])
       \/ pc[r] = "aborting" /\ todo[r] = {} /\ Finish(r, "unavailable") /\ UNCHANGED waitOn
    /\ UNCHANGED <<batch, todo, fresh, harvest, wakes, memory>>
    /\ UNCHANGED <<stateVars, pubVars, diskVars>>

\* Last line of finish_batch, then the reply.
Wake(r) ==
    /\ \/ pc[r] = "waking" /\ Finish(r, "ok")
       \/ pc[r] = "aborting" /\ todo[r] = {} /\ Finish(r, "unavailable")
    /\ Notify(wakes[r])
    /\ UNCHANGED <<batch, todo, fresh, harvest, wakes, memory>>
    /\ UNCHANGED <<stateVars, pubVars, diskVars>>

-----------------------------------------------------------------------------
(* run_balance_publisher: join up to PublishGroup publications, absorb them  *)
(* under one write lock, tell their requests.                                *)

PublishTake ==
    /\ pubQueue # << >>
    /\ Cardinality(pubBatch) < PublishGroup
    /\ pubBatch' = pubBatch \cup {Head(pubQueue)}
    /\ pubQueue' = Tail(pubQueue)
    /\ UNCHANGED <<published, memory>>
    /\ UNCHANGED <<reqVars, stateVars, diskVars>>

\* How many of the joined publications carry operation o.
Carried(o) == Cardinality({r \in pubBatch : o \in fresh[r]})

Publish ==
    /\ pubBatch # {}
    /\ published' = [o \in Ops |-> published[o] + Carried(o)]
    /\ pc' = [r \in Requests |-> IF r \in pubBatch /\ pc[r] = "publishing"
                                   THEN "persisting" ELSE pc[r]]
    /\ pubBatch' = {}
    /\ UNCHANGED <<pubQueue, memory>>
    /\ UNCHANGED <<batch, todo, fresh, waitOn, harvest, wakes, answer>>
    /\ UNCHANGED <<stateVars, diskVars>>

-----------------------------------------------------------------------------
(* run_disk_persist: combine queued entries, insert them in one batch, then  *)
(* drop from memory what the disk now remembers.                             *)

PersistTake ==
    /\ persistPhase = "collecting"
    /\ persistQueue # << >>
    /\ persistBatch' = persistBatch \cup Head(persistQueue)
    /\ persistQueue' = Tail(persistQueue)
    /\ UNCHANGED <<persistPhase, disk, memory>>
    /\ UNCHANGED <<reqVars, stateVars, pubVars>>

\* Mutation: the inserted entries are not dropped from memory.
PersistInsertOnly ==
    /\ persistPhase = "collecting" /\ persistBatch # {}
    /\ disk' = [i \in Ids |-> IF i \in IdsOf(persistBatch) THEN FpIn(persistBatch, i)
                                                           ELSE disk[i]]
    /\ persistBatch' = {}
    /\ UNCHANGED <<persistPhase, persistQueue, memory>>
    /\ UNCHANGED <<reqVars, stateVars, pubVars>>

PersistInsert ==
    /\ persistPhase = "collecting" /\ persistBatch # {}
    /\ disk' = [i \in Ids |-> IF i \in IdsOf(persistBatch) THEN FpIn(persistBatch, i)
                                                           ELSE disk[i]]
    /\ persistPhase' = "evicting"
    /\ UNCHANGED <<persistBatch, persistQueue, memory>>
    /\ UNCHANGED <<reqVars, stateVars, pubVars>>

\* Mutation: the entries are dropped from memory even when the insert failed.
PersistFailsAndEvicts ==
    /\ "diskWrite" \in Faults
    /\ persistPhase = "collecting" /\ persistBatch # {}
    /\ persistPhase' = "evicting"
    /\ UNCHANGED <<persistBatch, persistQueue, disk, memory>>
    /\ UNCHANGED <<reqVars, stateVars, pubVars>>

\* The entries stay in memory and are not tried again.
PersistFails ==
    /\ "diskWrite" \in Faults
    /\ persistPhase = "collecting" /\ persistBatch # {}
    /\ persistBatch' = {}
    /\ UNCHANGED <<persistPhase, persistQueue, disk, memory>>
    /\ UNCHANGED <<reqVars, stateVars, pubVars>>

Evict(o) ==
    /\ persistPhase = "evicting" /\ o \in persistBatch
    /\ memory' = [memory EXCEPT ![o.id] = IF @ = Committed(o.fp) THEN Vacant ELSE @]
    /\ persistBatch' = persistBatch \ {o}
    /\ persistPhase' = IF persistBatch = {o} THEN "collecting" ELSE "evicting"
    /\ UNCHANGED <<persistQueue, disk>>
    /\ UNCHANGED <<reqVars, stateVars, pubVars>>

-----------------------------------------------------------------------------
(* The client hangs up: the handler's future is dropped at its current await.*)
(* What it has sent to a channel is still executed; what waited for room in  *)
(* one (kept) is not; nothing is rolled back.                                *)

\* Mutation: a drop guard releases the reservations, whatever was sent already.
CancelReleases(r) ==
    /\ "cancel" \in Faults /\ r \notin Tails
    /\ pc[r] \notin {"idle", "done", "detached"}
    /\ Goto(r, "done")
    /\ answer' = [answer EXCEPT ![r] = "gone"]
    /\ waitOn' = [waitOn EXCEPT ![r] = NoReq]
    /\ memory' = [i \in Ids |-> IF memory[i].by = r THEN Vacant ELSE memory[i]]
    /\ UNCHANGED <<batch, todo, fresh, harvest, wakes, logged, balance, jobs>>
    /\ UNCHANGED <<pubVars, diskVars>>

Cancel(r) ==
    /\ "cancel" \in Faults /\ r \notin Tails
    /\ pc[r] \notin {"idle", "done", "detached"}
    /\ \/ Goto(r, "done")
       \/ pc[r] = "logging" /\ Goto(r, "detached")
    /\ answer' = [answer EXCEPT ![r] = "gone"]
    /\ waitOn' = [waitOn EXCEPT ![r] = NoReq]
    /\ \E kept \in SUBSET {j \in jobs : j[1] = r} :
         jobs' = {j \in jobs : j[1] # r} \cup kept
    /\ UNCHANGED <<batch, todo, fresh, harvest, wakes, memory, logged, balance>>
    /\ UNCHANGED <<pubVars, diskVars>>

\* The WAL writer serves an append whose caller is gone.
DetachedAppend(r) ==
    /\ pc[r] = "detached"
    /\ logged' = logged \cup fresh[r]
    /\ Goto(r, "done")
    /\ UNCHANGED <<batch, todo, fresh, waitOn, harvest, wakes, answer, memory>>
    /\ UNCHANGED <<jobs, balance, pubVars, diskVars>>

-----------------------------------------------------------------------------
DedupShards == {DedupShardOf[i] : i \in Ids}
StateShards == {StateShardOf[f] : f \in Fps}

\* What a request does by itself, given the replies it waits for.
RequestStep(r) ==
    \/ \E s \in DedupShards : ReserveShard(r, s)
    \/ \E s \in DedupShards, o \in batch[r] : ReserveStops(r, s, o)
    \/ \E s \in DedupShards : RollbackShard(r, s)
    \/ RollbackDone(r)
    \/ Retry(r)
    \/ AnswerDuplicates(r)
    \/ Replicated(r)
    \/ ReplicationFails(r)
    \/ AppendLog(r)
    \/ LogFails(r)
    \/ Applied(r)
    \/ \E s \in DedupShards : CommitShard(r, s)
    \/ \E s \in DedupShards : AbortShard(r, s)
    \/ SendPublish(r)
    \/ SendPersist(r)
    \/ Wake(r)
    \/ DetachedAppend(r)

Persister == PersistTake \/ PersistInsert \/ PersistFails \/ \E o \in Ops : Evict(o)

Next ==
    \/ \E r \in Requests :
         \/ \E ops \in Batches : Submit(r, ops)
         \/ RequestStep(r)
         \/ ReserveReadFails(r)
         \/ Cancel(r)
         \/ \E s \in StateShards : ApplyShard(r, s)
    \/ PublishTake
    \/ Publish
    \/ Persister

\* The tasks are scheduled fairly; clients and faults are free.  A taken
\* publication or persist group is closed after one yield or 2 ms.
Fairness ==
    /\ \A r \in Requests :
         /\ WF_vars(RequestStep(r))
         /\ \A s \in StateShards : WF_vars(ApplyShard(r, s))
    /\ WF_vars(PublishTake) /\ WF_vars(Publish)
    /\ WF_vars(PersistTake) /\ WF_vars(PersistInsert \/ \E o \in Ops : Evict(o))

Spec == Init /\ [][Next]_vars /\ Fairness

-----------------------------------------------------------------------------
(* Safety *)

\* The identifier index still recognises operation o.
Recognised(o) ==
    \/ memory[o.id].kind # "vacant" /\ memory[o.id].fp = o.fp
    \/ disk[o.id] = o.fp

\* ARCHITECTURE.md, invariant 2: one operation_id changes the balances at most
\* once, whatever mix of concurrent requests, restored chunks, aborts,
\* evictions and vanished clients carried it.
AtMostOnce ==
    /\ \A o \in Ops : balance[o] <= 1
    /\ \A o, p \in Ops : Clash(o, p) => balance[o] + balance[p] <= 1

\* Between its WAL record and the disk index an operation is never unknown to
\* preflight_batch: not while it is applied, queued for the disk, being
\* inserted or being evicted, and not after a failed insert.
NeverForgotten == \A o \in logged : Recognised(o)

\* A positive reply means durable (ARCHITECTURE.md, invariant 1) and applied;
\* what the request itself brought in is visible to the read endpoints.
OkIsDurable ==
    \A r \in Requests : answer[r] = "ok" =>
        /\ batch[r] \subseteq logged
        /\ \A o \in batch[r] : balance[o] = 1
        /\ \A o \in fresh[r] : published[o] = 1

\* The published balances run behind the state shards, never ahead of them.
PublishedFollows == \A o \in Ops : published[o] <= balance[o]

\* Who may still release the reservations of an attempt.
Releasing(r) == pc[r] \notin {"idle", "waiting", "done", "detached"}

\* Without vanishing clients and index read errors, every reservation belongs
\* to a call that is still on its way to release or commit it.
NoOrphanReservation ==
    \A i \in Ids : memory[i].kind = "pending" =>
        /\ Releasing(memory[i].by)
        /\ [id |-> i, fp |-> memory[i].fp] \in fresh[memory[i].by]

\* No lost wakeup and no waiting while holding: a sleeping request waits for a
\* call that has yet to notify, and holds no reservation others could wait for.
SleepersAreSafe ==
    \A r \in Requests : pc[r] = "waiting" =>
        /\ waitOn[r] # NoReq => Releasing(waitOn[r])
        /\ \A i \in Ids : memory[i].kind = "pending" => memory[i].by # r

(* Action properties *)

\* What the clients can see is never taken back, and a batch appears in the
\* published balances at once: no step shows a part of what one call brought in.
PublishedWhole ==
    [][/\ \A o \in Ops : published'[o] >= published[o]
       /\ \A r \in Requests : (\E o \in fresh[r] : published'[o] # published[o])
            => \A o \in fresh[r] : published'[o] = 1]_vars

(* Liveness *)

\* Every submitted request is answered: no deadlock between overlapping
\* batches, no endless mutual yielding, no reservation everyone waits for.  (Each
\* is submitted at most once, so from some moment on nobody is left waiting.)
EveryRequestAnswered == <>[](\A r \in Requests : pc[r] # "idle" => answer[r] # "none")

\* Every durable operation reaches the disk index and leaves the memory one, for
\* good, however small the persist queue is.
EventuallyMaterialized ==
    <>[](\A o \in logged : disk[o.id] = o.fp /\ memory[o.id] = Vacant)

(* Refinement *)

\* One node behaves to its clients as the Ledger: all the WAL-acknowledged
\* operations as one set that grows by whole batches.
L == INSTANCE Ledger WITH ledger <- logged, asked <- batch

ImplementsLedger == L!LedgerSpec

-----------------------------------------------------------------------------
(* The inductive invariant behind AtMostOnce (StoreProofs).                  *)

\* Places in which a request's reservations are not applied yet.
Unlogged == {"idle", "reserving", "yielding", "refusing", "waiting", "logging",
             "aborting"}

Unapplied(i) == \A o \in Ops : o.id = i => balance[o] = 0

\* A batch in the pipeline gives each identifier one content.
BatchInv ==
    \A r \in Requests : pc[r] \notin {"idle", "done"} =>
        \A o, p \in batch[r] : ~Clash(o, p)

\* Until it is committed, what a request reserved is still reserved for it.
OwnInv ==
    \A r \in Requests : \A o \in fresh[r] :
        \/ pc[r] \in Unlogged \cup {"applying"}
        \/ pc[r] = "committing" /\ DedupShardOf[o.id] \in todo[r]
        => memory[o.id] = Pending(o.fp, r)

\* ... and no operation with that identifier has touched a balance.
UnappliedInv ==
    \A r \in Requests : pc[r] \in Unlogged =>
        \A o \in fresh[r] : Unapplied(o.id)

\* The same for what still waits in a state shard's queue, even when the client
\* of the request is gone.
JobInv ==
    \A r \in Requests : \A o \in fresh[r] : <<r, StateShardOf[o.fp]>> \in jobs =>
        /\ pc[r] \in {"applying", "done"}
        /\ memory[o.id] = Pending(o.fp, r)
        /\ Unapplied(o.id)

\* Commands exist only for requests that wait for them, or vanished doing so.
JobOwnerInv ==
    \A j \in jobs : /\ pc[j[1]] \in {"applying", "done"}
                   /\ j[2] \in {StateShardOf[o.fp] : o \in fresh[j[1]]}

\* preflight_batch can still tell that an applied identifier is not new.
AppliedInv ==
    \A o \in Ops : balance[o] > 0 => memory[o.id] # Vacant \/ disk[o.id] # NoFp

\* The persister evicts only what the disk index has.
EvictInv ==
    persistPhase = "evicting" => \A o \in persistBatch : disk[o.id] # NoFp

IInv ==
    /\ TypeOK
    /\ BatchInv
    /\ OwnInv
    /\ UnappliedInv
    /\ JobInv
    /\ JobOwnerInv
    /\ AppliedInv
    /\ EvictInv
    /\ AtMostOnce
-----------------------------------------------------------------------------
(* The inductive invariant behind the other invariants and the refinement.   *)

\* The operation is durable and applied.
Settled(o) == o \in logged /\ balance[o] = 1

\* Places behind the append to the WAL.
Logged == {"applying", "committing", "publishing", "persisting", "waking"}

\* A request is answered at its end, and reserves only what it was asked for.
AnswerInv ==
    \A r \in Requests :
        /\ pc[r] \notin {"done", "detached"} => answer[r] = "none"
        /\ pc[r] = "detached" => answer[r] = "gone"
        /\ (pc[r] = "idle") <=> (batch[r] = {})
        /\ fresh[r] \subseteq batch[r]

\* What a request has reserved and not released is nobody else's, and known to
\* preflight_batch; each reservation has its request.
HolderInv ==
    /\ \A q, r \in Requests : \A o \in fresh[q], p \in fresh[r] :
          o.id = p.id => q = r /\ o = p
    /\ \A r \in Requests : \A o \in fresh[r] :
          /\ memory[o.id] # Vacant \/ disk[o.id] # NoFp
          /\ pc[r] = "detached" => memory[o.id] = Pending(o.fp, r)
    /\ \A i \in Ids : memory[i].kind = "pending" =>
          [id |-> i, fp |-> memory[i].fp] \in fresh[memory[i].by]

\* The WAL has one content for each identifier, and knows nothing of what a
\* request has reserved until it is appended.
LogInv ==
    /\ \A o, p \in logged : ~Clash(o, p)
    /\ NeverForgotten
    /\ \A r \in Requests :
          /\ pc[r] \in Unlogged \cup {"detached"} =>
                \A o \in fresh[r], p \in logged : o.id # p.id
          /\ pc[r] \in Logged => fresh[r] \subseteq logged

\* What is committed, or on its way to the disk index, is durable and applied.
SettledInv ==
    /\ \A i \in Ids : memory[i].kind = "committed" =>
          Settled([id |-> i, fp |-> memory[i].fp])
    /\ \A i \in Ids : disk[i] # NoFp => Settled([id |-> i, fp |-> disk[i]])
    /\ \A r \in Requests : \A o \in harvest[r] : Settled(o)
    /\ \A k \in 1..Len(persistQueue) : \A o \in persistQueue[k] : Settled(o)
    /\ \A o \in persistBatch : Settled(o)
    /\ persistPhase = "evicting" => \A o \in persistBatch : disk[o.id] = o.fp

\* The operations ops may be answered "conflict": one of them, or another content
\* of its identifier, was brought by somebody before.
Disputed(ops) ==
    \E o \in ops : \E p \in logged \cup UNION {batch[q] : q \in Requests} : Clash(o, p)

\* What the scan has passed is reserved or a settled duplicate; it is refused
\* for a reason.
ScanInv ==
    \A r \in Requests :
        /\ pc[r] = "reserving" => \A o \in batch[r] :
              DedupShardOf[o.id] \in todo[r] \/ o \in fresh[r] \/ Settled(o)
        /\ pc[r] \in Logged \cup {"logging", "detached"} =>
              \A o \in batch[r] : o \in fresh[r] \/ Settled(o)
        /\ pc[r] = "refusing" => Disputed(batch[r])

\* Behind the state shards every new operation is applied.
ApplyInv ==
    \A r \in Requests : \A o \in fresh[r] :
        /\ pc[r] = "applying" => <<r, StateShardOf[o.fp]>> \in jobs \/ balance[o] = 1
        /\ pc[r] \in Logged \ {"applying"} => balance[o] = 1

\* Requests whose publication is queued or joined.
Publishing == {pubQueue[k] : k \in 1..Len(pubQueue)} \cup pubBatch

\* Each publication is queued once, of operations that are applied, and not
\* published before it is absorbed.
PublishInv ==
    /\ PublishedFollows
    /\ \A j, k \in 1..Len(pubQueue) : pubQueue[j] = pubQueue[k] => j = k
    /\ \A k \in 1..Len(pubQueue) : pubQueue[k] \notin pubBatch
    /\ \A r \in Publishing :
          /\ pc[r] \in {"publishing", "done"}
          /\ \A o \in fresh[r] : balance[o] = 1 /\ published[o] = 0
    /\ \A r \in Requests : \A o \in fresh[r] :
          /\ pc[r] \in Unlogged \cup {"detached", "applying", "committing"} =>
                published[o] = 0
          /\ pc[r] \in {"persisting", "waking"} => published[o] = 1

OkInv == OkIsDurable /\ \A r \in Requests : answer[r] = "ok" => pc[r] = "done"

DInv ==
    /\ IInv
    /\ AnswerInv
    /\ HolderInv
    /\ LogInv
    /\ SettledInv
    /\ ScanInv
    /\ ApplyInv
    /\ PublishInv
    /\ OkInv

-----------------------------------------------------------------------------
(* The inductive invariant behind NoOrphanReservation and SleepersAreSafe,   *)
(* where nobody hangs up and the index can be read.                          *)

\* No handler leaves its reservations behind.
Gentle == "cancel" \notin Faults /\ "diskRead" \notin Faults

\* r still has its reservation of identifier i, and the loop that will release or
\* commit it has the shard ahead.
StillHolds(r, i) ==
    /\ pc[r] \in {"reserving", "yielding", "refusing", "logging", "applying",
                 "committing", "aborting"}
    /\ pc[r] \in {"yielding", "refusing", "committing", "aborting"} =>
          DedupShardOf[i] \in todo[r]

PendingInv ==
    \A i \in Ids : memory[i].kind = "pending" => StillHolds(memory[i].by, i)

\* h has yet to call notify_waiters: its rollback does in any case, finish_batch
\* if it has collected h's Notify or has still to collect it.
WillNotify(h) ==
    \/ pc[h] \in {"yielding", "refusing"}
    \/ /\ pc[h] \in {"committing", "publishing", "persisting", "waking", "aborting"}
       /\ h \in wakes[h]
    \/ \E i \in Ids : memory[i].kind = "pending" /\ memory[i].by = h

WakeInv ==
    /\ PendingInv
    /\ \A q \in Requests : waitOn[q] # NoReq => WillNotify(waitOn[q])
=============================================================================
