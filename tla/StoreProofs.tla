----------------------------- MODULE StoreProofs -----------------------------
(* Store keeps what it promises its clients, for every set of requests,      *)
(* identifiers, shards, batches and faults: type correctness and AtMostOnce, *)
(* the inductive invariant DInv and the safety properties that follow from   *)
(* it, and the step from Store to Ledger.                                    *)
EXTENDS Store, SequenceTheorems, FiniteSetTheorems, TLAPS

-----------------------------------------------------------------------------
(* Type correctness *)

\* The three kinds of dedup entries are entries.
LEMMA EntryTypes ==
    /\ Vacant \in Entries
    /\ \A q \in Fps, r \in Requests : Pending(q, r) \in Entries
    /\ \A q \in Fps : Committed(q) \in Entries
  BY DEF Vacant, Pending, Committed, Entries

\* A reservation is not an absent entry.
LEMMA PendingIsNotVacant == \A e, r : Pending(e, r) # Vacant
  BY DEF Pending, Vacant

\* An operation is its identifier and its content.
LEMMA SameOperation ==
    ASSUME NEW o \in Ops, NEW p \in Ops, o.id = p.id, o.fp = p.fp
    PROVE  o = p
  BY DEF Ops

\* Whoever an entry names is a request, or nobody.
LEMMA EntryOwner == \A e \in Entries : e.by \in Requests \cup {NoReq}
  BY DEF Entries, Vacant

\* A pending entry of the memory index is a reservation: a content and a holder.
LEMMA PendingEntry ==
    ASSUME TypeOK, NEW i \in Ids, memory[i].kind = "pending"
    PROVE  /\ memory[i].fp \in Fps /\ memory[i].by \in Requests
           /\ memory[i] = Pending(memory[i].fp, memory[i].by)
  BY DEF TypeOK, Entries, Vacant, Pending

\* The state shards a batch is spread over are state shards of fingerprints.
LEMMA ShardsType ==
    ASSUME NEW ops \in SUBSET Ops
    PROVE  ShardsOf(ops) \in SUBSET Nat
  BY StoreAssumption DEF ShardsOf, Ops

\* Looking up the content of an identifier in a set of operations gives a content.
LEMMA FpInType ==
    ASSUME NEW ops \in SUBSET Ops, NEW i \in IdsOf(ops)
    PROVE  FpIn(ops, i) \in Fps /\ [id |-> i, fp |-> FpIn(ops, i)] \in ops
<1>1. PICK o \in ops : o.id = i
  BY DEF IdsOf
<1>2. o.fp \in Fps /\ [id |-> i, fp |-> o.fp] = o
  BY <1>1 DEF Ops
<1>. QED
  BY <1>2 DEF FpIn

\* Inserting reservations keeps the memory index well formed.
LEMMA ReserveType ==
    ASSUME TypeOK, NEW r \in Requests, NEW taken \in SUBSET Ops, Reserve(r, taken)
    PROVE  /\ memory' \in [Ids -> Entries]
           /\ fresh' \in [Requests -> SUBSET Ops]
<1>1. \A i \in IdsOf(taken) : Pending(FpIn(taken, i), r) \in Entries
  BY FpInType, EntryTypes
<1>. QED
  BY <1>1 DEF TypeOK, Reserve

\* The store starts with well-formed variables.
LEMMA InitTypeOK == Init => TypeOK
  BY EntryTypes, FS_EmptySet DEF Init, TypeOK, Places, Replies

\* No step of a handler, a shard, the publisher or the persister spoils a type.
LEMMA TypeStep == TypeOK /\ [Next]_vars => TypeOK'
<1>. SUFFICES ASSUME TypeOK, [Next]_vars PROVE TypeOK'
  OBVIOUS
<1>. USE DEF Goto, Finish, Places, Replies
<1>0. CASE UNCHANGED vars
  BY <1>0 DEF TypeOK, vars
<1>1. ASSUME NEW r \in Requests, NEW ops \in Batches, Submit(r, ops)
      PROVE  TypeOK'
  <2>1. ops \in SUBSET Ops
    BY StoreAssumption
  <2>. QED
    BY <1>1, <2>1, ShardsType DEF TypeOK, Submit, stateVars, pubVars, diskVars
<1>2. ASSUME NEW r \in Requests, NEW s \in DedupShards, ReserveShard(r, s)
      PROVE  TypeOK'
  <2>1. {o \in InShard(batch[r], s) : IsNew(o)} \in SUBSET Ops
    BY DEF TypeOK, InShard
  <2>2. memory' \in [Ids -> Entries] /\ fresh' \in [Requests -> SUBSET Ops]
    BY <1>2, <2>1, ReserveType DEF ReserveShard
  <2>. QED
    BY <1>2, <2>2 DEF TypeOK, ReserveShard, stateVars, pubVars, diskVars
<1>3. ASSUME NEW r \in Requests, NEW s \in DedupShards, NEW o \in batch[r],
             ReserveStops(r, s, o)
      PROVE  TypeOK'
  <2>1. PICK taken \in SUBSET {p \in InShard(batch[r], s) : IsNew(p)} :
          /\ Reserve(r, taken)
          /\ todo' = [todo EXCEPT ![r] = ShardsOf(fresh[r] \cup taken)]
    BY <1>3 DEF ReserveStops
  <2>2. taken \in SUBSET Ops
    BY DEF TypeOK, InShard
  <2>3. memory' \in [Ids -> Entries] /\ fresh' \in [Requests -> SUBSET Ops]
    BY <2>1, <2>2, ReserveType
  <2>4. ShardsOf(fresh[r] \cup taken) \in SUBSET Nat
    BY <2>2, ShardsType DEF TypeOK
  <2>5. memory[o.id].by \in Requests \cup {NoReq}
    <3>1. o.id \in Ids
      BY DEF TypeOK, Ops
    <3>. QED
      BY <3>1, EntryOwner DEF TypeOK
  <2>6. pc' \in [Requests -> Places] /\ waitOn' \in [Requests -> Requests \cup {NoReq}]
    BY <1>3, <2>5 DEF TypeOK, ReserveStops
  <2>. QED
    BY <1>3, <2>1, <2>3, <2>4, <2>6
    DEF TypeOK, ReserveStops, stateVars, pubVars, diskVars
<1>4. ASSUME NEW r \in Requests, ReserveReadFails(r)
      PROVE  TypeOK'
  BY <1>4 DEF TypeOK, ReserveReadFails, stateVars, pubVars, diskVars
<1>5. ASSUME NEW r \in Requests, NEW s \in DedupShards, RollbackShard(r, s)
      PROVE  TypeOK'
  <2>1. memory' \in [Ids -> Entries]
    BY <1>5, EntryTypes DEF TypeOK, RollbackShard
  <2>. QED
    BY <1>5, <2>1 DEF TypeOK, RollbackShard, stateVars, pubVars, diskVars
<1>6. ASSUME NEW r \in Requests, RollbackDone(r)
      PROVE  TypeOK'
  BY <1>6 DEF TypeOK, RollbackDone, Notify, stateVars, pubVars, diskVars
<1>7. ASSUME NEW r \in Requests, Retry(r)
      PROVE  TypeOK'
  BY <1>7, ShardsType DEF TypeOK, Retry, stateVars, pubVars, diskVars
<1>8. ASSUME NEW r \in Requests, AnswerDuplicates(r) \/ Replicated(r)
      PROVE  TypeOK'
  BY <1>8 DEF TypeOK, AnswerDuplicates, Replicated, stateVars, pubVars, diskVars
<1>9. ASSUME NEW r \in Requests, ReplicationFails(r) \/ LogFails(r)
      PROVE  TypeOK'
  <2>1. StartAbort(r)
    BY <1>9 DEF ReplicationFails, LogFails
  <2>2. ShardsOf(fresh[r]) \in SUBSET Nat
    BY ShardsType DEF TypeOK
  <2>. QED
    BY <2>1, <2>2 DEF TypeOK, StartAbort, stateVars, pubVars, diskVars
<1>10. ASSUME NEW r \in Requests, AppendLog(r)
       PROVE  TypeOK'
  <2>1. {StateShardOf[o.fp] : o \in fresh[r]} \in SUBSET Nat
    BY StoreAssumption DEF TypeOK, Ops
  <2>. QED
    BY <1>10, <2>1 DEF TypeOK, AppendLog, pubVars, diskVars
<1>11. ASSUME NEW r \in Requests, NEW s \in StateShards, ApplyShard(r, s)
       PROVE  TypeOK'
  BY <1>11 DEF TypeOK, ApplyShard, reqVars, pubVars, diskVars
<1>12. ASSUME NEW r \in Requests, Applied(r)
       PROVE  TypeOK'
  BY <1>12, ShardsType DEF TypeOK, Applied, stateVars, pubVars, diskVars
<1>13. ASSUME NEW r \in Requests, NEW s \in DedupShards, CommitShard(r, s)
       PROVE  TypeOK'
  <2>. DEFINE held == Held(IdsOf(InShard(fresh[r], s)))
  <2>1. held \subseteq Ids /\ \A i \in held : memory[i].kind = "pending"
    BY DEF TypeOK, Held, IdsOf, InShard, Ops
  <2>2. \A i \in held : memory[i].fp \in Fps /\ memory[i].by \in Requests
    BY <2>1, PendingEntry
  <2>3. {[id |-> i, fp |-> memory[i].fp] : i \in held} \in SUBSET Ops
    BY <2>1, <2>2 DEF Ops
  <2>4. {memory[i].by : i \in held} \in SUBSET (Requests \cup {NoReq})
    BY <2>2
  <2>5. memory' \in [Ids -> Entries]
    BY <1>13, <2>1, <2>2, EntryTypes DEF TypeOK, CommitShard
  <2>6. harvest' \in [Requests -> SUBSET Ops]
    BY <1>13, <2>3 DEF TypeOK, CommitShard
  <2>7. wakes' \in [Requests -> SUBSET (Requests \cup {NoReq})]
    BY <1>13, <2>4 DEF TypeOK, CommitShard
  <2>. QED
    BY <1>13, <2>5, <2>6, <2>7 DEF TypeOK, CommitShard, stateVars, pubVars, diskVars
<1>14. ASSUME NEW r \in Requests, NEW s \in DedupShards, AbortShard(r, s)
       PROVE  TypeOK'
  <2>. DEFINE held == Held(IdsOf(InShard(fresh[r], s)))
  <2>1. \A i \in held : memory[i].by \in Requests
    BY PendingEntry DEF TypeOK, Held, IdsOf, InShard, Ops
  <2>2. {memory[i].by : i \in held} \in SUBSET (Requests \cup {NoReq})
    BY <2>1
  <2>3. wakes' \in [Requests -> SUBSET (Requests \cup {NoReq})]
    BY <1>14, <2>2 DEF TypeOK, AbortShard
  <2>4. memory' \in [Ids -> Entries]
    BY <1>14, EntryTypes DEF TypeOK, AbortShard
  <2>. QED
    BY <1>14, <2>3, <2>4 DEF TypeOK, AbortShard, stateVars, pubVars, diskVars
<1>15. ASSUME NEW r \in Requests, SendPublish(r)
       PROVE  TypeOK'
  <2>1. Append(pubQueue, r) \in Seq(Requests)
    BY AppendProperties DEF TypeOK
  <2>. QED
    BY <1>15, <2>1 DEF TypeOK, SendPublish, stateVars, diskVars
<1>16. ASSUME NEW r \in Requests, SendPersist(r)
       PROVE  TypeOK'
  <2>1. Append(persistQueue, harvest[r]) \in Seq(SUBSET Ops)
    BY AppendProperties DEF TypeOK
  <2>2. persistQueue' \in Seq(SUBSET Ops)
    BY <1>16, <2>1 DEF TypeOK, SendPersist
  <2>. QED
    BY <1>16, <2>2 DEF TypeOK, SendPersist, stateVars, pubVars
<1>17. ASSUME NEW r \in Requests, Wake(r)
       PROVE  TypeOK'
  BY <1>17 DEF TypeOK, Wake, Notify, stateVars, pubVars, diskVars
<1>18. ASSUME NEW r \in Requests, Cancel(r)
       PROVE  TypeOK'
  BY <1>18 DEF TypeOK, Cancel, pubVars, diskVars
<1>19. ASSUME NEW r \in Requests, DetachedAppend(r)
       PROVE  TypeOK'
  BY <1>19 DEF TypeOK, DetachedAppend, pubVars, diskVars
<1>20. CASE PublishTake
  <2>1. Head(pubQueue) \in Requests /\ Tail(pubQueue) \in Seq(Requests)
    BY <1>20, HeadTailProperties DEF TypeOK, PublishTake
  <2>2. IsFiniteSet(pubBatch \cup {Head(pubQueue)})
    BY FS_AddElement DEF TypeOK
  <2>. QED
    BY <1>20, <2>1, <2>2 DEF TypeOK, PublishTake, reqVars, stateVars, diskVars
<1>21. CASE Publish
  <2>1. \A o \in Ops : Carried(o) \in Nat
    BY FS_Subset, FS_CardinalityType DEF TypeOK, Carried
  <2>2. published' \in [Ops -> Nat]
    BY <1>21, <2>1 DEF TypeOK, Publish
  <2>3. pc' \in [Requests -> Places]
    BY <1>21 DEF TypeOK, Publish
  <2>4. IsFiniteSet({})
    BY FS_EmptySet
  <2>. QED
    BY <1>21, <2>2, <2>3, <2>4 DEF TypeOK, Publish, stateVars, diskVars
<1>22. CASE PersistTake
  <2>1. Head(persistQueue) \in SUBSET Ops /\ Tail(persistQueue) \in Seq(SUBSET Ops)
    BY <1>22, HeadTailProperties DEF TypeOK, PersistTake
  <2>. QED
    BY <1>22, <2>1 DEF TypeOK, PersistTake, reqVars, stateVars, pubVars
<1>23. CASE PersistInsert
  <2>1. \A i \in IdsOf(persistBatch) : FpIn(persistBatch, i) \in Fps
    BY FpInType DEF TypeOK
  <2>. QED
    BY <1>23, <2>1 DEF TypeOK, PersistInsert, reqVars, stateVars, pubVars
<1>24. CASE PersistFails
  BY <1>24 DEF TypeOK, PersistFails, reqVars, stateVars, pubVars
<1>25. ASSUME NEW o \in Ops, Evict(o)
       PROVE  TypeOK'
  BY <1>25, EntryTypes DEF TypeOK, Evict, reqVars, stateVars, pubVars, Ops
<1>. QED
  BY <1>0, <1>1, <1>2, <1>3, <1>4, <1>5, <1>6, <1>7, <1>8, <1>9, <1>10, <1>11,
     <1>12, <1>13, <1>14, <1>15, <1>16, <1>17, <1>18, <1>19, <1>20, <1>21,
     <1>22, <1>23, <1>24, <1>25
  DEF Next, RequestStep, Persister

-----------------------------------------------------------------------------
(* The inductive invariant *)

\* The inductive invariant holds before anything is submitted.
LEMMA InitIInv == Init => IInv
<1>. SUFFICES ASSUME Init PROVE IInv
  OBVIOUS
<1>1. TypeOK
  BY InitTypeOK
<1>2. AtMostOnce
  BY DEF Init, AtMostOnce
<1>. QED
  BY <1>1, <1>2
  DEF Init, IInv, BatchInv, OwnInv, UnappliedInv, JobInv, JobOwnerInv,
      AppliedInv, EvictInv

\* Where a step that changes no reservation may move a request q.
QuietMove(q) ==
    /\ pc'[q] \in Unlogged => pc[q] \in Unlogged
    /\ pc'[q] = "applying" => pc[q] \in Unlogged \cup {"applying"}
    /\ pc'[q] = "committing" => \/ pc[q] = "applying"
                                \/ pc[q] = "committing" /\ todo'[q] \subseteq todo[q]
    /\ pc'[q] \notin {"applying", "done"} =>
         \A o \in fresh[q] : <<q, StateShardOf[o.fp]>> \notin jobs'
    /\ pc'[q] \notin {"idle", "done"} => \A o, p \in batch'[q] : ~Clash(o, p)

\* Steps that leave the reservations and the balances alone preserve IInv.
LEMMA QuietStep ==
    ASSUME IInv, TypeOK', EvictInv',
           UNCHANGED <<memory, fresh, balance>>,
           jobs' \subseteq jobs,
           \A i \in Ids : disk[i] # NoFp => disk'[i] # NoFp,
           \A q \in Requests : QuietMove(q)
    PROVE  IInv'
<1>1. BatchInv'
  BY DEF IInv, BatchInv, QuietMove
<1>2. OwnInv'
  BY DEF IInv, OwnInv, QuietMove
<1>3. UnappliedInv'
  BY DEF IInv, UnappliedInv, Unapplied, QuietMove
<1>4. JobInv'
  BY DEF IInv, JobInv, Unapplied, QuietMove
<1>5. JobOwnerInv'
  <2>. SUFFICES ASSUME NEW j \in jobs'
       PROVE  /\ pc'[j[1]] \in {"applying", "done"}
              /\ j[2] \in {StateShardOf[o.fp] : o \in fresh[j[1]]}
    BY DEF JobOwnerInv
  <2>1. j \in jobs /\ j[1] \in Requests /\ j = <<j[1], j[2]>>
    BY DEF IInv, TypeOK
  <2>2. PICK o \in fresh[j[1]] : j[2] = StateShardOf[o.fp]
    BY <2>1 DEF IInv, JobOwnerInv
  <2>. QED
    BY <2>1, <2>2 DEF QuietMove
<1>6. AppliedInv'
  BY DEF IInv, AppliedInv, Ops
<1>7. AtMostOnce'
  BY DEF IInv, AtMostOnce
<1>. QED
  BY <1>1, <1>2, <1>3, <1>4, <1>5, <1>6, <1>7 DEF IInv

\* The identifier of an operation nobody knows has touched no balance.
LEMMA NewIsUnapplied ==
    ASSUME IInv, NEW o \in Ops, IsNew(o)
    PROVE  Unapplied(o.id)
<1>. SUFFICES ASSUME NEW p \in Ops, p.id = o.id
              PROVE  balance[p] = 0
  BY DEF Unapplied
<1>1. ~(balance[p] > 0)
  BY DEF IInv, AppliedInv, IsNew
<1>2. balance[p] \in Nat
  BY DEF IInv, TypeOK
<1>. QED
  BY <1>1, <1>2

\* Two operations with one identifier in a set of new ones are the same one.
LEMMA OneContent ==
    ASSUME NEW ops \in SUBSET Ops, \A o, p \in ops : ~Clash(o, p), NEW o \in ops
    PROVE  FpIn(ops, o.id) = o.fp
<1>1. o.id \in IdsOf(ops)
  BY DEF IdsOf
<1>2. [id |-> o.id, fp |-> FpIn(ops, o.id)] \in ops
  BY <1>1, FpInType
<1>. QED
  BY <1>2 DEF Clash

\* Reserving new operations of its own batch preserves IInv, whether the scan
\* goes on (ReserveShard) or stops (ReserveStops).
LEMMA ReserveStep ==
    ASSUME IInv, TypeOK',
           NEW r \in Requests, pc[r] = "reserving",
           NEW taken \in SUBSET {o \in batch[r] : IsNew(o)}, Reserve(r, taken),
           pc' = pc \/ pc' = [pc EXCEPT ![r] = "yielding"]
                    \/ pc' = [pc EXCEPT ![r] = "refusing"],
           \A q \in Requests : q # r => todo'[q] = todo[q],
           UNCHANGED <<batch, jobs, balance, disk, persistBatch, persistPhase>>
    PROVE  IInv'
<1>. USE DEF IInv
<1>1. /\ \A q \in Requests \ {r} : pc'[q] = pc[q] /\ fresh'[q] = fresh[q]
      /\ pc'[r] \in {"reserving", "yielding", "refusing"}
      /\ fresh'[r] = fresh[r] \cup taken
  BY DEF TypeOK, Reserve
<1>2. taken \in SUBSET Ops /\ fresh[r] \in SUBSET Ops
  BY DEF TypeOK
<1>3. \A o, p \in taken : ~Clash(o, p)
  BY DEF BatchInv
<1>4. \A o \in taken : memory'[o.id] = Pending(o.fp, r) /\ Unapplied(o.id)
  <2>. SUFFICES ASSUME NEW o \in taken
                PROVE  memory'[o.id] = Pending(o.fp, r) /\ Unapplied(o.id)
    OBVIOUS
  <2>1. o \in Ops /\ o.id \in Ids /\ o.id \in IdsOf(taken)
    BY <1>2 DEF Ops, IdsOf
  <2>2. FpIn(taken, o.id) = o.fp
    BY <1>2, <1>3, OneContent
  <2>. QED
    BY <2>1, <2>2, NewIsUnapplied DEF Reserve
<1>5. \A i \in Ids : memory[i] # Vacant => memory'[i] = memory[i]
  <2>. SUFFICES ASSUME NEW i \in Ids, memory[i] # Vacant, i \in IdsOf(taken)
                PROVE  FALSE
    BY DEF Reserve
  <2>. QED
    BY DEF IdsOf, IsNew
<1>6. \A q \in Requests : \A o \in fresh[q], e \in Fps :
        o.id \in Ids /\ Pending(e, q) # Vacant
  BY DEF TypeOK, Ops, Pending, Vacant
<1>7. BatchInv'
  BY <1>1 DEF BatchInv
<1>8. OwnInv'
  <2>. SUFFICES ASSUME NEW q \in Requests, NEW o \in fresh'[q],
                       \/ pc'[q] \in Unlogged \cup {"applying"}
                       \/ pc'[q] = "committing" /\ DedupShardOf[o.id] \in todo'[q]
                PROVE  memory'[o.id] = Pending(o.fp, q)
    BY DEF OwnInv
  <2>1. CASE q = r /\ o \in taken
    BY <1>4, <2>1
  <2>2. CASE ~(q = r /\ o \in taken)
    <3>1. o \in fresh[q] /\ o.fp \in Fps /\ o.id \in Ids
      BY <1>1, <1>2, <2>2 DEF TypeOK, Ops
    <3>2. memory[o.id] = Pending(o.fp, q)
      BY <1>1, <3>1 DEF OwnInv, Unlogged
    <3>. QED
      BY <1>5, <1>6, <3>1, <3>2
  <2>. QED
    BY <2>1, <2>2
<1>9. UnappliedInv'
  BY <1>1, <1>4 DEF UnappliedInv, Unapplied, Unlogged
<1>10. JobInv'
  <2>. SUFFICES ASSUME NEW q \in Requests, NEW o \in fresh'[q],
                       <<q, StateShardOf[o.fp]>> \in jobs
                PROVE  /\ pc'[q] \in {"applying", "done"}
                       /\ memory'[o.id] = Pending(o.fp, q)
                       /\ Unapplied(o.id)
    BY DEF JobInv, Unapplied
  <2>1. pc[q] \in {"applying", "done"} /\ q # r
    BY DEF JobOwnerInv
  <2>2. o \in fresh[q] /\ o.fp \in Fps /\ o.id \in Ids
    BY <1>1, <2>1 DEF TypeOK, Ops
  <2>3. memory[o.id] = Pending(o.fp, q) /\ Unapplied(o.id)
    BY <2>2 DEF JobInv
  <2>. QED
    BY <1>1, <1>5, <1>6, <2>1, <2>2, <2>3
<1>11. JobOwnerInv'
  <2>1. \A j \in jobs : j[1] \in Requests /\ j[1] # r
    BY DEF TypeOK, JobOwnerInv
  <2>. QED
    BY <1>1, <2>1 DEF JobOwnerInv
<1>12. AppliedInv'
  BY <1>5 DEF AppliedInv, Ops
<1>13. EvictInv' /\ AtMostOnce'
  BY DEF EvictInv, AtMostOnce
<1>. QED
  BY <1>7, <1>8, <1>9, <1>10, <1>11, <1>12, <1>13

\* Two requests never hold one identifier.
LEMMA OneHolder ==
    ASSUME NEW q \in Requests, NEW r \in Requests, NEW e, NEW c,
           Pending(e, q) = Pending(c, r)
    PROVE  q = r /\ e = c
  BY DEF Pending

\* Releasing unlogged reservations of a request, or leaving the balances alone
\* while an entry changes that nobody's claim mentions, preserves IInv.
LEMMA ReleaseStep ==
    ASSUME IInv, TypeOK',
           NEW r \in Requests, pc[r] \in {"yielding", "refusing", "aborting"},
           NEW s,
           fresh' = [fresh EXCEPT ![r] = {o \in @ : DedupShardOf[o.id] # s}],
           todo' = [todo EXCEPT ![r] = @ \ {s}],
           \A i \in Ids : i \notin IdsOf(InShard(fresh[r], s)) => memory'[i] = memory[i],
           UNCHANGED <<pc, batch, jobs, balance, disk, persistBatch, persistPhase>>
    PROVE  IInv'
<1>. USE DEF IInv
<1>1. /\ \A q \in Requests : fresh'[q] \subseteq fresh[q] /\ todo'[q] \subseteq todo[q]
      /\ \A q \in Requests : q # r => fresh'[q] = fresh[q]
      /\ \A o \in fresh'[r] : DedupShardOf[o.id] # s
  BY DEF TypeOK
<1>2. \A o \in fresh[r] : /\ memory[o.id] = Pending(o.fp, r)
                          /\ Unapplied(o.id)
  BY DEF OwnInv, UnappliedInv, Unlogged
<1>3. ASSUME NEW q \in Requests, NEW o \in fresh'[q], memory[o.id] = Pending(o.fp, q)
      PROVE  memory'[o.id] = Pending(o.fp, q)
  <2>1. o.id \in Ids
    BY <1>1 DEF TypeOK, Ops
  <2>2. SUFFICES ASSUME o.id \in IdsOf(InShard(fresh[r], s))
                 PROVE  FALSE
    BY <1>3, <2>1
  <2>3. PICK p \in fresh[r] : p.id = o.id /\ DedupShardOf[p.id] = s
    BY <2>2 DEF IdsOf, InShard
  <2>4. q = r
    BY <1>2, <1>3, <2>3, OneHolder
  <2>. QED
    BY <1>1, <2>3, <2>4
<1>4. BatchInv'
  BY DEF BatchInv
<1>5. OwnInv'
  BY <1>1, <1>3 DEF OwnInv
<1>6. UnappliedInv'
  BY <1>1 DEF UnappliedInv, Unapplied
<1>7. JobInv'
  BY <1>1, <1>3 DEF JobInv, Unapplied
<1>8. JobOwnerInv'
  <2>1. \A j \in jobs : j[1] \in Requests /\ j[1] # r
    BY DEF TypeOK, JobOwnerInv
  <2>. QED
    BY <1>1, <2>1 DEF JobOwnerInv
<1>9. AppliedInv'
  <2>. SUFFICES ASSUME NEW o \in Ops, balance[o] > 0
                PROVE  memory'[o.id] # Vacant \/ disk[o.id] # NoFp
    BY DEF AppliedInv
  <2>1. o.id \in Ids
    BY DEF Ops
  <2>2. SUFFICES ASSUME o.id \in IdsOf(InShard(fresh[r], s))
                 PROVE  FALSE
    BY <2>1 DEF AppliedInv
  <2>3. PICK p \in fresh[r] : p.id = o.id
    BY <2>2 DEF IdsOf, InShard
  <2>4. balance[o] = 0
    BY <1>2, <2>3 DEF Unapplied
  <2>. QED
    BY <2>4
<1>10. EvictInv' /\ AtMostOnce'
  BY DEF EvictInv, AtMostOnce
<1>. QED
  BY <1>4, <1>5, <1>6, <1>7, <1>8, <1>9, <1>10

\* Pending entries that CommitShard finds are the request's own.
LEMMA CommitStep ==
    ASSUME IInv, TypeOK', NEW r \in Requests, NEW s, CommitShard(r, s)
    PROVE  IInv'
<1>. USE DEF IInv
<1>. DEFINE held == Held(IdsOf(InShard(fresh[r], s)))
<1>1. /\ pc[r] = "committing" /\ s \in todo[r]
      /\ UNCHANGED <<pc, batch, fresh, jobs, balance, disk, persistBatch, persistPhase>>
      /\ memory' = [i \in Ids |-> IF i \in held THEN Committed(memory[i].fp) ELSE memory[i]]
      /\ todo' = [todo EXCEPT ![r] = @ \ {s}]
  BY DEF CommitShard, IsNextShard, stateVars, diskVars
<1>2. \A i \in held : \E p \in fresh[r] :
         p.id = i /\ DedupShardOf[i] = s /\ memory[i] = Pending(p.fp, r)
  BY <1>1 DEF Held, IdsOf, InShard, OwnInv
<1>3. \A q \in Requests : todo'[q] \subseteq todo[q] /\ (q # r => todo'[q] = todo[q])
  BY <1>1 DEF TypeOK
<1>4. ASSUME NEW q \in Requests, NEW o \in fresh[q], memory[o.id] = Pending(o.fp, q),
             q = r => DedupShardOf[o.id] # s
      PROVE  memory'[o.id] = Pending(o.fp, q)
  <2>1. o.id \in Ids
    BY DEF TypeOK, Ops
  <2>2. o.id \notin held
    BY <1>2, <1>4, OneHolder
  <2>. QED
    BY <1>1, <1>4, <2>1, <2>2
<1>5. BatchInv'
  BY <1>1 DEF BatchInv
<1>6. OwnInv'
  <2>. SUFFICES ASSUME NEW q \in Requests, NEW o \in fresh[q],
                       \/ pc[q] \in Unlogged \cup {"applying"}
                       \/ pc[q] = "committing" /\ DedupShardOf[o.id] \in todo'[q]
                PROVE  memory'[o.id] = Pending(o.fp, q)
    BY <1>1 DEF OwnInv
  <2>1. memory[o.id] = Pending(o.fp, q)
    BY <1>3 DEF OwnInv
  <2>2. q = r => DedupShardOf[o.id] # s
    BY <1>1 DEF Unlogged, TypeOK
  <2>. QED
    BY <1>4, <2>1, <2>2
<1>7. UnappliedInv'
  BY <1>1 DEF UnappliedInv, Unapplied
<1>8. JobInv'
  <2>. SUFFICES ASSUME NEW q \in Requests, NEW o \in fresh[q],
                       <<q, StateShardOf[o.fp]>> \in jobs
                PROVE  /\ pc[q] \in {"applying", "done"}
                       /\ memory'[o.id] = Pending(o.fp, q)
                       /\ Unapplied(o.id)
    BY <1>1 DEF JobInv, Unapplied
  <2>. QED
    BY <1>1, <1>4 DEF JobInv
<1>9. JobOwnerInv'
  BY <1>1 DEF JobOwnerInv
<1>10. AppliedInv'
  <2>1. \A i \in Ids : memory[i] # Vacant => memory'[i] # Vacant
    BY <1>1 DEF Committed, Vacant
  <2>. QED
    BY <1>1, <2>1 DEF AppliedInv, Ops
<1>11. EvictInv' /\ AtMostOnce'
  BY <1>1 DEF EvictInv, AtMostOnce
<1>. QED
  BY <1>5, <1>6, <1>7, <1>8, <1>9, <1>10, <1>11

\* Sending the commands: none was outstanding, none of the operations applied.
LEMMA AppendStep ==
    ASSUME IInv, TypeOK', NEW r \in Requests, AppendLog(r)
    PROVE  IInv'
<1>. USE DEF IInv
<1>1. /\ pc[r] = "logging" /\ pc' = [pc EXCEPT ![r] = "applying"]
      /\ jobs' = jobs \cup ({r} \X {StateShardOf[o.fp] : o \in fresh[r]})
      /\ UNCHANGED <<batch, todo, fresh, memory, balance, disk, persistBatch, persistPhase>>
  BY DEF AppendLog, Goto, diskVars
<1>2. \A q \in Requests : q # r => pc'[q] = pc[q]
  BY <1>1 DEF TypeOK
<1>3. pc'[r] = "applying"
  BY <1>1 DEF TypeOK
<1>4. \A o \in fresh[r] : memory[o.id] = Pending(o.fp, r) /\ Unapplied(o.id)
  BY <1>1 DEF OwnInv, UnappliedInv, Unlogged
<1>5. BatchInv'
  BY <1>1, <1>2 DEF BatchInv
<1>6. OwnInv'
  BY <1>1, <1>2, <1>4 DEF OwnInv
<1>7. UnappliedInv'
  BY <1>1, <1>2, <1>3 DEF UnappliedInv, Unapplied, Unlogged
<1>8. JobInv'
  BY <1>1, <1>2, <1>3, <1>4 DEF JobInv, Unapplied
<1>9. JobOwnerInv'
  BY <1>1, <1>2, <1>3 DEF JobOwnerInv, TypeOK
<1>10. AppliedInv' /\ EvictInv' /\ AtMostOnce'
  BY <1>1 DEF AppliedInv, EvictInv, AtMostOnce
<1>. QED
  BY <1>5, <1>6, <1>7, <1>8, <1>9, <1>10

\* A state shard's step: every operation of the command goes from 0 to 1, and
\* nobody else has a claim on its identifier.
LEMMA ApplyStep ==
    ASSUME IInv, TypeOK', NEW r \in Requests, NEW s, ApplyShard(r, s)
    PROVE  IInv'
<1>. USE DEF IInv
<1>. DEFINE mine == {o \in fresh[r] : StateShardOf[o.fp] = s}
<1>1. /\ <<r, s>> \in jobs /\ jobs' = jobs \ {<<r, s>>}
      /\ UNCHANGED <<pc, batch, todo, fresh, memory, disk, persistBatch, persistPhase>>
      /\ balance' = [o \in Ops |-> IF o \in mine THEN balance[o] + 1 ELSE balance[o]]
  BY DEF ApplyShard, reqVars, diskVars
<1>2. \A o \in mine : memory[o.id] = Pending(o.fp, r) /\ Unapplied(o.id)
  BY <1>1 DEF JobInv
<1>3. pc[r] \in {"applying", "done"}
  BY <1>1 DEF JobOwnerInv
<1>4. ASSUME NEW q \in Requests, NEW o \in fresh[q], memory[o.id] = Pending(o.fp, q),
             Unapplied(o.id), q = r => o \notin mine
      PROVE  Unapplied(o.id)'
  <2>. SUFFICES ASSUME NEW p \in Ops, p.id = o.id, p \in mine
                PROVE  FALSE
    BY <1>1, <1>4 DEF Unapplied
  <2>1. q = r /\ o.fp = p.fp
    BY <1>2, <1>4, OneHolder
  <2>2. o = p
    BY <2>1, SameOperation DEF TypeOK
  <2>. QED
    BY <1>4, <2>1, <2>2
<1>5. BatchInv' /\ OwnInv' /\ EvictInv'
  BY <1>1 DEF BatchInv, OwnInv, EvictInv
<1>6. UnappliedInv'
  <2>. SUFFICES ASSUME NEW q \in Requests, NEW o \in fresh[q], pc[q] \in Unlogged
                PROVE  Unapplied(o.id)'
    BY <1>1 DEF UnappliedInv
  <2>1. q # r
    BY <1>3 DEF Unlogged
  <2>. QED
    BY <1>4, <2>1 DEF OwnInv, UnappliedInv
<1>7. JobInv'
  <2>. SUFFICES ASSUME NEW q \in Requests, NEW o \in fresh[q],
                       <<q, StateShardOf[o.fp]>> \in jobs'
                PROVE  /\ pc[q] \in {"applying", "done"}
                       /\ memory[o.id] = Pending(o.fp, q)
                       /\ Unapplied(o.id)'
    BY <1>1 DEF JobInv
  <2>1. q = r => o \notin mine
    BY <1>1
  <2>. QED
    BY <1>1, <1>4, <2>1 DEF JobInv
<1>8. JobOwnerInv'
  BY <1>1 DEF JobOwnerInv
<1>9. AppliedInv'
  <2>. SUFFICES ASSUME NEW o \in Ops, balance'[o] > 0
                PROVE  memory[o.id] # Vacant \/ disk[o.id] # NoFp
    BY <1>1 DEF AppliedInv
  <2>1. CASE o \in mine
    BY <1>2, <2>1, PendingIsNotVacant
  <2>2. CASE o \notin mine
    BY <1>1, <2>2 DEF AppliedInv
  <2>. QED
    BY <2>1, <2>2
<1>10. AtMostOnce'
  <2>1. \A o \in mine : o \in Ops
    BY DEF TypeOK
  <2>2. \A o \in mine, p \in Ops : p.id = o.id => balance[p] = 0
    BY <1>2 DEF Unapplied
  <2>3. \A o \in Ops : balance[o] \in Nat
    BY DEF TypeOK
  <2>4. ASSUME NEW o \in mine, NEW p \in mine, p.id = o.id
        PROVE  p = o
    BY <1>2, <2>1, <2>4, OneHolder, SameOperation
  <2>5. \A o \in Ops : balance'[o] <= 1
    BY <1>1, <2>2, <2>3 DEF AtMostOnce
  <2>6. \A o, p \in Ops : Clash(o, p) => balance'[o] + balance'[p] <= 1
    BY <1>1, <2>2, <2>3, <2>4 DEF AtMostOnce, Clash
  <2>. QED
    BY <2>5, <2>6 DEF AtMostOnce
<1>. QED
  BY <1>5, <1>6, <1>7, <1>8, <1>9, <1>10

\* Evicting a committed entry the disk index has.
LEMMA EvictStep ==
    ASSUME IInv, TypeOK', NEW o \in Ops, Evict(o)
    PROVE  IInv'
<1>. USE DEF IInv
<1>1. /\ persistPhase = "evicting" /\ o \in persistBatch /\ o.id \in Ids
      /\ persistBatch' \subseteq persistBatch
      /\ UNCHANGED <<pc, batch, todo, fresh, jobs, balance, disk>>
      /\ \A i \in Ids :
           \/ memory'[i] = memory[i]
           \/ i = o.id /\ memory[i] = Committed(o.fp) /\ memory'[i] = Vacant
  <2>1. \A i \in Ids : memory'[i] = IF i = o.id /\ memory[i] = Committed(o.fp)
                                      THEN Vacant ELSE memory[i]
    BY DEF Evict, TypeOK
  <2>2. o.id \in Ids
    BY DEF Ops
  <2>3. /\ persistPhase = "evicting" /\ o \in persistBatch
        /\ persistBatch' \subseteq persistBatch
        /\ UNCHANGED <<reqVars, stateVars, disk>>
    BY DEF Evict
  <2>4. UNCHANGED <<pc, batch, todo, fresh, jobs, balance, disk>>
    BY <2>3 DEF reqVars, stateVars
  <2>5. \A i \in Ids :
          \/ memory'[i] = memory[i]
          \/ i = o.id /\ memory[i] = Committed(o.fp) /\ memory'[i] = Vacant
    BY <2>1
  <2>. QED
    BY <2>2, <2>3, <2>4, <2>5
<1>2. \A q \in Requests : \A p \in fresh[q] :
        memory[p.id] = Pending(p.fp, q) => memory'[p.id] = Pending(p.fp, q)
  BY <1>1 DEF TypeOK, Ops, Pending, Committed
<1>3. BatchInv' /\ UnappliedInv' /\ JobOwnerInv' /\ AtMostOnce'
  BY <1>1 DEF BatchInv, UnappliedInv, Unapplied, JobOwnerInv, AtMostOnce
<1>4. OwnInv'
  BY <1>1, <1>2 DEF OwnInv
<1>5. JobInv'
  BY <1>1, <1>2 DEF JobInv, Unapplied
<1>6. AppliedInv'
  BY <1>1 DEF AppliedInv, EvictInv, Ops
<1>7. EvictInv'
  BY <1>1 DEF EvictInv
<1>. QED
  BY <1>3, <1>4, <1>5, <1>6, <1>7

-----------------------------------------------------------------------------
(* Every step preserves the invariant. *)

\* A request that stays where it is makes a quiet move.
LEMMA QuietStay ==
    ASSUME IInv, NEW q \in Requests, jobs' \subseteq jobs,
           pc'[q] = pc[q], todo'[q] \subseteq todo[q], batch'[q] = batch[q]
    PROVE  QuietMove(q)
  BY DEF QuietMove, IInv, BatchInv, JobInv

\* So does one that leaves the places its claims speak of.
LEMMA QuietLeave ==
    ASSUME IInv, NEW q \in Requests, jobs' \subseteq jobs, batch'[q] = batch[q],
           pc[q] \notin {"idle", "applying", "done"},
           \/ pc[q] \in Unlogged
           \/ pc'[q] \notin Unlogged,
           pc'[q] \notin {"applying", "committing"}
    PROVE  QuietMove(q)
  BY DEF QuietMove, IInv, BatchInv, JobInv

\* One request moves, and nothing else that IInv speaks of changes.
LEMMA OneQuietMove ==
    ASSUME IInv, TypeOK', NEW r \in Requests, QuietMove(r),
           NEW place, pc' = [pc EXCEPT ![r] = place],
           \A q \in Requests : q # r => /\ todo'[q] = todo[q]
                                        /\ batch'[q] = batch[q],
           UNCHANGED <<memory, fresh, balance, disk, persistBatch, persistPhase>>,
           jobs' \subseteq jobs
    PROVE  IInv'
<1>1. \A q \in Requests : QuietMove(q)
  BY QuietStay DEF IInv, TypeOK
<1>2. EvictInv'
  BY DEF IInv, EvictInv
<1>. QED
  BY <1>1, <1>2, QuietStep

\* Every step of Next preserves the inductive invariant.
LEMMA IInvStep == IInv /\ [Next]_vars => IInv'
<1>. SUFFICES ASSUME IInv, [Next]_vars PROVE IInv'
  OBVIOUS
<1>0. TypeOK /\ TypeOK'
  BY TypeStep DEF IInv
<1>. USE DEF Goto, Finish
<1>1. CASE UNCHANGED vars
  BY <1>0, <1>1, QuietStep
  DEF QuietMove, vars, IInv, BatchInv, JobInv, EvictInv
<1>2. ASSUME NEW r \in Requests, NEW ops \in Batches, Submit(r, ops)
      PROVE  IInv'
  <2>1. \/ pc' = [pc EXCEPT ![r] = "done"]
        \/ pc' = [pc EXCEPT ![r] = "reserving"] /\ \A o, p \in ops : ~Clash(o, p)
    BY <1>2 DEF Submit
  <2>2. pc[r] = "idle" /\ batch' = [batch EXCEPT ![r] = ops]
        /\ UNCHANGED <<memory, fresh, balance, jobs, disk, persistBatch, persistPhase>>
    BY <1>2 DEF Submit, stateVars, diskVars
  <2>3. \A q \in Requests : q # r => todo'[q] = todo[q] /\ batch'[q] = batch[q]
    BY <1>0, <1>2 DEF TypeOK, Submit
  <2>4. QuietMove(r)
    BY <1>0, <2>1, <2>2 DEF QuietMove, TypeOK, Unlogged, IInv, JobInv
  <2>. QED
    BY <1>0, <2>1, <2>2, <2>3, <2>4, OneQuietMove
<1>3. ASSUME NEW r \in Requests,
             \/ ReserveReadFails(r) \/ RollbackDone(r) \/ Retry(r)
             \/ AnswerDuplicates(r) \/ Replicated(r)
      PROVE  IInv'
  <2>1. PICK place \in {"done", "waiting", "reserving", "logging"} :
          pc' = [pc EXCEPT ![r] = place]
    BY <1>3 DEF ReserveReadFails, RollbackDone, Retry, AnswerDuplicates, Replicated
  <2>2. pc[r] \in {"reserving", "yielding", "refusing", "waiting"}
    BY <1>3 DEF ReserveReadFails, RollbackDone, Retry, AnswerDuplicates, Replicated,
                Reserved
  <2>3. UNCHANGED <<batch, memory, fresh, balance, jobs, disk, persistBatch, persistPhase>>
    BY <1>3 DEF ReserveReadFails, RollbackDone, Retry, AnswerDuplicates, Replicated,
                stateVars, diskVars
  <2>4. \A q \in Requests : q # r => todo'[q] = todo[q]
    BY <1>0, <1>3 DEF ReserveReadFails, RollbackDone, Retry, AnswerDuplicates,
                      Replicated, TypeOK
  <2>5. QuietMove(r)
    BY <1>0, <2>1, <2>2, <2>3, QuietLeave DEF TypeOK, Unlogged
  <2>. QED
    BY <1>0, <2>1, <2>3, <2>4, <2>5, OneQuietMove
<1>4. ASSUME NEW r \in Requests, ReplicationFails(r) \/ LogFails(r)
      PROVE  IInv'
  <2>1. pc[r] \in {"reserving", "logging"} /\ StartAbort(r)
    BY <1>4 DEF ReplicationFails, LogFails, Reserved
  <2>2. /\ pc' = [pc EXCEPT ![r] = "aborting"]
        /\ \A q \in Requests : q # r => todo'[q] = todo[q]
        /\ UNCHANGED <<batch, memory, fresh, balance, jobs, disk, persistBatch, persistPhase>>
    BY <1>0, <2>1 DEF StartAbort, TypeOK, stateVars, diskVars
  <2>3. QuietMove(r)
    BY <1>0, <2>1, <2>2, QuietLeave DEF TypeOK, Unlogged
  <2>. QED
    BY <1>0, <2>2, <2>3, OneQuietMove
<1>5. ASSUME NEW r \in Requests, Applied(r)
      PROVE  IInv'
  <2>1. /\ pc[r] = "applying" /\ pc' = [pc EXCEPT ![r] = "committing"]
        /\ \A o \in fresh[r] : <<r, StateShardOf[o.fp]>> \notin jobs
        /\ \A q \in Requests : q # r => todo'[q] = todo[q]
        /\ UNCHANGED <<batch, memory, fresh, balance, jobs, disk, persistBatch, persistPhase>>
    BY <1>0, <1>5 DEF Applied, TypeOK, stateVars, diskVars
  <2>2. QuietMove(r)
    BY <1>0, <2>1 DEF QuietMove, TypeOK, Unlogged, IInv, BatchInv
  <2>. QED
    BY <1>0, <2>1, <2>2, OneQuietMove
<1>6. ASSUME NEW r \in Requests,
             SendPublish(r) \/ SendPersist(r) \/ Wake(r) \/ DetachedAppend(r)
      PROVE  IInv'
  <2>1. PICK place \in {"publishing", "waking", "done"} :
          pc' = [pc EXCEPT ![r] = place]
    BY <1>6 DEF SendPublish, SendPersist, Wake, DetachedAppend
  <2>2. pc[r] \in {"committing", "persisting", "waking", "aborting", "detached"}
    BY <1>6 DEF SendPublish, SendPersist, Wake, DetachedAppend
  <2>3. UNCHANGED <<batch, todo, memory, fresh, balance, jobs, disk, persistBatch, persistPhase>>
    BY <1>6 DEF SendPublish, SendPersist, Wake, DetachedAppend, stateVars, diskVars
  <2>4. QuietMove(r)
    BY <1>0, <2>1, <2>2, <2>3, QuietLeave DEF TypeOK, Unlogged
  <2>. QED
    BY <1>0, <2>1, <2>3, <2>4, OneQuietMove
<1>7. ASSUME NEW r \in Requests, Cancel(r)
      PROVE  IInv'
  <2>1. PICK place \in {"done", "detached"} :
          /\ pc' = [pc EXCEPT ![r] = place]
          /\ place = "detached" => pc[r] = "logging"
    BY <1>7 DEF Cancel
  <2>2. /\ pc[r] \notin {"idle", "done", "detached"} /\ jobs' \subseteq jobs
        /\ UNCHANGED <<batch, todo, memory, fresh, balance, disk, persistBatch, persistPhase>>
    BY <1>7 DEF Cancel, diskVars
  <2>3. QuietMove(r)
    BY <1>0, <2>1, <2>2 DEF QuietMove, TypeOK, Unlogged, IInv, BatchInv, JobInv
  <2>. QED
    BY <1>0, <2>1, <2>2, <2>3, OneQuietMove
<1>8. CASE PublishTake \/ Publish
  <2>1. /\ UNCHANGED <<batch, todo, memory, fresh, balance, jobs, disk, persistBatch, persistPhase>>
        /\ \A q \in Requests :
             \/ pc'[q] = pc[q]
             \/ pc[q] = "publishing" /\ pc'[q] = "persisting"
    BY <1>0, <1>8 DEF PublishTake, Publish, TypeOK, reqVars, stateVars, diskVars
  <2>2. \A q \in Requests : QuietMove(q)
    BY <1>0, <2>1, QuietStay, QuietLeave DEF Unlogged
  <2>3. EvictInv'
    BY <2>1 DEF IInv, EvictInv
  <2>. QED
    BY <1>0, <2>1, <2>2, <2>3, QuietStep
<1>9. CASE PersistTake \/ PersistInsert \/ PersistFails
  <2>1. UNCHANGED <<pc, batch, todo, memory, fresh, balance, jobs>>
    BY <1>9 DEF PersistTake, PersistInsert, PersistFails, reqVars, stateVars
  <2>2. \A q \in Requests : QuietMove(q)
    BY <1>0, <2>1, QuietStay
  <2>3. ASSUME PersistInsert
        PROVE  /\ \A i \in IdsOf(persistBatch) : disk'[i] # NoFp
               /\ \A i \in Ids : disk[i] # NoFp => disk'[i] # NoFp
    <3>1. \A i \in IdsOf(persistBatch) : i \in Ids /\ FpIn(persistBatch, i) # NoFp
      <4>1. persistBatch \in SUBSET Ops
        BY <1>0 DEF TypeOK
      <4>2. \A i \in IdsOf(persistBatch) : i \in Ids /\ FpIn(persistBatch, i) \in Fps
        BY <4>1, FpInType DEF IdsOf, Ops
      <4>. QED
        BY <4>2, StoreAssumption
    <3>. QED
      BY <2>3, <3>1 DEF PersistInsert
  <2>4. EvictInv'
    BY <1>9, <2>3 DEF PersistTake, PersistInsert, PersistFails, EvictInv, IdsOf
  <2>5. \A i \in Ids : disk[i] # NoFp => disk'[i] # NoFp
    BY <1>9, <2>3 DEF PersistTake, PersistFails
  <2>. QED
    BY <1>0, <2>1, <2>2, <2>4, <2>5, QuietStep
<1>10. ASSUME NEW r \in Requests, NEW s \in DedupShards, ReserveShard(r, s)
       PROVE  IInv'
  <2>1. {o \in InShard(batch[r], s) : IsNew(o)} \in SUBSET {o \in batch[r] : IsNew(o)}
    BY DEF InShard
  <2>2. \A q \in Requests : q # r => todo'[q] = todo[q]
    BY <1>0, <1>10 DEF ReserveShard, TypeOK
  <2>. QED
    BY <1>0, <1>10, <2>1, <2>2, ReserveStep DEF ReserveShard, stateVars, diskVars
<1>11. ASSUME NEW r \in Requests, NEW s \in DedupShards, NEW o \in batch[r],
              ReserveStops(r, s, o)
       PROVE  IInv'
  <2>1. PICK taken \in SUBSET {p \in InShard(batch[r], s) : IsNew(p)} :
          /\ Reserve(r, taken)
          /\ todo' = [todo EXCEPT ![r] = ShardsOf(fresh[r] \cup taken)]
    BY <1>11 DEF ReserveStops
  <2>2. taken \in SUBSET {p \in batch[r] : IsNew(p)}
    BY DEF InShard
  <2>3. \A q \in Requests : q # r => todo'[q] = todo[q]
    BY <1>0, <2>1 DEF TypeOK
  <2>. QED
    BY <1>0, <1>11, <2>1, <2>2, <2>3, ReserveStep DEF ReserveStops, stateVars, diskVars
<1>12. ASSUME NEW r \in Requests, NEW s \in DedupShards,
              RollbackShard(r, s) \/ AbortShard(r, s)
       PROVE  IInv'
  <2>1. /\ pc[r] \in {"yielding", "refusing", "aborting"}
        /\ fresh' = [fresh EXCEPT ![r] = {o \in @ : DedupShardOf[o.id] # s}]
        /\ todo' = [todo EXCEPT ![r] = @ \ {s}]
        /\ \A i \in Ids : i \notin IdsOf(InShard(fresh[r], s)) => memory'[i] = memory[i]
        /\ UNCHANGED <<pc, batch, jobs, balance, disk, persistBatch, persistPhase>>
    BY <1>12 DEF RollbackShard, AbortShard, stateVars, diskVars
  <2>. QED
    BY <1>0, <2>1, ReleaseStep
<1>13. ASSUME NEW r \in Requests, NEW s \in DedupShards, CommitShard(r, s)
       PROVE  IInv'
  BY <1>0, <1>13, CommitStep
<1>14. ASSUME NEW r \in Requests, AppendLog(r)
       PROVE  IInv'
  BY <1>0, <1>14, AppendStep
<1>15. ASSUME NEW r \in Requests, NEW s \in StateShards, ApplyShard(r, s)
       PROVE  IInv'
  BY <1>0, <1>15, ApplyStep
<1>16. ASSUME NEW o \in Ops, Evict(o)
       PROVE  IInv'
  BY <1>0, <1>16, EvictStep
<1>. QED
  BY <1>1, <1>2, <1>3, <1>4, <1>5, <1>6, <1>7, <1>8, <1>9, <1>10, <1>11, <1>12,
     <1>13, <1>14, <1>15, <1>16
  DEF Next, RequestStep, Persister

\* The variables of Store always have the values its code can give them.
THEOREM TypeCorrect == Spec => []TypeOK
<1>1. Init => TypeOK
  BY InitTypeOK
<1>2. TypeOK /\ [Next]_vars => TypeOK'
  BY TypeStep
<1>. QED
  BY <1>1, <1>2, PTL DEF Spec

\* One operation_id changes the balances at most once (ARCHITECTURE.md,
\* invariant 2), however many requests, shards and faults there are.
THEOREM AppliedAtMostOnce == Spec => []AtMostOnce
<1>1. Init => IInv
  BY InitIInv
<1>2. IInv /\ [Next]_vars => IInv'
  BY IInvStep
<1>3. IInv => AtMostOnce
  BY DEF IInv
<1>. QED
  BY <1>1, <1>2, <1>3, PTL DEF Spec

-----------------------------------------------------------------------------
(* The other promises of Store and the step to Ledger: facts used throughout *)

\* Balances stay below two and never fall: what is settled stays so.
LEMMA BalanceGrows ==
    ASSUME IInv, [Next]_vars
    PROVE  \A o \in Ops : balance[o] \in Nat /\ balance'[o] \in Nat /\ balance'[o] >= balance[o]
<1>. USE DEF IInv, TypeOK
<1>1. \A o \in Ops : balance[o] \in Nat
  OBVIOUS
<1>2. ASSUME NEW r \in Requests, NEW s \in StateShards, ApplyShard(r, s)
      PROVE  \A o \in Ops : balance'[o] \in Nat /\ balance'[o] >= balance[o]
  BY <1>1, <1>2 DEF ApplyShard
<1>3. ASSUME NEW r \in Requests,
             \/ \E ops \in Batches : Submit(r, ops)
             \/ \E s \in DedupShards : ReserveShard(r, s)
             \/ \E s \in DedupShards, o \in batch[r] : ReserveStops(r, s, o)
             \/ \E s \in DedupShards : RollbackShard(r, s) \/ AbortShard(r, s) \/ CommitShard(r, s)
             \/ ReserveReadFails(r) \/ RollbackDone(r) \/ Retry(r) \/ AnswerDuplicates(r)
      PROVE  UNCHANGED balance
  BY <1>3 DEF Submit, ReserveShard, ReserveStops, ReserveReadFails, RollbackShard,
              RollbackDone, Retry, AnswerDuplicates, CommitShard, AbortShard, stateVars
<1>4. ASSUME NEW r \in Requests,
             \/ Replicated(r) \/ ReplicationFails(r) \/ LogFails(r) \/ AppendLog(r)
             \/ Applied(r) \/ SendPublish(r) \/ SendPersist(r) \/ Wake(r) \/ Cancel(r)
             \/ DetachedAppend(r)
      PROVE  UNCHANGED balance
  BY <1>4 DEF Replicated, ReplicationFails, LogFails, StartAbort, AppendLog, Applied,
              SendPublish, SendPersist, Wake, Cancel, DetachedAppend, stateVars
<1>5. ASSUME PublishTake \/ Publish \/ Persister \/ UNCHANGED vars
      PROVE  UNCHANGED balance
  BY <1>5 DEF Persister, PublishTake, Publish, PersistTake, PersistInsert, PersistFails,
              Evict, vars, stateVars
<1>. QED
  BY <1>1, <1>2, <1>3, <1>4, <1>5 DEF Next, RequestStep

\* The kinds of entries of a dedup shard are told apart.
LEMMA EntryKinds ==
    /\ Vacant.kind = "vacant"
    /\ \A f : /\ Committed(f).kind = "committed" /\ Committed(f).fp = f
              /\ Committed(f) # Vacant
    /\ \A f, r : /\ Pending(f, r).kind = "pending"
                 /\ Pending(f, r).fp = f /\ Pending(f, r).by = r
                 /\ Pending(f, r) # Vacant
    /\ \A f, r, g : Pending(f, r) # Committed(g)
<1>1. Vacant.kind = "vacant"
  BY DEF Vacant
<1>2. \A f : Committed(f).kind = "committed" /\ Committed(f).fp = f
  BY DEF Committed
<1>3. \A f, r : /\ Pending(f, r).kind = "pending"
               /\ Pending(f, r).fp = f /\ Pending(f, r).by = r
  BY DEF Pending
<1>. QED
  BY <1>1, <1>2, <1>3

-----------------------------------------------------------------------------
(* What the steps do, as far as DInv can tell them apart *)

\* What no step of a request but the named ones touches.
restVars == <<logged, jobs, balance, published, pubQueue, pubBatch,
              persistQueue, persistBatch, persistPhase, disk>>

Unmoved(r) == \A q \in Requests \ {r} : /\ pc'[q] = pc[q]
                                        /\ todo'[q] = todo[q]
                                        /\ fresh'[q] = fresh[q]
                                        /\ answer'[q] = answer[q]

\* r reserves the operations in taken: ReserveShard and ReserveStops.
Takes(r, taken) ==
    /\ taken \in SUBSET batch[r]
    /\ \A o \in taken : IsNew(o) /\ memory'[o.id] = Pending(o.fp, r)
    /\ \A i \in Ids \ IdsOf(taken) : memory'[i] = memory[i]
    /\ pc[r] = "reserving" /\ pc'[r] \in {"reserving", "yielding", "refusing"}
    /\ Unmoved(r) /\ fresh'[r] = fresh[r] \cup taken /\ answer'[r] = answer[r]
    /\ pc'[r] = "refusing" => \E o \in batch[r] : IsRefused(o)
    /\ pc'[r] = "reserving" => \A o \in batch[r] :
          \/ DedupShardOf[o.id] \in todo'[r]
          \/ DedupShardOf[o.id] \notin todo[r]
          \/ o \in taken
          \/ ~IsNew(o) /\ ~IsHeld(o) /\ ~IsRefused(o)
    /\ UNCHANGED <<batch, harvest, restVars>>

\* r gives back what it reserved in shard s: RollbackShard and AbortShard.
Gives(r, s) ==
    /\ pc[r] \in {"yielding", "refusing", "aborting"} /\ pc'[r] = pc[r]
    /\ Unmoved(r) /\ answer'[r] = answer[r]
    /\ fresh'[r] = {o \in fresh[r] : DedupShardOf[o.id] # s}
    /\ \A i \in Ids : memory'[i] = IF i \in IdsOf(InShard(fresh[r], s)) THEN Vacant ELSE memory[i]
    /\ UNCHANGED <<batch, harvest, restVars>>

\* A request goes on without touching anything the others see.
Moves(r) ==
    /\ pc[r] \notin {"idle", "done", "detached", "committing", "publishing", "persisting"}
    /\ pc'[r] \in {"reserving", "waiting", "logging", "aborting", "committing", "done"}
    /\ pc'[r] \notin {"done", "committing"} => pc[r] \in Unlogged
    /\ pc'[r] = "reserving" => todo'[r] = ShardsOf(batch[r])
    /\ pc'[r] = "logging" => pc[r] = "reserving" /\ todo[r] = {}
    /\ pc'[r] = "committing" =>
          pc[r] = "applying" /\ \A o \in fresh[r] : <<r, StateShardOf[o.fp]>> \notin jobs
    /\ Unmoved(r)
    /\ pc'[r] # "done" => answer'[r] = answer[r]
    /\ answer'[r] = "ok" => \/ answer[r] = "ok"
                            \/ pc[r] = "waking"
                            \/ pc[r] = "reserving" /\ todo[r] = {} /\ fresh[r] = {}
    /\ UNCHANGED <<batch, fresh, harvest, memory, restVars>>

\* A reservation is entered under the operation's own identifier and content.
LEMMA ReservesOwn ==
    ASSUME DInv, NEW r \in Requests, pc[r] = "reserving",
           NEW taken \in SUBSET {o \in batch[r] : IsNew(o)}, Reserve(r, taken)
    PROVE  /\ \A o \in taken : memory'[o.id] = Pending(o.fp, r)
           /\ \A i \in Ids \ IdsOf(taken) : memory'[i] = memory[i]
           /\ fresh'[r] = fresh[r] \cup taken
           /\ \A q \in Requests \ {r} : fresh'[q] = fresh[q]
<1>. USE DEF DInv, IInv
<1>1. taken \in SUBSET Ops /\ \A o, p \in taken : ~Clash(o, p)
  BY DEF TypeOK, BatchInv
<1>2. ASSUME NEW o \in taken
      PROVE  memory'[o.id] = Pending(o.fp, r)
  <2>1. o.id \in Ids /\ o.id \in IdsOf(taken)
    BY <1>1 DEF Ops, IdsOf
  <2>2. FpIn(taken, o.id) = o.fp
    BY <1>1, OneContent
  <2>. QED
    BY <2>1, <2>2 DEF Reserve
<1>. QED
  BY <1>1, <1>2 DEF Reserve, TypeOK

\* A scan reserves only what is new, and says why it stops.
LEMMA ReserveTakes ==
    ASSUME DInv, NEW r \in Requests, NEW s \in DedupShards,
           ReserveShard(r, s) \/ \E o \in batch[r] : ReserveStops(r, s, o)
    PROVE  \E taken \in SUBSET batch[r] : Takes(r, taken)
<1>. USE DEF DInv, IInv, Goto
<1>1. CASE ReserveShard(r, s)
  <2>0. PICK taken : taken = {o \in InShard(batch[r], s) : IsNew(o)}
    OBVIOUS
  <2>1. taken \in SUBSET {o \in batch[r] : IsNew(o)} /\ Reserve(r, taken)
    BY <1>1, <2>0 DEF ReserveShard, InShard
  <2>2. /\ pc[r] = "reserving" /\ pc' = pc /\ answer' = answer
        /\ \A q \in Requests \ {r} : todo'[q] = todo[q]
        /\ UNCHANGED <<batch, harvest, restVars>>
    BY <1>1 DEF ReserveShard, TypeOK, stateVars, pubVars, diskVars, restVars
  <2>3. \A o \in batch[r] :
           \/ DedupShardOf[o.id] \in todo'[r]
           \/ DedupShardOf[o.id] \notin todo[r]
           \/ o \in taken
           \/ ~IsNew(o) /\ ~IsHeld(o) /\ ~IsRefused(o)
    BY <1>1, <2>0 DEF ReserveShard, InShard, TypeOK
  <2>4. taken \in SUBSET batch[r] /\ \A o \in taken : IsNew(o)
    BY <2>0 DEF InShard
  <2>5. /\ \A o \in taken : memory'[o.id] = Pending(o.fp, r)
        /\ \A i \in Ids \ IdsOf(taken) : memory'[i] = memory[i]
        /\ fresh'[r] = fresh[r] \cup taken
        /\ \A q \in Requests \ {r} : fresh'[q] = fresh[q]
    BY <2>1, <2>2, ReservesOwn
  <2>6. Takes(r, taken)
    BY <2>2, <2>3, <2>4, <2>5 DEF Takes, Unmoved
  <2>. QED
    BY <2>4, <2>6
<1>2. ASSUME NEW o \in batch[r], ReserveStops(r, s, o)
      PROVE  \E taken \in SUBSET batch[r] : Takes(r, taken)
  <2>1. PICK taken \in SUBSET {p \in InShard(batch[r], s) : IsNew(p)} :
           Reserve(r, taken) /\ todo' = [todo EXCEPT ![r] = ShardsOf(fresh[r] \cup taken)]
    BY <1>2 DEF ReserveStops
  <2>2. taken \in SUBSET {p \in batch[r] : IsNew(p)}
    BY DEF InShard
  <2>3. /\ pc[r] = "reserving" /\ pc'[r] \in {"yielding", "refusing"} /\ answer' = answer
        /\ pc'[r] = "refusing" => IsRefused(o)
        /\ \A q \in Requests \ {r} : pc'[q] = pc[q] /\ todo'[q] = todo[q]
        /\ UNCHANGED <<batch, harvest>>
    BY <1>2, <2>1 DEF ReserveStops, TypeOK
  <2>4. UNCHANGED restVars
    BY <1>2 DEF ReserveStops, stateVars, pubVars, diskVars, restVars
  <2>5. Takes(r, taken)
    BY <2>1, <2>2, <2>3, <2>4, ReservesOwn DEF Takes, Unmoved
  <2>. QED
    BY <2>5 DEF Takes
<1>. QED
  BY <1>1, <1>2

\* What a rollback or an abort finds in a shard are the request's reservations.
LEMMA ReleaseGives ==
    ASSUME DInv, NEW r \in Requests, NEW s \in DedupShards,
           RollbackShard(r, s) \/ AbortShard(r, s)
    PROVE  Gives(r, s)
<1>. USE DEF DInv, IInv
<1>1. pc[r] \in {"yielding", "refusing", "aborting"} /\ pc[r] \in Unlogged
  BY DEF RollbackShard, AbortShard, Unlogged
<1>2. ASSUME NEW i \in IdsOf(InShard(fresh[r], s))
      PROVE  memory[i].kind = "pending" /\ memory[i].by = r
  <2>1. PICK o \in fresh[r] : o.id = i
    BY DEF IdsOf, InShard
  <2>2. memory[i] = Pending(o.fp, r)
    BY <1>1, <2>1 DEF OwnInv
  <2>. QED
    BY <2>2 DEF Pending
<1>3. \A i \in Ids : memory'[i] = IF i \in IdsOf(InShard(fresh[r], s)) THEN Vacant ELSE memory[i]
  BY <1>1, <1>2 DEF RollbackShard, AbortShard
<1>4. /\ pc' = pc /\ answer' = answer /\ UNCHANGED <<batch, harvest, restVars>>
  BY DEF RollbackShard, AbortShard, stateVars, pubVars, diskVars, restVars
<1>5. /\ fresh'[r] = {o \in fresh[r] : DedupShardOf[o.id] # s}
      /\ \A q \in Requests \ {r} : fresh'[q] = fresh[q] /\ todo'[q] = todo[q]
  BY DEF RollbackShard, AbortShard, TypeOK
<1>. QED
  BY <1>1, <1>3, <1>4, <1>5 DEF Gives, Unmoved

\* The steps of a request that only go on.
LEMMA GoesOn ==
    ASSUME DInv, NEW r \in Requests,
           \/ ReserveReadFails(r) \/ RollbackDone(r) \/ Retry(r)
           \/ AnswerDuplicates(r) \/ Replicated(r) \/ ReplicationFails(r)
           \/ LogFails(r) \/ Applied(r) \/ Wake(r)
    PROVE  Moves(r)
<1>. USE DEF DInv, IInv, Goto, Finish
<1>1. UNCHANGED <<batch, fresh, harvest, memory, restVars>>
  BY DEF ReserveReadFails, RollbackDone, Retry, AnswerDuplicates, Replicated,
         ReplicationFails, LogFails, StartAbort, Applied, Wake, stateVars, pubVars,
         diskVars, restVars
<1>2. CASE ReserveReadFails(r) \/ RollbackDone(r) \/ AnswerDuplicates(r)
  <2>1. /\ Unmoved(r) /\ pc[r] \in {"reserving", "yielding", "refusing"}
        /\ pc'[r] \in {"waiting", "done"}
        /\ pc'[r] # "done" => answer'[r] = answer[r]
        /\ answer'[r] # "ok" \/ (pc[r] = "reserving" /\ todo[r] = {} /\ fresh[r] = {}) \/ answer'[r] = answer[r]
    BY <1>2 DEF ReserveReadFails, RollbackDone, AnswerDuplicates, Reserved, TypeOK, Unmoved
  <2>. QED
    BY <1>1, <2>1 DEF Moves, Unlogged
<1>3. CASE Retry(r) \/ Replicated(r)
  <2>1. /\ Unmoved(r) /\ answer' = answer
        /\ \/ pc[r] = "waiting" /\ pc'[r] = "reserving" /\ todo'[r] = ShardsOf(batch[r])
           \/ pc[r] = "reserving" /\ todo[r] = {} /\ pc'[r] = "logging"
    BY <1>3 DEF Retry, Replicated, Reserved, TypeOK, Unmoved
  <2>. QED
    BY <1>1, <2>1 DEF Moves, Unlogged
<1>4. CASE ReplicationFails(r) \/ LogFails(r)
  <2>1. /\ Unmoved(r) /\ answer' = answer
        /\ pc[r] \in {"reserving", "logging"} /\ pc'[r] = "aborting"
    BY <1>4 DEF ReplicationFails, LogFails, StartAbort, Reserved, TypeOK, Unmoved
  <2>. QED
    BY <1>1, <2>1 DEF Moves, Unlogged
<1>5. CASE Applied(r)
  <2>1. /\ Unmoved(r) /\ answer' = answer
        /\ pc[r] = "applying" /\ pc'[r] = "committing"
        /\ \A o \in fresh[r] : <<r, StateShardOf[o.fp]>> \notin jobs
    BY <1>5 DEF Applied, TypeOK, Unmoved
  <2>. QED
    BY <1>1, <2>1 DEF Moves
<1>6. CASE Wake(r)
  <2>1. /\ Unmoved(r) /\ pc'[r] = "done"
        /\ \/ pc[r] = "waking"
           \/ pc[r] = "aborting" /\ answer'[r] = "unavailable"
    BY <1>6 DEF Wake, TypeOK, Unmoved
  <2>. QED
    BY <1>1, <2>1 DEF Moves
<1>. QED
  BY <1>2, <1>3, <1>4, <1>5, <1>6

\* Every step is one of these.
LEMMA StepCases ==
    ASSUME DInv, [Next]_vars
    PROVE  \/ \E r \in Requests :
                \/ \E ops \in Batches : Submit(r, ops)
                \/ \E taken \in SUBSET batch[r] : Takes(r, taken)
                \/ \E s \in DedupShards : Gives(r, s) \/ CommitShard(r, s)
                \/ \E s \in StateShards : ApplyShard(r, s)
                \/ Moves(r) \/ AppendLog(r) \/ DetachedAppend(r)
                \/ SendPublish(r) \/ SendPersist(r) \/ Cancel(r)
           \/ PublishTake \/ Publish
           \/ PersistTake \/ PersistInsert \/ PersistFails \/ \E o \in Ops : Evict(o)
           \/ UNCHANGED vars
  BY ReserveTakes, ReleaseGives, GoesOn DEF Next, RequestStep, Persister

\* The WAL only grows, and only a request's own reservations enter it.
LEMMA LogGrows ==
    ASSUME DInv, [Next]_vars
    PROVE  \/ logged' = logged
           \/ \E r \in Requests : /\ pc[r] \in {"logging", "detached"}
                                  /\ logged' = logged \cup fresh[r]
<1>1. ASSUME NEW r \in Requests,
             \/ \E ops \in Batches : Submit(r, ops)
             \/ \E taken \in SUBSET batch[r] : Takes(r, taken)
             \/ \E s \in DedupShards : Gives(r, s) \/ CommitShard(r, s)
             \/ \E s \in StateShards : ApplyShard(r, s)
             \/ Moves(r) \/ SendPublish(r) \/ SendPersist(r) \/ Cancel(r)
      PROVE  logged' = logged
  BY <1>1 DEF Submit, Takes, Gives, Moves, restVars, CommitShard, ApplyShard, SendPublish,
              SendPersist, Cancel, stateVars
<1>2. ASSUME \/ PublishTake \/ Publish
             \/ PersistTake \/ PersistInsert \/ PersistFails \/ \E o \in Ops : Evict(o)
             \/ UNCHANGED vars
      PROVE  logged' = logged
  BY <1>2 DEF PublishTake, Publish, PersistTake, PersistInsert, PersistFails, Evict, vars,
              stateVars
<1>3. ASSUME NEW r \in Requests, AppendLog(r) \/ DetachedAppend(r)
      PROVE  pc[r] \in {"logging", "detached"} /\ logged' = logged \cup fresh[r]
  BY <1>3 DEF AppendLog, DetachedAppend
<1>. QED
  BY <1>1, <1>2, <1>3, StepCases

\* What is settled stays settled.
LEMMA SettledStays ==
    ASSUME DInv, [Next]_vars, NEW o \in Ops, Settled(o)
    PROVE  Settled(o)'
<1>1. IInv /\ IInv'
  BY IInvStep DEF DInv
<1>2. balance'[o] \in Nat /\ balance'[o] >= 1 /\ balance'[o] <= 1
  BY <1>1, BalanceGrows DEF Settled, IInv, AtMostOnce
<1>. QED
  BY <1>2, LogGrows DEF Settled

-----------------------------------------------------------------------------
(* Each conjunct of the invariant is preserved *)

\* Answers are given at the end, and only what was asked for is reserved.
LEMMA AnswerStep ==
    ASSUME DInv, [Next]_vars
    PROVE  AnswerInv'
<1>. USE DEF DInv, IInv, Goto, Finish
<1>1. ASSUME NEW r \in Requests, NEW ops \in Batches, Submit(r, ops)
      PROVE  AnswerInv'
  <2>1. ops # {}
    BY StoreAssumption
  <2>2. pc[r] = "idle" /\ fresh[r] = {} /\ answer[r] = "none"
    BY <1>1 DEF Submit, AnswerInv
  <2>3. /\ \A q \in Requests : q # r => pc'[q] = pc[q] /\ answer'[q] = answer[q]
        /\ \A q \in Requests : batch'[q] = IF q = r THEN ops ELSE batch[q]
        /\ fresh' = fresh
        /\ pc'[r] = "done" \/ (pc'[r] = "reserving" /\ answer' = answer)
    BY <1>1 DEF Submit, TypeOK
  <2>. QED
    BY <2>1, <2>2, <2>3 DEF AnswerInv
<1>2. ASSUME NEW r \in Requests, NEW taken \in SUBSET batch[r], Takes(r, taken)
      PROVE  AnswerInv'
  BY <1>2 DEF Takes, Unmoved, AnswerInv
<1>3. ASSUME NEW r \in Requests, NEW s, Gives(r, s)
      PROVE  AnswerInv'
  BY <1>3 DEF Gives, Unmoved, AnswerInv
<1>4. ASSUME NEW r \in Requests, Moves(r)
      PROVE  AnswerInv'
  BY <1>4 DEF Moves, Unmoved, AnswerInv
<1>5. ASSUME NEW r \in Requests,
             AppendLog(r) \/ DetachedAppend(r) \/ SendPublish(r) \/ SendPersist(r)
      PROVE  AnswerInv'
  BY <1>5 DEF AppendLog, DetachedAppend, SendPublish, SendPersist, AnswerInv, TypeOK
<1>6. ASSUME NEW r \in Requests, Cancel(r)
      PROVE  AnswerInv'
  BY <1>6 DEF Cancel, AnswerInv, TypeOK
<1>7. CASE Publish
  BY <1>7 DEF Publish, AnswerInv, TypeOK
<1>8. CASE UNCHANGED <<pc, batch, fresh, answer>>
  BY <1>8 DEF AnswerInv
<1>. QED
  BY <1>1, <1>2, <1>3, <1>4, <1>5, <1>6, <1>7, <1>8, StepCases
  DEF CommitShard, ApplyShard, PublishTake, PersistTake, PersistInsert, PersistFails,
      Evict, vars, reqVars

\* Steps that leave the reservations alone.
LEMMA HolderKeeps ==
    ASSUME DInv, UNCHANGED <<memory, fresh>>,
           \A i \in Ids : disk[i] # NoFp => disk'[i] # NoFp,
           \A q \in Requests : pc'[q] = "detached" => pc[q] \in {"detached", "logging"}
    PROVE  HolderInv'
<1>1. \A r \in Requests : \A o \in fresh[r] : pc[r] = "logging" => memory[o.id] = Pending(o.fp, r)
  BY DEF DInv, IInv, OwnInv, Unlogged
<1>2. \A r \in Requests : \A o \in fresh[r] : o.id \in Ids
  BY DEF DInv, IInv, TypeOK, Ops
<1>. QED
  BY <1>1, <1>2 DEF DInv, HolderInv

\* What a scan reserves was nobody's.
LEMMA HolderTakes ==
    ASSUME DInv, NEW r \in Requests, NEW taken \in SUBSET batch[r], Takes(r, taken)
    PROVE  HolderInv'
<1>. USE DEF DInv, IInv
<1>1. /\ \A q \in Requests : fresh'[q] = IF q = r THEN fresh[r] \cup taken ELSE fresh[q]
      /\ \A q \in Requests : pc'[q] = "detached" => pc[q] = "detached" /\ q # r
      /\ \A o \in taken : IsNew(o) /\ memory'[o.id] = Pending(o.fp, r)
      /\ \A i \in Ids \ IdsOf(taken) : memory'[i] = memory[i]
      /\ pc[r] = "reserving" /\ disk' = disk
  BY DEF Takes, Unmoved, restVars
<1>2. taken \in SUBSET Ops /\ \A o, p \in taken : o.id = p.id => o = p
  <2>1. taken \in SUBSET Ops /\ \A o, p \in taken : ~Clash(o, p)
    BY <1>1 DEF TypeOK, BatchInv
  <2>. QED
    BY <2>1, SameOperation DEF Clash
<1>3. \A q \in Requests : \A o \in fresh[q] : o \in Ops /\ o.id \in Ids /\ o.id \notin IdsOf(taken)
  BY <1>1 DEF HolderInv, IsNew, IdsOf, TypeOK, Ops
<1>4. \A o \in taken : o.id \in IdsOf(taken) /\ o.id \in Ids
  BY <1>2 DEF IdsOf, Ops
<1>5. ASSUME NEW q \in Requests, NEW o \in fresh'[q], NEW u \in Requests, NEW v \in fresh'[u],
             o.id = v.id
      PROVE  q = u /\ o = v
  <2>1. CASE o \in fresh[q] /\ v \in fresh[u]
    BY <1>5, <2>1 DEF HolderInv
  <2>2. CASE (q = r /\ o \in taken) /\ (u = r /\ v \in taken)
    BY <1>2, <1>5, <2>2
  <2>. QED
    BY <1>1, <1>3, <1>4, <1>5, <2>1, <2>2
<1>6. ASSUME NEW q \in Requests, NEW o \in fresh'[q]
      PROVE  /\ memory'[o.id] # Vacant \/ disk'[o.id] # NoFp
             /\ pc'[q] = "detached" => memory'[o.id] = Pending(o.fp, q)
  <2>1. CASE q = r /\ o \in taken
    BY <1>1, <2>1, PendingIsNotVacant
  <2>2. CASE o \in fresh[q]
    BY <1>1, <1>3, <2>2 DEF HolderInv
  <2>. QED
    BY <1>1, <2>1, <2>2
<1>7. ASSUME NEW i \in Ids, memory'[i].kind = "pending"
      PROVE  [id |-> i, fp |-> memory'[i].fp] \in fresh'[memory'[i].by]
  <2>1. CASE i \in IdsOf(taken)
    <3>1. PICK o \in taken : o.id = i
      BY <2>1 DEF IdsOf
    <3>2. memory'[i] = Pending(o.fp, r) /\ o = [id |-> i, fp |-> o.fp]
      BY <1>1, <1>2, <3>1 DEF Ops
    <3>. QED
      BY <1>1, <3>2 DEF Pending
  <2>2. CASE i \notin IdsOf(taken)
    <3>1. memory'[i] = memory[i] /\ memory[i].by \in Requests
      BY <1>1, <1>7, <2>2, PendingEntry
    <3>. QED
      BY <1>1, <1>7, <3>1 DEF HolderInv
  <2>. QED
    BY <2>1, <2>2
<1>8. \A q, u \in Requests : \A o \in fresh'[q], v \in fresh'[u] : o.id = v.id => q = u /\ o = v
  BY <1>5
<1>. QED
  BY <1>6, <1>7, <1>8 DEF HolderInv

\* Giving back takes a request's claims and its reservations together.
LEMMA HolderGives ==
    ASSUME DInv, NEW r \in Requests, NEW s, Gives(r, s)
    PROVE  HolderInv'
<1>. USE DEF DInv, IInv
<1>. DEFINE ids == IdsOf(InShard(fresh[r], s))
<1>1. /\ \A q \in Requests : fresh'[q] = IF q = r THEN {o \in fresh[r] : DedupShardOf[o.id] # s}
                                                  ELSE fresh[q]
      /\ \A q \in Requests : pc'[q] = pc[q]
      /\ \A i \in Ids : memory'[i] = IF i \in ids THEN Vacant ELSE memory[i]
      /\ pc[r] # "detached" /\ disk' = disk
  BY DEF Gives, Unmoved, restVars
<1>2. \A i \in ids : \E p \in fresh[r] : p.id = i /\ DedupShardOf[p.id] = s
  BY DEF IdsOf, InShard
<1>3. ASSUME NEW q \in Requests, NEW o \in fresh'[q]
      PROVE  o \in fresh[q] /\ o.id \in Ids /\ memory'[o.id] = memory[o.id]
  <2>1. o \in fresh[q] /\ (q = r => DedupShardOf[o.id] # s)
    BY <1>1
  <2>2. o.id \in Ids
    BY <2>1 DEF TypeOK, Ops
  <2>3. ASSUME o.id \in ids
        PROVE  FALSE
    <3>1. PICK p \in fresh[r] : p.id = o.id /\ DedupShardOf[p.id] = s
      BY <1>2, <2>3
    <3>. QED
      BY <2>1, <3>1 DEF HolderInv
  <2>. QED
    BY <1>1, <2>1, <2>2, <2>3
<1>4. ASSUME NEW i \in Ids, memory'[i].kind = "pending"
      PROVE  [id |-> i, fp |-> memory'[i].fp] \in fresh'[memory'[i].by]
  <2>1. i \notin ids /\ memory'[i] = memory[i]
    BY <1>1, <1>4 DEF Vacant
  <2>2. memory[i].by \in Requests /\ [id |-> i, fp |-> memory[i].fp] \in fresh[memory[i].by]
    BY <1>4, <2>1, PendingEntry DEF HolderInv
  <2>3. [id |-> i, fp |-> memory[i].fp] \in fresh[r] => DedupShardOf[i] # s
    BY <2>1 DEF IdsOf, InShard
  <2>. QED
    BY <1>1, <2>1, <2>2, <2>3
<1>. QED
  BY <1>1, <1>3, <1>4 DEF HolderInv

\* A commit turns a request's own reservations into committed entries.
LEMMA HolderCommits ==
    ASSUME DInv, NEW r \in Requests, NEW s, CommitShard(r, s)
    PROVE  HolderInv'
<1>. USE DEF DInv, IInv
<1>. DEFINE held == Held(IdsOf(InShard(fresh[r], s)))
<1>1. /\ pc[r] = "committing" /\ s \in todo[r]
      /\ UNCHANGED <<pc, fresh, disk>>
      /\ \A i \in Ids : memory'[i] = IF i \in held THEN Committed(memory[i].fp) ELSE memory[i]
  BY DEF CommitShard, IsNextShard, diskVars
<1>2. \A i \in held : \E p \in fresh[r] :
         p.id = i /\ DedupShardOf[i] = s /\ memory[i] = Pending(p.fp, r)
  BY <1>1 DEF Held, IdsOf, InShard, OwnInv
<1>3. ASSUME NEW q \in Requests, NEW o \in fresh[q]
      PROVE  /\ memory'[o.id] # Vacant \/ disk[o.id] # NoFp
             /\ pc[q] = "detached" => memory'[o.id] = Pending(o.fp, q)
  <2>1. o.id \in Ids
    BY DEF TypeOK, Ops
  <2>2. CASE o.id \in held
    <3>1. pc[q] # "detached"
      BY <1>1, <1>2, <2>2 DEF HolderInv
    <3>2. memory'[o.id] # Vacant
      BY <1>1, <2>1, <2>2, EntryKinds
    <3>. QED
      BY <3>1, <3>2
  <2>3. CASE o.id \notin held
    BY <1>1, <2>1, <2>3 DEF HolderInv
  <2>. QED
    BY <2>2, <2>3
<1>4. ASSUME NEW i \in Ids, memory'[i].kind = "pending"
      PROVE  memory'[i] = memory[i]
  BY <1>1, <1>4, EntryKinds
<1>5. \A q \in Requests : fresh'[q] = fresh[q] /\ pc'[q] = pc[q]
  BY <1>1
<1>. QED
  BY <1>1, <1>3, <1>4, <1>5, PendingEntry DEF HolderInv

\* An identifier belongs to one request, and preflight_batch can tell.
LEMMA HolderStep ==
    ASSUME DInv, [Next]_vars
    PROVE  HolderInv'
<1>. USE DEF DInv, IInv, Goto, Finish
<1>1. ASSUME NEW r \in Requests,
             \/ \E ops \in Batches : Submit(r, ops)
             \/ Moves(r) \/ AppendLog(r) \/ DetachedAppend(r)
             \/ SendPublish(r) \/ SendPersist(r) \/ Cancel(r)
      PROVE  HolderInv'
  <2>1. \A q \in Requests : pc'[q] = "detached" => pc[q] \in {"detached", "logging"}
    <3>1. CASE Moves(r)
      BY <3>1 DEF Moves, Unmoved
    <3>2. CASE ~Moves(r)
      BY <1>1, <3>2 DEF Submit, AppendLog, DetachedAppend, SendPublish, SendPersist, Cancel, TypeOK
    <3>. QED
      BY <3>1, <3>2
  <2>2. UNCHANGED <<memory, fresh, disk>>
    BY <1>1 DEF Submit, Moves, restVars, AppendLog, DetachedAppend, SendPublish, SendPersist,
                Cancel, diskVars
  <2>. QED
    BY <2>1, <2>2, HolderKeeps
<1>2. ASSUME \/ \E r \in Requests, s \in StateShards : ApplyShard(r, s)
             \/ PublishTake \/ Publish \/ PersistTake \/ PersistFails \/ UNCHANGED vars
      PROVE  HolderInv'
  <2>1. UNCHANGED <<memory, fresh, disk>>
    BY <1>2 DEF ApplyShard, PublishTake, Publish, PersistTake, PersistFails, vars, reqVars, diskVars
  <2>2. \A q \in Requests : pc'[q] = "detached" => pc[q] = "detached"
    BY <1>2 DEF ApplyShard, PublishTake, Publish, PersistTake, PersistFails, vars, reqVars
  <2>. QED
    BY <2>1, <2>2, HolderKeeps
<1>3. CASE PersistInsert
  <2>1. \A i \in IdsOf(persistBatch) : FpIn(persistBatch, i) # NoFp
    <3>1. persistBatch \in SUBSET Ops
      BY DEF TypeOK
    <3>2. \A i \in IdsOf(persistBatch) : FpIn(persistBatch, i) \in Fps
      BY <3>1, FpInType
    <3>. QED
      BY <3>2, StoreAssumption
  <2>2. UNCHANGED <<memory, fresh, pc>>
    BY <1>3 DEF PersistInsert, reqVars
  <2>3. \A i \in Ids : disk[i] # NoFp => disk'[i] # NoFp
    BY <1>3, <2>1 DEF PersistInsert
  <2>. QED
    BY <2>2, <2>3, HolderKeeps
<1>4. ASSUME NEW e \in Ops, Evict(e)
      PROVE  HolderInv'
  <2>1. /\ \A i \in Ids : memory'[i] = IF i = e.id /\ memory[i] = Committed(e.fp) THEN Vacant ELSE memory[i]
        /\ UNCHANGED <<fresh, pc, disk>>
        /\ disk[e.id] # NoFp
    BY <1>4 DEF Evict, reqVars, TypeOK, EvictInv
  <2>2. \A q \in Requests : \A o \in fresh[q] : o.id \in Ids
    BY DEF TypeOK, Ops
  <2>3. ASSUME NEW q \in Requests, NEW o \in fresh[q]
        PROVE  /\ memory'[o.id] # Vacant \/ disk[o.id] # NoFp
               /\ pc[q] = "detached" => memory'[o.id] = Pending(o.fp, q)
    BY <2>1, <2>2 DEF HolderInv, Pending, Committed
  <2>4. ASSUME NEW i \in Ids, memory'[i].kind = "pending"
        PROVE  memory'[i] = memory[i]
    BY <2>1, <2>4 DEF Vacant
  <2>5. \A q \in Requests : fresh'[q] = fresh[q] /\ pc'[q] = pc[q]
    BY <2>1
  <2>. QED
    BY <2>1, <2>3, <2>4, <2>5 DEF HolderInv
<1>. QED
  BY <1>1, <1>2, <1>3, <1>4, StepCases, HolderTakes, HolderGives, HolderCommits

\* What the index recognises is not new to a scan.
LEMMA LoggedIsNotNew ==
    ASSUME DInv, NEW o \in Ops, NEW p \in logged, o.id = p.id
    PROVE  ~IsNew(o)
<1>1. Recognised(p) /\ p.fp \in Fps
  BY DEF DInv, LogInv, NeverForgotten, IInv, TypeOK, Ops
<1>. QED
  BY <1>1, StoreAssumption, EntryKinds DEF Recognised, IsNew

\* A step that adds nothing to the WAL keeps what the index recognises, if it
\* keeps the entries of the logged identifiers.
LEMMA Remembers ==
    ASSUME DInv, NEW o \in logged,
           memory'[o.id] = memory[o.id],
           disk'[o.id] = disk[o.id] \/ disk'[o.id] = o.fp
    PROVE  Recognised(o)'
  BY DEF DInv, LogInv, NeverForgotten, Recognised

\* The index recognises every logged operation after each step.
LEMMA RecognisedStep ==
    ASSUME DInv, [Next]_vars
    PROVE  NeverForgotten'
<1>. USE DEF DInv, IInv
<1>1. \A o \in logged : o.id \in Ids /\ o.fp \in Fps
  BY DEF TypeOK, Ops
<1>2. ASSUME NEW r \in Requests, NEW taken \in SUBSET batch[r], Takes(r, taken)
      PROVE  NeverForgotten'
  <2>1. /\ \A o \in taken : IsNew(o) /\ o \in Ops
        /\ \A i \in Ids \ IdsOf(taken) : memory'[i] = memory[i]
        /\ disk' = disk /\ logged' = logged
    BY <1>2 DEF Takes, restVars, TypeOK
  <2>2. \A o \in logged : o.id \notin IdsOf(taken)
    BY <2>1, LoggedIsNotNew DEF IdsOf
  <2>. QED
    BY <1>1, <2>1, <2>2, Remembers DEF NeverForgotten
<1>3. ASSUME NEW r \in Requests, NEW s, Gives(r, s)
      PROVE  NeverForgotten'
  <2>1. /\ pc[r] \in Unlogged
        /\ \A i \in Ids : i \notin IdsOf(InShard(fresh[r], s)) => memory'[i] = memory[i]
        /\ disk' = disk /\ logged' = logged
    BY <1>3 DEF Gives, restVars, Unlogged
  <2>2. \A o \in logged : o.id \notin IdsOf(InShard(fresh[r], s))
    BY <2>1 DEF IdsOf, InShard, LogInv
  <2>. QED
    BY <1>1, <2>1, <2>2, Remembers DEF NeverForgotten
<1>4. ASSUME NEW r \in Requests, NEW s, CommitShard(r, s)
      PROVE  NeverForgotten'
  <2>1. /\ disk' = disk /\ logged' = logged
        /\ \A i \in Ids : memory'[i] = memory[i] \/ memory'[i] = Committed(memory[i].fp)
    BY <1>4 DEF CommitShard, diskVars, stateVars
  <2>2. ASSUME NEW o \in logged
        PROVE  Recognised(o)'
    <3>1. Recognised(o) /\ o.id \in Ids
      BY <1>1 DEF LogInv, NeverForgotten
    <3>. QED
      BY <2>1, <3>1, EntryKinds DEF Recognised
  <2>. QED
    BY <2>1, <2>2 DEF NeverForgotten
<1>5. ASSUME NEW r \in Requests, AppendLog(r) \/ DetachedAppend(r)
      PROVE  NeverForgotten'
  <2>1. /\ UNCHANGED <<memory, disk>> /\ logged' = logged \cup fresh[r]
        /\ pc[r] \in {"logging", "detached"}
    BY <1>5 DEF AppendLog, DetachedAppend, diskVars
  <2>2. ASSUME NEW o \in fresh[r]
        PROVE  Recognised(o)'
    <3>1. memory[o.id] = Pending(o.fp, r)
      BY <2>1 DEF OwnInv, HolderInv, Unlogged
    <3>. QED
      BY <2>1, <3>1, EntryKinds DEF Recognised
  <2>. QED
    BY <2>1, <2>2, Remembers DEF NeverForgotten
<1>6. CASE PersistInsert
  <2>1. /\ logged' = logged /\ memory' = memory
        /\ \A i \in Ids : disk'[i] = IF i \in IdsOf(persistBatch) THEN FpIn(persistBatch, i)
                                                                 ELSE disk[i]
    BY <1>6 DEF PersistInsert, stateVars
  <2>2. persistBatch \in SUBSET Ops /\ persistBatch \subseteq logged
    BY DEF TypeOK, SettledInv, Settled
  <2>3. ASSUME NEW o \in logged, o.id \in IdsOf(persistBatch)
        PROVE  FpIn(persistBatch, o.id) = o.fp
    <3>1. [id |-> o.id, fp |-> FpIn(persistBatch, o.id)] \in logged
      BY <2>2, <2>3, FpInType
    <3>. QED
      BY <3>1 DEF LogInv, Clash
  <2>4. \A o \in logged : disk'[o.id] = disk[o.id] \/ disk'[o.id] = o.fp
    BY <1>1, <2>1, <2>3
  <2>. QED
    BY <2>1, <2>4, Remembers DEF NeverForgotten
<1>7. ASSUME NEW e \in Ops, Evict(e)
      PROVE  NeverForgotten'
  <2>1. /\ \A i \in Ids : memory'[i] = IF i = e.id /\ memory[i] = Committed(e.fp) THEN Vacant ELSE memory[i]
        /\ disk' = disk /\ logged' = logged
        /\ disk[e.id] = e.fp
    BY <1>7 DEF Evict, TypeOK, SettledInv, stateVars
  <2>2. ASSUME NEW o \in logged
        PROVE  Recognised(o)'
    <3>1. Recognised(o) /\ o.id \in Ids
      BY <1>1 DEF LogInv, NeverForgotten
    <3>. QED
      BY <2>1, <3>1, EntryKinds DEF Recognised
  <2>. QED
    BY <2>1, <2>2 DEF NeverForgotten
<1>8. ASSUME UNCHANGED <<memory, disk, logged>>
      PROVE  NeverForgotten'
  BY <1>8 DEF NeverForgotten, Recognised, LogInv
<1>9. ASSUME \/ \E r \in Requests : 
                   \/ \E ops \in Batches : Submit(r, ops)
                   \/ \E s \in StateShards : ApplyShard(r, s)
                   \/ Moves(r) \/ SendPublish(r) \/ SendPersist(r) \/ Cancel(r)
             \/ PublishTake \/ Publish \/ PersistTake \/ PersistFails \/ UNCHANGED vars
      PROVE  UNCHANGED <<memory, disk, logged>>
  BY <1>9 DEF Submit, ApplyShard, Moves, restVars, SendPublish, SendPersist, Cancel, PublishTake,
              Publish, PersistTake, PersistFails, vars, stateVars, diskVars
<1>. QED
  BY <1>2, <1>3, <1>4, <1>5, <1>6, <1>7, <1>8, <1>9, StepCases

\* The reservations of r enter the WAL: their identifiers are new to it.
LEMMA LogAppends ==
    ASSUME DInv, NEW r \in Requests, AppendLog(r) \/ DetachedAppend(r), NeverForgotten'
    PROVE  LogInv'
<1>. USE DEF DInv, IInv, Goto
<1>1. /\ logged' = logged \cup fresh[r] /\ UNCHANGED fresh
      /\ pc[r] \in {"logging", "detached"} /\ pc'[r] \in {"applying", "done"}
      /\ \A q \in Requests \ {r} : pc'[q] = pc[q]
  BY DEF AppendLog, DetachedAppend, TypeOK
<1>2. /\ \A o, p \in fresh[r] : ~Clash(o, p)
      /\ \A o \in fresh[r], p \in logged : o.id # p.id
  BY <1>1 DEF LogInv, HolderInv, Clash, Unlogged
<1>3. \A o, p \in logged' : ~Clash(o, p)
  BY <1>1, <1>2 DEF LogInv, Clash
<1>4. ASSUME NEW q \in Requests
      PROVE  /\ pc'[q] \in Unlogged \cup {"detached"} =>
                   \A o \in fresh'[q], p \in logged' : o.id # p.id
             /\ pc'[q] \in Logged => fresh'[q] \subseteq logged'
  <2>1. CASE q = r
    BY <1>1, <2>1 DEF Unlogged
  <2>2. CASE q # r
    BY <1>1, <2>2 DEF LogInv, HolderInv
  <2>. QED
    BY <2>1, <2>2
<1>. QED
  BY <1>3, <1>4 DEF LogInv

\* One content for each identifier in the WAL, never forgotten by the index.
LEMMA LogStep ==
    ASSUME DInv, [Next]_vars
    PROVE  LogInv'
<1>. USE DEF DInv, IInv, Goto, Finish
<1>0. NeverForgotten'
  BY RecognisedStep
<1>1. ASSUME logged' = logged,
             \A q \in Requests : /\ fresh'[q] \subseteq fresh[q]
                                 /\ pc'[q] \in Unlogged \cup {"detached"} => pc[q] \in Unlogged \cup {"detached"}
                                 /\ pc'[q] \in Logged => pc[q] \in Logged
      PROVE  LogInv'
  BY <1>0, <1>1 DEF LogInv
<1>2. ASSUME NEW r \in Requests, NEW taken \in SUBSET batch[r], Takes(r, taken)
      PROVE  LogInv'
  <2>1. /\ \A q \in Requests : fresh'[q] = IF q = r THEN fresh[r] \cup taken ELSE fresh[q]
        /\ \A q \in Requests \ {r} : pc'[q] = pc[q]
        /\ pc[r] \in Unlogged /\ pc'[r] \in Unlogged /\ logged' = logged
        /\ pc'[r] \notin Logged
    BY <1>2 DEF Takes, Unmoved, restVars, Unlogged, Logged
  <2>2. \A o \in taken, p \in logged : o.id # p.id
    BY <1>2, LoggedIsNotNew DEF Takes, TypeOK
  <2>. QED
    BY <1>0, <2>1, <2>2 DEF LogInv
<1>3. ASSUME NEW r \in Requests,
             \/ \E s \in DedupShards : Gives(r, s) \/ CommitShard(r, s)
             \/ Moves(r)
      PROVE  LogInv'
  <2>1. logged' = logged /\ \A q \in Requests : fresh'[q] \subseteq fresh[q]
    BY <1>3 DEF Gives, Moves, Unmoved, restVars, CommitShard, stateVars
  <2>2. \A q \in Requests :
           /\ pc'[q] \in Unlogged \cup {"detached"} => pc[q] \in Unlogged \cup {"detached"}
           /\ pc'[q] \in Logged => pc[q] \in Logged
    BY <1>3 DEF Gives, Moves, Unmoved, CommitShard, Unlogged, Logged
  <2>. QED
    BY <1>1, <2>1, <2>2
<1>4. ASSUME NEW r \in Requests,
             \/ \E ops \in Batches : Submit(r, ops)
             \/ SendPublish(r) \/ SendPersist(r) \/ Cancel(r)
      PROVE  LogInv'
  <2>1. UNCHANGED <<logged, fresh>>
    BY <1>4 DEF Submit, SendPublish, SendPersist, Cancel, stateVars
  <2>2. \A q \in Requests :
           /\ pc'[q] \in Unlogged \cup {"detached"} => pc[q] \in Unlogged \cup {"detached"}
           /\ pc'[q] \in Logged => pc[q] \in Logged
    BY <1>4 DEF Submit, SendPublish, SendPersist, Cancel, TypeOK, Unlogged, Logged
  <2>. QED
    BY <1>1, <2>1, <2>2
<1>5. ASSUME \/ \E r \in Requests : \E s \in StateShards : ApplyShard(r, s)
             \/ PublishTake \/ Publish
             \/ PersistTake \/ PersistInsert \/ PersistFails \/ \E o \in Ops : Evict(o)
             \/ UNCHANGED vars
      PROVE  LogInv'
  <2>1. UNCHANGED <<logged, fresh>>
    BY <1>5 DEF ApplyShard, PublishTake, Publish, PersistTake, PersistInsert, PersistFails, Evict,
                vars, reqVars, stateVars
  <2>2. \A q \in Requests : pc'[q] = pc[q] \/ (pc[q] = "publishing" /\ pc'[q] = "persisting")
    BY <1>5 DEF ApplyShard, PublishTake, Publish, PersistTake, PersistInsert, PersistFails, Evict,
                vars, reqVars
  <2>. QED
    BY <1>1, <2>1, <2>2 DEF Unlogged, Logged
<1>. QED
  BY <1>0, <1>2, <1>3, <1>4, <1>5, StepCases, LogAppends

\* What r has reserved is settled once the state shards have replied.
LEMMA AppliedIsSettled ==
    ASSUME DInv, NEW r \in Requests, pc[r] \in Logged \ {"applying"}, NEW o \in fresh[r]
    PROVE  Settled(o)
  BY DEF DInv, ApplyInv, LogInv, Settled

\* Nobody's entry or disk record becomes known without being settled.
LEMMA SettledStep ==
    ASSUME DInv, [Next]_vars
    PROVE  SettledInv'
<1>. USE DEF DInv, IInv, Goto, Finish
<1>0. TypeOK'
  BY IInvStep
<1>1. ASSUME NEW o \in Ops, memory'[o.id].kind = "committed", memory'[o.id].fp = o.fp
      PROVE  Settled(o)'
  <2>0. o.id \in Ids /\ o = [id |-> o.id, fp |-> o.fp]
    BY DEF Ops
  <2>1. CASE memory'[o.id] = memory[o.id]
    BY <1>1, <2>0, <2>1, SettledStays DEF SettledInv
  <2>2. ASSUME NEW r \in Requests, NEW s \in DedupShards, CommitShard(r, s),
               memory'[o.id] # memory[o.id]
        PROVE  Settled(o)'
    <3>1. /\ o.id \in Held(IdsOf(InShard(fresh[r], s)))
          /\ memory'[o.id] = Committed(memory[o.id].fp)
          /\ pc[r] = "committing" /\ s \in todo[r]
      BY <2>0, <2>2 DEF CommitShard, IsNextShard
    <3>2. PICK p \in fresh[r] : p.id = o.id /\ DedupShardOf[o.id] = s
      BY <3>1 DEF Held, IdsOf, InShard
    <3>3. memory[o.id] = Pending(p.fp, r) /\ p \in Ops
      BY <3>1, <3>2 DEF OwnInv, TypeOK
    <3>4. o = p
      BY <1>1, <3>1, <3>2, <3>3, EntryKinds, SameOperation
    <3>5. Settled(p)
      BY <3>1, AppliedIsSettled DEF Logged
    <3>. QED
      BY <3>4, <3>5, SettledStays
  <2>3. ASSUME NEW r \in Requests, NEW taken \in SUBSET batch[r], Takes(r, taken)
        PROVE  \A i \in Ids : memory'[i] = memory[i] \/ memory'[i].kind = "pending"
    BY <2>3, EntryKinds DEF Takes, IdsOf
  <2>4. ASSUME NEW r \in Requests, NEW s, Gives(r, s)
        PROVE  \A i \in Ids : memory'[i] = memory[i] \/ memory'[i] = Vacant
    BY <2>4 DEF Gives
  <2>5. ASSUME NEW e \in Ops, Evict(e)
        PROVE  \A i \in Ids : memory'[i] = memory[i] \/ memory'[i] = Vacant
    BY <2>5 DEF Evict, TypeOK
  <2>6. ASSUME \/ \E r \in Requests :
                     \/ \E ops \in Batches : Submit(r, ops)
                     \/ \E s \in StateShards : ApplyShard(r, s)
                     \/ Moves(r) \/ AppendLog(r) \/ DetachedAppend(r) \/ SendPublish(r)
                     \/ SendPersist(r) \/ Cancel(r)
               \/ PublishTake \/ Publish \/ PersistTake \/ PersistInsert \/ PersistFails \/ UNCHANGED vars
        PROVE  UNCHANGED memory
    BY <2>6 DEF Submit, ApplyShard, Moves, AppendLog, DetachedAppend, SendPublish, SendPersist,
                Cancel, PublishTake, Publish, PersistTake, PersistInsert, PersistFails, vars
  <2>. QED
    BY <1>1, <2>0, <2>1, <2>2, <2>3, <2>4, <2>5, <2>6, StepCases, EntryKinds
<1>2. /\ persistBatch \in SUBSET Ops
      /\ \A o \in persistBatch : FpIn(persistBatch, o.id) = o.fp
  <2>1. persistBatch \in SUBSET Ops /\ \A o, p \in persistBatch : ~Clash(o, p)
    BY DEF TypeOK, SettledInv, Settled, LogInv
  <2>. QED
    BY <2>1, OneContent
<1>3. \/ disk' = disk
      \/ PersistInsert
  BY ZenonT(60), StepCases
  DEF Submit, Takes, Gives, Moves, restVars, CommitShard, ApplyShard, AppendLog, DetachedAppend,
      SendPublish, SendPersist, Cancel, PublishTake, Publish, PersistTake, PersistFails, Evict,
      vars, diskVars
<1>4. ASSUME NEW o \in Ops, disk'[o.id] = o.fp
      PROVE  Settled(o)'
  <2>0. o.id \in Ids /\ o.fp \in Fps /\ o = [id |-> o.id, fp |-> o.fp]
    BY DEF Ops
  <2>1. CASE disk'[o.id] = disk[o.id]
    <3>1. disk[o.id] # NoFp
      BY <1>4, <2>0, <2>1, StoreAssumption
    <3>. QED
      BY <1>4, <2>0, <2>1, <3>1, SettledStays DEF SettledInv
  <2>2. CASE PersistInsert /\ disk'[o.id] # disk[o.id]
    <3>1. o.id \in IdsOf(persistBatch) /\ o.fp = FpIn(persistBatch, o.id)
      BY <1>4, <2>0, <2>2 DEF PersistInsert
    <3>2. o \in persistBatch
      BY <1>2, <2>0, <3>1, FpInType
    <3>. QED
      BY <3>2, SettledStays DEF SettledInv
  <2>. QED
    BY <1>3, <2>1, <2>2
<1>5. \A r \in Requests : \A o \in harvest'[r] : Settled(o)'
  <2>1. ASSUME NEW r \in Requests, NEW o \in harvest[r]
        PROVE  Settled(o)'
    BY SettledStays DEF TypeOK, SettledInv
  <2>2. ASSUME NEW r \in Requests, NEW s \in DedupShards, CommitShard(r, s)
        PROVE  /\ harvest'[r] \subseteq harvest[r] \cup fresh[r]
               /\ \A q \in Requests \ {r} : harvest'[q] = harvest[q]
               /\ \A o \in fresh[r] : o \in Ops /\ Settled(o)
    <3>1. /\ pc[r] = "committing" /\ s \in todo[r]
          /\ harvest' = [harvest EXCEPT ![r] = @ \cup
               {[id |-> i, fp |-> memory[i].fp] : i \in Held(IdsOf(InShard(fresh[r], s)))}]
      BY <2>2 DEF CommitShard, IsNextShard
    <3>2. ASSUME NEW i \in Held(IdsOf(InShard(fresh[r], s)))
          PROVE  [id |-> i, fp |-> memory[i].fp] \in fresh[r]
      <4>1. PICK o \in fresh[r] : o.id = i /\ DedupShardOf[i] = s
        BY DEF Held, IdsOf, InShard
      <4>2. memory[i] = Pending(o.fp, r) /\ o \in Ops
        BY <3>1, <4>1 DEF OwnInv, TypeOK
      <4>3. o = [id |-> i, fp |-> memory[i].fp]
        BY <4>1, <4>2, EntryKinds DEF Ops
      <4>. QED
        BY <4>3
    <3>3. \A o \in fresh[r] : o \in Ops /\ Settled(o)
      BY <3>1, AppliedIsSettled DEF TypeOK, Logged
    <3>. QED
      BY <3>1, <3>2, <3>3 DEF TypeOK
  <2>3. ASSUME \A r \in Requests : \A s \in DedupShards : ~CommitShard(r, s)
        PROVE  harvest' = harvest
    BY ZenonT(60), <2>3, StepCases
    DEF Submit, Takes, Gives, Moves, ApplyShard, AppendLog, DetachedAppend, SendPublish,
        SendPersist, Cancel, PublishTake, Publish, PersistTake, PersistInsert, PersistFails, Evict,
        vars, reqVars
  <2>4. ASSUME NEW r \in Requests, NEW s \in DedupShards, CommitShard(r, s),
               NEW q \in Requests, NEW o \in harvest'[q]
        PROVE  Settled(o)'
    BY <2>1, <2>2, <2>4, SettledStays
  <2>. QED
    BY <2>1, <2>3, <2>4
<1>6. \A k \in 1..Len(persistQueue') : \A o \in persistQueue'[k] : Settled(o)'
  <2>1. ASSUME NEW k \in 1..Len(persistQueue), NEW o \in persistQueue[k]
        PROVE  Settled(o)'
    <3>1. persistQueue[k] \in SUBSET Ops
      BY DEF TypeOK
    <3>. QED
      BY <3>1, SettledStays DEF SettledInv
  <2>2. ASSUME NEW r \in Requests, SendPersist(r), persistQueue' # persistQueue
        PROVE  \A k \in 1..Len(persistQueue') :
                  \/ k \in 1..Len(persistQueue) /\ persistQueue'[k] = persistQueue[k]
                  \/ persistQueue'[k] = harvest[r]
    <3>1. persistQueue' = Append(persistQueue, harvest[r]) /\ persistQueue \in Seq(SUBSET Ops)
      BY <2>2 DEF SendPersist, TypeOK
    <3>2. harvest[r] \in SUBSET Ops
      BY DEF TypeOK
    <3>. QED
      BY <3>1, <3>2
  <2>3. ASSUME PersistTake
        PROVE  \A k \in 1..Len(persistQueue') : k+1 \in 1..Len(persistQueue) /\ persistQueue'[k] = persistQueue[k+1]
    <3>1. persistQueue' = Tail(persistQueue) /\ persistQueue \in Seq(SUBSET Ops) /\ persistQueue # <<>>
      BY <2>3 DEF PersistTake, TypeOK
    <3>. QED
      BY <3>1
  <2>4. \/ persistQueue' = persistQueue
        \/ PersistTake
        \/ \E r \in Requests : SendPersist(r)
    BY ZenonT(60), StepCases
    DEF Submit, Takes, Gives, Moves, restVars, CommitShard, ApplyShard, AppendLog, DetachedAppend,
        SendPublish, Cancel, PublishTake, Publish, PersistInsert, PersistFails, Evict,
        vars, diskVars
  <2>5. \A r \in Requests : \A o \in harvest[r] : Settled(o)'
    BY SettledStays DEF TypeOK, SettledInv
  <2>. QED
    BY <2>1, <2>2, <2>3, <2>4, <2>5
<1>7. /\ \A o \in persistBatch' : Settled(o)'
      /\ persistPhase' = "evicting" => \A o \in persistBatch' : disk'[o.id] = o.fp
  <2>1. \A o \in persistBatch : Settled(o)'
    BY SettledStays DEF TypeOK, SettledInv
  <2>2. CASE PersistTake
    <3>1. 1 \in 1..Len(persistQueue) /\ Head(persistQueue) = persistQueue[1]
          /\ Head(persistQueue) \in SUBSET Ops
      BY <2>2 DEF PersistTake, TypeOK
    <3>2. \A o \in Head(persistQueue) : Settled(o)'
      BY <3>1, SettledStays DEF SettledInv
    <3>. QED
      BY <2>1, <2>2, <3>2 DEF PersistTake
  <2>3. CASE PersistInsert
    <3>1. \A o \in persistBatch : o.id \in Ids /\ o.id \in IdsOf(persistBatch)
      BY <1>2 DEF Ops, IdsOf
    <3>. QED
      BY <1>2, <2>1, <2>3, <3>1 DEF PersistInsert
  <2>4. ASSUME PersistFails \/ \E o \in Ops : Evict(o)
        PROVE  /\ persistBatch' \subseteq persistBatch /\ disk' = disk
               /\ persistPhase' = "evicting" => persistPhase = "evicting"
    BY <2>4 DEF PersistFails, Evict
  <2>5. ASSUME ~PersistTake, ~PersistInsert, ~PersistFails, \A o \in Ops : ~Evict(o)
        PROVE  UNCHANGED <<persistBatch, persistPhase, disk>>
    BY ZenonT(60), <2>5, StepCases
    DEF Submit, Takes, Gives, Moves, restVars, CommitShard, ApplyShard, AppendLog, DetachedAppend,
        SendPublish, SendPersist, Cancel, PublishTake, Publish, vars, diskVars
  <2>. QED
    BY <2>1, <2>2, <2>3, <2>4, <2>5 DEF SettledInv
<1>8. \A i \in Ids : (memory[i].kind = "committed" => Settled([id |-> i, fp |-> memory[i].fp]))'
  <2>. SUFFICES ASSUME NEW i \in Ids, memory'[i].kind = "committed"
                PROVE  Settled([id |-> i, fp |-> memory[i].fp])'
    OBVIOUS
  <2>1. memory'[i].fp \in Fps
    BY <1>0 DEF TypeOK, Entries, Vacant
  <2>2. PICK o \in Ops : o = [id |-> i, fp |-> memory'[i].fp]
    BY <2>1 DEF Ops
  <2>3. Settled(o)'
    BY <1>1, <2>2
  <2>. QED
    BY <2>2, <2>3 DEF Settled
<1>9. \A i \in Ids : (disk[i] # NoFp => Settled([id |-> i, fp |-> disk[i]]))'
  <2>. SUFFICES ASSUME NEW i \in Ids, disk'[i] # NoFp
                PROVE  Settled([id |-> i, fp |-> disk[i]])'
    OBVIOUS
  <2>1. disk'[i] \in Fps
    BY <1>0 DEF TypeOK
  <2>2. PICK o \in Ops : o = [id |-> i, fp |-> disk'[i]]
    BY <2>1 DEF Ops
  <2>3. Settled(o)'
    BY <1>4, <2>2
  <2>. QED
    BY <2>2, <2>3 DEF Settled
<1>. QED
  BY <1>5, <1>6, <1>7, <1>8, <1>9 DEF SettledInv

\* An entry is absent, a reservation or committed.
LEMMA EntryIsOneOf ==
    ASSUME TypeOK, NEW i \in Ids
    PROVE  memory[i] = Vacant \/ memory[i].kind \in {"pending", "committed"}
  BY DEF TypeOK, Entries

\* The scan passes only reservations of its own and settled duplicates.
LEMMA PassedIsSettled ==
    ASSUME DInv, NEW o \in Ops, ~IsNew(o), ~IsHeld(o), ~IsRefused(o)
    PROVE  Settled(o)
<1>. USE DEF DInv, IInv
<1>1. o.id \in Ids /\ o.fp \in Fps /\ o = [id |-> o.id, fp |-> o.fp]
  BY DEF Ops
<1>2. CASE memory[o.id] = Vacant
  <2>1. disk[o.id] # NoFp /\ disk[o.id] = o.fp
    BY <1>2 DEF IsNew, IsRefused
  <2>. QED
    BY <1>1, <2>1 DEF SettledInv
<1>3. CASE memory[o.id] # Vacant
  <2>1. memory[o.id].kind = "committed" /\ memory[o.id].fp = o.fp
    BY <1>1, <1>3, EntryIsOneOf DEF IsRefused, IsHeld
  <2>. QED
    BY <1>1, <2>1 DEF SettledInv
<1>. QED
  BY <1>2, <1>3

\* Whatever refuses an operation was asked for by somebody, or is durable.
LEMMA RefusedIsDisputed ==
    ASSUME DInv, NEW r \in Requests, NEW o \in batch[r], IsRefused(o)
    PROVE  Disputed(batch[r])
<1>. USE DEF DInv, IInv
<1>1. o \in Ops /\ o.id \in Ids /\ o.fp \in Fps
  BY DEF TypeOK, Ops
<1>2. SUFFICES \E p \in logged \cup UNION {batch[q] : q \in Requests} : Clash(o, p)
  BY DEF Disputed
<1>3. ASSUME NEW f, f # o.fp, [id |-> o.id, fp |-> f] \in logged \cup UNION {batch[q] : q \in Requests}
      PROVE  \E p \in logged \cup UNION {batch[q] : q \in Requests} : Clash(o, p)
  BY <1>3 DEF Clash
<1>4. CASE memory[o.id] = Vacant
  <2>1. disk[o.id] # NoFp /\ disk[o.id] # o.fp
    BY <1>4 DEF IsRefused
  <2>2. [id |-> o.id, fp |-> disk[o.id]] \in logged
    BY <1>1, <2>1 DEF SettledInv, Settled
  <2>. QED
    BY <1>3, <2>1, <2>2
<1>5. CASE memory[o.id].kind = "committed"
  <2>1. memory[o.id].fp # o.fp
    BY <1>5, EntryKinds DEF IsRefused
  <2>2. [id |-> o.id, fp |-> memory[o.id].fp] \in logged
    BY <1>1, <1>5 DEF SettledInv, Settled
  <2>. QED
    BY <1>3, <2>1, <2>2
<1>6. CASE memory[o.id].kind = "pending"
  <2>1. memory[o.id].fp # o.fp /\ memory[o.id].by \in Requests
    BY <1>1, <1>6, EntryKinds, PendingEntry DEF IsRefused
  <2>2. [id |-> o.id, fp |-> memory[o.id].fp] \in batch[memory[o.id].by]
    BY <1>1, <1>6, <2>1 DEF HolderInv, AnswerInv
  <2>. QED
    BY <1>3, <2>1, <2>2
<1>. QED
  BY <1>1, <1>4, <1>5, <1>6, EntryIsOneOf

\* ScanInv for one request.
Scanned(r) ==
    /\ pc[r] = "reserving" => \A o \in batch[r] :
          DedupShardOf[o.id] \in todo[r] \/ o \in fresh[r] \/ Settled(o)
    /\ pc[r] \in Logged \cup {"logging", "detached"} =>
          \A o \in batch[r] : o \in fresh[r] \/ Settled(o)
    /\ pc[r] = "refusing" => Disputed(batch[r])

\* Batches stay what they are, once submitted.
LEMMA BatchStays ==
    ASSUME DInv, [Next]_vars
    PROVE  \/ batch' = batch
           \/ \E r \in Requests : \E ops \in Batches : Submit(r, ops)
  BY ZenonT(60), StepCases
  DEF Takes, Gives, Moves, CommitShard, ApplyShard, AppendLog, DetachedAppend, SendPublish,
      SendPersist, Cancel, PublishTake, Publish, PersistTake, PersistInsert, PersistFails, Evict,
      vars, reqVars

\* A dispute is not settled by what comes later.
LEMMA DisputeStays ==
    ASSUME DInv, [Next]_vars, NEW q \in Requests, batch'[q] = batch[q], Disputed(batch[q])
    PROVE  Disputed(batch[q])'
<1>. USE DEF DInv, IInv
<1>1. \A r \in Requests : batch[r] \subseteq batch'[r]
  <2>1. ASSUME NEW r \in Requests, NEW ops \in Batches, Submit(r, ops)
        PROVE  \A u \in Requests : batch[u] \subseteq batch'[u]
    BY <2>1 DEF Submit, TypeOK, AnswerInv
  <2>. QED
    BY <2>1, BatchStays
<1>2. logged \subseteq logged'
  BY LogGrows
<1>. QED
  BY <1>1, <1>2 DEF Disputed

\* A request that stays behind or in its scan stays scanned.
LEMMA ScannedStays ==
    ASSUME DInv, [Next]_vars, NEW q \in Requests,
           batch'[q] = batch[q], fresh'[q] = fresh[q],
           pc'[q] = "reserving" => \/ todo'[q] = ShardsOf(batch[q])
                                   \/ pc[q] = "reserving" /\ todo'[q] = todo[q],
           pc'[q] \in Logged \cup {"logging", "detached"} =>
              \/ pc[q] \in Logged \cup {"logging", "detached"}
              \/ pc[q] = "reserving" /\ todo[q] = {},
           pc'[q] = "refusing" => pc[q] = "refusing"
    PROVE  Scanned(q)'
<1>. USE DEF DInv, IInv
<1>1. \A o \in batch[q] : Settled(o) => Settled(o)'
  BY SettledStays DEF TypeOK
<1>2. Scanned(q)
  BY DEF ScanInv, Scanned
<1>3. ASSUME pc'[q] = "reserving", NEW o \in batch[q]
      PROVE  DedupShardOf[o.id] \in todo'[q] \/ o \in fresh[q] \/ Settled(o)'
  BY <1>1, <1>2, <1>3 DEF Scanned, ShardsOf
<1>4. ASSUME pc'[q] \in Logged \cup {"logging", "detached"}, NEW o \in batch[q]
      PROVE  o \in fresh[q] \/ Settled(o)'
  BY <1>1, <1>2, <1>4 DEF Scanned
<1>5. pc'[q] = "refusing" => Disputed(batch[q])'
  BY <1>2, DisputeStays DEF Scanned
<1>. QED
  BY <1>3, <1>4, <1>5 DEF Scanned

\* What a scan passes is its own or settled, and it stops for a reason.
LEMMA ScanTakes ==
    ASSUME DInv, [Next]_vars, NEW r \in Requests, NEW taken \in SUBSET batch[r], Takes(r, taken)
    PROVE  Scanned(r)'
<1>. USE DEF DInv, IInv
<1>1. batch' = batch /\ fresh'[r] = fresh[r] \cup taken
  BY DEF Takes
<1>2. \A o \in batch[r] : o \in Ops
  BY DEF TypeOK
<1>3. ASSUME pc'[r] = "reserving", NEW o \in batch[r]
      PROVE  DedupShardOf[o.id] \in todo'[r] \/ o \in fresh'[r] \/ Settled(o)'
  <2>1. CASE DedupShardOf[o.id] \notin todo[r]
    BY <1>1, <1>2, <2>1, SettledStays DEF ScanInv, Takes
  <2>2. CASE ~IsNew(o) /\ ~IsHeld(o) /\ ~IsRefused(o)
    BY <1>2, <2>2, PassedIsSettled, SettledStays
  <2>. QED
    BY <1>1, <1>3, <2>1, <2>2 DEF Takes
<1>4. ASSUME pc'[r] = "refusing"
      PROVE  Disputed(batch[r])'
  <2>1. Disputed(batch[r])
    BY <1>4, RefusedIsDisputed DEF Takes
  <2>. QED
    BY <1>1, <2>1, DisputeStays
<1>5. pc'[r] \notin Logged \cup {"logging", "detached"}
  BY DEF Takes, Logged
<1>. QED
  BY <1>1, <1>3, <1>4, <1>5 DEF Scanned

\* Every request keeps what its scan found out.
LEMMA ScanStep ==
    ASSUME DInv, [Next]_vars
    PROVE  ScanInv'
<1>. USE DEF DInv, IInv, Goto, Finish
<1>. SUFFICES ASSUME NEW q \in Requests PROVE Scanned(q)'
  BY DEF ScanInv, Scanned
<1>1. ASSUME NEW r \in Requests, NEW ops \in Batches, Submit(r, ops)
      PROVE  Scanned(q)'
  <2>1. CASE q = r
    <3>1. /\ batch'[q] = ops
          /\ pc'[q] = "done" \/ (pc'[q] = "reserving" /\ todo'[q] = ShardsOf(ops))
      BY <1>1, <2>1 DEF Submit, TypeOK
    <3>. QED
      BY <3>1 DEF Scanned, ShardsOf, Logged
  <2>2. CASE q # r
    <3>1. /\ pc'[q] = pc[q] /\ batch'[q] = batch[q] /\ todo'[q] = todo[q]
          /\ fresh' = fresh
      BY <1>1, <2>2 DEF Submit, TypeOK
    <3>. QED
      BY <3>1, ScannedStays
  <2>. QED
    BY <2>1, <2>2
<1>2. ASSUME NEW r \in Requests, NEW taken \in SUBSET batch[r], Takes(r, taken)
      PROVE  Scanned(q)'
  <2>1. CASE q # r
    <3>1. pc'[q] = pc[q] /\ batch' = batch /\ todo'[q] = todo[q] /\ fresh'[q] = fresh[q]
      BY <1>2, <2>1 DEF Takes, Unmoved
    <3>. QED
      BY <3>1, ScannedStays
  <2>. QED
    BY <1>2, <2>1, ScanTakes
<1>3. ASSUME NEW r \in Requests, NEW s \in DedupShards, Gives(r, s)
      PROVE  Scanned(q)'
  <2>1. CASE q # r
    <3>1. pc'[q] = pc[q] /\ batch' = batch /\ todo'[q] = todo[q] /\ fresh'[q] = fresh[q]
      BY <1>3, <2>1 DEF Gives, Unmoved
    <3>. QED
      BY <3>1, ScannedStays
  <2>2. CASE q = r
    <3>1. pc[q] \in {"yielding", "refusing", "aborting"} /\ pc'[q] = pc[q] /\ batch' = batch
      BY <1>3, <2>2 DEF Gives
    <3>. QED
      BY <3>1, DisputeStays DEF ScanInv, Scanned, Logged
  <2>. QED
    BY <2>1, <2>2
<1>4. ASSUME NEW r \in Requests, Moves(r)
      PROVE  Scanned(q)'
  <2>1. batch' = batch /\ fresh' = fresh
    BY <1>4 DEF Moves
  <2>2. CASE q # r
    BY <1>4, <2>1, <2>2, ScannedStays DEF Moves, Unmoved
  <2>3. CASE q = r
    BY <1>4, <2>1, <2>3, ScannedStays DEF Moves, Logged
  <2>. QED
    BY <2>2, <2>3
<1>5. ASSUME NEW r \in Requests,
             \/ \E s \in DedupShards : CommitShard(r, s)
             \/ AppendLog(r) \/ DetachedAppend(r) \/ SendPublish(r) \/ SendPersist(r) \/ Cancel(r)
      PROVE  Scanned(q)'
  <2>1. batch' = batch /\ fresh' = fresh
    BY <1>5 DEF CommitShard, AppendLog, DetachedAppend, SendPublish, SendPersist, Cancel
  <2>2. CASE q # r
    <3>1. pc'[q] = pc[q] /\ todo'[q] = todo[q]
      BY <1>5, <2>2 DEF CommitShard, AppendLog, DetachedAppend, SendPublish, SendPersist, Cancel, TypeOK
    <3>. QED
      BY <2>1, <3>1, ScannedStays
  <2>3. CASE q = r
    <3>1. /\ pc'[q] \notin {"reserving", "refusing"}
          /\ pc'[q] \in Logged \cup {"logging", "detached"} => pc[q] \in Logged \cup {"logging", "detached"}
      BY <1>5, <2>3
      DEF CommitShard, AppendLog, DetachedAppend, SendPublish, SendPersist, Cancel, TypeOK, Logged
    <3>. QED
      BY <2>1, <3>1, ScannedStays
  <2>. QED
    BY <2>2, <2>3
<1>6. ASSUME \/ \E r \in Requests : \E s \in StateShards : ApplyShard(r, s)
             \/ PublishTake \/ Publish
             \/ PersistTake \/ PersistInsert \/ PersistFails \/ \E o \in Ops : Evict(o)
             \/ UNCHANGED vars
      PROVE  Scanned(q)'
  <2>1. UNCHANGED <<batch, fresh, todo>>
    BY <1>6 DEF ApplyShard, PublishTake, Publish, PersistTake, PersistInsert, PersistFails, Evict,
                vars, reqVars
  <2>2. pc'[q] = pc[q] \/ (pc[q] = "publishing" /\ pc'[q] = "persisting")
    BY <1>6 DEF ApplyShard, PublishTake, Publish, PersistTake, PersistInsert, PersistFails, Evict,
                vars, reqVars
  <2>. QED
    BY <2>1, <2>2, ScannedStays DEF Logged
<1>. QED
  BY <1>1, <1>2, <1>3, <1>4, <1>5, <1>6, StepCases

\* A command that is gone was executed, unless its client is gone.
LEMMA ApplyInvStep ==
    ASSUME DInv, [Next]_vars
    PROVE  ApplyInv'
<1>. USE DEF DInv, IInv, Goto, Finish
<1>0. \A o \in Ops : balance[o] = 1 => balance'[o] = 1
  BY IInvStep, BalanceGrows DEF AtMostOnce
<1>1. ASSUME \A q \in Requests :
               \/ fresh'[q] = fresh[q] /\ jobs' = jobs /\ pc'[q] = pc[q]
               \/ pc'[q] \notin Logged
      PROVE  ApplyInv'
  BY <1>0, <1>1 DEF ApplyInv, Logged, TypeOK
<1>2. ASSUME NEW r \in Requests, Moves(r)
      PROVE  ApplyInv'
  <2>1. UNCHANGED <<fresh, jobs>> /\ \A q \in Requests \ {r} : pc'[q] = pc[q]
    BY <1>2 DEF Moves, Unmoved, restVars
  <2>2. CASE pc'[r] \notin Logged
    BY <1>1, <2>1, <2>2
  <2>3. CASE pc'[r] = "committing"
    <3>1. \A o \in fresh[r] : balance'[o] = 1
      BY <1>0, <1>2, <2>3 DEF Moves, ApplyInv, TypeOK
    <3>. QED
      BY <1>0, <2>1, <2>3, <3>1 DEF ApplyInv, TypeOK
  <2>. QED
    BY <1>2, <2>2, <2>3 DEF Moves, Logged
<1>3. ASSUME NEW r \in Requests, AppendLog(r)
      PROVE  ApplyInv'
  <2>1. /\ jobs' = jobs \cup ({r} \X {StateShardOf[o.fp] : o \in fresh[r]})
        /\ fresh' = fresh /\ pc'[r] = "applying" /\ \A q \in Requests \ {r} : pc'[q] = pc[q]
    BY <1>3 DEF AppendLog, TypeOK
  <2>. QED
    BY <1>0, <2>1 DEF ApplyInv, TypeOK
<1>4. ASSUME NEW r \in Requests, NEW s \in StateShards, ApplyShard(r, s)
      PROVE  ApplyInv'
  <2>1. /\ jobs' = jobs \ {<<r, s>>} /\ UNCHANGED <<fresh, pc>>
        /\ \A o \in Ops : balance'[o] = IF o \in fresh[r] /\ StateShardOf[o.fp] = s
                                          THEN balance[o] + 1 ELSE balance[o]
        /\ <<r, s>> \in jobs
    BY <1>4 DEF ApplyShard, reqVars
  <2>2. \A o \in fresh[r] : StateShardOf[o.fp] = s => balance'[o] = 1
    BY <2>1 DEF JobInv, Unapplied, TypeOK
  <2>3. ASSUME NEW q \in Requests, NEW o \in fresh[q], <<q, StateShardOf[o.fp]>> \in jobs
        PROVE  <<q, StateShardOf[o.fp]>> \in jobs' \/ balance'[o] = 1
    BY <2>1, <2>2, <2>3
  <2>. QED
    BY <1>0, <2>1, <2>3 DEF ApplyInv, TypeOK
<1>5. ASSUME NEW r \in Requests, Cancel(r)
      PROVE  ApplyInv'
  <2>1. /\ fresh' = fresh /\ pc'[r] \in {"done", "detached"}
        /\ \A q \in Requests \ {r} : pc'[q] = pc[q]
    BY <1>5 DEF Cancel, TypeOK
  <2>2. {j \in jobs : j[1] # r} \subseteq jobs'
    BY <1>5 DEF Cancel
  <2>3. ASSUME NEW q \in Requests \ {r}, NEW s, <<q, s>> \in jobs
        PROVE  <<q, s>> \in jobs'
    BY <2>2, <2>3
  <2>4. ASSUME NEW q \in Requests, NEW o \in fresh[q]
        PROVE  /\ pc'[q] = "applying" => <<q, StateShardOf[o.fp]>> \in jobs' \/ balance'[o] = 1
               /\ pc'[q] \in Logged \ {"applying"} => balance'[o] = 1
    <3>1. CASE q = r
      BY <2>1, <3>1 DEF Logged
    <3>2. CASE q # r
      <4>1. o \in Ops /\ pc'[q] = pc[q]
        BY <2>1, <3>2 DEF TypeOK
      <4>2. pc[q] = "applying" => <<q, StateShardOf[o.fp]>> \in jobs \/ balance[o] = 1
        BY DEF ApplyInv
      <4>3. pc[q] \in Logged \ {"applying"} => balance[o] = 1
        BY DEF ApplyInv
      <4>. QED
        BY <1>0, <2>3, <3>2, <4>1, <4>2, <4>3
    <3>. QED
      BY <3>1, <3>2
  <2>. QED
    BY <2>1, <2>4 DEF ApplyInv
<1>6. ASSUME NEW r \in Requests, SendPublish(r) \/ SendPersist(r)
      PROVE  ApplyInv'
  <2>1. /\ UNCHANGED <<fresh, jobs>> /\ pc[r] \in Logged \ {"applying"} /\ pc'[r] # "applying"
        /\ \A q \in Requests \ {r} : pc'[q] = pc[q]
    BY <1>6 DEF SendPublish, SendPersist, TypeOK, stateVars, Logged
  <2>. QED
    BY ZenonT(60), <1>0, <2>1 DEF ApplyInv, TypeOK
<1>7. CASE Publish
  <2>1. /\ UNCHANGED <<fresh, jobs>>
        /\ \A q \in Requests : pc'[q] = pc[q] \/ (pc[q] = "publishing" /\ pc'[q] = "persisting")
    BY <1>7 DEF Publish, stateVars
  <2>. QED
    BY <1>0, <2>1 DEF ApplyInv, TypeOK, Logged
<1>8. ASSUME NEW r \in Requests,
             \/ \E ops \in Batches : Submit(r, ops)
             \/ DetachedAppend(r)
             \/ \E s \in DedupShards : CommitShard(r, s)
      PROVE  ApplyInv'
  <2>1. UNCHANGED <<fresh, jobs>> /\ \A q \in Requests : pc'[q] = pc[q] \/ pc'[q] \notin Logged
    BY <1>8 DEF Submit, DetachedAppend, CommitShard, stateVars, TypeOK, Logged
  <2>. QED
    BY <1>1, <2>1
<1>9. ASSUME NEW r \in Requests,
             \/ \E taken \in SUBSET batch[r] : Takes(r, taken)
             \/ \E s \in DedupShards : Gives(r, s)
      PROVE  ApplyInv'
  <2>1. /\ jobs' = jobs
        /\ pc'[r] \in {"reserving", "yielding", "refusing", "aborting"}
        /\ \A q \in Requests \ {r} : pc'[q] = pc[q] /\ fresh'[q] = fresh[q]
    BY <1>9 DEF Takes, Gives, Unmoved, restVars
  <2>. QED
    BY <1>1, <2>1 DEF Logged
<1>10. ASSUME PublishTake \/ PersistTake \/ PersistInsert \/ PersistFails \/ (\E o \in Ops : Evict(o)) \/ UNCHANGED vars
       PROVE  ApplyInv'
  <2>1. UNCHANGED <<pc, fresh, jobs>>
    BY <1>10 DEF PublishTake, PersistTake, PersistInsert, PersistFails, Evict, vars, reqVars, stateVars
  <2>. QED
    BY <1>1, <2>1
<1>. QED
  BY <1>2, <1>3, <1>4, <1>5, <1>6, <1>7, <1>8, <1>9, <1>10, StepCases

\* The publications joined carry an operation at most once, since at most one
\* request has reserved it.
LEMMA CarriedOnce ==
    ASSUME DInv, NEW o \in Ops
    PROVE  /\ (\E r \in pubBatch : o \in fresh[r]) => Carried(o) = 1
           /\ (\A r \in pubBatch : o \notin fresh[r]) => Carried(o) = 0
<1>. USE DEF DInv, IInv
<1>1. pubBatch \subseteq Requests
  BY DEF TypeOK
<1>2. ASSUME NEW r \in pubBatch, o \in fresh[r]
      PROVE  Carried(o) = 1
  <2>1. {q \in pubBatch : o \in fresh[q]} = {r}
    BY <1>1, <1>2 DEF HolderInv
  <2>. QED
    BY <2>1, FS_Singleton DEF Carried
<1>3. ASSUME \A r \in pubBatch : o \notin fresh[r]
      PROVE  Carried(o) = 0
  <2>1. {q \in pubBatch : o \in fresh[q]} = {}
    BY <1>3
  <2>. QED
    BY <2>1, FS_EmptySet DEF Carried
<1>. QED
  BY <1>2, <1>3

\* What the publisher does to one operation.
LEMMA PublishFacts ==
    ASSUME DInv, Publish
    PROVE  /\ \A r \in pubBatch : \A o \in fresh[r] :
                published[o] = 0 /\ balance[o] = 1 /\ published'[o] = 1
           /\ \A o \in Ops : (\A r \in pubBatch : o \notin fresh[r]) => published'[o] = published[o]
<1>. USE DEF DInv, IInv
<1>1. \A o \in Ops : published'[o] = published[o] + Carried(o) /\ published[o] \in Nat
  BY DEF Publish, TypeOK
<1>2. ASSUME NEW r \in pubBatch, NEW o \in fresh[r]
      PROVE  published[o] = 0 /\ balance[o] = 1 /\ published'[o] = 1
  <2>1. r \in Requests /\ r \in Publishing /\ o \in Ops
    BY DEF TypeOK, Publishing
  <2>2. published[o] = 0 /\ balance[o] = 1
    BY <2>1 DEF PublishInv
  <2>. QED
    BY <1>1, <2>1, <2>2, CarriedOnce
<1>. QED
  BY <1>1, <1>2, CarriedOnce

\* Only the publisher touches the published balances.
LEMMA OnlyPublish ==
    ASSUME DInv, [Next]_vars
    PROVE  published' = published \/ Publish
  BY ZenonT(60), StepCases
  DEF Submit, Takes, Gives, Moves, restVars, CommitShard, ApplyShard, AppendLog, DetachedAppend,
      SendPublish, SendPersist, Cancel, PublishTake, PersistTake, PersistInsert, PersistFails,
      Evict, vars, pubVars

\* The published balances never go back, and never overtake the state shards.
LEMMA PublishedGrows ==
    ASSUME DInv, [Next]_vars
    PROVE  /\ PublishedFollows'
           /\ \A o \in Ops : published'[o] >= published[o]
<1>. USE DEF DInv, IInv
<1>1. \A o \in Ops : /\ published[o] \in Nat /\ published[o] <= balance[o]
                     /\ balance[o] \in Nat /\ balance'[o] \in Nat /\ balance'[o] >= balance[o]
  BY BalanceGrows DEF TypeOK, PublishInv, PublishedFollows
<1>2. CASE published' = published
  BY <1>1, <1>2 DEF PublishedFollows
<1>3. CASE Publish
  <2>1. balance' = balance
    BY <1>3 DEF Publish, stateVars
  <2>2. \A o \in Ops : published'[o] = published[o] \/ (published[o] = 0 /\ published'[o] = 1 /\ balance[o] = 1)
    BY <1>3, PublishFacts
  <2>. QED
    BY <1>1, <2>1, <2>2 DEF PublishedFollows
<1>. QED
  BY <1>2, <1>3, OnlyPublish

\* The publications queued or joined change only so.
LEMMA PublishingStep ==
    ASSUME DInv, [Next]_vars
    PROVE  /\ \A j, k \in 1..Len(pubQueue') : pubQueue'[j] = pubQueue'[k] => j = k
           /\ \A k \in 1..Len(pubQueue') : pubQueue'[k] \notin pubBatch'
           /\ \A q \in Publishing' : \/ q \in Publishing /\ ~(Publish /\ q \in pubBatch)
                                     \/ q \in Requests /\ SendPublish(q)
<1>. USE DEF DInv, IInv
<1>1. pubQueue \in Seq(Requests) /\ pubBatch \subseteq Requests
  BY DEF TypeOK
<1>2. ASSUME NEW r \in Requests, SendPublish(r)
      PROVE  /\ \A j, k \in 1..Len(pubQueue') : pubQueue'[j] = pubQueue'[k] => j = k
             /\ \A k \in 1..Len(pubQueue') : pubQueue'[k] \notin pubBatch'
             /\ \A q \in Publishing' : q \in Publishing \/ q = r
             /\ ~Publish
  <2>1. r \notin Publishing /\ pubBatch' = pubBatch /\ pubQueue' = Append(pubQueue, r)
    BY <1>2 DEF SendPublish, PublishInv
  <2>2. /\ Len(pubQueue') = Len(pubQueue) + 1
        /\ \A k \in 1..Len(pubQueue') :
             \/ k \in 1..Len(pubQueue) /\ pubQueue'[k] = pubQueue[k]
             \/ k = Len(pubQueue) + 1 /\ pubQueue'[k] = r
    BY <1>1, <2>1
  <2>3. \A k \in 1..Len(pubQueue) : pubQueue[k] # r
    BY <2>1 DEF Publishing
  <2>4. r \notin pubBatch
    BY <2>1 DEF Publishing
  <2>5. ~Publish
    <3>1. pc[r] = "committing" /\ pc'[r] = "publishing"
      BY <1>2 DEF SendPublish, TypeOK, Goto
    <3>. QED
      BY <3>1 DEF Publish
  <2>6. \A q \in Publishing' : q \in Publishing \/ q = r
    BY <2>1, <2>2 DEF Publishing
  <2>. QED
    BY <2>1, <2>2, <2>3, <2>4, <2>5, <2>6 DEF PublishInv
<1>3. CASE PublishTake
  <2>1. /\ pubQueue # <<>> /\ pubQueue' = Tail(pubQueue)
        /\ pubBatch' = pubBatch \cup {pubQueue[1]} /\ 1 \in 1..Len(pubQueue)
        /\ published' = published
    BY <1>1, <1>3 DEF PublishTake
  <2>2. \A k \in 1..Len(pubQueue') : k+1 \in 1..Len(pubQueue) /\ pubQueue'[k] = pubQueue[k+1] /\ k \in Nat
    BY <1>1, <2>1
  <2>3. \A k \in 1..Len(pubQueue') : pubQueue'[k] # pubQueue[1]
    BY <2>1, <2>2 DEF PublishInv
  <2>4. ~(Publish /\ pubBatch # {})
    <3>1. pubBatch' # {}
      BY <2>1
    <3>. QED
      BY <3>1 DEF Publish
  <2>5. \A q \in Publishing' : q \in Publishing
    BY <2>1, <2>2 DEF Publishing
  <2>6. \A j, k \in 1..Len(pubQueue') : pubQueue'[j] = pubQueue'[k] => j = k
    BY <2>2 DEF PublishInv
  <2>7. \A k \in 1..Len(pubQueue') : pubQueue'[k] \notin pubBatch'
    BY <2>1, <2>2, <2>3 DEF PublishInv
  <2>. QED
    BY <2>4, <2>5, <2>6, <2>7
<1>4. CASE Publish
  <2>1. pubBatch' = {} /\ pubQueue' = pubQueue
    BY <1>4 DEF Publish
  <2>2. \A q \in Publishing' : q \in Publishing /\ q \notin pubBatch
    BY <2>1 DEF Publishing, PublishInv
  <2>. QED
    BY <2>1, <2>2 DEF PublishInv
<1>5. CASE UNCHANGED <<pubQueue, pubBatch>>
  <2>1. ~(Publish /\ pubBatch # {})
    BY <1>5 DEF Publish
  <2>2. Publishing' = Publishing
    BY <1>5 DEF Publishing
  <2>. QED
    BY <1>5, <2>1, <2>2 DEF PublishInv
<1>. QED
  BY ZenonT(60), <1>2, <1>3, <1>4, <1>5, StepCases
  DEF Submit, Takes, Gives, Moves, restVars, CommitShard, ApplyShard, AppendLog, DetachedAppend,
      SendPersist, Cancel, PersistTake, PersistInsert, PersistFails, Evict, vars, pubVars

\* Places before a request's publication is queued.
Early == Unlogged \cup {"detached", "applying", "committing"}

\* How a request comes to its next place.
LEMMA PlaceStep ==
    ASSUME DInv, [Next]_vars, NEW q \in Requests
    PROVE  /\ pc'[q] \in Early => pc[q] \in Early
           /\ pc'[q] \in {"persisting", "waking"} =>
                 \/ pc[q] \in {"persisting", "waking"}
                 \/ Publish /\ q \in pubBatch
           /\ pc[q] \in {"publishing", "done"} =>
                 \/ pc'[q] \in {"publishing", "done"}
                 \/ Publish /\ q \in pubBatch
           /\ pc[q] = "done" => pc'[q] = "done"
<1>. USE DEF DInv, IInv, Goto, Finish
<1>. DEFINE Goal == /\ pc'[q] \in Early => pc[q] \in Early
                    /\ pc'[q] \in {"persisting", "waking"} =>
                          \/ pc[q] \in {"persisting", "waking"}
                          \/ Publish /\ q \in pubBatch
                    /\ pc[q] \in {"publishing", "done"} =>
                          \/ pc'[q] \in {"publishing", "done"}
                          \/ Publish /\ q \in pubBatch
                    /\ pc[q] = "done" => pc'[q] = "done"
<1>1. CASE pc'[q] = pc[q]
  BY <1>1
<1>2. ASSUME NEW r \in Requests, NEW ops \in Batches, Submit(r, ops)
      PROVE  Goal
  BY <1>1, <1>2 DEF Submit, TypeOK, Early, Unlogged
<1>3. ASSUME NEW r \in Requests,
             \/ \E taken \in SUBSET batch[r] : Takes(r, taken)
             \/ \E s \in DedupShards : Gives(r, s)
      PROVE  Goal
  <2>1. q # r => pc'[q] = pc[q]
    BY <1>3 DEF Takes, Gives, Unmoved
  <2>2. /\ pc[r] \in {"reserving", "yielding", "refusing", "aborting"}
        /\ pc'[r] \in {"reserving", "yielding", "refusing", "aborting"}
    BY <1>3 DEF Takes, Gives
  <2>. QED
    BY <1>1, <2>1, <2>2 DEF Early, Unlogged
<1>4. ASSUME NEW r \in Requests, Moves(r)
      PROVE  Goal
  <2>1. q # r => pc'[q] = pc[q]
    BY <1>4 DEF Moves, Unmoved
  <2>2. /\ pc'[r] \in Early => pc[r] \in Early
        /\ pc'[r] \notin {"persisting", "waking"}
        /\ pc[r] \notin {"publishing", "done"}
    BY <1>4 DEF Moves, Early, Unlogged
  <2>. QED
    BY <1>1, <2>1, <2>2
<1>5. ASSUME NEW r \in Requests,
             \/ \E s \in DedupShards : CommitShard(r, s)
             \/ \E s \in StateShards : ApplyShard(r, s)
             \/ AppendLog(r) \/ DetachedAppend(r) \/ SendPublish(r) \/ SendPersist(r) \/ Cancel(r)
      PROVE  Goal
  <2>1. CASE \/ \E s \in DedupShards : CommitShard(r, s)
             \/ \E s \in StateShards : ApplyShard(r, s)
    BY <1>1, <2>1 DEF CommitShard, ApplyShard, reqVars
  <2>2. CASE AppendLog(r) \/ DetachedAppend(r) \/ SendPublish(r) \/ SendPersist(r) \/ Cancel(r)
    <3>1. q # r => pc'[q] = pc[q]
      BY <2>2 DEF AppendLog, DetachedAppend, SendPublish, SendPersist, Cancel, TypeOK
    <3>2. \/ pc[r] \in {"logging", "detached"} /\ pc'[r] \in {"applying", "done"}
          \/ pc[r] = "committing" /\ pc'[r] = "publishing"
          \/ pc[r] = "persisting" /\ pc'[r] = "waking"
          \/ pc[r] # "done" /\ pc'[r] = "done"
          \/ pc[r] = "logging" /\ pc'[r] = "detached"
      BY <2>2 DEF AppendLog, DetachedAppend, SendPublish, SendPersist, Cancel, TypeOK
    <3>. QED
      BY <1>1, <3>1, <3>2 DEF Early, Unlogged
  <2>. QED
    BY <1>5, <2>1, <2>2
<1>6. CASE Publish
  BY <1>1, <1>6 DEF Publish, Early, Unlogged
<1>7. CASE UNCHANGED pc
  BY <1>1, <1>7
<1>. QED
  BY <1>2, <1>3, <1>4, <1>5, <1>6, <1>7, StepCases
  DEF PublishTake, PersistTake, PersistInsert, PersistFails, Evict, vars, reqVars

\* How a request's reservations change.
LEMMA FreshStep ==
    ASSUME DInv, [Next]_vars, NEW q \in Requests
    PROVE  \/ fresh'[q] = fresh[q]
           \/ pc[q] \in {"yielding", "refusing", "aborting"} /\ fresh'[q] \subseteq fresh[q]
           \/ pc[q] = "reserving" /\ \A o \in fresh'[q] : o \in fresh[q] \/ (o \in Ops /\ IsNew(o))
<1>1. ASSUME NEW r \in Requests, NEW taken \in SUBSET batch[r], Takes(r, taken)
      PROVE  \/ fresh'[q] = fresh[q]
             \/ pc[q] = "reserving" /\ \A o \in fresh'[q] : o \in fresh[q] \/ (o \in Ops /\ IsNew(o))
  BY <1>1 DEF Takes, Unmoved, DInv, IInv, TypeOK
<1>2. ASSUME NEW r \in Requests, NEW s \in DedupShards, Gives(r, s)
      PROVE  \/ fresh'[q] = fresh[q]
             \/ pc[q] \in {"yielding", "refusing", "aborting"} /\ fresh'[q] \subseteq fresh[q]
  BY <1>2 DEF Gives, Unmoved
<1>3. \/ fresh' = fresh
      \/ \E r \in Requests : \/ \E taken \in SUBSET batch[r] : Takes(r, taken)
                             \/ \E s \in DedupShards : Gives(r, s)
  BY StepCases
  DEF Submit, Moves, CommitShard, ApplyShard, AppendLog, DetachedAppend, SendPublish,
      SendPersist, Cancel, PublishTake, Publish, PersistTake, PersistInsert, PersistFails, Evict,
      vars, reqVars
<1>. QED
  BY <1>1, <1>2, <1>3

\* Publications are queued once and absorbed after the state shards.
LEMMA PublishStep ==
    ASSUME DInv, [Next]_vars
    PROVE  PublishInv'
<1>. USE DEF DInv, IInv
<1>1. \A o \in Ops : /\ balance[o] = 1 => balance'[o] = 1
                     /\ published[o] = 1 => published'[o] = 1
  <2>1. AtMostOnce' /\ TypeOK' /\ PublishedFollows'
    BY IInvStep, PublishedGrows
  <2>2. \A o \in Ops : /\ balance'[o] \in Nat /\ published'[o] \in Nat
                       /\ balance'[o] <= 1 /\ published'[o] <= balance'[o]
    BY <2>1 DEF AtMostOnce, TypeOK, PublishedFollows
  <2>. QED
    BY <2>2, BalanceGrows, PublishedGrows
<1>2. ASSUME NEW q \in Requests, ~(Publish /\ q \in pubBatch), NEW o \in fresh[q]
      PROVE  published'[o] = published[o]
  <2>1. o \in Ops /\ pubBatch \subseteq Requests
    BY DEF TypeOK
  <2>2. Publish => \A r \in pubBatch : o \notin fresh[r]
    BY <1>2, <2>1 DEF HolderInv
  <2>. QED
    BY <2>1, <2>2, OnlyPublish, PublishFacts
<1>3. ASSUME NEW q \in Publishing'
      PROVE  /\ pc'[q] \in {"publishing", "done"}
             /\ \A o \in fresh'[q] : balance'[o] = 1 /\ published'[o] = 0
  <2>1. CASE q \in Publishing /\ ~(Publish /\ q \in pubBatch)
    <3>1. q \in Requests
      BY <2>1 DEF Publishing, TypeOK
    <3>2. /\ pc[q] \in {"publishing", "done"}
          /\ \A o \in fresh[q] : balance[o] = 1 /\ published[o] = 0 /\ o \in Ops
      BY <2>1, <3>1 DEF PublishInv, TypeOK
    <3>3. pc'[q] \in {"publishing", "done"}
      BY <2>1, <3>1, <3>2, PlaceStep
    <3>4. fresh'[q] = fresh[q]
      BY <3>1, <3>2, FreshStep
    <3>. QED
      BY <1>1, <1>2, <2>1, <3>1, <3>2, <3>3, <3>4
  <2>2. CASE q \in Requests /\ SendPublish(q)
    <3>1. /\ pc[q] = "committing" /\ pc'[q] = "publishing" /\ fresh' = fresh
          /\ published' = published
      BY <2>2 DEF SendPublish, Goto, TypeOK
    <3>2. \A o \in fresh[q] : balance[o] = 1 /\ o \in Ops
      BY <2>2, <3>1 DEF ApplyInv, TypeOK, Logged
    <3>3. \A o \in fresh[q] : published[o] = 0
      BY <2>2, <3>1 DEF PublishInv
    <3>. QED
      BY <1>1, <3>1, <3>2, <3>3
  <2>. QED
    BY <2>1, <2>2, PublishingStep
<1>4. ASSUME NEW q \in Requests, NEW o \in fresh'[q], pc'[q] \in Early
      PROVE  published'[o] = 0
  <2>1. pc[q] \in Early
    BY <1>4, PlaceStep
  <2>2. ~(Publish /\ q \in pubBatch)
    <3>1. q \in pubBatch => pc[q] \in {"publishing", "done"}
      BY DEF PublishInv, Publishing
    <3>. QED
      BY <2>1, <3>1 DEF Early, Unlogged
  <2>3. CASE o \in fresh[q]
    BY <1>2, <2>1, <2>2, <2>3 DEF PublishInv, Early
  <2>4. CASE o \notin fresh[q]
    <3>1. o \in Ops /\ IsNew(o) /\ pc[q] = "reserving"
      BY <1>4, <2>4, FreshStep
    <3>2. balance[o] = 0
      BY <3>1, NewIsUnapplied DEF Unapplied
    <3>3. published[o] = 0
      BY <3>1, <3>2 DEF PublishInv, PublishedFollows, TypeOK
    <3>4. Publish => \A r \in pubBatch : o \notin fresh[r]
      BY <3>1 DEF HolderInv, IsNew, TypeOK
    <3>. QED
      BY <3>1, <3>3, <3>4, OnlyPublish, PublishFacts
  <2>. QED
    BY <2>3, <2>4
<1>5. ASSUME NEW q \in Requests, NEW o \in fresh'[q], pc'[q] \in {"persisting", "waking"}
      PROVE  published'[o] = 1
  <2>1. CASE pc[q] \in {"persisting", "waking"}
    <3>1. o \in fresh[q] /\ o \in Ops
      BY <2>1, FreshStep DEF TypeOK
    <3>. QED
      BY <1>1, <2>1, <3>1 DEF PublishInv
  <2>2. CASE Publish /\ q \in pubBatch
    <3>1. fresh' = fresh
      BY <2>2 DEF Publish
    <3>. QED
      BY <2>2, <3>1, PublishFacts
  <2>. QED
    BY <1>5, <2>1, <2>2, PlaceStep
<1>. QED
  BY <1>3, <1>4, <1>5, PublishedGrows, PublishingStep DEF PublishInv, Early

\* Who answers a request "ok".
LEMMA OkComesFrom ==
    ASSUME DInv, [Next]_vars, NEW q \in Requests, answer'[q] = "ok"
    PROVE  /\ pc'[q] = "done"
           /\ batch'[q] = batch[q] /\ fresh'[q] = fresh[q]
           /\ \/ answer[q] = "ok"
              \/ pc[q] = "waking"
              \/ pc[q] = "reserving" /\ todo[q] = {} /\ fresh[q] = {}
<1>. USE DEF DInv, IInv, Goto, Finish
<1>1. AnswerInv'
  BY AnswerStep
<1>2. \A r \in Requests : \A ops \in Batches : Submit(r, ops) =>
         r # q /\ batch'[q] = batch[q] /\ answer'[q] = answer[q]
  BY ZenonT(60) DEF Submit, TypeOK, AnswerInv
<1>3. \/ answer[q] = "ok"
      \/ pc[q] = "waking"
      \/ pc[q] = "reserving" /\ todo[q] = {} /\ fresh[q] = {}
  <2>1. ASSUME NEW r \in Requests, Moves(r)
        PROVE  \/ answer[q] = "ok"
               \/ pc[q] = "waking"
               \/ pc[q] = "reserving" /\ todo[q] = {} /\ fresh[q] = {}
    BY <2>1 DEF Moves, Unmoved
  <2>2. ASSUME NEW r \in Requests, Cancel(r)
        PROVE  answer[q] = "ok"
    BY <2>2 DEF Cancel, TypeOK
  <2>3. ASSUME NEW r \in Requests,
               (\E taken \in SUBSET batch[r] : Takes(r, taken)) \/ \E s \in DedupShards : Gives(r, s)
        PROVE  answer[q] = "ok"
    BY <2>3 DEF Takes, Gives, Unmoved
  <2>. QED
    BY <1>2, <2>1, <2>2, <2>3, StepCases
    DEF CommitShard, ApplyShard, AppendLog, DetachedAppend, SendPublish, SendPersist,
        PublishTake, Publish, PersistTake, PersistInsert, PersistFails, Evict, vars, reqVars
<1>4. batch'[q] = batch[q]
  BY <1>2, BatchStays
<1>5. pc'[q] = "done"
  BY <1>1 DEF AnswerInv
<1>6. fresh'[q] = fresh[q]
  <2>1. CASE answer[q] = "ok"
    BY <2>1, FreshStep DEF OkInv
  <2>2. CASE pc[q] = "waking"
    BY <2>2, FreshStep
  <2>3. ASSUME NEW r \in Requests, NEW taken \in SUBSET batch[r], Takes(r, taken)
        PROVE  fresh'[q] = fresh[q]
    BY <1>5, <2>3 DEF Takes, Unmoved
  <2>4. ASSUME NEW r \in Requests, NEW s \in DedupShards, Gives(r, s)
        PROVE  fresh'[q] = fresh[q]
    BY <1>5, <2>4 DEF Gives, Unmoved
  <2>. QED
    BY <2>3, <2>4, StepCases
    DEF Submit, Moves, CommitShard, ApplyShard, AppendLog, DetachedAppend, SendPublish,
        SendPersist, Cancel, PublishTake, Publish, PersistTake, PersistInsert, PersistFails, Evict,
        vars, reqVars
<1>. QED
  BY <1>3, <1>4, <1>5, <1>6

\* Only what is durable, applied and published is answered "ok".
LEMMA OkStep ==
    ASSUME DInv, [Next]_vars
    PROVE  OkInv'
<1>. USE DEF DInv, IInv
<1>1. \A o \in Ops : published[o] = 1 => published'[o] = 1
  <2>1. AtMostOnce' /\ TypeOK' /\ PublishedFollows'
    BY IInvStep, PublishedGrows
  <2>2. \A o \in Ops : /\ balance'[o] \in Nat /\ published'[o] \in Nat
                       /\ balance'[o] <= 1 /\ published'[o] <= balance'[o]
    BY <2>1 DEF AtMostOnce, TypeOK, PublishedFollows
  <2>. QED
    BY <2>2, PublishedGrows
<1>2. ASSUME NEW q \in Requests, answer'[q] = "ok"
      PROVE  /\ pc'[q] = "done"
             /\ \A o \in batch'[q] : Settled(o)'
             /\ \A o \in fresh'[q] : published'[o] = 1
  <2>1. /\ pc'[q] = "done" /\ batch'[q] = batch[q] /\ fresh'[q] = fresh[q]
        /\ \/ answer[q] = "ok"
           \/ pc[q] = "waking"
           \/ pc[q] = "reserving" /\ todo[q] = {} /\ fresh[q] = {}
    BY <1>2, OkComesFrom
  <2>2. batch[q] \in SUBSET Ops /\ fresh[q] \in SUBSET Ops
    BY DEF TypeOK
  <2>3. \A o \in batch[q] : Settled(o)
    <3>1. CASE answer[q] = "ok"
      BY <3>1 DEF OkInv, OkIsDurable, Settled
    <3>2. CASE pc[q] = "waking"
      BY <3>2, AppliedIsSettled DEF ScanInv, Logged
    <3>3. CASE pc[q] = "reserving" /\ todo[q] = {} /\ fresh[q] = {}
      BY <3>3 DEF ScanInv
    <3>. QED
      BY <2>1, <3>1, <3>2, <3>3
  <2>4. \A o \in fresh[q] : published[o] = 1
    BY <2>1 DEF OkInv, OkIsDurable, PublishInv
  <2>. QED
    BY <1>1, <2>1, <2>2, <2>3, <2>4, SettledStays
<1>. QED
  BY <1>2 DEF OkInv, OkIsDurable, Settled

-----------------------------------------------------------------------------
(* The theorems *)

\* DInv holds before anything is submitted.
LEMMA InitDInv == Init => DInv
<1>. SUFFICES ASSUME Init PROVE DInv
  OBVIOUS
<1>1. IInv
  BY InitIInv
<1>2. AnswerInv /\ HolderInv /\ ScanInv /\ ApplyInv /\ OkInv
  BY EntryKinds DEF Init, AnswerInv, HolderInv, ScanInv, ApplyInv, OkInv, OkIsDurable, Logged
<1>3. LogInv /\ SettledInv
  BY EntryKinds DEF Init, LogInv, NeverForgotten, SettledInv, Logged
<1>4. PublishInv
  BY DEF Init, PublishInv, Publishing, PublishedFollows
<1>. QED
  BY <1>1, <1>2, <1>3, <1>4 DEF DInv

\* Every step preserves DInv.
LEMMA DInvStep == DInv /\ [Next]_vars => DInv'
<1>. SUFFICES ASSUME DInv, [Next]_vars PROVE DInv'
  OBVIOUS
<1>1. IInv'
  BY IInvStep DEF DInv
<1>. QED
  BY <1>1, AnswerStep, HolderStep, LogStep, SettledStep, ScanStep, ApplyInvStep, PublishStep, OkStep
  DEF DInv

\* The inductive invariant of the commit path, the publisher and the persister.
THEOREM PipelineInvariant == Spec => []DInv
  BY InitDInv, DInvStep, PTL DEF Spec

\* Between its WAL record and the disk index an operation is never unknown to
\* preflight_batch.
THEOREM NothingForgotten == Spec => []NeverForgotten
<1>1. DInv => NeverForgotten
  BY DEF DInv, LogInv
<1>. QED
  BY <1>1, PipelineInvariant, PTL

\* A positive reply means durable, applied, and visible to the readers.
THEOREM OkMeansDurable == Spec => []OkIsDurable
<1>1. DInv => OkIsDurable
  BY DEF DInv, OkInv
<1>. QED
  BY <1>1, PipelineInvariant, PTL

\* run_balance_publisher never runs ahead of the state shards.
THEOREM PublishedBehind == Spec => []PublishedFollows
<1>1. DInv => PublishedFollows
  BY DEF DInv, PublishInv
<1>. QED
  BY <1>1, PipelineInvariant, PTL

\* The readers never see a part of what one call brought in, nor less than before.
THEOREM PublishedAtOnce == Spec => PublishedWhole
<1>1. ASSUME DInv, [Next]_vars
      PROVE  /\ \A o \in Ops : published'[o] >= published[o]
             /\ \A r \in Requests : (\E o \in fresh[r] : published'[o] # published[o])
                  => \A o \in fresh[r] : published'[o] = 1
  <2>1. ASSUME NEW r \in Requests, NEW o \in fresh[r], published'[o] # published[o]
        PROVE  \A p \in fresh[r] : published'[p] = 1
    <3>1. Publish /\ o \in Ops
      BY <1>1, <2>1, OnlyPublish DEF DInv, IInv, TypeOK
    <3>2. PICK q \in pubBatch : o \in fresh[q]
      BY <1>1, <2>1, <3>1, PublishFacts
    <3>3. q = r
      BY <1>1, <3>2 DEF DInv, HolderInv, IInv, TypeOK
    <3>. QED
      BY <1>1, <3>1, <3>2, <3>3, PublishFacts
  <2>. QED
    BY <1>1, <2>1, PublishedGrows
<1>. QED
  BY <1>1, PipelineInvariant, PTL DEF Spec, PublishedWhole

-----------------------------------------------------------------------------
(* Store implements Ledger *)

\* A request's reservations are exactly what the ledger misses of its batch.
LEMMA AppendIsCommit ==
    ASSUME DInv, NEW r \in Requests, AppendLog(r) \/ DetachedAppend(r)
    PROVE  L!Commit(r)
<1>. USE DEF DInv, IInv
<1>1. /\ pc[r] \in {"logging", "detached"} /\ logged' = logged \cup fresh[r]
      /\ UNCHANGED <<batch, answer>>
  BY DEF AppendLog, DetachedAppend
<1>2. batch[r] # {} /\ answer[r] \in {"none", "gone"} /\ fresh[r] \subseteq batch[r]
  BY <1>1 DEF AnswerInv
<1>3. \A o \in batch[r] : o \in fresh[r] \/ o \in logged
  BY <1>1 DEF ScanInv, Settled
<1>4. logged' = logged \cup batch[r]
  BY <1>1, <1>2, <1>3
<1>5. ASSUME NEW o \in batch[r], NEW p \in logged \cup batch[r]
      PROVE  ~L!Clash(o, p)
  <2>1. CASE p \in batch[r]
    BY <1>1, <2>1 DEF BatchInv, Clash, L!Clash
  <2>2. CASE p \in logged /\ o \in logged
    BY <2>2 DEF LogInv, Clash, L!Clash
  <2>3. CASE p \in logged /\ o \in fresh[r]
    BY <1>1, <2>3 DEF LogInv, Unlogged, L!Clash
  <2>. QED
    BY <1>3, <1>5, <2>1, <2>2, <2>3
<1>. QED
  BY <1>1, <1>2, <1>4, <1>5 DEF L!Commit

\* Each reply of the node is one the ledger allows.
LEMMA ReplyIsAnswer ==
    ASSUME DInv, NEW r \in Requests,
           \/ ReserveReadFails(r) \/ RollbackDone(r) \/ AnswerDuplicates(r) \/ Wake(r) \/ Cancel(r)
    PROVE  L!Answer(r) \/ UNCHANGED <<logged, batch, answer>>
<1>. USE DEF DInv, IInv, Finish
<1>1. /\ UNCHANGED <<logged, batch>>
      /\ pc[r] \notin {"idle", "done", "detached"}
  BY DEF ReserveReadFails, RollbackDone, AnswerDuplicates, Reserved, Wake, Cancel, stateVars
<1>2. batch[r] # {} /\ answer[r] = "none"
  BY <1>1 DEF AnswerInv
<1>3. \/ UNCHANGED answer
      \/ /\ answer' = [answer EXCEPT ![r] = "ok"]
         /\ pc[r] = "waking" \/ (pc[r] = "reserving" /\ todo[r] = {} /\ fresh[r] = {})
      \/ answer' = [answer EXCEPT ![r] = "conflict"] /\ pc[r] = "refusing"
      \/ answer' = [answer EXCEPT ![r] = "unavailable"]
      \/ answer' = [answer EXCEPT ![r] = "gone"]
  BY DEF ReserveReadFails, RollbackDone, AnswerDuplicates, Reserved, Wake, Cancel
<1>4. ASSUME pc[r] = "waking" \/ (pc[r] = "reserving" /\ todo[r] = {} /\ fresh[r] = {})
      PROVE  batch[r] \subseteq logged
  <2>1. CASE pc[r] = "waking"
    BY <2>1, AppliedIsSettled DEF ScanInv, Logged, Settled
  <2>2. CASE pc[r] = "reserving" /\ todo[r] = {} /\ fresh[r] = {}
    BY <2>2 DEF ScanInv, Settled
  <2>. QED
    BY <1>4, <2>1, <2>2
<1>5. ASSUME pc[r] = "refusing"
      PROVE  \E o \in batch[r] : \E p \in L!Seen : L!Clash(o, p)
  BY <1>5 DEF ScanInv, Disputed, Clash, L!Seen, L!Clash
<1>. QED
  BY <1>1, <1>2, <1>3, <1>4, <1>5
  DEF L!Answer, L!AnswerOk, L!AnswerConflict, L!AnswerUnavailable, L!HangUp

\* A submitted batch is asked of the ledger; its own clashes are refused.
LEMMA SubmitIsAsk ==
    ASSUME DInv, NEW r \in Requests, NEW ops \in Batches, Submit(r, ops)
    PROVE  ops \in (SUBSET Ops) \ {{}} /\ L!Ask(r, ops)
<1>. USE DEF DInv, IInv, Finish
<1>1. batch[r] = {} /\ answer[r] = "none" /\ UNCHANGED logged
  BY DEF Submit, AnswerInv, stateVars
<1>2. answer' = [answer EXCEPT ![r] = IF \E o, p \in ops : L!Clash(o, p) THEN "conflict" ELSE "none"]
  BY <1>1 DEF Submit, Clash, L!Clash, TypeOK
<1>. QED
  BY <1>1, <1>2, StoreAssumption DEF Submit, L!Ask

\* Every step of the store is a step of the ledger or changes nothing of it.
LEMMA LedgerStep ==
    ASSUME DInv, [Next]_vars
    PROVE  [L!LedgerNext]_L!ledgerVars
<1>1. ASSUME NEW r \in Requests, AppendLog(r) \/ DetachedAppend(r)
      PROVE  L!LedgerNext
  BY <1>1, AppendIsCommit DEF L!LedgerNext
<1>2. ASSUME NEW r \in Requests,
             \/ ReserveReadFails(r) \/ RollbackDone(r) \/ AnswerDuplicates(r) \/ Wake(r) \/ Cancel(r)
      PROVE  [L!LedgerNext]_L!ledgerVars
  BY <1>2, ReplyIsAnswer DEF L!LedgerNext, L!ledgerVars
<1>3. ASSUME NEW r \in Requests, NEW ops \in Batches, Submit(r, ops)
      PROVE  L!LedgerNext
  BY <1>3, SubmitIsAsk DEF L!LedgerNext
<1>4. ASSUME NEW r \in Requests,
             \/ \E s \in DedupShards : ReserveShard(r, s) \/ RollbackShard(r, s)
             \/ \E s \in DedupShards, o \in batch[r] : ReserveStops(r, s, o)
             \/ \E s \in DedupShards : CommitShard(r, s) \/ AbortShard(r, s)
             \/ \E s \in StateShards : ApplyShard(r, s)
             \/ Retry(r) \/ Replicated(r) \/ ReplicationFails(r) \/ LogFails(r) \/ Applied(r)
             \/ SendPublish(r) \/ SendPersist(r)
      PROVE  UNCHANGED <<logged, batch, answer>>
  BY <1>4 DEF ReserveShard, ReserveStops, RollbackShard, CommitShard, AbortShard, ApplyShard, Retry,
              Replicated, ReplicationFails, LogFails, StartAbort, Applied, SendPublish, SendPersist,
              stateVars, reqVars
<1>5. ASSUME PublishTake \/ Publish \/ Persister \/ UNCHANGED vars
      PROVE  UNCHANGED <<logged, batch, answer>>
  BY <1>5 DEF PublishTake, Publish, Persister, PersistTake, PersistInsert, PersistFails, Evict, vars,
              reqVars, stateVars
<1>. QED
  BY <1>1, <1>2, <1>3, <1>4, <1>5 DEF Next, RequestStep, L!ledgerVars

\* One node behaves to its clients as the Ledger: whole batches become durable at
\* once, and every reply is one the ledger allows.
THEOREM StoreImplementsLedger == Spec => ImplementsLedger
<1>1. Init => L!LedgerInit
  BY DEF Init, L!LedgerInit
<1>2. DInv /\ [Next]_vars => [L!LedgerNext]_L!ledgerVars
  BY LedgerStep
<1>. QED
  BY <1>1, <1>2, PipelineInvariant, PTL DEF Spec, ImplementsLedger, L!LedgerSpec

\* A step of the ledger adds nothing, or all that a batch lacks, and leaves every
\* reply and every batch that was submitted as it is.
OnlyGrows ==
    /\ logged' = logged \/ \E r \in Requests : logged' = logged \cup batch[r]
    /\ \A r \in Requests :
          /\ batch[r] # {} => batch'[r] = batch[r]
          /\ answer[r] # "none" => answer'[r] = answer[r]

\* What clients may build on: an operation in the WAL stays there, it came with the
\* whole of a batch, and no reply is ever taken back (state.rs:328, main.rs:695-725).
THEOREM RepliesAreFinal == Spec => [][OnlyGrows]_<<logged, batch, answer>>
<1>1. DInv /\ [Next]_vars => [OnlyGrows]_<<logged, batch, answer>>
  <2>. SUFFICES ASSUME DInv, [Next]_vars
                PROVE  [OnlyGrows]_<<logged, batch, answer>>
    OBVIOUS
  <2>1. /\ batch \in [Requests -> SUBSET Ops] /\ answer \in [Requests -> Replies]
        /\ \A r \in Requests : answer[r] # "none" => batch[r] # {}
    BY DEF DInv, IInv, TypeOK, AnswerInv
  <2>2. ASSUME NEW r \in Requests, NEW ops, L!Ask(r, ops)
        PROVE  OnlyGrows
    BY <2>1, <2>2 DEF L!Ask, OnlyGrows
  <2>3. ASSUME NEW r \in Requests, L!Commit(r)
        PROVE  OnlyGrows
    BY <2>3 DEF L!Commit, OnlyGrows
  <2>4. ASSUME NEW r \in Requests, L!Answer(r)
        PROVE  OnlyGrows
    BY <2>1, <2>4 DEF L!Answer, L!AnswerOk, L!AnswerConflict, L!AnswerUnavailable, L!HangUp, OnlyGrows
  <2>. QED
    BY <2>2, <2>3, <2>4, LedgerStep DEF L!LedgerNext, L!ledgerVars
<1>. QED
  BY <1>1, PipelineInvariant, PTL DEF Spec

-----------------------------------------------------------------------------
(* Nobody sleeps for nothing *)

\* A reservation is among those of its request, in its shard.
LEMMA ReservationIsListed ==
    ASSUME DInv, NEW i \in Ids, memory[i].kind = "pending"
    PROVE  LET r == memory[i].by
           IN  /\ r \in Requests /\ fresh[r] # {}
               /\ DedupShardOf[i] \in ShardsOf(fresh[r])
               /\ i \in IdsOf(InShard(fresh[r], DedupShardOf[i]))
<1>1. PICK o : o = [id |-> i, fp |-> memory[i].fp]
  OBVIOUS
<1>2. memory[i].by \in Requests /\ o \in fresh[memory[i].by] /\ o.id = i
  BY <1>1, PendingEntry DEF DInv, IInv, HolderInv
<1>. QED
  BY <1>2 DEF ShardsOf, IdsOf, InShard

\* What a scan changes in the memory index are its own reservations.
LEMMA ReserveKeeps ==
    ASSUME DInv, NEW r \in Requests, NEW s \in DedupShards,
           ReserveShard(r, s) \/ \E o \in batch[r] : ReserveStops(r, s, o),
           NEW i \in Ids
    PROVE  /\ memory[i].kind = "pending" => memory'[i] = memory[i]
           /\ memory'[i] # memory[i] => \E o \in InShard(batch[r], s) :
                 o.id = i /\ o \in fresh'[r] /\ memory'[i] = Pending(o.fp, r)
<1>1. PICK taken \in SUBSET {o \in InShard(batch[r], s) : IsNew(o)} : Reserve(r, taken)
  <2>1. CASE ReserveShard(r, s)
    BY <2>1 DEF ReserveShard
  <2>2. CASE \E o \in batch[r] : ReserveStops(r, s, o)
    BY <2>2 DEF ReserveStops
  <2>. QED
    BY <2>1, <2>2
<1>2. pc[r] = "reserving"
  BY DEF ReserveShard, ReserveStops
<1>3. taken \in SUBSET {o \in batch[r] : IsNew(o)}
  BY DEF InShard
<1>4. /\ \A o \in taken : memory'[o.id] = Pending(o.fp, r)
      /\ \A j \in Ids \ IdsOf(taken) : memory'[j] = memory[j]
      /\ fresh'[r] = fresh[r] \cup taken
  BY <1>1, <1>2, <1>3, ReservesOwn
<1>5. CASE i \in IdsOf(taken)
  <2>1. PICK o \in taken : o.id = i
    BY <1>5 DEF IdsOf
  <2>2. memory[i] = Vacant
    BY <2>1 DEF IsNew
  <2>. QED
    BY <1>4, <2>1, <2>2, EntryKinds
<1>6. CASE i \notin IdsOf(taken)
  BY <1>4, <1>6
<1>. QED
  BY <1>5, <1>6

\* Releasing and committing a shard leaves none of the request's reservations in
\* it, and the reservations of others alone.
LEMMA ShardIsEmptied ==
    ASSUME DInv, NEW r \in Requests, NEW s \in DedupShards,
           RollbackShard(r, s) \/ AbortShard(r, s) \/ CommitShard(r, s),
           NEW i \in Ids
    PROVE  /\ memory'[i].kind = "pending" => memory'[i] = memory[i]
           /\ memory'[i].kind = "pending" /\ memory[i].by = r => DedupShardOf[i] # s
           /\ memory[i].kind = "pending" /\ memory[i].by # r => memory'[i] = memory[i]
<1>. USE DEF DInv, IInv
<1>1. memory[i].kind = "pending" =>
         (i \in IdsOf(InShard(fresh[r], s)) <=> memory[i].by = r /\ DedupShardOf[i] = s)
  <2>1. ASSUME memory[i].kind = "pending", NEW o \in fresh[r], o.id = i
        PROVE  memory[i].by = r
    <3>1. PICK p : p = [id |-> i, fp |-> memory[i].fp]
      OBVIOUS
    <3>2. memory[i].by \in Requests /\ p \in fresh[memory[i].by] /\ p.id = o.id
      BY <2>1, <3>1, PendingEntry DEF HolderInv
    <3>. QED
      BY <2>1, <3>2 DEF HolderInv
  <2>2. ASSUME memory[i].kind = "pending", i \in IdsOf(InShard(fresh[r], s))
        PROVE  memory[i].by = r /\ DedupShardOf[i] = s
    <3>1. PICK o \in fresh[r] : o.id = i /\ DedupShardOf[o.id] = s
      BY <2>2 DEF IdsOf, InShard
    <3>. QED
      BY <2>1, <2>2, <3>1
  <2>. QED
    BY <2>2, ReservationIsListed
<1>2. CASE RollbackShard(r, s) \/ AbortShard(r, s)
  <2>1. memory'[i] = IF i \in IdsOf(InShard(fresh[r], s)) THEN Vacant ELSE memory[i]
    BY <1>2, ReleaseGives DEF Gives
  <2>. QED
    BY <1>1, <2>1, EntryKinds
<1>3. CASE CommitShard(r, s)
  <2>1. memory'[i] = IF i \in IdsOf(InShard(fresh[r], s)) /\ memory[i].kind = "pending"
                       THEN Committed(memory[i].fp) ELSE memory[i]
    BY <1>3 DEF CommitShard, Held
  <2>. QED
    BY <1>1, <2>1, EntryKinds
<1>. QED
  BY <1>2, <1>3

\* Whoever has a reservation will come back to its shard.
LEMMA PendingStep ==
    ASSUME Gentle, DInv, PendingInv, [Next]_vars
    PROVE  PendingInv'
<1>. SUFFICES ASSUME NEW i \in Ids, memory'[i].kind = "pending"
              PROVE  StillHolds(memory[i].by, i)'
  BY DEF PendingInv
<1>. USE DEF Goto, Finish, StillHolds
<1>1. ASSUME memory[i].kind = "pending"
      PROVE  /\ StillHolds(memory[i].by, i)
             /\ memory[i].by \in Requests /\ fresh[memory[i].by] # {}
             /\ DedupShardOf[i] \in ShardsOf(fresh[memory[i].by])
  BY <1>1, ReservationIsListed DEF PendingInv
<1>2. TypeOK
  BY DEF DInv, IInv
<1>3. ASSUME memory'[i] = memory[i],
             LET r == memory[i].by IN pc'[r] = pc[r] /\ todo'[r] = todo[r]
      PROVE  StillHolds(memory[i].by, i)'
  BY <1>1, <1>3
<1>4. ASSUME NEW q \in Requests, NEW s \in DedupShards, ReserveShard(q, s)
      PROVE  StillHolds(memory[i].by, i)'
  <2>1. pc' = pc /\ pc[q] = "reserving" /\ \A r \in Requests \ {q} : todo'[r] = todo[r]
    BY <1>2, <1>4 DEF ReserveShard, TypeOK
  <2>2. CASE memory'[i] = memory[i]
    BY <1>1, <2>1, <2>2
  <2>3. CASE memory'[i] # memory[i]
    BY <1>4, <2>1, <2>3, ReserveKeeps, EntryKinds
  <2>. QED
    BY <2>2, <2>3
<1>5. ASSUME NEW q \in Requests, NEW s \in DedupShards, NEW o \in batch[q],
             ReserveStops(q, s, o)
      PROVE  StillHolds(memory[i].by, i)'
  <2>1. /\ pc'[q] \in {"yielding", "refusing"} /\ todo'[q] = ShardsOf(fresh'[q])
        /\ fresh[q] \subseteq fresh'[q]
        /\ \A r \in Requests \ {q} : todo'[r] = todo[r] /\ pc'[r] = pc[r]
    BY <1>2, <1>5 DEF ReserveStops, Reserve, TypeOK
  <2>2. ASSUME memory'[i] = memory[i], memory[i].by = q
        PROVE  DedupShardOf[i] \in ShardsOf(fresh'[q])
    BY <1>1, <2>1, <2>2 DEF ShardsOf
  <2>3. CASE memory'[i] = memory[i]
    BY <1>1, <2>1, <2>2, <2>3
  <2>4. CASE memory'[i] # memory[i]
    <3>1. PICK p \in fresh'[q] : p.id = i /\ memory'[i] = Pending(p.fp, q)
      BY <1>5, <2>4, ReserveKeeps
    <3>2. memory'[i].by = q /\ DedupShardOf[i] \in ShardsOf(fresh'[q])
      BY <3>1, EntryKinds DEF ShardsOf
    <3>. QED
      BY <2>1, <3>2
  <2>. QED
    BY <2>3, <2>4
<1>6. ASSUME NEW q \in Requests, NEW s \in DedupShards,
             RollbackShard(q, s) \/ AbortShard(q, s) \/ CommitShard(q, s)
      PROVE  StillHolds(memory[i].by, i)'
  <2>1. /\ pc' = pc /\ todo'[q] = todo[q] \ {s}
        /\ \A r \in Requests \ {q} : todo'[r] = todo[r]
    BY <1>2, <1>6 DEF RollbackShard, AbortShard, CommitShard, TypeOK
  <2>2. memory'[i] = memory[i] /\ (memory[i].by = q => DedupShardOf[i] # s)
    BY <1>6, ShardIsEmptied
  <2>. QED
    BY <1>1, <2>1, <2>2
<1>7. ASSUME NEW q \in Requests,
             \/ \E ops \in Batches : Submit(q, ops)
             \/ RollbackDone(q) \/ Retry(q) \/ AnswerDuplicates(q)
             \/ SendPublish(q) \/ SendPersist(q) \/ Wake(q) \/ DetachedAppend(q)
      PROVE  StillHolds(memory[i].by, i)'
  <2>1. memory' = memory /\ \A r \in Requests \ {q} : pc'[r] = pc[r] /\ todo'[r] = todo[r]
    BY <1>2, <1>7 DEF Submit, RollbackDone, Retry, AnswerDuplicates, SendPublish, SendPersist,
                      Wake, DetachedAppend, TypeOK
  <2>2. \/ pc[q] \in {"idle", "waiting", "waking", "persisting", "detached"}
        \/ pc[q] \in {"yielding", "refusing", "committing", "aborting"} /\ todo[q] = {}
        \/ fresh[q] = {}
    BY <1>7 DEF Submit, RollbackDone, Retry, AnswerDuplicates, SendPublish, SendPersist,
                Wake, DetachedAppend
  <2>3. memory[i].kind = "pending" => memory[i].by # q
    BY <1>1, <2>2
  <2>. QED
    BY <1>1, <1>3, <2>1, <2>3
<1>8. ASSUME NEW q \in Requests,
             \/ Replicated(q) \/ AppendLog(q)
             \/ ReplicationFails(q) \/ LogFails(q) \/ Applied(q)
      PROVE  StillHolds(memory[i].by, i)'
  <2>1. memory' = memory /\ \A r \in Requests \ {q} : pc'[r] = pc[r] /\ todo'[r] = todo[r]
    BY <1>2, <1>8 DEF Replicated, AppendLog, ReplicationFails, LogFails, StartAbort, Applied,
                      TypeOK
  <2>2. \/ pc'[q] \in {"logging", "applying"}
        \/ pc'[q] \in {"aborting", "committing"} /\ todo'[q] = ShardsOf(fresh[q])
    BY <1>2, <1>8 DEF Replicated, AppendLog, ReplicationFails, LogFails, StartAbort, Applied,
                      TypeOK
  <2>. QED
    BY <1>1, <2>1, <2>2
<1>9. CASE Publish
  <2>1. memory' = memory /\ todo' = todo
        /\ \A r \in Requests : pc'[r] = IF r \in pubBatch /\ pc[r] = "publishing"
                                          THEN "persisting" ELSE pc[r]
    BY <1>9 DEF Publish
  <2>. QED
    BY <1>1, <1>3, <2>1
<1>10. ASSUME NEW o \in Ops, Evict(o)
       PROVE  StillHolds(memory[i].by, i)'
  <2>1. memory'[i] = memory[i] \/ memory'[i] = Vacant
    BY <1>2, <1>10 DEF Evict, TypeOK
  <2>2. pc' = pc /\ todo' = todo
    BY <1>10 DEF Evict, reqVars
  <2>. QED
    BY <1>3, <2>1, <2>2, EntryKinds
<1>11. CASE \/ \E q \in Requests, s \in StateShards : ApplyShard(q, s)
            \/ PublishTake \/ PersistTake \/ PersistInsert \/ PersistFails \/ UNCHANGED vars
  <2>1. memory' = memory /\ pc' = pc /\ todo' = todo
    BY <1>11 DEF ApplyShard, PublishTake, PersistTake, PersistInsert, PersistFails, vars, reqVars
  <2>. QED
    BY <1>3, <2>1
<1>12. ASSUME NEW q \in Requests
       PROVE  ~Cancel(q) /\ ~ReserveReadFails(q)
  BY DEF Gentle, Cancel, ReserveReadFails
<1>. QED
  BY <1>4, <1>5, <1>6, <1>7, <1>8, <1>9, <1>10, <1>11, <1>12 DEF Next, RequestStep, Persister

\* A request registers only with a reservation it finds, and otherwise keeps its
\* registration or is woken.
LEMMA WaitOnStep ==
    ASSUME DInv, [Next]_vars, NEW q \in Requests
    PROVE  \/ waitOn'[q] \in {waitOn[q], NoReq}
           \/ \E i \in Ids : memory'[i].kind = "pending" /\ memory'[i].by = waitOn'[q]
<1>. USE DEF Goto, Finish
<1>1. TypeOK
  BY DEF DInv, IInv
<1>2. ASSUME NEW r \in Requests, NEW s \in DedupShards, NEW o \in batch[r],
             ReserveStops(r, s, o), waitOn'[q] # waitOn[q]
      PROVE  \E i \in Ids : memory'[i].kind = "pending" /\ memory'[i].by = waitOn'[q]
  <2>1. IsHeld(o) /\ waitOn'[q] = memory[o.id].by /\ o.id \in Ids
    BY <1>1, <1>2 DEF ReserveStops, TypeOK, Ops
  <2>2. memory'[o.id] = memory[o.id] /\ memory[o.id].kind = "pending"
    BY <1>2, <2>1, ReserveKeeps DEF IsHeld
  <2>. QED
    BY <2>1, <2>2
<1>3. ASSUME NEW r \in Requests, RollbackDone(r) \/ Wake(r) \/ Cancel(r)
      PROVE  waitOn'[q] \in {waitOn[q], NoReq}
  BY <1>1, <1>3 DEF RollbackDone, Wake, Cancel, Notify, TypeOK
<1>4. \/ waitOn' = waitOn
      \/ \E r \in Requests : \/ RollbackDone(r) \/ Wake(r) \/ Cancel(r)
                             \/ \E s \in DedupShards, o \in batch[r] : ReserveStops(r, s, o)
  BY ZenonT(60) DEF Next, RequestStep, Persister, Submit, ReserveShard, ReserveReadFails, RollbackShard,
         Retry, AnswerDuplicates, Replicated, ReplicationFails, LogFails, StartAbort, AppendLog,
         ApplyShard, Applied, CommitShard, AbortShard, SendPublish, SendPersist, PublishTake,
         Publish, PersistTake, PersistInsert, PersistFails, Evict, DetachedAppend, vars, reqVars
<1>. QED
  BY <1>2, <1>3, <1>4

\* Whoever has to notify does it before it is gone.
LEMMA NotifyStep ==
    ASSUME Gentle, DInv, PendingInv, [Next]_vars, NEW h \in Requests, WillNotify(h)
    PROVE  WillNotify(h)' \/ \A q \in Requests : waitOn'[q] # h
<1>. USE DEF Goto, Finish
<1>1. TypeOK
  BY DEF DInv, IInv
<1>2. ASSUME NEW i \in Ids, memory[i].kind = "pending", memory[i].by = h, memory'[i] = memory[i]
      PROVE  WillNotify(h)'
  BY <1>2 DEF WillNotify
<1>3. ASSUME \A i \in Ids : memory[i].kind = "pending" => memory'[i] = memory[i],
             pc'[h] = pc[h], wakes'[h] = wakes[h]
      PROVE  WillNotify(h)'
  BY <1>2, <1>3 DEF WillNotify
<1>4. ASSUME NEW q \in Requests, NEW s \in DedupShards,
             ReserveShard(q, s) \/ \E o \in batch[q] : ReserveStops(q, s, o)
      PROVE  WillNotify(h)'
  <2>1. \A i \in Ids : memory[i].kind = "pending" => memory'[i] = memory[i]
    BY <1>4, ReserveKeeps
  <2>2. wakes' = wakes /\ pc[q] = "reserving" /\ \A r \in Requests \ {q} : pc'[r] = pc[r]
    BY <1>1, <1>4 DEF ReserveShard, ReserveStops, TypeOK
  <2>. QED
    BY <1>2, <1>3, <2>1, <2>2 DEF WillNotify
<1>5. ASSUME NEW q \in Requests, NEW s \in DedupShards, RollbackShard(q, s)
      PROVE  WillNotify(h)'
  <2>1. pc' = pc /\ wakes' = wakes /\ pc[q] \in {"yielding", "refusing"}
    BY <1>5 DEF RollbackShard
  <2>2. CASE h = q
    BY <2>1, <2>2 DEF WillNotify
  <2>3. CASE h # q
    BY <1>2, <1>5, <2>1, <2>3, ShardIsEmptied DEF WillNotify
  <2>. QED
    BY <2>2, <2>3
<1>6. ASSUME NEW q \in Requests, NEW s \in DedupShards, AbortShard(q, s) \/ CommitShard(q, s)
      PROVE  WillNotify(h)'
  <2>1. /\ pc' = pc /\ pc[q] \in {"aborting", "committing"}
        /\ wakes[q] \subseteq wakes'[q] /\ \A r \in Requests \ {q} : wakes'[r] = wakes[r]
    BY <1>1, <1>6 DEF AbortShard, CommitShard, TypeOK
  <2>2. CASE pc[h] \in {"yielding", "refusing"} \/ h \in wakes[h]
    BY <1>2, <1>6, <2>1, <2>2, ShardIsEmptied DEF WillNotify
  <2>3. ASSUME NEW i \in Ids, memory[i].kind = "pending", memory[i].by = h
        PROVE  WillNotify(h)'
    <3>1. CASE memory'[i] = memory[i]
      BY <1>2, <2>3, <3>1
    <3>2. CASE memory'[i] # memory[i]
      <4>1. h = q
        BY <1>6, <2>3, <3>2, ShardIsEmptied
      <4>2. i \in IdsOf(InShard(fresh[q], s))
        <5>1. DedupShardOf[i] = s
          BY <1>6, <2>3, <3>2, <4>1 DEF AbortShard, CommitShard, IdsOf, InShard, Held
        <5>. QED
          BY <2>3, <4>1, <5>1, ReservationIsListed
      <4>3. h \in wakes'[h]
        BY <1>1, <1>6, <2>3, <4>1, <4>2 DEF AbortShard, CommitShard, Held, TypeOK
      <4>. QED
        BY <2>1, <4>1, <4>3 DEF WillNotify
    <3>. QED
      BY <3>1, <3>2
  <2>. QED
    BY <2>2, <2>3 DEF WillNotify

<1>7. ASSUME NEW q \in Requests,
             \/ \E ops \in Batches : Submit(q, ops)
             \/ Retry(q) \/ AnswerDuplicates(q) \/ Replicated(q) \/ ReplicationFails(q)
             \/ LogFails(q) \/ AppendLog(q) \/ Applied(q) \/ DetachedAppend(q)
             \/ SendPublish(q) \/ SendPersist(q)
      PROVE  WillNotify(h)'
  <2>1. /\ memory' = memory /\ wakes' = wakes
        /\ \A r \in Requests \ {q} : pc'[r] = pc[r]
    BY <1>1, <1>7 DEF Submit, Retry, AnswerDuplicates, Replicated, ReplicationFails, LogFails,
                      StartAbort, AppendLog, Applied, DetachedAppend, SendPublish, SendPersist,
                      TypeOK
  <2>2. \/ pc[q] \in {"idle", "waiting", "reserving", "logging", "applying", "detached"}
        \/ pc[q] \in {"committing", "persisting"} /\ pc'[q] \in {"publishing", "waking"}
    BY <1>1, <1>7 DEF Submit, Retry, AnswerDuplicates, Reserved, Replicated, ReplicationFails,
                      LogFails, AppendLog, Applied, DetachedAppend, SendPublish, SendPersist,
                      TypeOK
  <2>. QED
    BY <2>1, <2>2 DEF WillNotify
<1>8. ASSUME NEW q \in Requests, RollbackDone(q)
      PROVE  WillNotify(h)' \/ \A p \in Requests : waitOn'[p] # h
  <2>1. /\ memory' = memory /\ wakes' = wakes
        /\ \A r \in Requests \ {q} : pc'[r] = pc[r]
    BY <1>1, <1>8 DEF RollbackDone, TypeOK
  <2>2. CASE h = q
    <3>1. \A p \in Requests : waitOn'[p] = IF waitOn[p] = q THEN NoReq ELSE waitOn[p]
      BY <1>8 DEF RollbackDone, Notify
    <3>. QED
      BY <2>2, <3>1, StoreAssumption
  <2>3. CASE h # q
    BY <1>3, <2>1, <2>3
  <2>. QED
    BY <2>2, <2>3
<1>9. ASSUME NEW q \in Requests, Wake(q)
      PROVE  WillNotify(h)' \/ \A p \in Requests : waitOn'[p] # h
  <2>1. /\ memory' = memory /\ wakes' = wakes
        /\ pc[q] = "waking" \/ (pc[q] = "aborting" /\ todo[q] = {})
        /\ \A r \in Requests \ {q} : pc'[r] = pc[r]
    BY <1>1, <1>9 DEF Wake, TypeOK
  <2>2. CASE h = q
    <3>1. \A i \in Ids : memory[i].kind = "pending" => memory[i].by # q
      BY <2>1 DEF PendingInv, StillHolds
    <3>2. h \in wakes[h]
      BY <2>1, <2>2, <3>1 DEF WillNotify
    <3>3. \A p \in Requests : waitOn'[p] = IF waitOn[p] \in wakes[q] THEN NoReq ELSE waitOn[p]
      BY <1>9 DEF Wake, Notify
    <3>. QED
      BY <2>2, <3>2, <3>3, StoreAssumption
  <2>3. CASE h # q
    BY <1>3, <2>1, <2>3
  <2>. QED
    BY <2>2, <2>3
<1>10. CASE Publish
  <2>1. memory' = memory /\ wakes' = wakes
        /\ \/ pc'[h] = pc[h]
           \/ pc[h] = "publishing" /\ pc'[h] = "persisting"
    BY <1>10 DEF Publish
  <2>. QED
    BY <2>1 DEF WillNotify
<1>11. ASSUME NEW o \in Ops, Evict(o)
       PROVE  WillNotify(h)'
  <2>1. \A i \in Ids : memory'[i] = memory[i] \/ memory[i] = Committed(o.fp)
    BY <1>1, <1>11 DEF Evict, TypeOK
  <2>2. pc' = pc /\ wakes' = wakes
    BY <1>11 DEF Evict, reqVars
  <2>. QED
    BY <1>3, <2>1, <2>2, EntryKinds
<1>12. CASE \/ \E q \in Requests, s \in StateShards : ApplyShard(q, s)
            \/ PublishTake \/ PersistTake \/ PersistInsert \/ PersistFails \/ UNCHANGED vars
  <2>1. memory' = memory /\ pc' = pc /\ wakes' = wakes
    BY <1>12 DEF ApplyShard, PublishTake, PersistTake, PersistInsert, PersistFails, vars, reqVars
  <2>. QED
    BY <1>3, <2>1
<1>13. ASSUME NEW q \in Requests
       PROVE  ~Cancel(q) /\ ~ReserveReadFails(q)
  BY DEF Gentle, Cancel, ReserveReadFails
<1>. QED
  BY <1>4, <1>5, <1>6, <1>7, <1>8, <1>9, <1>10, <1>11, <1>12, <1>13
  DEF Next, RequestStep, Persister

\* Every step of a store whose handlers run to their end preserves WakeInv.
LEMMA WakeStep ==
    ASSUME Gentle, DInv, WakeInv, [Next]_vars
    PROVE  WakeInv'
<1>1. PendingInv'
  BY PendingStep DEF WakeInv
<1>2. ASSUME NEW q \in Requests, waitOn'[q] # NoReq
      PROVE  WillNotify(waitOn[q])'
  <2>1. CASE waitOn'[q] = waitOn[q]
    <3>1. waitOn[q] \in Requests /\ WillNotify(waitOn[q])
      BY <1>2, <2>1 DEF WakeInv, DInv, IInv, TypeOK
    <3>2. PICK h \in Requests : h = waitOn[q]
      BY <3>1
    <3>3. WillNotify(h)'
      BY <2>1, <3>1, <3>2, NotifyStep DEF WakeInv
    <3>. QED
      BY <2>1, <3>2, <3>3 DEF WillNotify
  <2>2. CASE waitOn'[q] # waitOn[q]
    BY <1>2, <2>2, WaitOnStep DEF WillNotify
  <2>. QED
    BY <2>1, <2>2
<1>. QED
  BY <1>1, <1>2 DEF WakeInv

\* Where nobody hangs up and the index can be read, every reservation's request is
\* on its way to it, and every registered request's holder on its way to notify.
THEOREM WakeUps == ASSUME Gentle PROVE Spec => []WakeInv
<1>1. Init => WakeInv
  BY EntryKinds DEF Init, WakeInv, PendingInv
<1>2. DInv /\ WakeInv /\ [Next]_vars => WakeInv'
  BY WakeStep
<1>. QED
  BY <1>1, <1>2, PipelineInvariant, PTL DEF Spec

\* Every reservation belongs to a call that has yet to release or commit it.
THEOREM NothingOrphaned == ASSUME Gentle PROVE Spec => []NoOrphanReservation
<1>1. DInv /\ WakeInv => NoOrphanReservation
  BY DEF DInv, HolderInv, WakeInv, PendingInv, StillHolds, NoOrphanReservation, Releasing
<1>. QED
  BY <1>1, PipelineInvariant, WakeUps, PTL

\* preflight_batch never sleeps with a reservation of its own, nor waits for a
\* request that will not notify it: there is no circle of waiting requests.
THEOREM NoLostWakeup == ASSUME Gentle PROVE Spec => []SleepersAreSafe
<1>1. DInv /\ WakeInv => SleepersAreSafe
  <2>. SUFFICES ASSUME DInv, WakeInv, NEW r \in Requests, pc[r] = "waiting"
                PROVE  /\ waitOn[r] # NoReq => Releasing(waitOn[r])
                       /\ \A i \in Ids : memory[i].kind = "pending" => memory[i].by # r
    BY DEF SleepersAreSafe
  <2>1. \A h : WillNotify(h) => Releasing(h)
    BY DEF WakeInv, PendingInv, StillHolds, WillNotify, Releasing
  <2>. QED
    BY <2>1 DEF WakeInv, PendingInv, StillHolds
<1>. QED
  BY <1>1, PipelineInvariant, WakeUps, PTL
=============================================================================
