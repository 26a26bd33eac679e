# Warehouse Lab: specifications, model checks and proofs

TLA+ models of the virtual warehouse (`src/`, Rust): a node that takes batches of
stock operations over HTTP, puts them into a replicated JetStream log and a local
WAL, keeps balances in memory and recognises repeated operations by their
`operation_id`. Paths below are relative to the repository; `state.rs`, `main.rs`,
... stand for `src/src/state.rs`, ...

## 1. The system

| Component | State | Operations | Talks to |
|---|---|---|---|
| Write handlers (`main.rs:632-757`) | one future per HTTP request | `apply_one`, `apply_batch`, `replicate`, `ensure_writer` | lease, Store, replicated log |
| Store (`state.rs`) | memory index of identifiers in `DEDUP_SHARDS` locked maps; state shards with balances; published balances; two channels | `preflight_batch`, `finish_batch`, `apply_preflight_batch`, `restore_chunk`, `snapshot` | WAL, disk index; called by handlers and the tail |
| State shards (`state.rs:494-532`) | balances of the `(owner, sku)` of the shard | `ApplyBatch`, dump | Store, by channel and oneshot |
| Publisher (`state.rs:429-454`) | published balances | joins up to 256 publications | Store, readers |
| Persister (`state.rs:456-492`) | a coalesced group | `insert_many`, then eviction from memory | disk index, memory index |
| WAL (`wal.rs`) | one append-only file, a writer task with a channel | `append_many`, `reset`, `open`, `quarantine` | Store, `main` |
| Disk dedup index (`dedup_disk.rs`) | sharded LSM keyspaces, older redb files, a Bloom filter | `get_many`, `insert_many`, `sync`, background rebuild | Store, `main` |
| History index (`dedup_disk.rs`, `main.rs:387-445`) | operations by owner and SKU, its own position in the log | `materialize_history_batch`, range scans, migration | log, read endpoints |
| Snapshot, checkpoint (`snapshot.rs`, `checkpoint.rs`) | two files replaced by rename | `load`, `save`, `advance`, `reset` | `main`, tail |
| Start-up (`main.rs:96-247`) | decisions in local variables (`rebuild_from_quorum`, `snapshot`) | open or quarantine each file, replay, compact, serve | all files, log |
| Live tail (`main.rs:368-385, 458-498`) | next sequence, writer epoch | `catch_up` | log, Store, checkpoint |
| Writer lease (`cluster.rs:198-283`) | `LeaseState` of the node; the KV entry with a TTL | renew, create + promote + fence | JetStream KV, log, handlers |
| Replicated log, DLQ (`cluster.rs:42-196`) | JetStream streams | `append`, `append_fence`, `read`, `quarantine_record` | all nodes |
| Codec, model, configuration | none | encode, validate, parse | — |
| Load generators, scripts, HAProxy, NATS, Prometheus | — | measurement and deployment | HTTP |

What is hard in this code, and what makes each part correct:

* **Store.** Handlers and the tail run interleaved at every await. A request holds
  reservations in several shards, taken one shard lock after the other; entries
  migrate from memory to disk while others look them up. Correct means: an
  operation changes a balance at most once; nothing durable is ever forgotten; a
  positive answer means durable and applied; nobody waits for ever.
* **Recovery.** Four files and an index are written one after the other, and the
  process may die between any two. Correct means: after every restart each
  operation of the log is counted exactly once.
* **WAL.** One write and one sync serve many callers; both may fail; a crash cuts
  the file. Correct means: what was acknowledged is found again, and what was cut
  is not mistaken for damage.
* **Disk index.** A filter that may only err on one side is rebuilt while the index
  is used. Correct means: no false negative.
* **Lease.** A server-side TTL against a local clock, three calls to take the lease,
  late records. Correct means: one writer, and nothing it acknowledges lies behind
  the fence of a newer one.
* **Replication.** Handlers of the writer and the tails of all nodes apply one log;
  records come late, twice, or under an epoch that is over; a tail stops midway and
  starts again from a checkpoint. Correct means: nodes apply the same operations,
  never two contents of one identifier, and reject the same records.
* **History.** A second tail fills an index that is not synced, while reads compare
  its position with the node's checkpoint. Correct means: what is let through is
  complete, after migrations, failures and crashes.

`PROJECT.json` lists these hazards at the lines where they bite, with the
properties that watch them, and those nothing watches, with the reason.

## 2. The modules

| Module | Models | Kind |
|---|---|---|
| `Ledger` | what a node promises its clients, without queues, locks and files | abstract specification |
| `Store` | `state.rs` and the path of a batch through the handlers | detailed; refines `Ledger` |
| `StoreProofs` | `Store`'s safety and the refinement of `Ledger` for all constants | TLAPS |
| `Recovery` | the node's files, `main()`'s start-up, the tail, crashes and damage | detailed |
| `Wal` | `wal.rs`: group commit, failing writes, `recover` | detailed |
| `DedupIndex` | `dedup_disk.rs`: lookups, inserts and the filter's rebuild | detailed |
| `WriterLease` | the lease loop, fencing, the handlers' two checks, the log's epochs | detailed |
| `AcceptedLog` | which records of a log `catch_up` applies: shared by the two tails | operators |
| `Replicas` | what a cluster promises, without log, epochs, lease and checkpoints | abstract specification |
| `Cluster` | `catch_up` on every node, the handlers beside it, the log, the DLQ, takeovers | detailed; refines `Replicas`; composes what the modules above show |
| `History` | `run_history_tail`, the index, the reads and their guard | detailed |
| `AcceptedLogProofs` | lemmas about appending to a log, prefixes and epochs | TLAPS |
| `ClusterProofs`, `HistoryProofs`, `LeaseProofs`, `RecoveryProofs`, `WalProofs`, `DedupIndexProofs` | the safety properties of the module named, and the refinement of `Replicas` | TLAPS |
| `MC*` | values of the constants for TLC | instances |

Operators marked "Mutation" are plausible mistakes in the operator they stand
next to. No specification uses them; putting one in place of its original must
break the property it is paired with (`PROJECT.json`, `mutants`), which shows that
the property depends on the code.

The modules look at different levels of one node, and each one's atomic steps are
what another one justifies:

* `Store` takes a WAL append as one step that succeeds or fails (`Wal` is about
  what a success means) and a disk lookup as one read of a map (`DedupIndex` is
  about why the filter in front of it does no harm).
* `Recovery` takes the application of an operation as one step (`Store` shows that
  handlers, shards, publisher and persister together do it once) and the WAL as a
  sequence of records that is intact or damaged as a whole.
* `WriterLease` knows records only by their epoch and kind; `Recovery` replays
  records one writer after the other has written and every epoch accepts.
* `Cluster` takes a node's index, WAL and balances as one durable set of applied
  operations (`Store`, `Recovery`) and the lease as one owner at a time
  (`WriterLease`). Points 1 to 3 of section 6, which break the first of these
  views, are therefore not repeated in it; point 4 is in it.
* `History` takes the log and the node's checkpoint as moving on by themselves
  (`Cluster` moves them).

### Store and Ledger

A request (`pc`, `batch`, `fresh`, `todo`, `waitOn`, `answer`) is a handler call or
a chunk the tail restores (`Tails`). Its steps are the code between two awaits or
under one lock:

    Submit -> ReserveShard* -> Replicated -> AppendLog -> ApplyShard* -> Applied
           -> CommitShard*  -> SendPublish -> SendPersist -> Wake -> answered

with the exits `ReserveStops` (conflict, or a reservation of somebody else: roll
back shard by shard, then sleep and `Retry`), `ReserveReadFails`,
`ReplicationFails`, `LogFails` (abort shard by shard) and `Cancel` (the handler's
future is dropped at an await; an append already sent goes on,
`DetachedAppend`). The publisher and the persister are actors of their own.
`memory` holds `Vacant`, `Pending(fp, by)` or `Committed(fp)` per identifier;
`balance` counts how often the state shards have added an operation, so that
"twice" is visible.

The fault set of an instance names what may fail: `quorum`, `wal`, `diskRead`,
`diskWrite`, `cancel`.

`Ledger` has one set of durable operations that grows by all the missing
operations of a request at once, and answers that must be justified by it.
`ImplementsLedger` maps the WAL-acknowledged operations to that set.

### Recovery

Each phase of `main()` is an action in its order: `ReadSnapshot`, `OpenDedup`,
`OpenWalStartStore`, `OpenCheckpoint`, the tail's records, `DumpState`,
`SyncDedup`, `SaveSnapshot`, `ResetWal`, serving. `lsmSynced` is what of the index
a crash must leave, `lsm` what a reader finds; `mem` are committed entries the
persister has not inserted, at whatever time it gets to them; `SyncDedup` syncs
`lsm` and does not wait for `mem`, as `main.rs:189`. `Crash` may come in any phase of
`CrashPhases`; `Damage` spoils a file while the process is down. `damaged` remembers
that it ever did. `exposed` is kept for the properties only: it collects what was in
`mem` when the index was synced for the snapshot, and what was in the WAL when the
process died between `SaveSnapshot` and `ResetWal`. A record carries one operation and no two contents share an identifier here.

### Wal

The file is a sequence of units, a header and `Size` payload units per record.
`Receive`, `Join`, `WriteGroup` and `Sync` are the writer task; `WriteFails` leaves
any first part of the group behind, `SyncFails` all of it. `Crash` keeps any first
part that contains what was synced. `Scan` is `recover`, `Recovered` what the node has of it: nothing,
if the file is damaged. `torn` says that a
failed write has left a fragment, behind which the writer goes on appending;
`forfeit` collects what is written behind one, and what the file holds when a start
finds it damaged and puts it aside. Everything else that was acknowledged must be
recovered, with a fragment in the file as well.

### DedupIndex

The LSM is the sequence of committed batches, of which a crash keeps a first part
not shorter than the last sync. `Restart` empties the filter; `ScanSource` reads
one keyspace or table at a time into an image; `ScanDone` merges it. `get_many` is
`Lookup` (filter and flag under one lock) and then `Ask` per key and place.
`old` is what earlier releases have left in the compatibility stores.

### WriterLease

The KV entry has an owner, an epoch, a remaining TTL; `cas` says whether the
revision a node knows is still current. A server-side write and the arrival of its
reply are two steps at most `MaxLag` ticks apart; time is discrete. A handler checks
the lease (`CheckWriter`), its record lands (`RecordLands`) or is abandoned by the
timeout and may land later (`LateRecordLands`), and it checks again (`Confirm`).
`EpochAfter` is the epoch `catch_up` computes at a place of the log. Reading that
the entry is absent and creating it are one step, because the server's `create`
refuses whoever is too late, and a refusal ends the round as reading the other's
entry does.

### Cluster and Replicas

`log` is the stream with fences, operations and what is no record (`Poison`);
`tail[n]` is where `catch_up` of node `n` is, with the epoch in force there,
`ckpt[n]` the same two numbers as the file has them, `known[n]` what the node has
applied. A record is passed by one of

    TailFence        a fence: the epoch in force may grow
    TailApplies      the epoch in force: restore_chunk
    TailRejects      another epoch, or no record: into the DLQ
    TailFails        a clash, or a failed read, append, publication or checkpoint:
                     back to the checkpoint; a node that was starting ends and
                     starts again

and a handler runs `CheckWriter`, `Preflight`, `RecordLands`, `Confirm`, or leaves
through `PublishTimeout`; what it had sent then lands later, or never. `Land` either
appends a record or, as `Nats-Msg-Id` does inside its window, takes an identical one
for it. The lease is taken in the code's steps (`stage`): `Promote` is the entry with its
new epoch, `FenceLands` a fence the log has acknowledged. With `FenceFails`, or a crash
before the fence, the entry stays promoted and the fence may land late or never; the
next round's `Renew` then makes the node a writer without a fence
(`cluster.rs:231-233`). Nothing makes a new writer wait for its tail. A lease is not
given on while its owner still waits for the fence: what a fence that lands only after
the next takeover does is shown by `FenceFails` and the late fence it leaves.

`Replicas` knows chosen operations, early ones, what each node holds, and answers. A
node learns only what is chosen, loses nothing, never holds two contents of one
identifier; "ok" needs a node that holds the operation, and that it is chosen or early.
`ImplementsReplicas` maps the accepted operations of the log (`Accepted`: those whose
record has the epoch in force at its place) to the chosen ones: accepted once, accepted
for ever, for every node; and to the early ones those that are in the log ahead of
their writer's fence (`Early`), which no tail applies.

### History

`log`, `last` and `ckpt` belong to the rest of the node. `lsm` is the sequence of the
index's states since its last sync, one per batch; `Crash` keeps any first part of
it. `task` and `rd` are `run_history_tail` with its locals: `TailBegins` a round,
`TailReads` a record, `Materializes` a batch, `Publishes` its sequence, `TailEnds` a
round with the sync and the mark of the migration. `Start` is
`prepare_binary_history_migration`: an index of an older release (`fmt = 0`), whose
rows are in redb (`legacy`), is built anew from the first record. A request `req` is
a traversal of the pages, one `get_operation` or one `get_operations_batch`, with
`owed`, what the checkpoint covered when it was asked.

## 3. The runs

| Run | Constants that matter | Checks | Result |
|---|---|---|---|
| `store_faults` | 3 requests, one of them the tail; 2 identifiers in 2 shards, 2 contents; all faults; persist queue of 1 | `DInv AtMostOnce NeverForgotten OkIsDurable PublishedFollows PublishedWhole ImplementsLedger` | holds |
| `store_live` | the same without the batch that contradicts itself, failing quorum and WAL | `NoOrphanReservation SleepersAreSafe EveryRequestAnswered EventuallyMaterialized` | holds |
| `store_cancel` | with vanishing clients | `EveryRequestAnswered` | violated, see 6 |
| `recovery_all` | 2 operations, log of 3, 2 crashes in every phase, three kinds of damage | `RInv TwiceOnlyIfExposed CrashesSkipNothing CheckpointIsCovered SnapshotIsRemembered EventuallyApplied` | holds |
| `recovery_overtaken` | no damage, crashes only while serving | `NoDoubleApply` | violated, see 6 |
| `recovery_wal` | a damaged WAL | `NothingSkipped` | violated, see 6 |
| `wal` | 4 records of sizes 3, 1, 2, 1; groups of 2; queue of 2; failing writes and syncs; 2 crashes | `WInv AckedIsRecovered NoFalseAlarm EveryAppendAnswered` | holds |
| `index` | 3 keys in 2 shards with overlapping bits; a new directory and one of an older release; 2 inserts, a crash, a failing scan | `XInv NoFalseNegative FilterCovers` | holds |
| `lease` | 2 nodes, TTL 4, validity 3, margin 1, lag 2; KV errors, timed-out publishes, failing fences, crashes; 2 epochs, log of 3 | `LInv SingleWriter AcksFollowEpochs AckedIsNotFencedOff` | holds |
| `cluster` | 2 nodes, 2 epochs, 2 requests with one operation or two contents of one identifier, one fault (crash, failing tail, failing fence, poison), poison at sequence 4; requests handled in turn | `CInv PassedIsApplied DeadLettersAreRejects OneWriterOneContent ImplementsReplicas EventuallyAgree` | holds |
| `cluster_unfenced` | as `cluster` | `AckedIsAccepted` | violated, see 6 |
| `history` | logs of 6 and 5 records with a takeover that rejects a late record, a repeat, poison, identifiers out of order; batches of 2, pages of 1; 2 faults; a new directory and older ones of every age | `HInv IndexIsPrefix FailClosed TraversalIsComplete OneIsNotMissed EventuallyComplete` | holds |

**Why the bounds are enough for the cases that matter.** Three requests are what a
wait needs at its worst: one that holds, one that sleeps on it, one that takes the
identifier between the wakeup and the retry. Two identifiers in two dedup shards
allow batches that overlap crosswise and a reservation held in part; two contents
allow conflicts. `PersistCap = 1` makes the persist queue full. In `Recovery` a log of three over two
operations contains a redelivery; two crashes let the second one hit what the
first one's recovery has left half done. In `Wal` the long record lets a fragment
hide shorter ones, two groups are needed for one behind a failed one. In
`DedupIndex` one reader is enough because readers change nothing; two inserts can
lie before, in and behind the scan, and the bits of `b` are covered by those of `a`
and `c`, so false positives occur. In `WriterLease` two epochs are a handover; a
tick is 1.25 s, so that the TTL of 5 s is 4 ticks. What decides is how slow a reply may be,
and that is at its limit: validity + lag = TTL + margin (3 + 2 = 4 + 1), as the code's 4 s
and 2.5 s would be with a lag of 3.5 s. A log of three holds a record, a fence and a record on
either side of it. In `Cluster` two epochs let a record land behind the fence that
rejects it, two requests let one be retried, or meet another content, while the first
is pending, late, lost in a crash or only in the log; the one fault meets every place
of that. Poison lands as fourth record (`PoisonPlaces`), where it has fences and operations
before it and the rest of them behind it. `InTurn`, a state constraint, lets `r1` be handled first: exchanging the
requests, and with them the two contents, maps each excluded behaviour to one that is explored, with
the same properties. `CrashesDiffer`, an action constraint, lets a node go down only if it has a
handler or a fence under way: without them a crash is the rewind of `TailFails`, with the same one
fault, after which the node serves later and does nothing that the other one could not do.
`Promote` gives the first epoch to the node without a `WRITER_PRIORITY_DELAY`, which is `n1`. In `History` batches of two leave two or
three of them unsynced, one of them cut by the end of the log; pages of one put a
page boundary between any two rows; a second fault hits what the first one's
restart has not yet made good. The code's 16 records, 64 records and page limits
differ only in number.

**Deadlock** is not checked: every model stops when its requests, appends, crashes
or epochs are used up. That nobody waits for ever is stated as a liveness property
where it matters. `SYMMETRY` is used for the two nodes of the lease and only with
invariants; the nodes of `Cluster` are not interchangeable (`FirstWriter`).

**Fairness.** Each Tokio task whose future is ready is polled again, and locks and
channels are fair: weak fairness per request, shard, publisher and persister
(`Store`), for the writer task (`Wal`). The process is restarted by Docker (`restart:` in `compose.yaml`):
weak fairness of start-up (`Recovery`, `Wal`). Quorum, clients, crashes and damage are never fair.
In `Recovery` weak fairness of the tail is the loop of `run_live_tail`. In `Cluster`
it is assumed, per node, of the one task that replays, saves the checkpoint and, at
start-up, then serves, and of a handler that waits for the quorum, which has a timeout;
not of takeovers, fences and renewals, of records under way, of clients and of faults. In `History` it is assumed of
the index's tail, a loop, and of the restart. `WriterLease` and `DedupIndex` have
only safety properties and no fairness.

## 4. The proofs

Each theorem holds for all values of the constants that satisfy the module's named
assumption (`StoreAssumption`, `ClusterAssumption`, ...: shard functions with values in
the shards, batches of operations, sentinels outside their sets, bounds in `Nat`), which
TLC evaluates on every run. The bounds of the runs (`MaxLog`, `MaxCrashes`, ...) are
arbitrary naturals in the proofs. Every invariant below is the conjunction of named
parts; most safety properties are not inductive by themselves, and the parts say what
is missing. TLC checks each inductive invariant in a run (it includes `TypeOK`) before
it is proved, and each proof has one step per action. Only `WakeInv` is in no run;
`store_live` checks the two properties that follow from it. `OnlyGrows`, `OnlyMore`, `AckedIsHeld`,
`AckedIsLogged` and `AckedIsRestorable` are defined beside their theorems and follow from
invariants and refinements that runs check.

| Module | Theorem | States |
|---|---|---|
| `StoreProofs` | `TypeCorrect`, `AppliedAtMostOnce` | `[]TypeOK`, `[]AtMostOnce` |
| | `PipelineInvariant` | `[]DInv` |
| | `NothingForgotten`, `OkMeansDurable`, `PublishedBehind`, `PublishedAtOnce` | `[]NeverForgotten`, `[]OkIsDurable`, `[]PublishedFollows`, `PublishedWhole` |
| | `StoreImplementsLedger`, `RepliesAreFinal` | `Spec => ImplementsLedger`, `[][OnlyGrows]_<<logged, batch, answer>>` |
| `StoreProofs`, under `Gentle` | `WakeUps` | `[]WakeInv` |
| | `NothingOrphaned`, `NoLostWakeup` | `[]NoOrphanReservation`, `[]SleepersAreSafe` |
| `ClusterProofs` | `ClusterInvariant` | `[]CInv` |
| | `PassedRecordsAreApplied`, `DeadLettersExact`, `OneContentUnderOneWriter` | `[]PassedIsApplied`, `[]DeadLettersAreRejects`, `[]OneWriterOneContent` |
| | `ClusterImplementsReplicas` | `Spec => ImplementsReplicas` |
| | `NothingTakenBack`, `AcknowledgedIsAccepted` | `[][OnlyMore]_vars`; `[](AckedIsHeld`, "ok" only for what is in `Accepted \cup Early`, and `Early = {} => AckedIsAccepted)` |
| `HistoryProofs` | `HistoryInvariant` | `[]HInv` |
| | `IndexIsAlwaysPrefix`, `ReadsFailClosed`, `CursorsMissNothing`, `FoundIfCovered` | `[]IndexIsPrefix`, `[]FailClosed`, `[]TraversalIsComplete`, `[]OneIsNotMissed` |
| `LeaseProofs`, under `Timely` | `LeaseInvariant` | `[]LInv` |
| | `AlwaysOneWriter`, `AcksNeverGoBack`, `AcksAreNotFencedOff` | `[]SingleWriter`, `[]AcksFollowEpochs`, `[]AckedIsNotFencedOff` |
| `RecoveryProofs` | `DiskInvariant`, `CrashesNeverSkip`, `CheckpointNeverAhead` | types, positions and `~damaged => CoveredInv`; `[]CrashesSkipNothing`; `[]CheckpointIsCovered` |
| | `AcknowledgedIsRestored`, `FilesLoseNothing` | `[](AckedIsLogged /\ AckedIsRestorable)`; `Restorable` never shrinks without damage |
| | `RecoveryInvariant`, `TwiceOnlyThroughAGap`, `SnapshotStaysKnown` | `[]RInv`, `[]TwiceOnlyIfExposed`, `[]SnapshotIsRemembered` |
| `WalProofs` | `WalInvariant`, `AcknowledgedSurvives`, `CrashesLookWhole` | `[]WInv`, `[]AckedIsRecovered`, `[]NoFalseAlarm` |
| `DedupIndexProofs` | `IndexInvariant`, `FilterAlwaysCovers`, `LookupsMissNothing` | `[]XInv`, `[]FilterCovers`, `[]NoFalseNegative` |

### Store: `IInv`

`AtMostOnce` (invariant 2 of `ARCHITECTURE.md`) alone is not inductive: a state in which
a request is about to send a command for an operation already in a balance satisfies
it, and the next step does not. `IInv` adds what excludes such a state:

* `OwnInv`, `UnappliedInv`: as long as a request has neither committed nor
  released what it reserved, the memory entry is its own, and until it has sent its
  commands no operation with that identifier is in any balance;
* `JobInv`, `JobOwnerInv`: the same for commands in a shard's queue, also when
  the request's future has been dropped;
* `AppliedInv`: an identifier in a balance is known to memory or disk, so nobody
  reserves it anew;
* `EvictInv`: what the persister evicts is on disk;
* `BatchInv`: a batch in the pipeline gives each identifier one content.

The argument: `ReserveStep` (a reserved identifier was unknown, hence by
`AppliedInv` in no balance), `OneHolder` (no identifier has two holders),
`AppendStep` and `ApplyStep` (a command is sent once and executed once),
`CommitStep` and `EvictStep` (knowledge moves from the reservation to the
committed entry to the disk and is never lost between), `ReleaseStep` (an abort
removes only what is unapplied), `OneQuietMove` (all other steps).

### Store: `DInv` and the refinement of `Ledger`

`DInv` adds to `IInv` where the content of every operation is at every place of the
pipeline: `HolderInv` (each pending entry has the one request that reserved it),
`LogInv` (the WAL has one content per identifier, and none of what is reserved),
`SettledInv` (what is committed, on the way to the disk or there is durable and
applied), `ScanInv` (what `preflight_batch` has passed is reserved or settled, and
it refuses only what somebody disputes), `ApplyInv`, `PublishInv` (each publication is
queued once, for operations that are applied and not yet published), `AnswerInv` and
`OkInv`. With it every step of `Store` maps to a step of `Ledger` or to a stutter:
`AppendLog` and `DetachedAppend` make a batch durable, the answering steps answer, and
everything else is invisible; `ScanInv` is what justifies the answer "conflict",
`SettledInv` the answer "ok" to duplicates. `RepliesAreFinal` says what clients get from it.

### Store: `WakeInv` under `Gentle`

`Gentle` excludes the two faults that leave a reservation behind for ever: a client
that hangs up (`cancel`, the recorded violation `store_cancel`) and an error of
`get_many` (`diskRead`, `state.rs:192`). Failing quorums, WAL appends and disk inserts
stay in. `StillHolds` says where the request of a pending entry may stand: in a loop
that has the entry's shard ahead, or before such a loop. `WillNotify(h)` is true while
`h` rolls back, while it has its own `Notify` among those `finish_batch` has collected,
or while one of its reservations is in the memory index, from which the rollback, the
commit or the abort will collect it. A request registers under the lock under which it
sees the reservation (`WaitOnStep`), the holder loses no part of `WillNotify` without
notifying (`NotifyStep`), and `HolderInv` of `DInv` keeps `AbortShard` and
`CommitShard`, which look at identifiers and not at holders, from taking another
request's entry (`ShardIsEmptied`). A sleeping request holds nothing, so no
circle of sleepers can form.

### Cluster: `CInv` and the refinement of `Replicas`

`AcceptedLogProofs` shows that appending a record changes neither the epoch in force nor
the accepted and the early operations of a prefix, which makes an accepted operation
accepted for ever, for every node. `EpochInv` says that no record and no fence, in the
log or under way, has an epoch the lease has not had yet; it does not say that a record's
fence is there. So a landing record that is not accepted and not behind a newer fence is
early, and a handler that confirms its record under the present lease has one that is
accepted or early. `CursorInv`, `PassedIsApplied` and `KnownInv` tie tails,
checkpoints and what nodes have applied to it, over errors, rewinds and crashes;
`HandlerInv` says that a handler waits only behind a record of its own; `FirstInv`, that
under the first lease everything was asked of one node, from which `OneWriterOneContent`
follows. A crash loses nothing of `Replicas`, a rewind is a stutter, a landing record
either chooses its operation, or is early, or is rejected for ever. `NothingTakenBack` and
`AcknowledgedIsAccepted` follow from the steps of `Replicas`.

### History: `HInv`

`IndexIsPrefix` says of every state in the list that a crash can go back to that it is what
`catch_up` accepts of a prefix. It needs `RoundInv`: a round's epoch and its gathered
identifiers are those of the records it has read. `PublishedInv` keeps the published
sequence behind the rows, from which `FailClosed` follows. `RequestInv` carries the promise
of the guard through the request: what is owed stays covered by the checkpoint, is in the
index once the guard has let a lookup pass, and, for a traversal, lies behind the cursor or
has been shown.

### WriterLease: `LInv` under `Timely`

`Timely == LeaseTime + MaxLag <= Ttl + Margin` is what `SingleWriter` asks of the network;
with the code's 4 s, 5 s and the handlers' margin of 2.5 s it allows a KV reply to take up
to 3.5 s. The code does not enforce it (section 6). `RoundInv` and `ValidInv` relate the
clock of the node to that of the server: while a reply is awaited the entry is still there
with the rest of its TTL, and as long as a node's validity is not used up so far that the
slowest reply could account for it, the entry is its own and outlives what is left. So
whoever passes `ensure_writer` owns the entry (`WriterOwnsEntry`), and there is one entry.
`EpochsInv` and `AckInv` carry that over to the log: a handler that confirms its record has
the epoch of the last creation, so no record before it has a newer one. A validity of zero
needs a conjunct of its own in `ValidInv` (`valid[n] > 0`), which the instance with its
smaller numbers could not show and the proof did.

### Recovery: `RInv`

`CoveredInv` is proved for files that never lost their contents: snapshot and WAL together
hold what was applied, the index recognises nothing else, the snapshot and the checkpoint
are as far as their sequences say, and the tail has passed only what was applied. It says
that every step of `main()` leaves the files, taken together, no poorer than before, in whatever
phase the next crash comes; `FilesLoseNothing` states just that, and with it what was acknowledged
is restored. `OnceInv` is proved with damaged files included: what is in the balances is recognised
and there once, what the snapshot holds is in the synced index, and the WAL does not repeat
it, each of operations that are not in `exposed`. The code does not let one say this of all
operations (section 6). `exposed` grows in two places only: at the sync for the snapshot, by the
persist queue, and at a crash between saving the snapshot and resetting the WAL, by the WAL. That is
why the theorem `TwiceOnlyThroughAGap` says that there are exactly these two ways to count an
operation twice.

### Wal: `WInv`

What `recover` finds depends on every byte before, so the proof first needs lemmas about
the scan. `ScanFrom` is a recursive function on positions that looks ahead by the length of the
record it is at; that there is such a function, and that each position obeys its
equation, is itself proved (`ScanExists`, `ScanFromIsScan`), by taking a least counterexample
among the positions, as are the others:

* `CutScan`: in a file that is cut anywhere, only records that were found before are found,
  and no damage that was not there; so what is found in a first part is found in any longer one;
* `CutAtValid`: what `open` keeps is scanned to its end, and nothing recoverable is lost;
* `RecordAppended`, `GroupAppended`: behind whole records a group is found whole, with all that
  was there.

`OwedInv` is then the reason why acknowledged records survive: they are found in the synced part
alone. `Sync` moves a group there, because `GroupInv` says that a written group is found in the file or
is forfeit; `FileInv` says that without a fragment the file is whole records while the process
runs. `WaitInv` is the safety half of `EveryAppendAnswered`: whoever waits is exactly once in
the group or in the channel, so it is in the next group's answer or still in line.

### DedupIndex: `XInv`

`ScanInv`: while the rebuild runs, a key the index has to know is in the filter, in the
image or in a source the scan has not reached. An insert that the scan of its shard missed
puts its bits into the filter by itself, before it returns; the merge keeps them.
`OwedInv`: a key owed to a caller is found, or one of the places left for it holds it, because
sources only grow during a call and a key is struck off only where it was not, or after it
was found. `FilterCovers` is what lets `Lookup` leave a key out.

### What stays with TLC

* Every liveness property (`EveryRequestAnswered`, `EventuallyMaterialized`,
  `EventuallyApplied`, `EventuallyAgree`, `EventuallyComplete`, `EveryAppendAnswered`):
  fairness and `ENABLED` are outside the provers.
* The recorded violations of section 6, which are counterexamples.

## 5. What is not modelled

* Reads of balances beyond `PublishedWhole`; metrics; readiness (`/ready` is the lease
  check with a margin of 250 ms and `last_sequence`, and changes nothing).
* Single-node mode (no `nats_url`): the handlers without quorum and lease.
* The limits of the stream (`max_bytes`, `DiscardPolicy::New`, `cluster.rs:70-99`): a full
  stream is a publication that fails.
* The prefetch of 64 reads in `catch_up` (`main.rs:463-465`): records do not change. It
  puts a poison record into the DLQ up to 64 records early, and so does the history
  tail.
* The race inside one page: `scan_operations` and `by_index` walk an LSM range while
  batches are written; a page is one step in `History`.
* The codec, field validation, configuration, load generators: no state of their own.
* `i64` overflow of a balance (`state.rs`, `+=`) and the sums themselves: balances are counted per operation.
* Failed syncs after which the kernel drops dirty pages; `SyncFails` keeps them.
* The upgrade of a directory with a monolithic index (`main.rs:122-129`): `dedup.redb`
  without `history.redb` is put aside and the log replayed. `OpenDedup` starts behind it; a
  first start that died between creating the two files takes the same way.
* Opening an index whose LSM itself is unreadable: the second `open`
  (`main.rs:143`) fails as the first did and the process ends.

## 6. Where code and documentation disagree

Each one is a run that TLC finds violated; `PROJECT.json` quotes the sentences.

1. `recovery_overtaken`: `sync_disk_dedup` (`main.rs:189`) does not wait for the
   persist queue. Identifiers in it are in the snapshot's balances, but after the WAL
   is reset and the process dies nobody remembers them, and a repeat is applied again.
   `NoDoubleApply` fails in one more way, which the run leaves out: a crash between
   `snapshot::save` (`main.rs:190`) and `wal.reset` (`main.rs:191`) makes the next start
   add the WAL to a snapshot that contains it. `TwiceOnlyIfExposed` and its theorem
   show that there is no third one.
2. `recovery_wal`: after the WAL is quarantined, `dedup-lsm` still knows its
   operations and the replay skips them. A damaged snapshot or `dedup.redb` has the
   same effect (`main.rs:131-146` renames `dedup.redb` only).
3. `store_cancel`: a dropped handler leaves its reservation in the memory index.
4. `cluster_unfenced`: a node whose `append_fence` failed, or whose promotion was answered
   too late, finds its own entry in the next round, renews it (`cluster.rs:231-233,
   243-245`) and writes under an epoch the log does not know; `catch_up` of every node
   rejects its records, acknowledged or not. `ImplementsReplicas` shows what is left:
   nobody applies such a record but its writer, and `AcknowledgedIsAccepted` that this is
   the only way an acknowledged operation is not accepted. `AckedIsNotFencedOff` of the
   lease asks for the same reason only that no newer fence lies before the record.

A disagreement without a run of its own: `get_operations_batch` looks its rows up
(`main.rs:545`) and asks `ensure_history_complete` afterwards (`main.rs:552`). A row that was
missing at the first step may be there at the second, which then lets the 404 through:
the client hears that an operation does not exist that the checkpoint covered before it
asked. `LookUpBatch` and `AnswerBatch` of `History` are these two steps. `OneIsNotMissed`
shows that `get_operation`, which asks first, has no such gap. Either endpoint is complete
only up to the node's checkpoint: an operation that was acknowledged a moment ago and that
the tail has not passed yet may get a 404 from both.

`NothingSkipped` fails in one more way: `rebuild_from_quorum` is a local variable
(`main.rs:110`), so a crash between the quarantine of a file and the reset of the
checkpoint (`main.rs:180`) forgets that the log has to be replayed from its start.
That is why `recovery_all` checks `CrashesSkipNothing`, which excludes damaged files.

Conditions under which the properties hold, and which the code does not enforce:

* `SingleWriter` needs `Timely`, `LeaseTime + MaxLag <= Ttl + Margin`: with a lag of 3 in
  place of 2 TLC finds two nodes that pass `ensure_writer` at once, because
  `valid_until` counts from the arrival of the reply (`cluster.rs:257`).
* `OneWriterOneContent` is about acknowledgements, not about the log, and needs that no second writer has come (`lease < 2`): a new
  writer serves as soon as its fence is acknowledged (`cluster.rs:237-245`), before
  its tail knows the old writer's records. Asked then for an identifier with another
  content, it acknowledges that too, and the log has both records.
* One writer puts two contents of an identifier in the log as well: the first request
  times out, its reservation is dropped, the second request with the other content is
  acknowledged, and then the first one's record lands. However the two came there, a tail
  that comes to the one it cannot apply starts again from its checkpoint for ever
  (`main.rs:479`), at start-up as well. `EventuallyAgree` exempts exactly a node that stands
  before such a record (`Stopped`); `ImplementsReplicas` shows that no node ever
  applies both, but nodes may then differ in which one they have.
* Once a write has failed midway the WAL's writer appends behind the fragment
  (`wal.rs:115-134`), and records acknowledged later are hidden behind it or make the
  whole file look damaged. `AckedIsRecovered` exempts these (`forfeit`) and
  `NoFalseAlarm` files with such a fragment (`torn`), and nothing else.
* `EveryRequestAnswered` is false with index read errors as well: `get_many(..)?`
  (`state.rs:192`) leaves without a rollback.
* A lookup that finds a key while the filter is being rebuilt may be followed by one
  that misses it, if the key's insert had been committed but not yet put into the
  filter. `NoFalseNegative` is about inserts that have returned; `Store` relies on no
  more, because the entry stays in memory until then.

## 7. Plan

Done: all modules of section 2, and the theorems of section 4. Left: which records a tail
still passes rightly when a file is lost. It takes a premise: after a
crash between the quarantine and the reset of the checkpoint neither the balances nor the
index need hold what the checkpoint covers (section 6).
