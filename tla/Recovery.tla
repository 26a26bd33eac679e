------------------------------ MODULE Recovery ------------------------------
(***************************************************************************)
(* What one node keeps on its disk and how main() rebuilds its state: the  *)
(* snapshot, the WAL, the checkpoint and the dedup index, against the      *)
(* replicated log.  The process may crash in any phase; each file write    *)
(* that a crash could separate from the next is a step.                    *)
(*                                                                         *)
(* A log record carries one operation, and no two contents share an        *)
(* identifier here (Store is about those).  The state shards, the          *)
(* publisher and the locks are one step: Store shows that they act as one. *)
(* Balances are counted per operation.                                     *)
(*                                                                         *)
(* Operators marked "Mutation" are plausible mistakes in the operator      *)
(* below them; the specification does not use them.                        *)
(***************************************************************************)
EXTENDS Naturals, Sequences, SequencesExt

CONSTANTS
    Ops,            \* operations
    CrashPhases,    \* phases in which the process may crash
    Faults,         \* which damages this instance allows
    MaxLog,         \* bound on the replicated log
    MaxCrashes,     \* bound on crashes
    NoOp

Phases == {"down", "snapshotRead", "dedupOpen", "storeStarted", "catchingUp",
           "dumped", "synced", "saved", "serving"}

AllFaults == {"walDamage", "snapshotDamage", "redbDamage"}

ASSUME RecoveryAssumption ==
    /\ CrashPhases \subseteq Phases \ {"down"}
    /\ Faults \subseteq AllFaults
    /\ MaxLog \in Nat /\ MaxCrashes \in Nat
    /\ NoOp \notin Ops

VARIABLES
    log,            \* the replicated log (durable, shared)
    \* on this node's disk
    wal, walOk,     \* operations.wal, and whether its checksums hold
    snapFile, snap, \* state.snapshot: presence, and [seq, counts]
    ckpt,           \* replicated.checkpoint
    redb,           \* dedup.redb, the compatibility file next to the index
    lsm, lsmSynced, \* dedup-lsm: what a reader finds, what a crash leaves
    \* in memory
    phase,
    loaded,         \* the snapshot main() works with; seq 0 when there is none
    rebuild,        \* rebuild_from_quorum
    target,         \* last_sequence read when catch_up began
    tailPos,        \* records catch_up or the live tail has passed
    balance,        \* how often each operation is in the balances
    mem,            \* committed entries not yet in the index
    inflight,       \* the operation of a handler between quorum and WAL
    \* for the properties and bounds
    acked, crashes,
    damaged,        \* a file has lost its contents at least once
    exposed         \* operations main() has left open to a second application

vars == <<log, wal, walOk, snapFile, snap, ckpt, redb, lsm, lsmSynced, phase,
          loaded, rebuild, target, tailPos, balance, mem, inflight, acked, crashes,
          damaged, exposed>>
walVars  == <<wal, walOk>>
snapVars == <<snapFile, snap>>
lsmVars  == <<redb, lsm, lsmSynced>>
bootVars == <<loaded, rebuild, target>>
runVars  == <<tailPos, balance, mem, inflight>>
outside  == <<log, acked, crashes, damaged, exposed>>

Counts == [Ops -> Nat]
Zero   == [o \in Ops |-> 0]
NoSnapshot == [seq |-> 0, counts |-> Zero]

\* Mutation: an operation that is not yet in the index is not looked for in memory.
RecognisedOnDisk(o) == o \in lsm

\* preflight_batch knows the operation, from memory or from the index.
Recognised(o) == o \in mem \cup lsm

Min2(m, n) == IF m <= n THEN m ELSE n

TypeOK ==
    /\ log \in Seq(Ops) /\ wal \in Seq(Ops) /\ walOk \in BOOLEAN
    /\ snapFile \in {"absent", "good", "damaged"}
    /\ snap \in [seq : Nat, counts : Counts] /\ loaded \in [seq : Nat, counts : Counts]
    /\ ckpt \in Nat /\ target \in Nat /\ tailPos \in Nat
    /\ redb \in {"absent", "good", "damaged"}
    /\ lsm \subseteq Ops /\ lsmSynced \subseteq lsm /\ mem \subseteq Ops
    /\ phase \in Phases /\ rebuild \in BOOLEAN
    /\ balance \in Counts /\ inflight \in Ops \cup {NoOp}
    /\ acked \subseteq Ops /\ crashes \in 0..MaxCrashes
    /\ damaged \in BOOLEAN /\ exposed \subseteq Ops

Init ==
    /\ log = << >>
    /\ wal = << >> /\ walOk = TRUE
    /\ snapFile = "absent" /\ snap = NoSnapshot
    /\ ckpt = 0
    /\ redb = "absent" /\ lsm = {} /\ lsmSynced = {}
    /\ phase = "down" /\ loaded = NoSnapshot /\ rebuild = FALSE /\ target = 0
    /\ tailPos = 0 /\ balance = Zero /\ mem = {} /\ inflight = NoOp
    /\ acked = {} /\ crashes = 0 /\ damaged = FALSE /\ exposed = {}

-----------------------------------------------------------------------------
(* Start-up, in the order of main(). *)

\* A damaged snapshot is renamed away; the decision to rebuild is only in memory.
ReadSnapshot ==
    /\ phase = "down" /\ phase' = "snapshotRead"
    /\ loaded' = IF snapFile = "good" THEN snap ELSE NoSnapshot
    /\ rebuild' = (snapFile = "damaged")
    /\ snapFile' = IF snapFile = "good" THEN "good" ELSE "absent"
    /\ UNCHANGED <<snap, ckpt, target, walVars, lsmVars, runVars, outside>>

HaveSnapshot == snapFile = "good"

\* dedup.redb is renamed when the snapshot is lost or the file is damaged, and
\* created again; dedup-lsm, where the entries are, stays as it is.  A snapshot
\* without its dedup.redb is not used.
OpenDedup ==
    /\ phase = "snapshotRead" /\ phase' = "dedupOpen"
    /\ redb' = "good"
    /\ LET discard == redb = "damaged" \/ (HaveSnapshot /\ redb = "absent")
       IN  /\ rebuild' = (rebuild \/ discard)
           /\ loaded' = IF discard THEN NoSnapshot ELSE loaded
    /\ UNCHANGED <<ckpt, target, lsm, lsmSynced, walVars, snapVars, runVars, outside>>

\* Store::start: the snapshot's balances, and every distinct operation of the WAL
\* on top of them, whatever the dedup index says of it.
Restored(file) ==
    [o \in Ops |-> loaded.counts[o] + (IF o \in ToSet(file) THEN 1 ELSE 0)]

\* Wal::open, then Store::start.
OpenWalStartStore ==
    /\ phase = "dedupOpen" /\ phase' = "storeStarted"
    /\ walOk' = TRUE
    /\ wal' = IF walOk THEN wal ELSE << >>
    /\ rebuild' = (rebuild \/ ~walOk)
    /\ balance' = Restored(wal')
    /\ lsm' = lsm \cup ToSet(wal')
    /\ mem' = {} /\ inflight' = NoOp /\ tailPos' = 0
    /\ UNCHANGED <<loaded, target, ckpt, redb, lsmSynced, snapVars, outside>>

\* Connect to the log, open the checkpoint, reset or advance it; catch_up reads
\* the last sequence.
OpenCheckpoint ==
    /\ phase = "storeStarted" /\ phase' = "catchingUp"
    /\ ckpt' = IF rebuild THEN 0
               ELSE IF loaded.seq > ckpt THEN loaded.seq ELSE ckpt
    /\ tailPos' = ckpt'
    /\ target' = Len(log)
    /\ UNCHANGED <<loaded, rebuild, balance, mem, inflight>>
    /\ UNCHANGED <<walVars, snapVars, lsmVars, outside>>

\* The state shards' dump, stamped with the checkpoint.
DumpState ==
    /\ phase = "catchingUp" /\ phase' = "dumped"
    /\ tailPos >= target /\ ckpt = tailPos
    /\ loaded' = [seq |-> ckpt, counts |-> balance]
    /\ UNCHANGED <<ckpt, rebuild, target, walVars, snapVars, lsmVars, runVars, outside>>

\* Mutation: the snapshot is saved without syncing the index.
SyncDedupSkipped ==
    /\ phase = "dumped" /\ phase' = "synced"
    /\ UNCHANGED <<ckpt, lsmVars, bootVars, walVars, snapVars, runVars, outside>>

\* sync_disk_dedup does not wait for the persist queue: what is still in memory is
\* in the dump, but not in what is synced.
SyncDedup ==
    /\ phase = "dumped" /\ phase' = "synced"
    /\ lsmSynced' = lsm
    /\ exposed' = exposed \cup mem
    /\ UNCHANGED <<ckpt, redb, lsm, log, acked, crashes, damaged>>
    /\ UNCHANGED <<bootVars, walVars, snapVars, runVars>>

SaveSnapshot ==
    /\ phase = "synced" /\ phase' = "saved"
    /\ snapFile' = "good" /\ snap' = loaded
    /\ UNCHANGED <<ckpt, bootVars, walVars, lsmVars, runVars, outside>>

ResetWal ==
    /\ phase = "saved" /\ phase' = "serving"
    /\ wal' = << >>
    /\ UNCHANGED <<walOk, ckpt, bootVars, snapVars, lsmVars, runVars, outside>>

-----------------------------------------------------------------------------
(* Applying operations. *)

\* WAL, balances and the committed dedup entry.
ApplyLocally(o) ==
    /\ wal' = Append(wal, o)
    /\ balance' = [balance EXCEPT ![o] = @ + 1]
    /\ mem' = mem \cup {o}

\* Mutation: the live tail does not read the last sequence again.
UnreadOnce == phase \in {"catchingUp", "serving"} /\ tailPos < target

\* There are records up to the last sequence catch_up has read, which run_live_tail
\* reads again for every round.
Unread ==
    \/ phase = "catchingUp" /\ tailPos < target
    \/ phase = "serving" /\ tailPos < Len(log)

\* catch_up (at start-up and in the live tail) passes one record: known ones
\* are skipped, one a handler is working on is waited for.
TailRecord ==
    /\ Unread
    /\ LET o == log[tailPos + 1]
       IN  /\ inflight # o
           /\ IF Recognised(o) THEN UNCHANGED <<wal, balance, mem>> ELSE ApplyLocally(o)
    /\ tailPos' = tailPos + 1
    /\ UNCHANGED <<phase, walOk, ckpt, inflight, bootVars, snapVars, lsmVars, outside>>

\* Mutation: the checkpoint takes the last sequence read, not the last applied.
AdvanceCheckpointAhead ==
    /\ phase \in {"catchingUp", "serving"}
    /\ ckpt < Len(log) /\ ckpt' = Len(log)
    /\ UNCHANGED <<phase, walVars, snapVars, lsmVars, bootVars, runVars, outside>>

\* The checkpoint follows: every 64 records and at the end of a round.
AdvanceCheckpoint ==
    /\ phase \in {"catchingUp", "serving"}
    /\ ckpt < tailPos /\ ckpt' = tailPos
    /\ UNCHANGED <<phase, walVars, snapVars, lsmVars, bootVars, runVars, outside>>

\* run_disk_persist: insert without a sync, then forget in memory.
Persist(o) ==
    /\ o \in mem
    /\ lsm' = lsm \cup {o} /\ mem' = mem \ {o}
    /\ UNCHANGED <<phase, ckpt, redb, lsmSynced, tailPos, balance, inflight>>
    /\ UNCHANGED <<walVars, snapVars, bootVars, outside>>

\* run_history_tail syncs the index when it has caught up.
SyncByHistoryTail ==
    /\ phase = "serving"
    /\ lsmSynced # lsm /\ lsmSynced' = lsm
    /\ UNCHANGED <<phase, ckpt, redb, lsm, bootVars, walVars, snapVars, runVars, outside>>

\* A handler of this node gets an operation it does not know into the log.
HandlerReplicates(o) ==
    /\ phase = "serving" /\ inflight = NoOp /\ ~Recognised(o)
    /\ Len(log) < MaxLog
    /\ log' = Append(log, o) /\ inflight' = o
    /\ UNCHANGED <<phase, ckpt, tailPos, balance, mem, acked, crashes, damaged, exposed>>
    /\ UNCHANGED <<walVars, snapVars, lsmVars, bootVars>>

HandlerCommits ==
    /\ inflight # NoOp
    /\ ApplyLocally(inflight)
    /\ acked' = acked \cup {inflight} /\ inflight' = NoOp
    /\ UNCHANGED <<phase, log, walOk, ckpt, tailPos, crashes, damaged, exposed>>
    /\ UNCHANGED <<snapVars, lsmVars, bootVars>>

\* The quorum reply was lost or the lease expired: 503, reservation dropped.
HandlerGivesUp ==
    /\ inflight # NoOp /\ inflight' = NoOp
    /\ UNCHANGED <<phase, tailPos, balance, mem, ckpt, outside>>
    /\ UNCHANGED <<walVars, snapVars, lsmVars, bootVars>>

\* A record of another node's writer, or of a retry it could not recognise.
OtherNodeReplicates(o) ==
    /\ Len(log) < MaxLog
    /\ log' = Append(log, o)
    /\ UNCHANGED <<phase, ckpt, acked, crashes, damaged, exposed>>
    /\ UNCHANGED <<walVars, snapVars, lsmVars, bootVars, runVars>>

-----------------------------------------------------------------------------
(* Faults *)

\* Mutation: a sync does not reach the disk.
SurvivorsUnsynced == SUBSET lsm

\* What a crash may leave of the index.
Survivors == {lsmSynced \cup kept : kept \in SUBSET (lsm \ lsmSynced)}

\* Memory is lost, and of the index what no sync covered, in part or entirely.  Of
\* a snapshot that has just been saved the WAL still has the newest operations.
Crash ==
    /\ phase \in CrashPhases /\ crashes < MaxCrashes
    /\ phase' = "down" /\ crashes' = crashes + 1
    /\ lsm' \in Survivors
    /\ mem' = {} /\ inflight' = NoOp /\ balance' = Zero /\ tailPos' = 0
    /\ loaded' = NoSnapshot /\ rebuild' = FALSE /\ target' = 0
    /\ exposed' = IF phase = "saved" THEN exposed \cup ToSet(wal) ELSE exposed
    /\ UNCHANGED <<log, ckpt, acked, damaged, redb, lsmSynced, walVars, snapVars>>

Damage ==
    /\ phase = "down"
    /\ \/ "walDamage" \in Faults /\ wal # << >> /\ walOk /\ walOk' = FALSE
          /\ UNCHANGED <<snapFile, redb>>
       \/ "snapshotDamage" \in Faults /\ snapFile = "good" /\ snapFile' = "damaged"
          /\ UNCHANGED <<walOk, redb>>
       \/ "redbDamage" \in Faults /\ redb = "good" /\ redb' = "damaged"
          /\ UNCHANGED <<walOk, snapFile>>
    /\ damaged' = TRUE
    /\ UNCHANGED <<phase, log, wal, snap, ckpt, lsm, lsmSynced, acked, crashes, exposed>>
    /\ UNCHANGED <<bootVars, runVars>>

-----------------------------------------------------------------------------
StartUp ==
    \/ ReadSnapshot \/ OpenDedup \/ OpenWalStartStore \/ OpenCheckpoint
    \/ DumpState \/ SyncDedup \/ SaveSnapshot \/ ResetWal

Next ==
    \/ StartUp
    \/ TailRecord \/ AdvanceCheckpoint \/ SyncByHistoryTail
    \/ HandlerCommits \/ HandlerGivesUp
    \/ \E o \in Ops : Persist(o) \/ HandlerReplicates(o) \/ OtherNodeReplicates(o)
    \/ Crash \/ Damage

\* Docker restarts the process; its tasks run; clients and faults are free.
Fairness ==
    /\ WF_vars(StartUp) /\ WF_vars(TailRecord) /\ WF_vars(AdvanceCheckpoint)
    /\ WF_vars(HandlerCommits \/ HandlerGivesUp)
    /\ WF_vars(\E o \in Ops : Persist(o))

Spec == Init /\ [][Next]_vars /\ Fairness

-----------------------------------------------------------------------------
(* Properties *)

SnapOps == {o \in Ops : snapFile = "good" /\ snap.counts[o] > 0}

\* README.md:18-19: delivering an operation again, after any sequence of crashes
\* and restarts, does not change a balance a second time.
NoDoubleApply == \A o \in Ops : balance[o] <= 1

\* What the code keeps of it.  Whatever crashes, is damaged, replayed or asked again,
\* an operation is in a balance twice only through one of two gaps in main(): it
\* was in the persist queue when the index was synced for the snapshot (main.rs:189),
\* or in the WAL when the process died between saving the snapshot and resetting
\* the WAL (main.rs:190-191).
TwiceOnlyIfExposed == \A o \in Ops \ exposed : balance[o] <= 1

\* A node that serves has applied every record its tail has passed, however
\* its state was put together: no record is skipped because of a file that
\* outlived the state it belonged to.
NothingSkipped ==
    phase = "serving" => \A i \in 1..tailPos : balance[log[i]] >= 1

\* The same for a node whose files never lost their contents: crashes alone, in
\* whatever phase and however often, make the tail skip nothing.
CrashesSkipNothing == ~damaged => NothingSkipped

\* README.md:15: the checkpoint never runs ahead of what the snapshot and the
\* WAL together can restore.
CheckpointIsCovered ==
    ~damaged => \A i \in 1..Min2(ckpt, Len(log)) : log[i] \in SnapOps \cup ToSet(wal)

\* What was folded into the snapshot stays recognisable after every crash, in the
\* synced index or in the WAL that refills it, but for what the snapshot has
\* overtaken in the persist queue or a crash has left in the WAL besides.
SnapshotIsRemembered == SnapOps \ exposed \subseteq lsmSynced \cup ToSet(wal)

\* README.md, guarantee 5: an operation in the log is eventually applied, if it
\* takes crashes only and no damaged file.
EventuallyApplied ==
    \A o \in Ops :
        (o \in ToSet(log)) ~> (damaged \/ (phase = "serving" /\ balance[o] >= 1))

-----------------------------------------------------------------------------
(* The inductive invariant behind the safety properties                      *)

\* The store is up and has its balances.
Running == {"storeStarted", "catchingUp", "dumped", "synced", "saved", "serving"}

Applied == {o \in Ops : balance[o] > 0}

\* No position is beyond the log; what only a running process has is gone with it.
PositionsInv ==
    /\ {snap.seq, loaded.seq, ckpt, tailPos, target} \subseteq 0..Len(log)
    /\ phase \notin Running => mem = {}
    /\ inflight # NoOp => phase = "serving"

\* What is in the balances is recognised, and there once; so is what the snapshot
\* holds, after any crash, and the WAL does not repeat it: all this of operations
\* that are not exposed.
OnceInv ==
    /\ SnapOps \subseteq lsmSynced \cup exposed
    /\ phase # "saved" => SnapOps \cap ToSet(wal) \subseteq exposed
    /\ \A o \in Ops \ exposed : {balance[o], loaded.counts[o], snap.counts[o]} \subseteq 0..1
    /\ phase \in {"snapshotRead", "dedupOpen"} =>
          loaded = NoSnapshot \/ (snapFile = "good" /\ loaded = snap)
    /\ phase \in Running => Applied \subseteq mem \cup lsm \cup exposed
    /\ phase \in {"dumped", "synced"} => loaded.counts = balance
    /\ phase = "synced" => Applied \subseteq lsmSynced \cup exposed
    /\ inflight # NoOp => ~Recognised(inflight)

\* With the files it has written, a node is as far as its checkpoint says: snapshot
\* and WAL hold what was applied, the index recognises nothing else, and the tail has
\* passed only what was applied.
CoveredInv ==
    /\ walOk /\ ~rebuild /\ snapFile # "damaged" /\ redb # "damaged"
    /\ (snapFile = "good" \/ phase \notin {"down", "snapshotRead"}) => redb = "good"
    /\ lsm \subseteq SnapOps \cup ToSet(wal)
    /\ snapFile = "good" => \A i \in 1..snap.seq : log[i] \in SnapOps
    /\ \A i \in 1..ckpt : log[i] \in SnapOps \cup ToSet(wal)
    /\ phase \in {"snapshotRead", "dedupOpen", "storeStarted"} =>
          loaded = IF snapFile = "good" THEN snap ELSE NoSnapshot
    /\ phase \in Running => Applied = SnapOps \cup ToSet(wal) /\ mem \subseteq Applied
    /\ phase \in Running \ {"storeStarted"} => \A i \in 1..tailPos : log[i] \in Applied
    /\ phase \in {"dumped", "synced"} => loaded.counts = balance /\ loaded.seq = tailPos
    /\ phase = "saved" => snapFile = "good" /\ snap.counts = balance

RInv == TypeOK /\ PositionsInv /\ OnceInv /\ (~damaged => CoveredInv)
=============================================================================
