-------------------------- MODULE RecoveryProofs --------------------------
(***************************************************************************)
(* A node's files and its start-up keep the parts of RInv: in every phase  *)
(* and over any number of crashes what the checkpoint covers can be        *)
(* restored and is applied, and no operation enters a balance twice unless *)
(* one of two gaps in main() has exposed it.                                *)
(***************************************************************************)
EXTENDS Recovery, TLAPS

-----------------------------------------------------------------------------
(* Sequences and types *)

LEMMA ToSetAppend ==
    ASSUME NEW s \in Seq(Ops), NEW o \in Ops
    PROVE  /\ Append(s, o) \in Seq(Ops) /\ Len(Append(s, o)) = Len(s) + 1
           /\ \A i \in 1..Len(s) : Append(s, o)[i] = s[i]
           /\ ToSet(Append(s, o)) = ToSet(s) \cup {o}
           /\ ToSet(s) \subseteq Ops
<1>1. /\ Append(s, o) \in Seq(Ops) /\ Len(Append(s, o)) = Len(s) + 1 /\ Len(s) \in Nat
      /\ Append(s, o)[Len(s) + 1] = o
      /\ \A i \in 1..Len(s) : Append(s, o)[i] = s[i] /\ s[i] \in Ops
      /\ DOMAIN s = 1..Len(s) /\ DOMAIN Append(s, o) = 1..(Len(s) + 1)
  OBVIOUS
<1>2. \A i : i \in 1..(Len(s) + 1) <=> i \in 1..Len(s) \/ i = Len(s) + 1
  BY <1>1
<1>3. ToSet(Append(s, o)) = ToSet(s) \cup {o}
  BY <1>1, <1>2 DEF ToSet
<1>. QED
  BY <1>1, <1>3 DEF ToSet

LEMMA ToSetFacts ==
    /\ ToSet(<< >>) = {}
    /\ \A s \in Seq(Ops) : ToSet(s) \subseteq Ops
BY DEF ToSet

\* What TypeOK says of positions and counts.
LEMMA RTypes ==
    ASSUME TypeOK
    PROVE  /\ Len(log) \in Nat /\ snap.seq \in Nat /\ loaded.seq \in Nat
           /\ ckpt \in Nat /\ tailPos \in Nat /\ target \in Nat
           /\ snap.counts \in Counts /\ loaded.counts \in Counts /\ balance \in Counts
           /\ \A o \in Ops : balance[o] \in Nat /\ snap.counts[o] \in Nat /\ loaded.counts[o] \in Nat
           /\ ToSet(wal) \subseteq Ops
BY ToSetFacts DEF TypeOK, Counts

LEMMA ZeroFacts ==
    /\ Zero \in Counts /\ \A o \in Ops : Zero[o] = 0
    /\ NoSnapshot \in [seq : Nat, counts : Counts]
    /\ NoSnapshot.seq = 0 /\ NoSnapshot.counts = Zero
BY DEF Zero, Counts, NoSnapshot

LEMMA ApplyType ==
    ASSUME TypeOK, NEW o \in Ops, ApplyLocally(o)
    PROVE  /\ wal' \in Seq(Ops) /\ balance' \in Counts /\ mem' \subseteq Ops
           /\ ToSet(wal') = ToSet(wal) \cup {o} /\ mem' = mem \cup {o}
           /\ balance'[o] = balance[o] + 1
           /\ \A p \in Ops : p # o => balance'[p] = balance[p]
<1>1. /\ wal' = Append(wal, o) /\ balance' = [balance EXCEPT ![o] = balance[o] + 1]
      /\ mem' = mem \cup {o} /\ balance \in [Ops -> Nat] /\ wal \in Seq(Ops) /\ mem \subseteq Ops
      /\ balance[o] + 1 \in Nat
  BY DEF ApplyLocally, TypeOK, Counts
<1>2. balance' \in Counts /\ balance'[o] = balance[o] + 1
      /\ \A p \in Ops : p # o => balance'[p] = balance[p]
  BY <1>1 DEF Counts
<1>. QED
  BY <1>1, <1>2, ToSetAppend

-----------------------------------------------------------------------------
(* Types and positions *)

ShapeInv == TypeOK /\ PositionsInv

\* The record the tail reads.
LEMMA NextRecord ==
    ASSUME ShapeInv, Unread
    PROVE  /\ phase \in {"catchingUp", "serving"} /\ tailPos + 1 \in 1..Len(log)
           /\ log[tailPos + 1] \in Ops /\ tailPos + 1 \in Nat
<1>1. /\ tailPos \in Nat /\ target \in Nat /\ Len(log) \in Nat /\ target <= Len(log)
      /\ log \in Seq(Ops)
  BY RTypes DEF ShapeInv, PositionsInv, TypeOK
<1>2. phase \in {"catchingUp", "serving"} /\ tailPos < Len(log)
  BY <1>1 DEF Unread
<1>. QED
  BY <1>1, <1>2

LEMMA ShapeStart ==
    ASSUME ShapeInv, StartUp
    PROVE  ShapeInv'
<1>. USE DEF ShapeInv, walVars, snapVars, lsmVars, bootVars, runVars, outside
<1>1. CASE ReadSnapshot
  <2>1. loaded' \in [seq : Nat, counts : Counts] /\ loaded'.seq \in {snap.seq, 0}
    BY <1>1, ZeroFacts DEF ReadSnapshot, TypeOK
  <2>2. TypeOK'
    BY <1>1, <2>1 DEF ReadSnapshot, TypeOK, Phases
  <2>. QED
    BY <1>1, <2>1, <2>2, RTypes DEF ReadSnapshot, PositionsInv, Running
<1>2. CASE OpenDedup
  <2>1. loaded' \in [seq : Nat, counts : Counts] /\ loaded'.seq \in {loaded.seq, 0}
    BY <1>2, ZeroFacts DEF OpenDedup, TypeOK
  <2>2. TypeOK'
    BY <1>2, <2>1 DEF OpenDedup, TypeOK, Phases
  <2>. QED
    BY <1>2, <2>1, <2>2, RTypes DEF OpenDedup, PositionsInv, Running
<1>3. CASE OpenWalStartStore
  <2>1. wal' \in Seq(Ops) /\ ToSet(wal') \subseteq Ops
    BY <1>3, ToSetFacts DEF OpenWalStartStore, TypeOK
  <2>2. balance' \in Counts
    <3>1. \A o \in Ops : loaded.counts[o] + (IF o \in ToSet(wal') THEN 1 ELSE 0) \in Nat
      BY RTypes
    <3>. QED
      BY <1>3, <3>1 DEF OpenWalStartStore, Restored, Counts
  <2>3. TypeOK'
    BY <1>3, <2>1, <2>2 DEF OpenWalStartStore, TypeOK, Phases
  <2>. QED
    BY <1>3, <2>3, RTypes DEF OpenWalStartStore, PositionsInv, Running
<1>4. CASE OpenCheckpoint
  <2>1. ckpt' \in {0, loaded.seq, ckpt} /\ tailPos' = ckpt' /\ target' = Len(log)
    BY <1>4 DEF OpenCheckpoint
  <2>2. {ckpt', tailPos', target'} \subseteq 0..Len(log) /\ ckpt' \in Nat
    BY <2>1, RTypes DEF PositionsInv
  <2>3. TypeOK'
    BY <1>4, <2>1, <2>2, RTypes DEF OpenCheckpoint, TypeOK, Phases
  <2>. QED
    BY <1>4, <2>2, <2>3 DEF OpenCheckpoint, PositionsInv, Running
<1>5. CASE DumpState
  <2>1. loaded' \in [seq : Nat, counts : Counts] /\ loaded'.seq = ckpt
    BY <1>5 DEF DumpState, TypeOK
  <2>2. TypeOK'
    BY <1>5, <2>1 DEF DumpState, TypeOK, Phases
  <2>. QED
    BY <1>5, <2>1, <2>2 DEF DumpState, PositionsInv, Running
<1>6. CASE SyncDedup
  <2>1. TypeOK'
    BY <1>6 DEF SyncDedup, TypeOK, Phases
  <2>. QED
    BY <1>6, <2>1 DEF SyncDedup, PositionsInv, Running
<1>7. CASE SaveSnapshot
  <2>1. TypeOK'
    BY <1>7 DEF SaveSnapshot, TypeOK, Phases
  <2>. QED
    BY <1>7, <2>1 DEF SaveSnapshot, PositionsInv, Running
<1>8. CASE ResetWal
  <2>1. TypeOK'
    BY <1>8 DEF ResetWal, TypeOK, Phases
  <2>. QED
    BY <1>8, <2>1 DEF ResetWal, PositionsInv, Running
<1>. QED
  BY <1>1, <1>2, <1>3, <1>4, <1>5, <1>6, <1>7, <1>8 DEF StartUp

LEMMA ShapeStep ==
    ASSUME ShapeInv, [Next]_vars
    PROVE  ShapeInv'
<1>. USE DEF ShapeInv, walVars, snapVars, lsmVars, bootVars, runVars, outside
<1>1. CASE TailRecord
  <2>1. PICK o \in Ops : /\ o = log[tailPos + 1]
                         /\ IF Recognised(o) THEN UNCHANGED <<wal, balance, mem>>
                                             ELSE ApplyLocally(o)
    BY <1>1, NextRecord DEF TailRecord
  <2>2. wal' \in Seq(Ops) /\ balance' \in Counts /\ mem' \subseteq Ops
    BY <2>1, ApplyType DEF TypeOK
  <2>3. tailPos' \in 0..Len(log) /\ tailPos' \in Nat /\ phase \in Running
    BY <1>1, NextRecord, RTypes DEF TailRecord, Running
  <2>4. TypeOK'
    BY <1>1, <2>2, <2>3 DEF TailRecord, TypeOK
  <2>. QED
    BY <1>1, <2>3, <2>4 DEF TailRecord, PositionsInv
<1>2. CASE AdvanceCheckpoint
  <2>1. TypeOK'
    BY <1>2 DEF AdvanceCheckpoint, TypeOK
  <2>. QED
    BY <1>2, <2>1 DEF AdvanceCheckpoint, PositionsInv
<1>3. CASE SyncByHistoryTail
  <2>1. TypeOK'
    BY <1>3 DEF SyncByHistoryTail, TypeOK
  <2>. QED
    BY <1>3, <2>1 DEF SyncByHistoryTail, PositionsInv
<1>4. CASE HandlerCommits
  <2>1. inflight \in Ops /\ phase \in Running
    BY <1>4 DEF HandlerCommits, TypeOK, PositionsInv, Running
  <2>2. wal' \in Seq(Ops) /\ balance' \in Counts /\ mem' \subseteq Ops
    BY <1>4, <2>1, ApplyType DEF HandlerCommits
  <2>3. TypeOK'
    BY <1>4, <2>1, <2>2 DEF HandlerCommits, TypeOK
  <2>. QED
    BY <1>4, <2>1, <2>3 DEF HandlerCommits, PositionsInv
<1>5. CASE HandlerGivesUp
  <2>1. TypeOK'
    BY <1>5 DEF HandlerGivesUp, TypeOK
  <2>. QED
    BY <1>5, <2>1 DEF HandlerGivesUp, PositionsInv
<1>6. ASSUME NEW o \in Ops, Persist(o)
      PROVE  ShapeInv'
  <2>1. TypeOK'
    BY <1>6 DEF Persist, TypeOK
  <2>. QED
    BY <1>6, <2>1 DEF Persist, PositionsInv
<1>7. ASSUME NEW o \in Ops, HandlerReplicates(o) \/ OtherNodeReplicates(o)
      PROVE  ShapeInv'
  <2>1. /\ log' \in Seq(Ops) /\ Len(log') = Len(log) + 1 /\ Len(log) \in Nat
        /\ \A i \in 0..Len(log) : i \in 0..Len(log')
    <3>1. log' = Append(log, o) /\ log \in Seq(Ops) /\ Len(log) \in Nat
      BY <1>7, RTypes DEF HandlerReplicates, OtherNodeReplicates, TypeOK
    <3>2. log' \in Seq(Ops) /\ Len(log') = Len(log) + 1
      BY <3>1, ToSetAppend
    <3>. QED
      BY <3>1, <3>2
  <2>2. TypeOK'
    BY <1>7, <2>1 DEF HandlerReplicates, OtherNodeReplicates, TypeOK
  <2>. QED
    BY <1>7, <2>1, <2>2 DEF HandlerReplicates, OtherNodeReplicates, PositionsInv
<1>8. CASE Crash
  <2>1. lsm' \subseteq Ops /\ lsmSynced \subseteq lsm'
    BY <1>8 DEF Crash, Survivors, TypeOK
  <2>2. crashes' \in 0..MaxCrashes
    BY <1>8, RecoveryAssumption DEF Crash, TypeOK
  <2>3. balance' \in Counts /\ loaded' \in [seq : Nat, counts : Counts]
    BY <1>8, ZeroFacts DEF Crash
  <2>4. exposed' \subseteq Ops
    BY <1>8, RTypes DEF Crash, TypeOK
  <2>5. TypeOK'
    BY <1>8, <2>1, <2>2, <2>3, <2>4 DEF Crash, TypeOK, Phases
  <2>. QED
    BY <1>8, <2>5, RTypes, ZeroFacts DEF Crash, PositionsInv
<1>9. CASE Damage
  <2>1. TypeOK'
    BY <1>9 DEF Damage, TypeOK
  <2>. QED
    BY <1>9, <2>1 DEF Damage, PositionsInv
<1>10. CASE UNCHANGED vars
  BY <1>10 DEF vars, TypeOK, PositionsInv
<1>. QED
  BY <1>1, <1>2, <1>3, <1>4, <1>5, <1>6, <1>7, <1>8, <1>9, <1>10, ShapeStart DEF Next

-----------------------------------------------------------------------------
(* Nothing is applied twice *)

\* Steps that leave snapshot, WAL and balances alone, and recognise no less.
LEMMA OnceFrame ==
    ASSUME ShapeInv, OnceInv, UNCHANGED <<snapFile, snap, wal, loaded, balance, exposed>>,
           phase' = phase \/ (phase = "storeStarted" /\ phase' = "catchingUp"),
           lsmSynced \subseteq lsmSynced',
           mem' \cup lsm' = mem \cup lsm,
           inflight' \in {inflight, NoOp} \/ inflight' \notin mem \cup lsm
    PROVE  OnceInv'
<1>1. SnapOps' = SnapOps /\ Applied' = Applied
  BY DEF SnapOps, Applied
<1>2. inflight' # NoOp => inflight' \notin mem \cup lsm
  BY DEF OnceInv, Recognised
<1>3. inflight' # NoOp => ~(inflight' \in mem' \cup lsm')
  BY <1>2
<1>. QED
  BY <1>1, <1>3 DEF OnceInv, Running, Recognised

\* An operation that is not recognised is applied.
LEMMA OnceApply ==
    ASSUME ShapeInv, OnceInv, NEW o \in Ops, ~Recognised(o), ApplyLocally(o),
           phase \in {"catchingUp", "serving"},
           UNCHANGED <<snapFile, snap, loaded, phase, lsm, lsmSynced, exposed>>,
           inflight' = NoOp \/ (inflight' = inflight /\ inflight # o)
    PROVE  OnceInv'
<1>. USE DEF ShapeInv
<1>1. /\ ToSet(wal') = ToSet(wal) \cup {o} /\ mem' = mem \cup {o}
      /\ balance'[o] = balance[o] + 1
      /\ \A p \in Ops : p # o => balance'[p] = balance[p]
  BY ApplyType
<1>2. SnapOps' = SnapOps
  BY DEF SnapOps
<1>3. o \in exposed \/ (o \notin SnapOps /\ o \notin Applied)
  BY DEF OnceInv, Recognised, TypeOK, Running
<1>4. o \in exposed \/ (balance[o] = 0 /\ balance'[o] = 1)
  BY <1>1, <1>3, RTypes DEF Applied
<1>5. SnapOps \cap ToSet(wal') \subseteq exposed
  BY <1>1, <1>3 DEF OnceInv
<1>6. Applied' \subseteq mem' \cup lsm \cup exposed
  BY <1>1 DEF Applied, OnceInv, Running
<1>7. \A p \in Ops \ exposed : {balance'[p], loaded'.counts[p], snap'.counts[p]} \subseteq 0..1
  BY <1>1, <1>4 DEF OnceInv
<1>8. inflight' # NoOp => ~Recognised(inflight)' /\ inflight' = inflight
  BY <1>1 DEF OnceInv, Recognised
<1>. QED
  BY <1>2, <1>5, <1>6, <1>7, <1>8 DEF OnceInv, Recognised

LEMMA OnceStart ==
    ASSUME ShapeInv, OnceInv, StartUp, ShapeInv'
    PROVE  OnceInv'
<1>. USE DEF ShapeInv, walVars, snapVars, lsmVars, bootVars, runVars, outside
<1>1. CASE ReadSnapshot
  <2>1. /\ phase = "down" /\ phase' = "snapshotRead"
        /\ UNCHANGED <<snap, wal, balance, mem, exposed>>
        /\ UNCHANGED <<inflight, lsm, lsmSynced>>
        /\ loaded' = IF snapFile = "good" THEN snap ELSE NoSnapshot
        /\ snapFile' = "good" <=> snapFile = "good"
    BY <1>1 DEF ReadSnapshot
  <2>2. SnapOps' = SnapOps
    BY <2>1 DEF SnapOps
  <2>3. \A o \in Ops \ exposed : loaded'.counts[o] \in 0..1
    BY <2>1, ZeroFacts DEF OnceInv
  <2>4. inflight = NoOp
    BY <2>1 DEF PositionsInv
  <2>. QED
    BY <2>1, <2>2, <2>3, <2>4 DEF OnceInv, Running
<1>2. CASE OpenDedup
  <2>1. /\ phase = "snapshotRead" /\ phase' = "dedupOpen"
        /\ UNCHANGED <<snapFile, snap, wal, balance, mem, inflight, lsm, lsmSynced, exposed>>
        /\ loaded' \in {loaded, NoSnapshot}
    BY <1>2 DEF OpenDedup
  <2>2. SnapOps' = SnapOps
    BY <2>1 DEF SnapOps
  <2>3. \A o \in Ops \ exposed : loaded'.counts[o] \in 0..1
    BY <2>1, ZeroFacts DEF OnceInv
  <2>4. inflight = NoOp
    BY <2>1 DEF PositionsInv
  <2>. QED
    BY <2>1, <2>2, <2>3, <2>4 DEF OnceInv, Running
<1>3. CASE OpenWalStartStore
  <2>1. /\ phase = "dedupOpen" /\ phase' = "storeStarted" /\ wal' \in {wal, << >>}
        /\ balance' = [o \in Ops |-> loaded.counts[o] + (IF o \in ToSet(wal') THEN 1 ELSE 0)]
        /\ lsm' = lsm \cup ToSet(wal') /\ inflight' = NoOp
        /\ UNCHANGED <<snapFile, snap, loaded, lsmSynced, exposed>>
    BY <1>3 DEF OpenWalStartStore, Restored
  <2>2. SnapOps' = SnapOps /\ ToSet(wal') \subseteq ToSet(wal)
    BY <2>1, ToSetFacts DEF SnapOps
  <2>3. ASSUME NEW o \in Ops \ exposed
        PROVE  /\ loaded.counts[o] > 0 => o \in SnapOps /\ o \notin ToSet(wal')
               /\ loaded.counts[o] \in 0..1
    <3>1. loaded = NoSnapshot \/ (snapFile = "good" /\ loaded = snap)
      BY <2>1 DEF OnceInv
    <3>2. SnapOps \cap ToSet(wal) \subseteq exposed
      BY <2>1 DEF OnceInv
    <3>3. loaded.counts[o] > 0 => o \in SnapOps
      BY <3>1, ZeroFacts DEF SnapOps
    <3>. QED
      BY <2>2, <3>2, <3>3 DEF OnceInv
  <2>4. ASSUME NEW o \in Ops \ exposed
        PROVE  balance'[o] \in 0..1 /\ (balance'[o] > 0 => o \in lsm')
    <3>1. balance'[o] = loaded.counts[o] + (IF o \in ToSet(wal') THEN 1 ELSE 0)
      BY <2>1
    <3>2. o \in SnapOps => o \in lsm
      BY DEF OnceInv, TypeOK
    <3>. QED
      BY <2>1, <2>3, <3>1, <3>2
  <2>. QED
    BY <2>1, <2>2, <2>4 DEF OnceInv, Running, Applied
<1>4. CASE OpenCheckpoint
  BY <1>4, OnceFrame DEF OpenCheckpoint
<1>5. CASE DumpState
  <2>1. /\ phase = "catchingUp" /\ phase' = "dumped" /\ loaded'.counts = balance
        /\ UNCHANGED <<snapFile, snap, wal, balance, mem, inflight, lsm, lsmSynced, exposed>>
    BY <1>5 DEF DumpState
  <2>2. SnapOps' = SnapOps /\ Applied' = Applied
    BY <2>1 DEF SnapOps, Applied
  <2>3. inflight = NoOp
    BY <2>1 DEF PositionsInv
  <2>. QED
    BY <2>1, <2>2, <2>3 DEF OnceInv, Running
<1>6. CASE SyncDedup
  <2>1. /\ phase = "dumped" /\ phase' = "synced" /\ lsmSynced' = lsm
        /\ exposed' = exposed \cup mem
        /\ UNCHANGED <<snapFile, snap, wal, balance, mem, inflight, lsm, loaded>>
    BY <1>6 DEF SyncDedup
  <2>2. SnapOps' = SnapOps /\ Applied' = Applied
    BY <2>1 DEF SnapOps, Applied
  <2>3. inflight = NoOp
    BY <2>1 DEF PositionsInv
  <2>4. SnapOps \subseteq lsm \cup exposed' /\ Applied \subseteq lsm \cup exposed'
    BY <2>1 DEF OnceInv, TypeOK, Running
  <2>. QED
    BY <2>1, <2>2, <2>3, <2>4 DEF OnceInv, Running
<1>7. CASE SaveSnapshot
  <2>1. /\ phase = "synced" /\ phase' = "saved" /\ snapFile' = "good" /\ snap' = loaded
        /\ UNCHANGED <<wal, balance, mem, inflight, lsm, lsmSynced, loaded, exposed>>
    BY <1>7 DEF SaveSnapshot
  <2>2. SnapOps' = Applied /\ Applied' = Applied
    BY <2>1 DEF SnapOps, Applied, OnceInv
  <2>3. inflight = NoOp
    BY <2>1 DEF PositionsInv
  <2>. QED
    BY <2>1, <2>2, <2>3 DEF OnceInv, Running
<1>8. CASE ResetWal
  <2>1. /\ phase = "saved" /\ phase' = "serving" /\ wal' = << >>
        /\ UNCHANGED <<snapFile, snap, balance, mem, inflight, lsm, lsmSynced, loaded, exposed>>
    BY <1>8 DEF ResetWal
  <2>2. SnapOps' = SnapOps /\ Applied' = Applied
    BY <2>1 DEF SnapOps, Applied
  <2>3. inflight = NoOp
    BY <2>1 DEF PositionsInv
  <2>. QED
    BY <2>1, <2>2, <2>3, ToSetFacts DEF OnceInv, Running
<1>. QED
  BY <1>1, <1>2, <1>3, <1>4, <1>5, <1>6, <1>7, <1>8 DEF StartUp

LEMMA OnceStep ==
    ASSUME ShapeInv, OnceInv, [Next]_vars, ShapeInv'
    PROVE  OnceInv'
<1>. USE DEF ShapeInv, walVars, snapVars, lsmVars, bootVars, runVars, outside
<1>1. CASE TailRecord
  <2>1. PICK o \in Ops : /\ o = log[tailPos + 1] /\ inflight # o
                         /\ IF Recognised(o) THEN UNCHANGED <<wal, balance, mem>>
                                             ELSE ApplyLocally(o)
    BY <1>1, NextRecord DEF TailRecord
  <2>2. /\ UNCHANGED <<snapFile, snap, loaded, phase, lsm, lsmSynced, inflight, exposed>>
        /\ phase \in {"catchingUp", "serving"}
    BY <1>1, NextRecord DEF TailRecord
  <2>3. CASE Recognised(o)
    BY <2>1, <2>2, <2>3, OnceFrame
  <2>4. CASE ~Recognised(o)
    BY <2>1, <2>2, <2>4, OnceApply
  <2>. QED
    BY <2>3, <2>4
<1>2. CASE AdvanceCheckpoint
  BY <1>2, OnceFrame DEF AdvanceCheckpoint
<1>3. CASE SyncByHistoryTail
  BY <1>3, OnceFrame DEF SyncByHistoryTail, TypeOK
<1>4. CASE HandlerCommits
  <2>1. /\ inflight \in Ops /\ phase = "serving" /\ ~Recognised(inflight)
        /\ ApplyLocally(inflight) /\ inflight' = NoOp
        /\ UNCHANGED <<snapFile, snap, loaded, phase, lsm, lsmSynced, exposed>>
    BY <1>4 DEF HandlerCommits, TypeOK, PositionsInv, OnceInv
  <2>. QED
    BY <2>1, OnceApply
<1>5. CASE HandlerGivesUp
  BY <1>5, OnceFrame DEF HandlerGivesUp
<1>6. ASSUME NEW o \in Ops, Persist(o)
      PROVE  OnceInv'
  <2>1. mem' \cup lsm' = mem \cup lsm
    BY <1>6 DEF Persist
  <2>. QED
    BY <1>6, <2>1, OnceFrame DEF Persist
<1>7. ASSUME NEW o \in Ops, HandlerReplicates(o) \/ OtherNodeReplicates(o)
      PROVE  OnceInv'
  BY <1>7, OnceFrame DEF HandlerReplicates, OtherNodeReplicates, Recognised
<1>8. CASE Crash
  <2>1. /\ phase' = "down" /\ inflight' = NoOp /\ balance' = Zero
        /\ loaded' = NoSnapshot /\ UNCHANGED <<snapFile, snap, wal, lsmSynced>>
        /\ exposed \subseteq exposed' /\ (phase = "saved" => ToSet(wal) \subseteq exposed')
    BY <1>8 DEF Crash
  <2>2. SnapOps' = SnapOps
    BY <2>1 DEF SnapOps
  <2>3. SnapOps \cap ToSet(wal) \subseteq exposed'
    BY <2>1 DEF OnceInv
  <2>. QED
    BY <2>1, <2>2, <2>3, ZeroFacts DEF OnceInv, Running
<1>9. CASE Damage
  <2>1. /\ phase = "down" /\ phase' = "down" /\ UNCHANGED <<snap, wal, lsmSynced, lsm, mem>>
        /\ UNCHANGED <<loaded, balance, inflight, exposed>>
        /\ snapFile' = "good" => snapFile = "good"
    BY <1>9 DEF Damage
  <2>2. SnapOps' \subseteq SnapOps
    BY <2>1 DEF SnapOps
  <2>3. inflight = NoOp
    BY <2>1 DEF PositionsInv
  <2>. QED
    BY <2>1, <2>2, <2>3 DEF OnceInv, Running
<1>10. CASE UNCHANGED vars
  BY <1>10, OnceFrame DEF vars
<1>. QED
  BY <1>1, <1>2, <1>3, <1>4, <1>5, <1>6, <1>7, <1>8, <1>9, <1>10, OnceStart DEF Next

-----------------------------------------------------------------------------
(* Nothing is skipped *)

\* Steps that leave the files and balances alone and recognise no more.
LEMMA CoveredFrame ==
    ASSUME ShapeInv, CoveredInv,
           UNCHANGED <<snapFile, snap, wal, walOk, redb, rebuild, loaded, balance, phase>>,
           lsm' \cup mem' \subseteq lsm \cup mem, mem' \subseteq mem,
           log' = log \/ \E o \in Ops : log' = Append(log, o),
           tailPos' = tailPos, ckpt' \in {ckpt, tailPos},
           ckpt' = tailPos => phase \in {"catchingUp", "serving"} \/ ckpt' = ckpt
    PROVE  CoveredInv'
<1>. USE DEF ShapeInv
<1>1. SnapOps' = SnapOps /\ Applied' = Applied /\ ToSet(wal') = ToSet(wal)
  BY DEF SnapOps, Applied
<1>2. lsm' \subseteq SnapOps \cup ToSet(wal)
  <2>1. CASE phase \in Running
    BY <2>1 DEF CoveredInv
  <2>2. CASE phase \notin Running
    BY <2>2 DEF CoveredInv, PositionsInv
  <2>. QED
    BY <2>1, <2>2
<1>3. \A i \in 1..Len(log) : log'[i] = log[i]
  BY ToSetAppend DEF TypeOK
<1>4. /\ snap.seq \in 0..Len(log) /\ tailPos \in 0..Len(log) /\ ckpt \in 0..Len(log)
      /\ Len(log) \in Nat
  BY RTypes DEF PositionsInv
<1>5. snapFile = "good" => \A i \in 1..snap.seq : log'[i] \in SnapOps
  BY <1>3, <1>4 DEF CoveredInv
<1>6. phase \in Running \ {"storeStarted"} => \A i \in 1..tailPos : log'[i] \in Applied
  BY <1>3, <1>4 DEF CoveredInv
<1>7. \A i \in 1..ckpt' : log'[i] \in SnapOps \cup ToSet(wal)
  <2>1. CASE ckpt' = ckpt
    BY <1>3, <1>4, <2>1 DEF CoveredInv
  <2>2. CASE ckpt' = tailPos /\ phase \in {"catchingUp", "serving"}
    BY <1>6, <2>2 DEF CoveredInv, Running
  <2>. QED
    BY <2>1, <2>2
<1>. QED
  BY <1>1, <1>2, <1>5, <1>6, <1>7 DEF CoveredInv

LEMMA CoveredStart ==
    ASSUME ShapeInv, CoveredInv, StartUp, ShapeInv'
    PROVE  CoveredInv'
<1>. USE DEF ShapeInv, walVars, snapVars, lsmVars, bootVars, runVars, outside
<1>1. CASE ReadSnapshot
  <2>1. /\ phase = "down" /\ phase' = "snapshotRead" /\ snapFile' = snapFile
        /\ UNCHANGED <<snap, log, wal, walOk, redb, mem, lsm, ckpt>>
        /\ loaded' = (IF snapFile = "good" THEN snap ELSE NoSnapshot) /\ ~rebuild'
    BY <1>1 DEF ReadSnapshot, CoveredInv, TypeOK
  <2>2. SnapOps' = SnapOps
    BY <2>1 DEF SnapOps
  <2>. QED
    BY <2>1, <2>2 DEF CoveredInv, Running
<1>2. CASE OpenDedup
  <2>1. ~(redb = "damaged" \/ (HaveSnapshot /\ redb = "absent")) /\ ~rebuild
    BY DEF CoveredInv, HaveSnapshot
  <2>2. /\ phase = "snapshotRead" /\ phase' = "dedupOpen" /\ redb' = "good"
        /\ UNCHANGED <<snapFile, snap, log, wal, walOk, mem, lsm, ckpt>>
        /\ loaded' = loaded /\ ~rebuild'
    BY <1>2, <2>1 DEF OpenDedup
  <2>3. SnapOps' = SnapOps
    BY <2>2 DEF SnapOps
  <2>. QED
    BY <2>2, <2>3 DEF CoveredInv, Running
<1>3. CASE OpenWalStartStore
  <2>1. /\ phase = "dedupOpen" /\ phase' = "storeStarted" /\ wal' = wal /\ walOk' /\ ~rebuild'
        /\ balance' = [o \in Ops |-> loaded.counts[o] + (IF o \in ToSet(wal) THEN 1 ELSE 0)]
        /\ lsm' = lsm \cup ToSet(wal) /\ mem' = {}
        /\ UNCHANGED <<snapFile, snap, loaded, log, ckpt, redb>>
    BY <1>3 DEF OpenWalStartStore, Restored, CoveredInv
  <2>2. SnapOps' = SnapOps
    BY <2>1 DEF SnapOps
  <2>3. ASSUME NEW o \in Ops
        PROVE  loaded.counts[o] > 0 <=> o \in SnapOps
    BY <2>1, ZeroFacts DEF CoveredInv, SnapOps
  <2>4. ASSUME NEW o \in Ops
        PROVE  balance'[o] > 0 <=> o \in SnapOps \cup ToSet(wal)
    <3>1. /\ balance'[o] = loaded.counts[o] + (IF o \in ToSet(wal) THEN 1 ELSE 0)
          /\ loaded.counts[o] \in Nat
      BY <2>1, RTypes
    <3>2. CASE o \in ToSet(wal)
      BY <3>1, <3>2
    <3>3. CASE o \notin ToSet(wal)
      BY <2>3, <3>1, <3>3
    <3>. QED
      BY <3>2, <3>3
  <2>5. Applied' = SnapOps \cup ToSet(wal)
    BY <2>4, RTypes DEF Applied, SnapOps
  <2>. QED
    BY <2>1, <2>2, <2>5 DEF CoveredInv, Running
<1>4. CASE OpenCheckpoint
  <2>1. /\ phase = "storeStarted" /\ phase' = "catchingUp" /\ tailPos' = ckpt'
        /\ ckpt' = ckpt \/ ckpt' = loaded.seq
        /\ UNCHANGED <<snapFile, snap, loaded, log, wal, walOk, redb, mem, lsm, balance, rebuild>>
    BY <1>4 DEF OpenCheckpoint, CoveredInv
  <2>2. SnapOps' = SnapOps /\ Applied' = Applied /\ Applied = SnapOps \cup ToSet(wal)
    BY <2>1 DEF SnapOps, Applied, CoveredInv, Running
  <2>3. \A i \in 1..ckpt' : log[i] \in SnapOps \cup ToSet(wal)
    <3>1. CASE ckpt' = ckpt
      BY <3>1 DEF CoveredInv
    <3>2. CASE ckpt' = loaded.seq /\ snapFile = "good"
      BY <2>1, <3>2 DEF CoveredInv
    <3>3. CASE ckpt' = loaded.seq /\ snapFile # "good"
      <4>1. ckpt' = 0
        BY <2>1, <3>3, ZeroFacts DEF CoveredInv
      <4>. QED
        BY <4>1
    <3>. QED
      BY <2>1, <3>1, <3>2, <3>3
  <2>. QED
    BY <2>1, <2>2, <2>3 DEF CoveredInv, Running
<1>5. CASE DumpState
  <2>1. /\ phase = "catchingUp" /\ phase' = "dumped"
        /\ loaded'.counts = balance /\ loaded'.seq = tailPos
        /\ UNCHANGED <<snapFile, snap, log, wal, walOk, redb, mem, lsm, balance, rebuild, ckpt, tailPos>>
    BY <1>5 DEF DumpState
  <2>2. SnapOps' = SnapOps /\ Applied' = Applied
    BY <2>1 DEF SnapOps, Applied
  <2>. QED
    BY <2>1, <2>2 DEF CoveredInv, Running
<1>6. CASE SyncDedup
  <2>1. /\ phase = "dumped" /\ phase' = "synced"
        /\ UNCHANGED <<snapFile, snap, log, wal, walOk, redb, mem, lsm, balance, rebuild, ckpt, tailPos>>
        /\ UNCHANGED loaded
    BY <1>6 DEF SyncDedup
  <2>2. SnapOps' = SnapOps /\ Applied' = Applied
    BY <2>1 DEF SnapOps, Applied
  <2>. QED
    BY <2>1, <2>2 DEF CoveredInv, Running
<1>7. CASE SaveSnapshot
  <2>1. /\ phase = "synced" /\ phase' = "saved" /\ snapFile' = "good" /\ snap' = loaded
        /\ UNCHANGED <<log, wal, walOk, redb, mem, lsm, balance, rebuild, ckpt, tailPos, loaded>>
    BY <1>7 DEF SaveSnapshot
  <2>2. loaded.counts = balance /\ loaded.seq = tailPos /\ Applied = SnapOps \cup ToSet(wal)
    BY <2>1 DEF CoveredInv, Running
  <2>3. SnapOps' = Applied /\ Applied' = Applied
    BY <2>1, <2>2 DEF SnapOps, Applied
  <2>4. Applied = SnapOps' \cup ToSet(wal)
    BY <2>2, <2>3
  <2>. QED
    BY <2>1, <2>2, <2>3, <2>4 DEF CoveredInv, Running
<1>8. CASE ResetWal
  <2>1. /\ phase = "saved" /\ phase' = "serving" /\ wal' = << >>
        /\ UNCHANGED <<snapFile, snap, log, walOk, redb, mem, lsm, balance, rebuild, ckpt, tailPos>>
        /\ UNCHANGED loaded
    BY <1>8 DEF ResetWal
  <2>2. SnapOps' = SnapOps /\ Applied' = Applied /\ ToSet(wal') = {}
    BY <2>1, ToSetFacts DEF SnapOps, Applied
  <2>3. SnapOps = Applied /\ SnapOps \cup ToSet(wal) = Applied
    BY <2>1 DEF CoveredInv, SnapOps, Applied, Running
  <2>. QED
    BY <2>1, <2>2, <2>3 DEF CoveredInv, Running
<1>. QED
  BY <1>1, <1>2, <1>3, <1>4, <1>5, <1>6, <1>7, <1>8 DEF StartUp

\* An operation is applied; the tail may have passed its record.
LEMMA CoveredApply ==
    ASSUME ShapeInv, CoveredInv, NEW o \in Ops, ApplyLocally(o),
           phase \in {"catchingUp", "serving"},
           UNCHANGED <<snapFile, snap, walOk, redb, rebuild, loaded, phase, lsm, log, ckpt>>,
           \/ tailPos' = tailPos
           \/ tailPos' = tailPos + 1 /\ o = log[tailPos + 1]
    PROVE  CoveredInv'
<1>. USE DEF ShapeInv
<1>1. /\ ToSet(wal') = ToSet(wal) \cup {o} /\ mem' = mem \cup {o}
      /\ balance'[o] = balance[o] + 1
      /\ \A p \in Ops : p # o => balance'[p] = balance[p]
  BY ApplyType
<1>2. SnapOps' = SnapOps
  BY DEF SnapOps
<1>3. Applied' = Applied \cup {o}
  BY <1>1, RTypes DEF Applied
<1>4. \A i \in 1..tailPos' : log[i] \in Applied'
  <2>1. \A i \in 1..tailPos : log[i] \in Applied
    BY DEF CoveredInv, Running
  <2>2. tailPos \in Nat /\ \A i \in 1..(tailPos + 1) : i \in 1..tailPos \/ i = tailPos + 1
    BY RTypes
  <2>. QED
    BY <1>3, <2>1, <2>2
<1>. QED
  BY <1>1, <1>2, <1>3, <1>4 DEF CoveredInv, Running

\* A step that loses no file.
LEMMA CoveredStepClean ==
    ASSUME ShapeInv, CoveredInv, [Next]_vars, ~Damage, ShapeInv'
    PROVE  CoveredInv'
<1>. USE DEF ShapeInv, walVars, snapVars, lsmVars, bootVars, runVars, outside
<1>1. CASE StartUp
  BY <1>1, CoveredStart
<1>2. CASE TailRecord
  <2>1. PICK o \in Ops : /\ o = log[tailPos + 1]
                         /\ IF Recognised(o) THEN UNCHANGED <<wal, balance, mem>>
                                             ELSE ApplyLocally(o)
    BY <1>2, NextRecord DEF TailRecord
  <2>2. /\ UNCHANGED <<snapFile, snap, walOk, redb, rebuild, loaded, phase, lsm, log, ckpt>>
        /\ phase \in {"catchingUp", "serving"} /\ tailPos' = tailPos + 1
    BY <1>2, NextRecord DEF TailRecord
  <2>3. CASE Recognised(o)
    <3>1. o \in Applied
      BY <2>2, <2>3 DEF CoveredInv, Recognised, Running
    <3>2. UNCHANGED <<wal, balance, mem>>
      BY <2>1, <2>3
    <3>3. SnapOps' = SnapOps /\ Applied' = Applied
      BY <2>2, <3>2 DEF SnapOps, Applied
    <3>4. \A i \in 1..tailPos' : log[i] \in Applied
      <4>1. \A i \in 1..tailPos : log[i] \in Applied
        BY <2>2 DEF CoveredInv, Running
      <4>2. tailPos \in Nat /\ \A i \in 1..(tailPos + 1) : i \in 1..tailPos \/ i = tailPos + 1
        BY RTypes
      <4>. QED
        BY <2>1, <2>2, <3>1, <4>1, <4>2
    <3>. QED
      BY <2>2, <3>2, <3>3, <3>4 DEF CoveredInv, Running
  <2>4. CASE ~Recognised(o)
    BY <2>1, <2>2, <2>4, CoveredApply
  <2>. QED
    BY <2>3, <2>4
<1>3. CASE AdvanceCheckpoint
  BY <1>3, CoveredFrame DEF AdvanceCheckpoint
<1>4. CASE SyncByHistoryTail
  BY <1>4, CoveredFrame DEF SyncByHistoryTail
<1>5. CASE HandlerCommits
  <2>1. inflight \in Ops /\ phase = "serving"
    BY <1>5 DEF HandlerCommits, TypeOK, PositionsInv
  <2>. QED
    BY <1>5, <2>1, CoveredApply DEF HandlerCommits
<1>6. CASE HandlerGivesUp
  BY <1>6, CoveredFrame DEF HandlerGivesUp
<1>7. ASSUME NEW o \in Ops, Persist(o)
      PROVE  CoveredInv'
  <2>1. lsm' \cup mem' \subseteq lsm \cup mem /\ mem' \subseteq mem
    BY <1>7 DEF Persist
  <2>. QED
    BY <1>7, <2>1, CoveredFrame DEF Persist
<1>8. ASSUME NEW o \in Ops, HandlerReplicates(o) \/ OtherNodeReplicates(o)
      PROVE  CoveredInv'
  BY <1>8, CoveredFrame DEF HandlerReplicates, OtherNodeReplicates
<1>9. CASE Crash
  <2>1. /\ phase' = "down" /\ lsm' \subseteq lsm /\ mem' = {} /\ ~rebuild'
        /\ UNCHANGED <<log, ckpt, redb, wal, walOk, snapFile, snap>>
    BY <1>9 DEF Crash, Survivors, TypeOK
  <2>2. SnapOps' = SnapOps /\ phase # "down"
    BY <1>9, <2>1, RecoveryAssumption DEF SnapOps, Crash
  <2>. QED
    BY <2>1, <2>2 DEF CoveredInv, Running
<1>10. CASE UNCHANGED vars
  BY <1>10, CoveredFrame DEF vars
<1>. QED
  BY <1>1, <1>2, <1>3, <1>4, <1>5, <1>6, <1>7, <1>8, <1>9, <1>10 DEF Next

LEMMA CoveredStep ==
    ASSUME ShapeInv, ~damaged => CoveredInv, [Next]_vars, ShapeInv'
    PROVE  ~damaged' => CoveredInv'
<1>1. CASE Damage
  BY <1>1 DEF Damage
<1>2. CASE ~Damage
  <2>1. damaged' = damaged
    BY <1>2 DEF Next, StartUp, ReadSnapshot, OpenDedup, OpenWalStartStore, OpenCheckpoint, DumpState,
           SyncDedup, SaveSnapshot, ResetWal, TailRecord, AdvanceCheckpoint, SyncByHistoryTail,
           HandlerCommits, HandlerGivesUp, Persist, HandlerReplicates, OtherNodeReplicates,
           Crash, vars, outside
  <2>. QED
    BY <1>2, <2>1, CoveredStepClean
<1>. QED
  BY <1>1, <1>2

-----------------------------------------------------------------------------
(* The theorems *)

LEMMA RInit ==
    ASSUME Init
    PROVE  ShapeInv /\ OnceInv /\ CoveredInv
<1>1. Zero \in Counts /\ (\A o \in Ops : Zero[o] = 0) /\ 0 \in Nat
  BY ZeroFacts
<1>2. SnapOps = {} /\ Applied = {} /\ ToSet(wal) = {}
  BY <1>1, ToSetFacts DEF Init, SnapOps, Applied
<1>3. ShapeInv
  <2>1. NoSnapshot \in [seq : Nat, counts : Counts] /\ NoSnapshot.seq = 0
    BY ZeroFacts
  <2>2. << >> \in Seq(Ops) /\ Len(<< >>) = 0
    OBVIOUS
  <2>3. crashes \in 0..MaxCrashes
    BY RecoveryAssumption DEF Init
  <2>4. log \in Seq(Ops) /\ wal \in Seq(Ops) /\ phase \in Phases
    BY <2>2 DEF Init, Phases
  <2>5. TypeOK
    BY <1>1, <2>1, <2>3, <2>4 DEF Init, TypeOK
  <2>. QED
    BY <2>1, <2>2, <2>5 DEF Init, PositionsInv, ShapeInv
<1>4. OnceInv
  BY <1>1, <1>2 DEF Init, OnceInv, Running, NoSnapshot
<1>5. CoveredInv
  BY <1>2 DEF Init, CoveredInv, Running
<1>. QED
  BY <1>3, <1>4, <1>5

\* Whatever crashes and however slow the persist queue, start-up (main) and the tail
\* keep every file within the log and, as long as no file has lost its contents, the
\* snapshot and the WAL hold all that the checkpoint and the tail's position promise.
THEOREM DiskInvariant == Spec => [](ShapeInv /\ (~damaged => CoveredInv))
<1>1. Init => ShapeInv /\ (~damaged => CoveredInv)
  BY RInit
<1>2. ShapeInv /\ (~damaged => CoveredInv) /\ [Next]_vars
      => (ShapeInv /\ (~damaged => CoveredInv))'
  BY ShapeStep, CoveredStep
<1>. QED
  BY <1>1, <1>2, PTL DEF Spec

\* The invariant of the run: besides, no balance holds an operation twice, in memory
\* or in the snapshot, that neither of the two gaps in main() has exposed.
THEOREM RecoveryInvariant == Spec => []RInv
<1>1. Init => ShapeInv /\ OnceInv /\ (~damaged => CoveredInv)
  BY RInit
<1>2. /\ ShapeInv /\ OnceInv /\ (~damaged => CoveredInv) /\ [Next]_vars
      => (ShapeInv /\ OnceInv /\ (~damaged => CoveredInv))'
  BY ShapeStep, OnceStep, CoveredStep
<1>3. ShapeInv /\ OnceInv /\ (~damaged => CoveredInv) => RInv
  BY DEF ShapeInv, RInv
<1>. QED
  BY <1>1, <1>2, <1>3, PTL DEF Spec

\* Crashes in any phase, any number of them, make the tail (catch_up, run_live_tail)
\* skip no record that the balances do not hold.
THEOREM CrashesNeverSkip == Spec => []CrashesSkipNothing
<1>1. ShapeInv /\ (~damaged => CoveredInv) => CrashesSkipNothing
  <2>. SUFFICES ASSUME ShapeInv, CoveredInv, phase = "serving", NEW i \in 1..tailPos
                PROVE  balance[log[i]] >= 1
    BY DEF CrashesSkipNothing, NothingSkipped
  <2>1. log[i] \in Applied
    BY DEF CoveredInv, Running
  <2>. QED
    BY <2>1, RTypes DEF Applied, ShapeInv
<1>. QED
  BY <1>1, DiskInvariant, PTL

\* The checkpoint file never runs ahead of what the snapshot and the WAL can restore.
THEOREM CheckpointNeverAhead == Spec => []CheckpointIsCovered
<1>1. ShapeInv /\ (~damaged => CoveredInv) => CheckpointIsCovered
  <2>. SUFFICES ASSUME ShapeInv, CoveredInv
                PROVE  CheckpointIsCovered
    BY DEF CheckpointIsCovered
  <2>1. Min2(ckpt, Len(log)) = ckpt
    BY DEF ShapeInv, PositionsInv, Min2
  <2>. QED
    BY <2>1 DEF CoveredInv, CheckpointIsCovered
<1>. QED
  BY <1>1, DiskInvariant, PTL

\* Delivering an operation again, by the log or by a client, after crashes in any
\* phase and with damaged files, changes a balance twice only if the operation was in
\* the persist queue at sync_disk_dedup, or in the WAL when the process died between
\* Snapshot::save and the reset of the WAL (main.rs:189-191).
THEOREM TwiceOnlyThroughAGap == Spec => []TwiceOnlyIfExposed
<1>1. RInv => TwiceOnlyIfExposed
  BY DEF RInv, OnceInv, TwiceOnlyIfExposed
<1>. QED
  BY <1>1, RecoveryInvariant, PTL

\* What was folded into the snapshot stays recognisable after any crash, unless it was
\* exposed: the index is synced first (sync_disk_dedup before Snapshot::save).
THEOREM SnapshotStaysKnown == Spec => []SnapshotIsRemembered
<1>1. RInv => SnapshotIsRemembered
  BY DEF RInv, OnceInv, SnapshotIsRemembered
<1>. QED
  BY <1>1, RecoveryInvariant, PTL
-----------------------------------------------------------------------------
(* What a node has acknowledged *)

\* It is in the replicated log, as is the operation of a handler under way.
AckedIsLogged == acked \cup ({inflight} \ {NoOp}) \subseteq ToSet(log)

\* Snapshot and WAL, with all that main() restores from them.
Restorable == SnapOps \cup ToSet(wal)
AckedIsRestorable == ~damaged => acked \subseteq Restorable

LEMMA LoggedStep ==
    ASSUME ShapeInv, AckedIsLogged, [Next]_vars
    PROVE  AckedIsLogged'
<1>. USE DEF ShapeInv, walVars, snapVars, lsmVars, bootVars, runVars, outside
<1>1. log \in Seq(Ops)
  BY DEF TypeOK
<1>2. ASSUME NEW o \in Ops, HandlerReplicates(o)
      PROVE  AckedIsLogged'
  <2>1. ToSet(log') = ToSet(log) \cup {o} /\ inflight' = o /\ acked' = acked
    BY <1>1, <1>2, ToSetAppend DEF HandlerReplicates
  <2>. QED
    BY <2>1 DEF AckedIsLogged
<1>3. ASSUME NEW o \in Ops, OtherNodeReplicates(o)
      PROVE  AckedIsLogged'
  <2>1. ToSet(log') = ToSet(log) \cup {o} /\ UNCHANGED <<inflight, acked>>
    BY <1>1, <1>3, ToSetAppend DEF OtherNodeReplicates
  <2>. QED
    BY <2>1 DEF AckedIsLogged
<1>4. CASE HandlerCommits
  <2>1. log' = log /\ acked' = acked \cup {inflight} /\ inflight' = NoOp /\ inflight # NoOp
    BY <1>4 DEF HandlerCommits
  <2>. QED
    BY <2>1 DEF AckedIsLogged
<1>5. ASSUME \/ StartUp \/ TailRecord \/ AdvanceCheckpoint \/ SyncByHistoryTail \/ HandlerGivesUp
             \/ Crash \/ Damage \/ UNCHANGED vars \/ \E o \in Ops : Persist(o)
      PROVE  log' = log /\ acked' = acked /\ inflight' \in {inflight, NoOp}
  BY <1>5 DEF StartUp, ReadSnapshot, OpenDedup, OpenWalStartStore, OpenCheckpoint, DumpState,
           SyncDedup, SaveSnapshot, ResetWal, TailRecord, ApplyLocally, AdvanceCheckpoint,
           SyncByHistoryTail, HandlerGivesUp, Persist, Crash, Damage, vars
<1>. QED
  BY <1>2, <1>3, <1>4, <1>5 DEF Next, AckedIsLogged

\* No step of a node without damage makes snapshot and WAL together any poorer:
\* the WAL is reset only when the snapshot has what it had.
LEMMA RestorableStep ==
    ASSUME ShapeInv, CoveredInv, [Next]_vars, ~Damage
    PROVE  /\ Restorable \subseteq Restorable'
           /\ acked' \subseteq acked \cup Restorable'
<1>. USE DEF ShapeInv, walVars, snapVars, lsmVars, bootVars, runVars, outside
<1>1. wal \in Seq(Ops)
  BY DEF TypeOK
<1>2. ASSUME NEW o \in Ops, ApplyLocally(o), UNCHANGED <<snapFile, snap>>
      PROVE  Restorable \subseteq Restorable' /\ o \in Restorable'
  BY <1>1, <1>2, ToSetAppend DEF ApplyLocally, Restorable, SnapOps
<1>3. CASE TailRecord
  <2>1. PICK o \in Ops : IF Recognised(o) THEN UNCHANGED wal ELSE ApplyLocally(o)
    BY <1>3, NextRecord DEF TailRecord
  <2>2. UNCHANGED <<snapFile, snap, acked>>
    BY <1>3 DEF TailRecord
  <2>. QED
    BY <1>2, <2>1, <2>2 DEF Restorable, SnapOps
<1>4. CASE HandlerCommits
  <2>1. /\ inflight \in Ops /\ ApplyLocally(inflight)
        /\ UNCHANGED <<snapFile, snap>> /\ acked' = acked \cup {inflight}
    BY <1>4 DEF HandlerCommits, TypeOK
  <2>. QED
    BY <1>2, <2>1
<1>5. CASE SaveSnapshot
  <2>1. snapFile' = "good" /\ snap' = loaded /\ wal' = wal /\ acked' = acked
    BY <1>5 DEF SaveSnapshot
  <2>2. loaded.counts = balance /\ Applied = Restorable
    BY <1>5 DEF SaveSnapshot, CoveredInv, Running, Restorable
  <2>3. SnapOps' = Applied
    BY <2>1, <2>2 DEF SnapOps, Applied
  <2>. QED
    BY <2>1, <2>2, <2>3 DEF Restorable
<1>6. CASE ResetWal
  <2>1. UNCHANGED <<snapFile, snap, acked>>
    BY <1>6 DEF ResetWal
  <2>2. snapFile = "good" /\ snap.counts = balance /\ Applied = Restorable
    BY <1>6 DEF ResetWal, CoveredInv, Running, Restorable
  <2>3. SnapOps' = Applied
    BY <2>1, <2>2 DEF SnapOps, Applied
  <2>. QED
    BY <2>1, <2>2, <2>3 DEF Restorable
<1>7. CASE ReadSnapshot
  <2>1. snapFile' = snapFile \/ snapFile # "good"
    BY <1>7 DEF ReadSnapshot
  <2>2. UNCHANGED <<snap, wal, acked>>
    BY <1>7 DEF ReadSnapshot
  <2>. QED
    BY <2>1, <2>2 DEF Restorable, SnapOps
<1>8. CASE OpenWalStartStore
  BY <1>8 DEF OpenWalStartStore, CoveredInv, Restorable, SnapOps
<1>9. ASSUME \/ OpenDedup \/ OpenCheckpoint \/ DumpState \/ SyncDedup
             \/ AdvanceCheckpoint \/ SyncByHistoryTail \/ HandlerGivesUp \/ Crash \/ UNCHANGED vars
             \/ \E o \in Ops : Persist(o) \/ HandlerReplicates(o) \/ OtherNodeReplicates(o)
      PROVE  UNCHANGED <<snapFile, snap, wal, acked>>
  BY <1>9 DEF OpenDedup, OpenCheckpoint, DumpState, SyncDedup, AdvanceCheckpoint,
           SyncByHistoryTail, HandlerGivesUp, Crash, vars, Persist, HandlerReplicates,
           OtherNodeReplicates
<1>10. CASE UNCHANGED <<snapFile, snap, wal, acked>>
  BY <1>10 DEF Restorable, SnapOps
<1>. QED
  BY <1>3, <1>4, <1>5, <1>6, <1>7, <1>8, <1>9, <1>10 DEF Next, StartUp

LEMMA DamageIsRemembered ==
    ASSUME ShapeInv, [Next]_vars, ~damaged'
    PROVE  ~damaged /\ ~Damage
<1>1. ~Damage
  BY DEF Damage
<1>2. damaged' = damaged
  BY <1>1 DEF Next, StartUp, ReadSnapshot, OpenDedup, OpenWalStartStore, OpenCheckpoint, DumpState,
           SyncDedup, SaveSnapshot, ResetWal, TailRecord, AdvanceCheckpoint, SyncByHistoryTail,
           HandlerCommits, HandlerGivesUp, Persist, HandlerReplicates, OtherNodeReplicates,
           Crash, vars, outside
<1>. QED
  BY <1>1, <1>2

\* README.md, guarantees 1 to 3, of one node: what it acknowledged is in the log, whatever
\* happens to its files, and, as long as they are not damaged, also in what main()
\* restores after a crash in any phase, with a persist queue as slow as it likes.
THEOREM AcknowledgedIsRestored == Spec => [](AckedIsLogged /\ AckedIsRestorable)
<1>1. Init => AckedIsLogged /\ AckedIsRestorable
  BY DEF Init, AckedIsLogged, AckedIsRestorable
<1>2. ShapeInv /\ (~damaged => CoveredInv) /\ [Next]_vars /\ AckedIsLogged /\ AckedIsRestorable
      => AckedIsLogged' /\ AckedIsRestorable'
  BY LoggedStep, RestorableStep, DamageIsRemembered DEF AckedIsRestorable
<1>. QED
  BY <1>1, <1>2, DiskInvariant, PTL DEF Spec

\* The same of everything applied: no step of main(), the tail or the handlers, and
\* no crash, loses an operation from snapshot and WAL together.
THEOREM FilesLoseNothing ==
    Spec => [][~damaged' => Restorable \subseteq Restorable']_vars
<1>1. ShapeInv /\ (~damaged => CoveredInv) /\ [Next]_vars
      => (~damaged' => Restorable \subseteq Restorable')
  BY RestorableStep, DamageIsRemembered
<1>. QED
  BY <1>1, DiskInvariant, PTL DEF Spec
=============================================================================
