------------------------------ MODULE History ------------------------------
(***************************************************************************)
(* The history index of one node: rows by operation, owner and SKU in the  *)
(* LSM, a tail of its own that fills them from the replicated log in       *)
(* batches, and the reads that are refused until the index has reached the *)
(* node's checkpoint.                                                      *)
(*                                                                         *)
(* The log and the checkpoint move on as the rest of the node lets them.   *)
(* Rows and their two indexes are written in one LSM batch, so one set of  *)
(* identifiers stands for the three.  One request is enough, because reads *)
(* change nothing.                                                         *)
(*                                                                         *)
(* Operators marked "Mutation" are plausible mistakes in the operator      *)
(* below them; the specification does not use them.                        *)
(***************************************************************************)
EXTENDS Naturals, Sequences, FiniteSets, AcceptedLog

CONSTANTS
    Ids,            \* identifiers, ordered: a finite set of positive numbers
    Logs,           \* what the log may come to hold
    BatchRecords,   \* HISTORY_BATCH_RECORDS
    Limit,          \* page size the client asks for
    MaxFaults       \* bound on crashes, failed reads, writes and syncs

Fence(e)          == [kind |-> "fence", epoch |-> e]
Operations(e, id) == [kind |-> "operations", epoch |-> e, op |-> id]
Poison            == [kind |-> "poison"]

ASSUME HistoryAssumption ==
    /\ Ids \subseteq Nat \ {0} /\ IsFiniteSet(Ids)
    /\ \A script \in Logs :
          /\ Len(script) \in Nat
          /\ \A i \in 1..Len(script) :
                /\ script[i].kind = "fence" => script[i].epoch \in Nat
                /\ script[i].kind = "operations" => script[i].op \in Ids
    /\ BatchRecords \in Nat \ {0} /\ Limit \in Nat \ {0} /\ MaxFaults \in Nat

VARIABLES
    log, last,      \* the stream and its last sequence
    ckpt,           \* the node's checkpoint, advanced by the live tail
    legacy,         \* rows of history.redb, left by an older release
    lsm,            \* the LSM from its last sync on: one state per batch
    task, rd,       \* run_history_tail and its locals
    published,      \* history_checkpoint
    req,            \* a read request
    faults

vars == <<log, last, ckpt, legacy, lsm, task, rd, published, req, faults>>
logVars  == <<log, last, ckpt, legacy>>
tailVars == <<lsm, task, rd, published>>

Idle == [pos |-> 0, epoch |-> 0, ids |-> {}, upTo |-> 0]
NoRequest == [kind |-> "none", pc |-> "idle", id |-> 0, owed |-> {},
              cursor |-> 0, got |-> {}, twice |-> FALSE]

Visible == lsm[Len(lsm)]

Contents == [seq : Nat, epoch : Nat, rows : SUBSET Ids, fmt : 0..2]

TypeOK ==
    /\ log \in Logs /\ last \in 0..Len(log) /\ ckpt \in 0..last
    /\ legacy \subseteq Ids
    /\ lsm # << >> /\ lsm \in Seq(Contents)
    /\ \A i \in 1..Len(lsm) : lsm[i].seq <= last
    /\ task \in {"down", "idle", "read", "write", "publish", "end"}
    /\ rd \in [pos : Nat, epoch : Nat, ids : SUBSET Ids, upTo : Nat]
    /\ rd.pos <= Visible.seq + BatchRecords /\ rd.upTo <= last
    /\ published \in 0..last
    /\ req \in [kind : {"none", "page", "one", "batch"},
                pc : {"idle", "asked", "allowed", "missed", "found", "notFound"},
                id : Ids \cup {0}, owed : SUBSET Ids, cursor : Ids \cup {0},
                got : SUBSET Ids, twice : BOOLEAN]
    /\ faults \in 0..MaxFaults

\* What catch_up, the reference for every index, makes of the first i records.
EpochAfter(i) == EpochIn(log, i)
AcceptedTo(i) == TakenTo(log, i)

\* A new directory, or one of a release that kept its rows in redb and had come
\* as far as its last sequence.
Init ==
    /\ log \in Logs /\ last \in 0..Len(log) /\ ckpt = last
    /\ legacy = AcceptedTo(last)
    /\ lsm = <<[seq |-> last, epoch |-> EpochAfter(last), rows |-> {}, fmt |-> 0]>>
    /\ task = "down" /\ rd = Idle /\ published = 0
    /\ req = NoRequest /\ faults = 0

Fault == faults < MaxFaults /\ faults' = faults + 1

-----------------------------------------------------------------------------
(* The rest of the node *)

LogGrows ==
    /\ last < Len(log) /\ last' = last + 1
    /\ UNCHANGED <<log, ckpt, legacy, tailVars, req, faults>>

CheckpointAdvances ==
    /\ ckpt' \in ckpt + 1 .. last
    /\ UNCHANGED <<log, last, legacy, tailVars, req, faults>>

\* main: the index is synced, an index without the current row format starts
\* from the first record, any other one where it stands.
Start ==
    /\ task = "down" /\ task' = "idle"
    /\ lsm' = <<IF Visible.fmt = 0
                THEN [Visible EXCEPT !.seq = 0, !.epoch = 0, !.fmt = 1]
                ELSE Visible>>
    /\ published' = lsm'[1].seq
    /\ UNCHANGED <<logVars, rd, req, faults>>

\* Batches that were not synced may be lost, the latest first.  The client of a
\* lost request asks again.
Crash ==
    /\ task # "down" /\ Fault
    /\ \E k \in 1..Len(lsm) : lsm' = SubSeq(lsm, 1, k)
    /\ task' = "down" /\ rd' = Idle /\ published' = 0
    /\ req' = IF req.pc \in {"allowed", "missed"} THEN [req EXCEPT !.pc = "asked"] ELSE req
    /\ UNCHANGED logVars

-----------------------------------------------------------------------------
(* run_history_tail *)

\* Mutation: the last record has to wait for a successor.
LagsByMore == last > Visible.seq + 1

Lags == last > Visible.seq

TailBegins ==
    /\ task = "idle" /\ Lags
    /\ task' = "read"
    /\ rd' = [pos |-> Visible.seq, epoch |-> Visible.epoch, ids |-> {}, upTo |-> last]
    /\ UNCHANGED <<logVars, lsm, published, req, faults>>

\* What the record at i adds to the batch, and the epoch behind it.
Taken(i) ==
    IF log[i].kind = "operations" /\ log[i].epoch = rd.epoch THEN {log[i].op} ELSE {}
EpochBehind(i) ==
    IF log[i].kind = "fence" /\ log[i].epoch > rd.epoch THEN log[i].epoch ELSE rd.epoch

BatchEnds(i) == i = rd.upTo \/ i = Visible.seq + BatchRecords

TailReads ==
    LET i == rd.pos + 1
    IN  /\ task = "read"
        /\ rd' = [rd EXCEPT !.pos = i, !.ids = @ \cup Taken(i), !.epoch = EpochBehind(i)]
        /\ task' = IF BatchEnds(i) THEN "write" ELSE "read"
        /\ UNCHANGED <<logVars, lsm, published, req, faults>>

\* Mutation: the epoch is not written with the sequence.
WrittenWithoutEpoch == [Visible EXCEPT !.seq = rd.pos, !.rows = @ \cup rd.ids]

Written == [Visible EXCEPT !.seq = rd.pos, !.epoch = rd.epoch, !.rows = @ \cup rd.ids]

\* materialize_history_batch: rows, indexes, sequence and epoch in one batch,
\* not synced.
Materializes ==
    /\ task = "write" /\ task' = "publish"
    /\ lsm' = Append(lsm, Written)
    /\ UNCHANGED <<logVars, rd, published, req, faults>>

\* Mutation: the last sequence of the log is published, not that of the batch.
ReachedLast == rd.upTo

Reached == rd.pos

Publishes ==
    /\ task = "publish"
    /\ published' = Reached
    /\ rd' = [rd EXCEPT !.ids = {}]
    /\ task' = IF rd.pos = rd.upTo THEN "end" ELSE "read"
    /\ UNCHANGED <<logVars, lsm, req, faults>>

\* A read or a write fails: the batch is dropped and read again in a new round.
TailFails ==
    /\ task \in {"read", "write"} /\ Fault /\ task' = "end"
    /\ UNCHANGED <<logVars, lsm, rd, published, req>>

\* The end of a round; one that has reached its last record syncs the index and
\* marks the migration as complete, unless the sync fails.
TailEnds ==
    /\ task = "end" /\ task' = "idle" /\ rd' = Idle
    /\ \/ /\ published = rd.upTo
          /\ lsm' = <<[Visible EXCEPT !.fmt = 2]>> /\ UNCHANGED faults
       \/ published = rd.upTo /\ UNCHANGED lsm /\ Fault
       \/ published # rd.upTo /\ UNCHANGED <<lsm, faults>>
    /\ UNCHANGED <<logVars, published, req>>

-----------------------------------------------------------------------------
(* Reads *)

\* Mutation: a lag of one record is let pass.
NearlyComplete == task # "down" /\ ckpt <= published + 1

\* ensure_history_complete, on a node that is up.
Complete == task # "down" /\ ckpt <= published

\* A request; what it must not miss is what the checkpoint covers by now.
Ask(kind, id) ==
    /\ req.pc = "idle"
    /\ req' = [NoRequest EXCEPT !.kind = kind, !.pc = "asked", !.id = id,
                 !.owed = IF kind = "page" THEN AcceptedTo(ckpt)
                                           ELSE AcceptedTo(ckpt) \cap {id}]
    /\ UNCHANGED <<logVars, tailVars, faults>>

\* Mutation: the cursor's own row is not skipped.
RestFrom(rows, cursor) == {id \in rows : id >= cursor}

RestAfter(rows, cursor) == {id \in rows : id > cursor}

\* by_index and scan_operations: the first rows behind the cursor; by_index reads
\* redb while the LSM is empty.
Page ==
    LET rest == RestAfter(IF Visible.rows = {} THEN legacy ELSE Visible.rows, req.cursor)
    IN  {id \in rest : Cardinality({other \in rest : other < id}) < Limit}

\* A full page has a next cursor, a shorter one is the last.
ReadPage ==
    /\ req.kind = "page" /\ req.pc = "asked" /\ Complete
    /\ req' = [req EXCEPT
                 !.got = @ \cup Page,
                 !.twice = @ \/ req.got \cap Page # {},
                 !.pc = IF Cardinality(Page) = Limit THEN "asked" ELSE "found",
                 !.cursor = IF Cardinality(Page) = Limit
                            THEN CHOOSE id \in Page : \A other \in Page : other <= id
                            ELSE @]
    /\ UNCHANGED <<logVars, tailVars, faults>>

\* get_operation asks whether the index is complete, then looks.
AllowOne ==
    /\ req.kind = "one" /\ req.pc = "asked" /\ Complete
    /\ req' = [req EXCEPT !.pc = "allowed"]
    /\ UNCHANGED <<logVars, tailVars, faults>>

Stored == Visible.rows \cup legacy

LookUpOne ==
    /\ req.kind = "one" /\ req.pc = "allowed"
    /\ req' = [req EXCEPT !.pc = IF req.id \in Stored THEN "found" ELSE "notFound"]
    /\ UNCHANGED <<logVars, tailVars, faults>>

\* get_operations_batch looks, and asks only when it has missed something.
LookUpBatch ==
    /\ req.kind = "batch" /\ req.pc = "asked" /\ task # "down"
    /\ req' = [req EXCEPT !.pc = IF req.id \in Stored THEN "found" ELSE "missed"]
    /\ UNCHANGED <<logVars, tailVars, faults>>

\* 404, or 503 and the client asks again.
AnswerBatch ==
    /\ req.kind = "batch" /\ req.pc = "missed"
    /\ req' = [req EXCEPT !.pc = IF Complete THEN "notFound" ELSE "asked"]
    /\ UNCHANGED <<logVars, tailVars, faults>>

-----------------------------------------------------------------------------
TailStep == TailBegins \/ TailReads \/ Materializes \/ Publishes \/ TailEnds

Next ==
    \/ LogGrows \/ CheckpointAdvances \/ Start \/ Crash
    \/ TailStep \/ TailFails
    \/ \E kind \in {"one", "batch"}, id \in Ids : Ask(kind, id)
    \/ Ask("page", 0)
    \/ ReadPage \/ AllowOne \/ LookUpOne \/ LookUpBatch \/ AnswerBatch

Spec == Init /\ [][Next]_vars /\ WF_vars(Start) /\ WF_vars(TailStep)

-----------------------------------------------------------------------------
(* Properties *)

\* Whatever a crash leaves of the index is what catch_up would have accepted of
\* the records up to its sequence, and the tail resumes under the right epoch.
IndexIsPrefix ==
    \A i \in 1..Len(lsm) : lsm[i].fmt # 0 =>
        lsm[i].rows = AcceptedTo(lsm[i].seq) /\ lsm[i].epoch = EpochAfter(lsm[i].seq)

\* PRESENTATION-CHEATSHEET.md:45: history is read fail-closed.  When the guard
\* lets a request pass, everything the checkpoint covers is in the index, over
\* migrations, failed batches and rows lost in a crash.
FailClosed == Complete => AcceptedTo(ckpt) \subseteq Visible.rows

\* A client that follows the cursors to the end has seen every operation the
\* checkpoint covered when it began, and none twice, though rows are added and
\* the node restarts between two pages.
TraversalIsComplete ==
    /\ ~req.twice
    /\ req.kind = "page" /\ req.pc = "found" => req.owed \subseteq req.got

\* get_operation: 404 only for what the checkpoint did not cover.  It does not hold of
\* get_operations_batch, which looks first and asks for completeness afterwards.
OneIsNotMissed == req.kind = "one" /\ req.pc = "notFound" => req.owed = {}

\* When the log rests, the history reaches its end and stays there: no failed
\* read, write or sync, no restart and no migration leaves it behind for good.
EventuallyComplete == <>[](published = last)

-----------------------------------------------------------------------------
(* The inductive invariant behind the safety properties                      *)

\* A batch under way and the rows before it are what catch_up would have accepted
\* of the records read; the next record is in the batch and in the log.
RoundInv ==
    /\ rd.pos <= rd.upTo
    /\ task = "down" => rd = Idle
    /\ task \in {"read", "write"} =>
          /\ Visible.seq <= rd.pos
          /\ rd.epoch = EpochAfter(rd.pos)
          /\ Visible.rows \cup rd.ids = AcceptedTo(rd.pos)
    /\ task = "read" => rd.pos < rd.upTo /\ rd.pos < Visible.seq + BatchRecords
    /\ task = "publish" => rd.pos = Visible.seq /\ rd.epoch = Visible.epoch

\* A running node has an index in the current format, an older one has no rows;
\* what is published has been written.
PublishedInv ==
    /\ task # "down" => \A i \in 1..Len(lsm) : lsm[i].fmt # 0
    /\ \A i \in 1..Len(lsm) : lsm[i].fmt = 0 => lsm[i].rows = {}
    /\ task \in {"idle", "read", "write", "end"} => published = Visible.seq
    /\ published <= Visible.seq

\* What a request must not miss is covered by the checkpoint; once the guard has
\* let it pass it is in the index; pages end at the cursor and have left nothing
\* out before it.
RequestInv ==
    /\ req.owed \subseteq AcceptedTo(ckpt)
    /\ req.kind = "one" =>
          /\ req.owed \subseteq {req.id}
          /\ req.pc = "allowed" => req.owed \subseteq Visible.rows
    /\ req.kind = "page" => req.pc \in {"asked", "found"}
    /\ req.kind = "page" /\ req.pc = "asked" =>
          /\ \A id \in req.got : id <= req.cursor
          /\ \A id \in req.owed : id <= req.cursor => id \in req.got

HInv ==
    /\ TypeOK
    /\ IndexIsPrefix
    /\ RoundInv
    /\ PublishedInv
    /\ RequestInv
    /\ TraversalIsComplete
    /\ OneIsNotMissed
=============================================================================
