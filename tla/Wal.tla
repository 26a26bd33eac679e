---------------------------------- MODULE Wal ----------------------------------
(***************************************************************************)
(* The write-ahead log of one node: the writer task that gathers appends   *)
(* into one write and one sync, what a failed write or a crash leaves in   *)
(* the file, and the scan that recovers the records at the next start.     *)
(*                                                                         *)
(* An append carries one record; of its bytes only so much is kept as      *)
(* decides what the scan sees: a header, then Size payload units.  A       *)
(* header cut in the middle acts like one cut off behind its length: the   *)
(* scan finds a wrong checksum, or too few bytes, either way.              *)
(*                                                                         *)
(* Operators marked "Mutation" are plausible mistakes in the operator      *)
(* below them; the specification does not use them.                        *)
(***************************************************************************)
EXTENDS Naturals, Sequences, SequencesExt

CONSTANTS
    Appends,        \* calls of append_many
    Size,           \* payload units of each record
    QueueCap,       \* capacity of the writer's channel
    MaxBatch,       \* records gathered at most
    Faults,         \* "write": a write fails midway; "sync": sync_data fails
    MaxCrashes      \* bound on crashes

ASSUME WalAssumption ==
    /\ Size \in [Appends -> Nat \ {0}]
    /\ QueueCap \in Nat \ {0} /\ MaxBatch \in Nat \ {0}
    /\ Faults \subseteq {"write", "sync"}
    /\ MaxCrashes \in Nat

VARIABLES
    file,           \* its units
    synced,         \* how many of them a crash cannot take
    queue, batch,   \* appends in the channel and in the writer's hands
    stage,          \* of the writer
    phase,          \* of the process: main() resets the file before it serves
    reply,          \* of each append
    covered,        \* records the snapshot held at the last reset
    torn,           \* a failed write has left a part of a record in the file
    forfeit,        \* records written behind such a part, or lost with the file
    crashes

vars == <<file, synced, queue, batch, stage, phase, reply, covered, torn, forfeit, crashes>>

Unit(r, k) == [rec |-> r, part |-> k]

\* The bytes of one record: u32 length and u32 checksum, then the payload.
Encoded(r) == [k \in 1..(Size[r] + 1) |-> Unit(r, k - 1)]

\* What the first records of rs come to, by their number; and all of them.
Buffered(rs) ==
    LET upto[i \in 0..Len(rs)] == IF i = 0 THEN << >> ELSE upto[i - 1] \o Encoded(rs[i])
    IN  upto

Buffer(rs) == Buffered(rs)[Len(rs)]

\* recover, from each position on: stop at a record the file ends in, fail on a
\* wrong checksum.
ScanFrom(f) ==
    LET Intact(c) == \A k \in 1..Size[f[c].rec] : f[c + k] = Unit(f[c].rec, k)
        from[c \in 1..(Len(f) + 1)] ==
            IF c > Len(f) \/ c + Size[f[c].rec] > Len(f)
              THEN [ok |-> TRUE, ops |-> {}, valid |-> c - 1]
            ELSE IF ~Intact(c) THEN [ok |-> FALSE, ops |-> {}, valid |-> 0]
            ELSE LET rest == from[c + Size[f[c].rec] + 1]
                 IN  [rest EXCEPT !.ops = @ \cup {f[c].rec}]
    IN  from

Scan(f) == ScanFrom(f)[1]

\* Of a damaged file recover returns no record, only the error.
Recovered(f) == IF Scan(f).ok THEN Scan(f).ops ELSE {}

Units == {u \in [rec : Appends, part : Nat] : u.part <= Size[u.rec]}

TypeOK ==
    /\ file \in Seq(Units) /\ synced \in 0..Len(file)
    /\ queue \in Seq(Appends) /\ Len(queue) <= QueueCap
    /\ batch \in Seq(Appends) /\ Len(batch) <= MaxBatch
    /\ stage \in {"receiving", "gathering", "syncing"}
    /\ phase \in {"down", "opened", "serving"}
    /\ reply \in [Appends -> {"unsent", "waiting", "ok", "failed", "lost"}]
    /\ covered \subseteq Appends /\ forfeit \subseteq Appends /\ torn \in BOOLEAN /\ crashes \in 0..MaxCrashes

Init ==
    /\ file = << >> /\ synced = 0
    /\ queue = << >> /\ batch = << >>
    /\ stage = "receiving" /\ phase = "down"
    /\ reply = [r \in Appends |-> "unsent"]
    /\ covered = {} /\ torn = FALSE /\ forfeit = {} /\ crashes = 0

-----------------------------------------------------------------------------
(* append_many and the writer task *)

Send(r) ==
    /\ phase # "down" /\ reply[r] = "unsent" /\ Len(queue) < QueueCap
    /\ queue' = Append(queue, r)
    /\ reply' = [reply EXCEPT ![r] = "waiting"]
    /\ UNCHANGED <<file, synced, batch, stage, phase, covered, torn, forfeit, crashes>>

\* The first append of a group; the deadline starts.
Receive ==
    /\ phase # "down" /\ stage = "receiving" /\ queue # << >>
    /\ batch' = <<Head(queue)>> /\ queue' = Tail(queue)
    /\ stage' = "gathering"
    /\ UNCHANGED <<file, synced, phase, reply, covered, torn, forfeit, crashes>>

Room == Len(batch) < MaxBatch

Join ==
    /\ stage = "gathering" /\ Room /\ queue # << >>
    /\ batch' = Append(batch, Head(queue)) /\ queue' = Tail(queue)
    /\ UNCHANGED <<file, synced, stage, phase, reply, covered, torn, forfeit, crashes>>

\* One write for the group, after the deadline or with a full group.
WriteGroup ==
    /\ stage = "gathering"
    /\ file' = file \o Buffer(batch)
    /\ stage' = "syncing"
    /\ forfeit' = IF torn THEN forfeit \cup ToSet(batch) ELSE forfeit
    /\ UNCHANGED <<synced, queue, batch, phase, reply, covered, torn, crashes>>

\* Mutation: only the caller who began the group is answered.
FirstMember == {Head(batch)}

Members == ToSet(batch)

\* Everyone of the group gets the same answer.
AnswerGroup(answer) ==
    /\ reply' = [r \in Appends |-> IF r \in Members THEN answer ELSE reply[r]]
    /\ batch' = << >> /\ stage' = "receiving"

\* write_all fails after some bytes, none or many; they stay in the file and the
\* next group is appended behind them.
WriteFails ==
    /\ "write" \in Faults /\ stage = "gathering"
    /\ \E k \in 0..(Len(Buffer(batch)) - 1) : file' = file \o SubSeq(Buffer(batch), 1, k)
    /\ torn' = (torn \/ Scan(file').valid # Len(file'))
    /\ AnswerGroup("failed")
    /\ UNCHANGED <<synced, queue, phase, covered, forfeit, crashes>>

\* Mutation: the group is answered after the write, without the sync.
SyncForgotten ==
    /\ stage = "syncing"
    /\ AnswerGroup("ok")
    /\ UNCHANGED <<file, synced, queue, phase, covered, torn, forfeit, crashes>>

Sync ==
    /\ stage = "syncing"
    /\ synced' = Len(file)
    /\ AnswerGroup("ok")
    /\ UNCHANGED <<file, queue, phase, covered, torn, forfeit, crashes>>

\* The bytes are in the file all the same.
SyncFails ==
    /\ "sync" \in Faults /\ stage = "syncing"
    /\ AnswerGroup("failed")
    /\ UNCHANGED <<file, synced, queue, phase, covered, torn, forfeit, crashes>>

-----------------------------------------------------------------------------
(* The process *)

\* The acknowledged records no snapshot holds yet.
Owed == {r \in Appends : reply[r] = "ok"} \ covered

\* Mutation: the file is not cut behind the last whole record.
UsableUncut == IF Scan(file).ok THEN file ELSE << >>

\* The valid part; a damaged file is renamed and a new one begun.
Usable == IF Scan(file).ok THEN SubSeq(file, 1, Scan(file).valid) ELSE << >>

\* recover, then Wal::open, after a quarantine if need be.
Open ==
    /\ phase = "down" /\ phase' = "opened"
    /\ file' = Usable
    /\ synced' = IF synced <= Len(file') THEN synced ELSE Len(file')
    /\ torn' = FALSE
    /\ forfeit' = IF Scan(file).ok THEN forfeit ELSE forfeit \cup Owed
    /\ UNCHANGED <<queue, batch, stage, reply, covered, crashes>>

Quiet == stage = "receiving" /\ queue = << >>

\* main() has saved a snapshot of everything recovered and appended so far, and
\* resets the file before it starts the tails and the listener.
Reset ==
    /\ phase = "opened" /\ Quiet /\ phase' = "serving"
    /\ file' = << >> /\ synced' = 0 /\ torn' = FALSE /\ UNCHANGED forfeit
    /\ covered' = covered \cup {r \in Appends : reply[r] = "ok"}
    /\ UNCHANGED <<queue, batch, stage, reply, crashes>>

\* The process dies; of what was not synced the file keeps some first part.
Crash ==
    /\ phase # "down" /\ crashes < MaxCrashes
    /\ phase' = "down" /\ crashes' = crashes + 1
    /\ \E k \in synced..Len(file) : file' = SubSeq(file, 1, k)
    /\ queue' = << >> /\ batch' = << >> /\ stage' = "receiving"
    /\ reply' = [r \in Appends |-> IF reply[r] = "waiting" THEN "lost" ELSE reply[r]]
    /\ UNCHANGED <<synced, covered, torn, forfeit>>

-----------------------------------------------------------------------------
Writer == Receive \/ Join \/ WriteGroup \/ WriteFails \/ Sync \/ SyncFails

Next ==
    \/ \E r \in Appends : Send(r)
    \/ Writer
    \/ Open \/ Reset \/ Crash

\* The writer task runs and its deadline comes; Docker restarts the process.
Spec == Init /\ [][Next]_vars /\ WF_vars(Writer) /\ WF_vars(Open)

-----------------------------------------------------------------------------
(* Properties *)

\* What a crash at this moment may leave of the file.
AfterCrash == {SubSeq(file, 1, k) : k \in synced..Len(file)}

\* ARCHITECTURE.md, invariant 1: an acknowledged record is found again after a
\* crash at any moment, however many failed syncs and earlier crashes came
\* before it.  A failed write costs what is acknowledged behind its fragment; the
\* rest is found, or the file is found damaged, but it is never lost in silence.
AckedIsRecovered ==
    \A f \in AfterCrash :
        (torn => Scan(f).ok) => Owed \ forfeit \subseteq Recovered(f)

\* A crash alone never makes the next start throw the file away: what it cuts
\* off is the end of the last group, also if the file was cut before, even
\* behind the fragment of a failed write.
NoFalseAlarm == ~torn => \A f \in AfterCrash : Scan(f).ok

\* Every append that reached the channel is answered, whoever it is grouped
\* with, unless the process dies.
EveryAppendAnswered == \A r \in Appends : (reply[r] = "waiting") ~> (reply[r] # "waiting")

-----------------------------------------------------------------------------
(* The inductive invariant behind the first two.  Its last part is what the *)
(* third one needs of every state.                                         *)

\* A file no failed write has touched consists of whole records, but for what a
\* crash has cut; open() cuts that off.
FileInv ==
    ~torn => Scan(file).ok /\ (phase # "down" => Scan(file).valid = Len(file))

\* What is owed lies in the part that a crash cannot take.
OwedInv == Owed \ forfeit \subseteq Scan(SubSeq(file, 1, synced)).ops

\* A group that is written can be recovered from the file as it is, or is
\* forfeit; without a group there is nothing to write, and without a process
\* there is neither a group nor a queue.
GroupInv ==
    /\ stage = "syncing" => ToSet(batch) \subseteq forfeit \cup Scan(file).ops
    /\ stage = "receiving" <=> batch = << >>
    /\ phase = "down" => stage = "receiving" /\ queue = << >>

\* What the writer has in its hands, then what is in its channel.
Held == batch \o queue

\* Whoever waits is there exactly once, and nobody else is: no append is dropped
\* between channel and group, written twice or answered twice.
WaitInv ==
    /\ \A r \in Appends : reply[r] = "waiting" <=> \E i \in 1..Len(Held) : Held[i] = r
    /\ \A i, j \in 1..Len(Held) : Held[i] = Held[j] => i = j

\* The inductive invariant of the log of one node, types included.
WInv == TypeOK /\ FileInv /\ OwedInv /\ GroupInv /\ WaitInv
=============================================================================
