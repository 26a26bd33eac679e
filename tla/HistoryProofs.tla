--------------------------- MODULE HistoryProofs ---------------------------
(***************************************************************************)
(* The history index keeps its inductive invariant HInv, for every log,    *)
(* batch and page size and every number of crashes and failures: what it   *)
(* holds is what catch_up would have accepted, and reads miss nothing the  *)
(* checkpoint covers.                                                      *)
(***************************************************************************)
EXTENDS History, AcceptedLogProofs, FiniteSetTheorems

-----------------------------------------------------------------------------
(* The log and the index *)

LEMMA LogFacts ==
    ASSUME TypeOK
    PROVE  /\ IsLog(log) /\ Len(log) \in Nat
           /\ last \in Nat /\ last <= Len(log) /\ ckpt \in Nat /\ ckpt <= last
           /\ \A i \in 1..Len(log) : log[i].kind = "operations" => log[i].op \in Ids
BY HistoryAssumption DEF TypeOK, IsLog

LEMMA VisibleFacts ==
    ASSUME TypeOK
    PROVE  /\ lsm \in Seq(Contents) /\ Len(lsm) \in Nat \ {0}
           /\ Visible \in Contents /\ Visible.seq <= last
           /\ Visible.seq \in Nat /\ Visible.epoch \in Nat /\ Visible.rows \subseteq Ids
           /\ Visible.fmt \in 0..2
<1>1. lsm \in Seq(Contents) /\ Len(lsm) \in Nat \ {0}
  BY DEF TypeOK
<1>2. Len(lsm) \in 1..Len(lsm)
  BY <1>1
<1>3. Visible \in Contents /\ Visible.seq <= last
  BY <1>1, <1>2 DEF TypeOK, Visible
<1>. QED
  BY <1>1, <1>3 DEF Contents

LEMMA EntryFacts ==
    ASSUME TypeOK, NEW i \in 1..Len(lsm)
    PROVE  /\ lsm[i] \in Contents /\ lsm[i].seq \in 0..last /\ lsm[i].epoch \in Nat
           /\ lsm[i].rows \subseteq Ids /\ lsm[i].fmt \in 0..2
<1>1. lsm[i] \in Contents /\ lsm[i].seq <= last /\ last \in Nat
  BY LogFacts DEF TypeOK
<1>. QED
  BY <1>1 DEF Contents

\* What has been accepted are identifiers, and more of them along the log.
LEMMA AcceptedFacts ==
    ASSUME TypeOK, NEW i \in 0..last
    PROVE  /\ AcceptedTo(i) \subseteq Ids /\ EpochAfter(i) \in Nat
           /\ \A j \in 0..i : AcceptedTo(j) \subseteq AcceptedTo(i)
<1>1. i \in 0..Len(log) /\ IsLog(log) /\ Len(log) \in Nat
  BY LogFacts
<1>2. AcceptedTo(i) \subseteq Ids
  BY <1>1, LogFacts DEF AcceptedTo, TakenTo, TakenIn
<1>3. EpochAfter(i) \in Nat
  BY <1>1, EpochFacts DEF EpochAfter
<1>4. ASSUME NEW j \in 0..i
      PROVE  AcceptedTo(j) \subseteq AcceptedTo(i)
  <2>1. j \in Nat /\ i \in Nat /\ j <= i /\ i <= Len(log)
    BY <1>1
  <2>. QED
    BY <1>1, <2>1, Grows DEF AcceptedTo
<1>. QED
  BY <1>2, <1>3, <1>4

\* Nothing has been accepted of no records.
LEMMA NothingAccepted ==
    ASSUME TypeOK
    PROVE  AcceptedTo(0) = {} /\ EpochAfter(0) = 0
BY LogFacts, EmptyLog DEF AcceptedTo, EpochAfter

-----------------------------------------------------------------------------
(* What is left alone *)

IndexInv == TypeOK /\ IndexIsPrefix /\ RoundInv /\ PublishedInv

\* The type of a request.
ReqType ==
    req \in [kind : {"none", "page", "one", "batch"},
             pc : {"idle", "asked", "allowed", "missed", "found", "notFound"},
             id : Ids \cup {0}, owed : SUBSET Ids, cursor : Ids \cup {0},
             got : SUBSET Ids, twice : BOOLEAN]

\* Steps of the log, the checkpoint and the requests leave the index alone.
LEMMA IndexFrame ==
    ASSUME IndexInv, UNCHANGED tailVars, log' = log, legacy' = legacy,
           last' \in 0..Len(log), last <= last', ckpt' \in 0..last',
           ReqType', faults' \in 0..MaxFaults
    PROVE  IndexInv'
<1>. USE DEF IndexInv, tailVars
<1>1. Visible' = Visible /\ last \in Nat /\ last' \in Nat /\ Len(log) \in Nat
  BY LogFacts DEF Visible
<1>2. TypeOK'
  <2>1. rd' \in [pos : Nat, epoch : Nat, ids : SUBSET Ids, upTo : Nat] /\ rd'.upTo <= last'
    BY <1>1 DEF TypeOK
  <2>2. \A i \in 1..Len(lsm) : lsm[i].seq <= last'
    <3>1. \A i \in 1..Len(lsm) : lsm[i].seq \in Nat /\ lsm[i].seq <= last
      BY EntryFacts
    <3>. QED
      BY <1>1, <3>1
  <2>3. published' \in 0..last'
    BY <1>1 DEF TypeOK
  <2>. QED
    BY <1>1, <2>1, <2>2, <2>3 DEF TypeOK, ReqType
<1>3. IndexIsPrefix'
  BY DEF IndexIsPrefix, AcceptedTo, EpochAfter
<1>4. RoundInv'
  <2>1. /\ RoundInv /\ task' = task /\ rd' = rd /\ log' = log /\ Visible' = Visible
    BY <1>1
  <2>. QED
    BY ONLY <2>1, Zenon DEF RoundInv, AcceptedTo, EpochAfter
<1>5. PublishedInv'
  BY <1>1 DEF PublishedInv
<1>. QED
  BY <1>2, <1>3, <1>4, <1>5

-----------------------------------------------------------------------------
(* The tail *)

LEMMA BeginsStep ==
    ASSUME IndexInv, TailBegins
    PROVE  IndexInv'
<1>. USE DEF IndexInv
<1>1. /\ task' = "read" /\ UNCHANGED <<log, last, ckpt, legacy, lsm, published, req, faults>>
      /\ rd' = [pos |-> Visible.seq, epoch |-> Visible.epoch, ids |-> {}, upTo |-> last]
      /\ task = "idle" /\ last > Visible.seq /\ Visible' = Visible
  BY DEF TailBegins, Lags, logVars, Visible
<1>2. /\ Visible.seq \in Nat /\ Visible.epoch \in Nat /\ last \in Nat
      /\ Len(lsm) \in 1..Len(lsm) /\ BatchRecords \in Nat \ {0}
  BY LogFacts, VisibleFacts, HistoryAssumption
<1>3. /\ rd'.pos = Visible.seq /\ rd'.epoch = Visible.epoch /\ rd'.ids = {} /\ rd'.upTo = last
      /\ rd' \in [pos : Nat, epoch : Nat, ids : SUBSET Ids, upTo : Nat]
  BY <1>1, <1>2
<1>4. TypeOK'
  BY <1>1, <1>2, <1>3 DEF TypeOK
<1>5. IndexIsPrefix'
  BY <1>1 DEF IndexIsPrefix, AcceptedTo, EpochAfter
<1>6. RoundInv'
  <2>1. Visible.rows = AcceptedTo(Visible.seq) /\ Visible.epoch = EpochAfter(Visible.seq)
    BY <1>1, <1>2 DEF IndexIsPrefix, PublishedInv, Visible
  <2>. QED
    BY <1>1, <1>2, <1>3, <2>1 DEF RoundInv, AcceptedTo, EpochAfter
<1>7. PublishedInv'
  BY <1>1 DEF PublishedInv
<1>. QED
  BY <1>4, <1>5, <1>6, <1>7

\* The batch with one more record read.
LEMMA BatchAfter ==
    ASSUME NEW r \in [pos : Nat, epoch : Nat, ids : SUBSET Ids, upTo : Nat],
           NEW p \in Nat, NEW e \in Nat, NEW x \in SUBSET Ids, NEW s,
           s = [r EXCEPT !.pos = p, !.ids = @ \cup x, !.epoch = e]
    PROVE  /\ s.pos = p /\ s.epoch = e /\ s.ids = r.ids \cup x /\ s.upTo = r.upTo
           /\ s \in [pos : Nat, epoch : Nat, ids : SUBSET Ids, upTo : Nat]
OBVIOUS

LEMMA ReadsStep ==
    ASSUME IndexInv, TailReads
    PROVE  IndexInv'
<1>. USE DEF IndexInv
<1>. DEFINE i == rd.pos + 1
<1>1. /\ task = "read" /\ UNCHANGED <<log, last, ckpt, legacy, lsm, published, req, faults>>
      /\ rd' = [rd EXCEPT !.pos = i, !.ids = @ \cup Taken(i), !.epoch = EpochBehind(i)]
      /\ task' = IF BatchEnds(i) THEN "write" ELSE "read"
      /\ Visible' = Visible
  BY DEF TailReads, logVars, Visible
<1>2. /\ rd \in [pos : Nat, epoch : Nat, ids : SUBSET Ids, upTo : Nat]
      /\ rd.pos \in Nat /\ rd.upTo \in Nat /\ rd.upTo <= last /\ last <= Len(log)
      /\ rd.pos < rd.upTo /\ rd.pos < Visible.seq + BatchRecords
      /\ rd.epoch = EpochIn(log, rd.pos)
      /\ Visible.rows \cup rd.ids = TakenTo(log, rd.pos)
      /\ IsLog(log) /\ Len(log) \in Nat /\ last \in Nat
      /\ Visible.seq \in Nat /\ BatchRecords \in Nat
  BY <1>1, LogFacts, VisibleFacts, HistoryAssumption
     DEF TypeOK, RoundInv, AcceptedTo, EpochAfter
<1>3. i \in 1..Len(log) /\ i - 1 = rd.pos /\ rd.pos < Len(log)
  BY <1>2
<1>4. Taken(i) = IF TakenIn(log, i) THEN {log[i].op} ELSE {}
  BY <1>2, <1>3 DEF Taken, TakenIn
<1>5. Taken(i) \subseteq Ids
  BY <1>3, <1>4, LogFacts DEF TakenIn
<1>6. EpochBehind(i) = EpochIn(log, i)
  <2>1. EpochIn(log, rd.pos + 1) =
            IF log[rd.pos + 1].kind = "fence" /\ log[rd.pos + 1].epoch > EpochIn(log, rd.pos)
            THEN log[rd.pos + 1].epoch ELSE EpochIn(log, rd.pos)
    BY <1>2, <1>3, EpochStep
  <2>. QED
    BY <1>2, <2>1 DEF EpochBehind
<1>7. EpochIn(log, i) \in Nat
  <2>1. i \in 0..Len(log)
    BY <1>3
  <2>. QED
    BY <1>2, <2>1, EpochFacts
<1>8. Visible.rows \cup (rd.ids \cup Taken(i)) = TakenTo(log, i)
  <2>1. TakenTo(log, rd.pos + 1) =
            TakenTo(log, rd.pos) \cup
            (IF TakenIn(log, rd.pos + 1) THEN {log[rd.pos + 1].op} ELSE {})
    BY <1>2, <1>3, TakenStep
  <2>. QED
    BY <1>2, <1>4, <2>1
<1>9. /\ rd'.pos = i /\ rd'.epoch = EpochIn(log, i) /\ rd'.ids = rd.ids \cup Taken(i)
      /\ rd'.upTo = rd.upTo
      /\ rd' \in [pos : Nat, epoch : Nat, ids : SUBSET Ids, upTo : Nat]
  <2>1. /\ i \in Nat /\ EpochBehind(i) \in Nat /\ Taken(i) \in SUBSET Ids
        /\ rd' = [rd EXCEPT !.pos = i, !.ids = @ \cup Taken(i), !.epoch = EpochBehind(i)]
    BY <1>1, <1>2, <1>5, <1>6, <1>7
  <2>. HIDE DEF i
  <2>. QED
    BY <1>2, <1>6, <2>1, BatchAfter
<1>10. TypeOK'
  BY SMTT(30), <1>1, <1>2, <1>9 DEF TypeOK
<1>11. IndexIsPrefix'
  BY <1>1 DEF IndexIsPrefix, AcceptedTo, EpochAfter
<1>12. RoundInv'
  <2>1. i <= rd.upTo /\ Visible.seq <= i /\ i \in Nat
    BY <1>1, <1>2 DEF RoundInv
  <2>2. task' \in {"read", "write"} /\ (task' = "read" => i < rd.upTo /\ i < Visible.seq + BatchRecords)
    <3>1. i <= Visible.seq + BatchRecords
      BY <1>2
    <3>. QED
      BY <1>1, <1>2, <2>1, <3>1 DEF BatchEnds
  <2>3. rd'.epoch = EpochIn(log', rd'.pos) /\ Visible'.rows \cup rd'.ids = TakenTo(log', rd'.pos)
    BY <1>1, <1>8, <1>9
  <2>. QED
    BY <1>1, <1>9, <2>1, <2>2, <2>3 DEF RoundInv, AcceptedTo, EpochAfter
<1>13. PublishedInv'
  BY <1>1 DEF PublishedInv
<1>. QED
  BY <1>10, <1>11, <1>12, <1>13

LEMMA MaterializesStep ==
    ASSUME IndexInv, Materializes
    PROVE  IndexInv' /\ Visible.rows \subseteq Visible'.rows
<1>. USE DEF IndexInv
<1>1. /\ task = "write" /\ task' = "publish"
      /\ UNCHANGED <<log, last, ckpt, legacy, rd, published, req, faults>>
      /\ lsm' = Append(lsm, Written)
  BY DEF Materializes, logVars
<1>2. /\ lsm \in Seq(Contents) /\ Len(lsm) \in Nat \ {0} /\ Visible \in Contents
      /\ Visible.seq \in Nat /\ Visible.rows \subseteq Ids /\ Visible.fmt \in 0..2
  BY VisibleFacts
<1>3. /\ rd.pos \in Nat /\ rd.epoch \in Nat /\ rd.ids \subseteq Ids /\ rd.pos <= rd.upTo
      /\ rd.upTo \in Nat /\ rd.upTo <= last /\ last \in Nat
      /\ rd.epoch = EpochAfter(rd.pos)
      /\ Visible.rows \cup rd.ids = AcceptedTo(rd.pos)
  BY <1>1, LogFacts DEF TypeOK, RoundInv
<1>4. /\ Written \in Contents /\ Written.seq = rd.pos /\ Written.epoch = rd.epoch
      /\ Written.rows = Visible.rows \cup rd.ids /\ Written.fmt = Visible.fmt
  BY <1>2, <1>3 DEF Written, Contents
<1>5. /\ lsm' \in Seq(Contents) /\ Len(lsm') = Len(lsm) + 1 /\ lsm' # << >>
      /\ lsm'[Len(lsm) + 1] = Written
      /\ \A i \in 1..Len(lsm) : lsm'[i] = lsm[i]
      /\ \A i \in 1..Len(lsm') : i \in 1..Len(lsm) \/ i = Len(lsm) + 1
  <2>. HIDE DEF Written
  <2>. QED
    BY <1>1, <1>2, <1>4
<1>6. Visible' = Written
  BY <1>5 DEF Visible
<1>7. Visible.fmt # 0
  <2>1. Len(lsm) \in 1..Len(lsm)
    BY <1>2
  <2>. QED
    BY <1>1, <2>1 DEF PublishedInv, Visible
<1>8. rd.pos <= rd.pos + BatchRecords /\ rd.pos <= last
  BY <1>3, HistoryAssumption
<1>9. TypeOK'
  <2>1. \A i \in 1..Len(lsm') : lsm'[i].seq <= last
    BY <1>4, <1>5, <1>8 DEF TypeOK
  <2>2. /\ task' \in {"down", "idle", "read", "write", "publish", "end"}
        /\ rd'.pos <= Visible'.seq + BatchRecords
    BY <1>1, <1>4, <1>6, <1>8
  <2>. QED
    BY <1>1, <1>5, <2>1, <2>2 DEF TypeOK
<1>10. IndexIsPrefix'
  <2>1. ASSUME NEW i \in 1..Len(lsm'), lsm'[i].fmt # 0
        PROVE  lsm'[i].rows = TakenTo(log, lsm'[i].seq) /\ lsm'[i].epoch = EpochIn(log, lsm'[i].seq)
    <3>1. CASE i \in 1..Len(lsm)
      BY <1>5, <2>1, <3>1 DEF IndexIsPrefix, AcceptedTo, EpochAfter
    <3>2. CASE i = Len(lsm) + 1
      BY <1>3, <1>4, <1>5, <3>2 DEF AcceptedTo, EpochAfter
    <3>. QED
      BY <1>5, <2>1, <3>1, <3>2
  <2>. QED
    BY <1>1, <2>1 DEF IndexIsPrefix, AcceptedTo, EpochAfter
<1>11. RoundInv'
  BY <1>1, <1>3, <1>4, <1>6 DEF RoundInv
<1>12. PublishedInv'
  <2>1. \A i \in 1..Len(lsm') : lsm'[i].fmt # 0
    BY <1>1, <1>4, <1>5, <1>7 DEF PublishedInv
  <2>2. published <= rd.pos
    <3>1. Visible.seq <= rd.pos
      BY <1>1 DEF RoundInv
    <3>. QED
      BY <1>1, <1>2, <1>3, <3>1 DEF PublishedInv, TypeOK
  <2>. QED
    BY <1>1, <1>4, <1>6, <2>1, <2>2 DEF PublishedInv
<1>. QED
  BY <1>4, <1>6, <1>9, <1>10, <1>11, <1>12

LEMMA PublishesStep ==
    ASSUME IndexInv, Publishes
    PROVE  IndexInv'
<1>. USE DEF IndexInv
<1>1. /\ task = "publish" /\ UNCHANGED <<log, last, ckpt, legacy, lsm, req, faults>>
      /\ published' = rd.pos /\ rd' = [rd EXCEPT !.ids = {}]
      /\ task' = IF rd.pos = rd.upTo THEN "end" ELSE "read"
      /\ Visible' = Visible
  BY DEF Publishes, Reached, logVars, Visible
<1>2. /\ rd.pos = Visible.seq /\ rd.epoch = Visible.epoch /\ rd.pos <= rd.upTo
      /\ rd.pos \in Nat /\ rd.upTo \in Nat /\ rd.upTo <= last /\ last \in Nat
      /\ Visible.seq \in Nat /\ BatchRecords \in Nat \ {0} /\ Len(lsm) \in 1..Len(lsm)
  BY <1>1, LogFacts, VisibleFacts, HistoryAssumption DEF RoundInv, TypeOK
<1>3. /\ rd'.pos = rd.pos /\ rd'.epoch = rd.epoch /\ rd'.ids = {} /\ rd'.upTo = rd.upTo
      /\ rd' \in [pos : Nat, epoch : Nat, ids : SUBSET Ids, upTo : Nat]
  BY <1>1 DEF TypeOK
<1>4. TypeOK'
  BY <1>1, <1>2, <1>3 DEF TypeOK
<1>5. IndexIsPrefix'
  BY <1>1 DEF IndexIsPrefix, AcceptedTo, EpochAfter
<1>6. RoundInv'
  <2>1. Visible.rows = AcceptedTo(Visible.seq) /\ Visible.epoch = EpochAfter(Visible.seq)
    BY <1>1, <1>2 DEF IndexIsPrefix, PublishedInv, Visible
  <2>. QED
    BY <1>1, <1>2, <1>3, <2>1 DEF RoundInv, AcceptedTo, EpochAfter
<1>7. PublishedInv'
  BY <1>1, <1>2 DEF PublishedInv
<1>. QED
  BY <1>4, <1>5, <1>6, <1>7

LEMMA FaultType ==
    ASSUME TypeOK, faults' = faults \/ Fault
    PROVE  faults' \in 0..MaxFaults
BY HistoryAssumption DEF TypeOK, Fault

LEMMA FailsStep ==
    ASSUME IndexInv, TailFails
    PROVE  IndexInv'
<1>. USE DEF IndexInv
<1>1. /\ task \in {"read", "write"} /\ task' = "end"
      /\ UNCHANGED <<log, last, ckpt, legacy, lsm, rd, published, req>>
      /\ faults' \in 0..MaxFaults /\ Visible' = Visible
  BY FaultType DEF TailFails, logVars, Visible
<1>2. TypeOK'
  BY <1>1 DEF TypeOK
<1>3. IndexIsPrefix'
  BY <1>1 DEF IndexIsPrefix, AcceptedTo, EpochAfter
<1>4. RoundInv'
  BY <1>1 DEF RoundInv
<1>5. PublishedInv'
  BY <1>1 DEF PublishedInv
<1>. QED
  BY <1>2, <1>3, <1>4, <1>5

\* An index cut down to one state with the rows it shows.
LEMMA SyncedStep ==
    ASSUME IndexInv, NEW c \in Contents, lsm' = <<c>>,
           UNCHANGED <<log, last, ckpt, legacy, req>>,
           c.fmt # 0, c.seq <= last,
           c.rows = AcceptedTo(c.seq), c.epoch = EpochAfter(c.seq),
           task' = "idle", rd' = Idle, published' = c.seq, faults' \in 0..MaxFaults
    PROVE  IndexInv'
<1>. USE DEF IndexInv
<1>1. /\ lsm' \in Seq(Contents) /\ Len(lsm') = 1 /\ lsm'[1] = c /\ lsm' # << >>
      /\ \A i \in 1..Len(lsm') : i = 1
  OBVIOUS
<1>2. Visible' = c
  BY <1>1 DEF Visible
<1>3. c.seq \in Nat /\ last \in Nat /\ BatchRecords \in Nat
  BY LogFacts, HistoryAssumption DEF Contents
<1>4. /\ rd' \in [pos : Nat, epoch : Nat, ids : SUBSET Ids, upTo : Nat]
      /\ rd'.pos = 0 /\ rd'.upTo = 0
  BY DEF Idle
<1>5. TypeOK'
  BY <1>1, <1>2, <1>3, <1>4 DEF TypeOK
<1>6. IndexIsPrefix'
  BY <1>1 DEF IndexIsPrefix, AcceptedTo, EpochAfter
<1>7. RoundInv'
  BY <1>4 DEF RoundInv
<1>8. PublishedInv'
  BY <1>1, <1>2, <1>3 DEF PublishedInv
<1>. QED
  BY <1>5, <1>6, <1>7, <1>8

LEMMA EndsStep ==
    ASSUME IndexInv, TailEnds
    PROVE  IndexInv' /\ Visible'.rows = Visible.rows
<1>. USE DEF IndexInv
<1>1. /\ task = "end" /\ task' = "idle" /\ rd' = Idle
      /\ UNCHANGED <<log, last, ckpt, legacy, published, req>>
      /\ lsm' = <<[Visible EXCEPT !.fmt = 2]>> \/ UNCHANGED lsm
      /\ faults' = faults \/ Fault
  BY DEF TailEnds, logVars
<1>2. faults' \in 0..MaxFaults
  BY <1>1, FaultType
<1>3. /\ Len(lsm) \in 1..Len(lsm) /\ Visible \in Contents /\ Visible.seq <= last
      /\ Visible.seq \in Nat /\ last \in Nat /\ BatchRecords \in Nat
  BY VisibleFacts, LogFacts, HistoryAssumption
<1>4. /\ Visible.fmt # 0 /\ published = Visible.seq
      /\ Visible.rows = AcceptedTo(Visible.seq) /\ Visible.epoch = EpochAfter(Visible.seq)
  BY <1>1, <1>3 DEF IndexIsPrefix, PublishedInv, Visible
<1>5. CASE lsm' = <<[Visible EXCEPT !.fmt = 2]>>
  <2>1. PICK c : c = [Visible EXCEPT !.fmt = 2]
    OBVIOUS
  <2>2. /\ c \in Contents /\ c.fmt = 2 /\ c.seq = Visible.seq /\ c.epoch = Visible.epoch
        /\ c.rows = Visible.rows
    BY <1>3, <2>1 DEF Contents
  <2>3. Visible' = c
    BY <1>5, <2>1 DEF Visible
  <2>4. /\ c.fmt # 0 /\ c.seq <= last /\ published' = c.seq
        /\ c.rows = AcceptedTo(c.seq) /\ c.epoch = EpochAfter(c.seq)
    BY <1>1, <1>3, <1>4, <2>2
  <2>5. lsm' = <<c>>
    BY <1>5, <2>1
  <2>6. IndexInv'
    BY <1>1, <1>2, <2>2, <2>4, <2>5, SyncedStep
  <2>. QED
    BY <2>2, <2>3, <2>6
<1>6. CASE UNCHANGED lsm
  <2>1. Visible' = Visible
    BY <1>6 DEF Visible
  <2>2. /\ rd' \in [pos : Nat, epoch : Nat, ids : SUBSET Ids, upTo : Nat]
        /\ rd'.pos = 0 /\ rd'.upTo = 0
    BY <1>1 DEF Idle
  <2>3. TypeOK'
    BY <1>1, <1>2, <1>3, <1>6, <2>1, <2>2 DEF TypeOK
  <2>4. IndexIsPrefix'
    BY <1>1, <1>6 DEF IndexIsPrefix, AcceptedTo, EpochAfter
  <2>5. RoundInv'
    BY <1>1, <2>2 DEF RoundInv
  <2>6. PublishedInv'
    BY <1>1, <1>6, <2>1 DEF PublishedInv
  <2>. QED
    BY <2>1, <2>3, <2>4, <2>5, <2>6
<1>. QED
  BY <1>1, <1>5, <1>6

\* An index that is filled again from the first record.
LEMMA FromTheFirst ==
    ASSUME NEW v \in Contents, NEW c, c = [v EXCEPT !.seq = 0, !.epoch = 0, !.fmt = 1]
    PROVE  /\ c \in Contents /\ c.fmt = 1 /\ c.seq = 0 /\ c.epoch = 0 /\ c.rows = v.rows
<1>1. v \in [seq : Nat, epoch : Nat, rows : SUBSET Ids, fmt : 0..2] /\ 1 \in 0..2 /\ 0 \in Nat
  BY DEF Contents
<1>2. c \in [seq : Nat, epoch : Nat, rows : SUBSET Ids, fmt : 0..2]
  BY <1>1
<1>3. c.fmt = 1 /\ c.seq = 0 /\ c.epoch = 0 /\ c.rows = v.rows
  BY <1>1
<1>. QED
  BY <1>2, <1>3 DEF Contents

LEMMA StartStep ==
    ASSUME IndexInv, Start
    PROVE  IndexInv' /\ Visible.rows \subseteq Visible'.rows
<1>. USE DEF IndexInv
<1>1. /\ task = "down" /\ task' = "idle" /\ UNCHANGED <<log, last, ckpt, legacy, rd, req, faults>>
      /\ lsm' = <<IF Visible.fmt = 0
                  THEN [Visible EXCEPT !.seq = 0, !.epoch = 0, !.fmt = 1]
                  ELSE Visible>>
      /\ published' = lsm'[1].seq
  BY DEF Start, logVars
<1>2. PICK c : c = IF Visible.fmt = 0 THEN [Visible EXCEPT !.seq = 0, !.epoch = 0, !.fmt = 1]
                   ELSE Visible
  OBVIOUS
<1>3. /\ Len(lsm) \in 1..Len(lsm) /\ Visible \in Contents /\ Visible.seq <= last
      /\ Visible.fmt \in 0..2 /\ last \in Nat
  BY VisibleFacts, LogFacts
<1>4. /\ Visible.fmt # 0 => /\ Visible.rows = AcceptedTo(Visible.seq)
                           /\ Visible.epoch = EpochAfter(Visible.seq)
      /\ Visible.fmt = 0 => Visible.rows = {}
  BY <1>1, <1>3 DEF IndexIsPrefix, PublishedInv, Visible
<1>5. /\ c \in Contents /\ c.fmt # 0 /\ c.seq <= last /\ c.rows = Visible.rows
      /\ c.rows = AcceptedTo(c.seq) /\ c.epoch = EpochAfter(c.seq)
  <2>1. CASE Visible.fmt = 0
    <3>1. c = [Visible EXCEPT !.seq = 0, !.epoch = 0, !.fmt = 1]
      BY <1>2, <2>1
    <3>2. /\ c \in Contents /\ c.fmt = 1 /\ c.seq = 0 /\ c.epoch = 0 /\ c.rows = Visible.rows
      BY <1>3, <3>1, FromTheFirst
    <3>3. AcceptedTo(0) = {} /\ EpochAfter(0) = 0
      BY NothingAccepted
    <3>4. 0 <= last
      BY <1>3
    <3>. QED
      BY <1>4, <2>1, <3>2, <3>3, <3>4
  <2>2. CASE Visible.fmt # 0
    BY <1>2, <1>3, <1>4, <2>2
  <2>. QED
    BY <2>1, <2>2
<1>6. lsm' = <<c>> /\ lsm'[1] = c /\ Visible' = c
  BY <1>1, <1>2 DEF Visible
<1>7. rd' = Idle /\ faults' \in 0..MaxFaults
  BY <1>1 DEF RoundInv, TypeOK
<1>. QED
  BY <1>1, <1>5, <1>6, <1>7, SyncedStep

LEMMA CrashStep ==
    ASSUME IndexInv, Crash, ReqType'
    PROVE  IndexInv'
<1>. USE DEF IndexInv
<1>1. /\ task # "down" /\ task' = "down" /\ rd' = Idle /\ published' = 0
      /\ UNCHANGED <<log, last, ckpt, legacy>> /\ faults' \in 0..MaxFaults
  BY FaultType DEF Crash, logVars
<1>2. PICK k \in 1..Len(lsm) : lsm' = SubSeq(lsm, 1, k)
  BY DEF Crash
<1>3. lsm \in Seq(Contents) /\ Len(lsm) \in Nat /\ last \in Nat /\ BatchRecords \in Nat
  BY VisibleFacts, LogFacts, HistoryAssumption
<1>4. /\ lsm' \in Seq(Contents) /\ Len(lsm') = k /\ lsm' # << >>
      /\ \A i \in 1..Len(lsm') : i \in 1..Len(lsm) /\ lsm'[i] = lsm[i]
  BY <1>2, <1>3
<1>5. /\ rd' \in [pos : Nat, epoch : Nat, ids : SUBSET Ids, upTo : Nat]
      /\ rd'.pos = 0 /\ rd'.upTo = 0
  BY <1>1 DEF Idle
<1>6. Visible' \in Contents /\ Visible'.seq \in Nat
  <2>1. Len(lsm') \in 1..Len(lsm')
    BY <1>3, <1>4
  <2>2. Visible' \in Contents
    BY <1>4, <2>1 DEF Visible
  <2>. QED
    BY <2>2 DEF Contents
<1>7. TypeOK'
  <2>1. \A i \in 1..Len(lsm') : lsm'[i].seq <= last'
    BY <1>1, <1>4 DEF TypeOK
  <2>2. rd'.pos <= Visible'.seq + BatchRecords /\ rd'.upTo <= last' /\ published' \in 0..last'
    BY <1>1, <1>3, <1>5, <1>6
  <2>. QED
    BY <1>1, <1>4, <1>5, <2>1, <2>2 DEF TypeOK, ReqType
<1>8. IndexIsPrefix'
  BY <1>1, <1>4 DEF IndexIsPrefix, AcceptedTo, EpochAfter
<1>9. RoundInv'
  BY <1>1, <1>5 DEF RoundInv
<1>10. PublishedInv'
  BY <1>1, <1>4, <1>6 DEF PublishedInv
<1>. QED
  BY <1>7, <1>8, <1>9, <1>10

LEMMA LogStep ==
    ASSUME IndexInv, LogGrows \/ CheckpointAdvances
    PROVE  IndexInv'
<1>1. /\ log' = log /\ legacy' = legacy /\ UNCHANGED tailVars /\ UNCHANGED req
      /\ UNCHANGED faults
  BY DEF LogGrows, CheckpointAdvances
<1>2. /\ last \in Nat /\ Len(log) \in Nat /\ last <= Len(log) /\ ckpt \in Nat /\ ckpt <= last
  BY LogFacts DEF IndexInv
<1>3. last' \in 0..Len(log) /\ last <= last' /\ ckpt' \in 0..last'
  BY <1>2 DEF LogGrows, CheckpointAdvances
<1>4. ReqType' /\ faults' \in 0..MaxFaults
  BY <1>1 DEF IndexInv, TypeOK, ReqType
<1>. QED
  BY <1>1, <1>3, <1>4, IndexFrame

LEMMA RequestStep ==
    ASSUME IndexInv, ReqType', UNCHANGED <<logVars, tailVars, faults>>
    PROVE  IndexInv'
<1>1. /\ log' = log /\ legacy' = legacy /\ UNCHANGED tailVars /\ last' = last /\ ckpt' = ckpt
      /\ faults' = faults
  BY DEF logVars
<1>2. /\ last' \in 0..Len(log) /\ last <= last' /\ ckpt' \in 0..last' /\ faults' \in 0..MaxFaults
  BY <1>1, LogFacts DEF IndexInv, TypeOK
<1>. QED
  BY <1>1, <1>2, IndexFrame

LEMMA IndexInit ==
    ASSUME Init
    PROVE  IndexInv
<1>1. /\ log \in Logs /\ last \in 0..Len(log) /\ ckpt = last /\ legacy = AcceptedTo(last)
      /\ task = "down" /\ rd = Idle /\ published = 0 /\ req = NoRequest /\ faults = 0
      /\ lsm = <<[seq |-> last, epoch |-> EpochAfter(last), rows |-> {}, fmt |-> 0]>>
  BY DEF Init
<1>2. IsLog(log) /\ Len(log) \in Nat
  BY <1>1, HistoryAssumption DEF IsLog
<1>3. EpochAfter(last) \in Nat /\ AcceptedTo(last) \subseteq Ids
  BY <1>1, <1>2, EpochFacts, HistoryAssumption DEF EpochAfter, AcceptedTo, TakenTo, TakenIn
<1>4. PICK c : c = [seq |-> last, epoch |-> EpochAfter(last), rows |-> {}, fmt |-> 0]
  OBVIOUS
<1>5. c \in Contents /\ c.seq = last /\ c.rows = {} /\ c.fmt = 0
  BY <1>1, <1>2, <1>3, <1>4 DEF Contents
<1>6. /\ lsm \in Seq(Contents) /\ Len(lsm) = 1 /\ lsm[1] = c /\ lsm # << >>
      /\ \A i \in 1..Len(lsm) : i = 1
  BY <1>1, <1>4, <1>5
<1>7. Visible = c
  BY <1>6 DEF Visible
<1>8. /\ rd \in [pos : Nat, epoch : Nat, ids : SUBSET Ids, upTo : Nat]
      /\ rd.pos = 0 /\ rd.upTo = 0
  BY <1>1 DEF Idle
<1>9. last \in Nat /\ BatchRecords \in Nat /\ MaxFaults \in Nat
  BY <1>1, <1>2, HistoryAssumption
<1>10. ReqType
  BY <1>1 DEF ReqType, NoRequest
<1>11. TypeOK
  <2>1. \A i \in 1..Len(lsm) : lsm[i].seq <= last
    BY <1>5, <1>6, <1>9
  <2>2. rd.pos <= Visible.seq + BatchRecords /\ rd.upTo <= last
    BY <1>5, <1>7, <1>8, <1>9
  <2>. QED
    BY <1>1, <1>3, <1>6, <1>8, <1>9, <1>10, <2>1, <2>2 DEF TypeOK, ReqType
<1>12. IndexIsPrefix
  BY <1>5, <1>6 DEF IndexIsPrefix
<1>13. RoundInv
  BY <1>1, <1>8 DEF RoundInv
<1>14. PublishedInv
  BY <1>1, <1>5, <1>6, <1>7, <1>9 DEF PublishedInv
<1>. QED
  BY <1>11, <1>12, <1>13, <1>14 DEF IndexInv

-----------------------------------------------------------------------------
(* Pages *)

\* The first elements of a set, as many as a page takes.
Below(S, x) == {y \in S : y < x}
FirstOf(S) == {x \in S : Cardinality(Below(S, x)) < Limit}

\* The number of smaller elements grows along the set.
LEMMA Ranks ==
    ASSUME NEW S \in SUBSET Nat, IsFiniteSet(S)
    PROVE  /\ \A x \in S : Cardinality(Below(S, x)) \in Nat
           /\ \A x \in S, y \in S :
                 x < y => Cardinality(Below(S, x)) < Cardinality(Below(S, y))
<1>1. ASSUME NEW x \in S
      PROVE  IsFiniteSet(Below(S, x)) /\ Cardinality(Below(S, x)) \in Nat
  <2>1. Below(S, x) \in SUBSET S
    BY DEF Below
  <2>2. IsFiniteSet(Below(S, x))
    BY <2>1, FS_Subset
  <2>. QED
    BY <2>2, FS_CardinalityType
<1>2. ASSUME NEW x \in S, NEW y \in S, x < y
      PROVE  Cardinality(Below(S, x)) < Cardinality(Below(S, y))
  <2>1. x \notin Below(S, x) /\ Below(S, x) \cup {x} \in SUBSET Below(S, y)
    <3>1. x \in Nat /\ y \in Nat /\ ~(x < x) /\ \A z \in Nat : z < x => z < y
      BY <1>2
    <3>2. \A z \in S : z \in Nat
      OBVIOUS
    <3>. QED
      BY <1>2, <3>1, <3>2 DEF Below
  <2>2. /\ IsFiniteSet(Below(S, x)) /\ IsFiniteSet(Below(S, y))
        /\ Cardinality(Below(S, x)) \in Nat /\ Cardinality(Below(S, y)) \in Nat
    BY <1>1
  <2>3. Cardinality(Below(S, x) \cup {x}) = Cardinality(Below(S, x)) + 1
    BY <2>1, <2>2, FS_AddElement
  <2>4. Cardinality(Below(S, x) \cup {x}) <= Cardinality(Below(S, y))
    BY <2>1, <2>2, FS_Subset
  <2>. QED
    BY <2>2, <2>3, <2>4
<1>. QED
  BY <1>1, <1>2

\* A page of a set begins with its smallest element, leaves no gap and has a last
\* element if it has any; it is full unless it holds the whole set.
LEMMA PageFacts ==
    ASSUME NEW S \in SUBSET Nat, IsFiniteSet(S)
    PROVE  /\ FirstOf(S) \subseteq S
           /\ \A x \in S, y \in FirstOf(S) : x < y => x \in FirstOf(S)
           /\ FirstOf(S) # {} => \E m \in FirstOf(S) : \A y \in FirstOf(S) : y <= m
           /\ Cardinality(FirstOf(S)) # Limit => FirstOf(S) = S
           /\ FirstOf(S) = {} => Cardinality(FirstOf(S)) # Limit
<1>0. Limit \in Nat \ {0}
  BY HistoryAssumption
<1>1. FirstOf(S) \subseteq S
  BY DEF FirstOf
<1>2. ASSUME NEW x \in S, NEW y \in FirstOf(S), x < y
      PROVE  x \in FirstOf(S)
  <2>1. y \in S /\ Cardinality(Below(S, y)) < Limit
    BY DEF FirstOf
  <2>2. /\ Cardinality(Below(S, x)) \in Nat /\ Cardinality(Below(S, y)) \in Nat
        /\ Cardinality(Below(S, x)) < Cardinality(Below(S, y))
    BY <1>2, <2>1, Ranks
  <2>. QED
    BY <1>0, <2>1, <2>2 DEF FirstOf
<1>3. ASSUME FirstOf(S) # {}
      PROVE  \E m \in FirstOf(S) : \A y \in FirstOf(S) : y <= m
  <2>. DEFINE left(y) == Limit - Cardinality(Below(S, y))
              Lefts == {left(y) : y \in FirstOf(S)}
  <2>1. \A y \in FirstOf(S) : left(y) \in Nat
    BY <1>0, <1>1, Ranks DEF FirstOf
  <2>2. Lefts \in SUBSET Nat /\ Lefts # {}
    BY <1>3, <2>1
  <2>3. PICK n \in Lefts : \A k \in Lefts : n <= k
    <3>. HIDE DEF Lefts
    <3>. QED
      BY <2>2, LeastOf
  <2>4. PICK m \in FirstOf(S) : n = left(m)
    BY <2>3
  <2>5. ASSUME NEW y \in FirstOf(S)
        PROVE  y <= m
    <3>1. left(m) <= left(y)
      BY <2>3, <2>4
    <3>2. /\ m \in S /\ y \in S /\ m \in Nat /\ y \in Nat
          /\ Cardinality(Below(S, m)) \in Nat /\ Cardinality(Below(S, y)) \in Nat
          /\ m < y => Cardinality(Below(S, m)) < Cardinality(Below(S, y))
      BY <1>1, Ranks
    <3>. QED
      BY <1>0, <3>1, <3>2
  <2>. QED
    BY <2>5
<1>4. ASSUME FirstOf(S) # S
      PROVE  Cardinality(FirstOf(S)) = Limit
  <2>1. S \ FirstOf(S) \in SUBSET Nat /\ S \ FirstOf(S) # {}
    BY <1>1, <1>4
  <2>2. PICK x \in S \ FirstOf(S) : \A z \in S \ FirstOf(S) : x <= z
    BY <2>1, LeastOf
  <2>3. Below(S, x) = FirstOf(S)
    <3>1. ASSUME NEW z \in Below(S, x)
          PROVE  z \in FirstOf(S)
      BY <2>2 DEF Below
    <3>2. ASSUME NEW z \in FirstOf(S)
          PROVE  z \in Below(S, x)
      <4>1. z \in S /\ x \in Nat /\ z \in Nat /\ z # x
        BY <1>1, <2>2
      <4>2. ~(x < z)
        BY <1>2, <2>2
      <4>. QED
        BY <4>1, <4>2 DEF Below
    <3>. QED
      BY <3>1, <3>2
  <2>4. Cardinality(FirstOf(S)) \in Nat /\ Cardinality(FirstOf(S)) >= Limit
    BY <1>0, <2>2, <2>3, Ranks DEF FirstOf
  <2>5. FirstOf(S) # {}
    BY <1>0, <2>4, FS_EmptySet
  <2>6. PICK m \in FirstOf(S) : \A y \in FirstOf(S) : y <= m
    BY <1>3, <2>5
  <2>7. FirstOf(S) = Below(S, m) \cup {m} /\ m \notin Below(S, m)
    <3>1. m \in Nat /\ m \in S /\ FirstOf(S) \subseteq Nat
      BY <1>1
    <3>2. \A y \in S : y < m => y \in FirstOf(S)
      BY <1>2, <2>6
    <3>3. ASSUME NEW z \in FirstOf(S), z # m
          PROVE  z < m
      BY <2>6, <3>1, <3>3
    <3>4. ~(m < m)
      BY <3>1
    <3>5. \A z \in FirstOf(S) : z \in S /\ (z = m \/ z < m)
      BY <1>1, <3>3
    <3>6. \A z : z \in Below(S, m) <=> z \in S /\ z < m
      BY DEF Below
    <3>. QED
      BY <2>6, <3>2, <3>4, <3>5, <3>6, Zenon
  <2>8. IsFiniteSet(Below(S, m)) /\ Cardinality(Below(S, m)) \in Nat
    <3>1. Below(S, m) \in SUBSET S
      BY DEF Below
    <3>. QED
      BY <3>1, FS_Subset, FS_CardinalityType
  <2>9. Cardinality(FirstOf(S)) = Cardinality(Below(S, m)) + 1
    BY <2>7, <2>8, FS_AddElement
  <2>10. Cardinality(Below(S, m)) < Limit
    BY <2>6 DEF FirstOf
  <2>. QED
    BY <1>0, <2>4, <2>8, <2>9, <2>10
<1>5. FirstOf(S) = {} => Cardinality(FirstOf(S)) # Limit
  BY <1>0, FS_EmptySet
<1>. QED
  BY <1>1, <1>2, <1>3, <1>4, <1>5

-----------------------------------------------------------------------------
(* Reads *)

ReadInv == RequestInv /\ TraversalIsComplete /\ OneIsNotMissed

\* The index a running node publishes holds what the checkpoint covers.
LEMMA GuardIsSound ==
    ASSUME IndexInv
    PROVE  FailClosed
<1>. USE DEF IndexInv
<1>1. SUFFICES ASSUME Complete
               PROVE  AcceptedTo(ckpt) \subseteq Visible.rows
  BY DEF FailClosed
<1>2. /\ task # "down" /\ ckpt <= published /\ published <= Visible.seq /\ published \in Nat
      /\ ckpt \in Nat /\ Visible.seq \in Nat /\ Visible.seq <= last /\ last \in Nat
      /\ Len(lsm) \in 1..Len(lsm)
  BY <1>1, LogFacts, VisibleFacts DEF Complete, PublishedInv, TypeOK
<1>3. Visible.rows = AcceptedTo(Visible.seq)
  BY <1>2 DEF IndexIsPrefix, PublishedInv, Visible
<1>4. Visible.seq \in 0..last /\ ckpt \in 0..Visible.seq
  BY <1>2
<1>. QED
  BY <1>3, <1>4, AcceptedFacts

\* More rows and a later checkpoint do a request no harm.
LEMMA ReadFrame ==
    ASSUME IndexInv, ReadInv, UNCHANGED req, log' = log, last' \in 0..Len(log),
           ckpt' \in ckpt..last', IndexInv',
           req.kind = "one" /\ req.pc = "allowed" => Visible.rows \subseteq Visible'.rows
    PROVE  ReadInv'
<1>1. ckpt' \in 0..last' /\ ckpt \in 0..ckpt' /\ AcceptedTo(ckpt)' = TakenTo(log, ckpt')
  BY LogFacts DEF IndexInv, AcceptedTo
<1>2. /\ ckpt' \in Nat /\ ckpt \in Nat /\ ckpt <= ckpt' /\ ckpt' <= Len(log) /\ IsLog(log)
  BY <1>1, LogFacts DEF IndexInv
<1>3. TakenTo(log, ckpt) \subseteq TakenTo(log, ckpt')
  BY <1>2, Grows
<1>4. RequestInv'
  BY <1>1, <1>3 DEF ReadInv, RequestInv, AcceptedTo
<1>. QED
  BY <1>4 DEF ReadInv, TraversalIsComplete, OneIsNotMissed

LEMMA AskStep ==
    ASSUME IndexInv, ReadInv, NEW kind \in {"one", "batch", "page"}, NEW id \in Ids \cup {0},
           Ask(kind, id)
    PROVE  IndexInv' /\ ReadInv'
<1>. USE DEF IndexInv
<1>1. /\ UNCHANGED <<logVars, tailVars, faults>>
      /\ req' = [NoRequest EXCEPT !.kind = kind, !.pc = "asked", !.id = id,
                   !.owed = IF kind = "page" THEN AcceptedTo(ckpt)
                                             ELSE AcceptedTo(ckpt) \cap {id}]
  BY DEF Ask
<1>2. PICK owed : owed = IF kind = "page" THEN AcceptedTo(ckpt)
                                          ELSE AcceptedTo(ckpt) \cap {id}
  OBVIOUS
<1>3. AcceptedTo(ckpt) \subseteq Ids
  <2>1. ckpt \in 0..last
    BY DEF TypeOK
  <2>. QED
    BY <2>1, AcceptedFacts
<1>4. /\ req' = [kind |-> kind, pc |-> "asked", id |-> id, owed |-> owed,
                 cursor |-> 0, got |-> {}, twice |-> FALSE]
      /\ owed \subseteq AcceptedTo(ckpt) /\ owed \subseteq Ids
      /\ kind # "page" => owed \subseteq {id}
  BY <1>1, <1>2, <1>3 DEF NoRequest
<1>5. ReqType'
  BY <1>4 DEF ReqType
<1>6. IndexInv'
  BY <1>1, <1>5, RequestStep
<1>7. log' = log /\ ckpt' = ckpt
  BY <1>1 DEF logVars
<1>8. /\ req'.kind = kind /\ req'.pc = "asked" /\ req'.owed = owed /\ req'.id = id
      /\ req'.cursor = 0 /\ req'.got = {} /\ req'.twice = FALSE
  BY <1>4
<1>9. \A x \in Ids : ~(x <= 0)
  BY HistoryAssumption
<1>10. RequestInv'
  BY <1>4, <1>7, <1>8, <1>9 DEF RequestInv, AcceptedTo
<1>. QED
  BY <1>6, <1>8, <1>10 DEF ReadInv, TraversalIsComplete, OneIsNotMissed

\* A step of a request that changes where it stands and nothing else.
LEMMA RequestMoves ==
    ASSUME IndexInv, NEW pc \in {"allowed", "missed", "found", "notFound", "asked"},
           req' = [req EXCEPT !.pc = pc]
    PROVE  /\ ReqType'
           /\ req'.kind = req.kind /\ req'.pc = pc /\ req'.owed = req.owed /\ req'.id = req.id
           /\ req'.cursor = req.cursor /\ req'.got = req.got /\ req'.twice = req.twice
BY DEF ReqType, IndexInv, TypeOK

LEMMA LookStep ==
    ASSUME IndexInv, ReadInv, AllowOne \/ LookUpOne \/ LookUpBatch \/ AnswerBatch
    PROVE  IndexInv' /\ ReadInv'
<1>0. UNCHANGED <<logVars, tailVars, faults>>
  BY DEF AllowOne, LookUpOne, LookUpBatch, AnswerBatch
<1>1. log' = log /\ ckpt' = ckpt /\ Visible' = Visible
  BY <1>0 DEF logVars, tailVars, Visible
<1>2. CASE AllowOne
  <2>1. /\ req.kind = "one" /\ req.pc = "asked" /\ Complete
        /\ req' = [req EXCEPT !.pc = "allowed"]
    BY <1>2 DEF AllowOne
  <2>2. ReqType' /\ req'.kind = "one" /\ req'.pc = "allowed" /\ req'.owed = req.owed
        /\ req'.id = req.id /\ req'.twice = req.twice
    BY <2>1, RequestMoves
  <2>3. AcceptedTo(ckpt) \subseteq Visible.rows
    BY <2>1, GuardIsSound DEF FailClosed
  <2>4. RequestInv'
    BY <1>1, <2>1, <2>2, <2>3 DEF ReadInv, RequestInv, AcceptedTo
  <2>. QED
    BY <1>0, <2>2, <2>4, RequestStep DEF ReadInv, TraversalIsComplete, OneIsNotMissed
<1>3. CASE LookUpOne
  <2>1. PICK pc \in {"found", "notFound"} :
           /\ req' = [req EXCEPT !.pc = pc]
           /\ pc = "notFound" => req.id \notin Visible.rows
    BY <1>3 DEF LookUpOne, Stored
  <2>2. req.kind = "one" /\ req.pc = "allowed"
    BY <1>3 DEF LookUpOne
  <2>3. ReqType' /\ req'.kind = "one" /\ req'.pc = pc /\ req'.owed = req.owed
        /\ req'.id = req.id /\ req'.twice = req.twice
    BY <2>1, <2>2, RequestMoves
  <2>4. req.owed \subseteq {req.id} /\ req.owed \subseteq Visible.rows
    BY <2>2 DEF ReadInv, RequestInv
  <2>5. pc = "notFound" => req.owed = {}
    BY <2>1, <2>4
  <2>6. RequestInv'
    BY <1>1, <2>1, <2>2, <2>3 DEF ReadInv, RequestInv, AcceptedTo
  <2>. QED
    BY <1>0, <2>3, <2>5, <2>6, RequestStep DEF ReadInv, TraversalIsComplete, OneIsNotMissed
<1>4. CASE LookUpBatch \/ AnswerBatch
  <2>1. PICK pc \in {"found", "notFound", "missed", "asked"} : req' = [req EXCEPT !.pc = pc]
    BY <1>4 DEF LookUpBatch, AnswerBatch
  <2>2. req.kind = "batch"
    BY <1>4 DEF LookUpBatch, AnswerBatch
  <2>3. ReqType' /\ req'.kind = "batch" /\ req'.owed = req.owed /\ req'.twice = req.twice
    BY <2>1, <2>2, RequestMoves
  <2>4. RequestInv'
    BY <1>1, <2>2, <2>3 DEF ReadInv, RequestInv, AcceptedTo
  <2>. QED
    BY <1>0, <2>3, <2>4, RequestStep DEF ReadInv, TraversalIsComplete, OneIsNotMissed
<1>. QED
  BY <1>2, <1>3, <1>4

\* A page, and where it leaves the request.
LEMMA PageStep ==
    ASSUME IndexInv, ReadInv, ReadPage
    PROVE  IndexInv' /\ ReadInv'
<1>. USE DEF IndexInv
<1>1. PICK R : R = RestAfter(IF Visible.rows = {} THEN legacy ELSE Visible.rows, req.cursor)
  OBVIOUS
<1>2. /\ req.kind = "page" /\ req.pc = "asked" /\ Complete
      /\ UNCHANGED <<logVars, tailVars, faults>>
  BY DEF ReadPage
<1>3. /\ req.owed \subseteq Ids /\ req.got \subseteq Ids /\ req.cursor \in Ids \cup {0}
      /\ Ids \subseteq Nat /\ IsFiniteSet(Ids) /\ Limit \in Nat \ {0}
      /\ Visible.rows \subseteq Ids /\ legacy \subseteq Ids
  BY VisibleFacts, HistoryAssumption DEF TypeOK
<1>4. req.cursor \in Nat /\ \A id \in Ids \cup {0} : id \in Nat
  <2>1. 0 \in Nat /\ \A id \in Ids : id \in Nat
    BY <1>3
  <2>2. \A id \in Ids \cup {0} : id \in Nat
    BY <2>1
  <2>. QED
    BY <1>3, <2>2
<1>5. /\ \A id \in R : id \in Ids /\ id > req.cursor
      /\ \A id \in req.owed : id \in R \/ id <= req.cursor
      /\ R \in SUBSET Nat /\ IsFiniteSet(R)
  <2>1. \A id \in R : id \in Ids /\ id > req.cursor
    BY <1>1, <1>3 DEF RestAfter
  <2>2. req.owed \subseteq Visible.rows
    BY <1>2, GuardIsSound DEF FailClosed, ReadInv, RequestInv
  <2>3. ASSUME NEW id \in req.owed, id \notin R
        PROVE  id <= req.cursor
    <3>1. id \in Visible.rows
      BY <2>2
    <3>2. ~(id > req.cursor)
      BY <1>1, <2>3, <3>1 DEF RestAfter
    <3>3. id \in Nat /\ req.cursor \in Nat
      BY <1>4, <1>3
    <3>. QED
      BY <3>2, <3>3
  <2>4. R \in SUBSET Ids
    BY <2>1
  <2>. QED
    BY <1>3, <2>1, <2>3, <2>4, FS_Subset
<1>6. Page = FirstOf(R)
  BY <1>1 DEF Page, FirstOf, Below
<1>7. /\ FirstOf(R) \subseteq R
      /\ \A x \in R, y \in FirstOf(R) : x < y => x \in FirstOf(R)
      /\ FirstOf(R) # {} => \E m \in FirstOf(R) : \A y \in FirstOf(R) : y <= m
      /\ Cardinality(FirstOf(R)) # Limit => FirstOf(R) = R
      /\ FirstOf(R) = {} => Cardinality(FirstOf(R)) # Limit
  BY <1>5, PageFacts
<1>8. PICK P : P = FirstOf(R)
  OBVIOUS
<1>9. /\ P \subseteq R /\ P \subseteq Ids
      /\ \A x \in R, y \in P : x < y => x \in P
      /\ P # {} => \E m \in P : \A y \in P : y <= m
      /\ Cardinality(P) # Limit => P = R
      /\ P = {} => Cardinality(P) # Limit
  BY <1>5, <1>7, <1>8
<1>10. /\ ~req.twice /\ \A id \in req.got : id <= req.cursor
      /\ \A id \in req.owed : id <= req.cursor => id \in req.got
  BY <1>2 DEF ReadInv, RequestInv, TraversalIsComplete
<1>11. req.got \cap P = {}
  <2>1. ASSUME NEW id \in req.got, id \in P
        PROVE  FALSE
    <3>1. id <= req.cursor /\ id > req.cursor /\ id \in Nat /\ req.cursor \in Nat
      BY <1>4, <1>5, <1>9, <1>10, <2>1
    <3>. QED
      BY <3>1
  <2>. QED
    BY <2>1
<1>12. PICK full \in BOOLEAN : full <=> Cardinality(P) = Limit
  OBVIOUS
<1>. DEFINE pc == IF Cardinality(P) = Limit THEN "asked" ELSE "found"
            c == IF Cardinality(P) = Limit
                 THEN CHOOSE id \in P : \A other \in P : other <= id
                 ELSE req.cursor
<1>13. req' = [req EXCEPT !.got = req.got \cup P,
                          !.twice = req.twice \/ req.got \cap P # {},
                          !.pc = pc, !.cursor = c]
  BY <1>6, <1>8 DEF ReadPage
<1>14. c = IF full THEN CHOOSE id \in P : \A other \in P : other <= id ELSE req.cursor
  BY <1>12
<1>15. pc = IF full THEN "asked" ELSE "found"
  BY <1>12
<1>. HIDE DEF c, pc
<1>16. c \in Ids \cup {0} /\ (full => c \in P /\ \A y \in P : y <= c)
  <2>1. CASE full
    <3>1. \E m \in P : \A y \in P : y <= m
      BY <1>9, <1>12, <2>1
    <3>. QED
      BY <1>9, <1>14, <2>1, <3>1
  <2>2. CASE ~full
    BY <1>3, <1>14, <2>2
  <2>. QED
    BY <2>1, <2>2
<1>17. req' = [req EXCEPT !.got = req.got \cup P, !.twice = FALSE, !.pc = pc, !.cursor = c]
  <2>1. (req.twice \/ req.got \cap P # {}) = FALSE
    BY <1>10, <1>11
  <2>. QED
    BY <1>13, <2>1
<1>18. /\ req'.kind = "page" /\ req'.pc = pc /\ req'.owed = req.owed /\ req'.twice = FALSE
       /\ req'.got = req.got \cup P /\ req'.cursor = c /\ ReqType'
  <2>1. /\ req \in [kind : {"none", "page", "one", "batch"},
                pc : {"idle", "asked", "allowed", "missed", "found", "notFound"},
                id : Ids \cup {0}, owed : SUBSET Ids, cursor : Ids \cup {0},
                got : SUBSET Ids, twice : BOOLEAN]
        /\ pc \in {"asked", "found"} /\ req.got \cup P \subseteq Ids
    BY <1>3, <1>9, <1>15 DEF TypeOK
  <2>. QED
    BY <1>2, <1>16, <1>17, <2>1 DEF ReqType
<1>19. log' = log /\ ckpt' = ckpt
  BY <1>2 DEF logVars
<1>20. ASSUME full
       PROVE  /\ \A id \in req.got \cup P : id <= c
              /\ \A id \in req.owed : id <= c => id \in req.got \cup P
  <2>1. c \in P /\ c \in R /\ c > req.cursor /\ \A y \in P : y <= c
    BY <1>5, <1>9, <1>16, <1>20
  <2>2. c \in Nat /\ req.cursor \in Nat
    BY <1>4, <1>16
  <2>3. ASSUME NEW id \in req.got
        PROVE  id <= c
    <3>1. id \in Nat /\ id <= req.cursor
      BY <1>4, <1>3, <1>10
    <3>. QED
      BY <2>1, <2>2, <3>1
  <2>4. ASSUME NEW id \in req.owed, id <= c
        PROVE  id \in req.got \cup P
    <3>1. CASE id <= req.cursor
      BY <1>10, <3>1
    <3>2. CASE id \in R
      <4>1. id \in Nat
        BY <1>4, <1>5, <3>2
      <4>2. id < c \/ id = c
        BY <2>2, <2>4, <4>1
      <4>. QED
        BY <1>9, <2>1, <3>2, <4>2
    <3>. QED
      BY <1>5, <3>1, <3>2
  <2>. QED
    BY <2>1, <2>3, <2>4
<1>21. ASSUME ~full
       PROVE  req.owed \subseteq req.got \cup P
  BY <1>5, <1>9, <1>10, <1>12, <1>21
<1>22. RequestInv'
  <2>1. full <=> pc = "asked"
    BY <1>15
  <2>2. req.owed \subseteq AcceptedTo(ckpt)
    BY DEF ReadInv, RequestInv
  <2>. QED
    BY <1>15, <1>18, <1>19, <1>20, <2>1, <2>2 DEF RequestInv, AcceptedTo
<1>23. TraversalIsComplete' /\ OneIsNotMissed'
  BY <1>15, <1>18, <1>21 DEF TraversalIsComplete, OneIsNotMissed
<1>. QED
  BY <1>2, <1>18, <1>22, <1>23, RequestStep DEF ReadInv

LEMMA CrashReads ==
    ASSUME IndexInv, ReadInv, Crash
    PROVE  IndexInv' /\ ReadInv'
<1>1. log' = log /\ ckpt' = ckpt
  BY DEF Crash, logVars
<1>2. CASE req' = req
  <2>1. ReqType'
    BY <1>2 DEF IndexInv, TypeOK, ReqType
  <2>2. req.pc \notin {"allowed", "missed"}
    <3>1. ASSUME req.pc \in {"allowed", "missed"}
          PROVE  req'.pc = "asked"
      BY <3>1 DEF Crash, IndexInv, TypeOK
    <3>. QED
      BY <1>2, <3>1
  <2>3. RequestInv'
    BY <1>1, <1>2, <2>2 DEF ReadInv, RequestInv, AcceptedTo
  <2>. QED
    BY <1>2, <2>1, <2>3, CrashStep DEF ReadInv, TraversalIsComplete, OneIsNotMissed
<1>3. CASE req.pc \in {"allowed", "missed"} /\ req' = [req EXCEPT !.pc = "asked"]
  <2>1. ReqType' /\ req'.kind = req.kind /\ req'.pc = "asked" /\ req'.owed = req.owed
        /\ req'.id = req.id /\ req'.cursor = req.cursor /\ req'.got = req.got
        /\ req'.twice = req.twice
    BY <1>3, RequestMoves
  <2>2. req.kind # "page"
    BY <1>3 DEF ReadInv, RequestInv
  <2>3. RequestInv'
    BY <1>1, <2>1, <2>2 DEF ReadInv, RequestInv, AcceptedTo
  <2>. QED
    BY <2>1, <2>3, CrashStep DEF ReadInv, TraversalIsComplete, OneIsNotMissed
<1>. QED
  BY <1>2, <1>3 DEF Crash

-----------------------------------------------------------------------------
(* The theorems *)

LEMMA HInit ==
    ASSUME Init
    PROVE  IndexInv /\ ReadInv
<1>1. IndexInv
  BY IndexInit
<1>2. /\ req.kind = "none" /\ req.pc = "idle" /\ req.owed = {} /\ req.twice = FALSE
  BY DEF Init, NoRequest
<1>. QED
  BY <1>1, <1>2 DEF ReadInv, RequestInv, TraversalIsComplete, OneIsNotMissed

\* A step of the tail, which no request sees but as more rows.
LEMMA TailKeeps ==
    ASSUME IndexInv, ReadInv, Start \/ TailStep \/ TailFails
    PROVE  IndexInv' /\ ReadInv'
<1>1. log' = log /\ last' = last /\ ckpt' = ckpt /\ UNCHANGED req
  BY DEF Start, TailStep, TailFails, TailBegins, TailReads, Materializes, Publishes, TailEnds,
         logVars
<1>2. IndexInv' /\ Visible.rows \subseteq Visible'.rows
  <2>1. CASE Start
    BY <2>1, StartStep
  <2>2. CASE TailBegins
    BY <2>2, BeginsStep DEF TailBegins, Visible
  <2>3. CASE TailReads
    BY <2>3, ReadsStep DEF TailReads, Visible
  <2>4. CASE Materializes
    BY <2>4, MaterializesStep
  <2>5. CASE Publishes
    BY <2>5, PublishesStep DEF Publishes, Visible
  <2>6. CASE TailEnds
    BY <2>6, EndsStep
  <2>7. CASE TailFails
    BY <2>7, FailsStep DEF TailFails, Visible
  <2>. QED
    BY <2>1, <2>2, <2>3, <2>4, <2>5, <2>6, <2>7 DEF TailStep
<1>3. last' \in 0..Len(log) /\ ckpt' \in ckpt..last'
  BY <1>1, LogFacts DEF IndexInv
<1>. QED
  BY <1>1, <1>2, <1>3, ReadFrame

LEMMA HStep ==
    ASSUME IndexInv, ReadInv, [Next]_vars
    PROVE  IndexInv' /\ ReadInv'
<1>1. CASE LogGrows \/ CheckpointAdvances
  <2>1. log' = log /\ UNCHANGED req /\ Visible' = Visible
    BY <1>1 DEF LogGrows, CheckpointAdvances, tailVars, Visible
  <2>2. /\ last \in Nat /\ Len(log) \in Nat /\ last <= Len(log) /\ ckpt \in Nat /\ ckpt <= last
    BY LogFacts DEF IndexInv
  <2>3. last' \in 0..Len(log) /\ ckpt' \in ckpt..last'
    BY <1>1, <2>2 DEF LogGrows, CheckpointAdvances
  <2>. QED
    BY <1>1, <2>1, <2>3, LogStep, ReadFrame
<1>2. CASE Start \/ TailStep \/ TailFails
  BY <1>2, TailKeeps
<1>3. CASE Crash
  BY <1>3, CrashReads
<1>4. CASE \E kind \in {"one", "batch"}, id \in Ids : Ask(kind, id)
  BY <1>4, AskStep
<1>5. CASE Ask("page", 0)
  BY <1>5, AskStep
<1>6. CASE ReadPage
  BY <1>6, PageStep
<1>7. CASE AllowOne \/ LookUpOne \/ LookUpBatch \/ AnswerBatch
  BY <1>7, LookStep
<1>8. CASE UNCHANGED vars
  <2>1. /\ UNCHANGED <<logVars, tailVars, faults>> /\ UNCHANGED req /\ log' = log
        /\ last' = last /\ ckpt' = ckpt /\ Visible' = Visible
    BY <1>8 DEF vars, logVars, tailVars, Visible
  <2>2. ReqType'
    BY <2>1 DEF IndexInv, TypeOK, ReqType
  <2>3. last' \in 0..Len(log) /\ ckpt' \in ckpt..last'
    BY <2>1, LogFacts DEF IndexInv
  <2>. QED
    BY <2>1, <2>2, <2>3, RequestStep, ReadFrame
<1>. QED
  BY <1>1, <1>2, <1>3, <1>4, <1>5, <1>6, <1>7, <1>8 DEF Next

\* The inductive invariant of the history index, its tail and its reads.
THEOREM HistoryInvariant == Spec => []HInv
<1>1. HInv <=> IndexInv /\ ReadInv
  BY DEF HInv, IndexInv, ReadInv
<1>2. Init => IndexInv /\ ReadInv
  BY HInit
<1>3. (IndexInv /\ ReadInv) /\ [Next]_vars => (IndexInv /\ ReadInv)'
  BY HStep
<1>. QED
  BY <1>1, <1>2, <1>3, PTL DEF Spec

\* Whatever a crash leaves of the index is what catch_up would have accepted of the
\* records up to its sequence, with the epoch in force there.
THEOREM IndexIsAlwaysPrefix == Spec => []IndexIsPrefix
<1>1. HInv => IndexIsPrefix
  BY DEF HInv
<1>. QED
  BY <1>1, HistoryInvariant, PTL

\* ensure_history_complete is sound: when it lets a request pass, every operation
\* the checkpoint covers is in the index.
THEOREM ReadsFailClosed == Spec => []FailClosed
<1>1. HInv => FailClosed
  BY GuardIsSound DEF HInv, IndexInv
<1>. QED
  BY <1>1, HistoryInvariant, PTL

\* A client that follows the cursors of by_index to the end sees every operation the
\* checkpoint covered when it began, none twice, over restarts and for every page
\* size.
THEOREM CursorsMissNothing == Spec => []TraversalIsComplete
<1>1. HInv => TraversalIsComplete
  BY DEF HInv
<1>. QED
  BY <1>1, HistoryInvariant, PTL

\* get_operation answers 404 only for an operation the checkpoint did not cover.
THEOREM FoundIfCovered == Spec => []OneIsNotMissed
<1>1. HInv => OneIsNotMissed
  BY DEF HInv
<1>. QED
  BY <1>1, HistoryInvariant, PTL
=============================================================================
