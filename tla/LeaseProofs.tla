---------------------------- MODULE LeaseProofs ----------------------------
(***************************************************************************)
(* The lease protocol keeps its inductive invariant LInv for any number of *)
(* nodes, any timing constants and any failures.  If the slowest reply and *)
(* the local validity fit into the TTL and the handlers' margin, there is  *)
(* never more than one writer, and what it acknowledges is not fenced off. *)
(***************************************************************************)
EXTENDS WriterLease, AcceptedLogProofs

-----------------------------------------------------------------------------
(* Types *)

LEMMA EpochTypes ==
    ASSUME TypeOK
    PROVE  /\ entry.owner \in Nodes \cup {NoNode} /\ entry.epoch \in Nat
           /\ ttl \in Nat /\ ttl <= Ttl /\ created \in Nat
           /\ Ttl \in Nat \ {0} /\ LeaseTime \in Nat \ {0} /\ Margin \in Nat
           /\ MaxLag \in Nat /\ MaxEpoch \in Nat
BY LeaseAssumption DEF TypeOK

LEMMA RecordTypes ==
    ASSUME NEW e \in Nat
    PROVE  /\ Fence(e) \in Records /\ Fence(e).epoch = e /\ Fence(e).kind = "fence"
           /\ Operations(e) \in Records /\ Operations(e).epoch = e
           /\ Operations(e).kind = "operations"
BY DEF Fence, Operations, Records

LEMMA SleepType ==
    ASSUME TypeOK, NEW n \in Nodes, Sleep(n)
    PROVE  /\ stage' \in [Nodes -> Stages] /\ cas' \in [Nodes -> BOOLEAN]
           /\ lag' \in [Nodes -> 0..MaxLag] /\ myEpoch' \in [Nodes -> Nat]
BY SMTT(30), LeaseAssumption DEF TypeOK, Sleep, At, Stages

LEMMA DisownType ==
    ASSUME TypeOK, NEW n \in Nodes, Disown(n)
    PROVE  /\ owned' \in [Nodes -> BOOLEAN] /\ valid' \in [Nodes -> 0..LeaseTime]
           /\ epoch' \in [Nodes -> Nat]
BY SMTT(30), LeaseAssumption DEF TypeOK, Disown

LEMMA OwnType ==
    ASSUME TypeOK, NEW n \in Nodes, Own(n)
    PROVE  /\ owned' \in [Nodes -> BOOLEAN] /\ valid' \in [Nodes -> 0..LeaseTime]
           /\ epoch' \in [Nodes -> Nat]
BY LeaseAssumption DEF TypeOK, Own

LEMMA EndCallType ==
    ASSUME TypeOK, NEW n \in Nodes, EndCall(n)
    PROVE  /\ call' \in [Nodes -> {"idle", "checked", "landed"}]
           /\ callEpoch' \in [Nodes -> Nat] /\ callAt' \in [Nodes -> Nat]
BY DEF TypeOK, EndCall

LEMMA AbandonedType ==
    ASSUME TypeOK, NEW n \in Nodes
    PROVE  Abandoned(n) \subseteq Records
BY RecordTypes DEF TypeOK, Abandoned

LEMMA LoopType ==
    ASSUME TypeOK, NEW n \in Nodes, LoopStep(n) \/ KvError(n)
    PROVE  TypeOK'
<1>. USE DEF kvVars, loopVars, leaseVars, callVars
<1>1. CASE CertainlyLost(n) /\ UNCHANGED <<log, kvVars, callVars>> /\ late' \subseteq Records
  BY <1>1, SleepType, DisownType DEF TypeOK, CertainlyLost
<1>2. CASE PerhapsLost(n) /\ UNCHANGED <<log, late, kvVars, callVars>>
  <2>1. Sleep(n) /\ (Disown(n) \/ UNCHANGED leaseVars)
    BY <1>2 DEF PerhapsLost
  <2>. QED
    BY <1>2, <2>1, SleepType, DisownType DEF TypeOK
<1>3. CASE Own(n) /\ UNCHANGED <<log, late, kvVars, callVars>>
  <2>1. Sleep(n)
    BY <1>3 DEF Own
  <2>. QED
    BY <1>3, <2>1, SleepType, OwnType DEF TypeOK
<1>4. CASE ReadEntry(n)
  <2>1. CASE At(n, "own") /\ cas' = [cas EXCEPT ![n] = TRUE] /\ UNCHANGED <<lag, myEpoch, leaseVars>>
    BY <1>4, <2>1 DEF ReadEntry, TypeOK, At, Stages
  <2>2. late \subseteq Records
    BY DEF TypeOK
  <2>. QED
    BY <1>1, <1>4, <2>1, <2>2 DEF ReadEntry
<1>5. CASE Renew(n)
  <2>1. entry.epoch \in Nat /\ Ttl \in 0..Ttl
    BY EpochTypes
  <2>2. /\ myEpoch' = [myEpoch EXCEPT ![n] = entry.epoch]
        /\ stage' = [stage EXCEPT ![n] = "renewed"]
        /\ cas' = [m \in Nodes |-> m = n] /\ entry' = entry /\ ttl' = Ttl
        /\ UNCHANGED <<lag, created, log, late, leaseVars, callVars>>
    BY <1>5 DEF Renew, Write, At
  <2>3. myEpoch' \in [Nodes -> Nat] /\ stage' \in [Nodes -> Stages]
    BY <2>1, <2>2 DEF TypeOK, Stages
  <2>4. cas' \in [Nodes -> BOOLEAN]
    BY <2>2
  <2>. QED
    BY <2>1, <2>2, <2>3, <2>4 DEF TypeOK
<1>6. CASE Create(n)
  <2>1. /\ [owner |-> n, epoch |-> 0] \in [owner : Nodes \cup {NoNode}, epoch : Nat]
        /\ created + 1 \in Nat /\ created + 1 \in 0..MaxEpoch
    BY <1>6, LeaseAssumption DEF Create, TypeOK
  <2>. QED
    BY SMTT(30), <1>6, <2>1, LeaseAssumption DEF Create, Write, At, Stages, TypeOK
<1>7. CASE Promote(n)
  <2>1. [owner |-> n, epoch |-> myEpoch[n]] \in [owner : Nodes \cup {NoNode}, epoch : Nat]
    BY DEF TypeOK
  <2>. QED
    BY SMTT(30), <1>7, <2>1, LeaseAssumption DEF Promote, Write, At, Stages, TypeOK
<1>8. CASE AppendFence(n)
  <2>1. Fence(myEpoch[n]) \in Records
    BY RecordTypes DEF TypeOK
  <2>2. log' \in Seq(Records)
    BY <1>8, <2>1 DEF AppendFence, TypeOK
  <2>. QED
    BY <1>8, <2>2 DEF AppendFence, At, Stages, TypeOK
<1>9. CASE FenceFails(n)
  <2>1. Fence(myEpoch[n]) \in Records
    BY RecordTypes DEF TypeOK
  <2>2. late' \subseteq Records
    BY <1>9, <2>1 DEF FenceFails, TypeOK
  <2>. QED
    BY <1>1, <1>9, <2>2 DEF FenceFails
<1>10. CASE RenewRefused(n) \/ RenewReply(n) \/ PromoteRefused(n) \/ FenceReply(n)
  <2>1. late \subseteq Records
    BY DEF TypeOK
  <2>. QED
    BY <1>1, <1>2, <1>3, <1>10, <2>1
       DEF RenewRefused, RenewReply, PromoteRefused, FenceReply
<1>11. CASE KvError(n)
  <2>1. late \subseteq Records
    BY DEF TypeOK
  <2>. QED
    BY <1>1, <1>2, <1>11, <2>1 DEF KvError
<1>. QED
  BY <1>4, <1>5, <1>6, <1>7, <1>8, <1>9, <1>10, <1>11 DEF LoopStep

LEMMA TypeStep ==
    ASSUME TypeOK, [Next]_vars
    PROVE  TypeOK'
<1>. USE DEF kvVars, loopVars, leaseVars, callVars
<1>1. ASSUME NEW n \in Nodes, CheckWriter(n)
      PROVE  TypeOK'
  BY <1>1 DEF CheckWriter, TypeOK
<1>2. ASSUME NEW n \in Nodes, RecordLands(n)
      PROVE  TypeOK'
  <2>1. Operations(callEpoch[n]) \in Records /\ Len(log) \in Nat
    BY RecordTypes DEF TypeOK
  <2>2. log' \in Seq(Records)
    BY <1>2, <2>1 DEF RecordLands, TypeOK
  <2>3. /\ call' = [call EXCEPT ![n] = "landed"] /\ callAt' = [callAt EXCEPT ![n] = Len(log) + 1]
        /\ UNCHANGED <<callEpoch, acked, late, kvVars, loopVars, leaseVars>>
    BY <1>2 DEF RecordLands
  <2>4. Len(log) + 1 \in Nat
    BY <2>1
  <2>5. callAt' \in [Nodes -> Nat] /\ call' \in [Nodes -> {"idle", "checked", "landed"}]
    BY <2>3, <2>4 DEF TypeOK
  <2>. QED
    BY <2>2, <2>3, <2>5 DEF TypeOK
<1>3. ASSUME NEW n \in Nodes, Confirm(n)
      PROVE  TypeOK'
  <2>1. acked' \subseteq Nat
    <3>1. acked' = acked \/ acked' = acked \cup {callAt[n]}
      BY <1>3 DEF Confirm
    <3>2. callAt[n] \in Nat /\ acked \subseteq Nat
      BY DEF TypeOK
    <3>. QED
      BY <3>1, <3>2
  <2>. QED
    BY <1>3, <2>1, EndCallType DEF Confirm, TypeOK
<1>4. ASSUME NEW n \in Nodes, PublishTimeout(n)
      PROVE  TypeOK'
  <2>1. late' \subseteq Records
    BY <1>4, AbandonedType DEF PublishTimeout, TypeOK
  <2>2. EndCall(n)
    BY <1>4 DEF PublishTimeout
  <2>. QED
    BY <1>4, <2>1, <2>2, EndCallType DEF PublishTimeout, TypeOK
<1>5. ASSUME NEW n \in Nodes, Crash(n)
      PROVE  TypeOK'
  <2>1. Fence(myEpoch[n]) \in Records
    BY RecordTypes DEF TypeOK
  <2>2. late' \subseteq Records
    BY <1>5, <2>1, AbandonedType DEF Crash, TypeOK
  <2>3. Sleep(n) /\ EndCall(n) /\ Disown(n)
    BY <1>5 DEF Crash
  <2>. QED
    BY <1>5, <2>2, <2>3, SleepType, DisownType, EndCallType DEF Crash, TypeOK
<1>6. ASSUME NEW r \in late, LateRecordLands(r)
      PROVE  TypeOK'
  <2>1. log' \in Seq(Records) /\ late' \subseteq Records
    BY <1>6 DEF LateRecordLands, TypeOK
  <2>. QED
    BY <1>6, <2>1 DEF LateRecordLands, TypeOK
<1>7. CASE Tick
  <2>1. ttl' \in 0..Ttl
    BY <1>7, LeaseAssumption DEF Tick, Dec, TypeOK
  <2>2. entry' \in [owner : Nodes \cup {NoNode}, epoch : Nat]
    BY <1>7 DEF Tick, TypeOK, NoEntry
  <2>3. cas' \in [Nodes -> BOOLEAN]
    BY <1>7 DEF Tick, TypeOK
  <2>4. lag' \in [Nodes -> 0..MaxLag]
    <3>1. lag' = [n \in Nodes |-> IF stage[n] \in Awaiting THEN lag[n] + 1 ELSE lag[n]]
      BY <1>7 DEF Tick
    <3>2. ASSUME NEW n \in Nodes
          PROVE  (IF stage[n] \in Awaiting THEN lag[n] + 1 ELSE lag[n]) \in 0..MaxLag
      <4>1. lag[n] \in 0..MaxLag /\ (stage[n] \in Awaiting => lag[n] < MaxLag)
        BY <1>7 DEF Tick, TypeOK
      <4>. QED
        BY <4>1, LeaseAssumption
    <3>. QED
      BY <3>1, <3>2
  <2>5. valid' \in [Nodes -> 0..LeaseTime]
    <3>1. valid' = [n \in Nodes |-> Dec(valid[n])]
      BY <1>7 DEF Tick
    <3>2. ASSUME NEW n \in Nodes
          PROVE  Dec(valid[n]) \in 0..LeaseTime
      <4>1. valid[n] \in 0..LeaseTime
        BY DEF TypeOK
      <4>. QED
        BY <4>1, LeaseAssumption DEF Dec
    <3>. QED
      BY <3>1, <3>2
  <2>. QED
    BY <1>7, <2>1, <2>2, <2>3, <2>4, <2>5 DEF Tick, TypeOK
<1>8. CASE UNCHANGED vars
  BY <1>8 DEF vars, TypeOK
<1>. QED
  BY <1>1, <1>2, <1>3, <1>4, <1>5, <1>6, <1>7, <1>8, LoopType DEF Next, HandlerStep

-----------------------------------------------------------------------------
(* The entry, the rounds and the validity *)

TimeInv == EntryInv /\ RoundInv /\ ValidInv

\* What TypeOK says of one node.
LEMMA NodeTypes ==
    ASSUME TypeOK, NEW n \in Nodes
    PROVE  /\ lag[n] \in Nat /\ lag[n] <= MaxLag /\ myEpoch[n] \in Nat
           /\ valid[n] \in Nat /\ valid[n] <= LeaseTime /\ epoch[n] \in Nat
           /\ cas[n] \in BOOLEAN /\ owned[n] \in BOOLEAN /\ n # NoNode
BY LeaseAssumption DEF TypeOK

\* Steps that touch neither the entry nor the loops nor the leases.
LEMMA TimeFrame ==
    ASSUME TimeInv, UNCHANGED <<kvVars, loopVars, leaseVars>>
    PROVE  TimeInv'
BY DEF TimeInv, EntryInv, RoundInv, ValidInv, kvVars, loopVars, leaseVars

\* A round ends, with the ownership as it was, lost, or won by a reply.
LEMMA SleepStep ==
    ASSUME TypeOK, TimeInv, NEW n \in Nodes, Sleep(n), UNCHANGED kvVars,
           \/ Disown(n)
           \/ UNCHANGED leaseVars
           \/ Own(n) /\ stage[n] \in {"renewed", "fenced"}
    PROVE  TimeInv'
<1>. USE DEF TimeInv
<1>1. /\ UNCHANGED <<entry, ttl, created>>
      /\ stage' = [stage EXCEPT ![n] = "sleep"] /\ cas' = [cas EXCEPT ![n] = FALSE]
      /\ lag' = [lag EXCEPT ![n] = 0] /\ myEpoch' = [myEpoch EXCEPT ![n] = 0]
  BY DEF Sleep, At, kvVars
<1>2. \A m \in Nodes : m # n => /\ stage'[m] = stage[m] /\ cas'[m] = cas[m] /\ lag'[m] = lag[m]
                                /\ myEpoch'[m] = myEpoch[m]
  BY <1>1 DEF TypeOK
<1>3. stage'[n] = "sleep" /\ ~cas'[n] /\ lag'[n] = 0
  BY <1>1 DEF TypeOK
<1>4. EntryInv'
  BY <1>1, <1>2, <1>3 DEF EntryInv
<1>5. RoundInv'
  BY <1>1, <1>2, <1>3 DEF RoundInv, Awaiting
<1>6. ASSUME NEW m \in Nodes, m # n
      PROVE  owned'[m] = owned[m] /\ valid'[m] = valid[m] /\ epoch'[m] = epoch[m]
  BY <1>6 DEF TypeOK, Disown, Own, leaseVars
<1>7. CASE Disown(n)
  <2>1. ~owned'[n]
    BY <1>7 DEF Disown, TypeOK
  <2>. QED
    BY <1>1, <1>4, <1>5, <1>6, <2>1 DEF ValidInv
<1>8. CASE UNCHANGED leaseVars
  BY <1>1, <1>4, <1>5, <1>8 DEF ValidInv, leaseVars
<1>9. CASE Own(n) /\ stage[n] \in {"renewed", "fenced"}
  <2>1. valid'[n] = LeaseTime /\ epoch'[n] = myEpoch[n]
    BY <1>9 DEF Own, TypeOK
  <2>2. myEpoch[n] > 0 /\ (lag[n] < Ttl => entry = [owner |-> n, epoch |-> myEpoch[n]]
                                           /\ Ttl <= ttl + lag[n])
    BY <1>9 DEF RoundInv, Awaiting
  <2>3. lag[n] \in Nat /\ lag[n] <= MaxLag /\ ttl \in Nat
    BY NodeTypes, EpochTypes
  <2>4. ASSUME LeaseTime + MaxLag < valid'[n] + Ttl
        PROVE  lag[n] < Ttl /\ valid'[n] + Ttl <= ttl + LeaseTime + MaxLag
    <3>1. lag[n] < Ttl
      BY <2>1, <2>3, <2>4, EpochTypes
    <3>. QED
      BY <2>1, <2>2, <2>3, <3>1, EpochTypes
  <2>. QED
    BY <1>1, <1>4, <1>5, <1>6, <2>1, <2>2, <2>4 DEF ValidInv
<1>. QED
  BY <1>7, <1>8, <1>9

\* The node finds its own entry.
LEMMA OwnEntryStep ==
    ASSUME TypeOK, TimeInv, NEW n \in Nodes, stage[n] = "sleep",
           entry.owner = n, entry.epoch > 0, At(n, "own"), cas' = [cas EXCEPT ![n] = TRUE],
           UNCHANGED <<lag, myEpoch, leaseVars, kvVars>>
    PROVE  TimeInv'
<1>. USE DEF TimeInv
<1>1. /\ \A m \in Nodes : m # n => stage'[m] = stage[m] /\ cas'[m] = cas[m]
      /\ stage'[n] = "own" /\ cas'[n]
      /\ UNCHANGED <<entry, ttl, created, lag, myEpoch, owned, valid, epoch>>
  BY DEF TypeOK, At, leaseVars, kvVars
<1>2. EntryInv'
  BY <1>1 DEF EntryInv
<1>3. RoundInv'
  BY <1>1 DEF RoundInv, Awaiting
<1>4. ValidInv'
  BY <1>1 DEF ValidInv
<1>. QED
  BY <1>2, <1>3, <1>4

\* A write to the entry by the one node that may write it.
LEMMA WriteStep ==
    ASSUME TypeOK, TimeInv, NEW n \in Nodes, NEW e, Write(n, e),
           entry = NoEntry \/ cas[n], e.owner = n, e.epoch \in {0, created'},
           \/ e = entry /\ stage[n] = "own" /\ stage' = [stage EXCEPT ![n] = "renewed"]
              /\ myEpoch' = [myEpoch EXCEPT ![n] = entry.epoch]
              /\ UNCHANGED created
           \/ entry = NoEntry /\ e.epoch = 0 /\ stage[n] = "sleep"
              /\ stage' = [stage EXCEPT ![n] = "created"]
              /\ created' = created + 1 /\ myEpoch' = [myEpoch EXCEPT ![n] = created']
           \/ e = [owner |-> n, epoch |-> myEpoch[n]] /\ stage[n] = "created"
              /\ cas[n] /\ stage' = [stage EXCEPT ![n] = "promoted"]
              /\ UNCHANGED <<created, myEpoch>>,
           UNCHANGED <<lag, leaseVars>>
    PROVE  TimeInv'
<1>. USE DEF TimeInv
<1>1. /\ entry' = e /\ ttl' = Ttl /\ cas' = [m \in Nodes |-> m = n]
      /\ UNCHANGED <<lag, owned, valid, epoch>>
  BY DEF Write, leaseVars
<1>2. /\ \A m \in Nodes : m # n => /\ stage'[m] = stage[m] /\ myEpoch'[m] = myEpoch[m]
                                   /\ ~cas'[m]
      /\ \A m \in Nodes : cas'[m] => m = n
  BY <1>1 DEF TypeOK
<1>3. \A m \in Nodes : m # n => entry.owner # m
  BY NodeTypes DEF EntryInv, NoEntry
<1>4. e # NoEntry /\ Ttl > 0
  BY NodeTypes, EpochTypes DEF NoEntry
<1>5. EntryInv'
  BY <1>1, <1>2, <1>4 DEF EntryInv
<1>6. lag[n] = 0 /\ lag'[n] = 0
  BY <1>1 DEF RoundInv, Awaiting
<1>7. /\ stage'[n] \in {"renewed", "created", "promoted"} /\ myEpoch'[n] > 0
      /\ stage'[n] = "created" => entry'.epoch = 0 /\ myEpoch'[n] = created'
      /\ stage'[n] # "created" => entry' = [owner |-> n, epoch |-> myEpoch'[n]]
  <2>1. CASE e = entry /\ stage[n] = "own" /\ stage' = [stage EXCEPT ![n] = "renewed"]
             /\ myEpoch' = [myEpoch EXCEPT ![n] = entry.epoch] /\ UNCHANGED created
    <3>1. stage'[n] = "renewed" /\ myEpoch'[n] = entry.epoch
      BY <2>1 DEF TypeOK
    <3>2. cas[n] /\ entry.epoch > 0
      BY <1>4, <2>1 DEF RoundInv
    <3>3. entry = [owner |-> entry.owner, epoch |-> entry.epoch]
      BY DEF TypeOK
    <3>. QED
      BY <1>1, <2>1, <3>1, <3>2, <3>3
  <2>2. CASE entry = NoEntry /\ e.epoch = 0 /\ stage[n] = "sleep"
              /\ stage' = [stage EXCEPT ![n] = "created"]
              /\ created' = created + 1 /\ myEpoch' = [myEpoch EXCEPT ![n] = created']
    <3>1. stage'[n] = "created" /\ myEpoch'[n] = created'
      BY <2>2 DEF TypeOK
    <3>. QED
      BY <1>1, <2>2, <3>1, EpochTypes
  <2>3. CASE e = [owner |-> n, epoch |-> myEpoch[n]] /\ stage[n] = "created"
              /\ cas[n] /\ stage' = [stage EXCEPT ![n] = "promoted"]
              /\ UNCHANGED <<created, myEpoch>>
    <3>1. stage'[n] = "promoted" /\ myEpoch[n] > 0
      BY <2>3 DEF TypeOK, RoundInv
    <3>. QED
      BY <1>1, <2>3, <3>1
  <2>. QED
    BY <2>1, <2>2, <2>3
<1>8. RoundInv'
  <2>1. ASSUME NEW m \in Nodes, m # n
        PROVE  /\ stage'[m] \notin Awaiting => lag'[m] = 0
               /\ stage'[m] \in Awaiting \cup {"created"} => myEpoch'[m] > 0
               /\ ~(stage'[m] \in Awaiting /\ lag'[m] < Ttl)
               /\ ~cas'[m]
    <3>1. ~(stage[m] \in Awaiting /\ lag[m] < Ttl)
      BY <1>3, <2>1 DEF RoundInv
    <3>. QED
      BY <1>1, <1>2, <2>1, <3>1 DEF RoundInv
  <2>2. stage'[n] \in Awaiting => Ttl <= ttl' + lag'[n]
    BY <1>1, <1>6, EpochTypes
  <2>. QED
    BY <1>6, <1>7, <2>1, <2>2 DEF RoundInv, Awaiting
<1>9. ValidInv'
  <2>1. ASSUME NEW m \in Nodes, owned[m], valid[m] > 0, LeaseTime + MaxLag < valid[m] + Ttl
        PROVE  /\ entry' = [owner |-> m, epoch |-> epoch[m]] /\ epoch[m] > 0
               /\ valid[m] + Ttl <= ttl' + LeaseTime + MaxLag
    <3>1. entry = [owner |-> m, epoch |-> epoch[m]] /\ epoch[m] > 0
      BY <2>1 DEF ValidInv
    <3>2. m = n
      BY <1>3, <3>1
    <3>3. entry' = entry
      <4>1. entry.owner = n /\ entry # NoEntry /\ entry.epoch > 0
        BY <3>1, <3>2, NodeTypes DEF NoEntry
      <4>2. ~(stage[n] = "created" /\ cas[n])
        BY <4>1 DEF RoundInv
      <4>. QED
        BY <1>1, <4>1, <4>2
    <3>4. valid[m] + Ttl <= ttl' + LeaseTime + MaxLag
      BY <1>1, NodeTypes, EpochTypes
    <3>. QED
      BY <3>1, <3>3, <3>4
  <2>. QED
    BY <1>1, <2>1 DEF ValidInv
<1>. QED
  BY <1>5, <1>8, <1>9

\* The fence is in the log; the round goes on.
LEMMA FenceStep ==
    ASSUME TypeOK, TimeInv, NEW n \in Nodes, AppendFence(n)
    PROVE  TimeInv'
<1>. USE DEF TimeInv
<1>1. /\ UNCHANGED <<lag, cas, myEpoch, entry, ttl, created, owned, valid, epoch>>
      /\ stage[n] = "promoted" /\ stage'[n] = "fenced"
      /\ \A m \in Nodes : m # n => stage'[m] = stage[m]
  BY DEF AppendFence, At, TypeOK, kvVars, leaseVars
<1>2. EntryInv' /\ ValidInv'
  BY <1>1 DEF EntryInv, ValidInv
<1>3. RoundInv'
  BY <1>1 DEF RoundInv, Awaiting
<1>. QED
  BY <1>2, <1>3

\* Time passes for the entry and the nodes alike.
LEMMA TickStep ==
    ASSUME TypeOK, TimeInv, Tick
    PROVE  TimeInv'
<1>. USE DEF TimeInv
<1>1. /\ ttl' = Dec(ttl) /\ entry' = IF ttl <= 1 THEN NoEntry ELSE entry
      /\ cas' = IF ttl = 1 THEN [n \in Nodes |-> FALSE] ELSE cas
      /\ UNCHANGED <<created, stage, myEpoch, owned, epoch>>
  BY DEF Tick
<1>2. ASSUME NEW n \in Nodes
      PROVE  /\ lag'[n] = IF stage[n] \in Awaiting THEN lag[n] + 1 ELSE lag[n]
             /\ valid'[n] = Dec(valid[n])
             /\ cas'[n] => cas[n] /\ ttl # 1
  BY <1>1 DEF Tick
<1>3. ttl \in Nat /\ ttl' = (IF ttl = 0 THEN 0 ELSE ttl - 1)
  BY <1>1, EpochTypes DEF Dec
<1>4. entry = NoEntry => \A n \in Nodes : ~cas[n]
  BY NodeTypes DEF EntryInv, NoEntry
<1>5. EntryInv'
  <2>1. entry' = NoEntry <=> ttl' = 0
    BY <1>1, <1>3 DEF EntryInv
  <2>2. entry'.epoch \in {0, created'}
    BY <1>1 DEF EntryInv, NoEntry
  <2>3. ASSUME NEW n \in Nodes, cas'[n]
        PROVE  entry' = entry
    <3>1. ttl # 1 /\ ttl # 0
      BY <1>2, <1>4, <2>3 DEF EntryInv
    <3>. QED
      BY <1>1, <1>3, <3>1
  <2>. QED
    BY <1>2, <2>1, <2>2, <2>3 DEF EntryInv
<1>6. RoundInv'
  <2>1. ASSUME NEW n \in Nodes, cas'[n]
        PROVE  entry' = entry
    <3>1. ttl # 1 /\ ttl # 0
      BY <1>2, <1>4, <2>1 DEF EntryInv
    <3>. QED
      BY <1>1, <1>3, <3>1
  <2>2. ASSUME NEW n \in Nodes, stage[n] \in Awaiting, lag'[n] < Ttl
        PROVE  entry' = [owner |-> n, epoch |-> myEpoch[n]] /\ Ttl <= ttl' + lag'[n]
    <3>1. lag[n] \in Nat /\ lag'[n] = lag[n] + 1 /\ Ttl \in Nat
      BY <1>2, <2>2, NodeTypes, EpochTypes
    <3>2. entry = [owner |-> n, epoch |-> myEpoch[n]] /\ Ttl <= ttl + lag[n]
      BY <2>2, <3>1 DEF RoundInv
    <3>3. ttl > 1
      BY <1>3, <2>2, <3>1, <3>2
    <3>. QED
      BY <1>1, <1>3, <3>1, <3>2, <3>3
  <2>. QED
    BY <1>1, <1>2, <2>1, <2>2 DEF RoundInv
<1>7. ValidInv'
  <2>1. ASSUME NEW n \in Nodes, owned[n], valid'[n] > 0, LeaseTime + MaxLag < valid'[n] + Ttl
        PROVE  /\ entry' = [owner |-> n, epoch |-> epoch[n]] /\ epoch[n] > 0
               /\ valid'[n] + Ttl <= ttl' + LeaseTime + MaxLag
    <3>1. /\ valid[n] \in Nat /\ Ttl \in Nat /\ LeaseTime \in Nat /\ MaxLag \in Nat
          /\ valid'[n] = (IF valid[n] = 0 THEN 0 ELSE valid[n] - 1)
      BY <1>2, NodeTypes, EpochTypes DEF Dec
    <3>2. valid'[n] = valid[n] - 1 /\ valid[n] > 1 /\ valid[n] > 0 /\ LeaseTime + MaxLag < valid[n] + Ttl
      BY <2>1, <3>1
    <3>3. /\ entry = [owner |-> n, epoch |-> epoch[n]] /\ epoch[n] > 0
          /\ valid[n] + Ttl <= ttl + LeaseTime + MaxLag
      BY <2>1, <3>2 DEF ValidInv
    <3>4. ttl > 1
      BY <1>3, <2>1, <3>1, <3>2, <3>3
    <3>. QED
      BY <1>1, <1>3, <3>1, <3>2, <3>3, <3>4
  <2>. QED
    BY <1>1, <2>1 DEF ValidInv
<1>. QED
  BY <1>5, <1>6, <1>7

LEMMA TimeStep ==
    ASSUME TypeOK, TimeInv, [Next]_vars
    PROVE  TimeInv'
<1>. USE DEF kvVars, loopVars, leaseVars, callVars
<1>1. ASSUME NEW n \in Nodes, LoopStep(n) \/ KvError(n)
      PROVE  TimeInv'
  <2>1. CASE ReadEntry(n)
    <3>1. CASE /\ entry.owner = n /\ entry.epoch > 0
               /\ At(n, "own") /\ cas' = [cas EXCEPT ![n] = TRUE]
               /\ UNCHANGED <<lag, myEpoch, leaseVars>>
      BY <2>1, <3>1, OwnEntryStep DEF ReadEntry
    <3>2. CASE CertainlyLost(n)
      BY <2>1, <3>2, SleepStep DEF ReadEntry, CertainlyLost
    <3>. QED
      BY <2>1, <3>1, <3>2 DEF ReadEntry
  <2>2. CASE Renew(n)
    <3>1. entry.owner = n /\ entry.epoch \in {0, created'}
      BY <2>2 DEF TimeInv, EntryInv, Renew
    <3>. QED
      BY <2>2, <3>1, WriteStep DEF Renew, At
  <2>3. CASE RenewRefused(n) \/ RenewReply(n) \/ PromoteRefused(n) \/ FenceReply(n)
             \/ FenceFails(n) \/ KvError(n)
    <3>1. /\ Sleep(n) /\ UNCHANGED kvVars
          /\ \/ Disown(n)
             \/ UNCHANGED leaseVars
             \/ Own(n) /\ stage[n] \in {"renewed", "fenced"}
      BY <2>3 DEF RenewRefused, RenewReply, PromoteRefused, FenceReply, FenceFails, KvError,
                  CertainlyLost, PerhapsLost, Own
    <3>. QED
      BY <3>1, SleepStep
  <2>4. CASE Create(n)
    <3>1. PICK e : e = [owner |-> n, epoch |-> 0]
      OBVIOUS
    <3>2. /\ Write(n, e) /\ e.owner = n /\ e.epoch = 0 /\ entry = NoEntry /\ stage[n] = "sleep"
          /\ stage' = [stage EXCEPT ![n] = "created"] /\ created' = created + 1
          /\ myEpoch' = [myEpoch EXCEPT ![n] = created'] /\ UNCHANGED <<lag, leaseVars>>
      BY <2>4, <3>1 DEF Create, At
    <3>. QED
      BY <3>2, WriteStep
  <2>5. CASE Promote(n)
    <3>1. PICK e : e = [owner |-> n, epoch |-> myEpoch[n]]
      OBVIOUS
    <3>2. myEpoch[n] = created
      BY <2>5 DEF Promote, TimeInv, RoundInv
    <3>3. /\ Write(n, e) /\ e.owner = n /\ e.epoch = created' /\ stage[n] = "created" /\ cas[n]
          /\ stage' = [stage EXCEPT ![n] = "promoted"] /\ UNCHANGED <<created, myEpoch>>
          /\ UNCHANGED <<lag, leaseVars>>
      BY <2>5, <3>1, <3>2 DEF Promote, At
    <3>. QED
      BY <3>1, <3>3, WriteStep
  <2>6. CASE AppendFence(n)
    BY <2>6, FenceStep
  <2>. QED
    BY <1>1, <2>1, <2>2, <2>3, <2>4, <2>5, <2>6 DEF LoopStep
<1>2. ASSUME NEW n \in Nodes, HandlerStep(n)
      PROVE  TimeInv'
  BY <1>2, TimeFrame DEF HandlerStep, CheckWriter, RecordLands, Confirm, PublishTimeout
<1>3. ASSUME NEW n \in Nodes, Crash(n)
      PROVE  TimeInv'
  BY <1>3, SleepStep DEF Crash
<1>4. ASSUME NEW r \in late, LateRecordLands(r)
      PROVE  TimeInv'
  BY <1>4, TimeFrame DEF LateRecordLands
<1>5. CASE Tick
  BY <1>5, TickStep
<1>6. CASE UNCHANGED vars
  BY <1>6, TimeFrame DEF vars
<1>. QED
  BY <1>1, <1>2, <1>3, <1>4, <1>5, <1>6 DEF Next

-----------------------------------------------------------------------------
(* Epochs *)

\* A log that grows by one record.
LEMMA LogGrowsBy ==
    ASSUME TypeOK, NEW r \in Records, log' = Append(log, r)
    PROVE  /\ Len(log) \in Nat /\ Len(log') = Len(log) + 1 /\ log'[Len(log) + 1] = r
           /\ \A i \in 1..Len(log) : log'[i] = log[i]
           /\ \A i \in 1..Len(log') : i \in 1..Len(log) \/ i = Len(log) + 1
BY DEF TypeOK

\* Epochs stay behind the creations if what is kept and what is logged comes from
\* what was kept before.
LEMMA EpochsFrom ==
    ASSUME TypeOK, EntryInv, EpochsInv, created' \in Nat, created <= created',
           \A n \in Nodes : {epoch'[n], myEpoch'[n], callEpoch'[n]} \subseteq
               {0, created', epoch[n], myEpoch[n], callEpoch[n], entry.epoch},
           \/ UNCHANGED log
           \/ \E r \in Records : r.epoch <= created /\ log' = Append(log, r),
           \A r \in late' : r \in late \/ (r.epoch \in Nat /\ r.epoch <= created)
    PROVE  EpochsInv'
<1>1. created \in Nat /\ 0 <= created'
  BY EpochTypes
<1>2. \A k \in 0..created : k \in 0..created'
  BY <1>1
<1>3. ASSUME NEW n \in Nodes
      PROVE  {epoch'[n], myEpoch'[n], callEpoch'[n]} \subseteq 0..created'
  <2>1. {0, created', epoch[n], myEpoch[n], callEpoch[n], entry.epoch} \subseteq 0..created'
    BY <1>1, <1>2 DEF EpochsInv, EntryInv
  <2>. QED
    BY <2>1
<1>4. \A i \in 1..Len(log) : log[i].epoch \in Nat /\ log[i].epoch <= created
  <2>1. ASSUME NEW i \in 1..Len(log)
        PROVE  log[i].epoch \in Nat
    <3>1. log[i] \in Records
      BY DEF TypeOK
    <3>. QED
      BY <3>1 DEF Records
  <2>. QED
    BY <2>1 DEF EpochsInv
<1>5. \A r \in late' : r.epoch \in Nat /\ r.epoch <= created
  BY DEF EpochsInv, TypeOK, Records
<1>6. \A i \in 1..Len(log') : log'[i].epoch \in Nat /\ log'[i].epoch <= created
  <2>1. CASE UNCHANGED log
    BY <1>4, <2>1
  <2>2. ASSUME NEW r \in Records, r.epoch <= created, log' = Append(log, r)
        PROVE  \A i \in 1..Len(log') : log'[i].epoch \in Nat /\ log'[i].epoch <= created
    <3>1. r.epoch \in Nat
      BY DEF Records
    <3>. QED
      BY <1>4, <2>2, <3>1, LogGrowsBy
  <2>. QED
    BY <2>1, <2>2
<1>7. \A k \in Nat : k <= created => k <= created'
  BY <1>1
<1>. QED
  BY <1>3, <1>5, <1>6, <1>7 DEF EpochsInv

LEMMA EpochsStep ==
    ASSUME TypeOK, TimeInv, EpochsInv, [Next]_vars
    PROVE  EpochsInv'
<1>. USE DEF kvVars, loopVars, leaseVars, callVars
<1>0. EntryInv /\ created \in Nat /\ created <= created
  BY EpochTypes DEF TimeInv
<1>1. ASSUME NEW n \in Nodes
      PROVE  /\ Fence(myEpoch[n]) \in Records /\ Fence(myEpoch[n]).epoch = myEpoch[n]
             /\ Operations(callEpoch[n]) \in Records
             /\ Operations(callEpoch[n]).epoch = callEpoch[n]
             /\ myEpoch[n] <= created /\ callEpoch[n] <= created
             /\ myEpoch[n] \in Nat /\ callEpoch[n] \in Nat
  BY RecordTypes DEF TypeOK, EpochsInv
<1>2. ASSUME NEW n \in Nodes, Sleep(n), Disown(n) \/ UNCHANGED leaseVars \/ Own(n)
      PROVE  \A m \in Nodes : {epoch'[m], myEpoch'[m]} \subseteq
                 {0, created', epoch[m], myEpoch[m], callEpoch[m], entry.epoch}
  <2>1. \A m \in Nodes : myEpoch'[m] \in {0, myEpoch[m]}
    BY <1>2 DEF Sleep, TypeOK
  <2>2. \A m \in Nodes : epoch'[m] \in {0, epoch[m], myEpoch[m]}
    BY <1>2 DEF Disown, Own, TypeOK
  <2>. QED
    BY <2>1, <2>2
<1>3. ASSUME NEW n \in Nodes, LoopStep(n) \/ KvError(n)
      PROVE  EpochsInv'
  <2>1. created' \in Nat /\ created <= created'
    BY <1>0, <1>3 DEF LoopStep, ReadEntry, Renew, RenewRefused, RenewReply, Create, Promote,
                      PromoteRefused, AppendFence, FenceReply, FenceFails, KvError
  <2>2. UNCHANGED callEpoch
    BY <1>3 DEF LoopStep, ReadEntry, Renew, RenewRefused, RenewReply, Create, Promote,
                PromoteRefused, AppendFence, FenceReply, FenceFails, KvError
  <2>3. /\ UNCHANGED log \/ log' = Append(log, Fence(myEpoch[n]))
        /\ \A r \in late' : r \in late \/ r = Fence(myEpoch[n])
    BY <1>3 DEF LoopStep, ReadEntry, Renew, RenewRefused, RenewReply, Create, Promote,
                PromoteRefused, AppendFence, FenceReply, FenceFails, KvError
  <2>4. \A m \in Nodes : {epoch'[m], myEpoch'[m]} \subseteq
                 {0, created', epoch[m], myEpoch[m], callEpoch[m], entry.epoch}
    <3>1. CASE UNCHANGED <<epoch, myEpoch>>
      BY <3>1
    <3>2. CASE Renew(n) \/ Create(n)
      <4>1. UNCHANGED epoch /\ \A m \in Nodes : myEpoch'[m] \in {myEpoch[m], entry.epoch, created'}
        BY <3>2 DEF Renew, Create, TypeOK
      <4>. QED
        BY <4>1
    <3>3. CASE Sleep(n) /\ (Disown(n) \/ UNCHANGED leaseVars \/ Own(n))
      BY <1>2, <3>3
    <3>4. \/ UNCHANGED <<epoch, myEpoch>>
          \/ Renew(n) \/ Create(n)
          \/ Sleep(n) /\ (Disown(n) \/ UNCHANGED leaseVars \/ Own(n))
      BY <1>3 DEF LoopStep, ReadEntry, Renew, RenewRefused, RenewReply, Create, Promote,
                PromoteRefused, AppendFence, FenceReply, FenceFails, KvError, CertainlyLost,
                PerhapsLost, Own
    <3>. QED
      BY <3>1, <3>2, <3>3, <3>4
  <2>5. \A m \in Nodes : {epoch'[m], myEpoch'[m], callEpoch'[m]} \subseteq
                 {0, created', epoch[m], myEpoch[m], callEpoch[m], entry.epoch}
    BY <2>2, <2>4
  <2>6. UNCHANGED log \/ \E r \in Records : r.epoch <= created /\ log' = Append(log, r)
    BY <1>1, <2>3
  <2>7. \A r \in late' : r \in late \/ (r.epoch \in Nat /\ r.epoch <= created)
    BY <1>1, <2>3
  <2>. QED
    BY <1>0, <2>1, <2>5, <2>6, <2>7, EpochsFrom
<1>4. ASSUME NEW n \in Nodes, HandlerStep(n) \/ Crash(n)
      PROVE  EpochsInv'
  <2>1. created' = created
    BY <1>4 DEF HandlerStep, CheckWriter, RecordLands, Confirm, PublishTimeout, Crash
  <2>2. UNCHANGED log \/ log' = Append(log, Operations(callEpoch[n]))
    BY <1>4 DEF HandlerStep, CheckWriter, RecordLands, Confirm, PublishTimeout, Crash
  <2>3. \A r \in late' : r \in late \/ r = Operations(callEpoch[n]) \/ r = Fence(myEpoch[n])
    BY <1>4 DEF HandlerStep, CheckWriter, RecordLands, Confirm, PublishTimeout, Crash, Abandoned
  <2>4. \A m \in Nodes : {epoch'[m], myEpoch'[m]} \subseteq
                 {0, created', epoch[m], myEpoch[m], callEpoch[m], entry.epoch}
    <3>1. CASE HandlerStep(n)
      BY <3>1 DEF HandlerStep, CheckWriter, RecordLands, Confirm, PublishTimeout
    <3>2. CASE Crash(n)
      BY <1>2, <3>2 DEF Crash
    <3>. QED
      BY <1>4, <3>1, <3>2
  <2>5. \A m \in Nodes : callEpoch'[m] \in {0, epoch[m], callEpoch[m]}
    BY <1>4 DEF HandlerStep, CheckWriter, RecordLands, Confirm, PublishTimeout, Crash, EndCall,
                TypeOK
  <2>6. \A m \in Nodes : {epoch'[m], myEpoch'[m], callEpoch'[m]} \subseteq
                 {0, created', epoch[m], myEpoch[m], callEpoch[m], entry.epoch}
    BY <2>4, <2>5
  <2>7. UNCHANGED log \/ \E r \in Records : r.epoch <= created /\ log' = Append(log, r)
    BY <1>1, <2>2
  <2>8. \A r \in late' : r \in late \/ (r.epoch \in Nat /\ r.epoch <= created)
    BY <1>1, <2>3
  <2>. QED
    BY <1>0, <2>1, <2>6, <2>7, <2>8, EpochsFrom
<1>5. ASSUME NEW r \in late, LateRecordLands(r)
      PROVE  EpochsInv'
  <2>1. UNCHANGED <<created, epoch, myEpoch, callEpoch>> /\ late' \subseteq late
    BY <1>5 DEF LateRecordLands
  <2>2. r \in Records /\ r.epoch <= created /\ log' = Append(log, r)
    BY <1>5 DEF LateRecordLands, TypeOK, EpochsInv
  <2>. QED
    BY <1>0, <2>1, <2>2, EpochsFrom
<1>6. CASE Tick \/ UNCHANGED vars
  BY <1>6 DEF Tick, vars, EpochsInv
<1>. QED
  BY <1>3, <1>4, <1>5, <1>6 DEF Next

-----------------------------------------------------------------------------
(* Acknowledgements *)

\* The slowest reply and the local validity fit into the TTL and the margin of the
\* handlers: 5 s, 4 s and 2.5 s leave a reply up to 3.5 s.
Timely == LeaseTime + MaxLag <= Ttl + Margin

\* Whoever passes ensure_writer owns the entry, and its epoch is that of the last
\* creation.
LEMMA WriterOwnsEntry ==
    ASSUME Timely, TypeOK, TimeInv, NEW n \in Nodes, MayWrite(n)
    PROVE  entry.owner = n /\ epoch[n] = created
<1>1. owned[n] /\ valid[n] > 0 /\ LeaseTime + MaxLag < valid[n] + Ttl
  BY NodeTypes, EpochTypes DEF MayWrite, Timely
<1>2. entry = [owner |-> n, epoch |-> epoch[n]] /\ epoch[n] > 0
  BY <1>1 DEF TimeInv, ValidInv
<1>. QED
  BY <1>2, NodeTypes DEF TimeInv, EntryInv

\* A longer log changes nothing for what was acknowledged and where records landed.
LEMMA AckFrame ==
    ASSUME TypeOK, AckInv, TypeOK',
           UNCHANGED log \/ \E r \in Records : log' = Append(log, r),
           acked' = acked,
           \A n \in Nodes : call'[n] = "landed" =>
              \/ call[n] = "landed" /\ callAt'[n] = callAt[n] /\ callEpoch'[n] = callEpoch[n]
              \/ callAt'[n] \in 1..Len(log') /\ log'[callAt'[n]] = Operations(callEpoch'[n])
    PROVE  AckInv'
<1>1. /\ Len(log) \in Nat /\ Len(log') \in Nat
      /\ \A i \in 1..Len(log) : i \in 1..Len(log') /\ log'[i] = log[i]
  <2>1. CASE UNCHANGED log
    BY <2>1 DEF TypeOK
  <2>2. ASSUME NEW r \in Records, log' = Append(log, r)
        PROVE  /\ Len(log) \in Nat /\ Len(log') \in Nat
               /\ \A i \in 1..Len(log) : i \in 1..Len(log') /\ log'[i] = log[i]
    BY <2>2, LogGrowsBy
  <2>. QED
    BY <2>1, <2>2
<1>2. ASSUME NEW n \in Nodes, call'[n] = "landed"
      PROVE  callAt'[n] \in 1..Len(log') /\ log'[callAt'[n]] = Operations(callEpoch'[n])
  BY <1>1, <1>2 DEF AckInv
<1>3. ASSUME NEW j \in acked
      PROVE  j \in 1..Len(log') /\ \A i \in 1..j : log'[i].epoch <= log'[j].epoch
  <2>1. j \in 1..Len(log) /\ \A i \in 1..j : log[i].epoch <= log[j].epoch
    BY DEF AckInv
  <2>2. \A i \in 1..j : i \in 1..Len(log)
    BY <1>1, <2>1
  <2>. QED
    BY <1>1, <2>1, <2>2
<1>. QED
  BY <1>2, <1>3 DEF AckInv

LEMMA AckStep ==
    ASSUME Timely, TypeOK, TimeInv, EpochsInv, AckInv, [Next]_vars, TypeOK'
    PROVE  AckInv'
<1>. USE DEF kvVars, loopVars, leaseVars, callVars
<1>1. ASSUME NEW n \in Nodes, LoopStep(n) \/ KvError(n)
      PROVE  AckInv'
  <2>1. UNCHANGED <<call, callAt, callEpoch, acked>>
    BY <1>1 DEF LoopStep, ReadEntry, Renew, RenewRefused, RenewReply, Create, Promote,
                PromoteRefused, AppendFence, FenceReply, FenceFails, KvError
  <2>2. UNCHANGED log \/ log' = Append(log, Fence(myEpoch[n]))
    BY <1>1 DEF LoopStep, ReadEntry, Renew, RenewRefused, RenewReply, Create, Promote,
                PromoteRefused, AppendFence, FenceReply, FenceFails, KvError
  <2>3. Fence(myEpoch[n]) \in Records
    BY RecordTypes DEF TypeOK
  <2>. QED
    BY <2>1, <2>2, <2>3, AckFrame
<1>2. ASSUME NEW n \in Nodes, CheckWriter(n)
      PROVE  AckInv'
  <2>1. /\ UNCHANGED <<log, acked, callAt>>
        /\ \A m \in Nodes : call'[m] = "landed" => call[m] = "landed" /\ callEpoch'[m] = callEpoch[m]
    BY <1>2 DEF CheckWriter, TypeOK
  <2>. QED
    BY <2>1, AckFrame
<1>3. ASSUME NEW n \in Nodes, RecordLands(n)
      PROVE  AckInv'
  <2>1. /\ log' = Append(log, Operations(callEpoch[n])) /\ UNCHANGED <<acked, callEpoch>>
        /\ call' = [call EXCEPT ![n] = "landed"] /\ callAt' = [callAt EXCEPT ![n] = Len(log) + 1]
    BY <1>3 DEF RecordLands
  <2>2. Operations(callEpoch[n]) \in Records
    BY RecordTypes DEF TypeOK
  <2>3. /\ Len(log) + 1 \in 1..Len(log') /\ log'[Len(log) + 1] = Operations(callEpoch[n])
    BY <2>1, <2>2, LogGrowsBy
  <2>4. \A m \in Nodes : IF m = n THEN callAt'[m] = Len(log) + 1
                         ELSE callAt'[m] = callAt[m] /\ call'[m] = call[m]
    BY <2>1 DEF TypeOK
  <2>. QED
    BY <2>1, <2>2, <2>3, <2>4, AckFrame
<1>4. ASSUME NEW n \in Nodes, Confirm(n)
      PROVE  AckInv'
  <2>1. /\ call[n] = "landed" /\ UNCHANGED log
        /\ \A m \in Nodes : call'[m] = "landed" =>
              call[m] = "landed" /\ callAt'[m] = callAt[m] /\ callEpoch'[m] = callEpoch[m]
        /\ acked' = IF StillWriter(n) THEN acked \cup {callAt[n]} ELSE acked
    BY <1>4 DEF Confirm, EndCall, TypeOK
  <2>2. CASE ~StillWriter(n)
    BY <2>1, <2>2, AckFrame
  <2>3. CASE StillWriter(n)
    <3>1. callAt[n] \in 1..Len(log) /\ log[callAt[n]] = Operations(callEpoch[n])
      BY <2>1 DEF AckInv
    <3>2. callEpoch[n] = created
      BY <2>3, WriterOwnsEntry DEF StillWriter
    <3>3. log[callAt[n]].epoch = created
      BY <3>1, <3>2, EpochTypes, RecordTypes
    <3>4. \A i \in 1..callAt[n] : i \in 1..Len(log) /\ log[i].epoch <= created
      <4>1. Len(log) \in Nat
        BY DEF TypeOK
      <4>. QED
        BY <3>1, <4>1 DEF EpochsInv
    <3>. QED
      BY <2>1, <3>1, <3>3, <3>4 DEF AckInv
  <2>. QED
    BY <2>2, <2>3
<1>5. ASSUME NEW n \in Nodes, PublishTimeout(n) \/ Crash(n)
      PROVE  AckInv'
  <2>1. /\ UNCHANGED <<log, acked>>
        /\ \A m \in Nodes : call'[m] = "landed" =>
              call[m] = "landed" /\ callAt'[m] = callAt[m] /\ callEpoch'[m] = callEpoch[m]
    BY <1>5 DEF PublishTimeout, Crash, EndCall, TypeOK
  <2>. QED
    BY <2>1, AckFrame
<1>6. ASSUME NEW r \in late, LateRecordLands(r)
      PROVE  AckInv'
  <2>1. /\ UNCHANGED <<call, callAt, callEpoch, acked>> /\ r \in Records /\ log' = Append(log, r)
    BY <1>6 DEF LateRecordLands, TypeOK
  <2>. QED
    BY <2>1, AckFrame
<1>7. CASE Tick \/ UNCHANGED vars
  BY <1>7 DEF Tick, vars, AckInv
<1>. QED
  BY <1>1, <1>2, <1>3, <1>4, <1>5, <1>6, <1>7 DEF Next, HandlerStep

-----------------------------------------------------------------------------
(* The theorems *)

LEMMA LInit ==
    ASSUME Init
    PROVE  LInv
<1>1. TypeOK
  BY LeaseAssumption DEF Init, TypeOK, NoEntry, Stages
<1>2. EntryInv
  BY DEF Init, EntryInv, NoEntry
<1>3. RoundInv /\ ValidInv
  BY DEF Init, RoundInv, ValidInv, Awaiting
<1>4. EpochsInv
  BY DEF Init, EpochsInv
<1>5. AckInv
  BY DEF Init, AckInv
<1>. QED
  BY <1>1, <1>2, <1>3, <1>4, <1>5 DEF LInv

\* The inductive invariant of the lease protocol.
THEOREM LeaseInvariant ==
    ASSUME Timely
    PROVE  Spec => []LInv
<1>1. Init => LInv
  BY LInit
<1>2. LInv /\ [Next]_vars => LInv'
  BY TypeStep, TimeStep, EpochsStep, AckStep DEF LInv, TimeInv
<1>. QED
  BY <1>1, <1>2, PTL DEF Spec

\* Never two nodes that would both pass ensure_writer, however many nodes there are
\* and whatever fails, as long as a KV reply takes no longer than Timely allows.
THEOREM AlwaysOneWriter ==
    ASSUME Timely
    PROVE  Spec => []SingleWriter
<1>1. LInv => SingleWriter
  BY WriterOwnsEntry DEF LInv, TimeInv, SingleWriter
<1>. QED
  BY <1>1, LeaseInvariant, PTL

\* No record is acknowledged behind an operations record of a newer writer.
THEOREM AcksNeverGoBack ==
    ASSUME Timely
    PROVE  Spec => []AcksFollowEpochs
<1>1. ASSUME LInv
      PROVE  AcksFollowEpochs
  <2>1. ASSUME NEW i \in 1..Len(log), NEW j \in acked, i < j
        PROVE  log[i].epoch <= log[j].epoch
    <3>1. /\ j \in 1..Len(log) /\ \A k \in 1..j : log[k].epoch <= log[j].epoch
          /\ Len(log) \in Nat
      BY <1>1 DEF LInv, AckInv, TypeOK
    <3>2. i \in 1..j
      BY <2>1, <3>1
    <3>. QED
      BY <3>1, <3>2
  <2>. QED
    BY <2>1 DEF AcksFollowEpochs
<1>. QED
  BY <1>1, LeaseInvariant, PTL

\* No record is acknowledged behind the fence of a newer writer: catch_up accepts it
\* on every node if its own epoch is fenced.
THEOREM AcksAreNotFencedOff ==
    ASSUME Timely
    PROVE  Spec => []AckedIsNotFencedOff
<1>1. ASSUME LInv
      PROVE  AckedIsNotFencedOff
  <2>1. ASSUME NEW j \in acked
        PROVE  log[j].epoch >= EpochIn(log, j - 1)
    <3>1. /\ j \in 1..Len(log) /\ \A k \in 1..j : log[k].epoch <= log[j].epoch
          /\ Len(log) \in Nat /\ log \in Seq(Records)
      BY <1>1 DEF LInv, AckInv, TypeOK
    <3>2. \A k \in 1..Len(log) : log[k].epoch \in Nat
      <4>1. \A k \in 1..Len(log) : log[k] \in Records
        BY <3>1
      <4>. QED
        BY <4>1 DEF Records
    <3>3. IsLog(log) /\ j - 1 \in 0..Len(log)
      BY <3>1, <3>2 DEF IsLog
    <3>4. /\ EpochIn(log, j - 1) \in Nat
          /\ \/ EpochIn(log, j - 1) = 0
             \/ \E k \in 1..(j - 1) : log[k].kind = "fence" /\ log[k].epoch = EpochIn(log, j - 1)
      BY <3>3, EpochFacts
    <3>5. CASE EpochIn(log, j - 1) = 0
      BY <3>1, <3>2, <3>5
    <3>6. ASSUME NEW k \in 1..(j - 1), log[k].epoch = EpochIn(log, j - 1)
          PROVE  log[j].epoch >= EpochIn(log, j - 1)
      <4>1. k \in 1..j
        BY <3>1
      <4>. QED
        BY <3>1, <3>2, <3>4, <3>6, <4>1
    <3>. QED
      BY <3>4, <3>5, <3>6
  <2>. QED
    BY <2>1 DEF AckedIsNotFencedOff, EpochAfter
<1>. QED
  BY <1>1, LeaseInvariant, PTL
=============================================================================
