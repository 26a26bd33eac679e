----------------------------- MODULE WriterLease -----------------------------
(***************************************************************************)
(* The writer lease: a JetStream KV entry with a TTL, renewed or taken by  *)
(* a loop on every node, an epoch fenced into the replicated log, and the  *)
(* handlers that check the lease before and after they publish a record.   *)
(*                                                                         *)
(* Time is discrete and runs alike for the server and the nodes.  A write  *)
(* at the server and the arrival of its reply are two actions; at most     *)
(* MaxLag ticks lie between them.  A node's loop and its handlers may wait *)
(* as long as they like elsewhere.  Of the entry's revisions two facts are *)
(* kept: whether the one a node knows is still current (cas), and the      *)
(* order of the creations, which is the order of the epochs.               *)
(*                                                                         *)
(* Operators marked "Mutation" are plausible mistakes in the operator      *)
(* below them; the specification does not use them.                        *)
(***************************************************************************)
EXTENDS Naturals, Sequences, AcceptedLog

CONSTANTS
    Nodes,
    Ttl,            \* max_age of the bucket (5 s)
    LeaseTime,      \* local validity from the reply on (4 s)
    Margin,         \* validity a handler asks for (2.5 s)
    MaxLag,         \* longest time from a KV write to its effect at the node
    MaxEpoch,       \* bound on creations of the entry
    MaxLog,         \* bound on the log
    Faults,         \* which failures this instance allows
    NoNode

AllFaults == {"kv", "fence", "publish", "crash"}

ASSUME LeaseAssumption ==
    /\ Ttl \in Nat \ {0} /\ LeaseTime \in Nat \ {0}
    /\ Margin \in Nat
    /\ MaxLag \in Nat /\ MaxEpoch \in Nat /\ MaxLog \in Nat
    /\ Faults \subseteq AllFaults
    /\ NoNode \notin Nodes

VARIABLES
    entry, ttl,             \* the KV entry [owner, epoch], ticks to its expiry
    created,                \* creations so far: the last revision used as epoch
    stage, cas, lag, myEpoch, \* a round of each node's lease loop
    owned, valid, epoch,    \* its LeaseState, valid as ticks left
    log,                    \* fences and operations records, with their epochs
    call, callEpoch, callAt, \* a handler of each node
    late,                   \* records given up by their senders, still on the way
    acked                   \* log positions of acknowledged records

vars == <<entry, ttl, created, stage, cas, lag, myEpoch, owned, valid, epoch,
          log, call, callEpoch, callAt, late, acked>>
kvVars    == <<entry, ttl, created>>
loopVars  == <<stage, cas, lag, myEpoch>>
leaseVars == <<owned, valid, epoch>>
callVars  == <<call, callEpoch, callAt, acked>>

NoEntry == [owner |-> NoNode, epoch |-> 0]

Stages == {"sleep", "own", "renewed", "created", "promoted", "fenced"}

\* The stages between a write that restarts the TTL and its effect at the node.
Awaiting == {"renewed", "promoted", "fenced"}

Fence(e)      == [kind |-> "fence", epoch |-> e]
Operations(e) == [kind |-> "operations", epoch |-> e]
Records       == [kind : {"fence", "operations"}, epoch : Nat]

TypeOK ==
    /\ entry \in [owner : Nodes \cup {NoNode}, epoch : Nat]
    /\ ttl \in 0..Ttl /\ created \in 0..MaxEpoch
    /\ stage \in [Nodes -> Stages] /\ cas \in [Nodes -> BOOLEAN]
    /\ lag \in [Nodes -> 0..MaxLag] /\ myEpoch \in [Nodes -> Nat]
    /\ owned \in [Nodes -> BOOLEAN] /\ valid \in [Nodes -> 0..LeaseTime]
    /\ epoch \in [Nodes -> Nat]
    /\ log \in Seq(Records)
    /\ call \in [Nodes -> {"idle", "checked", "landed"}]
    /\ callEpoch \in [Nodes -> Nat] /\ callAt \in [Nodes -> Nat]
    /\ late \subseteq Records /\ acked \subseteq Nat

Init ==
    /\ entry = NoEntry /\ ttl = 0 /\ created = 0
    /\ stage = [n \in Nodes |-> "sleep"] /\ cas = [n \in Nodes |-> FALSE]
    /\ lag = [n \in Nodes |-> 0] /\ myEpoch = [n \in Nodes |-> 0]
    /\ owned = [n \in Nodes |-> FALSE] /\ valid = [n \in Nodes |-> 0]
    /\ epoch = [n \in Nodes |-> 0]
    /\ log = << >>
    /\ call = [n \in Nodes |-> "idle"] /\ callEpoch = [n \in Nodes |-> 0]
    /\ callAt = [n \in Nodes |-> 0]
    /\ late = {} /\ acked = {}

\* valid_epoch_for(2.5 s): what ensure_writer asks.
MayWrite(n) == owned[n] /\ valid[n] > Margin

-----------------------------------------------------------------------------
(* The lease loop *)

At(n, place) == stage' = [stage EXCEPT ![n] = place]

\* The round is over; what it knew is gone.
Sleep(n) ==
    /\ At(n, "sleep")
    /\ cas' = [cas EXCEPT ![n] = FALSE]
    /\ lag' = [lag EXCEPT ![n] = 0]
    /\ myEpoch' = [myEpoch EXCEPT ![n] = 0]

\* owned = false; what nobody reads without it is reset.
Disown(n) ==
    /\ owned' = [owned EXCEPT ![n] = FALSE]
    /\ valid' = [valid EXCEPT ![n] = 0]
    /\ epoch' = [epoch EXCEPT ![n] = 0]

\* renewed = None: a round that certainly failed ends the ownership, one that
\* may have failed only when the validity is over.
CertainlyLost(n) == Sleep(n) /\ Disown(n)

PerhapsLost(n) ==
    /\ Sleep(n)
    /\ IF valid[n] = 0 THEN Disown(n) ELSE UNCHANGED leaseVars

\* Mutation: the local validity is the whole TTL.
OwnForTtl(n) ==
    /\ Sleep(n)
    /\ owned' = [owned EXCEPT ![n] = TRUE]
    /\ epoch' = [epoch EXCEPT ![n] = myEpoch[n]]
    /\ valid' = [valid EXCEPT ![n] = Ttl]

\* renewed = Some(epoch): the validity starts when the reply is here.
Own(n) ==
    /\ Sleep(n)
    /\ owned' = [owned EXCEPT ![n] = TRUE]
    /\ epoch' = [epoch EXCEPT ![n] = myEpoch[n]]
    /\ valid' = [valid EXCEPT ![n] = LeaseTime]

\* The node reads the entry: its own one is to be renewed, an absent one is
\* taken by Create; someone else's, or a provisional one, means not being the
\* writer.
ReadEntry(n) ==
    /\ stage[n] = "sleep" /\ entry # NoEntry
    /\ \/ /\ entry.owner = n /\ entry.epoch > 0
          /\ At(n, "own")
          /\ cas' = [cas EXCEPT ![n] = TRUE]
          /\ UNCHANGED <<lag, myEpoch, leaseVars>>
       \/ /\ entry.owner # n \/ entry.epoch = 0
          /\ CertainlyLost(n)
    /\ UNCHANGED <<log, late, kvVars, callVars>>

\* A KV write succeeded: only its author knows the current revision.
Write(n, e) ==
    /\ entry' = e /\ ttl' = Ttl
    /\ cas' = [m \in Nodes |-> m = n]

\* Mutation: the entry is put back without comparing revisions.
RenewBlindly(n) ==
    /\ stage[n] = "own"
    /\ Write(n, [owner |-> n, epoch |-> epoch[n]]) /\ At(n, "renewed")
    /\ myEpoch' = [myEpoch EXCEPT ![n] = epoch[n]]
    /\ UNCHANGED <<lag, created, log, late, leaseVars, callVars>>

Renew(n) ==
    /\ stage[n] = "own" /\ cas[n]
    /\ Write(n, entry) /\ At(n, "renewed")
    /\ myEpoch' = [myEpoch EXCEPT ![n] = entry.epoch]
    /\ UNCHANGED <<lag, created, log, late, leaseVars, callVars>>

RenewRefused(n) ==
    /\ stage[n] = "own" /\ ~cas[n] /\ PerhapsLost(n)
    /\ UNCHANGED <<log, late, kvVars, callVars>>

RenewReply(n) ==
    /\ stage[n] = "renewed" /\ Own(n)
    /\ UNCHANGED <<log, late, kvVars, callVars>>

\* A provisional entry first; its revision will be the epoch.  The server creates
\* only what is absent, so reading and creating are one step: who is too late has
\* lost as if it had read the other's entry.
Create(n) ==
    /\ stage[n] = "sleep" /\ entry = NoEntry /\ created < MaxEpoch
    /\ Write(n, [owner |-> n, epoch |-> 0]) /\ At(n, "created")
    /\ created' = created + 1
    /\ myEpoch' = [myEpoch EXCEPT ![n] = created + 1]
    /\ UNCHANGED <<lag, log, late, leaseVars, callVars>>

Promote(n) ==
    /\ stage[n] = "created" /\ cas[n]
    /\ Write(n, [owner |-> n, epoch |-> myEpoch[n]]) /\ At(n, "promoted")
    /\ UNCHANGED <<lag, created, myEpoch, log, late, leaseVars, callVars>>

PromoteRefused(n) ==
    /\ stage[n] = "created" /\ ~cas[n] /\ CertainlyLost(n)
    /\ UNCHANGED <<log, late, kvVars, callVars>>

AppendFence(n) ==
    /\ stage[n] = "promoted" /\ Len(log) < MaxLog
    /\ log' = Append(log, Fence(myEpoch[n]))
    /\ At(n, "fenced")
    /\ UNCHANGED <<lag, cas, myEpoch, late, kvVars, leaseVars, callVars>>

FenceReply(n) ==
    /\ stage[n] = "fenced" /\ Own(n)
    /\ UNCHANGED <<log, late, kvVars, callVars>>

\* The reply to the promotion is lost, or append_fence fails, its record
\* perhaps still on the way; the entry already names this node and its epoch.
FenceFails(n) ==
    /\ "fence" \in Faults
    /\ stage[n] = "promoted" /\ CertainlyLost(n)
    /\ late' \in {late, late \cup {Fence(myEpoch[n])}}
    /\ UNCHANGED <<log, kvVars, callVars>>

\* A request fails or its reply is lost: what the server did stays done.
KvError(n) ==
    /\ "kv" \in Faults
    /\ \/ stage[n] \in {"sleep", "own", "renewed"} /\ PerhapsLost(n)
       \/ stage[n] \in {"created", "fenced"} /\ CertainlyLost(n)
       \/ stage[n] = "sleep" /\ entry = NoEntry /\ CertainlyLost(n)
    /\ UNCHANGED <<log, late, kvVars, callVars>>

-----------------------------------------------------------------------------
(* A handler: ensure_writer, then the preflight, which may wait for long,    *)
(* then the publish with the epoch read before, then ensure_writer again.    *)

CheckWriter(n) ==
    /\ call[n] = "idle" /\ MayWrite(n)
    /\ call' = [call EXCEPT ![n] = "checked"]
    /\ callEpoch' = [callEpoch EXCEPT ![n] = epoch[n]]
    /\ UNCHANGED <<callAt, acked, log, late, kvVars, loopVars, leaseVars>>

\* The record goes out under the epoch of the check, after a preflight that may
\* have waited long, and reaches the quorum.
RecordLands(n) ==
    /\ call[n] = "checked" /\ Len(log) < MaxLog
    /\ log' = Append(log, Operations(callEpoch[n]))
    /\ call' = [call EXCEPT ![n] = "landed"]
    /\ callAt' = [callAt EXCEPT ![n] = Len(log) + 1]
    /\ UNCHANGED <<callEpoch, acked, late, kvVars, loopVars, leaseVars>>

EndCall(n) ==
    /\ call' = [call EXCEPT ![n] = "idle"]
    /\ callEpoch' = [callEpoch EXCEPT ![n] = 0]
    /\ callAt' = [callAt EXCEPT ![n] = 0]

\* Mutation: the lease is not checked again after the quorum's reply.
StillTrusted(n) == TRUE

\* Mutation: the ownership and the epoch are asked for, the validity is not.
StillOwner(n) == owned[n] /\ epoch[n] = callEpoch[n]

\* The second ensure_writer, with the epoch of the first.
StillWriter(n) == MayWrite(n) /\ epoch[n] = callEpoch[n]

\* The acknowledgement is here: 200 if the same epoch still holds, else 503.
Confirm(n) ==
    /\ call[n] = "landed" /\ EndCall(n)
    /\ acked' = IF StillWriter(n) THEN acked \cup {callAt[n]} ELSE acked
    /\ UNCHANGED <<log, late, kvVars, loopVars, leaseVars>>

\* A handler that ends without its answer leaves what it sent on its way.
Abandoned(n) == IF call[n] = "checked" THEN {Operations(callEpoch[n])} ELSE {}

\* replicate gives up after two seconds: 503.
PublishTimeout(n) ==
    /\ "publish" \in Faults
    /\ call[n] \in {"checked", "landed"} /\ EndCall(n)
    /\ late' = late \cup Abandoned(n)
    /\ UNCHANGED <<acked, log, kvVars, loopVars, leaseVars>>

LateRecordLands(r) ==
    /\ Len(log) < MaxLog
    /\ log' = Append(log, r)
    /\ late' = late \ {r}
    /\ UNCHANGED <<callVars, kvVars, loopVars, leaseVars>>

-----------------------------------------------------------------------------
(* Time and crashes *)

Dec(k) == IF k = 0 THEN 0 ELSE k - 1

\* A tick waits for the replies that are due.
Tick ==
    /\ \A n \in Nodes : stage[n] \in Awaiting => lag[n] < MaxLag
    /\ ttl' = Dec(ttl)
    /\ entry' = IF ttl <= 1 THEN NoEntry ELSE entry
    /\ cas' = IF ttl = 1 THEN [n \in Nodes |-> FALSE] ELSE cas
    /\ lag' = [n \in Nodes |-> IF stage[n] \in Awaiting THEN lag[n] + 1 ELSE lag[n]]
    /\ valid' = [n \in Nodes |-> Dec(valid[n])]
    /\ UNCHANGED <<created, stage, myEpoch, owned, epoch, log, late, callVars>>

\* The process dies and comes back under its instance_id; what it has sent, a
\* record or a fence, may arrive later.
Crash(n) ==
    /\ "crash" \in Faults
    /\ Sleep(n) /\ EndCall(n) /\ Disown(n)
    /\ late' = late \cup Abandoned(n)
               \cup (IF stage[n] = "promoted" THEN {Fence(myEpoch[n])} ELSE {})
    /\ UNCHANGED <<acked, log, kvVars>>

-----------------------------------------------------------------------------
LoopStep(n) ==
    \/ ReadEntry(n)
    \/ Renew(n) \/ RenewRefused(n) \/ RenewReply(n)
    \/ Create(n) \/ Promote(n) \/ PromoteRefused(n)
    \/ AppendFence(n) \/ FenceReply(n) \/ FenceFails(n)

HandlerStep(n) ==
    \/ CheckWriter(n) \/ RecordLands(n) \/ Confirm(n)
    \/ PublishTimeout(n)

Next ==
    \/ \E n \in Nodes : LoopStep(n) \/ KvError(n) \/ HandlerStep(n) \/ Crash(n)
    \/ \E r \in late : LateRecordLands(r)
    \/ Tick

Spec == Init /\ [][Next]_vars

-----------------------------------------------------------------------------
(* Properties *)

\* The epoch in force after the first i records, as catch_up computes it.
EpochAfter(i) == EpochIn(log, i)

\* RESULTS.md "Quorum-backed writer fencing": never two nodes that would both
\* pass ensure_writer at the same moment, whatever fails, as long as replies
\* are not slower than MaxLag.
SingleWriter == \A m, n \in Nodes : MayWrite(m) /\ MayWrite(n) => m = n

\* No record is acknowledged behind the fence of a newer writer, whatever the
\* record, its reply, the fences and the handlers had to wait for: if its own
\* epoch is fenced, every replica accepts it.  (A writer that promoted its entry
\* and failed to append its fence renews the entry and writes unfenced; its
\* records are rejected, acknowledged or not.)
AckedIsNotFencedOff == \A i \in acked : log[i].epoch >= EpochAfter(i - 1)

\* Acknowledgements never go back to an older epoch: once a record of a newer
\* writer is in the log, no record of an older one behind it is acknowledged,
\* however late it was sent, landed or was confirmed.
AcksFollowEpochs ==
    \A i \in 1..Len(log), j \in acked :
        i < j /\ log[i].kind = "operations" => log[i].epoch <= log[j].epoch

-----------------------------------------------------------------------------
(* The inductive invariant behind the safety properties                      *)

\* An entry lives as long as its TTL; with an epoch it is that of the last
\* creation; only its owner knows the current revision.
EntryInv ==
    /\ entry = NoEntry <=> ttl = 0
    /\ entry.epoch \in {0, created}
    /\ \A n \in Nodes : cas[n] => entry.owner = n

\* A reply that is still awaited, and not for longer than the TTL, finds the entry
\* as the write left it, with the rest of its TTL.
RoundInv ==
    \A n \in Nodes :
        /\ stage[n] \notin Awaiting => lag[n] = 0
        /\ stage[n] = "own" /\ cas[n] => entry.epoch > 0
        /\ stage[n] = "created" /\ cas[n] => entry.epoch = 0 /\ myEpoch[n] = created
        /\ stage[n] \in Awaiting \cup {"created"} => myEpoch[n] > 0
        /\ stage[n] \in Awaiting /\ lag[n] < Ttl =>
              /\ entry = [owner |-> n, epoch |-> myEpoch[n]]
              /\ Ttl <= ttl + lag[n]

\* While a node's local validity is not used up so far that the slowest reply could
\* account for it, the entry is its own and outlives what is left.
ValidInv ==
    \A n \in Nodes : owned[n] /\ valid[n] > 0 /\ LeaseTime + MaxLag < valid[n] + Ttl =>
        /\ entry = [owner |-> n, epoch |-> epoch[n]] /\ epoch[n] > 0
        /\ valid[n] + Ttl <= ttl + LeaseTime + MaxLag

\* No epoch is ahead of the creations, wherever it is kept.
EpochsInv ==
    /\ \A n \in Nodes : {epoch[n], myEpoch[n], callEpoch[n]} \subseteq 0..created
    /\ \A i \in 1..Len(log) : log[i].epoch <= created
    /\ \A r \in late : r.epoch <= created

\* A handler's record is where it landed; nothing before an acknowledged record has
\* a newer epoch.
AckInv ==
    /\ \A n \in Nodes : call[n] = "landed" =>
          callAt[n] \in 1..Len(log) /\ log[callAt[n]] = Operations(callEpoch[n])
    /\ \A j \in acked :
          j \in 1..Len(log) /\ \A i \in 1..j : log[i].epoch <= log[j].epoch

LInv == TypeOK /\ EntryInv /\ RoundInv /\ ValidInv /\ EpochsInv /\ AckInv
=============================================================================
