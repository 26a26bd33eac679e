------------------------------ MODULE DedupIndex ------------------------------
(***************************************************************************)
(* The disk index of identifiers: the sharded LSM keyspaces, the older     *)
(* read-only stores behind them, and the Bloom filter in front, which a    *)
(* thread rebuilds after every start while lookups and inserts go on.      *)
(* Store takes a lookup for one atomic read of one map; this module says   *)
(* what that map promises.                                                 *)
(*                                                                         *)
(* A fingerprint is stored with its key and never changes, so only the     *)
(* presence of keys is kept.  Fjall's batch commit is atomic, its journal  *)
(* loses an end in a crash and never a middle part.  Operators marked      *)
(* "Mutation" are no part of the specification.                            *)
(***************************************************************************)
EXTENDS Naturals, Sequences, FiniteSets, SequencesExt, FiniteSetsExt

CONSTANTS
    Keys,
    ShardOf,        \* LSM shard of a key: dedup_lsm_shard
    BitsOf,         \* its positions in the filter: bloom_positions
    Shards,         \* the number of LSM shards; they are 1..Shards
    Installations,  \* what older releases left: [lsm, redb], sets of keys
    Readers,        \* concurrent calls of get_many
    MaxKeys,        \* bound on the keys of one call
    MaxInserts,     \* bound on insert_many calls
    MaxCrashes,     \* bound on crashes
    ScanMayFail     \* an invalid key or a read error ends the rebuild

OldLsm == Shards + 1
Redb   == Shards + 2
Sources == 1..Redb      \* in the order get_many asks them
Failed == Redb + 2

ASSUME IndexAssumption ==
    /\ Shards \in Nat \ {0}
    /\ ShardOf \in [Keys -> 1..Shards]
    /\ \A k \in Keys : BitsOf[k] # {}
    /\ \A i \in Installations : i.lsm \subseteq Keys /\ i.redb \subseteq Keys
    /\ MaxKeys \in Nat /\ MaxInserts \in Nat /\ MaxCrashes \in Nat
    /\ ScanMayFail \in BOOLEAN

VARIABLES
    old,            \* the installation found at the first start
    journal,        \* batches committed to the LSM shards, oldest first
    persisted,      \* how many of them a crash cannot take
    inserting,      \* keys of the batch insert_many has not yet put in bloom
    bloom, ready,
    scan, rebuilt,  \* next source of the rebuild (0: done), its image
    reader,         \* [keys, todo, found, owed] of each call
    inserts, crashes

vars == <<old, journal, persisted, inserting, bloom, ready, scan, rebuilt, reader,
          inserts, crashes>>
scanVars == <<scan, rebuilt>>

Batches(js) == UNION ToSet(js)

Bits(ks) == UNION {BitsOf[k] : k \in ks}

\* What source s holds.
Held(s) ==
    IF s = OldLsm THEN old.lsm
    ELSE IF s = Redb THEN old.redb
    ELSE {k \in Batches(journal) : ShardOf[k] = s}

Idle == [keys |-> {}, todo |-> {}, found |-> {}, owed |-> {}]

\* Keys the index has to know: those of completed inserts and of older stores.
Known ==
    LET done == IF inserting = {} THEN journal ELSE Front(journal)
    IN  Batches(done) \cup old.lsm \cup old.redb

TypeOK ==
    /\ old \in Installations
    /\ journal \in Seq(SUBSET Keys) /\ persisted \in 0..Len(journal)
    /\ inserting \subseteq Keys
    /\ (inserting # {} => journal # << >> /\ Last(journal) = inserting)
    /\ bloom \cup rebuilt \subseteq Bits(Keys)
    /\ ready \in BOOLEAN /\ scan \in 0..Failed
    /\ reader \in [Readers -> [keys : SUBSET Keys, todo : SUBSET (Sources \X Keys),
                              found : SUBSET Keys, owed : SUBSET Keys]]
    /\ inserts \in 0..MaxInserts /\ crashes \in 0..MaxCrashes

\* A new directory needs no rebuild; an upgrade starts one.
Init ==
    /\ old \in Installations
    /\ journal = << >> /\ persisted = 0 /\ inserting = {}
    /\ bloom = {} /\ rebuilt = {}
    /\ ready = (old.lsm \cup old.redb = {})
    /\ scan = IF old.lsm \cup old.redb = {} THEN 0 ELSE 1
    /\ reader = [r \in Readers |-> Idle]
    /\ inserts = 0 /\ crashes = 0

-----------------------------------------------------------------------------
(* insert_many: one caller at a time (Store::start, then run_disk_persist) *)

InsertCommit ==
    /\ inserting = {} /\ inserts < MaxInserts
    /\ \E ks \in (SUBSET Keys) \ {{}} :
         /\ Cardinality(ks) <= MaxKeys
         /\ inserting' = ks /\ journal' = Append(journal, ks)
    /\ inserts' = inserts + 1
    /\ UNCHANGED <<old, persisted, bloom, ready, scanVars, reader, crashes>>

\* Under the write lock of the filter.
InsertBloom ==
    /\ inserting # {} /\ inserting' = {}
    /\ bloom' = bloom \cup Bits(inserting)
    /\ UNCHANGED <<old, journal, persisted, ready, scanVars, reader, inserts, crashes>>

Sync ==
    /\ persisted # Len(journal) /\ persisted' = Len(journal)
    /\ UNCHANGED <<old, journal, inserting, bloom, ready, scanVars, reader, inserts, crashes>>

-----------------------------------------------------------------------------
(* rebuild_bloom_in_background *)

\* A scan of one source sees what the source holds when its iterator is made.
ScanSource ==
    /\ scan \in Sources
    /\ rebuilt' = rebuilt \cup Bits(Held(scan))
    /\ scan' = scan + 1
    /\ UNCHANGED <<old, journal, persisted, inserting, bloom, ready, reader, inserts, crashes>>

\* Mutation: the image replaces the filter.
MergedImage == rebuilt

Merged == bloom \cup rebuilt

\* ORed into the filter and announced under its write lock.
ScanDone ==
    /\ scan = Redb + 1
    /\ bloom' = Merged /\ ready' = TRUE
    /\ scan' = 0 /\ rebuilt' = {}
    /\ UNCHANGED <<old, journal, persisted, inserting, reader, inserts, crashes>>

\* Lookups go on without the filter.
ScanFails ==
    /\ ScanMayFail /\ scan \in Sources
    /\ scan' = Failed /\ rebuilt' = {}
    /\ UNCHANGED <<old, journal, persisted, inserting, bloom, ready, reader, inserts, crashes>>

-----------------------------------------------------------------------------
(* get_many *)

\* Keys the filter does not exclude; flag and filter are read under one lock.
Candidates(ks) == {k \in ks : ready => BitsOf[k] \subseteq bloom}

\* Where a key is looked for: its shard, the old keyspace, and the old files
\* unless they were empty at the start (legacy_fallback).
Places(k) ==
    {<<ShardOf[k], k>>, <<OldLsm, k>>} \cup
    (IF old.redb = {} THEN {} ELSE {<<Redb, k>>})

Lookup(r) ==
    /\ reader[r].keys = {}
    /\ \E ks \in (SUBSET Keys) \ {{}} :
         /\ Cardinality(ks) <= MaxKeys
         /\ reader' = [reader EXCEPT ![r] =
              [keys |-> ks, todo |-> UNION {Places(k) : k \in Candidates(ks)},
               found |-> {}, owed |-> ks \cap Known]]
    /\ UNCHANGED <<old, journal, persisted, inserting, bloom, ready, scanVars, inserts, crashes>>

\* Mutation: a miss in the shard ends the search for the key.
LeftOnce(todo, p, hit) == {q \in todo : q[2] # p[2]}

\* A key that was found is not looked for again.
Left(todo, p, hit) == {q \in todo : IF hit THEN q[2] # p[2] ELSE q # p}

\* One key in one source.
Ask(r) ==
    /\ reader[r].todo # {}
    /\ \E p \in reader[r].todo :
         /\ \A q \in reader[r].todo : p[1] <= q[1]
         /\ LET hit == p[2] \in Held(p[1])
            IN  reader' = [reader EXCEPT
                  ![r].found = IF hit THEN @ \cup {p[2]} ELSE @,
                  ![r].todo = Left(@, p, hit)]
    /\ UNCHANGED <<old, journal, persisted, inserting, bloom, ready, scanVars, inserts, crashes>>

Return(r) ==
    /\ reader[r].keys # {} /\ reader[r].todo = {}
    /\ reader' = [reader EXCEPT ![r] = Idle]
    /\ UNCHANGED <<old, journal, persisted, inserting, bloom, ready, scanVars, inserts, crashes>>

-----------------------------------------------------------------------------
\* What a crash may leave of the journal.
Survivors == {SubSeq(journal, 1, n) : n \in persisted..Len(journal)}

\* The process dies and starts again: the directory exists, so the filter is
\* empty and not ready, and a rebuild starts.
Restart ==
    /\ crashes < MaxCrashes /\ crashes' = crashes + 1
    /\ journal' \in Survivors
    /\ inserting' = {} /\ bloom' = {} /\ ready' = FALSE
    /\ scan' = 1 /\ rebuilt' = {}
    /\ reader' = [r \in Readers |-> Idle]
    /\ UNCHANGED <<old, persisted, inserts>>

Scanner == ScanSource \/ ScanDone \/ ScanFails
Reading(r) == Ask(r) \/ Return(r)

Next ==
    \/ InsertCommit \/ InsertBloom \/ Sync
    \/ Scanner
    \/ \E r \in Readers : Lookup(r) \/ Reading(r)
    \/ Restart

Spec == Init /\ [][Next]_vars

-----------------------------------------------------------------------------
(* Properties *)

\* dedup_disk.rs:422-424: a key whose insert had returned, or that an older
\* release left, when get_many began is found by it, before, during and after
\* the rebuild.
NoFalseNegative ==
    \A r \in Readers : reader[r].todo = {} => reader[r].owed \subseteq reader[r].found

\* Once the filter excludes keys it covers every key it must not exclude.
FilterCovers == ready => Bits(Known) \subseteq bloom

-----------------------------------------------------------------------------
(* The inductive invariant behind them                                       *)

\* While a rebuild runs, a key that the index has to know is in the filter, in the
\* image, or in a source the scan has not reached: an insert that the scan of its
\* shard missed puts its bits into the filter itself.
ScanInv ==
    scan \in 1..(Redb + 1) => \A k \in Known :
        \/ BitsOf[k] \subseteq bloom \cup rebuilt
        \/ \E s \in Sources : s >= scan /\ k \in Held(s)

\* A key owed to a caller is found, or one of the places left for it holds it.
OwedInv ==
    \A r \in Readers : \A k \in reader[r].owed :
        \/ k \in reader[r].found
        \/ \E s \in Sources : <<s, k>> \in reader[r].todo /\ k \in Held(s)

XInv == TypeOK /\ FilterCovers /\ ScanInv /\ OwedInv
=============================================================================
