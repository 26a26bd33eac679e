-------------------------- MODULE DedupIndexProofs --------------------------
(***************************************************************************)
(* Proofs about DedupIndex, for any keys, filter positions, shards, older  *)
(* installations, callers and crashes: the rebuilt filter never excludes a *)
(* key it has to know, and no caller misses one, whatever insert_many, the *)
(* rebuild and get_many interleave.                                        *)
(***************************************************************************)
EXTENDS DedupIndex, TLAPS

-----------------------------------------------------------------------------
(* Batches of the journal *)

LEMMA BatchOf ==
    ASSUME NEW js \in Seq(SUBSET Keys), NEW k
    PROVE  k \in Batches(js) <=> \E i \in 1..Len(js) : k \in js[i]
BY DEF Batches, ToSet

LEMMA BatchesIn ==
    ASSUME NEW js \in Seq(SUBSET Keys)
    PROVE  Batches(js) \subseteq Keys
<1>. SUFFICES ASSUME NEW k \in Batches(js)
              PROVE  k \in Keys
  OBVIOUS
<1>1. PICK i \in 1..Len(js) : k \in js[i]
  BY BatchOf
<1>2. js[i] \in SUBSET Keys
  OBVIOUS
<1>. QED
  BY <1>1, <1>2

LEMMA Cut ==
    ASSUME NEW js \in Seq(SUBSET Keys), NEW n \in 0..Len(js)
    PROVE  /\ SubSeq(js, 1, n) \in Seq(SUBSET Keys)
           /\ Len(SubSeq(js, 1, n)) = n
           /\ \A i \in 1..n : SubSeq(js, 1, n)[i] = js[i]
BY Len(js) \in Nat

LEMMA FrontAppend ==
    ASSUME NEW js \in Seq(SUBSET Keys), NEW ks \in SUBSET Keys
    PROVE  /\ Append(js, ks) \in Seq(SUBSET Keys)
           /\ Front(Append(js, ks)) = js /\ Last(Append(js, ks)) = ks
           /\ Batches(js) \subseteq Batches(Append(js, ks))
<1>1. Append(js, ks) \in Seq(SUBSET Keys) /\ Len(Append(js, ks)) = Len(js) + 1 /\ Len(js) \in Nat
  OBVIOUS
<1>2. \A i \in 1..Len(js) : Append(js, ks)[i] = js[i]
  OBVIOUS
<1>3. Front(Append(js, ks)) = js
  <2>1. Front(Append(js, ks)) = SubSeq(Append(js, ks), 1, Len(js))
    BY <1>1 DEF Front
  <2>2. /\ SubSeq(Append(js, ks), 1, Len(js)) \in Seq(SUBSET Keys)
        /\ Len(SubSeq(Append(js, ks), 1, Len(js))) = Len(js)
        /\ \A i \in 1..Len(js) : SubSeq(Append(js, ks), 1, Len(js))[i] = js[i]
    BY <1>1, <1>2
  <2>. QED
    BY <2>1, <2>2
<1>4. Last(Append(js, ks)) = ks
  BY <1>1 DEF Last
<1>5. ASSUME NEW k \in Batches(js)
      PROVE  k \in Batches(Append(js, ks))
  <2>1. PICK i \in 1..Len(js) : k \in js[i]
    BY BatchOf
  <2>2. i \in 1..Len(Append(js, ks)) /\ k \in Append(js, ks)[i]
    BY <1>1, <1>2, <2>1
  <2>. QED
    BY <1>1, <2>2, BatchOf
<1>. QED
  BY <1>1, <1>3, <1>4, <1>5

LEMMA FrontLast ==
    ASSUME NEW js \in Seq(SUBSET Keys), js # << >>
    PROVE  /\ Front(js) \in Seq(SUBSET Keys) /\ Last(js) \in SUBSET Keys
           /\ Batches(js) = Batches(Front(js)) \cup Last(js)
<1>1. Len(js) \in Nat \ {0}
  OBVIOUS
<1>2. Front(js) = SubSeq(js, 1, Len(js) - 1) /\ Last(js) = js[Len(js)]
  BY DEF Front, Last
<1>3. /\ Front(js) \in Seq(SUBSET Keys) /\ Len(Front(js)) = Len(js) - 1
      /\ \A i \in 1..(Len(js) - 1) : Front(js)[i] = js[i]
  <2>1. PICK n \in 0..Len(js) : n = Len(js) - 1
    BY SMTT(30), <1>1
  <2>2. Front(js) = SubSeq(js, 1, n)
    BY <1>2, <2>1
  <2>. QED
    BY <2>1, <2>2, Cut
<1>4. Last(js) \in SUBSET Keys
  BY <1>1, <1>2
<1>5. ASSUME NEW k
      PROVE  k \in Batches(js) <=> k \in Batches(Front(js)) \cup Last(js)
  <2>1. (\E i \in 1..Len(js) : k \in js[i])
        <=> ((\E i \in 1..(Len(js) - 1) : k \in js[i]) \/ k \in js[Len(js)])
    BY <1>1
  <2>2. k \in Batches(Front(js)) <=> \E i \in 1..(Len(js) - 1) : k \in js[i]
    BY <1>3, BatchOf
  <2>. QED
    BY <1>2, <2>1, <2>2, BatchOf
<1>. QED
  BY <1>3, <1>4, <1>5

-----------------------------------------------------------------------------
(* Sources *)

LEMMA ConstantFacts ==
    /\ Shards \in Nat \ {0} /\ OldLsm \in Nat /\ Redb \in Nat
    /\ OldLsm \in Sources /\ Redb \in Sources /\ OldLsm # Redb /\ Sources \subseteq Nat
    /\ \A k \in Keys : ShardOf[k] \in Sources /\ ShardOf[k] # OldLsm /\ ShardOf[k] # Redb
BY IndexAssumption DEF OldLsm, Redb, Sources

\* Each known key is in the shard it belongs to, or in an older store.
LEMMA HeldWhere ==
    ASSUME TypeOK, NEW k
    PROVE  /\ \A s \in Sources : k \in Held(s) => k \in Keys
           /\ k \in old.lsm => k \in Held(OldLsm)
           /\ k \in old.redb => k \in Held(Redb)
           /\ k \in Batches(journal) => k \in Keys /\ k \in Held(ShardOf[k])
<1>1. Batches(journal) \subseteq Keys
  BY BatchesIn DEF TypeOK
<1>2. old.lsm \subseteq Keys /\ old.redb \subseteq Keys
  BY IndexAssumption DEF TypeOK
<1>. QED
  BY <1>1, <1>2, ConstantFacts DEF Held

\* Known keys are keys, and the journal without an unfinished insert is part of it.
LEMMA KnownFacts ==
    ASSUME TypeOK
    PROVE  /\ Known \subseteq Keys
           /\ Known \subseteq Batches(journal) \cup old.lsm \cup old.redb
           /\ inserting = {} => Known = Batches(journal) \cup old.lsm \cup old.redb
           /\ inserting # {} => Batches(journal) \cup old.lsm \cup old.redb = Known \cup inserting
<1>1. Batches(journal) \subseteq Keys
  BY BatchesIn DEF TypeOK
<1>2. old.lsm \subseteq Keys /\ old.redb \subseteq Keys
  BY IndexAssumption DEF TypeOK
<1>3. CASE inserting = {}
  BY <1>1, <1>2, <1>3 DEF Known
<1>4. CASE inserting # {}
  <2>1. Batches(journal) = Batches(Front(journal)) \cup inserting
    BY <1>4, FrontLast DEF TypeOK
  <2>2. Known = Batches(Front(journal)) \cup old.lsm \cup old.redb
    BY <1>4 DEF Known
  <2>. QED
    BY <1>1, <1>2, <1>4, <2>1, <2>2
<1>. QED
  BY <1>3, <1>4

\* A known key is held by some source.
LEMMA KnownIsHeld ==
    ASSUME TypeOK, NEW k \in Known
    PROVE  \E s \in Sources : k \in Held(s) /\ <<s, k>> \in Places(k)
<1>1. k \in Batches(journal) \cup old.lsm \cup old.redb /\ k \in Keys
  BY KnownFacts
<1>2. CASE k \in Batches(journal)
  BY <1>1, <1>2, HeldWhere, ConstantFacts DEF Places
<1>3. CASE k \in old.lsm
  BY <1>3, HeldWhere, ConstantFacts DEF Places
<1>4. CASE k \in old.redb
  BY <1>4, HeldWhere, ConstantFacts DEF Places
<1>. QED
  BY <1>1, <1>2, <1>3, <1>4

\* An insert or a scan only adds to what a source holds.
LEMMA HeldGrows ==
    ASSUME TypeOK, old' = old, NEW ks \in SUBSET Keys,
           journal' = journal \/ journal' = Append(journal, ks), NEW s \in Sources
    PROVE  Held(s) \subseteq Held(s)'
<1>1. Batches(journal) \subseteq Batches(journal')
  BY FrontAppend DEF TypeOK
<1>. QED
  BY <1>1 DEF Held

\* Known keys are what they were where the journal's finished part and the older
\* stores are.
LEMMA KnownFrame ==
    ASSUME TypeOK, UNCHANGED <<old, journal, inserting>>
    PROVE  Known' = Known /\ \A s \in Sources : Held(s)' = Held(s)
BY DEF Known, Held

LEMMA BitsFacts ==
    /\ \A ks : \A k \in ks : BitsOf[k] \subseteq Bits(ks)
    /\ \A ks, set : (\A k \in ks : BitsOf[k] \subseteq set) <=> Bits(ks) \subseteq set
    /\ \A ks : ks \subseteq Keys => Bits(ks) \subseteq Bits(Keys)
BY DEF Bits

\* The filter excludes no key the index has to know.
LEMMA CandidatesKnown ==
    ASSUME FilterCovers, NEW ks
    PROVE  ks \cap Known \subseteq Candidates(ks)
BY BitsFacts DEF FilterCovers, Candidates

-----------------------------------------------------------------------------
(* Types *)

LEMMA XInit ==
    ASSUME Init
    PROVE  XInv
<1>1. old \in Installations /\ journal = << >> /\ Batches(journal) = {}
  BY DEF Init, Batches, ToSet
<1>2. TypeOK
  <2>1. Idle \in [keys : SUBSET Keys, todo : SUBSET (Sources \X Keys),
                  found : SUBSET Keys, owed : SUBSET Keys]
    BY DEF Idle
  <2>2. scan \in 0..Failed
    BY ConstantFacts DEF Init, Failed, Redb
  <2>3. inserts \in 0..MaxInserts /\ crashes \in 0..MaxCrashes
    BY IndexAssumption DEF Init
  <2>4. << >> \in Seq(SUBSET Keys) /\ 0 \in 0..Len(<< >>)
    OBVIOUS
  <2>5. ready \in BOOLEAN /\ reader \in [Readers -> {Idle}]
    BY DEF Init
  <2>. QED
    BY <2>1, <2>2, <2>3, <2>4, <2>5 DEF Init, TypeOK
<1>3. Known = old.lsm \cup old.redb
  BY <1>1 DEF Init, Known
<1>4. FilterCovers
  BY <1>3 DEF Init, FilterCovers, Bits
<1>5. ScanInv
  <2>1. ASSUME scan \in 1..(Redb + 1), NEW k \in Known
        PROVE  \E s \in Sources : s >= scan /\ k \in Held(s)
    <3>1. scan = 1
      BY <2>1 DEF Init
    <3>2. \A s \in Sources : s >= scan
      BY <3>1, ConstantFacts DEF Sources
    <3>. QED
      BY <1>2, <3>2, KnownIsHeld
  <2>. QED
    BY <2>1 DEF ScanInv
<1>6. OwedInv
  BY DEF Init, OwedInv, Idle
<1>. QED
  BY <1>2, <1>4, <1>5, <1>6 DEF XInv

\* What a call of get_many is made of.
LEMMA ReaderType ==
    ASSUME TypeOK, NEW r \in Readers
    PROVE  /\ reader[r].keys \subseteq Keys /\ reader[r].found \subseteq Keys
           /\ reader[r].owed \subseteq Keys /\ reader[r].todo \subseteq Sources \X Keys
BY DEF TypeOK

LEMMA PlacesType ==
    ASSUME NEW ks \in SUBSET Keys
    PROVE  UNION {Places(k) : k \in ks} \subseteq Sources \X Keys
BY ConstantFacts DEF Places

\* One key in one source, as seen by the caller.
LEMMA AskStep ==
    ASSUME TypeOK, NEW r \in Readers, Ask(r)
    PROVE  /\ reader' \in [Readers -> [keys : SUBSET Keys, todo : SUBSET (Sources \X Keys),
                                       found : SUBSET Keys, owed : SUBSET Keys]]
           /\ \E p \in reader[r].todo :
                /\ reader'[r].owed = reader[r].owed
                /\ reader'[r].todo = Left(reader[r].todo, p, p[2] \in Held(p[1]))
                /\ reader'[r].found = IF p[2] \in Held(p[1]) THEN reader[r].found \cup {p[2]}
                                                             ELSE reader[r].found
           /\ \A q \in Readers : q # r => reader'[q] = reader[q]
<1>1. PICK p \in reader[r].todo :
        reader' = [reader EXCEPT
           ![r].found = IF p[2] \in Held(p[1]) THEN @ \cup {p[2]} ELSE @,
           ![r].todo = Left(@, p, p[2] \in Held(p[1]))]
  BY DEF Ask
<1>. DEFINE todo  == Left(reader[r].todo, p, p[2] \in Held(p[1]))
            found == IF p[2] \in Held(p[1]) THEN reader[r].found \cup {p[2]} ELSE reader[r].found
            T     == Sources \X Keys
<1>2. p[2] \in Keys /\ todo \in SUBSET T /\ found \in SUBSET Keys
  BY ReaderType DEF Left
<1>3. reader' = [reader EXCEPT ![r].found = found, ![r].todo = todo]
  BY <1>1
<1>4. reader \in [Readers -> [keys : SUBSET Keys, todo : SUBSET T,
                             found : SUBSET Keys, owed : SUBSET Keys]]
  BY DEF TypeOK
<1>5. /\ reader' \in [Readers -> [keys : SUBSET Keys, todo : SUBSET T,
                                  found : SUBSET Keys, owed : SUBSET Keys]]
      /\ reader'[r].owed = reader[r].owed /\ reader'[r].todo = todo
      /\ reader'[r].found = found
      /\ \A q \in Readers : q # r => reader'[q] = reader[q]
  <2>. HIDE DEF todo, found, T
  <2>. QED
    BY <1>2, <1>3, <1>4
<1>. QED
  BY <1>5

LEMMA TypeStep ==
    ASSUME TypeOK, [Next]_vars
    PROVE  TypeOK'
<1>. USE DEF scanVars
<1>0. /\ Redb \in Nat /\ Failed = Redb + 2 /\ Sources = 1..Redb
      /\ MaxInserts \in Nat /\ MaxCrashes \in Nat
  BY ConstantFacts, IndexAssumption DEF Failed, Sources
<1>1. CASE InsertCommit
  <2>1. PICK ks \in (SUBSET Keys) \ {{}} : inserting' = ks /\ journal' = Append(journal, ks)
    BY <1>1 DEF InsertCommit
  <2>2. journal' \in Seq(SUBSET Keys) /\ Last(journal') = inserting'
    BY <2>1, FrontAppend DEF TypeOK
  <2>20. Len(journal') = Len(journal) + 1 /\ Len(journal) \in Nat /\ journal' # << >>
    BY <2>1 DEF TypeOK
  <2>3. persisted' \in 0..Len(journal')
    BY <1>1, <2>1 DEF TypeOK, InsertCommit
  <2>4. inserts' \in 0..MaxInserts
    BY <1>0, <1>1 DEF TypeOK, InsertCommit
  <2>. QED
    BY <1>1, <2>1, <2>2, <2>20, <2>3, <2>4 DEF TypeOK, InsertCommit
<1>2. CASE InsertBloom
  <2>1. Bits(inserting) \subseteq Bits(Keys)
    BY BitsFacts DEF TypeOK
  <2>. QED
    BY <1>2, <2>1 DEF TypeOK, InsertBloom
<1>3. CASE Sync
  BY <1>3 DEF TypeOK, Sync
<1>4. CASE ScanSource
  <2>1. Held(scan) \subseteq Keys
    BY <1>4, HeldWhere DEF ScanSource
  <2>2. Bits(Held(scan)) \subseteq Bits(Keys)
    BY <2>1, BitsFacts
  <2>3. scan' \in 0..Failed
    BY <1>0, <1>4 DEF ScanSource
  <2>. QED
    BY <1>4, <2>2, <2>3 DEF TypeOK, ScanSource
<1>5. CASE ScanDone
  BY <1>0, <1>5 DEF TypeOK, ScanDone, Merged
<1>6. CASE ScanFails
  BY <1>0, <1>6 DEF TypeOK, ScanFails
<1>7. ASSUME NEW r \in Readers, Lookup(r)
      PROVE  TypeOK'
  <2>1. PICK ks \in SUBSET Keys :
          reader' = [reader EXCEPT ![r] =
              [keys |-> ks, todo |-> UNION {Places(k) : k \in Candidates(ks)},
               found |-> {}, owed |-> ks \cap Known]]
    BY <1>7 DEF Lookup
  <2>2. UNION {Places(k) : k \in Candidates(ks)} \subseteq Sources \X Keys
    BY PlacesType, Candidates(ks) \subseteq Keys DEF Candidates
  <2>. QED
    BY <1>7, <2>1, <2>2 DEF TypeOK, Lookup
<1>8. ASSUME NEW r \in Readers, Ask(r)
      PROVE  TypeOK'
  BY <1>8, AskStep DEF TypeOK, Ask
<1>9. ASSUME NEW r \in Readers, Return(r)
      PROVE  TypeOK'
  BY <1>9 DEF TypeOK, Return, Idle
<1>10. CASE Restart
  <2>1. PICK n \in persisted..Len(journal) : journal' = SubSeq(journal, 1, n)
    BY <1>10 DEF Restart, Survivors
  <2>2. n \in 0..Len(journal) /\ persisted \in 0..n
    BY DEF TypeOK
  <2>3. journal' \in Seq(SUBSET Keys) /\ persisted' \in 0..Len(journal')
    BY <1>10, <2>1, <2>2, Cut DEF TypeOK, Restart
  <2>4. crashes' \in 0..MaxCrashes /\ scan' \in 0..Failed
    BY <1>0, <1>10 DEF TypeOK, Restart
  <2>5. reader' \in [Readers -> [keys : SUBSET Keys, todo : SUBSET (Sources \X Keys),
                                 found : SUBSET Keys, owed : SUBSET Keys]]
    BY <1>10 DEF Restart, Idle
  <2>. QED
    BY <1>10, <2>3, <2>4, <2>5 DEF TypeOK, Restart
<1>11. CASE UNCHANGED vars
  BY <1>11 DEF TypeOK, vars
<1>. QED
  BY <1>1, <1>2, <1>3, <1>4, <1>5, <1>6, <1>7, <1>8, <1>9, <1>10, <1>11
     DEF Next, Scanner, Reading

-----------------------------------------------------------------------------
(* The filter *)

LEMMA FilterStep ==
    ASSUME TypeOK, FilterCovers, ScanInv, [Next]_vars
    PROVE  FilterCovers'
<1>. USE DEF scanVars
<1>1. CASE InsertCommit
  <2>1. PICK ks \in (SUBSET Keys) \ {{}} : inserting' = ks /\ journal' = Append(journal, ks)
    BY <1>1 DEF InsertCommit
  <2>2. inserting = {} /\ inserting' # {} /\ Front(journal') = journal
    BY <1>1, <2>1, FrontAppend DEF TypeOK, InsertCommit
  <2>3. Known' = Known
    BY <1>1, <2>2 DEF Known, InsertCommit
  <2>. QED
    BY <1>1, <2>3 DEF FilterCovers, InsertCommit
<1>2. CASE InsertBloom
  <2>1. Known' = Known \cup inserting
    <3>1. Known' = Batches(journal) \cup old.lsm \cup old.redb
      BY <1>2 DEF Known, InsertBloom
    <3>. QED
      BY <1>2, <3>1, KnownFacts DEF InsertBloom
  <2>2. \A k \in inserting : BitsOf[k] \subseteq bloom'
    BY <1>2, BitsFacts DEF InsertBloom
  <2>3. ready => \A k \in Known : BitsOf[k] \subseteq bloom'
    BY <1>2, BitsFacts DEF FilterCovers, InsertBloom
  <2>4. ready' => \A k \in Known' : BitsOf[k] \subseteq bloom'
    BY <1>2, <2>1, <2>2, <2>3 DEF InsertBloom
  <2>. QED
    BY <2>4, BitsFacts DEF FilterCovers
<1>3. CASE ScanDone
  <2>1. \A k \in Known : BitsOf[k] \subseteq bloom'
    <3>1. \A s \in Sources : ~(s >= scan)
      BY <1>3, ConstantFacts DEF ScanDone, Sources
    <3>2. scan \in 1..(Redb + 1)
      BY <1>3, ConstantFacts DEF ScanDone
    <3>. QED
      BY <1>3, <3>1, <3>2 DEF ScanInv, ScanDone, Merged
  <2>2. Known' = Known
    BY <1>3, KnownFrame DEF ScanDone
  <2>. QED
    BY <2>1, <2>2, BitsFacts DEF FilterCovers
<1>4. CASE Restart
  BY <1>4 DEF Restart, FilterCovers
<1>5. CASE UNCHANGED <<old, journal, inserting, bloom, ready>>
  BY <1>5, KnownFrame DEF FilterCovers
<1>. QED
  BY <1>1, <1>2, <1>3, <1>4, <1>5
     DEF Next, Scanner, Reading, vars, Sync, ScanSource, ScanFails, Lookup, Ask, Return

LEMMA ScanStep ==
    ASSUME TypeOK, ScanInv, [Next]_vars, TypeOK'
    PROVE  ScanInv'
<1>. USE DEF scanVars
<1>1. CASE InsertCommit
  <2>1. PICK ks \in (SUBSET Keys) \ {{}} : inserting' = ks /\ journal' = Append(journal, ks)
    BY <1>1 DEF InsertCommit
  <2>2. inserting = {} /\ inserting' # {} /\ Front(journal') = journal
    BY <1>1, <2>1, FrontAppend DEF TypeOK, InsertCommit
  <2>3. Known' = Known
    BY <1>1, <2>2 DEF Known, InsertCommit
  <2>4. \A s \in Sources : Held(s) \subseteq Held(s)'
    BY <1>1, <2>1, HeldGrows DEF InsertCommit
  <2>. QED
    BY <1>1, <2>3, <2>4 DEF ScanInv, InsertCommit
<1>2. CASE InsertBloom
  <2>1. Known' = Known \cup inserting
    <3>1. Known' = Batches(journal) \cup old.lsm \cup old.redb
      BY <1>2 DEF Known, InsertBloom
    <3>. QED
      BY <1>2, <3>1, KnownFacts DEF InsertBloom
  <2>2. \A s \in Sources : Held(s)' = Held(s)
    BY <1>2 DEF Held, InsertBloom
  <2>3. bloom' = bloom \cup Bits(inserting) /\ UNCHANGED <<scan, rebuilt>>
    BY <1>2 DEF InsertBloom
  <2>4. \A k \in inserting : BitsOf[k] \subseteq bloom' \cup rebuilt'
    BY <2>3, BitsFacts
  <2>5. SUFFICES ASSUME scan \in 1..(Redb + 1), NEW k \in Known
                 PROVE  \/ BitsOf[k] \subseteq bloom' \cup rebuilt'
                        \/ \E s \in Sources : s >= scan /\ k \in Held(s)'
    BY <2>1, <2>3, <2>4 DEF ScanInv
  <2>. QED
    BY <2>2, <2>3, <2>5 DEF ScanInv
<1>3. CASE ScanSource
  <2>1. Known' = Known /\ \A s \in Sources : Held(s)' = Held(s)
    BY <1>3, KnownFrame DEF ScanSource
  <2>2. /\ scan \in Sources /\ scan' = scan + 1 /\ bloom' = bloom
        /\ rebuilt' = rebuilt \cup Bits(Held(scan))
    BY <1>3 DEF ScanSource
  <2>3. scan \in 1..(Redb + 1) /\ \A s \in Sources : s >= scan => s = scan \/ s >= scan'
    BY <2>2, ConstantFacts DEF Sources
  <2>4. \A k \in Held(scan) : BitsOf[k] \subseteq rebuilt'
    BY <2>2, BitsFacts
  <2>5. ASSUME NEW k \in Known
        PROVE  \/ BitsOf[k] \subseteq bloom' \cup rebuilt'
               \/ \E s \in Sources : s >= scan' /\ k \in Held(s)'
    BY <2>1, <2>2, <2>3, <2>4 DEF ScanInv
  <2>. QED
    BY <2>1, <2>5 DEF ScanInv
<1>4. CASE ScanDone \/ ScanFails
  <2>1. scan' \notin 1..(Redb + 1)
    BY <1>4, ConstantFacts DEF ScanDone, ScanFails, Failed
  <2>. QED
    BY <2>1 DEF ScanInv
<1>5. CASE Restart
  <2>1. scan' = 1 /\ \A s \in Sources : s >= scan'
    BY <1>5, ConstantFacts DEF Restart, Sources
  <2>2. \A k \in Known' : \E s \in Sources : k \in Held(s)'
    <3>1. journal' \in Seq(SUBSET Keys)
      BY DEF TypeOK
    <3>2. Known' = Batches(journal') \cup old.lsm \cup old.redb
      BY <1>5 DEF Known, Restart
    <3>3. \A k \in old.lsm : k \in Held(OldLsm)'
      BY <1>5 DEF Restart, Held
    <3>4. \A k \in old.redb : k \in Held(Redb)'
      BY <1>5, ConstantFacts DEF Restart, Held
    <3>5. \A k \in Batches(journal') : ShardOf[k] \in Sources /\ k \in Held(ShardOf[k])'
      BY <3>1, BatchesIn, ConstantFacts DEF Held
    <3>. QED
      BY <3>2, <3>3, <3>4, <3>5, ConstantFacts
  <2>. QED
    BY <2>1, <2>2 DEF ScanInv
<1>6. CASE UNCHANGED <<old, journal, inserting, bloom, scan, rebuilt>>
  BY <1>6, KnownFrame DEF ScanInv
<1>. QED
  BY <1>1, <1>2, <1>3, <1>4, <1>5, <1>6
     DEF Next, Scanner, Reading, vars, Sync, Lookup, Ask, Return

-----------------------------------------------------------------------------
(* The callers *)

\* Sources only grow while a call runs, so the places left for it still hold what they held.
LEMMA OwedFrame ==
    ASSUME TypeOK, OwedInv, reader' = reader,
           \A s \in Sources : Held(s) \subseteq Held(s)'
    PROVE  OwedInv'
BY DEF OwedInv

LEMMA OwedStep ==
    ASSUME TypeOK, FilterCovers, OwedInv, [Next]_vars
    PROVE  OwedInv'
<1>. USE DEF scanVars
<1>1. CASE InsertCommit
  <2>1. PICK ks \in (SUBSET Keys) \ {{}} : inserting' = ks /\ journal' = Append(journal, ks)
    BY <1>1 DEF InsertCommit
  <2>2. \A s \in Sources : Held(s) \subseteq Held(s)'
    BY <1>1, <2>1, HeldGrows DEF InsertCommit
  <2>. QED
    BY <1>1, <2>2, OwedFrame DEF InsertCommit
<1>2. CASE UNCHANGED <<old, journal, reader>>
  BY <1>2, OwedFrame DEF Held
<1>3. ASSUME NEW r \in Readers, Lookup(r)
      PROVE  OwedInv'
  <2>1. PICK ks \in SUBSET Keys :
          reader' = [reader EXCEPT ![r] =
              [keys |-> ks, todo |-> UNION {Places(k) : k \in Candidates(ks)},
               found |-> {}, owed |-> ks \cap Known]]
    BY <1>3 DEF Lookup
  <2>2. /\ reader'[r].owed = ks \cap Known
        /\ reader'[r].todo = UNION {Places(k) : k \in Candidates(ks)}
        /\ \A q \in Readers : q # r => reader'[q] = reader[q]
    BY <2>1 DEF TypeOK
  <2>3. \A s \in Sources : Held(s)' = Held(s)
    BY <1>3 DEF Lookup, Held
  <2>4. ASSUME NEW k \in ks \cap Known
        PROVE  \E s \in Sources : <<s, k>> \in reader'[r].todo /\ k \in Held(s)'
    <3>1. k \in Candidates(ks)
      BY CandidatesKnown
    <3>2. PICK s \in Sources : k \in Held(s) /\ <<s, k>> \in Places(k)
      BY KnownIsHeld
    <3>. QED
      BY <2>2, <2>3, <3>1, <3>2
  <2>. QED
    BY <2>2, <2>3, <2>4 DEF OwedInv
<1>4. ASSUME NEW r \in Readers, Ask(r)
      PROVE  OwedInv'
  <2>1. PICK p \in reader[r].todo :
          /\ reader'[r].owed = reader[r].owed
          /\ reader'[r].todo = Left(reader[r].todo, p, p[2] \in Held(p[1]))
          /\ reader'[r].found = IF p[2] \in Held(p[1]) THEN reader[r].found \cup {p[2]}
                                                       ELSE reader[r].found
          /\ \A q \in Readers : q # r => reader'[q] = reader[q]
    BY <1>4, AskStep
  <2>2. \A s \in Sources : Held(s)' = Held(s)
    BY <1>4 DEF Ask, Held
  <2>3. ASSUME NEW k \in reader[r].owed
        PROVE  \/ k \in reader'[r].found
               \/ \E s \in Sources : <<s, k>> \in reader'[r].todo /\ k \in Held(s)
    <3>1. CASE k \in reader[r].found
      BY <2>1, <3>1
    <3>2. ASSUME NEW s \in Sources, <<s, k>> \in reader[r].todo, k \in Held(s)
          PROVE  k \in reader'[r].found \/ <<s, k>> \in reader'[r].todo
      <4>1. CASE p[2] \in Held(p[1])
        BY <2>1, <3>2, <4>1 DEF Left
      <4>2. CASE p[2] \notin Held(p[1])
        BY <2>1, <3>2, <4>2 DEF Left
      <4>. QED
        BY <4>1, <4>2
    <3>. QED
      BY <3>1, <3>2 DEF OwedInv
  <2>. QED
    BY <2>1, <2>2, <2>3 DEF OwedInv
<1>5. ASSUME NEW r \in Readers, Return(r)
      PROVE  OwedInv'
  <2>1. /\ reader'[r].owed = {} /\ \A q \in Readers : q # r => reader'[q] = reader[q]
        /\ \A s \in Sources : Held(s)' = Held(s)
    BY <1>5 DEF Return, Idle, TypeOK, Held
  <2>. QED
    BY <2>1 DEF OwedInv
<1>6. CASE Restart
  BY <1>6 DEF Restart, OwedInv, Idle
<1>. QED
  BY <1>1, <1>2, <1>3, <1>4, <1>5, <1>6
     DEF Next, Scanner, Reading, vars, InsertBloom, Sync, ScanSource, ScanDone, ScanFails

-----------------------------------------------------------------------------
(* The theorems *)

\* Inserts, their two halves apart, the background rebuild, calls and crashes keep the
\* rebuild's promise about every key and the call's promise about every place.
THEOREM IndexInvariant == Spec => []XInv
<1>1. Init => XInv
  BY XInit
<1>2. XInv /\ [Next]_vars => XInv'
  BY TypeStep, FilterStep, ScanStep, OwedStep DEF XInv
<1>. QED
  BY <1>1, <1>2, PTL DEF Spec

\* Once rebuild_bloom_in_background has announced the filter, it excludes no key whose
\* insert_many has returned or that an older release left.
THEOREM FilterAlwaysCovers == Spec => []FilterCovers
<1>1. XInv => FilterCovers
  BY DEF XInv
<1>. QED
  BY <1>1, IndexInvariant, PTL

\* get_many finds every key that was in the index when it was called.
THEOREM LookupsMissNothing == Spec => []NoFalseNegative
<1>1. XInv => NoFalseNegative
  BY DEF XInv, OwedInv, NoFalseNegative
<1>. QED
  BY <1>1, IndexInvariant, PTL
=============================================================================
