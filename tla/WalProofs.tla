------------------------------- MODULE WalProofs -------------------------------
(***************************************************************************)
(* What Wal promises, for every set of appends, record sizes, queue and    *)
(* group limits, faults and numbers of crashes.  The scan is a recursive   *)
(* function over the file: the first lemmas show that there is such a      *)
(* function and what it does when a file is cut or grows; the induction    *)
(* behind them is over sets of positions.                                  *)
(***************************************************************************)
EXTENDS Wal, WellFoundedInduction, SequenceTheorems, TLAPS

-----------------------------------------------------------------------------
(* Induction over positions *)

\* A nonempty set of natural numbers has a least element.
LEMMA LeastPosition ==
    ASSUME NEW S \in SUBSET Nat, S # {}
    PROVE  \E m \in S : \A n \in S : m <= n
<1>1. PICK x \in S : \A y \in S : ~ (<<y, x>> \in OpToRel(<, Nat))
  BY NatLessThanWellFounded, WFMin
<1>2. \A y \in S : ~(y < x)
  BY <1>1 DEF OpToRel
<1>. QED
  BY <1>2

\* From each number to the next.
LEMMA Upwards ==
    ASSUME NEW N \in Nat, NEW S, 0 \in S, \A i \in 1..N : i - 1 \in S => i \in S
    PROVE  \A i \in 0..N : i \in S
<1>. DEFINE Bad == {i \in 0..N : i \notin S}
<1>. SUFFICES ASSUME Bad # {}
              PROVE  FALSE
  OBVIOUS
<1>1. Bad \in SUBSET Nat
  OBVIOUS
<1>. HIDE DEF Bad
<1>2. PICK m \in Bad : \A n \in Bad : m <= n
  BY <1>1, LeastPosition
<1>. USE DEF Bad
<1>3. m \in 1..N /\ m \notin S
  OBVIOUS
<1>4. m - 1 \in 0..N /\ ~(m <= m - 1)
  BY <1>3
<1>. QED
  BY <1>2, <1>3, <1>4

\* From all greater positions to one.
LEMMA Downwards ==
    ASSUME NEW N \in Nat, NEW S,
           \A c \in 1..N : (\A d \in (c + 1)..N : d \in S) => c \in S
    PROVE  \A c \in 1..N : c \in S
<1>. DEFINE Good == {i \in 0..N : \A d \in (N - i + 1)..N : d \in S}
<1>1. 0 \in Good
  OBVIOUS
<1>2. ASSUME NEW i \in 1..N, i - 1 \in Good
      PROVE  i \in Good
  <2>1. \A d \in (N - i + 2)..N : d \in S
    <3>1. N - (i - 1) + 1 = N - i + 2
      OBVIOUS
    <3>. QED
      BY <1>2, <3>1
  <2>2. N - i + 1 \in 1..N /\ (N - i + 1) + 1 = N - i + 2
    OBVIOUS
  <2>3. N - i + 1 \in S
    BY <2>1, <2>2
  <2>4. \A d \in (N - i + 1)..N : d = N - i + 1 \/ d \in (N - i + 2)..N
    OBVIOUS
  <2>. QED
    BY <2>1, <2>3, <2>4
<1>. HIDE DEF Good
<1>3. \A i \in 0..N : i \in Good
  BY <1>1, <1>2, Upwards
<1>4. N \in 0..N /\ N - N + 1 = 1
  OBVIOUS
<1>. QED
  BY <1>3, <1>4 DEF Good

-----------------------------------------------------------------------------
(* The scan as a function *)

\* A unit is a part of a record; its record fits or the file ends in it.
EndsAt(f, c)   == c > Len(f) \/ c + Size[f[c].rec] > Len(f)
IntactAt(f, c) == \A k \in 1..Size[f[c].rec] : f[c + k] = Unit(f[c].rec, k)
Behind(f, c)   == c + Size[f[c].rec] + 1

\* One step of the scan, given what it finds further on.
ScanStep(f, G, c) ==
    IF EndsAt(f, c) THEN [ok |-> TRUE, ops |-> {}, valid |-> c - 1]
    ELSE IF ~IntactAt(f, c) THEN [ok |-> FALSE, ops |-> {}, valid |-> 0]
    ELSE [G[Behind(f, c)] EXCEPT !.ops = @ \cup {f[c].rec}]

IsScan(f, G) == G = [c \in 1..(Len(f) + 1) |-> ScanStep(f, G, c)]

\* Sizes are positive, and each unit names a record.
LEMMA UnitType ==
    ASSUME NEW f \in Seq(Units), NEW c \in 1..Len(f)
    PROVE  f[c].rec \in Appends /\ Size[f[c].rec] \in Nat \ {0}
<1>1. f[c] \in Units
  OBVIOUS
<1>. QED
  BY <1>1, WalAssumption DEF Units

LEMMA BehindIsFurther ==
    ASSUME NEW f \in Seq(Units), NEW c \in 1..(Len(f) + 1), ~EndsAt(f, c)
    PROVE  /\ c \in 1..Len(f)
           /\ Behind(f, c) \in (c + 1)..(Len(f) + 1)
           /\ Size[f[c].rec] \in Nat
           /\ c + Size[f[c].rec] <= Len(f)
<1>1. c \in 1..Len(f)
  BY DEF EndsAt
<1>2. Size[f[c].rec] \in Nat
  BY <1>1, UnitType
<1>. QED
  BY <1>1, <1>2 DEF EndsAt, Behind

\* A step looks only further on.
LEMMA ScanStepLooksAhead ==
    ASSUME NEW f \in Seq(Units), NEW c \in 1..(Len(f) + 1), NEW G, NEW H,
           \A d \in (c + 1)..(Len(f) + 1) : G[d] = H[d]
    PROVE  ScanStep(f, G, c) = ScanStep(f, H, c)
<1>1. ~EndsAt(f, c) => G[Behind(f, c)] = H[Behind(f, c)]
  BY BehindIsFurther
<1>. QED
  BY <1>1 DEF ScanStep

LEMMA ScanExists ==
    ASSUME NEW f \in Seq(Units)
    PROVE  \E G : IsScan(f, G)
<1>. DEFINE N == Len(f) + 1
            Scans(G, c) == \A d \in c..N : G[d] = ScanStep(f, G, d)
            Good == {c \in 1..N : \E G : Scans(G, c)}
<1>1. ASSUME NEW c \in 1..N, \A d \in (c + 1)..N : d \in Good
      PROVE  c \in Good
  <2>1. PICK G : \A d \in (c + 1)..N : G[d] = ScanStep(f, G, d)
    <3>1. CASE c = N
      BY <3>1
    <3>2. CASE c # N
      <4>1. c + 1 \in (c + 1)..N
        BY <3>2
      <4>. QED
        BY <1>1, <4>1
    <3>. QED
      BY <3>1, <3>2
  <2>. DEFINE H == [d \in c..N |-> IF d = c THEN ScanStep(f, G, c) ELSE G[d]]
  <2>2. \A d \in (c + 1)..N : H[d] = G[d]
    OBVIOUS
  <2>3. H[c] = ScanStep(f, G, c)
    OBVIOUS
  <2>. HIDE DEF H
  <2>4. \A d \in c..N : ScanStep(f, H, d) = ScanStep(f, G, d)
    <3>. TAKE d \in c..N
    <3>1. d \in 1..(Len(f) + 1) /\ \A e \in (d + 1)..N : H[e] = G[e]
      BY <2>2
    <3>. QED
      BY <3>1, ScanStepLooksAhead
  <2>5. \A d \in c..N : d = c \/ d \in (c + 1)..N
    OBVIOUS
  <2>6. Scans(H, c)
    BY <2>1, <2>2, <2>3, <2>4, <2>5
  <2>. QED
    BY <2>6
<1>2. N \in Nat /\ 1 \in 1..N
  OBVIOUS
<1>. HIDE DEF Good
<1>3. \A c \in 1..N : c \in Good
  BY <1>1, <1>2, Downwards
<1>4. PICK G : Scans(G, 1)
  BY <1>2, <1>3 DEF Good
<1>. DEFINE H == [c \in 1..N |-> G[c]]
<1>5. \A d \in 1..N : H[d] = G[d]
  OBVIOUS
<1>. HIDE DEF H
<1>6. \A d \in 1..N : ScanStep(f, H, d) = ScanStep(f, G, d)
  <2>. TAKE d \in 1..N
  <2>1. d \in 1..(Len(f) + 1) /\ \A e \in (d + 1)..N : H[e] = G[e]
    BY <1>5
  <2>. QED
    BY <2>1, ScanStepLooksAhead
<1>7. H = [c \in 1..N |-> ScanStep(f, H, c)]
  BY <1>4, <1>6 DEF H
<1>. QED
  BY <1>7 DEF IsScan

LEMMA ScanFromIsScan ==
    ASSUME NEW f \in Seq(Units)
    PROVE  IsScan(f, ScanFrom(f))
<1>1. ScanFrom(f) = CHOOSE G : IsScan(f, G)
  BY Zenon DEF ScanFrom, IsScan, ScanStep, EndsAt, IntactAt, Behind
<1>. QED
  BY <1>1, ScanExists

-----------------------------------------------------------------------------
(* What the scan finds at a position *)

Results == [ok : BOOLEAN, ops : SUBSET Appends, valid : Nat]

LEMMA ScanEquation ==
    ASSUME NEW f \in Seq(Units), NEW c \in 1..(Len(f) + 1)
    PROVE  ScanFrom(f)[c] = ScanStep(f, ScanFrom(f), c)
BY ScanFromIsScan DEF IsScan

LEMMA ScanType ==
    ASSUME NEW f \in Seq(Units)
    PROVE  \A c \in 1..(Len(f) + 1) : ScanFrom(f)[c] \in Results
<1>. DEFINE N == Len(f) + 1
            Good == {c \in 1..N : ScanFrom(f)[c] \in Results}
<1>1. ASSUME NEW c \in 1..N, \A d \in (c + 1)..N : d \in Good
      PROVE  c \in Good
  <2>1. ScanFrom(f)[c] = ScanStep(f, ScanFrom(f), c)
    BY ScanEquation
  <2>2. CASE EndsAt(f, c)
    <3>1. c - 1 \in Nat
      OBVIOUS
    <3>2. ScanFrom(f)[c] = [ok |-> TRUE, ops |-> {}, valid |-> c - 1]
      BY <2>1, <2>2 DEF ScanStep
    <3>3. [ok |-> TRUE, ops |-> {}, valid |-> c - 1] \in Results
      BY <3>1 DEF Results
    <3>. QED
      BY <3>2, <3>3
  <2>3. CASE ~EndsAt(f, c) /\ ~IntactAt(f, c)
    <3>1. ScanFrom(f)[c] = [ok |-> FALSE, ops |-> {}, valid |-> 0]
      BY <2>1, <2>3 DEF ScanStep
    <3>2. [ok |-> FALSE, ops |-> {}, valid |-> 0] \in Results
      BY DEF Results
    <3>. QED
      BY <3>1, <3>2
  <2>4. CASE ~EndsAt(f, c) /\ IntactAt(f, c)
    <3>1. ScanFrom(f)[Behind(f, c)] \in Results /\ f[c].rec \in Appends
      BY <1>1, <2>4, BehindIsFurther, UnitType
    <3>. QED
      BY <2>1, <2>4, <3>1 DEF ScanStep, Results
  <2>. QED
    BY <2>2, <2>3, <2>4
<1>2. N \in Nat
  OBVIOUS
<1>. HIDE DEF Good
<1>3. \A c \in 1..N : c \in Good
  BY <1>1, <1>2, Downwards
<1>. QED
  BY <1>3 DEF Good

\* The file ends in the record that begins at c.
LEMMA ScanEnds ==
    ASSUME NEW f \in Seq(Units), NEW c \in 1..(Len(f) + 1), EndsAt(f, c)
    PROVE  /\ ScanFrom(f)[c].ok
           /\ ScanFrom(f)[c].ops = {}
           /\ ScanFrom(f)[c].valid = c - 1
<1>1. ScanFrom(f)[c] = [ok |-> TRUE, ops |-> {}, valid |-> c - 1]
  BY ScanEquation DEF ScanStep
<1>. QED
  BY <1>1

\* Its checksum is wrong.
LEMMA ScanBreaks ==
    ASSUME NEW f \in Seq(Units), NEW c \in 1..(Len(f) + 1), ~EndsAt(f, c), ~IntactAt(f, c)
    PROVE  /\ ~ScanFrom(f)[c].ok
           /\ ScanFrom(f)[c].ops = {}
           /\ ScanFrom(f)[c].valid = 0
<1>1. ScanFrom(f)[c] = [ok |-> FALSE, ops |-> {}, valid |-> 0]
  BY ScanEquation DEF ScanStep
<1>. QED
  BY <1>1

\* It is whole.
LEMMA ScanContinues ==
    ASSUME NEW f \in Seq(Units), NEW c \in 1..(Len(f) + 1), ~EndsAt(f, c), IntactAt(f, c)
    PROVE  /\ Behind(f, c) \in (c + 1)..(Len(f) + 1)
           /\ ScanFrom(f)[c].ok = ScanFrom(f)[Behind(f, c)].ok
           /\ ScanFrom(f)[c].ops = ScanFrom(f)[Behind(f, c)].ops \cup {f[c].rec}
           /\ ScanFrom(f)[c].valid = ScanFrom(f)[Behind(f, c)].valid
<1>1. Behind(f, c) \in (c + 1)..(Len(f) + 1) /\ Behind(f, c) \in 1..(Len(f) + 1)
  BY BehindIsFurther
<1>2. ScanFrom(f)[Behind(f, c)] \in Results
  BY <1>1, ScanType
<1>3. ScanFrom(f)[c] = [ScanFrom(f)[Behind(f, c)] EXCEPT !.ops = @ \cup {f[c].rec}]
  BY ScanEquation DEF ScanStep
<1>. QED
  BY <1>1, <1>2, <1>3 DEF Results

\* How far the scan comes: behind where it began and inside the file, or nowhere.
LEMMA ScanBounds ==
    ASSUME NEW f \in Seq(Units), NEW c \in 1..(Len(f) + 1)
    PROVE  IF ScanFrom(f)[c].ok THEN ScanFrom(f)[c].valid \in (c - 1)..Len(f)
           ELSE ScanFrom(f)[c].valid = 0 /\ c <= Len(f)
<1>. DEFINE N == Len(f) + 1
            Bounded(d) == IF ScanFrom(f)[d].ok THEN ScanFrom(f)[d].valid \in (d - 1)..Len(f)
                          ELSE ScanFrom(f)[d].valid = 0 /\ d <= Len(f)
            Good == {d \in 1..N : Bounded(d)}
<1>1. ASSUME NEW d \in 1..N, \A e \in (d + 1)..N : e \in Good
      PROVE  d \in Good
  <2>1. CASE EndsAt(f, d)
    BY <2>1, ScanEnds
  <2>2. CASE ~EndsAt(f, d) /\ ~IntactAt(f, d)
    BY <2>2, ScanBreaks, BehindIsFurther
  <2>3. CASE ~EndsAt(f, d) /\ IntactAt(f, d)
    <3>1. /\ Behind(f, d) \in (d + 1)..N
          /\ ScanFrom(f)[d].ok = ScanFrom(f)[Behind(f, d)].ok
          /\ ScanFrom(f)[d].valid = ScanFrom(f)[Behind(f, d)].valid
      BY <2>3, ScanContinues
    <3>2. Bounded(Behind(f, d)) /\ d <= Len(f)
      BY <1>1, <2>3, <3>1, BehindIsFurther
    <3>. QED
      BY <3>1, <3>2
  <2>. QED
    BY <2>1, <2>2, <2>3
<1>2. N \in Nat
  OBVIOUS
<1>. HIDE DEF Good
<1>3. \A d \in 1..N : d \in Good
  BY <1>1, <1>2, Downwards
<1>. QED
  BY <1>3 DEF Good

-----------------------------------------------------------------------------
(* A file that is cut, and one that grows *)

\* A record that lies inside the first k units looks in them as it does in f.
LEMMA SameRecord ==
    ASSUME NEW f \in Seq(Units), NEW h \in Seq(Units), NEW c \in 1..Len(f),
           c <= Len(h), \A i \in 1..Len(f) : i <= Len(h) => f[i] = h[i],
           ~EndsAt(f, c), ~EndsAt(h, c)
    PROVE  (IntactAt(h, c) <=> IntactAt(f, c)) /\ Behind(h, c) = Behind(f, c)
<1>1. f[c] = h[c] /\ Size[f[c].rec] \in Nat
  BY UnitType
<1>2. \A k \in 1..Size[f[c].rec] : f[c + k] = h[c + k]
  <2>. TAKE k \in 1..Size[f[c].rec]
  <2>1. c + k \in 1..Len(f) /\ c + k <= Len(h)
    BY <1>1 DEF EndsAt
  <2>. QED
    BY <2>1
<1>. QED
  BY <1>1, <1>2 DEF IntactAt, Behind

\* What a cut leaves is recovered: no record from elsewhere, and no damage that
\* was not there before.
LEMMA CutScan ==
    ASSUME NEW f \in Seq(Units), NEW k \in 0..Len(f)
    PROVE  /\ SubSeq(f, 1, k) \in Seq(Units) /\ Len(SubSeq(f, 1, k)) = k
           /\ Scan(SubSeq(f, 1, k)).ops \subseteq Scan(f).ops
           /\ Scan(f).ok => Scan(SubSeq(f, 1, k)).ok
<1>. DEFINE h == SubSeq(f, 1, k)
            R == ScanFrom(f)
            Q == ScanFrom(h)
            Good == {c \in 1..(k + 1) : Q[c].ops \subseteq R[c].ops /\ (R[c].ok => Q[c].ok)}
<1>1. h \in Seq(Units) /\ Len(h) = k /\ \A i \in 1..k : h[i] = f[i]
  BY SubSeqProperties
<1>. HIDE DEF h
<1>2. ASSUME NEW c \in 1..(k + 1), \A d \in (c + 1)..(k + 1) : d \in Good
      PROVE  c \in Good
  <2>1. c \in 1..(Len(f) + 1) /\ c \in 1..(Len(h) + 1)
    BY <1>1
  <2>2. CASE EndsAt(h, c)
    BY <1>1, <2>1, <2>2, ScanEnds
  <2>3. CASE ~EndsAt(h, c)
    <3>1. c \in 1..k /\ Behind(h, c) \in (c + 1)..(k + 1)
      BY <1>1, <2>1, <2>3, BehindIsFurther
    <3>2. ~EndsAt(f, c)
      <4>1. f[c] = h[c] /\ Size[f[c].rec] \in Nat
        BY <1>1, <3>1, UnitType
      <4>. QED
        BY <1>1, <2>3, <3>1, <4>1 DEF EndsAt
    <3>3. (IntactAt(h, c) <=> IntactAt(f, c)) /\ Behind(h, c) = Behind(f, c)
      BY <1>1, <2>3, <3>1, <3>2, SameRecord
    <3>4. CASE ~IntactAt(f, c)
      BY <2>1, <2>3, <3>2, <3>3, <3>4, <1>1, ScanBreaks
    <3>5. CASE IntactAt(f, c)
      <4>1. Behind(f, c) \in Good
        BY <1>2, <3>1, <3>3
      <4>2. /\ R[c].ok = R[Behind(f, c)].ok
            /\ R[c].ops = R[Behind(f, c)].ops \cup {f[c].rec}
        BY <2>1, <3>2, <3>5, ScanContinues
      <4>3. /\ Q[c].ok = Q[Behind(f, c)].ok
            /\ Q[c].ops = Q[Behind(f, c)].ops \cup {f[c].rec}
        BY <1>1, <2>1, <2>3, <3>1, <3>3, <3>5, ScanContinues
      <4>. QED
        BY <4>1, <4>2, <4>3
    <3>. QED
      BY <3>4, <3>5
  <2>. QED
    BY <2>2, <2>3
<1>3. k + 1 \in Nat /\ 1 \in 1..(k + 1)
  OBVIOUS
<1>. HIDE DEF Good
<1>4. \A c \in 1..(k + 1) : c \in Good
  BY <1>2, <1>3, Downwards
<1>5. 1 \in Good
  BY <1>3, <1>4
<1>. QED
  BY <1>1, <1>5 DEF Good, Scan, h

WholeFile(f) == Scan(f).ok /\ Scan(f).valid = Len(f)

LEMMA EmptyFile == << >> \in Seq(Units) /\ WholeFile(<< >>) /\ Scan(<< >>).ops = {}
<1>1. << >> \in Seq(Units) /\ Len(<< >>) = 0 /\ 1 \in 1..(Len(<< >>) + 1)
  OBVIOUS
<1>2. EndsAt(<< >>, 1)
  BY DEF EndsAt
<1>3. /\ ScanFrom(<< >>)[1].ok
      /\ ScanFrom(<< >>)[1].ops = {}
      /\ ScanFrom(<< >>)[1].valid = 1 - 1
  BY <1>1, <1>2, ScanEnds
<1>. QED
  BY <1>1, <1>3 DEF WholeFile, Scan

\* Cutting a file where its scan stops leaves whole records, and all that the
\* scan has found.
LEMMA CutAtValid ==
    ASSUME NEW f \in Seq(Units), Scan(f).ok
    PROVE  /\ Scan(f).valid \in 0..Len(f)
           /\ WholeFile(SubSeq(f, 1, Scan(f).valid))
           /\ Scan(SubSeq(f, 1, Scan(f).valid)).ops = Scan(f).ops
<1>. DEFINE v == Scan(f).valid
            h == SubSeq(f, 1, v)
            R == ScanFrom(f)
            Q == ScanFrom(h)
            Reaches(c) == R[c].ok /\ R[c].valid = v
            Same(c) == Q[c].ok /\ Q[c].valid = v /\ Q[c].ops = R[c].ops
            Good == {c \in 1..(v + 1) : Reaches(c) => Same(c)}
<1>1. v \in 0..Len(f)
  BY ScanBounds DEF Scan
<1>2. h \in Seq(Units) /\ Len(h) = v /\ \A i \in 1..v : h[i] = f[i]
  BY <1>1, SubSeqProperties
<1>. HIDE DEF v, h
<1>3. ASSUME NEW c \in 1..(v + 1), \A d \in (c + 1)..(v + 1) : d \in Good
      PROVE  c \in Good
  <2>. SUFFICES ASSUME Reaches(c)
                PROVE  Same(c)
    OBVIOUS
  <2>1. c \in 1..(Len(f) + 1) /\ c \in 1..(Len(h) + 1)
    BY <1>1, <1>2
  <2>2. CASE EndsAt(f, c)
    <3>1. R[c].ops = {} /\ c = v + 1
      BY <1>1, <2>1, <2>2, ScanEnds
    <3>2. EndsAt(h, c)
      BY <1>1, <1>2, <3>1 DEF EndsAt
    <3>. QED
      BY <1>1, <1>2, <2>1, <3>1, <3>2, ScanEnds
  <2>3. CASE ~EndsAt(f, c)
    <3>1. IntactAt(f, c)
      BY <2>1, <2>3, ScanBreaks
    <3>2. /\ Behind(f, c) \in (c + 1)..(Len(f) + 1)
          /\ R[c].ok = R[Behind(f, c)].ok
          /\ R[c].ops = R[Behind(f, c)].ops \cup {f[c].rec}
          /\ R[c].valid = R[Behind(f, c)].valid
      BY <2>1, <2>3, <3>1, ScanContinues
    <3>3. Behind(f, c) - 1 <= v
      <4>1. R[Behind(f, c)].valid \in (Behind(f, c) - 1)..Len(f)
        BY <2>1, <3>2, ScanBounds
      <4>. QED
        BY <1>1, <3>2, <4>1
    <3>4. Behind(f, c) \in (c + 1)..(v + 1) /\ c \in 1..v
      BY <1>1, <2>1, <3>2, <3>3
    <3>5. Same(Behind(f, c))
      BY <1>3, <3>2, <3>4
    <3>6. c \in 1..Len(f) /\ c <= Len(h)
      BY <1>1, <1>2, <3>4
    <3>7. ~EndsAt(h, c)
      <4>1. f[c] = h[c] /\ Size[f[c].rec] \in Nat
        BY <1>2, <3>4, <3>6, UnitType
      <4>. QED
        BY <1>1, <1>2, <3>3, <3>4, <4>1 DEF EndsAt, Behind
    <3>8. (IntactAt(h, c) <=> IntactAt(f, c)) /\ Behind(h, c) = Behind(f, c)
      BY <1>1, <1>2, <2>3, <3>6, <3>7, SameRecord
    <3>9. /\ Q[c].ok = Q[Behind(f, c)].ok
          /\ Q[c].ops = Q[Behind(f, c)].ops \cup {h[c].rec}
          /\ Q[c].valid = Q[Behind(f, c)].valid
      BY <1>2, <2>1, <3>1, <3>7, <3>8, ScanContinues
    <3>. QED
      BY <1>2, <3>2, <3>4, <3>5, <3>9
  <2>. QED
    BY <2>2, <2>3
<1>4. v + 1 \in Nat /\ 1 \in 1..(v + 1)
  BY <1>1
<1>5. Reaches(1)
  BY DEF Scan, v
<1>. HIDE DEF Good
<1>6. \A c \in 1..(v + 1) : c \in Good
  BY <1>3, <1>4, Downwards
<1>7. 1 \in Good
  BY <1>4, <1>6
<1>8. Same(1)
  BY <1>5, <1>7 DEF Good
<1>. QED
  BY <1>1, <1>2, <1>8 DEF WholeFile, Scan, h, v

\* A record behind whole ones is found behind them.
LEMMA RecordAppended ==
    ASSUME NEW f \in Seq(Units), WholeFile(f), NEW r \in Appends
    PROVE  /\ f \o Encoded(r) \in Seq(Units)
           /\ WholeFile(f \o Encoded(r))
           /\ Scan(f \o Encoded(r)).ops = Scan(f).ops \cup {r}
<1>. DEFINE h == f \o Encoded(r)
            R == ScanFrom(f)
            Q == ScanFrom(h)
            Reaches(c) == R[c].ok /\ R[c].valid = Len(f)
            Longer(c) == Q[c].ok /\ Q[c].valid = Len(h) /\ Q[c].ops = R[c].ops \cup {r}
            Good == {c \in 1..(Len(f) + 1) : Reaches(c) => Longer(c)}
<1>1. Size[r] \in Nat \ {0}
  BY WalAssumption
<1>2. /\ Encoded(r) \in Seq(Units) /\ Len(Encoded(r)) = Size[r] + 1
      /\ \A k \in 0..Size[r] : Encoded(r)[k + 1] = Unit(r, k)
  <2>1. \A k \in 1..(Size[r] + 1) : Unit(r, k - 1) \in Units
    BY <1>1 DEF Unit, Units
  <2>2. Size[r] + 1 \in Nat
    BY <1>1
  <2>3. Encoded(r) \in [1..(Size[r] + 1) -> Units]
    BY <2>1 DEF Encoded
  <2>4. \A k \in 0..Size[r] : Encoded(r)[k + 1] = Unit(r, k)
    <3>. TAKE k \in 0..Size[r]
    <3>1. k + 1 \in 1..(Size[r] + 1) /\ (k + 1) - 1 = k
      BY <1>1
    <3>. QED
      BY <3>1 DEF Encoded
  <2>5. Encoded(r) \in Seq(Units) /\ Len(Encoded(r)) = Size[r] + 1
    BY <2>2, <2>3
  <2>. QED
    BY <2>4, <2>5
<1>3. /\ h \in Seq(Units) /\ Len(h) = Len(f) + Size[r] + 1
      /\ \A i \in 1..Len(f) : h[i] = f[i]
      /\ \A k \in 0..Size[r] : h[Len(f) + 1 + k] = Unit(r, k)
  <2>1. h \in Seq(Units) /\ Len(h) = Len(f) + Size[r] + 1
    <3>1. h \in Seq(Units) /\ Len(h) = Len(f) + Len(Encoded(r))
      BY <1>2, ConcatProperties
    <3>. QED
      BY <1>1, <1>2, <3>1
  <2>2. \A i \in 1..Len(f) : h[i] = f[i]
    BY <1>1, <1>2, <2>1, ConcatProperties
  <2>3. ASSUME NEW k \in 0..Size[r]
        PROVE  h[Len(f) + 1 + k] = Unit(r, k)
    <3>1. Len(f) + 1 + k \in 1..(Len(f) + Len(Encoded(r))) /\ Len(f) + 1 + k > Len(f)
      BY <1>1, <1>2
    <3>2. h[Len(f) + 1 + k] = Encoded(r)[Len(f) + 1 + k - Len(f)]
      BY <1>2, <3>1, ConcatProperties
    <3>3. Len(f) + 1 + k - Len(f) = k + 1
      OBVIOUS
    <3>. QED
      BY <1>2, <3>2, <3>3
  <2>. QED
    BY <2>1, <2>2, <2>3
<1>. HIDE DEF h
<1>4. ASSUME NEW c \in 1..(Len(f) + 1), \A d \in (c + 1)..(Len(f) + 1) : d \in Good
      PROVE  c \in Good
  <2>. SUFFICES ASSUME Reaches(c)
                PROVE  Longer(c)
    OBVIOUS
  <2>1. c \in 1..(Len(h) + 1)
    BY <1>1, <1>3
  <2>2. CASE EndsAt(f, c)
    <3>1. R[c].ops = {} /\ c = Len(f) + 1
      BY <2>2, ScanEnds
    <3>2. h[c].rec = r /\ \A k \in 1..Size[r] : h[c + k] = Unit(r, k)
      <4>1. 0 \in 0..Size[r] /\ Len(f) + 1 + 0 = c /\ \A k \in 1..Size[r] : k \in 0..Size[r]
        BY <1>1, <3>1
      <4>2. h[c] = Unit(r, 0)
        BY <1>3, <4>1
      <4>. QED
        BY <1>3, <3>1, <4>1, <4>2 DEF Unit
    <3>3. ~EndsAt(h, c) /\ Behind(h, c) = Len(h) + 1
      <4>1. Len(h) = c + Size[r]
        BY <1>1, <1>3, <3>1
      <4>. QED
        BY <1>1, <3>1, <3>2, <4>1 DEF EndsAt, Behind
    <3>4. IntactAt(h, c)
      BY <3>2 DEF IntactAt
    <3>5. EndsAt(h, Len(h) + 1) /\ Len(h) + 1 \in 1..(Len(h) + 1)
      BY <1>1, <1>3 DEF EndsAt
    <3>6. Q[Len(h) + 1].ok /\ Q[Len(h) + 1].ops = {} /\ Q[Len(h) + 1].valid = Len(h)
      BY <1>3, <3>5, ScanEnds
    <3>7. /\ Q[c].ok = Q[Behind(h, c)].ok
          /\ Q[c].ops = Q[Behind(h, c)].ops \cup {h[c].rec}
          /\ Q[c].valid = Q[Behind(h, c)].valid
      BY <1>3, <2>1, <3>3, <3>4, ScanContinues
    <3>. QED
      BY <3>1, <3>2, <3>3, <3>6, <3>7
  <2>3. CASE ~EndsAt(f, c)
    <3>1. IntactAt(f, c) /\ c \in 1..Len(f) /\ c + Size[f[c].rec] <= Len(f) /\ Size[f[c].rec] \in Nat
      BY <2>3, ScanBreaks, BehindIsFurther
    <3>2. /\ Behind(f, c) \in (c + 1)..(Len(f) + 1)
          /\ R[c].ok = R[Behind(f, c)].ok
          /\ R[c].ops = R[Behind(f, c)].ops \cup {f[c].rec}
          /\ R[c].valid = R[Behind(f, c)].valid
      BY <2>3, <3>1, ScanContinues
    <3>3. Longer(Behind(f, c))
      BY <1>4, <3>2
    <3>4. c <= Len(h) /\ ~EndsAt(h, c)
      BY <1>1, <1>3, <3>1 DEF EndsAt
    <3>5. (IntactAt(h, c) <=> IntactAt(f, c)) /\ Behind(h, c) = Behind(f, c)
      BY <1>3, <2>3, <3>1, <3>4, SameRecord
    <3>6. /\ Q[c].ok = Q[Behind(f, c)].ok
          /\ Q[c].ops = Q[Behind(f, c)].ops \cup {h[c].rec}
          /\ Q[c].valid = Q[Behind(f, c)].valid
      BY <1>3, <2>1, <3>1, <3>4, <3>5, ScanContinues
    <3>. QED
      BY <1>3, <3>1, <3>2, <3>3, <3>6
  <2>. QED
    BY <2>2, <2>3
<1>5. Len(f) + 1 \in Nat /\ 1 \in 1..(Len(f) + 1)
  OBVIOUS
<1>6. Reaches(1)
  BY DEF WholeFile, Scan
<1>. HIDE DEF Good
<1>7. \A c \in 1..(Len(f) + 1) : c \in Good
  BY <1>4, <1>5, Downwards
<1>8. 1 \in Good
  BY <1>5, <1>7
<1>9. Longer(1)
  BY <1>6, <1>8 DEF Good
<1>. QED
  BY <1>3, <1>9 DEF WholeFile, Scan, h

-----------------------------------------------------------------------------
(* The bytes of a group *)

IsBuffered(rs, G) ==
    G = [i \in 0..Len(rs) |-> IF i = 0 THEN << >> ELSE G[i - 1] \o Encoded(rs[i])]

LEMMA BufferedExists ==
    ASSUME NEW rs \in Seq(Appends)
    PROVE  \E G : IsBuffered(rs, G)
<1>. DEFINE N == Len(rs)
            Step(G, i) == IF i = 0 THEN << >> ELSE G[i - 1] \o Encoded(rs[i])
            Adds(G, i) == \A j \in 0..i : G[j] = Step(G, j)
            Good == {i \in 0..N : \E G : Adds(G, i)}
<1>1. N \in Nat /\ 0 \in 0..N /\ N \in 0..N
  OBVIOUS
<1>2. 0 \in Good
  <2>. DEFINE G == [j \in 0..0 |-> << >>]
  <2>1. Adds(G, 0)
    OBVIOUS
  <2>. QED
    BY <1>1, <2>1
<1>3. ASSUME NEW i \in 1..N, i - 1 \in Good
      PROVE  i \in Good
  <2>1. PICK G : Adds(G, i - 1)
    BY <1>3
  <2>. DEFINE H == [j \in 0..i |-> IF j = i THEN G[i - 1] \o Encoded(rs[i]) ELSE G[j]]
  <2>2. \A j \in 0..(i - 1) : H[j] = G[j]
    OBVIOUS
  <2>3. H[i] = G[i - 1] \o Encoded(rs[i])
    OBVIOUS
  <2>. HIDE DEF H
  <2>4. i - 1 \in 0..(i - 1) /\ i # 0
    OBVIOUS
  <2>5. H[i] = Step(H, i)
    BY <2>2, <2>3, <2>4
  <2>6. \A j \in 0..(i - 1) : j # 0 => j - 1 \in 0..(i - 1)
    OBVIOUS
  <2>7. \A j \in 0..(i - 1) : H[j] = Step(H, j)
    BY <2>1, <2>2, <2>6
  <2>8. \A j \in 0..i : j = i \/ j \in 0..(i - 1)
    OBVIOUS
  <2>9. Adds(H, i)
    BY <2>5, <2>7, <2>8
  <2>. QED
    BY <2>9
<1>. HIDE DEF Good
<1>4. \A i \in 0..N : i \in Good
  BY <1>1, <1>2, <1>3, Upwards
<1>5. PICK G : Adds(G, N)
  BY <1>1, <1>4 DEF Good
<1>. DEFINE H == [i \in 0..N |-> G[i]]
<1>6. \A i \in 0..N : H[i] = G[i]
  OBVIOUS
<1>7. \A i \in 0..N : i # 0 => i - 1 \in 0..N
  OBVIOUS
<1>. HIDE DEF H
<1>8. \A i \in 0..N : Step(H, i) = G[i]
  BY <1>5, <1>6, <1>7
<1>9. H = [i \in 0..N |-> Step(H, i)]
  BY <1>8 DEF H
<1>. QED
  BY <1>9 DEF IsBuffered

LEMMA BufferedSteps ==
    ASSUME NEW rs \in Seq(Appends)
    PROVE  /\ Buffered(rs)[0] = << >>
           /\ \A i \in 1..Len(rs) : Buffered(rs)[i] = Buffered(rs)[i - 1] \o Encoded(rs[i])
<1>1. Buffered(rs) = CHOOSE G : IsBuffered(rs, G)
  BY Zenon DEF Buffered, IsBuffered
<1>2. IsBuffered(rs, Buffered(rs))
  BY <1>1, BufferedExists
<1>3. \A i \in 0..Len(rs) : Buffered(rs)[i] = IF i = 0 THEN << >>
                                              ELSE Buffered(rs)[i - 1] \o Encoded(rs[i])
  BY <1>2 DEF IsBuffered
<1>4. 0 \in 0..Len(rs) /\ \A i \in 1..Len(rs) : i \in 0..Len(rs) /\ i # 0
  OBVIOUS
<1>. QED
  BY <1>3, <1>4

\* The bytes of a record are units.
LEMMA EncodedType ==
    ASSUME NEW r \in Appends
    PROVE  Encoded(r) \in Seq(Units)
<1>1. Size[r] \in Nat \ {0}
  BY WalAssumption
<1>2. \A k \in 1..(Size[r] + 1) : Unit(r, k - 1) \in Units
  BY <1>1 DEF Unit, Units
<1>3. Size[r] + 1 \in Nat
  BY <1>1
<1>. QED
  BY <1>2, <1>3 DEF Encoded

LEMMA UnitsConcat ==
    ASSUME NEW s \in Seq(Units), NEW t \in Seq(Units), NEW u \in Seq(Units)
    PROVE  (s \o t) \o u = s \o (t \o u)
BY ConcatAssociative

\* A group behind whole records is found, and with it all that was there.
LEMMA GroupAppended ==
    ASSUME NEW f \in Seq(Units), NEW rs \in Seq(Appends)
    PROVE  /\ Buffer(rs) \in Seq(Units)
           /\ WholeFile(f) =>
                 /\ WholeFile(f \o Buffer(rs))
                 /\ ToSet(rs) \subseteq Scan(f \o Buffer(rs)).ops
<1>. DEFINE B == Buffered(rs)
            N == Len(rs)
            Found(i) == /\ B[i] \in Seq(Units)
                        /\ WholeFile(f) =>
                              /\ WholeFile(f \o B[i])
                              /\ \A j \in 1..i : rs[j] \in Scan(f \o B[i]).ops
            Good == {i \in 0..N : Found(i)}
<1>1. B[0] = << >> /\ \A i \in 1..N : B[i] = B[i - 1] \o Encoded(rs[i])
  BY BufferedSteps
<1>. HIDE DEF B
<1>2. N \in Nat /\ N \in 0..N /\ 0 \in 0..N
  OBVIOUS
<1>3. 0 \in Good
  <2>1. f \o << >> = f /\ << >> \in Seq(Units)
    BY ConcatEmptySeq
  <2>2. WholeFile(f) => WholeFile(f \o B[0])
    BY <1>1, <2>1
  <2>3. \A j \in 1..0 : rs[j] \in Scan(f \o B[0]).ops
    OBVIOUS
  <2>4. Found(0)
    BY <1>1, <2>1, <2>2, <2>3
  <2>. QED
    BY <1>2, <2>4
<1>4. ASSUME NEW i \in 1..N, i - 1 \in Good
      PROVE  i \in Good
  <2>1. Found(i - 1) /\ i \in 0..N
    BY <1>4
  <2>2. rs[i] \in Appends /\ Encoded(rs[i]) \in Seq(Units)
    BY EncodedType
  <2>3. B[i] \in Seq(Units)
    BY <1>1, <2>1, <2>2, ConcatProperties
  <2>4. f \o B[i] = (f \o B[i - 1]) \o Encoded(rs[i]) /\ f \o B[i - 1] \in Seq(Units)
    <3>1. (f \o B[i - 1]) \o Encoded(rs[i]) = f \o (B[i - 1] \o Encoded(rs[i]))
      <4>1. B[i - 1] \in Seq(Units)
        BY <2>1
      <4>. QED
        BY <2>2, <4>1, UnitsConcat
    <3>2. f \o B[i - 1] \in Seq(Units)
      BY <2>1, ConcatProperties
    <3>. QED
      BY <1>1, <3>1, <3>2
  <2>5. ASSUME WholeFile(f)
        PROVE  WholeFile(f \o B[i]) /\ \A j \in 1..i : rs[j] \in Scan(f \o B[i]).ops
    <3>1. /\ WholeFile(f \o B[i])
          /\ Scan(f \o B[i]).ops = Scan(f \o B[i - 1]).ops \cup {rs[i]}
      BY <2>1, <2>2, <2>4, <2>5, RecordAppended
    <3>2. \A j \in 1..i : j \in 1..(i - 1) \/ j = i
      OBVIOUS
    <3>. QED
      BY <2>1, <2>5, <3>1, <3>2
  <2>. QED
    BY <2>1, <2>3, <2>5
<1>. HIDE DEF Good
<1>5. \A i \in 0..N : i \in Good
  BY <1>2, <1>3, <1>4, Upwards
<1>6. N \in Good
  BY <1>2, <1>5
<1>7. Found(N) /\ B[N] = Buffer(rs)
  BY <1>6 DEF Good, Buffer, B
<1>8. \A r \in ToSet(rs) : \E j \in 1..N : r = rs[j]
  BY DEF ToSet
<1>. QED
  BY <1>7, <1>8

-----------------------------------------------------------------------------
(* Type correctness *)

LEMMA InitTypeOK == Init => TypeOK
<1>. SUFFICES ASSUME Init
              PROVE  TypeOK
  OBVIOUS
<1>1. << >> \in Seq(Units) /\ << >> \in Seq(Appends) /\ Len(<< >>) = 0
  OBVIOUS
<1>2. file \in Seq(Units) /\ synced \in 0..Len(file)
  BY <1>1 DEF Init
<1>3. queue \in Seq(Appends) /\ Len(queue) <= QueueCap /\ batch \in Seq(Appends) /\ Len(batch) <= MaxBatch
  BY <1>1, WalAssumption DEF Init
<1>4. crashes \in 0..MaxCrashes /\ reply \in [Appends -> {"unsent", "waiting", "ok", "failed", "lost"}]
  BY WalAssumption DEF Init
<1>. QED
  BY <1>2, <1>3, <1>4 DEF Init, TypeOK

\* What the write of a group appends: all of its bytes, or fewer.
LEMMA GroupBytes ==
    ASSUME TypeOK
    PROVE  /\ Buffer(batch) \in Seq(Units)
           /\ file \o Buffer(batch) \in Seq(Units)
           /\ Len(file) <= Len(file \o Buffer(batch))
           /\ \A k \in 0..(Len(Buffer(batch)) - 1) :
                 /\ SubSeq(Buffer(batch), 1, k) \in Seq(Units)
                 /\ file \o SubSeq(Buffer(batch), 1, k) \in Seq(Units)
                 /\ Len(file) <= Len(file \o SubSeq(Buffer(batch), 1, k))
<1>1. file \in Seq(Units) /\ batch \in Seq(Appends)
  BY DEF TypeOK
<1>2. Buffer(batch) \in Seq(Units)
  BY <1>1, GroupAppended
<1>3. \A k \in 0..(Len(Buffer(batch)) - 1) : SubSeq(Buffer(batch), 1, k) \in Seq(Units)
  <2>1. \A k \in 0..(Len(Buffer(batch)) - 1) : k \in 0..Len(Buffer(batch))
    BY <1>2
  <2>. QED
    BY <1>2, <2>1, CutScan
<1>4. \A g \in Seq(Units) : file \o g \in Seq(Units) /\ Len(file) <= Len(file \o g)
  <2>. TAKE g \in Seq(Units)
  <2>1. file \o g \in Seq(Units) /\ Len(file \o g) = Len(file) + Len(g)
    BY <1>1, ConcatProperties
  <2>2. Len(file) \in Nat /\ Len(g) \in Nat
    BY <1>1
  <2>. QED
    BY <2>1, <2>2
<1>. QED
  BY <1>2, <1>3, <1>4

\* Every answer is a reply.
LEMMA AnswerType ==
    ASSUME TypeOK, NEW a \in {"ok", "failed"}, AnswerGroup(a)
    PROVE  /\ reply' \in [Appends -> {"unsent", "waiting", "ok", "failed", "lost"}]
           /\ batch' \in Seq(Appends) /\ Len(batch') <= MaxBatch /\ stage' = "receiving"
<1>1. << >> \in Seq(Appends) /\ Len(<< >>) = 0
  OBVIOUS
<1>2. reply' \in [Appends -> {"unsent", "waiting", "ok", "failed", "lost"}]
  BY DEF AnswerGroup, TypeOK
<1>. QED
  BY <1>1, <1>2, WalAssumption DEF AnswerGroup

LEMMA TypeStep == TypeOK /\ [Next]_vars => TypeOK'
<1>. SUFFICES ASSUME TypeOK, [Next]_vars
              PROVE  TypeOK'
  OBVIOUS
<1>1. ASSUME NEW r \in Appends, Send(r)
      PROVE  TypeOK'
  <2>1. Append(queue, r) \in Seq(Appends) /\ Len(Append(queue, r)) <= QueueCap
    BY <1>1, WalAssumption DEF Send, TypeOK
  <2>. QED
    BY <1>1, <2>1 DEF Send, TypeOK
<1>2. CASE Receive
  <2>1. /\ Tail(queue) \in Seq(Appends) /\ Len(Tail(queue)) <= QueueCap
        /\ <<Head(queue)>> \in Seq(Appends) /\ Len(<<Head(queue)>>) <= MaxBatch
    BY <1>2, WalAssumption DEF Receive, TypeOK
  <2>. QED
    BY <1>2, <2>1 DEF Receive, TypeOK
<1>3. CASE Join
  <2>1. /\ Tail(queue) \in Seq(Appends) /\ Len(Tail(queue)) <= QueueCap
        /\ Append(batch, Head(queue)) \in Seq(Appends)
        /\ Len(Append(batch, Head(queue))) <= MaxBatch
    BY <1>3, WalAssumption DEF Join, Room, TypeOK
  <2>. QED
    BY <1>3, <2>1 DEF Join, TypeOK
<1>4. CASE WriteGroup
  <2>1. file' \in Seq(Units) /\ Len(file) <= Len(file')
    BY <1>4, GroupBytes DEF WriteGroup
  <2>2. ToSet(batch) \subseteq Appends
    BY DEF ToSet, TypeOK
  <2>3. synced' \in 0..Len(file')
    BY <1>4, <2>1 DEF WriteGroup, TypeOK
  <2>. QED
    BY <1>4, <2>1, <2>2, <2>3 DEF WriteGroup, TypeOK
<1>5. CASE WriteFails
  <2>1. file' \in Seq(Units) /\ Len(file) <= Len(file')
    BY <1>5, GroupBytes DEF WriteFails
  <2>2. synced' \in 0..Len(file')
    BY <1>5, <2>1 DEF WriteFails, TypeOK
  <2>3. torn' \in BOOLEAN
    BY <1>5 DEF WriteFails, TypeOK
  <2>. QED
    BY <1>5, <2>1, <2>2, <2>3, AnswerType DEF WriteFails, TypeOK
<1>6. CASE Sync
  <2>1. synced' \in 0..Len(file')
    BY <1>6 DEF Sync, TypeOK
  <2>. QED
    BY <1>6, <2>1, AnswerType DEF Sync, TypeOK
<1>7. CASE SyncFails
  BY <1>7, AnswerType DEF SyncFails, TypeOK
<1>8. CASE Open
  <2>1. file' \in Seq(Units)
    BY <1>8, CutAtValid, CutScan, EmptyFile DEF Open, Usable, TypeOK
  <2>2. synced' \in 0..Len(file')
    BY <1>8, <2>1 DEF Open, TypeOK
  <2>3. Owed \subseteq Appends
    BY DEF Owed
  <2>. QED
    BY <1>8, <2>1, <2>2, <2>3 DEF Open, TypeOK
<1>9. CASE Reset
  <2>1. << >> \in Seq(Units) /\ Len(<< >>) = 0
    OBVIOUS
  <2>2. file' \in Seq(Units) /\ synced' \in 0..Len(file')
    BY <1>9, <2>1 DEF Reset
  <2>3. covered' \subseteq Appends /\ torn' \in BOOLEAN /\ phase' \in {"down", "opened", "serving"}
    BY <1>9 DEF Reset, TypeOK
  <2>. QED
    BY <1>9, <2>2, <2>3 DEF Reset, TypeOK
<1>10. CASE Crash
  <2>1. PICK k \in synced..Len(file) : file' = SubSeq(file, 1, k)
    BY <1>10 DEF Crash
  <2>2. k \in 0..Len(file)
    BY <2>1 DEF TypeOK
  <2>3. file' \in Seq(Units) /\ Len(file') = k
    BY <2>1, <2>2, CutScan DEF TypeOK
  <2>4. synced' \in 0..Len(file') /\ crashes' \in 0..MaxCrashes
    BY <1>10, <2>1, <2>3, WalAssumption DEF Crash, TypeOK
  <2>5. << >> \in Seq(Appends) /\ Len(<< >>) = 0
    OBVIOUS
  <2>. QED
    BY <1>10, <2>3, <2>4, <2>5, WalAssumption DEF Crash, TypeOK
<1>11. CASE UNCHANGED vars
  BY <1>11 DEF vars, TypeOK
<1>. QED
  BY <1>1, <1>2, <1>3, <1>4, <1>5, <1>6, <1>7, <1>8, <1>9, <1>10, <1>11 DEF Next, Writer

-----------------------------------------------------------------------------
(* The file consists of whole records *)

LEMMA FileStep ==
    ASSUME TypeOK, FileInv, GroupInv, [Next]_vars
    PROVE  FileInv'
<1>. SUFFICES ASSUME ~torn'
              PROVE  Scan(file').ok /\ (phase' # "down" => Scan(file').valid = Len(file'))
  BY DEF FileInv
<1>0. file \in Seq(Units) /\ batch \in Seq(Appends)
  BY DEF TypeOK
<1>1. CASE UNCHANGED <<file, torn, phase>>
  BY <1>1 DEF FileInv
<1>2. CASE WriteGroup
  <2>1. ~torn /\ phase # "down" /\ phase' = phase /\ file' = file \o Buffer(batch)
    BY <1>2 DEF WriteGroup, GroupInv
  <2>2. WholeFile(file)
    BY <2>1 DEF FileInv, WholeFile
  <2>. QED
    BY <1>0, <2>1, <2>2, GroupAppended DEF WholeFile
<1>3. CASE WriteFails
  <2>1. Scan(file').valid = Len(file')
    BY <1>3 DEF WriteFails
  <2>2. file' \in Seq(Units)
    BY <1>3, GroupBytes DEF WriteFails
  <2>3. CASE ~Scan(file').ok
    <3>1. 1 \in 1..(Len(file') + 1) /\ Len(file') \in Nat
      BY <2>2
    <3>2. Scan(file').valid = 0 /\ 1 <= Len(file')
      BY <2>2, <2>3, <3>1, ScanBounds DEF Scan
    <3>. QED
      BY <2>1, <3>1, <3>2
  <2>. QED
    BY <2>1, <2>3
<1>4. CASE Open
  <2>1. CASE Scan(file).ok
    BY <1>0, <1>4, <2>1, CutAtValid DEF Open, Usable, WholeFile
  <2>2. CASE ~Scan(file).ok
    BY <1>4, <2>2, EmptyFile DEF Open, Usable, WholeFile
  <2>. QED
    BY <2>1, <2>2
<1>5. CASE Reset
  BY <1>5, EmptyFile DEF Reset, WholeFile
<1>6. CASE Crash
  <2>1. PICK k \in synced..Len(file) : file' = SubSeq(file, 1, k)
    BY <1>6 DEF Crash
  <2>2. k \in 0..Len(file)
    BY <2>1 DEF TypeOK
  <2>3. Scan(file).ok /\ phase' = "down"
    BY <1>6 DEF Crash, FileInv
  <2>. QED
    BY <1>0, <2>1, <2>2, <2>3, CutScan
<1>7. ASSUME (\E r \in Appends : Send(r)) \/ Receive \/ Join \/ Sync \/ SyncFails \/ UNCHANGED vars
      PROVE  UNCHANGED <<file, torn, phase>>
  BY <1>7 DEF Send, Receive, Join, Sync, SyncFails, vars
<1>. QED
  BY <1>1, <1>2, <1>3, <1>4, <1>5, <1>6, <1>7 DEF Next, Writer

-----------------------------------------------------------------------------
(* What is owed is in the part that stays *)

\* The first part of a file is no other when something is appended.
LEMMA PrefixOfLonger ==
    ASSUME NEW f \in Seq(Units), NEW g \in Seq(Units), NEW n \in 0..Len(f)
    PROVE  SubSeq(f \o g, 1, n) = SubSeq(f, 1, n)
<1>1. CASE n = 0
  BY <1>1, SubSeqEmpty
<1>2. CASE n # 0
  <2>1. 1 \in 1..Len(f) /\ n \in 1..Len(f)
    BY <1>2
  <2>. QED
    BY <2>1, SubSeqOfConcat1
<1>. QED
  BY <1>1, <1>2

\* Nor when it is cut behind it.
LEMMA PrefixOfPrefix ==
    ASSUME NEW f \in Seq(Units), NEW k \in 0..Len(f), NEW n \in 0..k
    PROVE  SubSeq(SubSeq(f, 1, k), 1, n) = SubSeq(f, 1, n)
<1>1. /\ SubSeq(f, 1, k) \in Seq(Units) /\ Len(SubSeq(f, 1, k)) = k
      /\ \A i \in 1..k : SubSeq(f, 1, k)[i] = f[i]
  BY CutScan, SubSeqProperties
<1>2. n \in 0..Len(f) /\ n \in 0..Len(SubSeq(f, 1, k))
  BY <1>1
<1>. DEFINE s == SubSeq(SubSeq(f, 1, k), 1, n)
            t == SubSeq(f, 1, n)
<1>3. s \in Seq(Units) /\ Len(s) = n /\ t \in Seq(Units) /\ Len(t) = n
  BY <1>1, <1>2, CutScan
<1>4. \A i \in 1..n : s[i] = t[i]
  <2>. TAKE i \in 1..n
  <2>1. i \in 1..k
    OBVIOUS
  <2>. QED
    BY <1>1, <2>1
<1>. HIDE DEF s, t
<1>5. s = t
  BY <1>3, <1>4, SeqEqual
<1>. QED
  BY <1>5 DEF s, t

\* The records found in the part that is synced are found in the whole file.
LEMMA SyncedIsFound ==
    ASSUME NEW f \in Seq(Units), NEW k \in 0..Len(f), NEW n \in 0..k
    PROVE  Scan(SubSeq(f, 1, n)).ops \subseteq Scan(SubSeq(f, 1, k)).ops
<1>1. SubSeq(f, 1, k) \in Seq(Units) /\ Len(SubSeq(f, 1, k)) = k
  BY CutScan
<1>2. n \in 0..Len(SubSeq(f, 1, k))
  BY <1>1
<1>3. Scan(SubSeq(SubSeq(f, 1, k), 1, n)).ops \subseteq Scan(SubSeq(f, 1, k)).ops
  BY <1>1, <1>2, CutScan
<1>4. SubSeq(SubSeq(f, 1, k), 1, n) = SubSeq(f, 1, n)
  BY PrefixOfPrefix
<1>. QED
  BY <1>3, <1>4

LEMMA OwedStep ==
    ASSUME TypeOK, FileInv, OwedInv, GroupInv, [Next]_vars
    PROVE  OwedInv'
<1>0. file \in Seq(Units) /\ batch \in Seq(Appends) /\ synced \in 0..Len(file)
  BY DEF TypeOK
<1>1. ASSUME Owed' \ forfeit' \subseteq Owed \ forfeit,
             SubSeq(file', 1, synced') = SubSeq(file, 1, synced)
      PROVE  OwedInv'
  BY <1>1 DEF OwedInv
<1>2. CASE WriteGroup
  <2>1. Owed' = Owed /\ forfeit \subseteq forfeit' /\ synced' = synced
    BY <1>2 DEF WriteGroup, Owed
  <2>2. SubSeq(file', 1, synced') = SubSeq(file, 1, synced)
    BY <1>0, <1>2, <2>1, GroupBytes, PrefixOfLonger DEF WriteGroup
  <2>. QED
    BY <1>1, <2>1, <2>2
<1>3. CASE WriteFails
  <2>1. Owed' \subseteq Owed /\ forfeit' = forfeit /\ synced' = synced
    BY <1>3 DEF WriteFails, AnswerGroup, Owed
  <2>2. SubSeq(file', 1, synced') = SubSeq(file, 1, synced)
    BY <1>0, <1>3, <2>1, GroupBytes, PrefixOfLonger DEF WriteFails
  <2>. QED
    BY <1>1, <2>1, <2>2
<1>4. CASE Sync
  <2>1. /\ Owed' \subseteq Owed \cup ToSet(batch) /\ forfeit' = forfeit
        /\ synced' = Len(file) /\ file' = file /\ stage = "syncing"
    BY <1>4 DEF Sync, AnswerGroup, Members, Owed
  <2>2. SubSeq(file', 1, synced') = file
    BY <1>0, <2>1, SubSeqFull
  <2>3. Scan(SubSeq(file, 1, synced)).ops \subseteq Scan(file).ops
    BY <1>0, CutScan
  <2>4. Owed' \ forfeit' \subseteq Scan(SubSeq(file', 1, synced')).ops
    BY <2>1, <2>2, <2>3 DEF OwedInv, GroupInv
  <2>. QED
    BY <2>4 DEF OwedInv
<1>5. CASE Open
  <2>1. CASE Scan(file).ok
    <3>. DEFINE v == Scan(file).valid
    <3>1. v \in 0..Len(file) /\ file' = SubSeq(file, 1, v) /\ Len(file') = v
      BY <1>0, <1>5, <2>1, CutAtValid, CutScan DEF Open, Usable
    <3>2. Owed' = Owed /\ forfeit' = forfeit
      BY <1>5, <2>1 DEF Open, Owed
    <3>3. CASE synced <= v
      <4>1. synced' = synced /\ synced \in 0..v
        BY <1>0, <1>5, <3>1, <3>3 DEF Open
      <4>2. SubSeq(file', 1, synced') = SubSeq(file, 1, synced)
        BY <1>0, <3>1, <4>1, PrefixOfPrefix
      <4>. QED
        BY <1>1, <3>2, <4>2
    <3>4. CASE ~(synced <= v)
      <4>1. synced' = v
        BY <1>5, <3>1, <3>4 DEF Open
      <4>2. file' \in Seq(Units)
        BY <1>0, <3>1, CutScan
      <4>3. SubSeq(file', 1, synced') = file'
        BY <3>1, <4>1, <4>2, SubSeqFull
      <4>4. Scan(file').ops = Scan(file).ops
        BY <1>0, <2>1, <3>1, CutAtValid
      <4>5. Scan(SubSeq(file, 1, synced)).ops \subseteq Scan(file).ops
        BY <1>0, CutScan
      <4>6. Owed' \ forfeit' \subseteq Scan(SubSeq(file', 1, synced')).ops
        BY <3>2, <4>3, <4>4, <4>5 DEF OwedInv
      <4>. QED
        BY <4>6 DEF OwedInv
    <3>. QED
      BY <3>3, <3>4
  <2>2. CASE ~Scan(file).ok
    <3>1. Owed' \ forfeit' = {}
      BY <1>5, <2>2 DEF Open, Owed
    <3>. QED
      BY <3>1 DEF OwedInv
  <2>. QED
    BY <2>1, <2>2
<1>6. CASE Reset
  <2>1. Owed' = {}
    BY <1>6 DEF Reset, Owed
  <2>. QED
    BY <2>1 DEF OwedInv
<1>7. CASE Crash
  <2>1. PICK k \in synced..Len(file) : file' = SubSeq(file, 1, k)
    BY <1>7 DEF Crash
  <2>2. k \in 0..Len(file) /\ synced \in 0..k /\ synced' = synced
    BY <1>0, <1>7, <2>1 DEF Crash
  <2>3. SubSeq(file', 1, synced') = SubSeq(file, 1, synced)
    BY <1>0, <2>1, <2>2, PrefixOfPrefix
  <2>4. Owed' \subseteq Owed /\ forfeit' = forfeit
    BY <1>7 DEF Crash, Owed
  <2>. QED
    BY <1>1, <2>3, <2>4
<1>8. ASSUME (\E r \in Appends : Send(r)) \/ Receive \/ Join \/ SyncFails \/ UNCHANGED vars
      PROVE  Owed' \subseteq Owed /\ UNCHANGED <<forfeit, file, synced>>
  <2>1. ASSUME NEW r \in Appends, Send(r)
        PROVE  Owed' \subseteq Owed /\ UNCHANGED <<forfeit, file, synced>>
    BY <2>1 DEF Send, Owed, TypeOK
  <2>2. ASSUME Receive \/ Join \/ UNCHANGED vars
        PROVE  Owed' \subseteq Owed /\ UNCHANGED <<forfeit, file, synced>>
    BY <2>2 DEF Receive, Join, vars, Owed
  <2>3. ASSUME SyncFails
        PROVE  Owed' \subseteq Owed /\ UNCHANGED <<forfeit, file, synced>>
    BY <2>3 DEF SyncFails, AnswerGroup, Owed
  <2>. QED
    BY <1>8, <2>1, <2>2, <2>3
<1>9. ASSUME Owed' \subseteq Owed /\ UNCHANGED <<forfeit, file, synced>>
      PROVE  OwedInv'
  BY <1>1, <1>9
<1>. QED
  BY <1>2, <1>3, <1>4, <1>5, <1>6, <1>7, <1>8, <1>9 DEF Next, Writer

-----------------------------------------------------------------------------
(* What is written is found, and nobody is forgotten *)

LEMMA GroupStep ==
    ASSUME TypeOK, FileInv, GroupInv, [Next]_vars
    PROVE  GroupInv'
<1>0. file \in Seq(Units) /\ batch \in Seq(Appends) /\ queue \in Seq(Appends)
  BY DEF TypeOK
<1>1. CASE WriteGroup
  <2>1. stage' = "syncing" /\ UNCHANGED <<batch, queue, phase>> /\ file' = file \o Buffer(batch)
        /\ stage = "gathering"
    BY <1>1 DEF WriteGroup
  <2>2. batch # << >> /\ phase # "down"
    BY <2>1 DEF GroupInv
  <2>3. CASE torn
    <3>1. ToSet(batch) \subseteq forfeit'
      BY <1>1, <2>3 DEF WriteGroup
    <3>. QED
      BY <2>1, <2>2, <3>1 DEF GroupInv
  <2>4. CASE ~torn
    <3>1. WholeFile(file)
      BY <2>2, <2>4 DEF FileInv, WholeFile
    <3>2. ToSet(batch) \subseteq Scan(file').ops
      BY <1>0, <2>1, <3>1, GroupAppended
    <3>. QED
      BY <2>1, <2>2, <3>2 DEF GroupInv
  <2>. QED
    BY <2>3, <2>4
<1>2. ASSUME NEW a, AnswerGroup(a), UNCHANGED <<queue, phase>>, stage # "receiving"
      PROVE  GroupInv'
  BY <1>2 DEF AnswerGroup, GroupInv
<1>3. CASE WriteFails \/ Sync \/ SyncFails
  BY <1>2, <1>3 DEF WriteFails, Sync, SyncFails
<1>4. ASSUME NEW r \in Appends, Send(r)
      PROVE  GroupInv'
  BY <1>4 DEF Send, GroupInv
<1>5. CASE Receive
  BY <1>5 DEF Receive, GroupInv
<1>6. CASE Join
  <2>1. Append(batch, Head(queue)) # << >> /\ phase # "down"
    BY <1>0, <1>6 DEF Join, GroupInv
  <2>. QED
    BY <1>6, <2>1 DEF Join, GroupInv
<1>7. CASE Open
  BY <1>7 DEF Open, GroupInv
<1>8. CASE Reset
  BY <1>8 DEF Reset, Quiet, GroupInv
<1>9. CASE Crash
  BY <1>9 DEF Crash, GroupInv
<1>10. CASE UNCHANGED vars
  BY <1>10 DEF vars, GroupInv
<1>. QED
  BY <1>1, <1>3, <1>4, <1>5, <1>6, <1>7, <1>8, <1>9, <1>10 DEF Next, Writer

LEMMA HeldElements ==
    ASSUME TypeOK
    PROVE  /\ Held \in Seq(Appends) /\ Len(Held) = Len(batch) + Len(queue)
           /\ \A i \in 1..Len(batch) : Held[i] = batch[i]
           /\ \A i \in 1..Len(queue) : Held[Len(batch) + i] = queue[i]
<1>1. batch \in Seq(Appends) /\ queue \in Seq(Appends)
  BY DEF TypeOK
<1>2. /\ Held \in Seq(Appends) /\ Len(Held) = Len(batch) + Len(queue)
      /\ \A i \in 1..(Len(batch) + Len(queue)) :
            Held[i] = IF i <= Len(batch) THEN batch[i] ELSE queue[i - Len(batch)]
  BY <1>1, ConcatProperties DEF Held
<1>3. \A i \in 1..Len(queue) : Held[Len(batch) + i] = queue[i]
  <2>. TAKE i \in 1..Len(queue)
  <2>1. Len(batch) + i \in 1..(Len(batch) + Len(queue)) /\ ~(Len(batch) + i <= Len(batch))
        /\ Len(batch) + i - Len(batch) = i
    BY <1>1
  <2>. QED
    BY <1>2, <2>1
<1>4. \A i \in 1..Len(batch) : Held[i] = batch[i]
  BY <1>1, <1>2
<1>. QED
  BY <1>2, <1>3, <1>4

\* A command that goes from the channel into the group keeps its place.
LEMMA HeldKept ==
    ASSUME TypeOK, GroupInv, Receive \/ Join
    PROVE  Held' = Held
<1>1. /\ batch \in Seq(Appends) /\ queue \in Seq(Appends) /\ queue # << >>
      /\ batch' = Append(batch, Head(queue)) /\ queue' = Tail(queue)
  <2>1. CASE Receive
    <3>1. batch = << >> /\ Append(<< >>, Head(queue)) = <<Head(queue)>>
      BY <2>1 DEF Receive, GroupInv
    <3>. QED
      BY <2>1, <3>1 DEF Receive, TypeOK
  <2>2. CASE Join
    BY <2>2 DEF Join, TypeOK
  <2>. QED
    BY <2>1, <2>2
<1>2. Head(queue) \in Appends /\ Tail(queue) \in Seq(Appends)
  BY <1>1, HeadTailProperties
<1>3. Append(batch, Head(queue)) = batch \o <<Head(queue)>>
  BY <1>1, <1>2, AppendIsConcat
<1>4. <<Head(queue)>> \o Tail(queue) = queue
  BY <1>1
<1>5. <<Head(queue)>> \in Seq(Appends)
  BY <1>2
<1>6. (batch \o <<Head(queue)>>) \o Tail(queue) = batch \o (<<Head(queue)>> \o Tail(queue))
  BY <1>1, <1>2, <1>5, ConcatAssociative
<1>. QED
  BY <1>1, <1>3, <1>4, <1>6 DEF Held

\* An answer goes to the group; who is in the channel waits on.
LEMMA WaitAnswered ==
    ASSUME TypeOK, WaitInv, NEW a \in {"ok", "failed"}, AnswerGroup(a), queue' = queue
    PROVE  WaitInv'
<1>1. /\ batch \in Seq(Appends) /\ queue \in Seq(Appends)
      /\ Len(batch) \in Nat /\ Len(queue) \in Nat
  BY DEF TypeOK
<1>2. Held' = queue
  <2>1. << >> \o queue = queue
    BY <1>1, ConcatEmptySeq
  <2>. QED
    BY <2>1 DEF Held, AnswerGroup
<1>3. \A r \in Appends : r \in ToSet(batch) <=> \E i \in 1..Len(batch) : batch[i] = r
  BY <1>1 DEF ToSet
<1>4. \A i \in 1..Len(queue) : Len(batch) + i \in 1..Len(Held)
  BY <1>1, HeldElements
<1>5. \A i \in 1..Len(batch) : i \in 1..Len(Held)
  BY <1>1, HeldElements
<1>6. \A i, j \in 1..Len(queue) : queue[i] = queue[j] => i = j
  <2>. TAKE i, j \in 1..Len(queue)
  <2>. HAVE queue[i] = queue[j]
  <2>1. Held[Len(batch) + i] = Held[Len(batch) + j]
    BY HeldElements
  <2>2. Len(batch) + i = Len(batch) + j
    BY <1>4, <2>1 DEF WaitInv
  <2>. QED
    BY <1>1, <2>2
<1>7. \A i \in 1..Len(queue) : queue[i] \notin ToSet(batch)
  <2>. SUFFICES ASSUME NEW i \in 1..Len(queue), NEW j \in 1..Len(batch), batch[j] = queue[i]
                PROVE  FALSE
    BY <1>1, <1>3
  <2>1. Held[j] = Held[Len(batch) + i]
    BY HeldElements
  <2>2. j = Len(batch) + i
    BY <1>4, <1>5, <2>1 DEF WaitInv
  <2>. QED
    BY <1>1, <2>2
<1>8. ASSUME NEW r \in Appends
      PROVE  reply'[r] = "waiting" <=> \E i \in 1..Len(queue) : queue[i] = r
  <2>1. reply'[r] = "waiting" <=> reply[r] = "waiting" /\ r \notin ToSet(batch)
    BY DEF AnswerGroup, Members
  <2>2. ASSUME NEW i \in 1..Len(queue), queue[i] = r
        PROVE  reply'[r] = "waiting"
    <3>1. Held[Len(batch) + i] = r /\ Len(batch) + i \in 1..Len(Held)
      BY <1>4, <2>2, HeldElements
    <3>2. reply[r] = "waiting"
      BY <3>1 DEF WaitInv
    <3>. QED
      BY <1>7, <2>1, <2>2, <3>2
  <2>3. ASSUME reply'[r] = "waiting"
        PROVE  \E i \in 1..Len(queue) : queue[i] = r
    <3>1. PICK i \in 1..Len(Held) : Held[i] = r
      BY <2>1, <2>3 DEF WaitInv
    <3>2. ~(i \in 1..Len(batch))
      BY <1>3, <2>1, <2>3, <3>1, HeldElements
    <3>3. i - Len(batch) \in 1..Len(queue) /\ Len(batch) + (i - Len(batch)) = i
      BY <1>1, <3>1, <3>2, HeldElements
    <3>4. Held[Len(batch) + (i - Len(batch))] = queue[i - Len(batch)]
      BY <3>3, HeldElements
    <3>. QED
      BY <3>1, <3>3, <3>4
  <2>. QED
    BY <2>2, <2>3
<1>. QED
  BY <1>2, <1>6, <1>8 DEF WaitInv

LEMMA WaitStep ==
    ASSUME TypeOK, GroupInv, WaitInv, [Next]_vars
    PROVE  WaitInv'
<1>1. ASSUME NEW r \in Appends, Send(r)
      PROVE  WaitInv'
  <2>1. batch \in Seq(Appends) /\ queue \in Seq(Appends) /\ Held \in Seq(Appends)
    BY HeldElements DEF TypeOK
  <2>2. Held' = Append(Held, r)
    <3>1. Append(queue, r) = queue \o <<r>> /\ Append(Held, r) = Held \o <<r>>
      BY <2>1, AppendIsConcat
    <3>2. (batch \o queue) \o <<r>> = batch \o (queue \o <<r>>)
      BY <2>1, ConcatAssociative
    <3>. QED
      BY <1>1, <3>1, <3>2 DEF Send, Held
  <2>3. /\ Len(Held') = Len(Held) + 1 /\ Held'[Len(Held) + 1] = r
        /\ \A i \in 1..Len(Held) : Held'[i] = Held[i]
    BY <2>1, <2>2, AppendProperties
  <2>4. \A i \in 1..Len(Held) : Held[i] # r
    BY <1>1 DEF Send, WaitInv
  <2>5. Len(Held) \in Nat
    BY <2>1
  <2>6. \A i \in 1..Len(Held') : i \in 1..Len(Held) \/ i = Len(Held) + 1
    BY <2>3, <2>5
  <2>7. \A i, j \in 1..Len(Held') : Held'[i] = Held'[j] => i = j
    BY <2>3, <2>4, <2>6 DEF WaitInv
  <2>8. \A q \in Appends : reply'[q] = "waiting" <=> reply[q] = "waiting" \/ q = r
    BY <1>1 DEF Send, TypeOK
  <2>9. ASSUME NEW q \in Appends
        PROVE  reply'[q] = "waiting" <=> \E i \in 1..Len(Held') : Held'[i] = q
    <3>1. Len(Held) + 1 \in 1..Len(Held') /\ \A i \in 1..Len(Held) : i \in 1..Len(Held')
      BY <2>3, <2>5
    <3>. QED
      BY <2>3, <2>6, <2>8, <3>1 DEF WaitInv
  <2>. QED
    BY <2>7, <2>9 DEF WaitInv
<1>2. ASSUME Held' = Held, reply' = reply
      PROVE  WaitInv'
  BY <1>2 DEF WaitInv
<1>3. CASE Receive \/ Join
  <2>1. reply' = reply
    BY <1>3 DEF Receive, Join
  <2>. QED
    BY <1>2, <1>3, <2>1, HeldKept
<1>4. CASE WriteGroup \/ Open \/ Reset \/ UNCHANGED vars
  <2>1. UNCHANGED <<batch, queue, reply>>
    BY <1>4 DEF WriteGroup, Open, Reset, vars
  <2>. QED
    BY <1>2, <2>1 DEF Held
<1>5. CASE WriteFails \/ Sync \/ SyncFails
  BY <1>5, WaitAnswered DEF WriteFails, Sync, SyncFails
<1>6. CASE Crash
  <2>1. Held' = << >> \o << >>
    BY <1>6 DEF Crash, Held
  <2>2. Len(Held') = 0
    BY <2>1
  <2>3. \A r \in Appends : reply'[r] # "waiting"
    BY <1>6 DEF Crash
  <2>. QED
    BY <2>2, <2>3 DEF WaitInv
<1>. QED
  BY <1>1, <1>3, <1>4, <1>5, <1>6 DEF Next, Writer

-----------------------------------------------------------------------------
(* The theorems *)

LEMMA InitWInv == Init => WInv
<1>. SUFFICES ASSUME Init
              PROVE  WInv
  OBVIOUS
<1>1. TypeOK
  BY InitTypeOK
<1>2. FileInv
  BY EmptyFile DEF Init, FileInv, WholeFile
<1>3. OwedInv
  BY DEF Init, OwedInv, Owed
<1>4. GroupInv
  BY DEF Init, GroupInv
<1>5. Len(<< >> \o << >>) = 0
  OBVIOUS
<1>6. WaitInv
  BY <1>5 DEF Init, WaitInv, Held
<1>. QED
  BY <1>1, <1>2, <1>3, <1>4, <1>6 DEF WInv

LEMMA WInvStep == WInv /\ [Next]_vars => WInv'
BY TypeStep, FileStep, OwedStep, GroupStep, WaitStep DEF WInv

\* The file, what is owed, the group and those who wait agree with each other in
\* every reachable state, whatever is written, fails or dies.
THEOREM WalInvariant == Spec => []WInv
<1>. QED
  BY InitWInv, WInvStep, PTL DEF Spec

\* A crash leaves a first part of the file, and behind what is synced.
LEMMA CrashLeaves ==
    ASSUME TypeOK, NEW f \in AfterCrash
    PROVE  \E k \in 0..Len(file) : f = SubSeq(file, 1, k) /\ synced \in 0..k
BY DEF AfterCrash, TypeOK

\* ARCHITECTURE.md, invariant 1: an acknowledged record survives crashes at any
\* moment, for any number of appends, groups, failures and crashes.
THEOREM AcknowledgedSurvives == Spec => []AckedIsRecovered
<1>1. ASSUME WInv
      PROVE  AckedIsRecovered
  <2>. SUFFICES ASSUME NEW f \in AfterCrash, torn => Scan(f).ok
                PROVE  Owed \ forfeit \subseteq Recovered(f)
    BY DEF AckedIsRecovered
  <2>1. PICK k \in 0..Len(file) : f = SubSeq(file, 1, k) /\ synced \in 0..k
    BY <1>1, CrashLeaves DEF WInv
  <2>2. Scan(SubSeq(file, 1, synced)).ops \subseteq Scan(f).ops
    BY <1>1, <2>1, SyncedIsFound DEF WInv, TypeOK
  <2>3. Scan(f).ok
    BY <1>1, <2>1, CutScan DEF WInv, TypeOK, FileInv
  <2>. QED
    BY <1>1, <2>2, <2>3 DEF WInv, OwedInv, Recovered
<1>2. WInv => AckedIsRecovered
  BY <1>1
<1>. QED
  BY <1>2, WalInvariant, PTL

\* No crash makes a file look damaged that no failed write has touched.
THEOREM CrashesLookWhole == Spec => []NoFalseAlarm
<1>1. ASSUME WInv
      PROVE  NoFalseAlarm
  <2>. SUFFICES ASSUME ~torn, NEW f \in AfterCrash
                PROVE  Scan(f).ok
    BY DEF NoFalseAlarm
  <2>1. PICK k \in 0..Len(file) : f = SubSeq(file, 1, k) /\ synced \in 0..k
    BY <1>1, CrashLeaves DEF WInv
  <2>2. Scan(file).ok
    BY <1>1 DEF WInv, FileInv
  <2>. QED
    BY <1>1, <2>1, <2>2, CutScan DEF WInv, TypeOK
<1>2. WInv => NoFalseAlarm
  BY <1>1
<1>. QED
  BY <1>2, WalInvariant, PTL
=============================================================================
