-------------------------- MODULE AcceptedLogProofs --------------------------
(***************************************************************************)
(* Facts about the operators of AcceptedLog for every log: EpochIn is the  *)
(* greatest epoch of the fences, it and TakenTo depend only on the records *)
(* they count, grow along the log, and follow the recursion of catch_up.   *)
(***************************************************************************)
EXTENDS AcceptedLog, WellFoundedInduction, TLAPS

\* A finite log whose fences have epochs.
IsLog(L) ==
    /\ Len(L) \in Nat
    /\ \A k \in 1..Len(L) : L[k].kind = "fence" => L[k].epoch \in Nat

-----------------------------------------------------------------------------
(* Natural numbers *)

\* A nonempty set of natural numbers has a least element.
LEMMA LeastOf ==
    ASSUME NEW S \in SUBSET Nat, S # {}
    PROVE  \E m \in S : \A n \in S : m <= n
<1>1. PICK x \in S : \A y \in S : ~ (<<y, x>> \in OpToRel(<, Nat))
  BY NatLessThanWellFounded, WFMin
<1>2. \A y \in S : ~(y < x)
  BY <1>1 DEF OpToRel
<1>. QED
  BY <1>2

-----------------------------------------------------------------------------
(* The epochs of a log *)

\* Some fence of the first i has the greatest epoch, unless there is none.
LEMMA GreatestFence ==
    ASSUME NEW L, IsLog(L), NEW i \in 0..Len(L)
    PROVE  \E e \in Nat :
              /\ \A k \in 1..i : L[k].kind = "fence" => L[k].epoch <= e
              /\ e = 0 \/ \E k \in 1..i : L[k].kind = "fence" /\ L[k].epoch = e
<1>. DEFINE Greatest(e, j) ==
        /\ \A k \in 1..j : L[k].kind = "fence" => L[k].epoch <= e
        /\ e = 0 \/ \E k \in 1..j : L[k].kind = "fence" /\ L[k].epoch = e
<1>. DEFINE Bad == {j \in 0..Len(L) : ~\E e \in Nat : Greatest(e, j)}
<1>0. Len(L) \in Nat
  BY DEF IsLog
<1>1. ASSUME NEW j \in 0..Len(L), j # 0, NEW e \in Nat, Greatest(e, j - 1)
      PROVE  \E f \in Nat : Greatest(f, j)
  <2>1. \A k : k \in 1..j <=> k \in 1..(j - 1) \/ k = j
    BY <1>0, <1>1
  <2>2. j \in 1..Len(L)
    BY <1>0, <1>1
  <2>3. CASE L[j].kind = "fence" /\ L[j].epoch > e
    <3>1. L[j].epoch \in Nat
      BY <2>2, <2>3 DEF IsLog
    <3>2. \A k \in 1..(j - 1) : L[k].kind = "fence" => L[k].epoch <= L[j].epoch
      <4>1. \A k \in 1..(j - 1) : L[k].kind = "fence" => L[k].epoch \in Nat
        BY <1>0, <1>1 DEF IsLog
      <4>. QED
        BY <1>1, <2>3, <3>1, <4>1
    <3>3. Greatest(L[j].epoch, j)
      BY <2>1, <2>3, <3>1, <3>2
    <3>. QED
      BY <3>1, <3>3
  <2>4. CASE ~(L[j].kind = "fence" /\ L[j].epoch > e)
    <3>1. L[j].kind = "fence" => L[j].epoch <= e
      BY <2>2, <2>4 DEF IsLog
    <3>2. Greatest(e, j)
      BY <1>1, <2>1, <3>1
    <3>. QED
      BY <3>2
  <2>. QED
    BY <2>3, <2>4
<1>2. Greatest(0, 0)
  OBVIOUS
<1>. HIDE DEF Greatest
<1>3. Bad = {}
  <2>. SUFFICES ASSUME Bad # {}
                PROVE  FALSE
    OBVIOUS
  <2>1. Bad \in SUBSET Nat
    BY <1>0
  <2>. HIDE DEF Bad
  <2>2. PICK j \in Bad : \A k \in Bad : j <= k
    BY <2>1, LeastOf
  <2>. USE DEF Bad
  <2>3. j \in 0..Len(L) /\ j # 0
    BY <1>2
  <2>4. j - 1 \in 0..Len(L) /\ ~(j <= j - 1)
    BY <1>0, <2>3
  <2>5. PICK e \in Nat : Greatest(e, j - 1)
    BY <2>2, <2>4
  <2>. QED
    BY <1>1, <2>3, <2>5
<1>. QED
  BY <1>3 DEF Greatest

\* EpochIn is the greatest epoch of the fences, and 0 without one.
LEMMA EpochFacts ==
    ASSUME NEW L, IsLog(L), NEW i \in 0..Len(L)
    PROVE  /\ EpochIn(L, i) \in Nat
           /\ \A k \in 1..i : L[k].kind = "fence" => L[k].epoch <= EpochIn(L, i)
           /\ \/ EpochIn(L, i) = 0
              \/ \E k \in 1..i : L[k].kind = "fence" /\ L[k].epoch = EpochIn(L, i)
<1>. DEFINE fences == {L[j].epoch : j \in {k \in 1..i : L[k].kind = "fence"}}
<1>1. \A k \in 1..i : k \in 1..Len(L)
  BY DEF IsLog
<1>2. fences \subseteq Nat
  BY <1>1 DEF IsLog
<1>3. \E e \in fences \cup {0} : \A f \in fences : f <= e
  <2>1. PICK e \in Nat :
            /\ \A k \in 1..i : L[k].kind = "fence" => L[k].epoch <= e
            /\ e = 0 \/ \E k \in 1..i : L[k].kind = "fence" /\ L[k].epoch = e
    BY GreatestFence
  <2>2. e \in fences \cup {0} /\ \A f \in fences : f <= e
    BY <2>1
  <2>. QED
    BY <2>2
<1>4. /\ EpochIn(L, i) \in fences \cup {0}
      /\ \A f \in fences : f <= EpochIn(L, i)
  <2>1. EpochIn(L, i) = CHOOSE e \in fences \cup {0} : \A f \in fences : f <= e
    BY Zenon DEF EpochIn
  <2>. HIDE DEF fences
  <2>. QED
    BY <1>3, <2>1
<1>. QED
  BY <1>2, <1>4

LEMMA EpochIs ==
    ASSUME NEW L, IsLog(L), NEW i \in 0..Len(L), NEW e \in Nat,
           \A k \in 1..i : L[k].kind = "fence" => L[k].epoch <= e,
           e = 0 \/ \E k \in 1..i : L[k].kind = "fence" /\ L[k].epoch = e
    PROVE  EpochIn(L, i) = e
<1>1. /\ EpochIn(L, i) \in Nat
      /\ \A k \in 1..i : L[k].kind = "fence" => L[k].epoch <= EpochIn(L, i)
      /\ \/ EpochIn(L, i) = 0
         \/ \E k \in 1..i : L[k].kind = "fence" /\ L[k].epoch = EpochIn(L, i)
  BY EpochFacts
<1>2. EpochIn(L, i) <= e
  BY <1>1
<1>3. e <= EpochIn(L, i)
  BY <1>1
<1>. QED
  BY <1>1, <1>2, <1>3

\* What the first i records give, two logs with these records give.
LEMMA SamePrefix ==
    ASSUME NEW L, IsLog(L), NEW M, IsLog(M),
           NEW i \in Nat, i <= Len(L), i <= Len(M),
           \A k \in 1..i : L[k] = M[k]
    PROVE  /\ EpochIn(L, i) = EpochIn(M, i)
           /\ \A k \in 1..i : TakenIn(L, k) <=> TakenIn(M, k)
           /\ TakenTo(L, i) = TakenTo(M, i)
           /\ EarlyTo(L, i) = EarlyTo(M, i)
<1>1. ASSUME NEW j \in 0..i
      PROVE  EpochIn(L, j) = EpochIn(M, j)
  <2>1. /\ j \in 0..Len(L) /\ j \in 0..Len(M)
        /\ \A k \in 1..j : k \in 1..i
    BY <1>1 DEF IsLog
  <2>2. /\ EpochIn(L, j) \in Nat
        /\ \A k \in 1..j : L[k].kind = "fence" => L[k].epoch <= EpochIn(L, j)
        /\ \/ EpochIn(L, j) = 0
           \/ \E k \in 1..j : L[k].kind = "fence" /\ L[k].epoch = EpochIn(L, j)
    BY <2>1, EpochFacts
  <2>3. /\ \A k \in 1..j : M[k].kind = "fence" => M[k].epoch <= EpochIn(L, j)
        /\ \/ EpochIn(L, j) = 0
           \/ \E k \in 1..j : M[k].kind = "fence" /\ M[k].epoch = EpochIn(L, j)
    BY <2>1, <2>2
  <2>. QED
    BY <2>1, <2>2, <2>3, EpochIs
<1>2. ASSUME NEW k \in 1..i
      PROVE  (TakenIn(L, k) <=> TakenIn(M, k)) /\ (EarlyIn(L, k) <=> EarlyIn(M, k))
  <2>1. k - 1 \in 0..i /\ L[k] = M[k]
    BY <1>2
  <2>2. EpochIn(L, k - 1) = EpochIn(M, k - 1)
    BY <1>1, <2>1
  <2>. QED
    BY <2>1, <2>2 DEF TakenIn, EarlyIn
<1>3. TakenTo(L, i) = TakenTo(M, i) /\ EarlyTo(L, i) = EarlyTo(M, i)
  BY <1>2 DEF TakenTo, EarlyTo
<1>. QED
  BY <1>1, <1>2, <1>3

\* A fence announces its epoch unless a later one has; other records change nothing.
LEMMA EpochStep ==
    ASSUME NEW L, IsLog(L), NEW i \in Nat, i < Len(L)
    PROVE  EpochIn(L, i + 1) =
               IF L[i + 1].kind = "fence" /\ L[i + 1].epoch > EpochIn(L, i)
               THEN L[i + 1].epoch ELSE EpochIn(L, i)
<1>1. i \in 0..Len(L) /\ i + 1 \in 0..Len(L) /\ i + 1 \in 1..Len(L)
  BY DEF IsLog
<1>2. \A k : k \in 1..(i + 1) <=> k \in 1..i \/ k = i + 1
  BY DEF IsLog
<1>3. /\ EpochIn(L, i) \in Nat
      /\ \A k \in 1..i : L[k].kind = "fence" => L[k].epoch <= EpochIn(L, i)
      /\ \/ EpochIn(L, i) = 0
         \/ \E k \in 1..i : L[k].kind = "fence" /\ L[k].epoch = EpochIn(L, i)
  BY <1>1, EpochFacts
<1>4. \A k \in 1..(i + 1) : L[k].kind = "fence" => L[k].epoch \in Nat
  BY <1>1 DEF IsLog
<1>5. CASE L[i + 1].kind = "fence" /\ L[i + 1].epoch > EpochIn(L, i)
  <2>1. \A k \in 1..(i + 1) : L[k].kind = "fence" => L[k].epoch <= L[i + 1].epoch
    <3>. TAKE k \in 1..(i + 1)
    <3>1. CASE k = i + 1
      BY <3>1, <1>2, <1>4
    <3>2. CASE k \in 1..i
      BY <3>2, <1>2, <1>3, <1>4, <1>5
    <3>. QED
      BY <1>2, <3>1, <3>2
  <2>2. L[i + 1].epoch \in Nat /\ i + 1 \in 1..(i + 1)
    BY <1>4, <1>5
  <2>. QED
    BY <1>1, <1>5, <2>1, <2>2, EpochIs
<1>6. CASE ~(L[i + 1].kind = "fence" /\ L[i + 1].epoch > EpochIn(L, i))
  <2>1. \A k \in 1..(i + 1) : L[k].kind = "fence" => L[k].epoch <= EpochIn(L, i)
    <3>. TAKE k \in 1..(i + 1)
    <3>1. CASE k = i + 1
      BY <3>1, <1>2, <1>3, <1>4, <1>6
    <3>2. CASE k \in 1..i
      BY <3>2, <1>3
    <3>. QED
      BY <1>2, <3>1, <3>2
  <2>2. \/ EpochIn(L, i) = 0
        \/ \E k \in 1..(i + 1) : L[k].kind = "fence" /\ L[k].epoch = EpochIn(L, i)
    BY <1>2, <1>3
  <2>3. EpochIn(L, i + 1) = EpochIn(L, i)
    BY <1>1, <1>3, <2>1, <2>2, EpochIs
  <2>. QED
    BY <1>6, <2>3
<1>. QED
  BY <1>5, <1>6

LEMMA TakenStep ==
    ASSUME NEW L, IsLog(L), NEW i \in Nat, i < Len(L)
    PROVE  /\ TakenTo(L, i + 1) =
               TakenTo(L, i) \cup (IF TakenIn(L, i + 1) THEN {L[i + 1].op} ELSE {})
           /\ EarlyTo(L, i + 1) =
               EarlyTo(L, i) \cup (IF EarlyIn(L, i + 1) THEN {L[i + 1].op} ELSE {})
<1>1. \A k : k \in 1..(i + 1) <=> k \in 1..i \/ k = i + 1
  BY DEF IsLog
<1>. QED
  BY <1>1 DEF TakenTo, EarlyTo

\* Epochs never fall along a log, and nothing that was taken is untaken.
LEMMA Grows ==
    ASSUME NEW L, IsLog(L), NEW i \in Nat, NEW j \in Nat, i <= j, j <= Len(L)
    PROVE  /\ EpochIn(L, i) <= EpochIn(L, j)
           /\ TakenTo(L, i) \subseteq TakenTo(L, j)
           /\ EarlyTo(L, i) \subseteq EarlyTo(L, j)
<1>1. i \in 0..Len(L) /\ j \in 0..Len(L) /\ \A k \in 1..i : k \in 1..j
  BY DEF IsLog
<1>2. /\ EpochIn(L, i) \in Nat
      /\ \/ EpochIn(L, i) = 0
         \/ \E k \in 1..i : L[k].kind = "fence" /\ L[k].epoch = EpochIn(L, i)
  BY <1>1, EpochFacts
<1>3. /\ EpochIn(L, j) \in Nat
      /\ \A k \in 1..j : L[k].kind = "fence" => L[k].epoch <= EpochIn(L, j)
  BY <1>1, EpochFacts
<1>4. EpochIn(L, i) <= EpochIn(L, j)
  BY <1>1, <1>2, <1>3
<1>5. TakenTo(L, i) \subseteq TakenTo(L, j) /\ EarlyTo(L, i) \subseteq EarlyTo(L, j)
  BY <1>1 DEF TakenTo, EarlyTo
<1>. QED
  BY <1>4, <1>5

\* Nothing is taken of an empty log.
LEMMA EmptyLog ==
    ASSUME NEW L, IsLog(L)
    PROVE  EpochIn(L, 0) = 0 /\ TakenTo(L, 0) = {} /\ EarlyTo(L, 0) = {}
<1>1. 0 \in 0..Len(L) /\ \A k \in 1..0 : FALSE
  BY DEF IsLog
<1>2. EpochIn(L, 0) = 0
  BY <1>1, EpochIs
<1>. QED
  BY <1>1, <1>2 DEF TakenTo, EarlyTo
=============================================================================
