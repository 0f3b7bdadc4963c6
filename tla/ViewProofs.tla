----------------------------- MODULE ViewProofs -----------------------------
(***************************************************************************)
(* Proofs about RuntimeView and ActionReview, for any processes, worktrees *)
(* and reviews.                                                            *)
(***************************************************************************)
EXTENDS ActionReview, FiniteSetTheorems, WellFoundedInduction, TLAPS

-----------------------------------------------------------------------------
(* Sequences that are sorted and filtered.                                 *)

\* upto[i] are the indices that are not after i in a linear order of D.
Linear(D, upto) ==
    /\ DOMAIN upto = D
    /\ \A i \in D : upto[i] \subseteq D /\ i \in upto[i]
    /\ \A i, j \in D : i \in upto[j] => upto[i] \subseteq upto[j]
    /\ \A i, j \in D : i \in upto[j] \/ j \in upto[i]
    /\ \A i, j \in D : i \in upto[j] /\ j \in upto[i] => i = j

\* Every index has a position of its own, and every position is taken.
LEMMA Positions ==
  ASSUME NEW D, IsFiniteSet(D), NEW upto, Linear(D, upto)
  PROVE  /\ Cardinality(D) \in Nat
         /\ \A i \in D : Cardinality(upto[i]) \in 1..Cardinality(D)
         /\ \A i, j \in D : i \in upto[j] /\ i # j => Cardinality(upto[i]) < Cardinality(upto[j])
         /\ \A i, j \in D : Cardinality(upto[i]) = Cardinality(upto[j]) => i = j
         /\ \A k \in 1..Cardinality(D) : \E i \in D : Cardinality(upto[i]) = k
<1> DEFINE n == Cardinality(D)
           position == [i \in D |-> Cardinality(upto[i])]
<1>1. n \in Nat
  BY FS_CardinalityType
<1>2. ASSUME NEW i \in D
      PROVE  /\ IsFiniteSet(upto[i]) /\ Cardinality(upto[i]) \in 1..n
  <2>1. upto[i] \in SUBSET D /\ i \in upto[i]
    BY DEF Linear
  <2>2. IsFiniteSet(upto[i]) /\ Cardinality(upto[i]) <= n
    BY <2>1, FS_Subset
  <2>3. Cardinality(upto[i]) \in Nat
    BY <2>2, FS_CardinalityType
  <2>4. Cardinality(upto[i]) # 0
    BY <2>1, <2>2, FS_EmptySet
  <2>5. QED
    BY <1>1, <2>2, <2>3, <2>4
<1>3. ASSUME NEW i \in D, NEW j \in D, i \in upto[j], i # j
      PROVE  Cardinality(upto[i]) < Cardinality(upto[j])
  <2>1. upto[i] \in SUBSET upto[j] /\ upto[i] # upto[j]
    BY <1>3 DEF Linear
  <2>2. IsFiniteSet(upto[j])
    BY <1>2
  <2>3. Cardinality(upto[i]) <= Cardinality(upto[j]) /\ Cardinality(upto[i]) # Cardinality(upto[j])
    BY <2>1, <2>2, FS_Subset
  <2>4. QED
    BY <1>2, <2>3
<1>4. ASSUME NEW i \in D, NEW j \in D, Cardinality(upto[i]) = Cardinality(upto[j])
      PROVE  i = j
  <2> SUFFICES ASSUME i # j PROVE FALSE
    OBVIOUS
  <2>1. CASE i \in upto[j]
    BY <1>2, <1>3, <1>4, <2>1
  <2>2. CASE j \in upto[i]
    BY <1>2, <1>3, <1>4, <2>2
  <2>3. QED
    BY <2>1, <2>2 DEF Linear
<1>5. position \in Injection(D, 1..n)
  BY <1>2, <1>4 DEF Injection, IsInjective
<1>6. IsFiniteSet(1..n) /\ Cardinality(1..n) = n
  BY <1>1, FS_Interval
<1>7. position \in Surjection(D, 1..n)
  BY <1>5, <1>6, FS_Injection
<1>8. \A k \in 1..n : \E i \in D : Cardinality(upto[i]) = k
  BY <1>7 DEF Surjection
<1>9. QED
  BY <1>1, <1>2, <1>3, <1>4, <1>8

\* What is arranged: each element at one position, in the order of upto.
LEMMA Arranged ==
  ASSUME NEW D, IsFiniteSet(D), NEW upto, Linear(D, upto), NEW seq
  PROVE  /\ Cardinality(D) \in Nat
         /\ DOMAIN Arrange(seq, upto) = 1..Cardinality(D)
         /\ Arrange(seq, upto) = [k \in 1..Cardinality(D) |-> Arrange(seq, upto)[k]]
         /\ \A k \in 1..Cardinality(D) : \E i \in D :
               Cardinality(upto[i]) = k /\ Arrange(seq, upto)[k] = seq[i]
         /\ \A i \in D : /\ Cardinality(upto[i]) \in 1..Cardinality(D)
                         /\ Arrange(seq, upto)[Cardinality(upto[i])] = seq[i]
<1> DEFINE n == Cardinality(D)
           At(k) == CHOOSE i \in DOMAIN upto : Cardinality(upto[i]) = k
<1>1. DOMAIN upto = D
  BY DEF Linear
<1>2. Arrange(seq, upto) = [k \in 1..n |-> seq[At(k)]]
  BY <1>1 DEF Arrange
<1>3. \A k \in 1..n : At(k) \in D /\ Cardinality(upto[At(k)]) = k
  BY <1>1, Positions
<1>4. \A i \in D : Cardinality(upto[i]) \in 1..n /\ At(Cardinality(upto[i])) = i
  BY <1>1, <1>3, Positions
<1>5. n \in Nat
  BY FS_CardinalityType
<1> HIDE DEF At
<1>6. QED
  BY <1>2, <1>3, <1>4, <1>5

\* Those that are in the set remain, and none of them twice if none was.
LEMMA Retained ==
  ASSUME NEW S, NEW seq \in Seq(S), NEW set
  PROVE  /\ Retain(seq, set) \in Seq(S)
         /\ Range(Retain(seq, set)) = Range(seq) \cap set
         /\ IsInjective(seq) => IsInjective(Retain(seq, set))
<1> DEFINE D == {i \in DOMAIN seq : seq[i] \in set}
           upto == [i \in D |-> {j \in D : j <= i}]
           kept == Arrange(seq, upto)
<1>1. Retain(seq, set) = kept
  BY DEF Retain
<1>2. DOMAIN seq = 1..Len(seq) /\ Len(seq) \in Nat
  OBVIOUS
<1>3. IsFiniteSet(D)
  <2>1. IsFiniteSet(1..Len(seq))
    BY <1>2, FS_Interval
  <2>2. D \in SUBSET (1..Len(seq))
    BY <1>2
  <2>3. QED
    BY <2>1, <2>2, FS_Subset
<1>4. D \subseteq Nat
  BY <1>2
<1>5. Linear(D, upto)
  BY <1>4 DEF Linear
<1> HIDE DEF D, upto, kept
<1>6. /\ Cardinality(D) \in Nat
      /\ DOMAIN kept = 1..Cardinality(D)
      /\ kept = [k \in 1..Cardinality(D) |-> kept[k]]
      /\ \A k \in 1..Cardinality(D) : \E i \in D : Cardinality(upto[i]) = k /\ kept[k] = seq[i]
      /\ \A i \in D : Cardinality(upto[i]) \in 1..Cardinality(D) /\ kept[Cardinality(upto[i])] = seq[i]
  BY <1>3, <1>5, Arranged DEF kept
<1> USE DEF D
<1>7. kept \in Seq(S)
  <2>1. \A i \in D : seq[i] \in S
    BY <1>2
  <2>2. kept \in [1..Cardinality(D) -> S]
    BY <1>6, <2>1
  <2>3. QED
    BY <1>6, <2>2
<1>8. Range(kept) = Range(seq) \cap set
  <2>1. ASSUME NEW k \in DOMAIN kept PROVE kept[k] \in Range(seq) \cap set
    <3>1. PICK i \in D : kept[k] = seq[i]
      BY <1>6
    <3>2. QED
      BY <3>1 DEF Range
  <2>2. ASSUME NEW x \in Range(seq) \cap set PROVE x \in Range(kept)
    <3>1. PICK i \in DOMAIN seq : seq[i] = x
      BY DEF Range
    <3>2. i \in D
      BY <3>1
    <3>3. QED
      BY <1>6, <3>1, <3>2 DEF Range
  <2>3. QED
    BY <2>1, <2>2 DEF Range
<1>9. ASSUME IsInjective(seq) PROVE IsInjective(kept)
  <2> SUFFICES ASSUME NEW k \in DOMAIN kept, NEW l \in DOMAIN kept, kept[k] = kept[l]
               PROVE  k = l
    BY DEF IsInjective
  <2>1. PICK i \in D : Cardinality(upto[i]) = k /\ kept[k] = seq[i]
    BY <1>6
  <2>2. PICK j \in D : Cardinality(upto[j]) = l /\ kept[l] = seq[j]
    BY <1>6
  <2>3. i = j
    BY <1>9, <2>1, <2>2 DEF IsInjective
  <2>4. QED
    BY <2>1, <2>2, <2>3
<1>10. QED
  BY <1>1, <1>7, <1>8, <1>9

\* Every set of numbers with a member has a least one.
LEMMA LeastExists ==
  ASSUME NEW S \in SUBSET Nat, NEW x \in S
  PROVE  \E y \in S : \A z \in S : y <= z
<1> DEFINE Less == OpToRel(<, Nat)
<1>1. ASSUME NEW y \in Nat, NEW z \in Nat, <<z, y>> \notin Less
      PROVE  ~(z < y)
  BY <1>1 DEF OpToRel
<1>2. IsWellFoundedOn(Less, Nat)
  BY NatLessThanWellFounded
<1> HIDE DEF Less
<1>3. PICK y \in S : \A z \in S : ~(<<z, y>> \in Less)
  BY <1>2, WFMin
<1>4. \A z \in S : ~(z < y)
  BY <1>1, <1>3
<1>5. QED
  BY <1>4

\* The first place of an element.
LEMMA Position ==
  ASSUME NEW S, NEW seq \in Seq(S), NEW x
  PROVE  /\ PositionOf(x, seq) \in Nat
         /\ x \in Range(seq) =>
               /\ PositionOf(x, seq) \in 1..Len(seq) /\ seq[PositionOf(x, seq)] = x
               /\ \A j \in 1..PositionOf(x, seq) - 1 : seq[j] # x
         /\ x \notin Range(seq) => PositionOf(x, seq) = 0
<1>1. CASE x \notin Range(seq)
  BY <1>1 DEF PositionOf
<1>2. CASE x \in Range(seq)
  <2> DEFINE I == {i \in DOMAIN seq : seq[i] = x}
  <2>1. DOMAIN seq = 1..Len(seq) /\ Len(seq) \in Nat
    OBVIOUS
  <2>2. PICK i \in DOMAIN seq : seq[i] = x
    BY <1>2 DEF Range
  <2>3. I \in SUBSET Nat /\ i \in I
    BY <2>1, <2>2
  <2>4. PICK k \in I : \A z \in I : k <= z
    BY <2>3, LeastExists
  <2>5. k \in DOMAIN seq /\ seq[k] = x /\ \A j \in 1..k - 1 : seq[j] # x
    BY <2>1, <2>4
  <2>6. PositionOf(x, seq) = CHOOSE m \in DOMAIN seq :
            seq[m] = x /\ \A j \in 1..m - 1 : seq[j] # x
    BY <1>2 DEF PositionOf
  <2>7. QED
    BY <1>2, <2>1, <2>5, <2>6
<1>3. QED
  BY <1>1, <1>2

\* An element that comes once is found where it is.
LEMMA PositionUnique ==
  ASSUME NEW S, NEW seq \in Seq(S), NEW i \in 1..Len(seq),
         \A j \in 1..Len(seq) : seq[j] = seq[i] => j = i
  PROVE  PositionOf(seq[i], seq) = i
<1>1. seq[i] \in Range(seq)
  BY DEF Range
<1>2. PositionOf(seq[i], seq) \in 1..Len(seq) /\ seq[PositionOf(seq[i], seq)] = seq[i]
  BY <1>1, Position
<1>3. QED
  BY <1>2

-----------------------------------------------------------------------------
(* The navigation.                                                         *)

LEMMA Joined ==
  ASSUME NEW S, NEW s \in Seq(S), NEW t \in Seq(S)
  PROVE  /\ s \o t \in Seq(S)
         /\ Range(s \o t) = Range(s) \cup Range(t)
         /\ IsInjective(s) /\ IsInjective(t) /\ Range(s) \cap Range(t) = {} => IsInjective(s \o t)
<1> DEFINE all == s \o t
<1>1. /\ all \in Seq(S) /\ Len(all) = Len(s) + Len(t) /\ DOMAIN all = 1..Len(all)
      /\ \A i \in 1..Len(s) : all[i] = s[i]
      /\ \A i \in 1..Len(t) : all[Len(s) + i] = t[i]
      /\ Len(s) \in Nat /\ Len(t) \in Nat /\ DOMAIN s = 1..Len(s) /\ DOMAIN t = 1..Len(t)
  OBVIOUS
<1> HIDE DEF all
<1>2. ASSUME NEW i \in 1..Len(all)
      PROVE  \/ i \in 1..Len(s) /\ all[i] = s[i]
             \/ i - Len(s) \in 1..Len(t) /\ all[i] = t[i - Len(s)]
  <2>1. CASE i <= Len(s)
    BY <1>1, <2>1
  <2>2. CASE i > Len(s)
    <3>1. i - Len(s) \in 1..Len(t) /\ Len(s) + (i - Len(s)) = i
      BY <1>1, <2>2
    <3>2. QED
      BY <1>1, <3>1
  <2>3. QED
    BY <1>1, <2>1, <2>2
<1>3. Range(all) = Range(s) \cup Range(t)
  <2>1. Range(all) \subseteq Range(s) \cup Range(t)
    BY <1>1, <1>2 DEF Range
  <2>2. Range(s) \subseteq Range(all)
    <3>1. \A i \in DOMAIN s : i \in DOMAIN all
      BY <1>1
    <3>2. QED
      BY <1>1, <3>1 DEF Range
  <2>3. Range(t) \subseteq Range(all)
    <3>1. \A i \in DOMAIN t : Len(s) + i \in DOMAIN all
      BY <1>1
    <3>2. QED
      BY <1>1, <3>1 DEF Range
  <2>4. QED
    BY <2>1, <2>2, <2>3
<1>4. ASSUME IsInjective(s), IsInjective(t), Range(s) \cap Range(t) = {},
             NEW i \in 1..Len(all), NEW j \in 1..Len(all), all[i] = all[j]
      PROVE  i = j
  <2>1. \A k \in DOMAIN s, l \in DOMAIN t : s[k] # t[l]
    BY <1>4 DEF Range
  <2>2. \A k, l \in DOMAIN s : s[k] = s[l] => k = l
    BY <1>4 DEF IsInjective
  <2>3. \A k, l \in DOMAIN t : t[k] = t[l] => k = l
    BY <1>4 DEF IsInjective
  <2>4. CASE i \in 1..Len(s) /\ all[i] = s[i]
    <3>1. CASE j \in 1..Len(s) /\ all[j] = s[j]
      BY <1>1, <1>4, <2>2, <2>4, <3>1
    <3>2. CASE j - Len(s) \in 1..Len(t) /\ all[j] = t[j - Len(s)]
      BY <1>1, <1>4, <2>1, <2>4, <3>2
    <3>3. QED
      BY <1>2, <3>1, <3>2
  <2>5. CASE i - Len(s) \in 1..Len(t) /\ all[i] = t[i - Len(s)]
    <3>1. CASE j \in 1..Len(s) /\ all[j] = s[j]
      BY <1>1, <1>4, <2>1, <2>5, <3>1
    <3>2. CASE j - Len(s) \in 1..Len(t) /\ all[j] = t[j - Len(s)]
      <4>1. i - Len(s) = j - Len(s)
        BY <1>1, <1>4, <2>3, <2>5, <3>2
      <4>2. QED
        BY <1>1, <4>1
    <3>3. QED
      BY <1>2, <3>1, <3>2
  <2>6. QED
    BY <1>2, <2>4, <2>5
<1>5. QED
  BY <1>1, <1>3, <1>4 DEF all, IsInjective

\* Vec::truncate.
LEMMA Limited ==
  ASSUME NEW S, NEW seq \in Seq(S), NEW limit \in Nat
  PROVE  LET cut == SubSeq(seq, 1, IF Len(seq) < limit THEN Len(seq) ELSE limit)
         IN  /\ cut \in Seq(S) /\ Len(cut) <= limit
             /\ Len(cut) = IF Len(seq) < limit THEN Len(seq) ELSE limit
             /\ Range(cut) \subseteq Range(seq)
             /\ IsInjective(seq) => IsInjective(cut)
<1> DEFINE n == IF Len(seq) < limit THEN Len(seq) ELSE limit
           cut == SubSeq(seq, 1, n)
<1>1. n \in Nat /\ n <= limit /\ n <= Len(seq)
  OBVIOUS
<1> HIDE DEF n
<1>2. cut \in Seq(S) /\ Len(cut) = n /\ DOMAIN cut = 1..n /\ \A i \in 1..n : cut[i] = seq[i]
  BY <1>1
<1> HIDE DEF cut
<1>3. \A i \in 1..n : i \in DOMAIN seq
  BY <1>1
<1>4. Range(cut) \subseteq Range(seq)
  BY <1>2, <1>3 DEF Range
<1>5. IsInjective(seq) => IsInjective(cut)
  BY <1>2, <1>3 DEF IsInjective
<1>6. QED
  BY <1>1, <1>2, <1>4, <1>5 DEF n, cut

\* What a list of recent worktrees is.
Recents(recents, available, limit) ==
    /\ recents \in Seq(Places) /\ IsInjective(recents)
    /\ Range(recents) \subseteq available /\ Len(recents) <= limit

LEMMA Recorded ==
  ASSUME NEW recents \in Seq(Places), IsInjective(recents), NEW path \in Places,
         NEW limit \in Nat \ {0}
  PROVE  /\ Recents(RecordRecent(path, recents, limit), {path} \cup Range(recents), limit)
         /\ Len(RecordRecent(path, recents, limit)) >= 1
<1> DEFINE others == Retain(recents, Range(recents) \ {path})
           first == <<path>>
           all == first \o others
<1>1. /\ others \in Seq(Places) /\ IsInjective(others)
      /\ Range(others) = Range(recents) \cap (Range(recents) \ {path})
  BY Retained
<1>2. first \in Seq(Places) /\ Range(first) = {path} /\ IsInjective(first) /\ Len(first) = 1
  BY DEF Range, IsInjective
<1> HIDE DEF others, first
<1>3. all \in Seq(Places) /\ Range(all) = {path} \cup Range(others) /\ IsInjective(all)
  BY <1>1, <1>2, Joined
<1>4. Len(all) >= 1
  BY <1>1, <1>2
<1> HIDE DEF all
<1>5. RecordRecent(path, recents, limit) =
          SubSeq(all, 1, IF Len(all) < limit THEN Len(all) ELSE limit)
  BY DEF RecordRecent, all, first, others
<1>6. QED
  BY <1>1, <1>3, <1>4, <1>5, Limited DEF Recents

LEMMA Reconciled ==
  ASSUME NEW recents \in Seq(Places), IsInjective(recents),
         NEW available \in Seq(Places), IsInjective(available), NEW limit \in Nat \ {0}
  PROVE  /\ Recents(ReconcileRecent(recents, available, limit), Range(available), limit)
         /\ Range(available) # {} => Len(ReconcileRecent(recents, available, limit)) >= 1
<1> DEFINE kept == Retain(recents, Range(available))
           new == Retain(available, Range(available) \ Range(recents))
           all == kept \o new
<1>1. /\ kept \in Seq(Places) /\ IsInjective(kept)
      /\ Range(kept) = Range(recents) \cap Range(available)
  BY Retained
<1>2. /\ new \in Seq(Places) /\ IsInjective(new)
      /\ Range(new) = Range(available) \cap (Range(available) \ Range(recents))
  BY Retained
<1> HIDE DEF kept, new
<1>3. all \in Seq(Places) /\ Range(all) = Range(available) /\ IsInjective(all)
  <2>1. Range(kept) \cap Range(new) = {} /\ Range(kept) \cup Range(new) = Range(available)
    BY <1>1, <1>2
  <2>2. Range(all) = Range(kept) \cup Range(new) /\ all \in Seq(Places) /\ IsInjective(all)
    BY <1>1, <1>2, <2>1, Joined
  <2>3. QED
    BY <2>1, <2>2
<1> HIDE DEF all
<1>4. Range(available) # {} => Len(all) >= 1
  <2>1. Len(all) \in Nat /\ DOMAIN all = 1..Len(all)
    BY <1>3
  <2>2. Range(all) # {} => \E i \in DOMAIN all : TRUE
    BY DEF Range
  <2>3. QED
    BY <1>3, <2>1, <2>2
<1>5. ReconcileRecent(recents, available, limit) =
          SubSeq(all, 1, IF Len(all) < limit THEN Len(all) ELSE limit)
  BY DEF ReconcileRecent, all, kept, new
<1>6. QED
  BY <1>3, <1>4, <1>5, Limited DEF Recents

Navigation == [paths : Seq(Places), selected : Nat]

\* A navigation that may go on among the worktrees there are.
UnderWay(next, available) ==
    /\ IsInjective(next.paths) /\ next.selected \in DOMAIN next.paths
    /\ SelectedPath(next) \in available

LEMMA Advanced ==
  ASSUME NEW available \in Seq(Places), IsInjective(available), NEW current,
         NEW recents \in Seq(Places), IsInjective(recents), NEW before \in Navigation,
         before # NoNavigation => UnderWay(before, Range(available)),
         NEW forward \in BOOLEAN, NEW limit \in Nat \ {0}
  PROVE  LET next == AdvanceNavigation(available, current, recents, before, forward, limit)
         IN  next \in Navigation /\ (next # NoNavigation => UnderWay(next, Range(available)))
<1> DEFINE kept == Retain(before.paths, Range(available))
           reconciled == ReconcileRecent(recents, available, limit)
           started == IF before # NoNavigation THEN kept
                      ELSE IF current \in Range(reconciled)
                      THEN RecordRecent(current, reconciled, limit) ELSE reconciled
           from == IF before # NoNavigation
                   THEN LET at == PositionOf(SelectedPath(before), kept)
                        IN  IF at = 0 THEN 1 ELSE at
                   ELSE IF current \in Range(reconciled) \/ ~forward THEN 1 ELSE Len(reconciled)
           length == Len(started)
           selected == IF forward THEN (from % length) + 1 ELSE ((from + length - 2) % length) + 1
           next == AdvanceNavigation(available, current, recents, before, forward, limit)
           stays == Cardinality(Range(available)) < 2 \/ (before # NoNavigation /\ length < 2)
<1>1. next = IF stays THEN NoNavigation ELSE [paths |-> started, selected |-> selected]
  BY DEF AdvanceNavigation
<1>2. NoNavigation \in Navigation
  BY DEF Navigation, NoNavigation
<1> SUFFICES ASSUME ~stays
             PROVE  LET after == [paths |-> started, selected |-> selected]
                    IN  after \in Navigation /\ UnderWay(after, Range(available))
  BY <1>1, <1>2
<1>3. Range(available) # {}
  <2>1. Range(available) = {} => Cardinality(Range(available)) = 0
    BY FS_EmptySet
  <2>2. ~(Cardinality(Range(available)) < 2)
    OBVIOUS
  <2>3. QED
    BY <2>1, <2>2
<1>4. Recents(reconciled, Range(available), limit) /\ Len(reconciled) >= 1
  BY <1>3, Reconciled
<1>5. kept \in Seq(Places) /\ Range(kept) \subseteq Range(available)
      /\ (before # NoNavigation => IsInjective(kept))
  <2>1. before.paths \in Seq(Places)
    BY DEF Navigation
  <2>2. QED
    BY <2>1, Retained DEF UnderWay
<1> HIDE DEF kept, reconciled
<1>6. /\ started \in Seq(Places) /\ IsInjective(started) /\ Range(started) \subseteq Range(available)
      /\ length \in Nat \ {0} /\ from \in Nat \ {0}
  <2>1. CASE before # NoNavigation
    <3>1. started = kept /\ length >= 2 /\ length \in Nat
      BY <1>5, <2>1
    <3>2. PositionOf(SelectedPath(before), kept) \in Nat
      BY <1>5, Position
    <3>3. QED
      BY <1>5, <2>1, <3>1, <3>2
  <2>2. CASE before = NoNavigation
    <3>1. reconciled \in Seq(Places) /\ IsInjective(reconciled) /\ Range(reconciled) \subseteq Range(available)
      BY <1>4 DEF Recents
    <3>2. Len(reconciled) \in Nat \ {0}
      BY <1>4, <3>1
    <3>3. CASE current \in Range(reconciled)
      <4>1. current \in Places /\ {current} \cup Range(reconciled) = Range(reconciled)
        BY <3>1, <3>3 DEF Range
      <4>2. Recents(RecordRecent(current, reconciled, limit), Range(reconciled), limit)
            /\ Len(RecordRecent(current, reconciled, limit)) >= 1
        BY <3>1, <4>1, Recorded
      <4>3. started = RecordRecent(current, reconciled, limit) /\ from = 1
        BY <2>2, <3>3
      <4>4. QED
        BY <3>1, <4>2, <4>3 DEF Recents
    <3>4. CASE current \notin Range(reconciled)
      <4>1. started = reconciled /\ from \in {1, Len(reconciled)}
        BY <2>2, <3>4
      <4>2. QED
        BY <3>1, <3>2, <4>1
    <3>5. QED
      BY <3>3, <3>4
  <2>3. QED
    BY <2>1, <2>2
<1> HIDE DEF started, from
<1>7. selected \in 1..Len(started)
  <2>1. \A n \in Nat, m \in Nat \ {0} : n % m \in 0..m - 1
    OBVIOUS
  <2>2. from \in Nat /\ from + length - 2 \in Nat /\ length \in Nat \ {0}
    BY <1>6
  <2>3. from % length \in 0..length - 1 /\ (from + length - 2) % length \in 0..length - 1
    BY <2>1, <2>2
  <2>4. QED
    BY <2>2, <2>3
<1> HIDE DEF selected
<1>8. started[selected] \in Range(available)
  <2>1. selected \in DOMAIN started
    BY <1>6, <1>7
  <2>2. QED
    BY <1>6, <2>1 DEF Range
<1>9. QED
  BY <1>6, <1>7, <1>8 DEF Navigation, UnderWay, SelectedPath

-----------------------------------------------------------------------------
(* What is seen of the worktrees.                                          *)

Worktree == [path : Places, head : Heads, state : {"present", "missing"}]
Keys == {FolderKey(w) : w \in Worktree} \cup {HeadKey(w) : w \in Worktree}

\* No two worktrees share a folder; several may be detached at one commit.
DiskInv ==
    /\ disk \in Seq(Worktree)
    /\ \A i, j \in DOMAIN disk : i # j => disk[i].path # disk[j].path

LEMMA RankType ==
  ASSUME NEW keys \in Seq(Keys), NEW w
  PROVE  Rank(w, keys) \in Nat
<1>1. PositionOf(FolderKey(w), keys) \in Nat /\ PositionOf(HeadKey(w), keys) \in Nat
  BY Position
<1>2. Len(keys) + 1 \in Nat
  OBVIOUS
<1>3. QED
  BY <1>1, <1>2 DEF Rank

\* The sorted worktrees are the worktrees, by their rank.
LEMMA Sorted ==
  ASSUME NEW worktrees \in Seq(Worktree), NEW keys \in Seq(Keys)
  PROVE  LET n == Len(worktrees)
             sorted == SortWorktrees(worktrees, keys)
         IN  /\ sorted \in Seq(Worktree) /\ Len(sorted) = n
             /\ \E place \in [1..n -> 1..n] :
                   /\ \A i \in 1..n : sorted[place[i]] = worktrees[i]
                   /\ \A k \in 1..n : \E i \in 1..n : place[i] = k
                   /\ \A i, j \in 1..n :
                         Rank(worktrees[i], keys) < Rank(worktrees[j], keys) => place[i] < place[j]
<1> DEFINE n == Len(worktrees)
           RankAt(i) == Rank(worktrees[i], keys)
           upto == [i \in DOMAIN worktrees |->
                       {j \in DOMAIN worktrees :
                           RankAt(j) < RankAt(i) \/ (RankAt(j) = RankAt(i) /\ j <= i)}]
           sorted == Arrange(worktrees, upto)
           place == [i \in 1..n |-> Cardinality(upto[i])]
<1>1. n \in Nat /\ DOMAIN worktrees = 1..n
  OBVIOUS
<1>2. \A i \in 1..n : RankAt(i) \in Nat
  BY RankType
<1>3. SortWorktrees(worktrees, keys) = sorted
  BY DEF SortWorktrees
<1> HIDE DEF RankAt, n
<1>4. IsFiniteSet(1..n) /\ Cardinality(1..n) = n
  <2>1. n \in Int /\ 1 \in Int /\ (1 > n => n = 0) /\ n - 1 + 1 = n
    BY <1>1
  <2>2. QED
    BY <2>1, FS_Interval
<1>5. Linear(1..n, upto)
  <2>1. DOMAIN upto = 1..n /\ \A i \in 1..n : upto[i] \subseteq 1..n /\ i \in upto[i]
    BY <1>1, <1>2
  <2>2. \A i, j \in 1..n : i \in upto[j] <=>
            RankAt(i) < RankAt(j) \/ (RankAt(i) = RankAt(j) /\ i <= j)
    BY <1>1
  <2>3. \A i, j \in 1..n : i \in upto[j] \/ j \in upto[i]
    BY <1>1, <1>2, <2>2
  <2>4. \A i, j \in 1..n : i \in upto[j] /\ j \in upto[i] => i = j
    BY <1>1, <1>2, <2>2
  <2> HIDE DEF upto
  <2>5. ASSUME NEW i \in 1..n, NEW j \in 1..n, NEW k \in 1..n, i \in upto[j], k \in upto[i]
        PROVE  k \in upto[j]
    <3>1. RankAt(i) < RankAt(j) \/ (RankAt(i) = RankAt(j) /\ i <= j)
      BY <2>2, <2>5
    <3>2. RankAt(k) < RankAt(i) \/ (RankAt(k) = RankAt(i) /\ k <= i)
      BY <2>2, <2>5
    <3>3. RankAt(i) \in Nat /\ RankAt(j) \in Nat /\ RankAt(k) \in Nat
      BY <1>2
    <3>4. i \in Nat /\ j \in Nat /\ k \in Nat
      BY <1>1
    <3>5. RankAt(k) < RankAt(j) \/ (RankAt(k) = RankAt(j) /\ k <= j)
      BY <3>1, <3>2, <3>3, <3>4
    <3>6. QED
      BY <2>2, <3>5
  <2>6. \A i, j \in 1..n : i \in upto[j] => upto[i] \subseteq upto[j]
    BY <2>1, <2>5
  <2>7. QED
    BY <2>1, <2>3, <2>4, <2>6 DEF Linear
<1>6. \A i, j \in 1..n : RankAt(i) < RankAt(j) => i \in upto[j]
  BY <1>1
<1> HIDE DEF upto, sorted
<1>7. /\ DOMAIN sorted = 1..n
      /\ sorted = [k \in 1..n |-> sorted[k]]
      /\ \A k \in 1..n : \E i \in 1..n : Cardinality(upto[i]) = k /\ sorted[k] = worktrees[i]
      /\ \A i \in 1..n : Cardinality(upto[i]) \in 1..n /\ sorted[Cardinality(upto[i])] = worktrees[i]
  <2> DEFINE D == 1..n
  <2>1. IsFiniteSet(D) /\ Linear(D, upto) /\ Cardinality(D) = n
    BY <1>4, <1>5
  <2> HIDE DEF D
  <2>2. /\ DOMAIN sorted = 1..Cardinality(D)
        /\ sorted = [k \in 1..Cardinality(D) |-> sorted[k]]
        /\ \A k \in 1..Cardinality(D) : \E i \in D :
              Cardinality(upto[i]) = k /\ sorted[k] = worktrees[i]
        /\ \A i \in D : /\ Cardinality(upto[i]) \in 1..Cardinality(D)
                        /\ sorted[Cardinality(upto[i])] = worktrees[i]
    BY <2>1, Arranged DEF sorted
  <2>3. QED
    BY <2>1, <2>2 DEF D
<1>8. \A i, j \in 1..n : i \in upto[j] /\ i # j => Cardinality(upto[i]) < Cardinality(upto[j])
  BY <1>4, <1>5, Positions
<1>9. sorted \in Seq(Worktree) /\ Len(sorted) = n
  <2>1. \A i \in 1..n : worktrees[i] \in Worktree
    BY <1>1
  <2>2. \A k \in 1..n : sorted[k] \in Worktree
    BY <1>7, <2>1
  <2>3. sorted \in [1..n -> Worktree]
    BY <1>7, <2>2
  <2>4. QED
    BY <1>1, <1>7, <2>3
<1>10. /\ place \in [1..n -> 1..n]
       /\ \A i \in 1..n : sorted[place[i]] = worktrees[i]
       /\ \A k \in 1..n : \E i \in 1..n : place[i] = k
  BY <1>7
<1>11. \A i, j \in 1..n : RankAt(i) < RankAt(j) => place[i] < place[j]
  <2>1. \A i, j \in 1..n : RankAt(i) < RankAt(j) => i # j
    BY <1>2
  <2>2. QED
    BY <1>6, <1>8, <2>1
<1> HIDE DEF place
<1>12. QED
  BY <1>3, <1>9, <1>10, <1>11 DEF RankAt, n

\* An inspection shows each worktree at most once.
LEMMA Inspection ==
  ASSUME DiskInv, NEW keys \in Seq(Keys), NEW registered
  PROVE  LET seen == InspectRepository(registered, disk, keys)
         IN  /\ seen \in Seq(Worktree) /\ Range(seen) \subseteq Range(disk)
             /\ \A k, l \in DOMAIN seen : seen[k].path = seen[l].path => k = l
             /\ seen # <<>> => seen = SortWorktrees(disk, keys)
<1> DEFINE seen == InspectRepository(registered, disk, keys)
<1>1. disk \in Seq(Worktree)
  BY DEF DiskInv
<1>2. CASE seen = <<>>
  BY <1>2 DEF Range
<1>3. CASE seen = SortWorktrees(disk, keys)
  <2>1. Len(disk) \in Nat /\ DOMAIN disk = 1..Len(disk)
    BY <1>1
  <2>2. seen \in Seq(Worktree) /\ DOMAIN seen = 1..Len(disk)
    BY <1>1, <1>3, Sorted
  <2>3. PICK place \in [1..Len(disk) -> 1..Len(disk)] :
            /\ \A i \in 1..Len(disk) : seen[place[i]] = disk[i]
            /\ \A k \in 1..Len(disk) : \E i \in 1..Len(disk) : place[i] = k
    <3> DEFINE sorted == SortWorktrees(disk, keys)
    <3>1. \E place \in [1..Len(disk) -> 1..Len(disk)] :
            /\ \A i \in 1..Len(disk) : sorted[place[i]] = disk[i]
            /\ \A k \in 1..Len(disk) : \E i \in 1..Len(disk) : place[i] = k
            /\ \A i, j \in 1..Len(disk) :
                  Rank(disk[i], keys) < Rank(disk[j], keys) => place[i] < place[j]
      BY <1>1, Sorted
    <3>2. seen = sorted
      BY <1>3
    <3> HIDE DEF seen, sorted
    <3>3. QED
      BY <3>1, <3>2
  <2> HIDE DEF seen
  <2>4. \A k \in DOMAIN seen : \E i \in DOMAIN disk : seen[k] = disk[i] /\ place[i] = k
    BY <2>1, <2>2, <2>3
  <2>5. Range(seen) \subseteq Range(disk)
    BY <2>4 DEF Range
  <2>6. \A k, l \in DOMAIN seen : seen[k].path = seen[l].path => k = l
    BY <2>4 DEF DiskInv
  <2>7. QED
    BY <1>3, <2>2, <2>5, <2>6 DEF seen
<1>4. QED
  BY <1>2, <1>3 DEF InspectRepository

LEMMA RootsType ==
  ASSUME DiskInv, order \in Seq(Keys)
  PROVE  Inspected \in Seq(Worktree) /\ Roots \in Seq(Places) /\ Len(Roots) = Len(Inspected)
<1>1. Inspected \in Seq(Worktree)
  BY Inspection DEF Inspected
<1>2. \A i \in 1..Len(Inspected) : Inspected[i].path \in Places
  <2>1. \A i \in 1..Len(Inspected) : Inspected[i] \in Worktree
    BY <1>1
  <2>2. QED
    BY <2>1 DEF Worktree
<1>3. QED
  BY <1>1, <1>2 DEF Roots, PathsOf

\* The available worktrees: each once, and each there is one on the disk.
LEMMA AvailableOnes ==
  ASSUME DiskInv, order \in Seq(Keys)
  PROVE  /\ AvailablePaths(Inspected) \in Seq(Places)
         /\ IsInjective(AvailablePaths(Inspected))
         /\ Range(AvailablePaths(Inspected)) \subseteq
                {w.path : w \in {w \in Range(disk) : Available(w)}}
<1> DEFINE seen == Inspected
           present == {w \in Range(seen) : Available(w)}
           kept == Retain(seen, present)
<1>1. /\ seen \in Seq(Worktree) /\ Range(seen) \subseteq Range(disk)
      /\ \A k, l \in DOMAIN seen : seen[k].path = seen[l].path => k = l
  BY Inspection DEF Inspected
<1> HIDE DEF seen
<1>2. IsInjective(seen)
  BY <1>1 DEF IsInjective
<1>3. kept \in Seq(Worktree) /\ Range(kept) = Range(seen) \cap present /\ IsInjective(kept)
  BY <1>1, <1>2, Retained
<1>4. AvailablePaths(Inspected) = [i \in DOMAIN kept |-> kept[i].path]
  BY DEF AvailablePaths, PathsOf, seen
<1> HIDE DEF kept
<1>5. \A i \in DOMAIN kept :
          /\ kept[i] \in Worktree /\ kept[i] \in Range(disk) /\ Available(kept[i])
          /\ \E k \in DOMAIN seen : kept[i] = seen[k]
  <2>1. \A i \in DOMAIN kept : kept[i] \in Range(kept)
    BY DEF Range
  <2>2. \A w \in Range(kept) : \E k \in DOMAIN seen : w = seen[k]
    BY <1>3 DEF Range
  <2>3. \A w \in Range(kept) : w \in Range(disk) /\ Available(w)
    BY <1>1, <1>3
  <2>4. \A i \in DOMAIN kept : kept[i] \in Worktree
    BY <1>3
  <2>5. QED
    BY <2>1, <2>2, <2>3, <2>4
<1>6. \A i, j \in DOMAIN kept : kept[i].path = kept[j].path => i = j
  BY <1>1, <1>3, <1>5 DEF IsInjective
<1>7. DOMAIN kept = 1..Len(kept) /\ Len(kept) \in Nat
  BY <1>3
<1>8. \A i \in DOMAIN kept : kept[i].path \in Places
  BY <1>5 DEF Worktree
<1> DEFINE paths == [i \in DOMAIN kept |-> kept[i].path]
<1>9. paths \in Seq(Places)
  BY <1>7, <1>8
<1>10. IsInjective(paths)
  BY <1>6 DEF IsInjective
<1>11. Range(paths) \subseteq {w.path : w \in {w \in Range(disk) : Available(w)}}
  BY <1>5 DEF Range
<1>12. QED
  BY <1>4, <1>9, <1>10, <1>11

-----------------------------------------------------------------------------
(* The order of the user.                                                  *)

Choice == [index : Nat, path : Places, head : Heads]

\* The stored keys are the folder and the head of each worktree arranged.
OrderInv ==
    /\ order \in Seq(Keys) /\ chosen \in Seq(Choice) /\ Len(order) = 2 * Len(chosen)
    /\ \A k \in 1..Len(chosen) :
          /\ chosen[k].index \in DOMAIN disk
          /\ order[2 * k - 1] = <<"folder", chosen[k].path>>
          /\ order[2 * k] = <<"head", chosen[k].head>>
    /\ \A k, l \in 1..Len(chosen) : k # l =>
          chosen[k].index # chosen[l].index /\ chosen[k].path # chosen[l].path

\* An element that does not come before a place is found there.
LEMMA PositionFirst ==
  ASSUME NEW S, NEW seq \in Seq(S), NEW element, NEW at \in 1..Len(seq), seq[at] = element,
         \A j \in 1..at - 1 : seq[j] # element
  PROVE  PositionOf(element, seq) = at
<1>1. DOMAIN seq = 1..Len(seq) /\ Len(seq) \in Nat
  OBVIOUS
<1>2. element \in Range(seq)
  BY <1>1 DEF Range
<1>3. \A i \in DOMAIN seq :
          seq[i] = element /\ (\A j \in 1..i - 1 : seq[j] # element) => i = at
  BY <1>1
<1> DEFINE First(i) == seq[i] = element /\ \A j \in 1..i - 1 : seq[j] # element
<1>4. at \in DOMAIN seq /\ First(at)
  BY <1>1
<1>5. (CHOOSE i \in DOMAIN seq : First(i)) = at
  BY <1>3, <1>4
<1>6. QED
  BY <1>2, <1>5 DEF PositionOf

LEMMA Halves ==
  ASSUME NEW n \in Nat, NEW j \in 1..2 * n
  PROVE  \E l \in 1..n : j = 2 * l - 1 \/ j = 2 * l
<1>1. CASE \E l \in Nat : j = 2 * l
  BY <1>1
<1>2. CASE \E l \in Nat : j = 2 * l + 1
  <2>1. PICK l \in Nat : j = 2 * l + 1
    BY <1>2
  <2>2. l + 1 \in 1..n /\ j = 2 * (l + 1) - 1
    BY <2>1
  <2>3. QED
    BY <2>2
<1>3. j \div 2 \in Nat /\ (j = 2 * (j \div 2) \/ j = 2 * (j \div 2) + 1)
  OBVIOUS
<1>4. QED
  BY <1>1, <1>2, <1>3

\* The k-th worktree arranged is still known by its folder, or as the first of
\* its head.
Recognised(k) ==
    \/ disk[chosen[k].index].path = chosen[k].path
    \/ /\ disk[chosen[k].index].head = chosen[k].head
       /\ \A l \in DOMAIN chosen : disk[chosen[k].index].path # chosen[l].path
       /\ \A l \in 1..k - 1 : chosen[l].head # chosen[k].head

\* Each worktree that is recognised has its rank.
LEMMA Ranked ==
  ASSUME DiskInv, OrderInv, NEW k \in 1..Len(chosen), Recognised(k)
  PROVE  Rank(disk[chosen[k].index], order) \in {2 * k - 1, 2 * k}
<1> DEFINE c == chosen[k]
           w == disk[c.index]
<1>1. /\ order \in Seq(Keys) /\ Len(chosen) \in Nat /\ Len(order) = 2 * Len(chosen)
      /\ c.index \in DOMAIN disk /\ k \in Nat
      /\ 2 * k - 1 \in 1..Len(order) /\ 2 * k \in 1..Len(order)
  BY DEF OrderInv
<1>2. ASSUME NEW j \in 1..Len(order)
      PROVE  \E l \in 1..Len(chosen) : \/ j = 2 * l - 1 /\ order[j] = <<"folder", chosen[l].path>>
                                       \/ j = 2 * l /\ order[j] = <<"head", chosen[l].head>>
  <2>1. PICK l \in 1..Len(chosen) : j = 2 * l - 1 \/ j = 2 * l
    BY <1>1, Halves
  <2>2. QED
    BY <2>1 DEF OrderInv
<1>3. \A x, y : <<"folder", x>> # <<"head", y>>
  <2>1. "folder" # "head"
    OBVIOUS
  <2>2. QED
    BY <2>1
<1>4. \A x, y : (<<"folder", x>> = <<"folder", y>> \/ <<"head", x>> = <<"head", y>>) => x = y
  OBVIOUS
<1>5. CASE w.path = c.path
  <2>1. order[2 * k - 1] = FolderKey(w)
    BY <1>5 DEF OrderInv, FolderKey
  <2>2. ASSUME NEW j \in 1..Len(order), order[j] = FolderKey(w)
        PROVE  j = 2 * k - 1
    <3>1. PICK l \in 1..Len(chosen) : \/ j = 2 * l - 1 /\ order[j] = <<"folder", chosen[l].path>>
                                      \/ j = 2 * l /\ order[j] = <<"head", chosen[l].head>>
      BY <1>2
    <3>2. j = 2 * l - 1 /\ chosen[l].path = c.path
      BY <1>3, <1>4, <1>5, <2>2, <3>1 DEF FolderKey
    <3>3. l = k
      BY <3>2 DEF OrderInv
    <3>4. QED
      BY <3>2, <3>3
  <2>3. PositionOf(FolderKey(w), order) = 2 * k - 1
    <3> DEFINE m == 2 * k - 1
    <3>1. m \in 1..Len(order) /\ order[m] = FolderKey(w)
          /\ \A j \in 1..Len(order) : order[j] = order[m] => j = m
      BY <1>1, <2>1, <2>2
    <3> HIDE DEF m
    <3>2. PositionOf(order[m], order) = m
      BY <1>1, <3>1, PositionUnique
    <3>3. QED
      BY <3>1, <3>2 DEF m
  <2>4. QED
    BY <1>1, <2>3 DEF Rank
<1>6. CASE /\ w.head = c.head
           /\ \A l \in DOMAIN chosen : w.path # chosen[l].path
           /\ \A l \in 1..k - 1 : chosen[l].head # c.head
  <2>1. FolderKey(w) \notin Range(order)
    <3>0. DOMAIN order = 1..Len(order) /\ DOMAIN chosen = 1..Len(chosen)
      BY <1>1 DEF OrderInv
    <3> SUFFICES ASSUME NEW j \in 1..Len(order), order[j] = FolderKey(w) PROVE FALSE
      BY <3>0 DEF Range
    <3>1. PICK l \in 1..Len(chosen) : \/ j = 2 * l - 1 /\ order[j] = <<"folder", chosen[l].path>>
                                      \/ j = 2 * l /\ order[j] = <<"head", chosen[l].head>>
      BY <1>2
    <3>2. chosen[l].path = w.path
      BY <1>3, <1>4, <3>1 DEF FolderKey
    <3>3. QED
      BY <1>6, <3>0, <3>2
  <2>2. PositionOf(FolderKey(w), order) = 0
    BY <1>1, <2>1, Position
  <2>3. order[2 * k] = HeadKey(w)
    BY <1>6 DEF OrderInv, HeadKey
  <2>4. ASSUME NEW j \in 1..2 * k - 1, order[j] = HeadKey(w)
        PROVE  FALSE
    <3>0. j \in 1..Len(order)
      BY <1>1
    <3>1. PICK l \in 1..Len(chosen) : \/ j = 2 * l - 1 /\ order[j] = <<"folder", chosen[l].path>>
                                      \/ j = 2 * l /\ order[j] = <<"head", chosen[l].head>>
      BY <1>2, <3>0
    <3>2. j = 2 * l /\ chosen[l].head = c.head
      BY <1>3, <1>4, <1>6, <2>4, <3>1 DEF HeadKey
    <3>3. l \in 1..k - 1
      BY <1>1, <3>2
    <3>4. QED
      BY <1>6, <3>2, <3>3
  <2>5. PositionOf(HeadKey(w), order) = 2 * k
    BY <1>1, <2>3, <2>4, PositionFirst
  <2>6. 2 * k # 0
    BY <1>1
  <2>7. QED
    BY <1>1, <2>2, <2>5, <2>6 DEF Rank
<1>7. QED
  BY <1>5, <1>6 DEF Recognised

\* The stored order, read by folder and else by head, is the order chosen.
LEMMA OrderHolds ==
  ASSUME DiskInv, OrderInv
  PROVE  OrderKept
<1> SUFFICES ASSUME Inspected # <<>>, NEW a \in DOMAIN chosen, NEW b \in DOMAIN chosen, a < b,
                    \A c \in {a, b} : Recognised(c)
             PROVE  PositionOf(disk[chosen[a].index].path, Roots)
                        < PositionOf(disk[chosen[b].index].path, Roots)
  BY DEF OrderKept, Recognised
<1>1. /\ disk \in Seq(Worktree) /\ order \in Seq(Keys) /\ Len(disk) \in Nat
      /\ DOMAIN disk = 1..Len(disk) /\ DOMAIN chosen = 1..Len(chosen) /\ Len(chosen) \in Nat
  BY DEF DiskInv, OrderInv
<1>2. Inspected = SortWorktrees(disk, order)
  BY <1>1, Inspection DEF Inspected
<1>3. PICK place \in [1..Len(disk) -> 1..Len(disk)] :
          /\ \A i \in 1..Len(disk) : SortWorktrees(disk, order)[place[i]] = disk[i]
          /\ \A k \in 1..Len(disk) : \E i \in 1..Len(disk) : place[i] = k
          /\ \A i, j \in 1..Len(disk) :
                Rank(disk[i], order) < Rank(disk[j], order) => place[i] < place[j]
  BY <1>1, Sorted
<1>4. ASSUME NEW c \in {a, b}
      PROVE  /\ chosen[c].index \in 1..Len(disk)
             /\ Rank(disk[chosen[c].index], order) \in {2 * c - 1, 2 * c}
             /\ PositionOf(disk[chosen[c].index].path, Roots) = place[chosen[c].index]
  <2> DEFINE i == chosen[c].index
  <2>1. i \in 1..Len(disk)
    BY <1>1 DEF OrderInv
  <2>2. Rank(disk[i], order) \in {2 * c - 1, 2 * c}
    BY <1>1, Ranked
  <2> HIDE DEF i
  <2>3. /\ Roots \in Seq(Places) /\ Len(Roots) = Len(disk)
        /\ \A k \in 1..Len(disk) : Roots[k] = Inspected[k].path
    <3>1. Inspected \in Seq(Worktree) /\ Roots \in Seq(Places) /\ Len(Roots) = Len(Inspected)
      BY <1>1, RootsType
    <3>2. Len(Inspected) = Len(disk)
      BY <1>1, <1>2, Sorted
    <3>3. DOMAIN Inspected = 1..Len(disk)
      BY <3>1, <3>2
    <3>4. QED
      BY <3>1, <3>2, <3>3 DEF Roots, PathsOf
  <2>4. Roots[place[i]] = disk[i].path
    <3>1. place[i] \in 1..Len(disk) /\ Inspected[place[i]] = disk[i]
      BY <1>2, <1>3, <2>1
    <3>2. QED
      BY <2>3, <3>1
  <2>5. \A k \in 1..Len(Roots) : Roots[k] = Roots[place[i]] => k = place[i]
    <3> SUFFICES ASSUME NEW k \in 1..Len(disk), Roots[k] = Roots[place[i]] PROVE k = place[i]
      BY <2>3
    <3>1. PICK j \in 1..Len(disk) : place[j] = k
      BY <1>3
    <3>2. Roots[k] = disk[j].path
      <4>1. Inspected[place[j]] = disk[j]
        BY <1>2, <1>3
      <4>2. QED
        BY <2>3, <3>1, <4>1
    <3>3. j = i
      BY <1>1, <2>1, <2>4, <3>2 DEF DiskInv
    <3>4. QED
      BY <3>1, <3>3
  <2>6. PositionOf(Roots[place[i]], Roots) = place[i]
    <3>1. place[i] \in 1..Len(Roots)
      BY <1>3, <2>1, <2>3
    <3>2. QED
      BY <2>3, <2>5, <3>1, PositionUnique
  <2>7. QED
    BY <2>1, <2>2, <2>4, <2>6 DEF i
<1>5. Rank(disk[chosen[a].index], order) < Rank(disk[chosen[b].index], order)
  BY <1>1, <1>4
<1>6. place[chosen[a].index] < place[chosen[b].index]
  BY <1>3, <1>4, <1>5
<1>7. /\ PositionOf(disk[chosen[a].index].path, Roots) = place[chosen[a].index]
      /\ PositionOf(disk[chosen[b].index].path, Roots) = place[chosen[b].index]
  BY <1>4
<1>8. QED
  BY <1>6, <1>7

-----------------------------------------------------------------------------
(* What is arranged and offered, at every step.                            *)

NavInv ==
    /\ shown \in Seq(Places)
    /\ worktree_paths \in Seq(Places) /\ IsInjective(worktree_paths)
    /\ Recents(recent_paths, Range(worktree_paths), RecentLimit)
    /\ navigation \in Navigation
    /\ navigation # NoNavigation => UnderWay(navigation, Range(worktree_paths))

WorktreeInv == DiskInv /\ OrderInv /\ NavInv

LEMMA NavSound ==
  ASSUME NavInv
  PROVE  NavigationSound
  BY DEF NavInv, Recents, UnderWay, NavigationSound

worktreeVars == <<disk, order, chosen, shown, worktree_paths, recent_paths, navigation>>

LEMMA NavStays ==
  ASSUME NavInv, UNCHANGED <<shown, worktree_paths, recent_paths, navigation>>
  PROVE  NavInv'
<1>1. shown' \in Seq(Places) /\ worktree_paths' \in Seq(Places) /\ navigation' \in Navigation
  BY DEF NavInv
<1>2. IsInjective(worktree_paths')
  BY DEF NavInv
<1>3. Recents(recent_paths', Range(worktree_paths'), RecentLimit)
  BY DEF NavInv
<1>4. navigation' # NoNavigation => UnderWay(navigation', Range(worktree_paths'))
  BY DEF NavInv
<1>5. QED
  BY <1>1, <1>2, <1>3, <1>4 DEF NavInv, Recents, UnderWay, SelectedPath, IsInjective, Range

LEMMA WorktreesStay ==
  ASSUME WorktreeInv, UNCHANGED worktreeVars
  PROVE  WorktreeInv'
<1>1. DiskInv'
  BY DEF WorktreeInv, DiskInv, worktreeVars
<1>2. OrderInv'
  BY DEF WorktreeInv, OrderInv, worktreeVars
<1>3. NavInv'
  BY NavStays DEF WorktreeInv, worktreeVars
<1>4. QED
  BY <1>1, <1>2, <1>3 DEF WorktreeInv

LEMMA ComposeNav ==
  ASSUME WorktreeInv, NEW seen, Compose(seen)
  PROVE  NavInv'
<1>1. RecentLimit \in Nat \ {0}
  BY ViewAssumption
<1>2. DiskInv /\ order \in Seq(Keys) /\ NavInv
  BY DEF WorktreeInv, OrderInv
<1>3. shown' \in Seq(Places)
  BY <1>2, RootsType DEF Compose
<1> DEFINE available == AvailablePaths(Inspected)
<1>4. available \in Seq(Places) /\ IsInjective(available)
  BY <1>2, AvailableOnes
<1>5. recent_paths \in Seq(Places) /\ IsInjective(recent_paths)
  BY <1>2 DEF NavInv, Recents
<1>6. /\ worktree_paths' = available
      /\ recent_paths' = ReconcileRecent(recent_paths, available, RecentLimit)
      /\ navigation' \in {navigation, NoNavigation}
      /\ navigation' # NoNavigation => SelectedPath(navigation) \in Range(available)
  BY DEF Compose
<1> HIDE DEF available
<1>7. Recents(recent_paths', Range(available), RecentLimit)
  BY <1>1, <1>4, <1>5, <1>6, Reconciled
<1>8. NoNavigation \in Navigation /\ navigation \in Navigation
  BY <1>2 DEF NavInv, Navigation, NoNavigation
<1>9. navigation' # NoNavigation => UnderWay(navigation', Range(available))
  BY <1>2, <1>6 DEF NavInv, UnderWay
<1>10. IsInjective(worktree_paths') /\ Recents(recent_paths', Range(worktree_paths'), RecentLimit)
       /\ (navigation' # NoNavigation => UnderWay(navigation', Range(worktree_paths')))
  BY <1>4, <1>6, <1>7, <1>9
<1>11. QED
  BY <1>3, <1>4, <1>6, <1>8, <1>10 DEF NavInv, Recents, UnderWay, SelectedPath, IsInjective, Range

\* Without a change of the disk or of the stored order.
LEMMA ComposeStep ==
  ASSUME WorktreeInv, NEW seen, Compose(seen), UNCHANGED <<disk, order, chosen>>
  PROVE  WorktreeInv'
<1>1. NavInv'
  BY ComposeNav
<1>2. DiskInv' /\ OrderInv'
  BY DEF WorktreeInv, DiskInv, OrderInv
<1>3. QED
  BY <1>1, <1>2 DEF WorktreeInv

LEMMA ChangeStep ==
  ASSUME WorktreeInv, ChangeNext
  PROVE  WorktreeInv'
<1>1. PICK i \in DOMAIN disk, path \in Places, head \in Heads, state \in {"present", "missing"} :
          ChangeWorktree(i, [path |-> path, head |-> head, state |-> state])
  BY DEF ChangeNext
<1> DEFINE w == [path |-> path, head |-> head, state |-> state]
<1>2. w \in Worktree
  BY DEF Worktree
<1>3. disk \in Seq(Worktree) /\ DOMAIN disk = 1..Len(disk)
  BY DEF WorktreeInv, DiskInv
<1>4. /\ disk' = [disk EXCEPT ![i] = w]
      /\ \A j \in DOMAIN disk \ {i} : disk[j].path # w.path
      /\ UNCHANGED <<stored, memory>>
  BY <1>1 DEF ChangeWorktree
<1> HIDE DEF w
<1>5. /\ disk' \in Seq(Worktree) /\ DOMAIN disk' = DOMAIN disk
      /\ \A j \in DOMAIN disk : disk'[j] = IF j = i THEN w ELSE disk[j]
  BY <1>2, <1>3, <1>4
<1>6. DiskInv'
  <2>1. \A j, k \in DOMAIN disk : j # k => disk'[j].path # disk'[k].path
    BY <1>4, <1>5 DEF WorktreeInv, DiskInv
  <2>2. QED
    BY <1>5, <2>1 DEF DiskInv
<1>7. OrderInv'
  BY <1>4, <1>5 DEF WorktreeInv, OrderInv, stored
<1>8. NavInv'
  BY <1>4, NavStays DEF WorktreeInv, memory
<1>9. QED
  BY <1>6, <1>7, <1>8 DEF WorktreeInv

LEMMA OrderStep ==
  ASSUME WorktreeInv, NEW paths \in Seq(Places), SetWorktreeOrder(paths)
  PROVE  WorktreeInv'
<1> DEFINE Named(path) == CHOOSE w \in Range(Inspected) : w.path = path
           Index(path) == CHOOSE i \in DOMAIN disk : disk[i].path = path
           n == Len(paths)
<1>1. DiskInv /\ order \in Seq(Keys) /\ disk \in Seq(Worktree) /\ DOMAIN disk = 1..Len(disk)
      /\ n \in Nat /\ DOMAIN paths = 1..n /\ Len(disk) \in Nat
  BY DEF WorktreeInv, OrderInv, DiskInv
<1>2. Range(Inspected) \subseteq Range(disk)
  BY <1>1, Inspection DEF Inspected
<1>3. /\ IsInjective(paths) /\ Range(paths) \subseteq {w.path : w \in Range(Inspected)}
      /\ order' = [m \in 1..2 * n |->
                      IF m % 2 = 1 THEN FolderKey(Named(paths[(m + 1) \div 2]))
                      ELSE HeadKey(Named(paths[m \div 2]))]
  BY DEF SetWorktreeOrder, ExpandOrder
<1>4. chosen' = [k \in 1..n |-> [index |-> Index(paths[k]), path |-> paths[k],
                                head |-> disk[Index(paths[k])].head]]
  BY <1>1 DEF SetWorktreeOrder
<1>5. ASSUME NEW k \in 1..n
      PROVE  /\ Index(paths[k]) \in 1..Len(disk) /\ disk[Index(paths[k])].path = paths[k]
             /\ Named(paths[k]) = disk[Index(paths[k])]
  <2>1. paths[k] \in Range(paths)
    BY <1>1 DEF Range
  <2>2. \E w \in Range(Inspected) : w.path = paths[k]
    BY <1>3, <2>1
  <2>3. Named(paths[k]) \in Range(Inspected) /\ Named(paths[k]).path = paths[k]
    BY <2>2
  <2>4. PICK i \in DOMAIN disk : disk[i] = Named(paths[k])
    BY <1>2, <2>3 DEF Range
  <2>5. Index(paths[k]) \in DOMAIN disk /\ disk[Index(paths[k])].path = paths[k]
    BY <2>3, <2>4
  <2>6. Index(paths[k]) = i
    BY <1>1, <2>3, <2>4, <2>5 DEF DiskInv
  <2>7. QED
    BY <1>1, <2>4, <2>5, <2>6
<1> HIDE DEF Named, Index
<1>6. \A k \in 1..n : disk[Index(paths[k])] \in Worktree
  BY <1>1, <1>5
<1>7. /\ chosen' \in Seq(Choice) /\ Len(chosen') = n
      /\ \A k \in 1..n : /\ chosen'[k].index = Index(paths[k]) /\ chosen'[k].path = paths[k]
                         /\ chosen'[k].head = disk[Index(paths[k])].head
  <2>1. \A k \in 1..n : [index |-> Index(paths[k]), path |-> paths[k],
                         head |-> disk[Index(paths[k])].head] \in Choice
    BY <1>1, <1>5, <1>6 DEF Choice, Worktree
  <2>2. QED
    BY <1>1, <1>4, <2>1
<1>8. \A k, l \in 1..n : k # l => paths[k] # paths[l] /\ Index(paths[k]) # Index(paths[l])
  <2> SUFFICES ASSUME NEW k \in 1..n, NEW l \in 1..n, k # l
               PROVE  paths[k] # paths[l] /\ Index(paths[k]) # Index(paths[l])
    OBVIOUS
  <2>1. paths[k] # paths[l]
    BY <1>1, <1>3 DEF IsInjective
  <2>2. QED
    BY <1>5, <2>1
<1>9. \A k \in 1..n : /\ 2 * k - 1 \in 1..2 * n /\ 2 * k \in 1..2 * n
                      /\ (2 * k - 1) % 2 = 1 /\ (2 * k) % 2 = 0
                      /\ ((2 * k - 1) + 1) \div 2 = k /\ (2 * k) \div 2 = k
  BY <1>1
<1>10. \A k \in 1..n : /\ order'[2 * k - 1] = <<"folder", paths[k]>>
                       /\ order'[2 * k] = <<"head", disk[Index(paths[k])].head>>
  <2> SUFFICES ASSUME NEW k \in 1..n
               PROVE  /\ order'[2 * k - 1] = <<"folder", paths[k]>>
                      /\ order'[2 * k] = <<"head", disk[Index(paths[k])].head>>
    OBVIOUS
  <2>1. \A m \in 1..2 * n : order'[m] = IF m % 2 = 1 THEN FolderKey(Named(paths[(m + 1) \div 2]))
                                        ELSE HeadKey(Named(paths[m \div 2]))
    BY <1>3
  <2>2. order'[2 * k - 1] = FolderKey(Named(paths[k]))
    <3> DEFINE m == 2 * k - 1
    <3>1. m \in 1..2 * n /\ m % 2 = 1 /\ (m + 1) \div 2 = k
      BY <1>9
    <3> HIDE DEF m
    <3>2. order'[m] = FolderKey(Named(paths[k]))
      BY <2>1, <3>1
    <3>3. QED
      BY <3>2 DEF m
  <2>3. order'[2 * k] = HeadKey(Named(paths[k]))
    <3> DEFINE m == 2 * k
    <3>1. m \in 1..2 * n /\ m % 2 # 1 /\ m \div 2 = k
      BY <1>9
    <3> HIDE DEF m
    <3>2. order'[m] = HeadKey(Named(paths[k]))
      BY <2>1, <3>1
    <3>3. QED
      BY <3>2 DEF m
  <2>4. QED
    BY <1>5, <2>2, <2>3 DEF FolderKey, HeadKey
<1>11. order' \in Seq(Keys) /\ Len(order') = 2 * n
  <2>1. \A w \in Worktree : FolderKey(w) \in Keys /\ HeadKey(w) \in Keys
    BY DEF Keys
  <2>2. ASSUME NEW m \in 1..2 * n PROVE order'[m] \in Keys
    <3>1. PICK k \in 1..n : m = 2 * k - 1 \/ m = 2 * k
      BY <1>1, Halves
    <3>2. Named(paths[k]) \in Worktree
      BY <1>5, <1>6
    <3>3. order'[m] \in {FolderKey(Named(paths[k])), HeadKey(Named(paths[k]))}
      BY <1>3, <1>9, <3>1
    <3>4. QED
      BY <2>1, <3>2, <3>3
  <2>3. 2 * n \in Nat /\ order' = [m \in 1..2 * n |-> order'[m]]
    BY <1>1, <1>3
  <2>4. QED
    BY <2>2, <2>3
<1>12. UNCHANGED <<disk, memory>>
  BY DEF SetWorktreeOrder
<1>13. OrderInv'
  <2>1. \A k \in 1..n : chosen'[k].index \in DOMAIN disk'
    BY <1>1, <1>5, <1>7, <1>12
  <2>2. \A k \in 1..n : /\ order'[2 * k - 1] = <<"folder", chosen'[k].path>>
                        /\ order'[2 * k] = <<"head", chosen'[k].head>>
    BY <1>7, <1>10
  <2>3. ASSUME NEW k \in 1..n, NEW l \in 1..n, k # l
        PROVE  chosen'[k].index # chosen'[l].index /\ chosen'[k].path # chosen'[l].path
    BY <1>7, <1>8, <2>3
  <2>4. /\ order' \in Seq(Keys) /\ chosen' \in Seq(Choice)
        /\ Len(chosen') = n /\ Len(order') = 2 * n
    BY <1>7, <1>11
  <2> HIDE DEF n
  <2>5. QED
    BY <2>1, <2>2, <2>3, <2>4 DEF OrderInv
<1>14. DiskInv' /\ NavInv'
  <2>1. DiskInv'
    BY <1>1, <1>12 DEF DiskInv
  <2>2. NavInv'
    BY <1>12, NavStays DEF WorktreeInv, memory
  <2>3. QED
    BY <2>1, <2>2
<1>15. QED
  BY <1>13, <1>14 DEF WorktreeInv

\* The next or the previous worktree, among those that are there.
LEMMA AdvanceStep ==
  ASSUME WorktreeInv, NEW current, NEW forward \in BOOLEAN, Advance(current, forward)
  PROVE  WorktreeInv'
<1>1. RecentLimit \in Nat \ {0}
  BY ViewAssumption
<1>2. NavInv
  BY DEF WorktreeInv
<1>3. UNCHANGED <<disk, order, chosen, shown, worktree_paths, recent_paths>>
  BY DEF Advance, stored
<1>4. recent_paths \in Seq(Places) /\ IsInjective(recent_paths)
  BY <1>2 DEF NavInv, Recents
<1>5. worktree_paths \in Seq(Places) /\ IsInjective(worktree_paths) /\ navigation \in Navigation
      /\ (navigation # NoNavigation => UnderWay(navigation, Range(worktree_paths)))
  BY <1>2 DEF NavInv
<1>6. navigation' = AdvanceNavigation(worktree_paths, current, recent_paths, navigation, forward,
                                      RecentLimit)
  BY DEF Advance
<1>7. navigation' \in Navigation
      /\ (navigation' # NoNavigation => UnderWay(navigation', Range(worktree_paths)))
  BY <1>1, <1>4, <1>5, <1>6, Advanced
<1>8. NavInv'
  <2>1. shown' \in Seq(Places) /\ worktree_paths' \in Seq(Places) /\ IsInjective(worktree_paths')
    BY <1>2, <1>3 DEF NavInv
  <2>2. Recents(recent_paths', Range(worktree_paths'), RecentLimit)
    BY <1>2, <1>3 DEF NavInv
  <2>3. navigation' # NoNavigation => UnderWay(navigation', Range(worktree_paths'))
    BY <1>3, <1>7
  <2>4. QED
    BY <1>7, <2>1, <2>2, <2>3 DEF NavInv, Recents, UnderWay, SelectedPath, IsInjective, Range
<1>9. DiskInv' /\ OrderInv'
  BY <1>3 DEF WorktreeInv, DiskInv, OrderInv
<1>10. QED
  BY <1>8, <1>9 DEF WorktreeInv

\* A selection among the worktrees there are is the most recent one.
LEMMA SelectStep ==
  ASSUME WorktreeInv, NEW path \in Range(worktree_paths), Select(path)
  PROVE  WorktreeInv'
<1>1. RecentLimit \in Nat \ {0}
  BY ViewAssumption
<1>2. NavInv
  BY DEF WorktreeInv
<1>3. UNCHANGED <<disk, order, chosen, shown, worktree_paths>> /\ navigation' = NoNavigation
      /\ recent_paths' = RecordRecent(path, recent_paths, RecentLimit)
  BY DEF Select, stored
<1>4. /\ recent_paths \in Seq(Places) /\ IsInjective(recent_paths)
      /\ Range(recent_paths) \subseteq Range(worktree_paths)
      /\ worktree_paths \in Seq(Places)
  BY <1>2 DEF NavInv, Recents
<1>5. path \in Places
  BY <1>4 DEF Range
<1>6. Recents(RecordRecent(path, recent_paths, RecentLimit), {path} \cup Range(recent_paths),
              RecentLimit)
  BY <1>1, <1>4, <1>5, Recorded
<1>7. Recents(recent_paths', Range(worktree_paths'), RecentLimit)
  BY <1>3, <1>4, <1>6 DEF Recents
<1>8. NavInv'
  <2>1. shown' \in Seq(Places) /\ worktree_paths' \in Seq(Places) /\ IsInjective(worktree_paths')
    BY <1>2, <1>3 DEF NavInv
  <2>2. navigation' \in Navigation
    BY <1>3 DEF Navigation, NoNavigation
  <2>3. QED
    BY <1>3, <1>7, <2>1, <2>2 DEF NavInv, Recents, UnderWay, SelectedPath, IsInjective, Range
<1>9. DiskInv' /\ OrderInv'
  BY <1>3 DEF WorktreeInv, DiskInv, OrderInv
<1>10. QED
  BY <1>8, <1>9 DEF WorktreeInv

LEMMA ArrangeStep ==
  ASSUME WorktreeInv, ArrangeNext
  PROVE  WorktreeInv'
<1>1. ASSUME NEW paths \in {[i \in DOMAIN shown |-> shown[p[i]]] : p \in Bijection(DOMAIN shown, DOMAIN shown)},
             SetWorktreeOrder(paths)
      PROVE  WorktreeInv'
  <2>1. PICK p \in Bijection(DOMAIN shown, DOMAIN shown) : paths = [i \in DOMAIN shown |-> shown[p[i]]]
    OBVIOUS
  <2>2. p \in [DOMAIN shown -> DOMAIN shown]
    BY DEF Bijection, Injection
  <2>3. shown \in Seq(Places)
    BY DEF WorktreeInv, NavInv
  <2>4. DOMAIN shown = 1..Len(shown) /\ Len(shown) \in Nat /\ \A i \in 1..Len(shown) : shown[i] \in Places
    BY <2>3
  <2>5. paths \in [1..Len(shown) -> Places]
    BY <2>1, <2>2, <2>4
  <2>6. paths \in Seq(Places)
    BY <2>4, <2>5
  <2>7. QED
    BY <1>1, <2>6, OrderStep
<1>2. ASSUME NEW current \in Places \cup {NoPlace}, NEW forward \in BOOLEAN, Advance(current, forward)
      PROVE  WorktreeInv'
  BY <1>2, AdvanceStep
<1>3. ASSUME NEW path \in Places, RecordSelection(path)
      PROVE  WorktreeInv'
  BY <1>3, SelectStep DEF RecordSelection
<1>4. CASE CommitNavigation
  <2>1. SelectedPath(navigation) \in Range(worktree_paths) /\ Select(SelectedPath(navigation))
    BY <1>4 DEF CommitNavigation, WorktreeInv, NavInv, UnderWay
  <2>2. QED
    BY <2>1, SelectStep
<1>5. CASE CancelNavigation
  <2>1. UNCHANGED <<disk, order, chosen, shown, worktree_paths, recent_paths>>
        /\ navigation' = NoNavigation
    BY <1>5 DEF CancelNavigation, stored
  <2>2. NavInv'
    <3>1. shown' \in Seq(Places) /\ worktree_paths' \in Seq(Places) /\ IsInjective(worktree_paths')
      BY <2>1 DEF WorktreeInv, NavInv
    <3>2. Recents(recent_paths', Range(worktree_paths'), RecentLimit)
      BY <2>1 DEF WorktreeInv, NavInv
    <3>3. navigation' \in Navigation
      BY <2>1 DEF Navigation, NoNavigation
    <3>4. QED
      BY <2>1, <3>1, <3>2, <3>3 DEF NavInv, Recents, UnderWay, SelectedPath, IsInjective, Range
  <2>3. DiskInv' /\ OrderInv'
    <3>1. DiskInv'
      BY <2>1 DEF WorktreeInv, DiskInv
    <3>2. OrderInv'
      BY <2>1 DEF WorktreeInv, OrderInv
    <3>3. QED
      BY <3>1, <3>2
  <2>4. QED
    BY <2>2, <2>3 DEF WorktreeInv
<1>6. QED
  BY <1>1, <1>2, <1>3, <1>4, <1>5 DEF ArrangeNext

\* The edits of an action: a snapshot, and the order is kept or dropped.
LEMMA GuardedStep ==
  ASSUME WorktreeInv, \/ \E number \in Definitions : SaveAction(number)
                      \/ DeleteAction \/ RemoveRepository
  PROVE  WorktreeInv'
<1>1. PICK seen : Compose(seen) /\ UNCHANGED disk
                  /\ (UNCHANGED <<order, chosen>> \/ (order' = <<>> /\ chosen' = <<>>))
  BY DEF SaveAction, DeleteAction, RemoveRepository, Guarded, SaveCustomAction,
         RemoveCustomAction, ForgetRepository
<1>2. CASE UNCHANGED <<order, chosen>>
  BY <1>1, <1>2, ComposeStep
<1>3. CASE order' = <<>> /\ chosen' = <<>>
  <2>1. NavInv'
    BY <1>1, ComposeNav
  <2>2. DiskInv'
    BY <1>1 DEF WorktreeInv, DiskInv
  <2>3. OrderInv'
    <3>1. order' \in Seq(Keys) /\ chosen' \in Seq(Choice) /\ Len(order') = 0 /\ Len(chosen') = 0
      BY <1>3
    <3>2. QED
      BY <3>1 DEF OrderInv
  <2>4. QED
    BY <2>1, <2>2, <2>3 DEF WorktreeInv
<1>4. QED
  BY <1>1, <1>2, <1>3

\* The looks and the signals of a stop leave the worktrees alone.
LEMMA StopStays ==
  ASSUME StopNext
  PROVE  UNCHANGED worktreeVars
<1> USE DEF stored, memory, worktreeVars
<1>1. ASSUME NEW process \in displayed, NEW worktree \in Range(worktree_paths),
             BeginStop(process, worktree)
      PROVE  UNCHANGED worktreeVars
  BY <1>1 DEF BeginStop
<1>2. CASE PlanStop
  BY <1>2 DEF PlanStop
<1>3. CASE FollowAncestry
  BY <1>3 DEF FollowAncestry
<1>4. CASE ChooseRoot
  BY <1>4 DEF ChooseRoot
<1>5. CASE ReadTargets
  BY <1>5 DEF ReadTargets
<1>6. CASE ValidateSession
  BY <1>6 DEF ValidateSession
<1>7. CASE ListProcesses
  BY <1>7 DEF ListProcesses
<1>8. CASE VerifyTree
  BY <1>8 DEF VerifyTree
<1>9. CASE SignalRoot
  BY <1>9 DEF SignalRoot
<1>10. CASE AwaitSupervisor
  BY <1>10 DEF AwaitSupervisor
<1>11. CASE AwaitTree
  BY <1>11 DEF AwaitTree, ReportStopped
<1>12. CASE SweepTree
  BY <1>12 DEF SweepTree
<1>13. CASE AwaitRest
  BY <1>13 DEF AwaitRest, ReportStopped
<1>14. QED
  BY <1>1, <1>2, <1>3, <1>4, <1>5, <1>6, <1>7, <1>8, <1>9, <1>10, <1>11, <1>12, <1>13 DEF StopNext

LEMMA WorktreeInit ==
  ASSUME Init
  PROVE  WorktreeInv
<1>1. /\ disk \in Seq(Worktree)
      /\ \A i, j \in DOMAIN disk : i # j => disk[i].path # disk[j].path
      /\ order = <<>> /\ chosen = <<>> /\ shown = <<>> /\ worktree_paths = <<>>
      /\ recent_paths = <<>> /\ navigation = NoNavigation
  BY DEF Init, ViewInit, Worktree
<1>2. DiskInv
  BY <1>1 DEF DiskInv
<1>3. OrderInv
  BY <1>1 DEF OrderInv
<1>4. NavInv
  <2>1. RecentLimit \in Nat \ {0}
    BY ViewAssumption
  <2>2. <<>> \in Seq(Places) /\ Len(<<>>) = 0 /\ DOMAIN <<>> = {}
    OBVIOUS
  <2>3. Range(<<>>) = {}
    BY <2>2 DEF Range
  <2>4. IsInjective(<<>>)
    BY <2>2 DEF IsInjective
  <2>5. NoNavigation \in Navigation
    BY <2>2 DEF Navigation, NoNavigation
  <2>6. Recents(<<>>, Range(<<>>), RecentLimit)
    BY <2>1, <2>2, <2>3, <2>4 DEF Recents
  <2>7. QED
    BY <1>1, <2>2, <2>4, <2>5, <2>6 DEF NavInv
<1>5. QED
  BY <1>2, <1>3, <1>4 DEF WorktreeInv

LEMMA WorktreeStep ==
  ASSUME WorktreeInv, [Next]_vars
  PROVE  WorktreeInv'
<1> USE DEF stored, memory, worktreeVars
<1>1. CASE UNCHANGED vars
  BY <1>1, WorktreesStay DEF vars, viewVars
<1>2. CASE KernelNext /\ UNCHANGED <<disk, changes, stored, memory, op, promised>>
  BY <1>2, WorktreesStay
<1>3. CASE StopNext
  BY <1>3, StopStays, WorktreesStay
<1>4. CASE BeginStatus \/ ReadListeners \/ ReadDirectories
  BY <1>4, WorktreesStay DEF BeginStatus, ReadListeners, ReadDirectories
<1>5. CASE ShowStatus
  BY <1>5, ComposeStep DEF ShowStatus
<1>6. CASE ChangeNext
  BY <1>6, ChangeStep
<1>7. CASE ArrangeNext
  BY <1>7, ArrangeStep
<1>8. CASE LinkNext
  BY <1>8, WorktreesStay DEF LinkNext, LinkProcess, UnlinkProcess
<1>9. ASSUME NEW path \in Places, AddRepository(path)
      PROVE  WorktreeInv'
  BY <1>9, WorktreesStay DEF AddRepository
<1>10. ASSUME NEW path \in Places, NEW input \in Places, NEW restart \in BOOLEAN,
              PlanAction(path, input, restart)
       PROVE  WorktreeInv'
  BY <1>10, WorktreesStay DEF PlanAction, viewVars
<1>11. ASSUME NEW token \in DOMAIN confirmations, Expire(token) \/ ConfirmAction(token)
       PROVE  WorktreeInv'
  BY <1>11, WorktreesStay DEF Expire, ConfirmAction, viewVars
<1>12. CASE InterruptRun \/ RevalidateAgain \/ PrepareLaunch \/ LastLook \/ SpawnReviewed
  BY <1>12, WorktreesStay DEF InterruptRun, RevalidateAgain, PrepareLaunch, LastLook, SpawnReviewed
<1>13. ASSUME NEW path \in Places, RunOver(path)
       PROVE  WorktreeInv'
  BY <1>13, WorktreesStay DEF RunOver, viewVars
<1>14. CASE (\E number \in Definitions : SaveAction(number)) \/ DeleteAction \/ RemoveRepository
  BY <1>14, GuardedStep
<1>15. QED
  BY <1>1, <1>2, <1>3, <1>4, <1>5, <1>6, <1>7, <1>8, <1>9, <1>10, <1>11, <1>12, <1>13, <1>14
     DEF Next, ViewNext, StatusNext, ReviewNext

\* The worktrees on the disk stay apart, and what is remembered of them fits
\* them: the order, the snapshot, the recent ones, the navigation.
THEOREM WorktreeInvariant == Spec => []WorktreeInv
<1>1. Init => WorktreeInv
  BY WorktreeInit
<1>2. WorktreeInv /\ [Next]_vars => WorktreeInv'
  BY WorktreeStep
<1>3. QED
  BY <1>1, <1>2, PTL DEF Spec

\* The navigation and the recent worktrees offer only available worktrees of the
\* last snapshot, each once, for any number of worktrees and any RecentLimit.
THEOREM NavigationIsSound == Spec => []NavigationSound
<1>1. WorktreeInv => NavigationSound
  BY NavSound DEF WorktreeInv
<1>2. QED
  BY <1>1, WorktreeInvariant, PTL

\* The order of the user is kept through moves of worktrees and branches, for
\* any number of worktrees, detached at whatever commits, and any changes.
THEOREM OrderIsKept == Spec => []OrderKept
<1>1. WorktreeInv => OrderKept
  BY OrderHolds DEF WorktreeInv
<1>2. QED
  BY <1>1, WorktreeInvariant, PTL

-----------------------------------------------------------------------------
(* The processes.                                                          *)

KernelInv == LineageSound /\ TableSound

Ids == [pid : Nat, start : Nat]

\* An identity some process has or had.
Known(id) == id.start \in 1..Births /\ born[id.start].pid = id.pid

Entry == [pid : Pids, ancestors : SUBSET Nat]
Row(pids, n) == [start : 1..n, parent : pids \cup {Launchd}, place : Places, serves : BOOLEAN]

LEMMA PidsType == Pids \subseteq Nat /\ Launchd \notin Pids /\ Launchd \in Nat
  BY ProcessAssumption DEF Launchd

\* What the table says of one process.
LEMMA Rows ==
  ASSUME KernelInv, NEW pid \in DOMAIN table
  PROVE  /\ pid \in Pids /\ pid \in Nat /\ pid # Launchd
         /\ Births \in Nat /\ DOMAIN born = 1..Births
         /\ table[pid].start \in 1..Births /\ table[pid].start \in Nat
         /\ table[pid].parent \in DOMAIN table \cup {Launchd} /\ table[pid].parent \in Nat
         /\ table[pid].place \in Places /\ table[pid].serves \in BOOLEAN
         /\ born[table[pid].start].pid = pid
         /\ \A s \in table[pid].start + 1..Births : born[s].pid # pid
         /\ table[pid].parent # Launchd =>
               /\ table[pid].parent \in DOMAIN table
               /\ table[table[pid].parent].start \in born[table[pid].start].ancestors
<1>1. pid \in Pids /\ pid \in Nat /\ pid # Launchd /\ DOMAIN table \subseteq Nat /\ Launchd \in Nat
  BY PidsType DEF KernelInv, TableSound
<1>2. born \in Seq(Entry)
  BY DEF KernelInv, LineageSound, Entry
<1>3. Births \in Nat /\ DOMAIN born = 1..Births
  BY <1>2 DEF Births
<1>4. table[pid] \in Row(DOMAIN table, Births)
  BY DEF KernelInv, TableSound, Row
<1>5. /\ table[pid].start \in 1..Births /\ table[pid].parent \in DOMAIN table \cup {Launchd}
      /\ table[pid].place \in Places /\ table[pid].serves \in BOOLEAN
  BY <1>4 DEF Row
<1>6. /\ born[table[pid].start].pid = pid
      /\ \A s \in table[pid].start + 1..Births : born[s].pid # pid
      /\ table[pid].parent # Launchd =>
            table[table[pid].parent].start \in born[table[pid].start].ancestors
  BY DEF KernelInv, TableSound
<1>7. QED
  BY <1>1, <1>3, <1>5, <1>6

\* Those that were there before a process was.
LEMMA Lines ==
  ASSUME KernelInv, NEW s \in 1..Births
  PROVE  /\ Births \in Nat /\ DOMAIN born = 1..Births
         /\ born[s].pid \in Pids /\ born[s].ancestors \subseteq 1..s - 1
         /\ born[s].ancestors \subseteq 1..Births
         /\ Lineage(s) \subseteq 1..Births /\ Lineage(s) \subseteq Nat
         /\ \A a \in Lineage(s) : Lineage(a) \subseteq Lineage(s)
<1>1. born \in Seq(Entry)
  BY DEF KernelInv, LineageSound, Entry
<1>2. Births \in Nat /\ DOMAIN born = 1..Births /\ born[s] \in Entry
  BY <1>1 DEF Births
<1>3. born[s].pid \in Pids
  BY <1>2 DEF Entry
<1>4. born[s].ancestors \subseteq 1..s - 1
      /\ \A a \in born[s].ancestors : born[a].ancestors \subseteq born[s].ancestors
  BY DEF KernelInv, LineageSound
<1>5. born[s].ancestors \subseteq 1..Births
  BY <1>2, <1>4
<1>6. QED
  BY <1>2, <1>3, <1>4, <1>5 DEF Lineage

LEMMA LivingKnown ==
  ASSUME KernelInv, NEW pid \in DOMAIN table
  PROVE  IdentityOf(pid) \in Ids /\ Known(IdentityOf(pid)) /\ Lives(IdentityOf(pid))
<1>1. pid \in Nat /\ table[pid].start \in 1..Births /\ table[pid].start \in Nat
      /\ born[table[pid].start].pid = pid
  BY Rows
<1>2. QED
  BY <1>1 DEF IdentityOf, Ids, Known, Lives, Alive

\* History is only ever added to.
Grown ==
    /\ Births \in Nat /\ Births' \in Nat /\ Births <= Births'
    /\ \A s \in 1..Births : born'[s] = born[s]

LEMMA SpawnStep ==
  ASSUME KernelInv, NEW parent \in Pids \cup {Launchd}, NEW pid \in Pids, NEW place \in Places,
         Spawn(parent, pid, place)
  PROVE  /\ KernelInv' /\ Grown
         /\ \A id \in Ids : Known(id) /\ Lives(id)' => Lives(id)
<1> DEFINE n == Births
           above == IF parent = Launchd THEN {} ELSE Lineage(table[parent].start)
           entry == [pid |-> pid, ancestors |-> above]
           row == Process(n + 1, parent, place, FALSE)
<1>1. n \in Nat /\ DOMAIN born = 1..n /\ born \in Seq(Entry) /\ DOMAIN table \subseteq Pids
  BY DEF KernelInv, LineageSound, TableSound, Entry, Births
<1>2. /\ pid \notin DOMAIN table /\ pid \in Nat /\ pid # Launchd
      /\ (parent # Launchd => parent \in DOMAIN table)
      /\ table' = [p \in DOMAIN table \cup {pid} |-> IF p = pid THEN row ELSE table[p]]
      /\ born' = Append(born, entry)
  BY PidsType DEF Spawn, Alive
<1>3. above \subseteq 1..n /\ \A a \in above : born[a].ancestors \subseteq above
  <2>1. CASE parent = Launchd
    BY <2>1
  <2>2. CASE parent # Launchd
    <3>1. table[parent].start \in 1..Births
      BY <1>2, <2>2, Rows
    <3>2. \A s \in 1..Births : Lineage(s) \subseteq 1..Births
                               /\ \A a \in Lineage(s) : Lineage(a) \subseteq Lineage(s)
      BY Lines
    <3>3. QED
      BY <2>2, <3>1, <3>2 DEF Lineage
  <2>3. QED
    BY <2>1, <2>2
<1>4. entry \in Entry
  BY <1>1, <1>3 DEF Entry
<1> HIDE DEF above
<1>5. /\ born' \in Seq(Entry) /\ Births' = n + 1
      /\ \A s \in 1..n : born'[s] = born[s]
      /\ born'[n + 1] = entry /\ born'[n + 1].pid = pid /\ born'[n + 1].ancestors = above
  BY <1>1, <1>2, <1>4 DEF Births
<1> HIDE DEF n, entry
<1>6. Grown
  BY <1>1, <1>5 DEF Grown, n
<1>7. LineageSound'
  <2>1. ASSUME NEW s \in 1..n + 1
        PROVE  /\ born'[s].ancestors \subseteq 1..s - 1
               /\ \A a \in born'[s].ancestors : born'[a].ancestors \subseteq born'[s].ancestors
    <3>1. CASE s \in 1..n
      <4>1. born'[s] = born[s] /\ born[s].ancestors \subseteq 1..s - 1
            /\ \A a \in born[s].ancestors : born[a].ancestors \subseteq born[s].ancestors
        BY <1>5, <3>1 DEF KernelInv, LineageSound, n
      <4>2. \A a \in born[s].ancestors : a \in 1..n
        BY <1>1, <3>1, <4>1
      <4>3. QED
        BY <1>5, <4>1, <4>2
    <3>2. CASE s = n + 1
      <4>1. born'[s].ancestors = above /\ above \subseteq 1..s - 1
        BY <1>1, <1>3, <1>5, <3>2
      <4>2. QED
        BY <1>3, <1>5, <4>1
    <3>3. QED
      BY <1>1, <3>1, <3>2
  <2>2. QED
    BY <1>5, <2>1 DEF LineageSound, Entry
<1>8. DOMAIN table' = DOMAIN table \cup {pid} /\ table'[pid] = row
      /\ \A p \in DOMAIN table : p # pid /\ table'[p] = table[p]
  BY <1>2
<1>9. ASSUME NEW p \in DOMAIN table
      PROVE  /\ table'[p] \in Row(DOMAIN table', n + 1)
             /\ born'[table'[p].start].pid = p
             /\ \A s \in table'[p].start + 1..n + 1 : born'[s].pid # p
             /\ table'[p].parent # Launchd =>
                   table'[table'[p].parent].start \in born'[table'[p].start].ancestors
  <2>1. /\ table[p].start \in 1..n
        /\ table[p].parent \in DOMAIN table \cup {Launchd}
        /\ born[table[p].start].pid = p
        /\ \A s \in table[p].start + 1..n : born[s].pid # p
        /\ table[p].parent # Launchd =>
              /\ table[p].parent \in DOMAIN table
              /\ table[table[p].parent].start \in born[table[p].start].ancestors
    BY Rows DEF n
  <2>2. table[p] \in Row(DOMAIN table, n)
    BY DEF KernelInv, TableSound, Row, n
  <2>3. table[p] \in Row(DOMAIN table', n + 1)
    BY <1>1, <1>8, <2>2 DEF Row
  <2>4. \A s \in table[p].start + 1..n + 1 : born'[s].pid # p
    <3>1. ASSUME NEW s \in table[p].start + 1..n + 1, s # n + 1
          PROVE  born'[s].pid # p
      <4>1. s \in table[p].start + 1..n /\ s \in 1..n
        BY <1>1, <2>1, <3>1
      <4>2. QED
        BY <1>5, <2>1, <4>1
    <3>2. born'[n + 1].pid # p
      BY <1>5, <1>8
    <3>3. QED
      BY <3>1, <3>2
  <2>5. QED
    BY <1>5, <1>8, <2>1, <2>3, <2>4
<1>10. /\ table'[pid] \in Row(DOMAIN table', n + 1)
       /\ born'[table'[pid].start].pid = pid
       /\ \A s \in table'[pid].start + 1..n + 1 : born'[s].pid # pid
       /\ table'[pid].parent # Launchd =>
             table'[table'[pid].parent].start \in born'[table'[pid].start].ancestors
  <2>1. row.start = n + 1 /\ row.parent = parent /\ row \in Row(DOMAIN table', n + 1)
    BY <1>1, <1>2, <1>8 DEF Process, Row
  <2>2. parent # Launchd => table'[parent].start \in above
    BY <1>2, <1>8 DEF above, Lineage
  <2>3. \A s \in n + 1 + 1..n + 1 : FALSE
    BY <1>1
  <2>4. table'[pid].start = n + 1 /\ table'[pid].parent = parent
        /\ table'[pid] \in Row(DOMAIN table', n + 1)
    BY <1>8, <2>1
  <2> HIDE DEF row
  <2>5. QED
    BY <1>5, <2>2, <2>3, <2>4
<1>11. TableSound'
  <2>1. DOMAIN table' \subseteq Pids /\ table' = [p \in DOMAIN table' |-> table'[p]]
    BY <1>1, <1>2, <1>8
  <2>2. \A p \in DOMAIN table' :
             /\ table'[p] \in Row(DOMAIN table', n + 1)
             /\ born'[table'[p].start].pid = p
             /\ \A s \in table'[p].start + 1..n + 1 : born'[s].pid # p
             /\ table'[p].parent # Launchd =>
                   table'[table'[p].parent].start \in born'[table'[p].start].ancestors
    BY <1>8, <1>9, <1>10
  <2>3. table' \in [DOMAIN table' -> Row(DOMAIN table', n + 1)]
    BY <2>1, <2>2
  <2>4. QED
    BY <1>5, <2>1, <2>2, <2>3 DEF TableSound, Row
<1>12. ASSUME NEW id \in Ids, Known(id), Lives(id)'
       PROVE  Lives(id)
  <2>1. id.pid \in DOMAIN table' /\ table'[id.pid].start = id.start
    BY <1>12 DEF Lives, Alive, IdentityOf
  <2>2. id.start # n + 1
    BY <1>1, <1>12 DEF Known, n
  <2>3. id.pid # pid
    BY <1>8, <2>1, <2>2 DEF Process
  <2>4. id.pid \in DOMAIN table /\ table[id.pid] = table'[id.pid]
    BY <1>8, <2>1, <2>3
  <2>5. QED
    BY <1>12, <2>4 DEF Lives, Alive, IdentityOf
<1>13. QED
  BY <1>6, <1>7, <1>11, <1>12 DEF KernelInv

LEMMA ExitStep ==
  ASSUME KernelInv, NEW pid \in Pids, Exit(pid)
  PROVE  /\ KernelInv' /\ Grown
         /\ \A id \in Ids : Known(id) /\ Lives(id)' => Lives(id)
<1> DEFINE Left(p) == IF table[p].parent = pid THEN [table[p] EXCEPT !.parent = Launchd] ELSE table[p]
<1>1. born' = born /\ Births' = Births /\ LineageSound'
  BY DEF Exit, KernelInv, LineageSound, Births
<1>2. Births \in Nat
  BY DEF KernelInv, LineageSound, Births
<1>3. Grown
  BY <1>1, <1>2 DEF Grown
<1>4. /\ table' = [p \in DOMAIN table \ {pid} |-> Left(p)]
      /\ DOMAIN table' = DOMAIN table \ {pid} /\ \A p \in DOMAIN table' : table'[p] = Left(p)
  BY DEF Exit
<1>5. ASSUME NEW p \in DOMAIN table'
      PROVE  /\ Left(p) \in Row(DOMAIN table', Births) /\ Left(p).start = table[p].start
             /\ \/ Left(p).parent = Launchd
                \/ Left(p).parent = table[p].parent /\ table[p].parent \in DOMAIN table'
  <2>1. table[p] \in Row(DOMAIN table, Births)
    BY <1>4 DEF KernelInv, TableSound, Row
  <2>2. CASE table[p].parent = pid
    BY <2>1, <2>2 DEF Row
  <2>3. CASE table[p].parent # pid
    BY <1>4, <2>1, <2>3 DEF Row
  <2>4. QED
    BY <2>2, <2>3
<1> HIDE DEF Left
<1>6. TableSound'
  <2>1. DOMAIN table' \subseteq Pids
    BY <1>4 DEF KernelInv, TableSound
  <2>2. table' \in [DOMAIN table' -> Row(DOMAIN table', Births)]
    BY <1>4, <1>5
  <2>3. ASSUME NEW p \in DOMAIN table'
        PROVE  /\ born[table'[p].start].pid = p
               /\ \A s \in table'[p].start + 1..Births : born[s].pid # p
               /\ table'[p].parent # Launchd =>
                     table'[table'[p].parent].start \in born[table'[p].start].ancestors
    <3>1. table'[p].start = table[p].start
      BY <1>4, <1>5
    <3>2. p \in DOMAIN table
      BY <1>4
    <3>3. table'[p].parent # Launchd =>
              /\ table'[p].parent = table[p].parent
              /\ table'[table'[p].parent].start = table[table[p].parent].start
      BY <1>4, <1>5
    <3>4. QED
      BY <3>1, <3>2, <3>3, Rows
  <2>4. QED
    BY <1>1, <2>1, <2>2, <2>3 DEF TableSound, Row
<1>7. ASSUME NEW id \in Ids, Lives(id)'
      PROVE  Lives(id)
  <2>1. id.pid \in DOMAIN table' /\ table'[id.pid].start = id.start
    BY <1>7 DEF Lives, Alive, IdentityOf
  <2>2. id.pid \in DOMAIN table /\ table[id.pid].start = id.start
    BY <1>4, <1>5, <2>1
  <2>3. QED
    BY <2>2 DEF Lives, Alive, IdentityOf, Ids
<1>8. QED
  BY <1>1, <1>3, <1>6, <1>7 DEF KernelInv

LEMMA MoveStep ==
  ASSUME KernelInv, NEW pid \in Pids, NEW place \in Places, NEW serves \in BOOLEAN,
         Move(pid, place, serves)
  PROVE  /\ KernelInv' /\ Grown
         /\ \A id \in Ids : Known(id) /\ Lives(id)' => Lives(id)
<1>1. born' = born /\ Births' = Births /\ LineageSound'
  BY DEF Move, KernelInv, LineageSound, Births
<1>2. Births \in Nat
  BY DEF KernelInv, LineageSound, Births
<1>3. Grown
  BY <1>1, <1>2 DEF Grown
<1>4. table' = [table EXCEPT ![pid].place = place, ![pid].serves = serves]
  BY DEF Move
<1>5. \A p \in DOMAIN table : table[p] \in Row(DOMAIN table, Births)
  BY DEF KernelInv, TableSound, Row
<1>6. /\ DOMAIN table' = DOMAIN table
      /\ \A p \in DOMAIN table : /\ table'[p] \in Row(DOMAIN table, Births)
                                 /\ table'[p].start = table[p].start
                                 /\ table'[p].parent = table[p].parent
  BY <1>4, <1>5 DEF Row
<1>7. TableSound'
  <2>0. table = [p \in DOMAIN table |-> table[p]] /\ DOMAIN table \subseteq Pids
    BY DEF KernelInv, TableSound
  <2>1. DOMAIN table' \subseteq Pids /\ table' = [p \in DOMAIN table' |-> table'[p]]
    <3>1. table' = [p \in DOMAIN table' |-> table'[p]]
      BY <1>4, <2>0
    <3>2. QED
      BY <1>6, <2>0, <3>1
  <2>2. table' \in [DOMAIN table' -> Row(DOMAIN table', Births)]
    BY <1>6, <2>1
  <2>3. ASSUME NEW p \in DOMAIN table'
        PROVE  /\ born[table'[p].start].pid = p
               /\ \A s \in table'[p].start + 1..Births : born[s].pid # p
               /\ table'[p].parent # Launchd =>
                     table'[table'[p].parent].start \in born[table'[p].start].ancestors
    <3>1. p \in DOMAIN table
      BY <1>6
    <3>2. /\ born[table[p].start].pid = p
          /\ \A s \in table[p].start + 1..Births : born[s].pid # p
          /\ table[p].parent # Launchd =>
                /\ table[p].parent \in DOMAIN table
                /\ table[table[p].parent].start \in born[table[p].start].ancestors
      BY <3>1, Rows
    <3>3. QED
      BY <1>6, <3>1, <3>2
  <2>4. QED
    BY <1>1, <2>1, <2>2, <2>3 DEF TableSound, Row
<1>8. ASSUME NEW id \in Ids, Lives(id)'
      PROVE  Lives(id)
  <2>1. id.pid \in DOMAIN table' /\ table'[id.pid].start = id.start
    BY <1>8 DEF Lives, Alive, IdentityOf
  <2>2. id.pid \in DOMAIN table /\ table[id.pid].start = id.start
    BY <1>6, <2>1
  <2>3. QED
    BY <2>2 DEF Lives, Alive, IdentityOf, Ids
<1>9. QED
  BY <1>1, <1>3, <1>7, <1>8 DEF KernelInv

\* No process comes back, and what was known stays so.
LEMMA KernelStep ==
  ASSUME KernelInv, KernelNext \/ UNCHANGED kernel
  PROVE  /\ KernelInv' /\ Grown
         /\ \A id \in Ids : Known(id) /\ Lives(id)' => Lives(id)
<1>1. CASE UNCHANGED kernel
  <2>1. Births \in Nat
    BY DEF KernelInv, LineageSound, Births
  <2>2. KernelInv'
    BY <1>1 DEF KernelInv, LineageSound, TableSound, Births, kernel
  <2>3. Grown
    BY <1>1, <2>1 DEF Grown, Births, kernel
  <2>4. \A id \in Ids : Lives(id)' => Lives(id)
    BY <1>1 DEF Lives, Alive, IdentityOf, kernel
  <2>5. QED
    BY <2>2, <2>3, <2>4
<1>2. CASE KernelNext
  BY <1>2, SpawnStep, ExitStep, MoveStep DEF KernelNext
<1>3. QED
  BY <1>1, <1>2

\* What is known of the past.
LEMMA KnownStays ==
  ASSUME KernelInv, Grown, NEW id, Known(id)
  PROVE  /\ Known(id)'
         /\ \A root : BornBelow(id, root) => BornBelow(id, root)'
  BY DEF Known, Grown, BornBelow, Lineage

-----------------------------------------------------------------------------
(* A stop, from the first look to the last signal.                         *)

Looking == {"listeners", "directories", "identities"}
AncestrySteps == {"ancestry", "root"}
SignalSteps == {"supervisor", "wait", "sweep", "last"}
VerifiedSteps == {"signal"} \cup SignalSteps
TreeSteps == {"facts"} \cup VerifiedSteps
RootSteps == {"targets", "validate", "listing"} \cup TreeSteps
ReviewSteps == {"interrupt", "again", "launch", "look", "spawn"}

Fact == [pid : Nat, start : Nat, parent : Nat]

\* op is a record, with what no step has touched yet still empty.
OpInv ==
    /\ op = [step |-> op.step, kind |-> op.kind, target |-> op.target,
             worktree |-> op.worktree, heard |-> op.heard, known |-> op.known,
             chain |-> op.chain, root |-> op.root, session |-> op.session,
             parents |-> op.parents, tree |-> op.tree, at |-> op.at, signal |-> op.signal,
             witness |-> op.witness, truth |-> op.truth, births |-> op.births]
    /\ op.step \in {"idle"} \cup Looking \cup AncestrySteps \cup RootSteps \cup ReviewSteps
    /\ op.step \in {"idle"} \cup Looking => op.chain = <<>>
    /\ op.step \notin TreeSteps => op.tree = <<>>
    /\ op.signal # NoIdentity => op.step \in SignalSteps

TargetInv ==
    /\ op.target.identity \in Ids
    /\ op.kind = "stop" => Known(op.target.identity)
    /\ op.step \in AncestrySteps \cup RootSteps => op.kind = "stop"
    /\ op.step \in {"idle"} \cup ReviewSteps => op.kind # "stop"

\* As long as the target lives it is among those that were really looked at.
WitnessInv ==
    /\ op.kind = "stop" /\ op.step = "directories" =>
          (Lives(op.target.identity) /\ op.target.identity.pid \in op.heard =>
              op.target.identity \in op.witness)
    /\ op.kind = "stop" /\ op.step = "identities" =>
          (Lives(op.target.identity) /\ op.target.identity.pid \in DOMAIN op.known =>
              op.target.identity \in op.witness)
    /\ op.step \in AncestrySteps \cup RootSteps => op.target.identity \in op.witness

\* The parent a fact tells is the last process born under its pid before it.
Honest(fact) ==
    fact.parent # Launchd =>
        \E s \in born[fact.start].ancestors :
            born[s].pid = fact.parent /\ \A t \in s + 1..fact.start : born[t].pid # fact.parent

ChainInv ==
    op.step \in AncestrySteps =>
        /\ op.chain \in Seq(Fact)
        /\ \A i \in 1..Len(op.chain) :
              /\ Known(AsIdentity(op.chain[i])) /\ Honest(op.chain[i])
              /\ BornBelow(op.target.identity, AsIdentity(op.chain[i]))

RootInv ==
    op.step \in RootSteps =>
        /\ op.root \in Ids /\ Known(op.root) /\ BornBelow(op.target.identity, op.root)
        /\ \/ op.root = op.target.identity
           \/ [identity |-> op.root, path |-> op.worktree] \in sessions \cup owners

\* Each member of the tree is the process that had its pid at the listing, or
\* one born since.
TreeInv ==
    op.step \in TreeSteps =>
        /\ op.tree \in Seq(Fact) /\ op.births \in 0..Births
        /\ op.step # "facts" => op.tree # <<>>
        /\ op.tree # <<>> => AsIdentity(op.tree[1]) = op.root
        /\ \A i \in 1..Len(op.tree) :
              /\ Known(AsIdentity(op.tree[i]))
              /\ \A s \in op.tree[i].start + 1..op.births : born[s].pid # op.tree[i].pid

ListInv ==
    op.step = "facts" =>
        /\ DOMAIN op.parents \subseteq Nat
        /\ \A i \in 1..Len(op.tree) : op.tree[i].pid \in DOMAIN op.parents
        /\ Lives(op.root) => op.root.pid \in DOMAIN op.parents

\* Closed: with a process, the set has those that were listed as its children.
Closed(pids) == \A pid \in DOMAIN op.parents : op.parents[pid] \in pids => pid \in pids

\* Who really was below the root: in the listing until the tree is verified, in
\* the tree or dead from then on.
TruthInv ==
    op.step \in TreeSteps =>
        /\ \A t \in op.truth : t \in Ids /\ Known(t) /\ t.start <= op.births
        /\ op.step = "facts" =>
              \A t \in op.truth : \A pids \in SUBSET DOMAIN op.parents :
                  op.root.pid \in pids /\ Closed(pids) => t.pid \in pids
        /\ op.step # "facts" =>
              \A t \in op.truth :
                  Lives(t) => \E i \in 1..Len(op.tree) : AsIdentity(op.tree[i]) = t

SweepInv == op.step = "sweep" => op.at \in 1..Len(op.tree)

Records == [identity : Ids, path : Places]

\* Whoever is on record, displayed or promised is a process that once was born.
RecordInv ==
    /\ sessions \cup owners \subseteq Records
    /\ \A r \in sessions \cup owners : Known(r.identity)
    /\ \A p \in displayed : p.identity \in Ids /\ Known(p.identity)
    /\ \A id \in promised : id \in Ids /\ Known(id) /\ ~Lives(id)

StopInv ==
    /\ OpInv /\ TargetInv /\ WitnessInv /\ ChainInv /\ RootInv
    /\ TreeInv /\ ListInv /\ TruthInv /\ SweepInv /\ RecordInv

\* Whoever is in the tree or gets a signal was born below the root.
ConfinedInv ==
    op.step \in TreeSteps =>
        /\ \A i \in 1..Len(op.tree) : BornBelow(AsIdentity(op.tree[i]), op.root)
        /\ op.signal # NoIdentity => Known(op.signal) /\ BornBelow(op.signal, op.root)

-----------------------------------------------------------------------------
(* What the kernel does between the steps changes nothing of it.           *)

LEMMA HonestStays ==
  ASSUME KernelInv, Grown, NEW fact \in Fact, Known(AsIdentity(fact)), Honest(fact)
  PROVE  Honest(fact)'
<1>1. fact.start \in 1..Births /\ Births \in Nat
  BY DEF Known, AsIdentity, Grown
<1>2. born'[fact.start] = born[fact.start]
  BY <1>1 DEF Grown
<1>3. CASE fact.parent = Launchd
  BY <1>3 DEF Honest
<1>4. CASE fact.parent # Launchd
  <2>1. PICK s \in born[fact.start].ancestors :
            born[s].pid = fact.parent /\ \A t \in s + 1..fact.start : born[t].pid # fact.parent
    BY <1>4 DEF Honest
  <2>2. s \in 1..Births
    BY <1>1, <2>1, Lines
  <2>3. born'[s] = born[s]
    BY <2>2 DEF Grown
  <2>4. \A t \in s + 1..fact.start : t \in 1..Births
    BY <1>1, <2>2
  <2>5. \A t \in s + 1..fact.start : born'[t].pid # fact.parent
    BY <2>1, <2>4 DEF Grown
  <2>6. QED
    BY <1>2, <2>1, <2>3, <2>5 DEF Honest
<1>5. QED
  BY <1>3, <1>4

LEMMA RecordStays ==
  ASSUME KernelInv, RecordInv, KernelNext \/ UNCHANGED kernel,
         owners' = owners, sessions' \subseteq sessions,
         \A p \in displayed' \ displayed : p.identity \in Ids /\ Known(p.identity),
         \A id \in promised' \ promised : id \in Ids /\ Known(id) /\ ~Lives(id)
  PROVE  RecordInv'
<1>1. Grown /\ \A id \in Ids : Known(id) /\ Lives(id)' => Lives(id)
  BY KernelStep
<1>2. \A id : Known(id) => Known(id)'
  BY <1>1 DEF Known, Grown
<1>3. sessions' \cup owners' \subseteq sessions \cup owners
  OBVIOUS
<1>4. \A r \in sessions' \cup owners' : r \in Records /\ Known(r.identity)'
  BY <1>2, <1>3 DEF RecordInv
<1>5. \A p \in displayed' : p.identity \in Ids /\ Known(p.identity)'
  BY <1>2 DEF RecordInv
<1>6. \A id \in promised' : id \in Ids /\ Known(id)' /\ ~Lives(id)'
  BY <1>1, <1>2 DEF RecordInv
<1>7. QED
  BY <1>4, <1>5, <1>6 DEF RecordInv

\* While the operation stays at its step, whatever else happens.
LEMMA StopStaysPut ==
  ASSUME KernelInv, StopInv, KernelNext \/ UNCHANGED kernel, op' = op,
         UNCHANGED <<sessions, owners>> \/ op.step \notin RootSteps, RecordInv'
  PROVE  StopInv' /\ (ConfinedInv => ConfinedInv')
<1>1. Grown /\ \A id \in Ids : Known(id) /\ Lives(id)' => Lives(id)
  BY KernelStep
<1>2. Births \in Nat /\ Births' \in Nat /\ Births <= Births'
      /\ \A s \in 1..Births : born'[s] = born[s]
  BY <1>1 DEF Grown
<1>3. \A id : Known(id) => Known(id)'
  BY <1>1 DEF Known, Grown
<1>4. \A id, root : Known(id) /\ BornBelow(id, root) => BornBelow(id, root)'
  BY <1>1 DEF Known, Grown, BornBelow, Lineage
<1>5. OpInv'
  BY DEF StopInv, OpInv
<1>6. TargetInv'
  BY <1>3 DEF StopInv, TargetInv
<1>7. WitnessInv'
  <2>1. Known(op.target.identity) /\ Lives(op.target.identity)' => Lives(op.target.identity)
    BY <1>1 DEF StopInv, TargetInv
  <2>2. op.kind = "stop" => Known(op.target.identity)
    BY DEF StopInv, TargetInv
  <2>3. WitnessInv
    BY DEF StopInv
  <2>4. QED
    BY <2>1, <2>2, <2>3 DEF WitnessInv
<1>8. ChainInv'
  <2> SUFFICES ASSUME op.step \in AncestrySteps
               PROVE  /\ op.chain \in Seq(Fact)
                      /\ \A i \in 1..Len(op.chain) :
                            /\ Known(AsIdentity(op.chain[i]))' /\ Honest(op.chain[i])'
                            /\ BornBelow(op.target.identity, AsIdentity(op.chain[i]))'
    BY DEF ChainInv
  <2>1. /\ op.chain \in Seq(Fact) /\ Known(op.target.identity)
        /\ \A i \in 1..Len(op.chain) :
              /\ Known(AsIdentity(op.chain[i])) /\ Honest(op.chain[i])
              /\ BornBelow(op.target.identity, AsIdentity(op.chain[i]))
    BY DEF StopInv, ChainInv, TargetInv
  <2>2. \A i \in 1..Len(op.chain) : op.chain[i] \in Fact
    BY <2>1
  <2>3. \A fact \in Fact : Known(AsIdentity(fact)) /\ Honest(fact) => Honest(fact)'
    BY <1>1, HonestStays
  <2>4. \A i \in 1..Len(op.chain) : Honest(op.chain[i])'
    BY <2>1, <2>2, <2>3
  <2>5. QED
    BY <1>3, <1>4, <2>1, <2>4
<1>9. RootInv'
  <2> SUFFICES ASSUME op.step \in RootSteps
               PROVE  /\ op.root \in Ids /\ Known(op.root)' /\ BornBelow(op.target.identity, op.root)'
                      /\ \/ op.root = op.target.identity
                         \/ [identity |-> op.root, path |-> op.worktree] \in sessions' \cup owners'
    BY DEF RootInv
  <2>1. Known(op.target.identity) /\ UNCHANGED <<sessions, owners>>
    BY DEF StopInv, TargetInv
  <2>2. QED
    BY <1>3, <1>4, <2>1 DEF StopInv, RootInv
<1>10. TreeInv'
  <2> SUFFICES ASSUME op.step \in TreeSteps PROVE TreeInv'
    BY DEF TreeInv
  <2>1. TreeInv
    BY DEF StopInv
  <2>2. op.births \in 0..Births /\ op.births \in 0..Births'
    BY <1>2, <2>1 DEF TreeInv
  <2>3. ASSUME NEW i \in 1..Len(op.tree)
        PROVE  /\ Known(AsIdentity(op.tree[i]))'
               /\ \A s \in op.tree[i].start + 1..op.births : born'[s].pid # op.tree[i].pid
    <3>1. Known(AsIdentity(op.tree[i])) /\ op.tree[i].start \in 1..Births
      BY <2>1 DEF TreeInv, Known, AsIdentity
    <3>2. \A s \in op.tree[i].start + 1..op.births : s \in 1..Births
      BY <1>2, <2>2, <3>1
    <3>3. QED
      BY <1>2, <1>3, <2>1, <3>1, <3>2 DEF TreeInv
  <2>4. QED
    BY <2>1, <2>2, <2>3 DEF TreeInv
<1>11. ListInv'
  <2> SUFFICES ASSUME op.step = "facts" PROVE ListInv'
    BY DEF ListInv
  <2>1. Known(op.root) /\ op.root \in Ids
    BY DEF StopInv, RootInv, RootSteps, TreeSteps
  <2>2. QED
    BY <1>1, <2>1 DEF StopInv, ListInv
<1>12. TruthInv'
  <2> SUFFICES ASSUME op.step \in TreeSteps PROVE TruthInv'
    BY DEF TruthInv
  <2>1. TruthInv
    BY DEF StopInv
  <2>2. \A t \in op.truth : t \in Ids /\ Known(t) /\ t.start <= op.births
    BY <2>1 DEF TruthInv
  <2>3. \A t \in op.truth : Known(t)' /\ (Lives(t)' => Lives(t))
    BY <1>1, <1>3, <2>2
  <2>4. QED
    BY <2>1, <2>2, <2>3 DEF TruthInv, Closed
<1>13. SweepInv'
  BY DEF StopInv, SweepInv
<1>14. ASSUME ConfinedInv PROVE ConfinedInv'
  <2> SUFFICES ASSUME op.step \in TreeSteps
               PROVE  /\ \A i \in 1..Len(op.tree) : BornBelow(AsIdentity(op.tree[i]), op.root)'
                      /\ op.signal # NoIdentity => /\ Known(op.signal)'
                                                     /\ BornBelow(op.signal, op.root)'
    BY DEF ConfinedInv
  <2>1. \A i \in 1..Len(op.tree) : Known(AsIdentity(op.tree[i]))
    BY DEF StopInv, TreeInv
  <2>2. QED
    BY <1>3, <1>4, <1>14, <2>1 DEF ConfinedInv
<1>15. QED
  BY <1>5, <1>6, <1>7, <1>8, <1>9, <1>10, <1>11, <1>12, <1>13, <1>14 DEF StopInv

-----------------------------------------------------------------------------
(* The steps of the operation, one by one: the looks.                      *)

\* No time passes within a step of the code.
LEMMA Still ==
  ASSUME KernelInv, UNCHANGED kernel
  PROVE  /\ KernelInv' /\ Births' = Births /\ born' = born
         /\ \A id : (Known(id)' <=> Known(id)) /\ (Lives(id)' <=> Lives(id))
         /\ \A id, root : BornBelow(id, root)' <=> BornBelow(id, root)
         /\ \A fact : Honest(fact)' <=> Honest(fact)
<1>1. table' = table /\ born' = born /\ Births' = Births
  BY DEF kernel, Births
<1>2. KernelInv'
  BY KernelStep
<1>3. \A id : (Known(id)' <=> Known(id)) /\ (Lives(id)' <=> Lives(id))
  BY <1>1 DEF Known, Lives, Alive, IdentityOf
<1>4. \A id, root : BornBelow(id, root)' <=> BornBelow(id, root)
  BY <1>1 DEF BornBelow, Lineage
<1>5. \A fact : Honest(fact)' <=> Honest(fact)
  BY <1>1 DEF Honest
<1>6. QED
  BY <1>1, <1>2, <1>3, <1>4, <1>5

\* Where nothing is pointed at, followed or listed.
LEMMA Elsewhere ==
  ASSUME OpInv', RecordInv', op'.step \in {"idle", "listeners"} \cup ReviewSteps,
         op'.target.identity \in Ids, op'.kind # "stop"
  PROVE  StopInv' /\ ConfinedInv'
<1> USE DEF Looking, AncestrySteps, SignalSteps, VerifiedSteps, TreeSteps, RootSteps, ReviewSteps
<1>1. TargetInv' /\ WitnessInv'
  BY DEF TargetInv, WitnessInv
<1>2. ChainInv' /\ RootInv' /\ TreeInv' /\ ListInv' /\ TruthInv' /\ SweepInv' /\ ConfinedInv'
  BY DEF ChainInv, RootInv, TreeInv, ListInv, TruthInv, SweepInv, ConfinedInv
<1>3. QED
  BY <1>1, <1>2 DEF StopInv

LEMMA IdleType == NoIdentity \in Ids /\ Idle.target.identity = NoIdentity
  BY DEF NoIdentity, Ids, Idle, NoTarget, Observed

LEMMA Ends ==
  ASSUME op' = Idle, RecordInv'
  PROVE  StopInv' /\ ConfinedInv'
<1>1. OpInv'
  BY DEF OpInv, Idle
<1>2. op'.step = "idle" /\ op'.kind # "stop" /\ op'.target.identity \in Ids
  BY IdleType DEF Idle
<1>3. QED
  BY <1>1, <1>2, Elsewhere

\* An operation that nobody points at anything with begins.
LEMMA Begins ==
  ASSUME NEW step \in {"listeners"} \cup ReviewSteps, NEW kind, kind # "stop", NEW at,
         op' = [Idle EXCEPT !.step = step, !.kind = kind, !.at = at], RecordInv'
  PROVE  StopInv' /\ ConfinedInv'
<1>1. OpInv'
  BY DEF OpInv, Idle, Looking, AncestrySteps, SignalSteps, VerifiedSteps, TreeSteps, RootSteps,
         ReviewSteps
<1>2. op'.step = step /\ op'.kind # "stop" /\ op'.target.identity \in Ids
  BY IdleType DEF Idle
<1>3. QED
  BY <1>1, <1>2, Elsewhere

LEMMA BeginStatusStep ==
  ASSUME KernelInv, StopInv, BeginStatus
  PROVE  StopInv' /\ ConfinedInv'
<1>1. RecordInv'
  BY RecordStays DEF BeginStatus, StopInv, stored, memory
<1>2. OpInv' /\ op'.step = "listeners" /\ op'.kind # "stop" /\ op'.target.identity \in Ids
  BY IdleType DEF BeginStatus, OpInv, Idle, Looking, AncestrySteps, SignalSteps, VerifiedSteps,
                  TreeSteps, RootSteps, ReviewSteps
<1>3. QED
  BY <1>1, <1>2, Elsewhere

LEMMA BeginStopStep ==
  ASSUME KernelInv, StopInv, NEW process \in displayed, NEW worktree, BeginStop(process, worktree)
  PROVE  StopInv' /\ ConfinedInv'
<1> USE DEF Looking, AncestrySteps, SignalSteps, VerifiedSteps, TreeSteps, RootSteps, ReviewSteps
<1>1. RecordInv'
  BY RecordStays DEF BeginStop, StopInv, stored, memory
<1>2. process.identity \in Ids /\ Known(process.identity)'
  BY Still DEF BeginStop, StopInv, RecordInv
<1>3. OpInv' /\ op'.step = "listeners" /\ op'.kind = "stop" /\ op'.target = process
  BY DEF BeginStop, OpInv, Idle
<1>4. TargetInv' /\ WitnessInv'
  BY <1>2, <1>3 DEF TargetInv, WitnessInv
<1>5. ChainInv' /\ RootInv' /\ TreeInv' /\ ListInv' /\ TruthInv' /\ SweepInv' /\ ConfinedInv'
  BY <1>3 DEF ChainInv, RootInv, TreeInv, ListInv, TruthInv, SweepInv, ConfinedInv
<1>6. QED
  BY <1>1, <1>3, <1>4, <1>5 DEF StopInv

LEMMA ListenersStep ==
  ASSUME KernelInv, StopInv, ReadListeners
  PROVE  StopInv' /\ ConfinedInv'
<1> USE DEF Looking, AncestrySteps, SignalSteps, VerifiedSteps, TreeSteps, RootSteps, ReviewSteps
<1>1. RecordInv'
  BY RecordStays DEF ReadListeners, StopInv, stored, memory
<1>2. PICK heard : op' = [op EXCEPT !.step = "directories", !.heard = heard,
                                    !.witness = {IdentityOf(pid) : pid \in heard}]
  BY DEF ReadListeners
<1>3. /\ op.step = "listeners" /\ UNCHANGED kernel
      /\ OpInv /\ TargetInv
  BY DEF ReadListeners, StopInv
<1>4. /\ OpInv' /\ op'.step = "directories" /\ op'.kind = op.kind /\ op'.target = op.target
      /\ op'.heard = heard /\ op'.witness = {IdentityOf(pid) : pid \in heard}
  BY <1>2, <1>3 DEF OpInv
<1>5. TargetInv'
  BY <1>3, <1>4, Still DEF TargetInv
<1>6. WitnessInv'
  <2>1. Lives(op.target.identity) /\ op.target.identity.pid \in heard =>
            op.target.identity \in op'.witness
    BY <1>4 DEF Lives
  <2>2. Lives(op.target.identity)' => Lives(op.target.identity)
    BY <1>3, <1>4, Still
  <2>3. QED
    BY <1>4, <2>1, <2>2 DEF WitnessInv
<1>7. ChainInv' /\ RootInv' /\ TreeInv' /\ ListInv' /\ TruthInv' /\ SweepInv' /\ ConfinedInv'
  BY <1>4 DEF ChainInv, RootInv, TreeInv, ListInv, TruthInv, SweepInv, ConfinedInv
<1>8. QED
  BY <1>1, <1>4, <1>5, <1>6, <1>7 DEF StopInv

LEMMA DirectoriesStep ==
  ASSUME KernelInv, StopInv, ReadDirectories
  PROVE  StopInv' /\ ConfinedInv'
<1> USE DEF Looking, AncestrySteps, SignalSteps, VerifiedSteps, TreeSteps, RootSteps, ReviewSteps
<1>1. RecordInv'
  BY RecordStays DEF ReadDirectories, StopInv, stored, memory
<1>2. PICK known : /\ DOMAIN known \subseteq op.heard
                   /\ op' = [op EXCEPT !.step = "identities", !.known = known,
                         !.witness = {w \in op.witness : Lives(w) /\ w.pid \in DOMAIN known}]
  <2> DEFINE answer == [pid \in op.heard \cap DOMAIN table |-> table[pid].place]
  <2>1. DOMAIN answer \subseteq op.heard /\ DOMAIN <<>> \subseteq op.heard
    OBVIOUS
  <2>2. PICK known \in {answer, <<>>} :
            op' = [op EXCEPT !.step = "identities", !.known = known,
                         !.witness = {w \in op.witness : Lives(w) /\ w.pid \in DOMAIN known}]
    BY DEF ReadDirectories
  <2>3. QED
    BY <2>1, <2>2
<1>3. /\ op.step = "directories" /\ UNCHANGED kernel
      /\ OpInv /\ TargetInv /\ WitnessInv
  BY DEF ReadDirectories, StopInv
<1>4. /\ OpInv' /\ op'.step = "identities" /\ op'.kind = op.kind /\ op'.target = op.target
      /\ op'.known = known
      /\ op'.witness = {w \in op.witness : Lives(w) /\ w.pid \in DOMAIN known}
  BY <1>2, <1>3 DEF OpInv
<1>5. TargetInv'
  BY <1>3, <1>4, Still DEF TargetInv
<1>6. WitnessInv'
  <2>1. op.kind = "stop" /\ Lives(op.target.identity) /\ op.target.identity.pid \in DOMAIN known =>
            op.target.identity \in op'.witness
    BY <1>2, <1>3, <1>4 DEF WitnessInv
  <2>2. Lives(op.target.identity)' => Lives(op.target.identity)
    BY <1>3, <1>4, Still
  <2>3. QED
    BY <1>4, <2>1, <2>2 DEF WitnessInv
<1>7. ChainInv' /\ RootInv' /\ TreeInv' /\ ListInv' /\ TruthInv' /\ SweepInv' /\ ConfinedInv'
  BY <1>4 DEF ChainInv, RootInv, TreeInv, ListInv, TruthInv, SweepInv, ConfinedInv
<1>8. QED
  BY <1>1, <1>4, <1>5, <1>6, <1>7 DEF StopInv

\* What is displayed are processes.
LEMMA SeenKnown ==
  ASSUME KernelInv
  PROVE  \A p \in Seen : p.identity \in Ids /\ Known(p.identity) /\ Lives(p.identity)
  BY LivingKnown DEF Seen, Observed

LEMMA ShowStatusStep ==
  ASSUME KernelInv, StopInv, ShowStatus
  PROVE  StopInv' /\ ConfinedInv'
<1>1. RecordInv'
  BY SeenKnown, RecordStays DEF ShowStatus, Compose, StopInv
<1>2. QED
  BY <1>1, Ends DEF ShowStatus

\* A target that may be terminated was looked at at every look.
LEMMA PlanStep ==
  ASSUME KernelInv, StopInv, PlanStop
  PROVE  StopInv' /\ ConfinedInv'
<1> USE DEF Looking, AncestrySteps, SignalSteps, VerifiedSteps, TreeSteps, RootSteps, ReviewSteps
<1>1. RecordInv'
  BY RecordStays DEF PlanStop, StopInv, stored, memory
<1>2. CASE op' = Idle
  BY <1>1, <1>2, Ends
<1>3. CASE /\ \E current \in Seen : MayTerminate(op.target, op.worktree, current)
           /\ op' = [op EXCEPT !.step = "ancestry", !.heard = {}, !.known = <<>>,
                               !.witness = @ \cap {op.target.identity}]
  <2>1. PICK pid \in op.heard \cap DOMAIN table :
            MayTerminate(op.target, op.worktree,
                Observed(IdentityOf(pid), IF pid \in DOMAIN op.known THEN op.known[pid] ELSE NoPlace))
    BY <1>3 DEF Seen
  <2>2. IdentityOf(pid) = op.target.identity /\ pid \in DOMAIN op.known
    BY <2>1 DEF MayTerminate, Observed, Below
  <2>3. Lives(op.target.identity) /\ op.target.identity.pid \in DOMAIN op.known
    BY <2>1, <2>2, LivingKnown DEF IdentityOf
  <2>4. /\ op.step = "identities" /\ op.kind = "stop" /\ UNCHANGED kernel
        /\ OpInv /\ TargetInv /\ WitnessInv
    BY DEF PlanStop, StopInv
  <2>5. op.target.identity \in op.witness
    BY <2>3, <2>4 DEF WitnessInv
  <2>6. /\ OpInv' /\ op'.step = "ancestry" /\ op'.kind = op.kind /\ op'.target = op.target
        /\ op'.chain = <<>> /\ op'.witness = op.witness \cap {op.target.identity}
    BY <1>3, <2>4 DEF OpInv
  <2>7. TargetInv'
    BY <2>4, <2>6, Still DEF TargetInv
  <2>8. WitnessInv'
    BY <2>5, <2>6 DEF WitnessInv
  <2>9. ChainInv'
    BY <2>6 DEF ChainInv
  <2>10. RootInv' /\ TreeInv' /\ ListInv' /\ TruthInv' /\ SweepInv' /\ ConfinedInv'
    BY <2>6 DEF RootInv, TreeInv, ListInv, TruthInv, SweepInv, ConfinedInv
  <2>11. QED
    BY <1>1, <2>6, <2>7, <2>8, <2>9, <2>10 DEF StopInv
<1>4. QED
  BY <1>2, <1>3 DEF PlanStop, Fail

-----------------------------------------------------------------------------
(* The ancestors and the root.                                             *)

LEMMA LivingFact ==
  ASSUME KernelInv, NEW pid \in DOMAIN table
  PROVE  /\ FactOf(pid) \in Fact /\ FactOf(pid).pid = pid /\ FactOf(pid).start = table[pid].start
         /\ FactOf(pid).parent = table[pid].parent
         /\ AsIdentity(FactOf(pid)) = IdentityOf(pid)
         /\ Known(AsIdentity(FactOf(pid))) /\ Honest(FactOf(pid))
<1> DEFINE fact == FactOf(pid)
           start == table[pid].start
           parent == table[pid].parent
<1>1. fact = [pid |-> pid, start |-> start, parent |-> parent]
  BY DEF FactOf
<1>2. /\ pid \in Nat /\ start \in 1..Births /\ start \in Nat /\ parent \in Nat /\ Births \in Nat
      /\ parent # Launchd => /\ parent \in DOMAIN table
                             /\ table[parent].start \in born[start].ancestors
  BY Rows
<1>3. fact \in Fact /\ AsIdentity(fact) = IdentityOf(pid)
  BY <1>1, <1>2 DEF Fact, AsIdentity, IdentityOf
<1>4. Known(AsIdentity(fact))
  BY <1>3, LivingKnown
<1>5. CASE parent = Launchd
  BY <1>1, <1>3, <1>4, <1>5 DEF Honest
<1>6. CASE parent # Launchd
  <2> DEFINE s == table[parent].start
  <2>1. /\ s \in born[start].ancestors /\ born[s].pid = parent /\ s \in Nat
        /\ \A t \in s + 1..Births : born[t].pid # parent
    BY <1>2, <1>6, Rows
  <2> HIDE DEF s
  <2>2. \A t \in s + 1..start : t \in s + 1..Births
    BY <1>2, <2>1
  <2>3. Honest(fact)
    BY <1>1, <2>1, <2>2 DEF Honest
  <2>4. QED
    BY <1>1, <1>3, <1>4, <2>3
<1>7. QED
  BY <1>5, <1>6

\* A living process that has the pid of the parent and is not younger than the
\* child is the parent the child was born below.
LEMMA ParentFound ==
  ASSUME KernelInv, NEW fact \in Fact, Known(AsIdentity(fact)), Honest(fact),
         fact.parent \in DOMAIN table, table[fact.parent].start <= fact.start
  PROVE  table[fact.parent].start \in born[fact.start].ancestors
<1> DEFINE next == fact.parent
           p == table[next].start
<1>1. /\ next # Launchd /\ p \in 1..Births /\ p \in Nat /\ born[p].pid = next /\ Births \in Nat
      /\ \A t \in p + 1..Births : born[t].pid # next
  BY Rows
<1>2. fact.start \in 1..Births
  BY DEF Known, AsIdentity
<1>3. PICK s \in born[fact.start].ancestors :
          born[s].pid = next /\ \A t \in s + 1..fact.start : born[t].pid # next
  BY <1>1 DEF Honest
<1>4. s \in 1..Births /\ s \in Nat
  BY <1>1, <1>2, <1>3, Lines
<1> HIDE DEF p, next
<1>5. p <= fact.start
  BY DEF p, next
<1>6. ~(s > p)
  BY <1>1, <1>3, <1>4
<1>7. ~(p > s)
  BY <1>1, <1>2, <1>3, <1>4, <1>5
<1>8. p = s
  BY <1>1, <1>4, <1>6, <1>7
<1>9. QED
  BY <1>3, <1>8 DEF p, next

\* Born below one that was born below another one.
LEMMA BelowBelow ==
  ASSUME KernelInv, NEW id, NEW middle, NEW root, Known(id),
         BornBelow(id, middle), BornBelow(middle, root)
  PROVE  BornBelow(id, root)
<1>1. id.start \in 1..Births /\ middle.start \in Lineage(id.start)
  BY DEF Known, BornBelow
<1>2. Lineage(middle.start) \subseteq Lineage(id.start)
  BY <1>1, Lines
<1>3. QED
  BY <1>2 DEF BornBelow

LEMMA BelowItself ==
  ASSUME NEW id
  PROVE  BornBelow(id, id)
  BY DEF BornBelow, Lineage

LEMMA AncestryStep ==
  ASSUME KernelInv, StopInv, FollowAncestry
  PROVE  StopInv' /\ ConfinedInv'
<1> USE DEF Looking, AncestrySteps, SignalSteps, VerifiedSteps, TreeSteps, RootSteps, ReviewSteps
<1> DEFINE chain == op.chain
           last == chain[Len(chain)]
           next == IF chain = <<>> THEN op.target.identity.pid ELSE last.parent
<1>1. RecordInv'
  BY RecordStays DEF FollowAncestry, StopInv, stored, memory
<1>2. /\ op.step = "ancestry" /\ UNCHANGED kernel /\ OpInv /\ TargetInv /\ WitnessInv
      /\ Known(op.target.identity) /\ op.target.identity \in op.witness
  BY DEF FollowAncestry, StopInv, TargetInv, WitnessInv
<1>3. /\ chain \in Seq(Fact) /\ Len(chain) \in Nat
      /\ \A i \in 1..Len(chain) :
            /\ chain[i] \in Fact /\ Known(AsIdentity(chain[i])) /\ Honest(chain[i])
            /\ BornBelow(op.target.identity, AsIdentity(chain[i]))
  BY <1>2 DEF StopInv, ChainInv
<1>4. CASE op' = Idle
  BY <1>1, <1>4, Ends
<1>5. ASSUME /\ OpInv' /\ op'.step \in AncestrySteps /\ op'.kind = op.kind
             /\ op'.target = op.target /\ op'.witness = op.witness
             /\ op'.chain \in Seq(Fact)
             /\ \A i \in 1..Len(op'.chain) :
                   /\ Known(AsIdentity(op'.chain[i])) /\ Honest(op'.chain[i])
                   /\ BornBelow(op.target.identity, AsIdentity(op'.chain[i]))
      PROVE  StopInv' /\ ConfinedInv'
  <2>1. TargetInv'
    BY <1>2, <1>5, Still DEF TargetInv
  <2>2. WitnessInv'
    BY <1>2, <1>5 DEF WitnessInv
  <2>3. ChainInv'
    BY <1>2, <1>5, Still DEF ChainInv
  <2>4. RootInv' /\ TreeInv' /\ ListInv' /\ TruthInv' /\ SweepInv' /\ ConfinedInv'
    BY <1>5 DEF RootInv, TreeInv, ListInv, TruthInv, SweepInv, ConfinedInv
  <2>5. QED
    BY <1>1, <1>5, <2>1, <2>2, <2>3, <2>4 DEF StopInv
<1>6. CASE Goto("root")
  <2>1. /\ OpInv' /\ op'.step = "root" /\ op'.kind = op.kind /\ op'.chain = chain
        /\ op'.target = op.target /\ op'.witness = op.witness
    BY <1>2, <1>6 DEF Goto, OpInv
  <2>2. QED
    BY <1>3, <1>5, <2>1
<1>7. CASE /\ Alive(next)
           /\ IF chain = <<>> THEN IdentityOf(next) = op.target.identity
              ELSE table[next].start <= last.start
           /\ op' = [op EXCEPT !.chain = Append(@, FactOf(next))]
  <2>1. next \in DOMAIN table
    BY <1>7 DEF Alive
  <2> DEFINE fact == FactOf(next)
  <2>2. /\ fact \in Fact /\ Known(AsIdentity(fact)) /\ Honest(fact)
        /\ AsIdentity(fact) = IdentityOf(next) /\ fact.start = table[next].start
    BY <2>1, LivingFact
  <2>3. BornBelow(op.target.identity, AsIdentity(fact))
    <3>1. CASE chain = <<>>
      BY <1>7, <2>2, <3>1, BelowItself
    <3>2. CASE chain # <<>>
      <4>1. Len(chain) \in 1..Len(chain)
        BY <1>3, <3>2
      <4>2. /\ last \in Fact /\ Known(AsIdentity(last)) /\ Honest(last)
            /\ BornBelow(op.target.identity, AsIdentity(last))
        BY <1>3, <4>1
      <4>3. next = last.parent /\ table[next].start <= last.start
        BY <1>7, <3>2
      <4> HIDE DEF last, next
      <4>4. table[next].start \in born[last.start].ancestors
        BY <2>1, <4>2, <4>3, ParentFound
      <4>5. BornBelow(AsIdentity(last), AsIdentity(fact))
        BY <2>2, <4>4 DEF BornBelow, Lineage, AsIdentity
      <4>6. QED
        BY <1>2, <4>2, <4>5, BelowBelow
    <3>3. QED
      BY <3>1, <3>2
  <2>4. /\ OpInv' /\ op'.step = "ancestry" /\ op'.kind = op.kind
        /\ op'.target = op.target /\ op'.witness = op.witness
        /\ op'.chain = Append(chain, fact)
    BY <1>2, <1>7 DEF OpInv
  <2> HIDE DEF fact, next, chain
  <2>5. op'.chain \in Seq(Fact) /\ Len(op'.chain) = Len(chain) + 1
        /\ \A i \in 1..Len(op'.chain) : IF i = Len(chain) + 1 THEN op'.chain[i] = fact
                                        ELSE i \in 1..Len(chain) /\ op'.chain[i] = chain[i]
    BY <1>3, <2>2, <2>4
  <2>6. \A i \in 1..Len(op'.chain) :
                   /\ Known(AsIdentity(op'.chain[i])) /\ Honest(op'.chain[i])
                   /\ BornBelow(op.target.identity, AsIdentity(op'.chain[i]))
    BY <1>3, <2>2, <2>3, <2>5
  <2>7. QED
    BY <1>5, <2>4, <2>5, <2>6
<1>8. QED
  BY <1>4, <1>6, <1>7 DEF FollowAncestry, Fail

LEMMA RootChosen ==
  ASSUME KernelInv, StopInv, ChooseRoot
  PROVE  StopInv' /\ ConfinedInv'
<1> USE DEF Looking, AncestrySteps, SignalSteps, VerifiedSteps, TreeSteps, RootSteps, ReviewSteps
<1> DEFINE Near(records) == {r \in records : r.path = op.worktree /\ r.identity \in Ancestors}
           owner == {r.identity : r \in Near(owners)}
<1>1. RecordInv'
  BY RecordStays DEF ChooseRoot, StopInv, stored, memory
<1>2. /\ op.step = "root" /\ UNCHANGED kernel /\ UNCHANGED <<sessions, owners>>
      /\ OpInv /\ TargetInv /\ WitnessInv /\ RecordInv
      /\ Known(op.target.identity) /\ op.target.identity \in Ids
      /\ op.target.identity \in op.witness
  BY DEF ChooseRoot, StopInv, TargetInv, WitnessInv, stored
<1>3. \A id \in Ancestors : BornBelow(op.target.identity, id)
  <2>1. /\ op.chain \in Seq(Fact)
        /\ \A i \in 1..Len(op.chain) : BornBelow(op.target.identity, AsIdentity(op.chain[i]))
    BY <1>2 DEF StopInv, ChainInv
  <2>2. \A i \in 2..Len(op.chain) : i \in 1..Len(op.chain)
    BY <2>1
  <2>3. QED
    BY <2>1, <2>2 DEF Ancestors
<1>4. \A r \in Near(sessions) \cup Near(owners) :
          /\ r.identity \in Ids /\ Known(r.identity) /\ BornBelow(op.target.identity, r.identity)
          /\ [identity |-> r.identity, path |-> op.worktree] \in sessions \cup owners
  <2>1. \A r \in Near(sessions) \cup Near(owners) :
            r \in Records /\ Known(r.identity) /\ r.path = op.worktree /\ r.identity \in Ancestors
            /\ r \in sessions \cup owners
    BY <1>2 DEF RecordInv
  <2>2. \A r \in Records : r.identity \in Ids /\ r = [identity |-> r.identity, path |-> r.path]
    BY DEF Records
  <2> HIDE DEF Near
  <2>3. QED
    BY <1>3, <2>1, <2>2
<1> HIDE DEF Near
<1>5. ASSUME NEW step \in {"targets", "listing"}, NEW root, NEW session,
             op' = [op EXCEPT !.step = step, !.root = root, !.session = session],
             root \in Ids, Known(root), BornBelow(op.target.identity, root),
             \/ root = op.target.identity
             \/ [identity |-> root, path |-> op.worktree] \in sessions \cup owners
      PROVE  StopInv' /\ ConfinedInv'
  <2>1. /\ OpInv' /\ op'.step = step /\ op'.kind = op.kind /\ op'.target = op.target
        /\ op'.witness = op.witness /\ op'.root = root /\ op'.worktree = op.worktree
    BY <1>2, <1>5 DEF OpInv
  <2>2. TargetInv' /\ WitnessInv'
    BY <1>2, <2>1, Still DEF TargetInv, WitnessInv
  <2>3. RootInv'
    BY <1>2, <1>5, <2>1, Still DEF RootInv
  <2>4. ChainInv' /\ TreeInv' /\ ListInv' /\ TruthInv' /\ SweepInv' /\ ConfinedInv'
    BY <2>1 DEF ChainInv, TreeInv, ListInv, TruthInv, SweepInv, ConfinedInv
  <2>5. QED
    BY <1>1, <2>1, <2>2, <2>3, <2>4 DEF StopInv
<1>6. ASSUME NEW s \in Near(sessions),
             op' = [op EXCEPT !.step = "targets", !.root = s.identity, !.session = TRUE]
      PROVE  StopInv' /\ ConfinedInv'
  BY <1>4, <1>5, <1>6
<1>7. CASE /\ Cardinality(owner) = 1
           /\ op' = [op EXCEPT !.step = "listing", !.root = CHOOSE o \in owner : TRUE]
  <2>1. owner # {}
    BY <1>7, FS_EmptySet
  <2>2. PICK r \in Near(owners) : (CHOOSE o \in owner : TRUE) = r.identity
    BY <2>1
  <2>3. op' = [op EXCEPT !.step = "listing", !.root = r.identity, !.session = op.session]
    BY <1>2, <1>7, <2>2 DEF OpInv
  <2>4. QED
    BY <1>4, <1>5, <2>3
<1>8. CASE op' = [op EXCEPT !.step = "listing", !.root = op.target.identity]
  <2>1. op' = [op EXCEPT !.step = "listing", !.root = op.target.identity, !.session = op.session]
    BY <1>2, <1>8 DEF OpInv
  <2>2. QED
    BY <1>2, <1>5, <2>1, BelowItself
<1>9. CASE op' = Idle
  BY <1>1, <1>9, Ends
<1>10. QED
  BY <1>6, <1>7, <1>8, <1>9 DEF ChooseRoot, Fail, Near

\* A session whose tree is looked at, and validated.
LEMMA SessionStep ==
  ASSUME KernelInv, StopInv, ReadTargets \/ ValidateSession
  PROVE  StopInv' /\ ConfinedInv'
<1> USE DEF Looking, AncestrySteps, SignalSteps, VerifiedSteps, TreeSteps, RootSteps, ReviewSteps
<1>1. RecordInv'
  <2>1. CASE UNCHANGED <<promised, sessions>>
    BY <2>1, RecordStays DEF ReadTargets, ValidateSession, StopInv, stored, memory
  <2>2. CASE /\ ValidateSession /\ ~Lives(op.root) /\ promised' = promised \cup {op.root}
             /\ sessions' \subseteq sessions
    <3>1. op.root \in Ids /\ Known(op.root) /\ RecordInv
      BY <2>2 DEF ValidateSession, StopInv, RootInv
    <3>2. UNCHANGED <<kernel, owners, displayed>>
      BY <2>2 DEF ValidateSession, memory
    <3>3. QED
      BY <2>2, <3>1, <3>2, RecordStays
  <2>3. QED
    BY <2>1, <2>2 DEF ReadTargets, ValidateSession, stored
<1>2. CASE op' = Idle
  BY <1>1, <1>2, Ends
<1>3. ASSUME NEW step \in {"validate", "listing"}, op' = [op EXCEPT !.step = step, !.signal = NoIdentity],
             op.step \in {"targets", "validate"}, UNCHANGED <<kernel, sessions, owners>>
      PROVE  StopInv' /\ ConfinedInv'
  <2>1. OpInv /\ TargetInv /\ WitnessInv /\ RootInv
    BY DEF StopInv
  <2>2. /\ OpInv' /\ op'.step = step /\ op'.kind = op.kind /\ op'.target = op.target
        /\ op'.witness = op.witness /\ op'.root = op.root /\ op'.worktree = op.worktree
    BY <1>3, <2>1 DEF OpInv
  <2>3. TargetInv' /\ WitnessInv'
    BY <1>3, <2>1, <2>2, Still DEF TargetInv, WitnessInv
  <2>4. RootInv'
    BY <1>3, <2>1, <2>2, Still DEF RootInv
  <2>5. ChainInv' /\ TreeInv' /\ ListInv' /\ TruthInv' /\ SweepInv' /\ ConfinedInv'
    BY <2>2 DEF ChainInv, TreeInv, ListInv, TruthInv, SweepInv, ConfinedInv
  <2>6. QED
    BY <1>1, <2>2, <2>3, <2>4, <2>5 DEF StopInv
<1>4. QED
  BY <1>2, <1>3 DEF ReadTargets, ValidateSession, Goto, Fail, stored

\* The processes below the root are in every set of listed pids that has the
\* root's and is closed under the parents of the listing.
LEMMA ListStep ==
  ASSUME KernelInv, StopInv, ListProcesses
  PROVE  StopInv' /\ ConfinedInv'
<1> USE DEF Looking, AncestrySteps, SignalSteps, VerifiedSteps, TreeSteps, RootSteps, ReviewSteps
<1> DEFINE truth == IF Lives(op.root) THEN SubtreeOf(op.root.pid) ELSE {}
           parents == [pid \in DOMAIN table |-> table[pid].parent]
<1>1. RecordInv'
  BY RecordStays DEF ListProcesses, StopInv, stored, memory
<1>2. /\ op.step = "listing" /\ UNCHANGED <<kernel, sessions, owners>>
      /\ OpInv /\ TargetInv /\ WitnessInv /\ RootInv
  BY DEF ListProcesses, StopInv, stored
<1>3. op' = [op EXCEPT !.step = "facts", !.chain = <<>>, !.parents = parents, !.births = Births,
                       !.truth = truth]
  BY DEF ListProcesses
<1> HIDE DEF truth, parents
<1>4. /\ OpInv' /\ op'.step = "facts" /\ op'.kind = op.kind /\ op'.target = op.target
      /\ op'.witness = op.witness /\ op'.root = op.root /\ op'.worktree = op.worktree
      /\ op'.tree = <<>> /\ op'.parents = parents /\ op'.births = Births /\ op'.truth = truth
      /\ op'.signal = NoIdentity
  BY <1>2, <1>3 DEF OpInv
<1>5. TargetInv' /\ WitnessInv'
  BY <1>2, <1>4, Still DEF TargetInv, WitnessInv
<1>6. RootInv'
  BY <1>2, <1>4, Still DEF RootInv
<1>7. TreeInv'
  <2>1. Births \in Nat
    BY DEF KernelInv, LineageSound, Births
  <2>2. Births' = Births
    BY <1>2, Still
  <2>3. QED
    BY <1>4, <2>1, <2>2 DEF TreeInv
<1>8. ListInv'
  <2>1. DOMAIN parents = DOMAIN table /\ DOMAIN table \subseteq Nat
    BY PidsType DEF parents, KernelInv, TableSound
  <2>2. Lives(op.root)' => op.root.pid \in DOMAIN table
    BY <1>2, <1>4, Still DEF Lives, Alive
  <2>3. QED
    BY <1>4, <2>1, <2>2 DEF ListInv
<1>9. TruthInv'
  <2>1. ASSUME NEW t \in truth
        PROVE  /\ t \in Ids /\ Known(t) /\ t.start <= Births
               /\ \A pids \in SUBSET DOMAIN parents :
                     op.root.pid \in pids /\ (\A pid \in DOMAIN parents : parents[pid] \in pids => pid \in pids)
                         => t.pid \in pids
    <3>1. t \in SubtreeOf(op.root.pid)
      BY <2>1 DEF truth
    <3>2. PICK pid \in DOMAIN table :
              /\ t = IdentityOf(pid)
              /\ \A pids \in SUBSET DOMAIN table :
                    op.root.pid \in pids /\ (\A p \in DOMAIN table : table[p].parent \in pids => p \in pids)
                        => pid \in pids
      BY <3>1 DEF SubtreeOf
    <3>3. t \in Ids /\ Known(t) /\ t.pid = pid
      BY <3>2, LivingKnown DEF IdentityOf
    <3>4. t.start <= Births
      <4>1. t.start \in 1..Births /\ Births \in Nat
        BY <3>3 DEF Known, KernelInv, LineageSound, Births
      <4>2. QED
        BY <4>1
    <3>5. DOMAIN parents = DOMAIN table /\ \A p \in DOMAIN table : parents[p] = table[p].parent
      BY DEF parents
    <3>6. QED
      BY <3>2, <3>3, <3>4, <3>5
  <2>2. \A t : Known(t)' <=> Known(t)
    BY <1>2, Still
  <2>3. QED
    BY <1>4, <2>1, <2>2 DEF TruthInv, Closed
<1>10. ChainInv' /\ SweepInv' /\ ConfinedInv'
  BY <1>4 DEF ChainInv, SweepInv, ConfinedInv
<1>11. QED
  BY <1>1, <1>4, <1>5, <1>6, <1>7, <1>8, <1>9, <1>10 DEF StopInv

-----------------------------------------------------------------------------
(* The tree is verified.                                                   *)

\* Breadth first and by pid: there is a first one.
LEMMA FirstOne ==
  ASSUME NEW S \in SUBSET Nat, S # {}, NEW place \in [S -> Nat]
  PROVE  \E p \in S : \A o \in S : place[p] < place[o] \/ (place[p] = place[o] /\ p <= o)
<1> DEFINE places == {place[p] : p \in S}
<1>1. PICK q \in S : TRUE
  OBVIOUS
<1>2. places \in SUBSET Nat /\ place[q] \in places
  OBVIOUS
<1> HIDE DEF places
<1>3. PICK k \in places : \A l \in places : k <= l
  BY <1>2, LeastExists
<1> DEFINE those == {p \in S : place[p] = k}
<1>4. PICK r \in S : place[r] = k
  BY <1>3 DEF places
<1>5. those \in SUBSET Nat /\ r \in those
  BY <1>4
<1> HIDE DEF those
<1>6. PICK p \in those : \A o \in those : p <= o
  BY <1>5, LeastExists
<1>7. \A o \in S : place[o] \in places /\ place[o] \in Nat
  BY DEF places
<1>8. p \in S /\ place[p] = k
  BY <1>6 DEF those
<1>9. ASSUME NEW o \in S
      PROVE  place[p] < place[o] \/ (place[p] = place[o] /\ p <= o)
  <2>1. k <= place[o] /\ k \in Nat /\ place[o] \in Nat
    BY <1>3, <1>7, <1>8
  <2>2. place[o] = k => p <= o
    BY <1>6 DEF those
  <2>3. QED
    BY <1>8, <2>1, <2>2
<1>10. QED
  BY <1>8, <1>9

\* With what a step of verify_tree keeps.
LEMMA TreeKept ==
  ASSUME KernelInv, StopInv, op.step \in TreeSteps, UNCHANGED <<kernel, sessions, owners>>,
         RecordInv',
         OpInv', op'.step \in TreeSteps, op'.kind = op.kind, op'.target = op.target,
         op'.witness = op.witness, op'.root = op.root, op'.worktree = op.worktree,
         TreeInv', ListInv', TruthInv', SweepInv'
  PROVE  StopInv'
<1> USE DEF Looking, AncestrySteps, SignalSteps, VerifiedSteps, TreeSteps, RootSteps, ReviewSteps
<1>1. TargetInv /\ WitnessInv /\ RootInv
  BY DEF StopInv
<1>2. TargetInv' /\ WitnessInv'
  BY <1>1, Still DEF TargetInv, WitnessInv
<1>3. RootInv'
  BY <1>1, Still DEF RootInv
<1>4. ChainInv'
  BY DEF ChainInv
<1>5. QED
  BY <1>2, <1>3, <1>4 DEF StopInv

\* A process is taken into the tree, or its root is.
LEMMA TreeGrows ==
  ASSUME KernelInv, StopInv, op.step = "facts", UNCHANGED <<kernel, sessions, owners>>, RecordInv',
         NEW pid \in DOMAIN table, pid \in DOMAIN op.parents,
         op.tree = <<>> => IdentityOf(pid) = op.root,
         op' = [op EXCEPT !.tree = Append(op.tree, FactOf(pid))]
  PROVE  /\ StopInv'
         /\ ConfinedInv /\ BornBelow(IdentityOf(pid), op.root) => ConfinedInv'
<1> USE DEF Looking, AncestrySteps, SignalSteps, VerifiedSteps, TreeSteps, RootSteps, ReviewSteps
<1> DEFINE tree == op.tree
           fact == FactOf(pid)
<1>1. OpInv /\ TreeInv /\ ListInv /\ TruthInv
  BY DEF StopInv
<1>2. /\ OpInv' /\ op'.step = "facts" /\ op'.kind = op.kind /\ op'.target = op.target
      /\ op'.witness = op.witness /\ op'.root = op.root /\ op'.worktree = op.worktree
      /\ op'.tree = Append(tree, fact) /\ op'.parents = op.parents /\ op'.births = op.births
      /\ op'.truth = op.truth /\ op'.signal = op.signal
  BY <1>1 DEF OpInv
<1>3. /\ fact \in Fact /\ Known(AsIdentity(fact)) /\ AsIdentity(fact) = IdentityOf(pid)
      /\ fact.pid = pid /\ fact.start = table[pid].start
  BY LivingFact
<1>4. tree \in Seq(Fact) /\ Len(tree) \in Nat /\ op.births \in 0..Births /\ Births \in Nat
  BY <1>1 DEF TreeInv, KernelInv, LineageSound, Births
<1> HIDE DEF tree, fact
<1>5. /\ op'.tree \in Seq(Fact) /\ op'.tree # <<>> /\ Len(op'.tree) = Len(tree) + 1
      /\ op'.tree[1] = IF tree = <<>> THEN fact ELSE tree[1]
      /\ \A i \in 1..Len(op'.tree) : IF i = Len(tree) + 1 THEN op'.tree[i] = fact
                                     ELSE i \in 1..Len(tree) /\ op'.tree[i] = tree[i]
  <2> DEFINE grown == Append(tree, fact)
  <2>1. grown \in Seq(Fact) /\ Len(grown) = Len(tree) + 1 /\ grown # <<>>
    BY <1>3, <1>4
  <2>2. \A i \in 1..Len(tree) + 1 : IF i = Len(tree) + 1 THEN grown[i] = fact
                                    ELSE i \in 1..Len(tree) /\ grown[i] = tree[i]
    BY <1>3, <1>4
  <2>3. grown[1] = IF tree = <<>> THEN fact ELSE tree[1]
    BY <1>3, <1>4
  <2> HIDE DEF grown
  <2>4. QED
    BY <1>2, <2>1, <2>2, <2>3 DEF grown
<1>6. \A s \in fact.start + 1..op.births : born[s].pid # fact.pid
  <2>1. /\ table[pid].start \in 1..Births
        /\ \A s \in table[pid].start + 1..Births : born[s].pid # pid
    BY Rows
  <2>2. \A s \in fact.start + 1..op.births : s \in table[pid].start + 1..Births
    BY <1>3, <1>4, <2>1
  <2>3. QED
    BY <1>3, <2>1, <2>2
<1>7. TreeInv'
  <2>1. op.births \in 0..Births' /\ born' = born /\ \A id : Known(id)' <=> Known(id)
    BY <1>4, Still
  <2>2. AsIdentity(op'.tree[1]) = op.root
    BY <1>1, <1>3, <1>5 DEF TreeInv, tree
  <2>3. ASSUME NEW i \in 1..Len(op'.tree)
        PROVE  /\ Known(AsIdentity(op'.tree[i]))
               /\ \A s \in op'.tree[i].start + 1..op.births : born[s].pid # op'.tree[i].pid
    <3>1. CASE i = Len(tree) + 1
      BY <1>3, <1>5, <1>6, <3>1
    <3>2. CASE i # Len(tree) + 1
      BY <1>1, <1>5, <3>2 DEF TreeInv, tree
    <3>3. QED
      BY <3>1, <3>2
  <2>4. QED
    BY <1>2, <1>5, <2>1, <2>2, <2>3 DEF TreeInv
<1>8. ListInv'
  <2>1. \A id : Lives(id)' <=> Lives(id)
    BY Still
  <2>2. \A i \in 1..Len(op'.tree) : op'.tree[i].pid \in DOMAIN op.parents
    BY <1>1, <1>3, <1>5 DEF ListInv, tree
  <2>3. QED
    BY <1>1, <1>2, <2>1, <2>2 DEF ListInv
<1>9. TruthInv'
  <2>1. \A id : Known(id)' <=> Known(id)
    BY Still
  <2>2. QED
    BY <1>1, <1>2, <2>1 DEF TruthInv, Closed
<1>10. SweepInv'
  BY <1>2 DEF SweepInv
<1>11. StopInv'
  BY <1>2, <1>7, <1>8, <1>9, <1>10, TreeKept
<1>12. ASSUME ConfinedInv, BornBelow(IdentityOf(pid), op.root)
       PROVE  ConfinedInv'
  <2>1. \A i \in 1..Len(op'.tree) : BornBelow(AsIdentity(op'.tree[i]), op.root)
    BY <1>3, <1>5, <1>12 DEF ConfinedInv, tree
  <2>2. op.signal = NoIdentity
    BY <1>1 DEF OpInv
  <2>3. QED
    BY <1>2, <2>1, <2>2, Still DEF ConfinedInv
<1>13. QED
  BY <1>11, <1>12

\* A pid listed below a verified one, that still is the child of that pid, is a
\* process born below it, unless both pids have been handed out anew.
LEMMA ChildFound ==
  ASSUME KernelInv, StopInv, ConfinedInv, OneHandover, op.step = "facts",
         NEW i \in 1..Len(op.tree), NEW pid \in DOMAIN table, pid \in DOMAIN op.parents,
         table[pid].parent = op.tree[i].pid, table[pid].start >= op.tree[i].start
  PROVE  BornBelow(IdentityOf(pid), op.root)
<1> USE DEF SignalSteps, VerifiedSteps, TreeSteps
<1> DEFINE parent == op.tree[i]
<1>1. /\ op.tree \in Seq(Fact) /\ op.births \in 0..Births /\ Known(AsIdentity(parent))
      /\ \A s \in parent.start + 1..op.births : born[s].pid # parent.pid
      /\ parent.pid \in DOMAIN op.parents
  BY DEF StopInv, TreeInv, ListInv
<1>2. /\ parent \in Fact /\ parent.start \in 1..Births /\ born[parent.start].pid = parent.pid
      /\ BornBelow(AsIdentity(parent), op.root)
  BY <1>1 DEF Known, AsIdentity, ConfinedInv
<1> HIDE DEF parent
<1>3. parent.pid # Launchd
  <2>1. born[parent.start].pid \in Pids
    BY <1>2, Lines
  <2>2. QED
    BY <1>2, <2>1, PidsType
<1>4. /\ parent.pid \in DOMAIN table /\ Births \in Nat
      /\ table[parent.pid].start \in born[table[pid].start].ancestors
      /\ table[pid].start \in 1..Births /\ born[table[pid].start].pid = pid
  BY <1>3, Rows DEF parent
<1> DEFINE q == table[parent.pid].start
<1>5. q \in 1..Births /\ born[q].pid = parent.pid /\ \A s \in q + 1..Births : born[s].pid # parent.pid
  BY <1>4, Rows
<1>6. q <= table[pid].start - 1
  <2>1. born[table[pid].start].ancestors \subseteq 1..table[pid].start - 1
    BY <1>4, Lines
  <2>2. QED
    BY <1>4, <2>1
<1>7. BornBelow(IdentityOf(pid), [pid |-> parent.pid, start |-> q])
  BY <1>4 DEF BornBelow, Lineage, IdentityOf
<1> HIDE DEF q
<1>8. parent.start <= q
  BY <1>2, <1>4, <1>5
<1>9. CASE q = parent.start
  <2>1. BornBelow(IdentityOf(pid), AsIdentity(parent))
    BY <1>7, <1>9 DEF AsIdentity
  <2>2. Known(IdentityOf(pid))
    BY LivingKnown
  <2>3. QED
    BY <1>2, <2>1, <2>2, BelowBelow
<1>10. CASE q # parent.start
  <2>1. q > op.births
    BY <1>1, <1>2, <1>4, <1>5, <1>8, <1>10
  <2>2. q \in op.births + 1..Births /\ table[pid].start \in op.births + 1..Births
    BY <1>1, <1>4, <1>5, <1>6, <2>1
  <2>3. {born[q].pid, born[table[pid].start].pid} \subseteq DOMAIN op.parents
    BY <1>1, <1>4, <1>5
  <2>4. q = table[pid].start
    BY <2>2, <2>3 DEF OneHandover
  <2>5. QED
    BY <1>4, <1>5, <1>6, <2>4
<1>11. QED
  BY <1>9, <1>10

\* When no listed child is left, whoever was below the root is in the tree.
LEMMA TreeWhole ==
  ASSUME KernelInv, StopInv, op.step = "facts", op.tree # <<>>, Unverified = {},
         NEW t \in op.truth, Lives(t)
  PROVE  \E i \in 1..Len(op.tree) : AsIdentity(op.tree[i]) = t
<1> USE DEF SignalSteps, VerifiedSteps, TreeSteps
<1> DEFINE pids == {op.tree[i].pid : i \in 1..Len(op.tree)}
<1>1. /\ op.tree \in Seq(Fact) /\ Len(op.tree) \in Nat /\ op.births \in 0..Births
      /\ AsIdentity(op.tree[1]) = op.root /\ DOMAIN op.tree = 1..Len(op.tree)
      /\ \A i \in 1..Len(op.tree) :
            /\ Known(AsIdentity(op.tree[i])) /\ op.tree[i].pid \in DOMAIN op.parents
            /\ \A s \in op.tree[i].start + 1..op.births : born[s].pid # op.tree[i].pid
  BY DEF StopInv, TreeInv, ListInv
<1>2. /\ t \in Ids /\ Known(t) /\ t.start <= op.births
      /\ \A set \in SUBSET DOMAIN op.parents : op.root.pid \in set /\ Closed(set) => t.pid \in set
  BY DEF StopInv, TruthInv
<1>3. pids \in SUBSET DOMAIN op.parents
  BY <1>1
<1>4. op.root.pid \in pids
  <2>1. 1 \in 1..Len(op.tree)
    BY <1>1
  <2>2. op.tree[1].pid = op.root.pid
    BY <1>1 DEF AsIdentity
  <2>3. QED
    BY <2>1, <2>2
<1>5. Closed(pids)
  BY <1>1 DEF Closed, Unverified
<1>6. t.pid \in pids
  <2> HIDE DEF pids
  <2>1. QED
    BY <1>2, <1>3, <1>4, <1>5
<1>7. PICK i \in 1..Len(op.tree) : op.tree[i].pid = t.pid
  BY <1>6
<1>8. /\ op.tree[i].start \in 1..Births /\ born[op.tree[i].start].pid = t.pid
      /\ op.tree[i] \in Fact
      /\ \A s \in op.tree[i].start + 1..op.births : born[s].pid # t.pid
  BY <1>1, <1>7 DEF Known, AsIdentity
<1>9. /\ t.pid \in DOMAIN table /\ table[t.pid].start = t.start
  BY DEF Lives, Alive, IdentityOf
<1>10. /\ t.start \in 1..Births /\ born[t.start].pid = t.pid /\ Births \in Nat
       /\ \A s \in t.start + 1..Births : born[s].pid # t.pid
  BY <1>9, Rows
<1>11. op.tree[i].start <= t.start
  BY <1>8, <1>10
<1>12. t.start <= op.tree[i].start
  BY <1>1, <1>2, <1>8, <1>10
<1>13. op.tree[i].start = t.start
  BY <1>8, <1>10, <1>11, <1>12
<1>14. QED
  BY <1>2, <1>7, <1>13 DEF AsIdentity, Ids

LEMMA VerifyStep ==
  ASSUME KernelInv, StopInv, VerifyTree
  PROVE  StopInv' /\ (ConfinedInv /\ OneHandover => ConfinedInv')
<1> USE DEF Looking, AncestrySteps, SignalSteps, VerifiedSteps, TreeSteps, RootSteps, ReviewSteps
<1> DEFINE Place(pid) == PositionOf(op.parents[pid], [i \in DOMAIN op.tree |-> op.tree[i].pid])
           next == CHOOSE pid \in Unverified : \A other \in Unverified :
                       \/ Place(pid) < Place(other)
                       \/ Place(pid) = Place(other) /\ pid <= other
<1>1. RecordInv'
  BY RecordStays DEF VerifyTree, StopInv, stored, memory
<1>2. op.step = "facts" /\ UNCHANGED <<kernel, sessions, owners>>
      /\ OpInv /\ RootInv /\ TreeInv /\ ListInv /\ TruthInv
  BY DEF VerifyTree, StopInv, stored
<1>3. CASE op' = Idle
  BY <1>1, <1>3, Ends
<1>4. CASE op.tree = <<>> /\ Lives(op.root) /\ op' = [op EXCEPT !.tree = <<FactOf(op.root.pid)>>]
  <2> DEFINE pid == op.root.pid
  <2>1. pid \in DOMAIN table /\ IdentityOf(pid) = op.root
    BY <1>4 DEF Lives, Alive
  <2>2. pid \in DOMAIN op.parents
    BY <1>2, <1>4 DEF ListInv
  <2>3. <<FactOf(pid)>> = Append(op.tree, FactOf(pid))
    BY <1>4
  <2>4. BornBelow(IdentityOf(pid), op.root)
    BY <2>1, BelowItself
  <2> HIDE DEF pid
  <2>5. op' = [op EXCEPT !.tree = Append(op.tree, FactOf(pid))]
    BY <1>4, <2>3 DEF pid
  <2>6. PICK p \in DOMAIN table : p = pid
    BY <2>1
  <2>7. QED
    BY <1>1, <1>2, <2>1, <2>2, <2>4, <2>5, <2>6, TreeGrows
<1>5. CASE /\ op.tree # <<>> /\ Unverified = {}
           /\ op' = [op EXCEPT !.step = "signal", !.parents = <<>>]
  <2>1. /\ OpInv' /\ op'.step = "signal" /\ op'.kind = op.kind /\ op'.target = op.target
        /\ op'.witness = op.witness /\ op'.root = op.root /\ op'.worktree = op.worktree
        /\ op'.tree = op.tree /\ op'.births = op.births
        /\ op'.truth = op.truth /\ op'.signal = op.signal
    BY <1>2, <1>5 DEF OpInv
  <2>2. TreeInv'
    BY <1>2, <1>5, <2>1, Still DEF TreeInv
  <2>3. ListInv' /\ SweepInv'
    BY <2>1 DEF ListInv, SweepInv
  <2>4. TruthInv'
    <3>1. \A t \in op.truth : Lives(t) => \E i \in 1..Len(op.tree) : AsIdentity(op.tree[i]) = t
      BY <1>2, <1>5, TreeWhole
    <3>2. \A id : (Known(id)' <=> Known(id)) /\ (Lives(id)' <=> Lives(id))
      BY <1>2, Still
    <3>3. QED
      BY <1>2, <2>1, <3>1, <3>2 DEF TruthInv
  <2>5. StopInv'
    BY <1>1, <1>2, <2>1, <2>2, <2>3, <2>4, TreeKept
  <2>6. ConfinedInv => ConfinedInv'
    BY <1>2, <2>1, Still DEF ConfinedInv
  <2>7. QED
    BY <2>5, <2>6
<1>6. CASE /\ op.tree # <<>> /\ Unverified # {}
           /\ StillChild(next, op.tree[Place(next)])
           /\ op' = [op EXCEPT !.tree = Append(@, FactOf(next))]
  <2> DEFINE pids == [i \in DOMAIN op.tree |-> op.tree[i].pid]
  <2>1. op.tree \in Seq(Fact) /\ DOMAIN op.tree = 1..Len(op.tree) /\ Len(op.tree) \in Nat
        /\ \A i \in 1..Len(op.tree) : op.tree[i].pid \in Nat
    <3>1. op.tree \in Seq(Fact)
      BY <1>2 DEF TreeInv
    <3>2. \A i \in 1..Len(op.tree) : op.tree[i] \in Fact
      BY <3>1
    <3>3. QED
      BY <3>1, <3>2 DEF Fact
  <2>2. pids \in Seq(Nat) /\ Len(pids) = Len(op.tree) /\ DOMAIN pids = 1..Len(op.tree)
        /\ \A i \in 1..Len(op.tree) : pids[i] = op.tree[i].pid
    BY <2>1
  <2> HIDE DEF pids
  <2>3. \A pid : Place(pid) \in Nat
    BY <2>2, Position DEF pids
  <2>4. Unverified \in SUBSET Nat
    BY <1>2 DEF Unverified, ListInv
  <2> DEFINE place == [pid \in Unverified |-> Place(pid)]
  <2>5. place \in [Unverified -> Nat]
    BY <2>3
  <2>6. \E p \in Unverified : \A o \in Unverified : place[p] < place[o] \/ (place[p] = place[o] /\ p <= o)
    <3> HIDE DEF place
    <3>1. QED
      BY <1>6, <2>4, <2>5, FirstOne
  <2> HIDE DEF Place
  <2>7. next \in Unverified
    BY <2>6
  <2>8. PICK pid : pid = next
    OBVIOUS
  <2>9. op.parents[pid] \in Range(pids) /\ pid \in DOMAIN op.parents
    BY <2>2, <2>1, <2>7, <2>8 DEF Unverified, Range
  <2>10. Place(pid) \in 1..Len(op.tree)
    BY <2>2, <2>9, Position DEF Place, pids
  <2>11. PICK i \in 1..Len(op.tree) : i = Place(pid)
    BY <2>10
  <2>12. /\ pid \in DOMAIN table /\ table[pid].parent = op.tree[i].pid
         /\ table[pid].start >= op.tree[i].start
         /\ op' = [op EXCEPT !.tree = Append(op.tree, FactOf(pid))]
    <3> HIDE DEF next
    <3>1. StillChild(pid, op.tree[i]) /\ op' = [op EXCEPT !.tree = Append(@, FactOf(pid))]
      BY <1>6, <2>8, <2>11
    <3>2. QED
      BY <3>1 DEF StillChild, Alive
  <2>13. ConfinedInv /\ OneHandover => BornBelow(IdentityOf(pid), op.root)
    BY <1>2, <2>9, <2>12, ChildFound
  <2>14. QED
    BY <1>1, <1>2, <1>6, <2>9, <2>12, <2>13, TreeGrows
<1>7. QED
  BY <1>3, <1>4, <1>5, <1>6 DEF VerifyTree, Fail

-----------------------------------------------------------------------------
(* The signals and the report.                                             *)

\* With a tree that is verified.
LEMMA VerifiedKept ==
  ASSUME KernelInv, StopInv, op.step \in VerifiedSteps, UNCHANGED <<kernel, sessions, owners>>,
         RecordInv', OpInv', op'.step \in VerifiedSteps, op'.kind = op.kind, op'.target = op.target,
         op'.witness = op.witness, op'.root = op.root, op'.worktree = op.worktree,
         op'.tree = op.tree, op'.births = op.births, op'.truth = op.truth, SweepInv'
  PROVE  /\ StopInv'
         /\ ConfinedInv /\ (op'.signal # NoIdentity =>
                                Known(op'.signal) /\ BornBelow(op'.signal, op.root))
                => ConfinedInv'
<1> USE DEF SignalSteps, VerifiedSteps, TreeSteps
<1>1. TreeInv /\ TruthInv
  BY DEF StopInv
<1>2. TreeInv'
  BY <1>1, Still DEF TreeInv
<1>3. ListInv'
  BY DEF ListInv
<1>4. TruthInv'
  <2>1. \A id : (Known(id)' <=> Known(id)) /\ (Lives(id)' <=> Lives(id))
    BY Still
  <2>2. QED
    BY <1>1, <2>1 DEF TruthInv
<1>5. StopInv'
  BY <1>2, <1>3, <1>4, TreeKept
<1>6. ASSUME ConfinedInv, op'.signal # NoIdentity =>
                              Known(op'.signal) /\ BornBelow(op'.signal, op.root)
      PROVE  ConfinedInv'
  <2>1. \A i \in 1..Len(op.tree) : BornBelow(AsIdentity(op.tree[i]), op.root)
    BY <1>6 DEF ConfinedInv
  <2>2. \A id, root : (Known(id)' <=> Known(id)) /\ (BornBelow(id, root)' <=> BornBelow(id, root))
    BY Still
  <2>3. QED
    BY <1>6, <2>1, <2>2 DEF ConfinedInv
<1>7. QED
  BY <1>5, <1>6

LEMMA SignalStep ==
  ASSUME KernelInv, StopInv, SignalRoot \/ AwaitSupervisor
  PROVE  StopInv' /\ (ConfinedInv => ConfinedInv')
<1> USE DEF Looking, AncestrySteps, SignalSteps, VerifiedSteps, TreeSteps, RootSteps, ReviewSteps
<1>1. RecordInv'
  BY RecordStays DEF SignalRoot, AwaitSupervisor, StopInv, stored, memory
<1>2. op.step \in {"signal", "supervisor"} /\ UNCHANGED <<kernel, sessions, owners>>
      /\ OpInv /\ RootInv
  BY DEF SignalRoot, AwaitSupervisor, StopInv, stored
<1>3. CASE op' = Idle
  BY <1>1, <1>3, Ends
<1>4. ASSUME NEW step \in {"supervisor", "wait"}, NEW signal \in {op.root, NoIdentity},
             op' = [op EXCEPT !.step = step, !.signal = signal]
      PROVE  StopInv' /\ (ConfinedInv => ConfinedInv')
  <2>1. /\ OpInv' /\ op'.step = step /\ op'.kind = op.kind /\ op'.target = op.target
        /\ op'.witness = op.witness /\ op'.root = op.root /\ op'.worktree = op.worktree
        /\ op'.tree = op.tree /\ op'.births = op.births /\ op'.truth = op.truth
        /\ op'.signal = signal
    BY <1>2, <1>4 DEF OpInv
  <2>2. SweepInv'
    BY <2>1 DEF SweepInv
  <2>3. Known(op.root) /\ BornBelow(op.root, op.root)
    BY <1>2, BelowItself DEF RootInv
  <2>4. op'.signal # NoIdentity => Known(op'.signal) /\ BornBelow(op'.signal, op.root)
    BY <2>1, <2>3
  <2>5. QED
    BY <1>1, <1>2, <2>1, <2>2, <2>4, VerifiedKept
<1>5. CASE SignalRoot
  BY <1>3, <1>4, <1>5 DEF SignalRoot, Fail
<1>6. CASE AwaitSupervisor
  BY <1>3, <1>4, <1>6 DEF AwaitSupervisor, Goto, Fail
<1>7. QED
  BY <1>5, <1>6

\* Whoever was below the root has ended when the tree has.
LEMMA ReportStep ==
  ASSUME KernelInv, StopInv, op.step \in SignalSteps, Ended, ReportStopped
  PROVE  StopInv' /\ ConfinedInv'
<1> USE DEF SignalSteps, VerifiedSteps, TreeSteps
<1>1. TruthInv /\ TreeInv
  BY DEF StopInv
<1>2. \A i \in 1..Len(op.tree) : ~Lives(AsIdentity(op.tree[i]))
  BY <1>1 DEF Ended, TreeInv
<1>3. \A t \in op.truth : t \in Ids /\ Known(t) /\ ~Lives(t)
  BY <1>1, <1>2 DEF TruthInv
<1>4. RecordInv'
  <2>1. sessions' \subseteq sessions /\ UNCHANGED kernel /\ owners' = owners /\ displayed' = displayed
        /\ promised' = promised \cup op.truth
    BY DEF ReportStopped, memory
  <2>2. RecordInv
    BY DEF StopInv
  <2>3. QED
    BY <1>3, <2>1, <2>2, RecordStays
<1>5. QED
  BY <1>4, Ends DEF ReportStopped

LEMMA AwaitStep ==
  ASSUME KernelInv, StopInv, AwaitTree \/ SweepTree \/ AwaitRest
  PROVE  StopInv' /\ (ConfinedInv => ConfinedInv')
<1> USE DEF Looking, AncestrySteps, SignalSteps, VerifiedSteps, TreeSteps, RootSteps, ReviewSteps
<1>1. CASE Ended /\ ReportStopped
  BY <1>1, ReportStep DEF AwaitTree, SweepTree, AwaitRest
<1>2. CASE op' = Idle /\ UNCHANGED <<kernel, stored, memory, promised>>
  <2>1. RecordInv'
    BY <1>2, RecordStays DEF StopInv, stored, memory
  <2>2. QED
    BY <1>2, <2>1, Ends
<1>3. CASE ~Ended /\ AwaitTree
  <2>1. /\ op.step = "wait" /\ UNCHANGED <<kernel, sessions, owners, displayed, promised>>
        /\ op' = [op EXCEPT !.step = "sweep", !.at = Len(op.tree), !.signal = NoIdentity]
    BY <1>3 DEF AwaitTree, stored, memory
  <2>2. RecordInv'
    BY <2>1, RecordStays DEF StopInv
  <2>3. OpInv /\ TreeInv
    BY DEF StopInv
  <2>4. /\ OpInv' /\ op'.step = "sweep" /\ op'.kind = op.kind /\ op'.target = op.target
        /\ op'.witness = op.witness /\ op'.root = op.root /\ op'.worktree = op.worktree
        /\ op'.tree = op.tree /\ op'.births = op.births /\ op'.truth = op.truth
        /\ op'.signal = NoIdentity /\ op'.at = Len(op.tree)
    BY <2>1, <2>3 DEF OpInv
  <2>5. SweepInv'
    <3>1. op.tree \in Seq(Fact) /\ op.tree # <<>>
      BY <2>1, <2>3 DEF TreeInv
    <3>2. Len(op.tree) \in 1..Len(op.tree)
      BY <3>1
    <3>3. QED
      BY <2>4, <3>2 DEF SweepInv
  <2>6. QED
    BY <2>1, <2>2, <2>4, <2>5, VerifiedKept
<1>4. CASE SweepTree
  <2> DEFINE identity == AsIdentity(op.tree[op.at])
             next == IF op.at = 1 THEN "last" ELSE "sweep"
             signal == IF Lives(identity) THEN identity ELSE NoIdentity
  <2>1. /\ op.step = "sweep" /\ UNCHANGED <<kernel, sessions, owners, displayed, promised>>
        /\ op' = [op EXCEPT !.at = @ - 1, !.step = next, !.signal = signal]
    BY <1>4 DEF SweepTree, stored, memory
  <2>2. RecordInv'
    BY <2>1, RecordStays DEF StopInv
  <2>3. OpInv /\ TreeInv /\ SweepInv
    BY DEF StopInv
  <2>4. op.at \in 1..Len(op.tree) /\ op.tree \in Seq(Fact)
    BY <2>1, <2>3 DEF SweepInv, TreeInv
  <2> HIDE DEF identity
  <2>5. /\ OpInv' /\ op'.step = next /\ op'.kind = op.kind /\ op'.target = op.target
        /\ op'.witness = op.witness /\ op'.root = op.root /\ op'.worktree = op.worktree
        /\ op'.tree = op.tree /\ op'.births = op.births /\ op'.truth = op.truth
        /\ op'.signal = signal /\ op'.at = op.at - 1
    BY <2>1, <2>3 DEF OpInv
  <2>6. SweepInv'
    BY <2>4, <2>5 DEF SweepInv
  <2>7. ConfinedInv /\ op'.signal # NoIdentity => Known(op'.signal) /\ BornBelow(op'.signal, op.root)
    <3>1. Known(identity)
      BY <2>1, <2>3, <2>4 DEF TreeInv, identity
    <3>2. ConfinedInv => BornBelow(identity, op.root)
      BY <2>1, <2>4 DEF ConfinedInv, identity
    <3>3. QED
      BY <2>5, <3>1, <3>2
  <2>8. op'.step \in VerifiedSteps /\ op.step \in VerifiedSteps
    BY <2>1, <2>5
  <2> HIDE DEF next, signal
  <2>9. QED
    BY <2>1, <2>2, <2>5, <2>6, <2>7, <2>8, VerifiedKept
<1>5. QED
  BY <1>1, <1>2, <1>3, <1>4 DEF AwaitTree, AwaitRest, Fail

-----------------------------------------------------------------------------
(* Every step.                                                             *)

LEMMA StopSteps ==
  ASSUME KernelInv, StopInv, StopNext \/ StatusNext
  PROVE  StopInv' /\ (ConfinedInv /\ OneHandover => ConfinedInv')
<1>1. ASSUME NEW process \in displayed, NEW worktree \in Range(worktree_paths),
             BeginStop(process, worktree)
      PROVE  StopInv' /\ ConfinedInv'
  BY <1>1, BeginStopStep
<1>2. CASE PlanStop \/ FollowAncestry \/ ChooseRoot
  BY <1>2, PlanStep, AncestryStep, RootChosen
<1>3. CASE ReadTargets \/ ValidateSession \/ ListProcesses
  BY <1>3, SessionStep, ListStep
<1>4. CASE VerifyTree
  BY <1>4, VerifyStep
<1>5. CASE SignalRoot \/ AwaitSupervisor
  BY <1>5, SignalStep
<1>6. CASE AwaitTree \/ SweepTree \/ AwaitRest
  BY <1>6, AwaitStep
<1>7. CASE BeginStatus \/ ReadListeners \/ ReadDirectories \/ ShowStatus
  BY <1>7, BeginStatusStep, ListenersStep, DirectoriesStep, ShowStatusStep
<1>8. QED
  BY <1>1, <1>2, <1>3, <1>4, <1>5, <1>6, <1>7 DEF StopNext, StatusNext

\* What the disk, the user and the navigation do, and the kernel.
LEMMA OtherSteps ==
  ASSUME KernelInv, StopInv,
         \/ KernelNext /\ UNCHANGED <<disk, changes, stored, memory, op, promised>>
         \/ ChangeNext \/ ArrangeNext \/ LinkNext
         \/ \E path \in Places : AddRepository(path)
  PROVE  StopInv' /\ (ConfinedInv => ConfinedInv')
<1>1. /\ op' = op /\ (KernelNext \/ UNCHANGED kernel)
      /\ UNCHANGED <<sessions, owners, displayed, promised>>
  <2> USE DEF stored, memory
  <2>1. CASE KernelNext /\ UNCHANGED <<disk, changes, stored, memory, op, promised>>
    BY <2>1
  <2>2. CASE ChangeNext
    BY <2>2 DEF ChangeNext, ChangeWorktree
  <2>3. CASE ArrangeNext
    BY <2>3 DEF ArrangeNext, SetWorktreeOrder, Advance, Select, RecordSelection, CommitNavigation,
                CancelNavigation
  <2>4. CASE LinkNext
    BY <2>4 DEF LinkNext, LinkProcess, UnlinkProcess
  <2>5. CASE \E path \in Places : AddRepository(path)
    BY <2>5 DEF AddRepository
  <2>6. QED
    BY <2>1, <2>2, <2>3, <2>4, <2>5
<1>2. RecordInv'
  BY <1>1, RecordStays DEF StopInv
<1>3. QED
  BY <1>1, <1>2, StopStaysPut

\* What the reviews do to the operation.
LEMMA ReviewStep ==
  ASSUME KernelInv, StopInv, ReviewNext
  PROVE  StopInv' /\ (ConfinedInv => ConfinedInv')
<1> USE DEF stored, memory, viewVars
<1>1. CASE op' = op /\ UNCHANGED <<kernel, sessions, owners, displayed, promised>>
  <2>1. RecordInv'
    BY <1>1, RecordStays DEF StopInv
  <2>2. QED
    BY <1>1, <2>1, StopStaysPut
<1>2. ASSUME NEW path, NEW input, NEW restart, PlanAction(path, input, restart)
      PROVE  StopInv' /\ (ConfinedInv => ConfinedInv')
  BY <1>1, <1>2 DEF PlanAction
<1>3. ASSUME NEW token, Expire(token)
      PROVE  StopInv' /\ (ConfinedInv => ConfinedInv')
  BY <1>1, <1>3 DEF Expire
<1>4. ASSUME NEW path, RunOver(path)
      PROVE  StopInv' /\ (ConfinedInv => ConfinedInv')
  BY <1>1, <1>4 DEF RunOver
<1>5. ASSUME NEW token, ConfirmAction(token)
      PROVE  StopInv' /\ (ConfinedInv => ConfinedInv')
  <2>1. UNCHANGED <<kernel, sessions, owners, displayed, promised>>
    BY <1>5 DEF ConfirmAction
  <2>2. CASE op' = op
    BY <1>1, <2>1, <2>2
  <2>3. ASSUME NEW step \in {"interrupt", "launch"},
               op' = [Idle EXCEPT !.step = step, !.kind = "confirm", !.at = token]
        PROVE  StopInv' /\ ConfinedInv'
    <3>1. RecordInv'
      BY <2>1, RecordStays DEF StopInv
    <3>2. QED
      BY <2>3, <3>1, Begins DEF ReviewSteps
  <2>4. QED
    BY <1>5, <2>2, <2>3 DEF ConfirmAction, Confirm
<1>6. CASE InterruptRun \/ RevalidateAgain \/ PrepareLaunch \/ LastLook \/ SpawnReviewed
  <2>1. UNCHANGED <<kernel, sessions, owners, displayed, promised>>
    BY <1>6 DEF InterruptRun, RevalidateAgain, PrepareLaunch, LastLook, SpawnReviewed
  <2>2. RecordInv'
    BY <2>1, RecordStays DEF StopInv
  <2>3. CASE op' = Idle
    BY <2>2, <2>3, Ends
  <2>4. ASSUME NEW step \in ReviewSteps, Goto(step), op.step \in ReviewSteps
        PROVE  StopInv' /\ ConfinedInv'
    <3>1. OpInv /\ TargetInv
      BY DEF StopInv
    <3>2. OpInv' /\ op'.step = step /\ op'.kind = op.kind /\ op'.target = op.target
      BY <2>4, <3>1 DEF Goto, OpInv, Looking, AncestrySteps, SignalSteps, VerifiedSteps, TreeSteps,
                        RootSteps, ReviewSteps
    <3>3. op.kind # "stop" /\ op.target.identity \in Ids
      BY <2>4, <3>1 DEF TargetInv
    <3>4. QED
      BY <2>2, <2>4, <3>2, <3>3, Elsewhere
  <2>5. QED
    BY <1>6, <2>3, <2>4 DEF InterruptRun, RevalidateAgain, PrepareLaunch, LastLook, SpawnReviewed, Fail,
                            ReviewSteps
<1>7. CASE (\E number \in Definitions : SaveAction(number)) \/ DeleteAction \/ RemoveRepository
  <2> DEFINE seen == {Observed(IdentityOf(pid), table[pid].place) :
                         pid \in {pid \in DOMAIN table : table[pid].serves}}
  <2>1. op.step = "idle" /\ op' = op /\ UNCHANGED <<kernel, owners, promised>> /\ Compose(seen)
    BY <1>7 DEF SaveAction, DeleteAction, RemoveRepository, Guarded
  <2>2. /\ op.step = "idle" /\ op' = op /\ UNCHANGED <<kernel, owners, promised>>
        /\ sessions' \subseteq sessions
        /\ \A p \in displayed' : \E pid \in DOMAIN table : p.identity = IdentityOf(pid)
    <3>1. displayed' = seen /\ sessions' \subseteq sessions
      BY <2>1 DEF Compose
    <3>2. \A p \in seen : \E pid \in DOMAIN table : p.identity = IdentityOf(pid)
      BY DEF Observed
    <3> HIDE DEF seen
    <3>3. QED
      BY <2>1, <3>1, <3>2
  <2>3. RecordInv'
    BY <2>2, LivingKnown, RecordStays DEF StopInv
  <2>4. QED
    BY <2>2, <2>3, StopStaysPut DEF AncestrySteps, SignalSteps, VerifiedSteps, TreeSteps, RootSteps
<1>8. QED
  BY <1>2, <1>3, <1>4, <1>5, <1>6, <1>7 DEF ReviewNext

LEMMA StopInit ==
  ASSUME Init
  PROVE  KernelInv /\ StopInv /\ ConfinedInv
<1> DEFINE Processes == {[pid |-> born[s].pid, start |-> s] : s \in 1..Births}
<1>1. /\ LineageSound /\ TableSound /\ op = Idle /\ promised = {} /\ displayed = {}
      /\ \A records \in {sessions, owners, links} : records \subseteq [identity : Processes, path : Places]
  BY DEF Init, ViewInit
<1>2. KernelInv
  BY <1>1 DEF KernelInv
<1>3. \A id \in Processes : id \in Ids /\ Known(id)
  <2>1. ASSUME NEW s \in 1..Births
        PROVE  [pid |-> born[s].pid, start |-> s] \in Ids /\ Known([pid |-> born[s].pid, start |-> s])
    <3>1. born[s].pid \in Nat /\ Births \in Nat
      BY <1>2, Lines, PidsType
    <3>2. QED
      BY <3>1 DEF Ids, Known
  <2>2. QED
    BY <2>1
<1>4. RecordInv
  <2>1. sessions \cup owners \subseteq [identity : Processes, path : Places]
    BY <1>1
  <2> HIDE DEF Processes
  <2>2. \A r \in sessions \cup owners : r \in Records /\ Known(r.identity)
    BY <1>3, <2>1 DEF Records
  <2>3. QED
    BY <1>1, <2>2 DEF RecordInv
<1>5. OpInv
  BY <1>1 DEF OpInv, Idle
<1>6. /\ TargetInv /\ WitnessInv /\ ChainInv /\ RootInv /\ TreeInv /\ ListInv /\ TruthInv /\ SweepInv
      /\ ConfinedInv
  <2>1. op.step = "idle" /\ op.kind = "none" /\ op.target.identity \in Ids
    BY <1>1, IdleType DEF Idle
  <2> USE DEF Looking, AncestrySteps, SignalSteps, VerifiedSteps, TreeSteps, RootSteps, ReviewSteps
  <2>2. TargetInv /\ WitnessInv /\ ChainInv /\ RootInv
    BY <2>1 DEF TargetInv, WitnessInv, ChainInv, RootInv
  <2>3. TreeInv /\ ListInv /\ TruthInv /\ SweepInv /\ ConfinedInv
    BY <2>1 DEF TreeInv, ListInv, TruthInv, SweepInv, ConfinedInv
  <2>4. QED
    BY <2>2, <2>3
<1>7. QED
  BY <1>2, <1>4, <1>5, <1>6 DEF StopInv

LEMMA StopStep ==
  ASSUME KernelInv, StopInv, [Next]_vars
  PROVE  KernelInv' /\ StopInv' /\ (ConfinedInv /\ OneHandover => ConfinedInv')
<1> USE DEF stored, memory, viewVars, vars
<1>1. CASE UNCHANGED vars
  <2>1. RecordInv'
    BY <1>1, RecordStays DEF StopInv
  <2>2. QED
    BY <1>1, <2>1, StopStaysPut, KernelStep
<1>2. KernelNext \/ UNCHANGED kernel
  BY DEF Next, ViewNext, StopNext, StatusNext, ChangeNext, ChangeWorktree, ArrangeNext, SetWorktreeOrder,
         Advance, Select, RecordSelection, CommitNavigation, CancelNavigation, LinkNext, LinkProcess,
         UnlinkProcess, AddRepository, BeginStatus, ReadListeners, ReadDirectories, ShowStatus, BeginStop,
         PlanStop, FollowAncestry, ChooseRoot, ReadTargets, ValidateSession, ListProcesses, VerifyTree,
         SignalRoot, AwaitSupervisor, AwaitTree, SweepTree, AwaitRest, ReportStopped, ReviewNext,
         PlanAction, Expire, ConfirmAction, InterruptRun, RevalidateAgain, PrepareLaunch, LastLook,
         SpawnReviewed, RunOver, SaveAction, DeleteAction, RemoveRepository, Guarded
<1>3. KernelInv'
  BY <1>2, KernelStep
<1>4. CASE StopNext \/ StatusNext
  BY <1>3, <1>4, StopSteps
<1>5. CASE \/ KernelNext /\ UNCHANGED <<disk, changes, stored, memory, op, promised>>
           \/ ChangeNext \/ ArrangeNext \/ LinkNext
           \/ \E path \in Places : AddRepository(path)
  BY <1>3, <1>5, OtherSteps
<1>6. CASE ReviewNext
  BY <1>3, <1>6, ReviewStep
<1>7. QED
  BY <1>1, <1>4, <1>5, <1>6 DEF Next, ViewNext

\* What a stop knows is true of the processes at every step, and the processes
\* are what they are.
THEOREM StopInvariant == Spec => [](KernelInv /\ StopInv)
<1>1. Init => KernelInv /\ StopInv
  BY StopInit
<1>2. KernelInv /\ StopInv /\ [Next]_vars => (KernelInv /\ StopInv)'
  BY StopStep
<1>3. QED
  BY <1>1, <1>2, PTL DEF Spec

\* Whoever a stop that reports success promised to have ended has ended, whatever
\* the kernel does between the looks and however often a pid is handed out anew:
\* the tree it listed, or the supervisor alone if that had ended before.
THEOREM StopIsComplete == Spec => []StopComplete
<1>1. StopInv => StopComplete
  BY DEF StopInv, RecordInv, StopComplete
<1>2. QED
  BY <1>1, StopInvariant, PTL

\* A signal goes to nobody but the target's own run, as long as no two pids of
\* the listing are handed out anew while the tree is verified.
THEOREM StopIsConfined == Spec /\ []OneHandover => []StopConfined
<1>1. Init => KernelInv /\ StopInv /\ ConfinedInv
  BY StopInit
<1>2. KernelInv /\ StopInv /\ ConfinedInv /\ OneHandover /\ [Next]_vars
          => (KernelInv /\ StopInv /\ ConfinedInv)'
  BY StopStep
<1>3. StopInv /\ ConfinedInv => StopConfined
  <2> SUFFICES ASSUME StopInv, ConfinedInv, op.signal # NoIdentity
               PROVE  /\ BornBelow(op.signal, op.root)
                      /\ BornBelow(op.target.identity, op.root)
                      /\ op.target.identity \in op.witness
                      /\ \/ op.root = op.target.identity
                         \/ [identity |-> op.root, path |-> op.worktree] \in sessions \cup owners
    BY DEF StopConfined
  <2>1. OpInv /\ RootInv /\ WitnessInv
    BY DEF StopInv
  <2>2. op.step \in SignalSteps
    BY <2>1 DEF OpInv
  <2>3. QED
    BY <2>1, <2>2 DEF RootInv, WitnessInv, ConfinedInv, VerifiedSteps, TreeSteps, RootSteps
<1>4. QED
  BY <1>1, <1>2, <1>3, PTL DEF Spec

-----------------------------------------------------------------------------
(* The reviews.                                                            *)

Saved == [number : Definitions, repository : Nat] \cup {NoDefinition}
Plans == [definition : Saved, path : Places, input : Places, restart : BOOLEAN]
Repositories == [id : Nat, path : Places \cup {NoPlace}]

\* A token stands for its review until it is confirmed, and for one launch.
ReviewInv ==
    /\ definition \in Saved /\ repository \in Repositories
    /\ reviews \in Seq(Plans) /\ launched \in Seq([token : Nat, plan : Plans])
    /\ \A t \in DOMAIN confirmations :
          /\ t \in 1..Len(reviews) /\ confirmations[t] \in [plan : Plans, fresh : BOOLEAN]
          /\ confirmations[t].plan = reviews[t]
          /\ \A k \in 1..Len(launched) : launched[k].token # t
    /\ \A k \in 1..Len(launched) : launched[k].token \in 1..Len(reviews)
    /\ taken = [plan |-> taken.plan, there |-> taken.there]
    /\ op.step \in ReviewSteps =>
          /\ op.at \in 1..Len(reviews) /\ op.at \notin DOMAIN confirmations
          /\ \A k \in 1..Len(launched) : launched[k].token # op.at
          /\ reviews[op.at].definition = definition /\ taken.plan = reviews[op.at]
    /\ op.step = "interrupt" => reviews[op.at].restart
    /\ op.step \in {"look", "spawn"} => reviews[op.at].path \notin running
    /\ op.step = "spawn" => {reviews[op.at].path, reviews[op.at].input} \subseteq taken.there

\* A plan that is still the same is one for the action as it is now.
LEMMA PlanHolds ==
  ASSUME WorktreeInv, NEW plan \in Plans, Revalidated(plan)
  PROVE  /\ ActionPlan(plan.path, plan.input, plan.restart) = plan
         /\ plan.definition = definition
         /\ {plan.path, plan.input} \subseteq WorktreesThere
<1> DEFINE found == ActionPlan(plan.path, plan.input, plan.restart)
           whole == [definition |-> definition, path |-> plan.path, input |-> plan.input,
                     restart |-> plan.restart]
<1>1. found = plan
  BY DEF Revalidated
<1>2. plan # NoPlan
  <2>1. "path" \in DOMAIN plan
    BY DEF Plans
  <2>2. DOMAIN NoPlan = {"definition"} /\ "path" # "definition"
    BY DEF NoPlan
  <2>3. QED
    BY <2>1, <2>2
<1>3. found = whole /\ {plan.path, plan.input} \subseteq Range(AvailablePaths(Inspected))
  BY <1>1, <1>2 DEF ActionPlan, PlanCommand
<1>4. Range(AvailablePaths(Inspected)) \subseteq WorktreesThere
  BY AvailableOnes DEF WorktreeInv, OrderInv, WorktreesThere
<1>5. plan.definition = definition
  BY <1>1, <1>3
<1>6. QED
  BY <1>1, <1>3, <1>4, <1>5

\* A plan is shown as the action is defined.
LEMMA PlanType ==
  ASSUME ReviewInv, NEW path \in Places, NEW input \in Places, NEW restart \in BOOLEAN,
         ActionPlan(path, input, restart) # NoPlan
  PROVE  ActionPlan(path, input, restart) \in Plans
  BY DEF ActionPlan, PlanCommand, ReviewInv, Plans

\* No step of a status or a stop confirms anything.
LEMMA StopIsNoReview ==
  ASSUME StopInv, StopNext \/ StatusNext
  PROVE  op'.step \notin ReviewSteps /\ UNCHANGED repository
<1> USE DEF ReviewSteps, stored
<1>1. OpInv
  BY DEF StopInv
<1>2. CASE op' = Idle
  <2>1. op'.step \notin ReviewSteps
    BY <1>2 DEF Idle
  <2>2. UNCHANGED repository
    BY DEF StopNext, StatusNext, BeginStatus, ReadListeners, ReadDirectories, ShowStatus, BeginStop,
           PlanStop, FollowAncestry, ChooseRoot, ReadTargets, ValidateSession, ListProcesses,
           VerifyTree, SignalRoot, AwaitSupervisor, AwaitTree, SweepTree, AwaitRest, ReportStopped
  <2>3. QED
    BY <2>1, <2>2
<1>3. ASSUME NEW process \in displayed, NEW worktree \in Range(worktree_paths),
             BeginStop(process, worktree)
      PROVE  op'.step \notin ReviewSteps /\ UNCHANGED repository
  BY <1>3 DEF BeginStop, Idle
<1>4. CASE BeginStatus \/ ReadListeners \/ ReadDirectories
  <2>1. CASE BeginStatus
    BY <2>1 DEF BeginStatus, Idle
  <2>2. CASE ReadListeners
    BY <1>1, <2>2 DEF ReadListeners, OpInv
  <2>3. CASE ReadDirectories
    BY <1>1, <2>3 DEF ReadDirectories, OpInv
  <2>4. QED
    BY <1>4, <2>1, <2>2, <2>3
<1>5. CASE ShowStatus
  BY <1>2, <1>5 DEF ShowStatus
<1>6. CASE PlanStop
  BY <1>1, <1>2, <1>6 DEF PlanStop, Fail, OpInv
<1>7. CASE FollowAncestry
  BY <1>1, <1>2, <1>7 DEF FollowAncestry, Fail, Goto, OpInv
<1>8. CASE ChooseRoot
  <2>1. UNCHANGED repository
    BY <1>8 DEF ChooseRoot
  <2>2. \/ op' = Idle
        \/ \E step \in {"targets", "listing"} : \E root, session :
               op' = [op EXCEPT !.step = step, !.root = root, !.session = session]
        \/ \E root : op' = [op EXCEPT !.step = "listing", !.root = root]
    BY <1>8 DEF ChooseRoot, Fail
  <2>3. QED
    BY <1>1, <1>2, <2>1, <2>2 DEF OpInv
<1>9. CASE ReadTargets \/ ValidateSession
  BY <1>1, <1>2, <1>9 DEF ReadTargets, ValidateSession, Fail, Goto, OpInv
<1>10. CASE ListProcesses
  BY <1>1, <1>10 DEF ListProcesses, OpInv
<1>11. CASE VerifyTree
  <2>1. op.step = "facts" /\ UNCHANGED repository
    BY <1>11 DEF VerifyTree
  <2>2. \/ op' = Idle
        \/ \E tree : op' = [op EXCEPT !.tree = tree]
        \/ op' = [op EXCEPT !.step = "signal", !.parents = <<>>]
    BY <1>11 DEF VerifyTree, Fail
  <2>3. QED
    BY <1>1, <1>2, <2>1, <2>2 DEF OpInv
<1>12. CASE SignalRoot \/ AwaitSupervisor
  <2>1. UNCHANGED repository
    BY <1>12 DEF SignalRoot, AwaitSupervisor
  <2>2. \/ op' = Idle
        \/ \E step \in {"supervisor", "wait"} : \E signal :
               op' = [op EXCEPT !.step = step, !.signal = signal]
    BY <1>12 DEF SignalRoot, AwaitSupervisor, Fail, Goto
  <2>3. QED
    BY <1>1, <1>2, <2>1, <2>2 DEF OpInv
<1>13. CASE AwaitTree
  BY <1>1, <1>2, <1>13 DEF AwaitTree, ReportStopped, OpInv
<1>14. CASE SweepTree
  BY <1>1, <1>14 DEF SweepTree, OpInv
<1>15. CASE AwaitRest
  BY <1>2, <1>15 DEF AwaitRest, ReportStopped, Fail
<1>16. QED
  BY <1>3, <1>4, <1>5, <1>6, <1>7, <1>8, <1>9, <1>10, <1>11, <1>12, <1>13, <1>14, <1>15
     DEF StopNext, StatusNext

\* Where no review is shown, confirmed or launched.
LEMMA ReviewStays ==
  ASSUME ReviewInv, UNCHANGED reviewVars, repository' \in Repositories,
         op' = op \/ op'.step \notin ReviewSteps
  PROVE  ReviewInv'
<1>1. CASE op' = op
  BY <1>1 DEF ReviewInv, reviewVars
<1>2. CASE op'.step \notin ReviewSteps
  BY <1>2 DEF ReviewInv, reviewVars, ReviewSteps
<1>3. QED
  BY <1>1, <1>2

LEMMA ViewReviews ==
  ASSUME StopInv, ReviewInv, ViewNext, UNCHANGED reviewVars
  PROVE  ReviewInv'
<1> USE DEF stored, memory
<1>1. repository \in Repositories
  BY DEF ReviewInv
<1>2. CASE StopNext \/ StatusNext
  BY <1>1, <1>2, StopIsNoReview, ReviewStays
<1>3. CASE KernelNext /\ UNCHANGED <<disk, changes, stored, memory, op, promised>>
  BY <1>1, <1>3, ReviewStays
<1>4. CASE ChangeNext
  BY <1>1, <1>4, ReviewStays DEF ChangeNext, ChangeWorktree
<1>5. CASE ArrangeNext
  <2>1. op' = op /\ UNCHANGED repository
    BY <1>5 DEF ArrangeNext, SetWorktreeOrder, Advance, Select, RecordSelection, CommitNavigation,
                CancelNavigation
  <2>2. QED
    BY <1>1, <2>1, ReviewStays
<1>6. CASE LinkNext
  BY <1>1, <1>6, ReviewStays DEF LinkNext, LinkProcess, UnlinkProcess
<1>7. ASSUME NEW path \in Places, AddRepository(path)
      PROVE  ReviewInv'
  <2>1. repository' \in Repositories /\ op' = op
    BY <1>1, <1>7 DEF AddRepository, Register, Repositories
  <2>2. QED
    BY <2>1, ReviewStays
<1>8. QED
  BY <1>2, <1>3, <1>4, <1>5, <1>6, <1>7 DEF ViewNext

LEMMA PlanActionStep ==
  ASSUME ReviewInv, NEW path \in Places, NEW input \in Places, NEW restart \in BOOLEAN,
         PlanAction(path, input, restart)
  PROVE  ReviewInv'
<1> DEFINE plan == ActionPlan(path, input, restart)
           token == Len(reviews) + 1
           fresh == {t \in DOMAIN confirmations : confirmations[t].fresh}
<1>1. plan \in Plans
  BY PlanType DEF PlanAction
<1>2. /\ op.step = "idle" /\ UNCHANGED <<op, repository, definition, taken, running, launched>>
      /\ reviews' = Append(reviews, plan)
      /\ confirmations' = [t \in fresh \cup {token} |->
                              IF t = token THEN [plan |-> plan, fresh |-> TRUE] ELSE confirmations[t]]
  BY DEF PlanAction, viewVars, stored
<1> HIDE DEF plan
<1>3. reviews \in Seq(Plans) /\ Len(reviews) \in Nat /\ launched \in Seq([token : Nat, plan : Plans])
  BY DEF ReviewInv
<1>4. /\ reviews' \in Seq(Plans) /\ Len(reviews') = token /\ reviews'[token] = plan
      /\ \A t \in 1..Len(reviews) : t \in 1..token /\ t # token /\ reviews'[t] = reviews[t]
  BY <1>1, <1>2, <1>3
<1>5. token \in 1..token /\ token \notin 1..Len(reviews)
  BY <1>3
<1> HIDE DEF token
<1>6. ASSUME NEW t \in DOMAIN confirmations'
      PROVE  /\ t \in 1..token /\ confirmations'[t] \in [plan : Plans, fresh : BOOLEAN]
             /\ confirmations'[t].plan = reviews'[t]
             /\ \A k \in 1..Len(launched) : launched[k].token # t
  <2>1. CASE t = token
    <3>1. \A k \in 1..Len(launched) : launched[k].token # t
      BY <1>5, <2>1 DEF ReviewInv
    <3>2. confirmations'[t] = [plan |-> plan, fresh |-> TRUE]
      BY <1>2, <2>1
    <3>3. QED
      BY <1>1, <1>4, <1>5, <2>1, <3>1, <3>2
  <2>2. CASE t # token
    <3>1. t \in DOMAIN confirmations /\ confirmations'[t] = confirmations[t]
      BY <1>2, <2>2
    <3>2. QED
      BY <1>4, <3>1 DEF ReviewInv
  <2>3. QED
    BY <2>1, <2>2
<1>7. \A k \in 1..Len(launched) : launched[k].token \in 1..token
  BY <1>4 DEF ReviewInv
<1>8. definition' \in Saved /\ repository' \in Repositories
  BY <1>2 DEF ReviewInv
<1>9. op'.step \notin ReviewSteps \cup {"interrupt", "look", "spawn"}
  BY <1>2 DEF ReviewSteps
<1>10. \A t \in DOMAIN confirmations' :
          /\ t \in 1..Len(reviews') /\ confirmations'[t] \in [plan : Plans, fresh : BOOLEAN]
          /\ confirmations'[t].plan = reviews'[t]
          /\ \A k \in 1..Len(launched') : launched'[k].token # t
  <2>1. launched' = launched /\ Len(reviews') = token
    BY <1>2, <1>4
  <2>2. QED
    BY <1>6, <2>1
<1>11. \A k \in 1..Len(launched') : launched'[k].token \in 1..Len(reviews')
  BY <1>2, <1>4, <1>7
<1>12. launched' \in Seq([token : Nat, plan : Plans])
       /\ taken' = [plan |-> taken'.plan, there |-> taken'.there]
  BY <1>2, <1>3 DEF ReviewInv
<1>13. QED
  BY <1>4, <1>8, <1>9, <1>10, <1>11, <1>12 DEF ReviewInv

LEMMA ExpireStep ==
  ASSUME ReviewInv, NEW token \in DOMAIN confirmations, Expire(token)
  PROVE  ReviewInv'
<1>1. /\ UNCHANGED <<op, repository, definition, taken, running, launched, reviews>>
      /\ confirmations' = [confirmations EXCEPT ![token].fresh = FALSE]
  BY DEF Expire, viewVars, stored
<1>2. DOMAIN confirmations' = DOMAIN confirmations
      /\ \A t \in DOMAIN confirmations :
            confirmations[t] \in [plan : Plans, fresh : BOOLEAN] =>
                /\ confirmations'[t] \in [plan : Plans, fresh : BOOLEAN]
                /\ confirmations'[t].plan = confirmations[t].plan
  BY <1>1
<1>3. ASSUME NEW t \in DOMAIN confirmations'
      PROVE  /\ t \in 1..Len(reviews) /\ confirmations'[t] \in [plan : Plans, fresh : BOOLEAN]
             /\ confirmations'[t].plan = reviews[t]
             /\ \A k \in 1..Len(launched) : launched[k].token # t
  BY <1>2 DEF ReviewInv
<1>4. op.step \in ReviewSteps => op.at \notin DOMAIN confirmations'
  BY <1>2 DEF ReviewInv
<1>5. \A t \in DOMAIN confirmations' :
          /\ t \in 1..Len(reviews') /\ confirmations'[t] \in [plan : Plans, fresh : BOOLEAN]
          /\ confirmations'[t].plan = reviews'[t]
          /\ \A k \in 1..Len(launched') : launched'[k].token # t
  <2>1. reviews' = reviews /\ launched' = launched
    BY <1>1
  <2>2. QED
    BY <1>3, <2>1
<1>6. /\ definition' \in Saved /\ repository' \in Repositories
      /\ reviews' \in Seq(Plans) /\ launched' \in Seq([token : Nat, plan : Plans])
      /\ \A k \in 1..Len(launched') : launched'[k].token \in 1..Len(reviews')
  BY <1>1 DEF ReviewInv
<1>7. /\ op'.step \in ReviewSteps =>
            /\ op'.at \in 1..Len(reviews') /\ op'.at \notin DOMAIN confirmations'
            /\ \A k \in 1..Len(launched') : launched'[k].token # op'.at
            /\ reviews'[op'.at].definition = definition' /\ taken'.plan = reviews'[op'.at]
      /\ op'.step = "interrupt" => reviews'[op'.at].restart
      /\ op'.step \in {"look", "spawn"} => reviews'[op'.at].path \notin running'
      /\ op'.step = "spawn" =>
            {reviews'[op'.at].path, reviews'[op'.at].input} \subseteq taken'.there
      /\ taken' = [plan |-> taken'.plan, there |-> taken'.there]
  BY <1>1, <1>4 DEF ReviewInv
<1>8. QED
  BY <1>5, <1>6, <1>7 DEF ReviewInv

\* The token goes, and what it stands for is on its way.
LEMMA ConfirmStep ==
  ASSUME WorktreeInv, StopInv, ReviewInv, NEW token \in DOMAIN confirmations, ConfirmAction(token)
  PROVE  ReviewInv'
<1> DEFINE review == confirmations[token]
<1>1. /\ op.step = "idle" /\ UNCHANGED <<repository, definition, running, launched, reviews>>
      /\ DOMAIN confirmations' = DOMAIN confirmations \ {token}
      /\ \A t \in DOMAIN confirmations' : confirmations'[t] = confirmations[t]
  BY DEF ConfirmAction, Forget, stored
<1>2. /\ token \in 1..Len(reviews) /\ review.plan \in Plans /\ review.plan = reviews[token]
      /\ \A k \in 1..Len(launched) : launched[k].token # token
  BY DEF ReviewInv
<1>3. CASE UNCHANGED <<op, taken>>
  BY <1>1, <1>3 DEF ReviewInv, ReviewSteps
<1>4. CASE /\ Revalidated(review.plan)
           /\ Confirm(token, IF review.plan.restart THEN "interrupt" ELSE "launch")
           /\ Take(review.plan)
  <2>1. /\ review.plan.definition = definition /\ taken'.plan = review.plan
        /\ taken' = [plan |-> taken'.plan, there |-> taken'.there]
    BY <1>2, <1>4, PlanHolds DEF Take
  <2>2. op'.at = token /\ op'.step = IF review.plan.restart THEN "interrupt" ELSE "launch"
    BY <1>4 DEF Confirm, Idle
  <2>3. op'.step \in {"interrupt", "launch"} /\ (op'.step = "interrupt" => review.plan.restart)
    BY <2>2
  <2> HIDE DEF review
  <2>4. QED
    BY <1>1, <1>2, <2>1, <2>2, <2>3 DEF ReviewInv, ReviewSteps
<1>5. QED
  BY <1>3, <1>4 DEF ConfirmAction

\* The looks of a confirmation.
LEMMA ConfirmedSteps ==
  ASSUME WorktreeInv, StopInv, ReviewInv, InterruptRun \/ RevalidateAgain \/ PrepareLaunch \/ LastLook
  PROVE  ReviewInv'
<1> USE DEF ReviewSteps
<1>1. OpInv
  BY DEF StopInv
<1>2. /\ UNCHANGED <<repository, definition, launched, reviews, confirmations>>
      /\ running' \subseteq running /\ op.step \in {"interrupt", "again", "launch", "look"}
  BY DEF InterruptRun, RevalidateAgain, PrepareLaunch, LastLook, stored
<1>3. op.at \in 1..Len(reviews) /\ reviews[op.at] \in Plans
  BY <1>2 DEF ReviewInv
<1>4. CASE op' = Idle /\ taken' = Nothing
  BY <1>2, <1>4 DEF ReviewInv, Idle, Nothing
<1>5. ASSUME NEW step \in {"again", "launch", "look", "spawn"}, Goto(step),
             step \in {"look", "spawn"} => reviews[op.at].path \notin running,
             step = "spawn" => {reviews[op.at].path, reviews[op.at].input} \subseteq taken'.there,
             taken'.plan = reviews[op.at], taken' = [plan |-> taken'.plan, there |-> taken'.there]
      PROVE  ReviewInv'
  <2>1. op'.step = step /\ op'.at = op.at
    BY <1>1, <1>5 DEF Goto, OpInv
  <2>2. QED
    BY <1>2, <1>5, <2>1 DEF ReviewInv
<1>6. taken.plan = reviews[op.at] /\ taken = [plan |-> taken.plan, there |-> taken.there]
  BY <1>2 DEF ReviewInv
<1>7. CASE InterruptRun
  BY <1>4, <1>5, <1>6, <1>7 DEF InterruptRun, Fail
<1>8. CASE RevalidateAgain
  <2>1. CASE Revalidated(reviews[op.at]) /\ Goto("launch") /\ Take(reviews[op.at])
    <3>1. taken'.plan = reviews[op.at] /\ taken' = [plan |-> taken'.plan, there |-> taken'.there]
      BY <1>3, <2>1, PlanHolds DEF Take
    <3>2. QED
      BY <1>5, <2>1, <3>1
  <2>2. QED
    BY <1>4, <1>8, <2>1 DEF RevalidateAgain, Fail
<1>9. CASE PrepareLaunch
  BY <1>4, <1>5, <1>6, <1>9 DEF PrepareLaunch, Fail
<1>10. CASE LastLook
  <2>1. CASE /\ Revalidated(reviews[op.at]) /\ Goto("spawn")
             /\ taken' = [taken EXCEPT !.there = WorktreesThere]
    <3>1. /\ taken'.plan = reviews[op.at] /\ taken'.there = WorktreesThere
          /\ taken' = [plan |-> taken'.plan, there |-> taken'.there]
      BY <1>6, <2>1
    <3>2. {reviews[op.at].path, reviews[op.at].input} \subseteq taken'.there
      BY <1>3, <2>1, <3>1, PlanHolds
    <3>3. reviews[op.at].path \notin running
      BY <1>10 DEF LastLook, ReviewInv
    <3>4. QED
      BY <1>5, <2>1, <3>1, <3>2, <3>3
  <2>2. QED
    BY <1>4, <1>10, <2>1 DEF LastLook, Fail
<1>11. QED
  BY <1>7, <1>8, <1>9, <1>10

\* What is launched is what was reviewed.
LEMMA SpawnReviewedStep ==
  ASSUME StopInv, ReviewInv, SpawnReviewed
  PROVE  /\ ReviewInv'
         /\ launched' # launched =>
               LET launch == launched'[Len(launched')]
               IN  /\ launch.plan = reviews[launch.token]
                   /\ launch.plan.definition = definition
                   /\ {launch.plan.path, launch.plan.input} \subseteq taken.there
                   /\ launch.plan.path \notin running
                   /\ \A k \in DOMAIN launched : launched[k].token # launch.token
<1> USE DEF ReviewSteps
<1> DEFINE plan == reviews[op.at]
           launch == [token |-> op.at, plan |-> plan]
<1>1. /\ op.step = "spawn" /\ op' = Idle
      /\ UNCHANGED <<repository, definition, reviews, confirmations>>
      /\ taken' = [plan |-> taken'.plan, there |-> taken'.there]
  BY DEF SpawnReviewed, stored, Nothing
<1>2. /\ op.at \in 1..Len(reviews) /\ op.at \notin DOMAIN confirmations /\ op.at \in Nat
      /\ \A k \in 1..Len(launched) : launched[k].token # op.at
      /\ reviews \in Seq(Plans) /\ launched \in Seq([token : Nat, plan : Plans])
      /\ plan \in Plans /\ plan.path \notin running /\ Len(launched) \in Nat
      /\ taken.plan = plan /\ plan.definition = definition
      /\ {plan.path, plan.input} \subseteq taken.there
  BY <1>1 DEF ReviewInv
<1>3. op'.step = "idle"
  BY <1>1 DEF Idle
<1>4. CASE UNCHANGED launched
  BY <1>1, <1>3, <1>4 DEF ReviewInv
<1>5. CASE launched' = Append(launched, [token |-> op.at, plan |-> taken.plan])
  <2> HIDE DEF plan
  <2>2. launched' = Append(launched, launch) /\ launch \in [token : Nat, plan : Plans]
    BY <1>2, <1>5
  <2>3. launch.token = op.at /\ launch.plan = plan
    OBVIOUS
  <2> HIDE DEF launch
  <2>4. /\ launched' \in Seq([token : Nat, plan : Plans]) /\ Len(launched') = Len(launched) + 1
        /\ launched'[Len(launched')] = launch
        /\ \A k \in 1..Len(launched') : launched'[k] = launch
                \/ (k \in 1..Len(launched) /\ launched'[k] = launched[k])
    BY <1>2, <2>2
  <2>5. DOMAIN launched = 1..Len(launched)
    BY <1>2
  <2>6. ReviewInv'
    <3>1. ASSUME NEW t \in DOMAIN confirmations, NEW k \in 1..Len(launched')
          PROVE  launched'[k].token # t
      <4>1. CASE launched'[k] = launch
        BY <1>2, <2>3, <3>1, <4>1
      <4>2. CASE k \in 1..Len(launched) /\ launched'[k] = launched[k]
        BY <3>1, <4>2 DEF ReviewInv
      <4>3. QED
        BY <2>4, <4>1, <4>2
    <3>2. \A k \in 1..Len(launched') : launched'[k].token \in 1..Len(reviews)
      BY <1>2, <2>3, <2>4 DEF ReviewInv
    <3>3. QED
      BY <1>1, <1>3, <2>4, <3>1, <3>2 DEF ReviewInv
  <2>7. QED
    BY <1>2, <2>3, <2>4, <2>5, <2>6 DEF plan
<1>6. QED
  BY <1>4, <1>5 DEF SpawnReviewed

LEMMA EditStep ==
  ASSUME ReviewInv, \/ \E number \in Definitions : SaveAction(number)
                    \/ DeleteAction \/ RemoveRepository
  PROVE  ReviewInv'
<1>1. /\ op.step = "idle" /\ op' = op /\ UNCHANGED <<launched, reviews, taken, confirmations, running>>
  BY DEF SaveAction, DeleteAction, RemoveRepository, Guarded
<1>2. definition \in Saved /\ repository \in Repositories
  BY DEF ReviewInv
<1>3. definition' \in Saved /\ repository' \in Repositories
  <2>1. CASE UNCHANGED <<repository, definition>>
    BY <1>2, <2>1
  <2>2. ASSUME NEW number \in Definitions, SaveCustomAction(number)
        PROVE  definition' \in Saved /\ repository' \in Repositories
    BY <1>2, <2>2 DEF SaveCustomAction, Saved, Repositories
  <2>3. CASE RemoveCustomAction
    BY <1>2, <2>3 DEF RemoveCustomAction, Saved
  <2>4. CASE ForgetRepository
    BY <1>2, <2>4 DEF ForgetRepository, Saved, Repositories
  <2>5. QED
    BY <2>1, <2>2, <2>3, <2>4 DEF SaveAction, DeleteAction, RemoveRepository, Guarded
<1>4. QED
  BY <1>1, <1>3 DEF ReviewInv, ReviewSteps

LEMMA ReviewInit ==
  ASSUME Init
  PROVE  ReviewInv
  BY DEF Init, ViewInit, ReviewInv, Saved, Repositories, ReviewSteps, Idle, Nothing

LEMMA ReviewsStep ==
  ASSUME WorktreeInv, StopInv, ReviewInv, [Next]_vars
  PROVE  ReviewInv'
<1>1. CASE UNCHANGED vars
  BY <1>1, ReviewStays DEF vars, viewVars, stored, ReviewInv
<1>2. CASE ViewNext /\ UNCHANGED reviewVars
  BY <1>2, ViewReviews
<1>3. CASE ReviewNext
  <2>1. ASSUME NEW path \in Places, NEW input \in Places, NEW restart \in BOOLEAN,
               PlanAction(path, input, restart)
        PROVE  ReviewInv'
    BY <2>1, PlanActionStep
  <2>2. ASSUME NEW token \in DOMAIN confirmations, Expire(token) \/ ConfirmAction(token)
        PROVE  ReviewInv'
    BY <2>2, ExpireStep, ConfirmStep
  <2>3. CASE InterruptRun \/ RevalidateAgain \/ PrepareLaunch \/ LastLook
    BY <2>3, ConfirmedSteps
  <2>4. CASE SpawnReviewed
    BY <2>4, SpawnReviewedStep
  <2>5. ASSUME NEW path \in Places, RunOver(path)
        PROVE  ReviewInv'
    BY <2>5 DEF RunOver, viewVars, stored, ReviewInv
  <2>6. CASE (\E number \in Definitions : SaveAction(number)) \/ DeleteAction \/ RemoveRepository
    BY <2>6, EditStep
  <2>7. QED
    BY <1>3, <2>1, <2>2, <2>3, <2>4, <2>5, <2>6 DEF ReviewNext
<1>4. QED
  BY <1>1, <1>2, <1>3 DEF Next

\* Whatever is launched is what was reviewed under its token, once, and still
\* holds; and a run is interrupted only for an action that has not changed.
THEOREM LaunchesAreReviewed == Spec => LaunchReviewed
<1> DEFINE Inv == WorktreeInv /\ KernelInv /\ StopInv /\ ReviewInv
<1>1. Init => Inv
  BY WorktreeInit, StopInit, ReviewInit
<1>2. Inv /\ [Next]_vars => Inv'
  BY WorktreeStep, StopStep, ReviewsStep
<1>3. Inv /\ [Next]_vars =>
        [ /\ launched' # launched =>
              LET launch == launched'[Len(launched')]
              IN  /\ launch.plan = reviews[launch.token]
                  /\ launch.plan.definition = definition
                  /\ {launch.plan.path, launch.plan.input} \subseteq taken.there
                  /\ launch.plan.path \notin running
                  /\ \A k \in DOMAIN launched : launched[k].token # launch.token
          /\ \A token \in interrupted' \ interrupted :
              reviews[token].definition = definition /\ reviews[token].restart
        ]_vars
  <2> SUFFICES ASSUME Inv, Next
               PROVE  /\ launched' # launched =>
                          LET launch == launched'[Len(launched')]
                          IN  /\ launch.plan = reviews[launch.token]
                              /\ launch.plan.definition = definition
                              /\ {launch.plan.path, launch.plan.input} \subseteq taken.there
                              /\ launch.plan.path \notin running
                              /\ \A k \in DOMAIN launched : launched[k].token # launch.token
                      /\ \A token \in interrupted' \ interrupted :
                          reviews[token].definition = definition /\ reviews[token].restart
    OBVIOUS
  <2>1. CASE SpawnReviewed
    <3>1. interrupted' = interrupted
      BY <2>1 DEF SpawnReviewed
    <3>2. QED
      BY <2>1, <3>1, SpawnReviewedStep
  <2>2. CASE InterruptRun
    <3>1. /\ launched' = launched /\ op.step = "interrupt"
          /\ interrupted' \subseteq interrupted \cup {op.at}
      BY <2>2 DEF InterruptRun
    <3>2. reviews[op.at].definition = definition /\ reviews[op.at].restart
      BY <3>1 DEF ReviewInv, ReviewSteps
    <3>3. QED
      BY <3>1, <3>2
  <2>3. CASE UNCHANGED <<launched, interrupted>>
    BY <2>3
  <2>4. QED
    BY <2>1, <2>2, <2>3 DEF Next, ReviewNext, reviewVars, PlanAction, Expire, ConfirmAction,
       RevalidateAgain, PrepareLaunch, LastLook, RunOver, SaveAction, DeleteAction, RemoveRepository, Guarded
<1>4. QED
  BY <1>1, <1>2, <1>3, PTL DEF Spec, LaunchReviewed

=============================================================================
