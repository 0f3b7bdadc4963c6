---------------------------- MODULE UsageProofs -----------------------------
(***************************************************************************)
(* Proofs about TokenUsage, for one instance of the application.           *)
(***************************************************************************)
EXTENDS UsageInvariant, FiniteSetTheorems, SequenceTheorems, WellFoundedInduction, TLAPS

(***************************************************************************)
(* Numbers, and records of which a step sets some fields.                  *)
(***************************************************************************)
LEMMA DivisionIs ==
  ASSUME NEW q \in Nat, NEW t \in 0..2
  PROVE  (3 * q + t) \div 3 = q /\ (3 * q + t) % 3 = t
BY SMT

LEMMA Division ==
  ASSUME NEW n \in Nat
  PROVE  /\ n \div Width \in Nat /\ n % Width \in 0..2
         /\ n = 3 * (n \div Width) + (n % Width)
BY SMT DEF Width

LEMMA CoveredFacts ==
  ASSUME NEW n \in Nat
  PROVE  /\ Covered(n) \in Nat
         /\ n <= 3 * Covered(n) /\ 3 * Covered(n) <= n + 2
         /\ n % Width = 0 => n = 3 * Covered(n)
         /\ n % Width # 0 => n = 3 * (Covered(n) - 1) + (n % Width)
         /\ n % Width \in 0..2
<1> DEFINE q == n \div Width
           t == n % Width
<1>1. q \in Nat /\ t \in 0..2 /\ n = 3 * q + t
  BY Division
<1>2. Covered(n) = q + IF t = 0 THEN 0 ELSE 1
  BY DEF Covered
<1> HIDE DEF q
<1>3. /\ Covered(n) \in Nat
      /\ n <= 3 * Covered(n) /\ 3 * Covered(n) <= n + 2
      /\ t = 0 => n = 3 * Covered(n)
      /\ t # 0 => n = 3 * (Covered(n) - 1) + t
  <2> HIDE DEF t
  <2>1. CASE t = 0
    BY <1>1, <1>2, <2>1
  <2>2. CASE t # 0
    BY <1>1, <1>2, <2>2
  <2>3. QED
    BY <2>1, <2>2
<1>4. t \in 0..2
  BY <1>1
<1> HIDE DEF t
<1>5. QED
  BY <1>3, <1>4 DEF t

\* The end of a file, and the start of what follows an offset.
LEMMA CoveredIs ==
  ASSUME NEW q \in Nat, NEW t \in 0..2
  PROVE  /\ (t = 0 => Covered(3 * q + t) = q) /\ (t # 0 => Covered(3 * q + t) = q + 1)
         /\ (3 * q + t) % Width = t
BY DivisionIs DEF Covered, Width

LEMMA FieldsAre ==
  Fields = {"pc", "kind", "force", "root", "required", "snaps", "listed", "ok", "todo", "pending", "fresh",
            "updates", "events", "hints", "expect", "exported", "ledgers", "paths", "stat", "kept",
            "prefetched", "usable", "completed", "failed"}
BY DEF Fields, Idle

\* A step of a host sets the fields of r and keeps the others.
LEMMA HostStep ==
  ASSUME DOMAIN host = Hosts, NEW h \in Hosts, DOMAIN host[h] = Fields,
         NEW r, DOMAIN r \subseteq Fields, Update(h, r)
  PROVE  /\ DOMAIN host' = Hosts /\ DOMAIN host'[h] = Fields
         /\ \A f \in DOMAIN r : host'[h][f] = r[f]
         /\ \A f \in Fields \ DOMAIN r : host'[h][f] = host[h][f]
<1>1. host' = [host EXCEPT ![h] = With(r, host[h])]
  BY DEF Update
<1>2. host'[h] = With(r, host[h]) /\ DOMAIN host' = Hosts
  BY <1>1
<1>3. QED
  BY <1>2 DEF With

LEMMA NeedsFacts ==
  ASSUME HostTypes, NEW h \in Hosts, Needs(h)
  PROVE  /\ DOMAIN host' = Hosts /\ DOMAIN host'[h] = Fields
         /\ host'[h].pc = "list"
         /\ \A f \in Fields \ {"pc", "force"} : host'[h][f] = host[h][f]
<1>a. PICK fine \in BOOLEAN : Update(h, [pc |-> "list", force |-> fine /\ NeedsFullExport])
  BY DEF Needs
<1> DEFINE r == [pc |-> "list", force |-> fine /\ NeedsFullExport]
<1>1. Update(h, r) /\ DOMAIN host = Hosts /\ DOMAIN host[h] = Fields
  BY <1>a DEF HostTypes
<1>2. DOMAIN r = {"pc", "force"} /\ r.pc = "list"
  OBVIOUS
<1> HIDE DEF r
<1>3. QED
  BY <1>1, <1>2, HostStep, FieldsAre

-----------------------------------------------------------------------------
(***************************************************************************)
(* Lines of a ledger.                                                      *)
(***************************************************************************)
LEMMA Least ==
  ASSUME NEW S \in SUBSET Nat, NEW x \in S
  PROVE  \E y \in S : \A z \in S : y <= z
<1> DEFINE Before == OpToRel(<, Nat)
<1>1. ASSUME NEW y \in Nat, NEW z \in Nat, <<z, y>> \notin Before
      PROVE  y <= z
  BY <1>1 DEF OpToRel
<1>2. IsWellFoundedOn(Before, Nat)
  BY NatLessThanWellFounded
<1> HIDE DEF Before
<1>3. PICK y \in S : \A z \in S : <<z, y>> \notin Before
  BY <1>2, WFMin
<1>4. QED
  BY <1>1, <1>3

LEMMA LineFacts ==
  ASSUME NEW d, NEW l \in Files(d)
  PROVE  /\ LinesOf(l) \in Seq(Lines(d)) /\ DOMAIN LinesOf(l) = 1..Len(LinesOf(l))
         /\ l.tail = 0 => Len(LinesOf(l)) = Len(l.lines)
         /\ l.tail # 0 => Len(LinesOf(l)) = Len(l.lines) + 1
         /\ \A i \in 1..Len(l.lines) : LinesOf(l)[i] = l.lines[i]
         /\ l.tail = 1 => LinesOf(l)[Len(l.lines) + 1] = Bad
         /\ l.tail = 2 => LinesOf(l)[Len(l.lines) + 1] = l.last
         /\ Len(l.lines) \in Nat /\ l.tail \in 0..2 /\ Len(LinesOf(l)) \in Nat
         /\ l.lines \in Seq(Lines(d)) /\ l.last \in Lines(d) /\ l.ident \in Nat
<1>1. l.lines \in Seq(Lines(d)) /\ l.tail \in 0..2 /\ l.last \in Lines(d) /\ Len(l.lines) \in Nat /\ l.ident \in Nat
  BY DEF Files
<1>2. Bad \in Lines(d)
  BY DEF Lines
<1>3. CASE l.tail = 0
  BY <1>1, <1>3 DEF LinesOf
<1>4. CASE l.tail # 0
  <2> DEFINE e == IF l.tail = 1 THEN Bad ELSE l.last
  <2>1. e \in Lines(d) /\ LinesOf(l) = Append(l.lines, e)
    BY <1>1, <1>2, <1>4 DEF LinesOf
  <2>2. (l.tail = 1 => e = Bad) /\ (l.tail = 2 => e = l.last)
    OBVIOUS
  <2> HIDE DEF e
  <2>3. QED
    BY <1>1, <1>4, <2>1, <2>2, AppendProperties
<1>5. QED
  BY <1>3, <1>4

LEMMA SizeFacts ==
  ASSUME NEW d, NEW l \in Files(d)
  PROVE  /\ Size(l) \in Nat /\ Size(l) = 3 * Len(l.lines) + l.tail
         /\ Covered(Size(l)) = Len(LinesOf(l)) /\ Size(l) % Width = l.tail
<1>1. Size(l) = 3 * Len(l.lines) + l.tail /\ Len(l.lines) \in Nat /\ l.tail \in 0..2
  BY LineFacts DEF Size, Width
<1>2. /\ l.tail = 0 => Covered(Size(l)) = Len(l.lines)
      /\ l.tail # 0 => Covered(Size(l)) = Len(l.lines) + 1
      /\ Size(l) % Width = l.tail
  BY <1>1, CoveredIs
<1>3. (l.tail = 0 => Len(LinesOf(l)) = Len(l.lines)) /\ (l.tail # 0 => Len(LinesOf(l)) = Len(l.lines) + 1)
  BY LineFacts
<1>4. Size(l) \in Nat
  BY <1>1
<1>5. QED
  BY <1>1, <1>2, <1>3, <1>4, Zenon

LEMMA RecordFacts ==
  ASSUME NEW d, NEW x \in Lines(d)
  PROVE  /\ x.ver \in 0..3 /\ (x = Bad <=> x.ver = 0)
         /\ x.ver # 0 => x \in Recs(d) /\ x.dev = d /\ x.id \in Ids
<1>1. CASE x = Bad
  BY <1>1 DEF Bad
<1>2. CASE x \in Recs(d)
  BY <1>2 DEF Recs, Bad
<1>3. QED
  BY <1>1, <1>2 DEF Lines

LEMMA LineIs ==
  ASSUME NEW d, NEW l \in Files(d), NEW i \in DOMAIN LinesOf(l)
  PROVE  /\ LinesOf(l)[i] \in Lines(d)
         /\ LinesOf(l)[i].ver \in 0..3 /\ (LinesOf(l)[i] = Bad <=> LinesOf(l)[i].ver = 0)
         /\ LinesOf(l)[i].ver # 0 => LinesOf(l)[i] \in Recs(d) /\ LinesOf(l)[i].dev = d
<1>1. LinesOf(l)[i] \in Lines(d)
  <2>1. LinesOf(l) \in Seq(Lines(d))
    BY LineFacts
  <2>2. QED
    BY <2>1
<1>2. QED
  BY <1>1, RecordFacts

\* What is read from an offset: a record for each key that a readable line has.
LEMMA ReadFacts ==
  ASSUME NEW d, NEW l \in Files(d), NEW off \in Nat
  PROVE  LET read == ReadFrom(l, off)
             rest == (Covered(off) + 1)..Len(LinesOf(l))
         IN  /\ read.recs \subseteq Recs(d) /\ Unique(read.recs)
             /\ \A r \in read.recs : \E i \in rest : r = LinesOf(l)[i] /\ Readable(LinesOf(l)[i].ver)
             /\ \A i \in rest : Readable(LinesOf(l)[i].ver) => \E r \in read.recs : SameKey(r, LinesOf(l)[i])
             /\ read.bad <=> \E i \in rest : ~Readable(LinesOf(l)[i].ver)
             /\ read.size = Size(l) /\ read.ident = l.ident
<1> DEFINE read  == ReadFrom(l, off)
           lines == LinesOf(l)
           rest  == (Covered(off) + 1)..Len(lines)
           good  == {i \in rest : Readable(lines[i].ver)}
           first == {i \in good : ~\E j \in good : j < i /\ SameKey(lines[i], lines[j])}
<1>1. off \div Width + (IF off % Width = 0 THEN 1 ELSE 2) = Covered(off) + 1
  BY Division DEF Covered
<1>2. /\ read.recs = {lines[i] : i \in first}
      /\ read.bad <=> \E i \in rest : ~Readable(lines[i].ver)
      /\ read.size = Size(l) /\ read.ident = l.ident
  BY <1>1 DEF ReadFrom, Readable
<1>3. Covered(off) \in Nat /\ Len(lines) \in Nat /\ DOMAIN lines = 1..Len(lines)
  BY CoveredFacts, LineFacts
<1>4. \A i \in good : i \in Nat /\ i \in DOMAIN lines /\ lines[i] \in Recs(d)
  <2>1. ASSUME NEW i \in good
        PROVE  i \in Nat /\ i \in DOMAIN lines /\ lines[i] \in Recs(d)
    <3>1. i \in DOMAIN lines /\ i \in Nat
      BY <1>3
    <3>2. lines[i].ver # 0
      BY DEF Readable, Schema
    <3>3. QED
      BY <3>1, <3>2, LineIs
  <2>2. QED
    BY <2>1
<1> HIDE DEF read, lines
<1>5. \A i \in good : \E j \in first : SameKey(lines[j], lines[i])
  <2>1. SUFFICES ASSUME NEW i \in good
                 PROVE  \E j \in first : SameKey(lines[j], lines[i])
    OBVIOUS
  <2> DEFINE S == {j \in good : SameKey(lines[j], lines[i])}
  <2>2. S \in SUBSET Nat /\ i \in S
    BY <1>4 DEF SameKey
  <2>3. PICK j \in S : \A z \in S : j <= z
    BY <2>2, Least
  <2>4. \A k \in good : ~(k < j /\ SameKey(lines[j], lines[k]))
    <3>1. ASSUME NEW k \in good, k < j, SameKey(lines[j], lines[k])
          PROVE  FALSE
      <4>1. k \in S
        BY <3>1, <2>3 DEF SameKey
      <4>2. k \in Nat /\ j \in Nat
        BY <1>4, <2>3
      <4>3. QED
        BY <2>3, <3>1, <4>1, <4>2
    <3>2. QED
      BY <3>1
  <2>5. QED
    BY <2>3, <2>4
<1>6. Unique({lines[i] : i \in first})
  <2>1. ASSUME NEW i \in first, NEW j \in first, SameKey(lines[i], lines[j])
        PROVE  lines[i] = lines[j]
    <3>1. i \in Nat /\ j \in Nat /\ ~(i < j) /\ ~(j < i)
      BY <2>1, <1>4 DEF SameKey
    <3>2. QED
      BY <3>1
  <2> HIDE DEF first
  <2>2. QED
    BY <2>1 DEF Unique
<1>7. \A r \in read.recs : \E i \in rest : r = lines[i] /\ Readable(lines[i].ver)
  BY <1>2
<1>8. \A i \in rest : Readable(lines[i].ver) => \E r \in read.recs : SameKey(r, lines[i])
  BY <1>2, <1>5
<1>9. read.recs \subseteq Recs(d)
  BY <1>2, <1>4
<1>10. QED
  BY <1>2, <1>6, <1>7, <1>8, <1>9, Zenon DEF read, lines

\* The records of a set, each once, in some order.
LEMMA SetToSeqFacts ==
  ASSUME NEW S, IsFiniteSet(S)
  PROVE  /\ SetToSeq(S) \in Seq(S) /\ Len(SetToSeq(S)) \in Nat
         /\ \A x \in S : \E i \in 1..Len(SetToSeq(S)) : SetToSeq(S)[i] = x
         /\ \A i \in 1..Len(SetToSeq(S)) : SetToSeq(S)[i] \in S
         /\ \A i, j \in 1..Len(SetToSeq(S)) : SetToSeq(S)[i] = SetToSeq(S)[j] => i = j
<1> DEFINE n == Cardinality(S)
           q == SetToSeq(S)
<1>1. n \in Nat /\ ExistsBijection(1..n, S)
  BY FS_CardinalityType
<1>2. PICK f \in [1..n -> S] : IsInjective(f)
  BY <1>1 DEF ExistsBijection, Bijection, Injection
<1>3. q \in [1..n -> S] /\ IsInjective(q)
  BY <1>2 DEF SetToSeq
<1>4. Cardinality(1..n) = n /\ IsFiniteSet(1..n)
  BY <1>1, FS_Interval
<1> HIDE DEF q
<1>5. q \in Injection(1..n, S)
  BY <1>3 DEF Injection
<1>6. q \in Surjection(1..n, S)
  BY <1>4, <1>5, FS_Injection
<1> HIDE DEF n
<1>7. q \in Seq(S) /\ Len(q) = n
  BY <1>1, <1>3
<1>8. /\ \A x \in S : \E i \in 1..n : q[i] = x
      /\ \A i \in 1..n : q[i] \in S
      /\ \A i, j \in 1..n : q[i] = q[j] => i = j
  BY <1>3, <1>6 DEF Surjection, IsInjective
<1>9. q \in Seq(S) /\ Len(q) \in Nat
      /\ (\A x \in S : \E i \in 1..Len(q) : q[i] = x)
      /\ (\A i \in 1..Len(q) : q[i] \in S)
      /\ (\A i, j \in 1..Len(q) : q[i] = q[j] => i = j)
  BY <1>1, <1>7, <1>8
<1>10. QED
  BY <1>9, Zenon DEF q

-----------------------------------------------------------------------------
(***************************************************************************)
(* A ledger that grows.                                                    *)
(***************************************************************************)
\* m holds what l held, apart from a cut line that was not complete.
Extends(l, m) ==
    /\ m.ident = l.ident /\ Size(l) <= Size(m)
    /\ \A i \in DOMAIN LinesOf(l) : (i <= Len(l.lines) \/ l.tail = 2) =>
          i \in DOMAIN LinesOf(m) /\ LinesOf(m)[i] = LinesOf(l)[i]

LEMMA StillRead ==
  ASSUME NEW d, NEW l \in Files(d), NEW m \in Files(d), Extends(l, m),
         NEW size, ReadUpTo(l, size)
  PROVE  /\ ReadUpTo(m, size)
         /\ \A i \in 1..Covered(size) :
               i \in DOMAIN LinesOf(l) /\ i \in DOMAIN LinesOf(m) /\ LinesOf(m)[i] = LinesOf(l)[i]
<1> DEFINE n == Len(l.lines)
           c == Covered(size)
           r == size % Width
<1>1. Size(l) \in Nat /\ Size(l) = 3 * n + l.tail /\ n \in Nat /\ l.tail \in 0..2
  BY SizeFacts, LineFacts
<1>2. size \in Nat /\ size <= Size(l) /\ r # 1
  BY <1>1 DEF ReadUpTo
<1>3. c \in Nat /\ (r = 0 => size = 3 * c) /\ (r # 0 => size = 3 * (c - 1) + r) /\ r \in 0..2
  BY <1>2, CoveredFacts
<1> HIDE DEF n, c, r
<1>4. c <= n \/ (c = n + 1 /\ l.tail = 2)
  <2>1. CASE r = 0
    BY <1>1, <1>2, <1>3, <2>1
  <2>2. CASE r = 2
    BY <1>1, <1>2, <1>3, <2>2
  <2>3. QED
    BY <1>2, <1>3, <2>1, <2>2
<1>5. DOMAIN LinesOf(l) = 1..(IF l.tail = 0 THEN n ELSE n + 1)
  BY LineFacts DEF n
<1>6. \A i \in 1..c : i \in DOMAIN LinesOf(l) /\ (i <= n \/ l.tail = 2)
  BY <1>1, <1>3, <1>4, <1>5
<1>7. \A i \in 1..c :
         i \in DOMAIN LinesOf(l) /\ i \in DOMAIN LinesOf(m) /\ LinesOf(m)[i] = LinesOf(l)[i]
  BY <1>6 DEF Extends, n
<1>8. size \in 0..Size(m)
  BY <1>1, <1>2, SizeFacts DEF Extends
<1>9. \A i \in 1..c : Readable(LinesOf(m)[i].ver)
  BY <1>7 DEF ReadUpTo, c
<1>10. QED
  BY <1>2, <1>7, <1>8, <1>9 DEF ReadUpTo, c, r

LEMMA StillCovers ==
  ASSUME NEW d, NEW l \in Files(d), NEW m \in Files(d), Extends(l, m),
         NEW size, NEW keys, Covers(l, size, keys)
  PROVE  Covers(m, size, keys)
<1>1. ReadUpTo(m, size) /\ \A i \in 1..Covered(size) : LinesOf(m)[i] = LinesOf(l)[i]
  BY StillRead DEF Covers
<1>2. QED
  BY <1>1 DEF Covers

\* The lines of seq follow those of l, except that some may be missing or cut.
Appended(l, m, seq) ==
    /\ m.ident = l.ident /\ Size(l) <= Size(m)
    /\ Len(LinesOf(m)) \in Len(LinesOf(l))..(Len(LinesOf(l)) + Len(seq))
    /\ \A i \in 1..Len(LinesOf(l)) : LinesOf(m)[i] = LinesOf(l)[i]
    /\ \A i \in (Len(LinesOf(l)) + 1)..Len(LinesOf(m)) : LinesOf(m)[i] \in {seq[i - Len(LinesOf(l))], Bad}

LEMMA AppendedExtends ==
  ASSUME NEW d, NEW l \in Files(d), NEW m \in Files(d), NEW seq \in Seq(Recs(d)), Appended(l, m, seq)
  PROVE  Extends(l, m)
<1>1. DOMAIN LinesOf(l) = 1..Len(LinesOf(l)) /\ DOMAIN LinesOf(m) = 1..Len(LinesOf(m))
      /\ Len(LinesOf(l)) \in Nat /\ Len(LinesOf(m)) \in Nat
  BY LineFacts
<1>2. Len(LinesOf(l)) <= Len(LinesOf(m))
  BY <1>1 DEF Appended
<1>3. QED
  BY <1>1, <1>2 DEF Appended, Extends

\* Records of keys the ledger does not hold keep its lines unique.
LEMMA AppendedUnique ==
  ASSUME NEW d, NEW l \in Files(d), NEW m \in Files(d), NEW new, IsFiniteSet(new), Unique(new),
         new \subseteq Recs(d), Appended(l, m, SetToSeq(new)), UniqueLines(l),
         \A r \in new : \A i \in DOMAIN LinesOf(l) : LinesOf(l)[i].ver # 0 => ~SameKey(r, LinesOf(l)[i])
  PROVE  UniqueLines(m)
<1> DEFINE n == Len(LinesOf(l))
           q == SetToSeq(new)
<1>1. q \in Seq(new) /\ Len(q) \in Nat /\ n \in Nat /\ Len(LinesOf(m)) \in Nat
      /\ DOMAIN LinesOf(l) = 1..n /\ DOMAIN LinesOf(m) = 1..Len(LinesOf(m))
  BY SetToSeqFacts, LineFacts
<1>2. /\ \A i \in 1..Len(q) : q[i] \in new
      /\ \A i, j \in 1..Len(q) : q[i] = q[j] => i = j
  BY SetToSeqFacts
<1>3. /\ Len(LinesOf(m)) \in n..(n + Len(q))
      /\ \A i \in 1..n : LinesOf(m)[i] = LinesOf(l)[i]
      /\ \A i \in (n + 1)..Len(LinesOf(m)) : LinesOf(m)[i] \in {q[i - n], Bad}
  BY DEF Appended
<1> HIDE DEF q, n
<1>4. ASSUME NEW i \in (n + 1)..Len(LinesOf(m)), LinesOf(m)[i].ver # 0
      PROVE  i - n \in 1..Len(q) /\ LinesOf(m)[i] = q[i - n] /\ LinesOf(m)[i] \in new
  <2>1. LinesOf(m)[i] = q[i - n]
    BY <1>3, <1>4 DEF Bad
  <2>2. i - n \in 1..Len(q)
    BY <1>1, <1>3
  <2>3. QED
    BY <1>2, <2>1, <2>2
<1>5. ASSUME NEW i \in DOMAIN LinesOf(m), NEW j \in DOMAIN LinesOf(m),
             LinesOf(m)[i].ver # 0, LinesOf(m)[j].ver # 0, SameKey(LinesOf(m)[i], LinesOf(m)[j])
      PROVE  i = j
  <2>1. i \in 1..n \/ i \in (n + 1)..Len(LinesOf(m))
    BY <1>1
  <2>2. j \in 1..n \/ j \in (n + 1)..Len(LinesOf(m))
    BY <1>1
  <2>3. CASE i \in 1..n /\ j \in 1..n
    BY <1>1, <1>3, <1>5, <2>3 DEF UniqueLines
  <2>4. CASE i \in 1..n /\ j \in (n + 1)..Len(LinesOf(m))
    <3>1. LinesOf(m)[j] \in new
      BY <1>4, <1>5, <2>4
    <3>2. ~SameKey(LinesOf(m)[j], LinesOf(m)[i])
      BY <1>1, <1>3, <1>5, <2>4, <3>1
    <3>3. QED
      BY <1>5, <3>2 DEF SameKey
  <2>5. CASE i \in (n + 1)..Len(LinesOf(m)) /\ j \in 1..n
    <3>1. LinesOf(m)[i] \in new
      BY <1>4, <1>5, <2>5
    <3>2. ~SameKey(LinesOf(m)[i], LinesOf(m)[j])
      BY <1>1, <1>3, <1>5, <2>5, <3>1
    <3>3. QED
      BY <1>5, <3>2 DEF SameKey
  <2>6. CASE i \in (n + 1)..Len(LinesOf(m)) /\ j \in (n + 1)..Len(LinesOf(m))
    <3>1. /\ i - n \in 1..Len(q) /\ LinesOf(m)[i] = q[i - n] /\ LinesOf(m)[i] \in new
          /\ j - n \in 1..Len(q) /\ LinesOf(m)[j] = q[j - n] /\ LinesOf(m)[j] \in new
      BY <1>4, <1>5, <2>6
    <3>2. q[i - n] = q[j - n]
      BY <1>5, <3>1 DEF Unique
    <3>3. i - n = j - n
      BY <1>2, <3>1, <3>2
    <3>4. QED
      BY <1>1, <2>6, <3>3
  <2>7. QED
    BY <2>1, <2>2, <2>3, <2>4, <2>5, <2>6
<1>6. QED
  BY <1>5 DEF UniqueLines

LEMMA NewLedgerFacts ==
  ASSUME NEW d, NEW ident \in Nat, NEW lines \in Seq(Lines(d))
  PROVE  LET m == NewLedger(ident, lines) IN
         /\ m \in Files(d) /\ m.ident = ident /\ m.lines = lines /\ m.tail = 0 /\ ~m.away
         /\ LinesOf(m) = lines
<1>1. Bad \in Lines(d)
  BY DEF Lines
<1>2. QED
  BY <1>1 DEF NewLedger, Files, LinesOf

LEMMA Bytes ==
  ASSUME NEW a \in Nat, NEW b \in Nat, NEW s \in 0..2, NEW t \in 0..2, a <= b, s # 0 => a + 1 <= b
  PROVE  3 * a + s <= 3 * b + t
OBVIOUS

\* w is u and k more lines, those of q.
Joined(w, u, q, n, k) ==
    /\ n = Len(u) /\ Len(w) = n + k
    /\ \A i \in 1..n : w[i] = u[i]
    /\ \A i \in (n + 1)..(n + k) : w[i] = q[i - n]

Follows(l, m, q, n, k) ==
    /\ m.tail = 0 => Len(LinesOf(m)) = n + k
    /\ m.tail # 0 => Len(LinesOf(m)) = n + k + 1
    /\ \A i \in 1..n : LinesOf(m)[i] = LinesOf(l)[i]
    /\ \A i \in (n + 1)..(n + k) : LinesOf(m)[i] = q[i - n]
    /\ m.tail = 1 => LinesOf(m)[n + k + 1] = Bad
    /\ m.tail = 2 => LinesOf(m)[n + k + 1] = m.last
    /\ Size(l) <= Size(m)

LEMMA JoinedIs ==
  ASSUME NEW d, NEW l \in Files(d), NEW q \in Seq(Lines(d)), NEW w, w = LinesOf(l) \o q
  PROVE  /\ w \in Seq(Lines(d)) /\ Len(q) \in Nat /\ Len(LinesOf(l)) \in Nat
         /\ Joined(w, LinesOf(l), q, Len(LinesOf(l)), Len(q))
<1>1. LinesOf(l) \in Seq(Lines(d)) /\ Len(LinesOf(l)) \in Nat /\ Len(q) \in Nat
  BY LineFacts
<1>2. /\ w \in Seq(Lines(d)) /\ Len(w) = Len(LinesOf(l)) + Len(q)
      /\ \A i \in 1..(Len(LinesOf(l)) + Len(q)) :
               w[i] = IF i <= Len(LinesOf(l)) THEN LinesOf(l)[i] ELSE q[i - Len(LinesOf(l))]
  BY <1>1, ConcatProperties
<1> DEFINE n == Len(LinesOf(l))
           k == Len(q)
<1>3. n = Len(LinesOf(l))
  OBVIOUS
<1> HIDE DEF n, k
<1>4. ASSUME NEW i \in 1..n
      PROVE  w[i] = LinesOf(l)[i]
  <2>1. i \in 1..(n + k) /\ i <= n
    BY <1>1 DEF n, k
  <2>2. QED
    BY <1>2, <2>1 DEF n, k
<1>5. ASSUME NEW i \in (n + 1)..(n + k)
      PROVE  w[i] = q[i - n]
  <2>1. n \in Nat /\ k \in Nat
    BY <1>1 DEF n, k
  <2>2. i \in 1..(n + k) /\ ~(i <= n)
    BY <2>1
  <2>3. QED
    BY <1>2, <2>2 DEF n, k
<1>6. QED
  BY <1>1, <1>2, <1>4, <1>5 DEF Joined, n, k

\* An append: the cut line is ended, and k lines and a part of one more follow.
LEMMA Rebuilt ==
  ASSUME NEW d, NEW l \in Files(d), NEW m \in Files(d), NEW q, NEW n \in Nat, NEW k \in Nat,
         Joined(m.lines, LinesOf(l), q, n, k)
  PROVE  Follows(l, m, q, n, k)
<1>1. /\ l.tail \in 0..2 /\ Len(l.lines) \in Nat /\ m.tail \in 0..2
      /\ (l.tail = 0 => n = Len(l.lines)) /\ (l.tail # 0 => n = Len(l.lines) + 1)
  BY LineFacts DEF Joined
<1>2. /\ m.tail = 0 => Len(LinesOf(m)) = n + k
      /\ m.tail # 0 => Len(LinesOf(m)) = n + k + 1
      /\ \A i \in 1..(n + k) : LinesOf(m)[i] = m.lines[i]
      /\ m.tail = 1 => LinesOf(m)[n + k + 1] = Bad
      /\ m.tail = 2 => LinesOf(m)[n + k + 1] = m.last
  BY LineFacts DEF Joined
<1>3. Size(l) <= Size(m)
  <2>1. Size(l) = 3 * Len(l.lines) + l.tail /\ Size(m) = 3 * (n + k) + m.tail
    BY SizeFacts DEF Joined
  <2>2. n <= n + k /\ n + k \in Nat
    OBVIOUS
  <2>3. Len(l.lines) <= n /\ (l.tail # 0 => Len(l.lines) + 1 <= n)
    BY <1>1
  <2>4. Len(l.lines) <= n + k /\ (l.tail # 0 => Len(l.lines) + 1 <= n + k)
    BY <1>1, <2>2, <2>3
  <2>5. QED
    BY <1>1, <2>1, <2>2, <2>4, Bytes
<1>4. \A i \in 1..n : LinesOf(m)[i] = LinesOf(l)[i]
  <2>1. SUFFICES ASSUME NEW i \in 1..n PROVE LinesOf(m)[i] = LinesOf(l)[i]
    OBVIOUS
  <2>2. i \in 1..(n + k) /\ i <= n
    OBVIOUS
  <2>3. QED
    BY <1>2, <2>2 DEF Joined
<1>5. \A i \in (n + 1)..(n + k) : LinesOf(m)[i] = q[i - n]
  <2>1. SUFFICES ASSUME NEW i \in (n + 1)..(n + k) PROVE LinesOf(m)[i] = q[i - n]
    OBVIOUS
  <2>2. i \in 1..(n + k) /\ ~(i <= n)
    OBVIOUS
  <2>3. QED
    BY <1>2, <2>2 DEF Joined
<1>6. QED
  BY <1>2, <1>3, <1>4, <1>5, Zenon DEF Follows

Base(l, ident) == IF l = NoFile THEN NewLedger(ident, <<>>) ELSE l

LEMMA BaseFacts ==
  ASSUME NEW d, NEW l, l = NoFile \/ l \in Files(d), NEW ident \in Nat
  PROVE  /\ Base(l, ident) \in Files(d)
         /\ l = NoFile => LinesOf(Base(l, ident)) = <<>> /\ Base(l, ident).ident = ident
         /\ l # NoFile => Base(l, ident) = l
<1>1. <<>> \in Seq(Lines(d))
  OBVIOUS
<1>2. QED
  BY <1>1, NewLedgerFacts DEF Base

FileWith(l, w, t, last, away) == [l EXCEPT !.lines = w, !.tail = t, !.last = last, !.away = away]

LEMMA FileWithIs ==
  ASSUME NEW d, NEW l \in Files(d), NEW w \in Seq(Lines(d)), NEW t \in {0, 1, 2}, NEW last \in Lines(d),
         NEW away \in BOOLEAN
  PROVE  LET m == FileWith(l, w, t, last, away) IN
         m \in Files(d) /\ m.ident = l.ident /\ m.lines = w /\ m.tail = t /\ m.last = last /\ m.away = away
<1> DEFINE S == Seq(Lines(d))
           L == Lines(d)
           m == FileWith(l, w, t, last, away)
<1>1. l \in [ident : Nat, lines : S, tail : 0..2, last : L, away : BOOLEAN]
  BY DEF Files
<1>2. w \in S /\ last \in L /\ t \in 0..2
  OBVIOUS
<1> HIDE DEF S, L
<1>3. m \in [ident : Nat, lines : S, tail : 0..2, last : L, away : BOOLEAN]
  BY <1>1, <1>2 DEF FileWith
<1>4. m.ident = l.ident /\ m.lines = w /\ m.tail = t /\ m.last = last /\ m.away = away
  BY <1>1 DEF FileWith
<1>5. QED
  BY <1>3, <1>4 DEF Files, S, L

LEMMA AppendFacts ==
  ASSUME NEW d, NEW l, l = NoFile \/ l \in Files(d), NEW ident \in Nat,
         Base(l, ident) \in Files(d),
         NEW new, new \subseteq Recs(d), IsFiniteSet(new), new # {},
         NEW m, m = AppendRecords(l, new, ident)
  PROVE  /\ m \in Files(d) /\ Appended(Base(l, ident), m, SetToSeq(new)) /\ m.tail = 0
         /\ \A r \in new : \E i \in DOMAIN LinesOf(m) : LinesOf(m)[i] = r
<1> DEFINE b == Base(l, ident)
           q == SetToSeq(new)
<1>1. b \in Files(d)
  BY BaseFacts
<1>2. q \in Seq(Recs(d)) /\ Len(q) \in Nat /\ \A r \in new : \E i \in 1..Len(q) : q[i] = r
  BY SetToSeqFacts
<1>3. Bad \in Lines(d) /\ q \in Seq(Lines(d)) /\ Recs(d) \subseteq Lines(d)
  BY <1>2 DEF Lines
<1>4. /\ m \in Files(d) /\ m.ident = b.ident /\ m.lines = LinesOf(b) \o q /\ m.tail = 0 /\ m.last = Bad
  <2>1. CASE l = NoFile
    <3>1. m = NewLedger(ident, q) /\ b = NewLedger(ident, <<>>)
      BY <2>1 DEF AppendRecords, Base
    <3>2. LinesOf(b) = <<>> /\ b.ident = ident
      BY <2>1, BaseFacts
    <3>3. LinesOf(b) \o q = q
      BY <3>2, <1>2, ConcatEmptySeq
    <3>4. m \in Files(d) /\ m.ident = ident /\ m.lines = q /\ m.tail = 0
      BY <1>3, <3>1, NewLedgerFacts
    <3>5. m.last = Bad
      BY <3>1 DEF NewLedger
    <3>6. QED
      BY <3>2, <3>3, <3>4, <3>5
  <2>2. CASE l # NoFile
    <3>1. b = l /\ m = [l EXCEPT !.lines = LinesOf(l) \o q, !.tail = 0, !.last = Bad, !.away = FALSE]
      BY <2>2, BaseFacts DEF AppendRecords
    <3>2. LinesOf(l) \o q \in Seq(Lines(d)) /\ Bad \in Lines(d)
      BY <1>1, <1>3, <3>1, JoinedIs
    <3> DEFINE w == LinesOf(l) \o q
    <3>3. m = FileWith(l, w, 0, Bad, FALSE)
      BY <3>1 DEF FileWith
    <3>4. l \in Files(d) /\ w \in Seq(Lines(d))
      BY <1>1, <3>1, <3>2
    <3> HIDE DEF w
    <3> DEFINE away == FALSE
    <3>a. away \in BOOLEAN /\ m = FileWith(l, w, 0, Bad, away)
      BY <3>3
    <3> HIDE DEF away
    <3>5. m \in Files(d) /\ m.ident = l.ident /\ m.lines = w /\ m.tail = 0 /\ m.last = Bad
      BY <3>2, <3>a, <3>4, FileWithIs
    <3>6. QED
      BY <3>1, <3>5 DEF w
  <2>3. QED
    BY <2>1, <2>2
<1> HIDE DEF b, q
<1>5. /\ Len(LinesOf(m)) = Len(LinesOf(b)) + Len(q)
      /\ \A i \in 1..Len(LinesOf(b)) : LinesOf(m)[i] = LinesOf(b)[i]
      /\ \A i \in (Len(LinesOf(b)) + 1)..(Len(LinesOf(b)) + Len(q)) : LinesOf(m)[i] = q[i - Len(LinesOf(b))]
      /\ Size(b) <= Size(m)
  <2>1. /\ Len(q) \in Nat /\ Len(LinesOf(b)) \in Nat
        /\ Joined(m.lines, LinesOf(b), q, Len(LinesOf(b)), Len(q))
    BY <1>1, <1>3, <1>4, JoinedIs
  <2> DEFINE n == Len(LinesOf(b))
             k == Len(q)
  <2>2. n \in Nat /\ k \in Nat /\ Joined(m.lines, LinesOf(b), q, n, k)
    BY <2>1
  <2> HIDE DEF n, k
  <2>3. /\ Len(LinesOf(m)) = n + k
        /\ \A i \in 1..n : LinesOf(m)[i] = LinesOf(b)[i]
        /\ \A i \in (n + 1)..(n + k) : LinesOf(m)[i] = q[i - n]
        /\ Size(b) <= Size(m)
    <3>1. b \in Files(d) /\ m \in Files(d) /\ m.tail = 0
      BY <1>1, <1>4
    <3>2. Follows(b, m, q, n, k)
      BY <2>2, <3>1, Rebuilt
    <3>3. QED
      BY <3>1, <3>2 DEF Follows
  <2>4. QED
    BY <2>3, Zenon DEF n, k
<1>6. Len(LinesOf(b)) \in Nat /\ DOMAIN LinesOf(m) = 1..Len(LinesOf(m))
  BY <1>1, <1>4, LineFacts
<1>7. Appended(b, m, q)
  BY <1>2, <1>4, <1>5, <1>6 DEF Appended
<1>8. ASSUME NEW r \in new
      PROVE  \E i \in DOMAIN LinesOf(m) : LinesOf(m)[i] = r
  <2>1. PICK i \in 1..Len(q) : q[i] = r
    BY <1>2
  <2>2. /\ i + Len(LinesOf(b)) \in (Len(LinesOf(b)) + 1)..(Len(LinesOf(b)) + Len(q))
        /\ i + Len(LinesOf(b)) \in DOMAIN LinesOf(m) /\ (i + Len(LinesOf(b))) - Len(LinesOf(b)) = i
    BY <1>2, <1>5, <1>6
  <2>3. LinesOf(m)[i + Len(LinesOf(b))] = r
    BY <1>5, <2>1, <2>2
  <2>4. QED
    BY <2>2, <2>3
<1>9. QED
  BY <1>4, <1>7, <1>8 DEF b, q

LEMMA CutFacts ==
  ASSUME NEW d, NEW l, l = NoFile \/ l \in Files(d), NEW ident \in Nat,
         Base(l, ident) \in Files(d),
         NEW new, new \subseteq Recs(d), IsFiniteSet(new),
         NEW m \in CutAppends(l, new, ident)
  PROVE  m \in Files(d) /\ Appended(Base(l, ident), m, SetToSeq(new))
<1> DEFINE b == Base(l, ident)
           q == SetToSeq(new)
<1>1. b \in Files(d)
  BY BaseFacts
<1>2. q \in Seq(Recs(d)) /\ Len(q) \in Nat /\ \A i \in 1..Len(q) : q[i] \in Recs(d)
  BY SetToSeqFacts
<1>3. \E n \in 0..(Len(q) - 1), t \in 0..2 : m = CutAppend(b, q, n, t)
  BY DEF CutAppends, Base
<1> PICK n \in 0..(Len(q) - 1), t \in 0..2 : m = CutAppend(b, q, n, t)
  BY <1>3
<1> DEFINE p    == SubSeq(q, 1, n)
           last == IF t = 2 THEN q[n + 1] ELSE Bad
<1> HIDE DEF q, b
<1>4. n \in Nat /\ n + 1 \in 1..Len(q) /\ n <= Len(q)
  BY <1>2
<1>5. p \in Seq(Recs(d)) /\ Len(p) = n /\ \A i \in 1..n : p[i] = q[i]
  <2>1. \A i \in 1..n : q[i] \in Recs(d) /\ 1 + i - 1 = i
    BY <1>2, <1>4
  <2>2. /\ p \in Seq(Recs(d)) /\ Len(p) = (IF 1 <= n THEN n - 1 + 1 ELSE 0)
        /\ \A i \in 1..(n - 1 + 1) : p[i] = q[1 + i - 1]
    BY <1>4, <2>1, SubSeqProperties
  <2> HIDE DEF p
  <2>3. QED
    BY <1>4, <2>1, <2>2
<1>6. last \in Lines(d) /\ p \in Seq(Lines(d))
  BY <1>2, <1>4, <1>5 DEF Lines
<1> HIDE DEF p
<1>7. m \in Files(d) /\ m.ident = b.ident /\ m.lines = LinesOf(b) \o p /\ m.tail = t /\ m.last = last
  <2>1. LinesOf(b) \o p \in Seq(Lines(d))
    BY <1>1, <1>6, JoinedIs
  <2>2. m = [b EXCEPT !.lines = LinesOf(b) \o p, !.tail = t, !.last = last]
    BY DEF p, CutAppend
  <2> DEFINE w == LinesOf(b) \o p
  <2>3. w \in Seq(Lines(d)) /\ m = [b EXCEPT !.lines = w, !.tail = t, !.last = last]
    BY <2>1, <2>2
  <2> HIDE DEF last, w
  <2>4. m = FileWith(b, w, t, last, b.away) /\ b.away \in BOOLEAN
    BY <1>1, <2>3 DEF Files, FileWith
  <2>5. m \in Files(d) /\ m.ident = b.ident /\ m.lines = w /\ m.tail = t /\ m.last = last
    BY <1>1, <1>6, <2>3, <2>4, FileWithIs
  <2>6. QED
    BY <2>5 DEF w
<1> HIDE DEF last
<1>8. /\ t = 0 => Len(LinesOf(m)) = Len(LinesOf(b)) + n
      /\ t # 0 => Len(LinesOf(m)) = Len(LinesOf(b)) + n + 1
      /\ \A i \in 1..Len(LinesOf(b)) : LinesOf(m)[i] = LinesOf(b)[i]
      /\ \A i \in (Len(LinesOf(b)) + 1)..(Len(LinesOf(b)) + n) : LinesOf(m)[i] = p[i - Len(LinesOf(b))]
      /\ t = 1 => LinesOf(m)[Len(LinesOf(b)) + n + 1] = Bad
      /\ t = 2 => LinesOf(m)[Len(LinesOf(b)) + n + 1] = last
      /\ Size(b) <= Size(m)
  <2> DEFINE k == Len(LinesOf(b))
  <2>1. k \in Nat /\ Joined(m.lines, LinesOf(b), p, k, Len(p))
    BY <1>1, <1>6, <1>7, JoinedIs
  <2> HIDE DEF k
  <2>2. k \in Nat /\ Joined(m.lines, LinesOf(b), p, k, n)
    BY <1>5, <2>1
  <2>3. /\ t = 0 => Len(LinesOf(m)) = k + n
        /\ t # 0 => Len(LinesOf(m)) = k + n + 1
        /\ \A i \in 1..k : LinesOf(m)[i] = LinesOf(b)[i]
        /\ \A i \in (k + 1)..(k + n) : LinesOf(m)[i] = p[i - k]
        /\ t = 1 => LinesOf(m)[k + n + 1] = Bad
        /\ t = 2 => LinesOf(m)[k + n + 1] = last
        /\ Size(b) <= Size(m)
    <3>1. b \in Files(d) /\ m \in Files(d) /\ m.tail = t /\ m.last = last /\ n \in Nat
      BY <1>1, <1>4, <1>7
    <3>2. Follows(b, m, p, k, n)
      BY <2>2, <3>1, Rebuilt
    <3>3. QED
      BY <3>1, <3>2 DEF Follows
  <2>4. QED
    BY <2>3, Zenon DEF k
<1>9. Len(LinesOf(b)) \in Nat
  BY <1>1, LineFacts
<1>10. ASSUME NEW i \in (Len(LinesOf(b)) + 1)..Len(LinesOf(m))
       PROVE  LinesOf(m)[i] \in {q[i - Len(LinesOf(b))], Bad}
  <2> DEFINE k == Len(LinesOf(b))
  <2>1. CASE i <= k + n
    <3>1. i \in (k + 1)..(k + n) /\ i - k \in 1..n
      BY <1>4, <1>9, <2>1
    <3>2. QED
      BY <1>5, <1>8, <3>1
  <2>2. CASE i > k + n
    <3>1. t # 0 /\ i = k + n + 1 /\ i - k = n + 1
      <4>1. (t = 0 => Len(LinesOf(m)) = k + n) /\ (t # 0 => Len(LinesOf(m)) = k + n + 1)
        BY <1>8
      <4>2. i \in (k + 1)..Len(LinesOf(m)) /\ k \in Nat
        BY <1>9
      <4> HIDE DEF k
      <4>3. QED
        BY <1>4, <2>2, <4>1, <4>2
    <3>2. LinesOf(m)[i] = Bad \/ (t = 2 /\ LinesOf(m)[i] = last)
      BY <1>8, <3>1
    <3>3. QED
      BY <3>1, <3>2 DEF last
  <2>3. QED
    BY <1>4, <1>9, <2>1, <2>2
<1>11. Len(LinesOf(m)) \in Len(LinesOf(b))..(Len(LinesOf(b)) + Len(q))
  BY <1>2, <1>4, <1>8, <1>9
<1>12. Appended(b, m, q)
  BY <1>7, <1>8, <1>10, <1>11 DEF Appended
<1>13. QED
  BY <1>7, <1>12 DEF b, q

-----------------------------------------------------------------------------
(***************************************************************************)
(* Transactions of the cache.                                              *)
(***************************************************************************)
Shape(c) ==
    /\ DOMAIN c = {"origins", "rows", "checks"}
    /\ DOMAIN c.origins = OriginKinds /\ DOMAIN c.rows = OriginKinds

\* m is c with other origins and rows of one kind.
Edited(c, m, kind, origins, rows) ==
    /\ Shape(m) /\ m.checks = c.checks
    /\ m.origins[kind] = origins /\ m.rows[kind] = rows
    /\ \A k \in OriginKinds \ {kind} : m.origins[k] = c.origins[k] /\ m.rows[k] = c.rows[k]

LEMMA ReplaceIs ==
  ASSUME NEW c, Shape(c), NEW kind \in OriginKinds, NEW snap, NEW evs, NEW err
  PROVE  Edited(c, ReplaceEvents(c, kind, snap, evs, err), kind,
                {o \in c.origins[kind] : o.path # snap.path} \cup {Origin(snap, Version, err)},
                {r \in c.rows[kind] : r.path # snap.path}
                    \cup (IF err THEN {} ELSE {Row(snap.path, e) : e \in evs}))
<1> DEFINE O == {o \in c.origins[kind] : o.path # snap.path} \cup {Origin(snap, Version, err)}
           R == {r \in c.rows[kind] : r.path # snap.path}
                    \cup (IF err THEN {} ELSE {Row(snap.path, e) : e \in evs})
<1>1. ReplaceEvents(c, kind, snap, evs, err) = [c EXCEPT !.origins[kind] = O, !.rows[kind] = R]
  BY DEF ReplaceEvents, Shape
<1> HIDE DEF O, R
<1>2. Edited(c, [c EXCEPT !.origins[kind] = O, !.rows[kind] = R], kind, O, R)
  BY DEF Edited, Shape
<1>3. QED
  BY <1>1, <1>2 DEF O, R

LEMMA AppendIs ==
  ASSUME NEW c, Shape(c), NEW kind \in OriginKinds, NEW snap, NEW evs
  PROVE  Edited(c, AppendEvents(c, kind, snap, evs), kind,
                {o \in c.origins[kind] : o.path # snap.path} \cup {Origin(snap, Version, FALSE)},
                InsertRows(c.rows[kind], {Row(snap.path, e) : e \in evs}))
<1> DEFINE O == {o \in c.origins[kind] : o.path # snap.path} \cup {Origin(snap, Version, FALSE)}
           R == InsertRows(c.rows[kind], {Row(snap.path, e) : e \in evs})
<1>1. AppendEvents(c, kind, snap, evs) = [c EXCEPT !.origins[kind] = O, !.rows[kind] = R]
  BY DEF AppendEvents, Shape
<1> HIDE DEF O, R
<1>2. Edited(c, [c EXCEPT !.origins[kind] = O, !.rows[kind] = R], kind, O, R)
  BY DEF Edited, Shape
<1>3. QED
  BY <1>1, <1>2 DEF O, R

LEMMA RemoveIs ==
  ASSUME NEW c, Shape(c), NEW kind \in OriginKinds, NEW paths
  PROVE  Edited(c, RemoveOrigins(c, kind, paths), kind,
                {o \in c.origins[kind] : o.path \notin paths}, {r \in c.rows[kind] : r.path \notin paths})
<1> DEFINE O == {o \in c.origins[kind] : o.path \notin paths}
           R == {r \in c.rows[kind] : r.path \notin paths}
<1>1. RemoveOrigins(c, kind, paths) = [c EXCEPT !.origins[kind] = O, !.rows[kind] = R]
  BY DEF RemoveOrigins, Shape
<1> HIDE DEF O, R
<1>2. Edited(c, [c EXCEPT !.origins[kind] = O, !.rows[kind] = R], kind, O, R)
  BY DEF Edited, Shape
<1>3. QED
  BY <1>1, <1>2 DEF O, R

LEMMA OverlapIs ==
  ASSUME NEW c, Shape(c), NEW moved
  PROVE  \E O, R : /\ Edited(c, RemoveMovedOverlap(c, moved), "log", O, R)
                   /\ O \subseteq c.origins["log"] /\ R \subseteq c.rows["log"]
<1> DEFINE over == {m[1] : m \in {x \in moved : /\ MovedRows(c, x[1], x[2]) # {}
                                                /\ MovedRows(c, x[1], x[2]) = EventsForOrigin(c, "log", x[1])}}
           O == {o \in c.origins["log"] : o.path \notin over}
           R == c.rows["log"] \ UNION {MovedRows(c, m[1], m[2]) : m \in moved}
<1>1. RemoveMovedOverlap(c, moved) = [c EXCEPT !.rows["log"] = R, !.origins["log"] = O]
  BY DEF RemoveMovedOverlap, Shape, OriginKinds
<1>2. O \subseteq c.origins["log"] /\ R \subseteq c.rows["log"]
  OBVIOUS
<1> HIDE DEF O, R
<1>3. Edited(c, [c EXCEPT !.rows["log"] = R, !.origins["log"] = O], "log", O, R)
  BY DEF Edited, Shape, OriginKinds
<1>4. QED
  BY <1>1, <1>2, <1>3

\* What the other kinds hold is kept.
SyncKept(c, m) == m.origins["sync"] = c.origins["sync"] /\ m.rows["sync"] = c.rows["sync"]

LEMMA EditLogs ==
  ASSUME NEW c, Cached(c), NEW m, NEW O, NEW R, Edited(c, m, "log", O, R), LogsCached(O, R)
  PROVE  Cached(m) /\ SyncKept(c, m)
BY DEF Cached, Edited, Shape, SyncKept, OriginKinds

LEMMA EditLedgers ==
  ASSUME NEW c, Cached(c), NEW m, NEW O, NEW R, Edited(c, m, "sync", O, R), LedgersCached(O, R)
  PROVE  Cached(m)
BY DEF Cached, Edited, Shape, OriginKinds

LEMMA FewerLogs ==
  ASSUME NEW O, NEW R, LogsCached(O, R), NEW P, NEW Q, P \subseteq O, Q \subseteq R
  PROVE  LogsCached(P, Q)
<1>1. IsFiniteSet(Q)
  BY FS_Subset DEF LogsCached
<1>2. QED
  BY <1>1 DEF LogsCached, OneEach

LEMMA FewerLedgers ==
  ASSUME NEW O, NEW R, LedgersCached(O, R), NEW P, NEW Q, P \subseteq O, Q \subseteq R
  PROVE  LedgersCached(P, Q)
BY DEF LedgersCached, OneEach

LEMMA FiniteImage ==
  ASSUME NEW f, NEW S, IsFiniteSet(S), S = DOMAIN f
  PROVE  IsFiniteSet({f[x] : x \in S})
<1> DEFINE T == {f[x] : x \in S}
           g == [x \in S |-> f[x]]
<1>1. g \in Surjection(S, T)
  BY DEF Surjection
<1>2. QED
  BY <1>1, FS_Surjection

LEMMA FiniteRows ==
  ASSUME NEW S, IsFiniteSet(S), NEW path
  PROVE  IsFiniteSet({Row(path, e) : e \in S})
<1> DEFINE f == [e \in S |-> Row(path, e)]
<1>1. IsFiniteSet({f[e] : e \in S})
  <2> HIDE DEF f
  <2>1. S = DOMAIN f
    BY DEF f
  <2>2. QED
    BY <2>1, FiniteImage
<1>2. {f[e] : e \in S} = {Row(path, e) : e \in S}
  OBVIOUS
<1>3. QED
  BY <1>1, <1>2

\* Rows of new events, each of one key, in place of the rows of their keys.
NewRows(path, evs) == {Row(path, e) : e \in evs}
Keyed(rows) == \A x, y \in rows : x.path = y.path /\ SameKey(x, y) => x = y

LEMMA InsertFacts ==
  ASSUME NEW rows, NEW path, NEW evs
  PROVE  /\ InsertRows(rows, NewRows(path, evs)) \subseteq rows \cup NewRows(path, evs)
         /\ IsFiniteSet(rows) /\ IsFiniteSet(evs) => IsFiniteSet(InsertRows(rows, NewRows(path, evs)))
         /\ Keyed(rows) /\ Unique(evs) => Keyed(InsertRows(rows, NewRows(path, evs)))
<1> DEFINE new == {Row(path, e) : e \in evs}
           old == {r \in rows : ~\E n \in new : n.path = r.path /\ n.dev = r.dev /\ n.id = r.id}
           all == InsertRows(rows, new)
<1>1. all = old \cup new
  BY DEF InsertRows
<1>2. ASSUME IsFiniteSet(rows), IsFiniteSet(evs)
      PROVE  IsFiniteSet(all)
  <2>1. IsFiniteSet(old) /\ IsFiniteSet(new)
    BY <1>2, FS_Subset, FiniteRows
  <2> HIDE DEF old, new, all
  <2>2. QED
    BY <1>1, <2>1, FS_Union
<1>3. ASSUME \A x, y \in rows : x.path = y.path /\ SameKey(x, y) => x = y, Unique(evs),
             NEW x \in all, NEW y \in all, x.path = y.path, SameKey(x, y)
      PROVE  x = y
  <2>1. CASE x \in old /\ y \in old
    BY <1>3, <2>1
  <2>2. CASE x \in new /\ y \in new
    BY <1>3, <2>2 DEF Row, Unique, SameKey
  <2>3. CASE x \in old /\ y \in new
    BY <1>3, <2>3 DEF SameKey
  <2>4. CASE x \in new /\ y \in old
    BY <1>3, <2>4 DEF SameKey
  <2>5. QED
    BY <1>1, <2>1, <2>2, <2>3, <2>4
<1>4. all \subseteq rows \cup new
  BY <1>1
<1> HIDE DEF new, old, all
<1>5. QED
  BY <1>2, <1>3, <1>4, Zenon DEF new, all, NewRows, Keyed

-----------------------------------------------------------------------------
(***************************************************************************)
(* What the transactions keep of the cache.                                *)
(***************************************************************************)
LogEvents(path, evs) ==
    /\ evs \subseteq Events /\ Unique(evs) /\ IsFiniteSet(evs)
    /\ \A e \in evs : OfPath(e, path)

LEMMA RowOfEvent ==
  ASSUME NEW path, NEW e \in Events
  PROVE  /\ Row(path, e) \in Rows(path, Own) /\ Row(path, e).path = path
         /\ OfPath(e, path) => OfPath(Row(path, e), path)
         /\ OfMeters(e) => OfMeters(Row(path, e))
<1>1. e.dev = Own /\ e.id \in Ids /\ e.at \in Nat /\ e.use \in Int
  BY DEF Events
<1>2. Row(path, e) = [path |-> path, dev |-> Own, id |-> e.id, at |-> e.at, use |-> e.use]
  BY <1>1 DEF Row
<1>3. Row(path, e) \in Rows(path, Own) /\ Row(path, e).path = path
  BY <1>1, <1>2 DEF Rows
<1>4. Row(path, e).id = e.id /\ Row(path, e).at = e.at /\ Row(path, e).use = e.use
  BY <1>2
<1>5. QED
  BY <1>3, <1>4 DEF OfPath, OfMeters

LEMMA RowOfRecord ==
  ASSUME NEW d, NEW r \in Recs(d)
  PROVE  Row(d, r) \in Rows(d, d) /\ Row(d, r).path = d /\ Row(d, r).dev = d /\ Row(d, r).id = r.id
BY DEF Recs, Row, Rows

LEMMA LogOriginIs ==
  ASSUME NEW snap \in Snaps, NEW err \in BOOLEAN
  PROVE  Origin(snap, Version, err) \in Origins(LogPaths, {"device"}) /\ Origin(snap, Version, err).path = snap.path
         /\ snap.path \in LogPaths
BY DEF Origin, Origins, Snaps, Version

LEMMA OneOrigin ==
  ASSUME NEW O, \A x, y \in O : x.path = y.path => x = y, NEW o
  PROVE  LET P == {x \in O : x.path # o.path} \cup {o} IN \A x, y \in P : x.path = y.path => x = y
OBVIOUS

LEMMA LogReplaced ==
  ASSUME NEW c, Cached(c), NEW snap \in Snaps, NEW evs, LogEvents(snap.path, evs), NEW err \in BOOLEAN,
         NEW m, m = ReplaceEvents(c, "log", snap, evs, err)
  PROVE  Cached(m) /\ SyncKept(c, m)
<1> DEFINE o   == Origin(snap, Version, err)
           O   == {x \in c.origins["log"] : x.path # snap.path} \cup {o}
           new == IF err THEN {} ELSE {Row(snap.path, e) : e \in evs}
           old == {r \in c.rows["log"] : r.path # snap.path}
           R   == old \cup new
<1>1. LogsCached(c.origins["log"], c.rows["log"]) /\ Shape(c) /\ "log" \in OriginKinds
  BY DEF Cached, Shape, OriginKinds
<1>2. Edited(c, m, "log", O, R)
  BY <1>1, ReplaceIs
<1>3. o \in Origins(LogPaths, {"device"}) /\ o.path = snap.path /\ snap.path \in LogPaths
  BY LogOriginIs
<1>4. \A r \in new : r \in Rows(snap.path, Own) /\ OfPath(r, snap.path) /\ r.path = snap.path
  BY RowOfEvent DEF LogEvents
<1>5. IsFiniteSet(new)
  <2>1. IsFiniteSet({Row(snap.path, e) : e \in evs}) /\ IsFiniteSet({})
    BY FiniteRows, FS_EmptySet DEF LogEvents
  <2>2. QED
    BY <2>1
<1>6. \A x, y \in new : SameKey(x, y) => x = y
  BY DEF LogEvents, Unique, SameKey, Row
<1> HIDE DEF o, new
<1>7. IsFiniteSet(old)
  BY <1>1, FS_Subset DEF LogsCached
<1>8. IsFiniteSet(R)
  <2> HIDE DEF old
  <2>1. QED
    BY <1>5, <1>7, FS_Union
<1>9. O \subseteq Origins(LogPaths, {"device"})
  BY <1>1, <1>3 DEF LogsCached
<1>10. \A r \in R : r.path \in LogPaths /\ r \in Rows(r.path, Own) /\ OfPath(r, r.path)
  BY <1>1, <1>3, <1>4 DEF LogsCached
<1>11. OneEach(O, R)
  BY <1>1, <1>3, <1>4, <1>6 DEF LogsCached, OneEach
<1>12. LogsCached(O, R)
  BY <1>8, <1>9, <1>10, <1>11 DEF LogsCached
<1> HIDE DEF O, R
<1>13. QED
  BY <1>2, <1>12, EditLogs

LEMMA LogAppended ==
  ASSUME NEW c, Cached(c), NEW snap \in Snaps, NEW evs, LogEvents(snap.path, evs),
         NEW m, m = AppendEvents(c, "log", snap, evs)
  PROVE  Cached(m) /\ SyncKept(c, m)
<1> DEFINE o   == Origin(snap, Version, FALSE)
           O   == {x \in c.origins["log"] : x.path # snap.path} \cup {o}
           new == {Row(snap.path, e) : e \in evs}
           R   == InsertRows(c.rows["log"], new)
<1>1. LogsCached(c.origins["log"], c.rows["log"]) /\ Shape(c) /\ "log" \in OriginKinds
  BY DEF Cached, Shape, OriginKinds
<1>2. Edited(c, m, "log", O, R)
  BY <1>1, AppendIs
<1>3. o \in Origins(LogPaths, {"device"}) /\ o.path = snap.path /\ snap.path \in LogPaths
  BY LogOriginIs
<1>4. \A r \in new : r \in Rows(snap.path, Own) /\ OfPath(r, snap.path) /\ r.path = snap.path
  BY RowOfEvent DEF LogEvents
<1>5. /\ R \subseteq c.rows["log"] \cup new /\ IsFiniteSet(R)
      /\ \A x, y \in R : x.path = y.path /\ SameKey(x, y) => x = y
  <2>1. new = NewRows(snap.path, evs) /\ Keyed(c.rows["log"]) /\ IsFiniteSet(c.rows["log"])
        /\ Unique(evs) /\ IsFiniteSet(evs)
    BY <1>1 DEF LogEvents, LogsCached, OneEach, NewRows, Keyed
  <2> HIDE DEF new
  <2>2. R \subseteq c.rows["log"] \cup new /\ IsFiniteSet(R) /\ Keyed(R)
    BY <2>1, InsertFacts
  <2>3. QED
    BY <2>2 DEF Keyed
<1> HIDE DEF o, new, R
<1>6. O \subseteq Origins(LogPaths, {"device"})
  BY <1>1, <1>3 DEF LogsCached
<1>7. \A r \in R : r.path \in LogPaths /\ r \in Rows(r.path, Own) /\ OfPath(r, r.path)
  BY <1>1, <1>3, <1>4, <1>5 DEF LogsCached
<1>8. OneEach(O, R)
  BY <1>1, <1>3, <1>5 DEF LogsCached, OneEach
<1>9. LogsCached(O, R)
  BY <1>5, <1>6, <1>7, <1>8 DEF LogsCached
<1> HIDE DEF O
<1>10. QED
  BY <1>2, <1>9, EditLogs

\* A snapshot of the ledger of d, and records of it.
LedgerRecords(d, snap, evs) ==
    /\ d \in Ledgers /\ snap.path = d /\ snap.size \in Nat /\ snap.who \in {"v2", "legacy"} \X Nat
    /\ evs \subseteq Recs(d) /\ Unique(evs)

LedgerOrigin(snap) == Origin(snap, Version, FALSE)
ReplaceLedger(c, snap, evs) == ReplaceEvents(c, "sync", snap, evs, FALSE)
Elsewhere(S, path) == {x \in S : x.path # path}

LEMMA LedgerReplaced ==
  ASSUME NEW c, Cached(c), NEW d, NEW snap, NEW evs, LedgerRecords(d, snap, evs),
         NEW m, m = ReplaceLedger(c, snap, evs)
  PROVE  /\ Cached(m)
         /\ m.origins["sync"] = Elsewhere(c.origins["sync"], d) \cup {LedgerOrigin(snap)}
         /\ m.rows["sync"] = Elsewhere(c.rows["sync"], d) \cup NewRows(d, evs)
<1> DEFINE o   == Origin(snap, Version, FALSE)
           O   == {x \in c.origins["sync"] : x.path # snap.path} \cup {o}
           new == {Row(snap.path, e) : e \in evs}
           R   == {r \in c.rows["sync"] : r.path # snap.path} \cup new
<1>1. LedgersCached(c.origins["sync"], c.rows["sync"]) /\ Shape(c) /\ "sync" \in OriginKinds /\ snap.path = d
  BY DEF Cached, Shape, OriginKinds, LedgerRecords
<1>2. Edited(c, m, "sync", O, R)
  <2> DEFINE err == FALSE
             P == {x \in c.origins["sync"] : x.path # snap.path} \cup {Origin(snap, Version, err)}
             S == {r \in c.rows["sync"] : r.path # snap.path} \cup (IF err THEN {} ELSE new)
  <2>1. m = ReplaceEvents(c, "sync", snap, evs, err) /\ ~err
    BY DEF ReplaceLedger
  <2>2. O = P /\ (~err => S = R)
    OBVIOUS
  <2> HIDE DEF err
  <2>3. Edited(c, m, "sync", P, S)
    <3>1. Shape(c) /\ "sync" \in OriginKinds
      BY <1>1
    <3>2. Edited(c, ReplaceEvents(c, "sync", snap, evs, err), "sync", P, S)
      BY ONLY <3>1, ReplaceIs
    <3>3. QED
      BY <2>1, <3>2
  <2> HIDE DEF S, R, O, P
  <2>4. QED
    BY <2>1, <2>2, <2>3
<1>3. o \in Origins(Ledgers, {"v2", "legacy"} \X Nat) /\ o.path = d
  BY DEF LedgerRecords, Origin, Origins, Version
<1>4. \A r \in new : r \in Rows(d, d) /\ r.path = d
  BY RowOfRecord DEF LedgerRecords
<1>5. \A x, y \in new : SameKey(x, y) => x = y
  BY DEF LedgerRecords, Unique, SameKey, Row
<1> HIDE DEF o, new
<1>6. O \subseteq Origins(Ledgers, {"v2", "legacy"} \X Nat)
  BY <1>1, <1>3 DEF LedgersCached
<1>7. \A r \in R : r.path \in Ledgers /\ r \in Rows(r.path, r.path)
  BY <1>1, <1>4 DEF LedgersCached, LedgerRecords
<1>8. OneEach(O, R)
  BY <1>1, <1>3, <1>4, <1>5 DEF LedgersCached, OneEach
<1>9. LedgersCached(O, R)
  BY <1>6, <1>7, <1>8 DEF LedgersCached
<1>10. m.origins["sync"] = O /\ m.rows["sync"] = R
  BY <1>2 DEF Edited
<1>11. Cached(m)
  <2> HIDE DEF O, R
  <2>1. QED
    BY <1>2, <1>9, EditLedgers
<1>12. QED
  BY <1>1, <1>10, <1>11 DEF o, new, LedgerOrigin, Elsewhere, NewRows

LEMMA LedgerAppended ==
  ASSUME NEW c, Cached(c), NEW d, NEW snap, NEW evs, LedgerRecords(d, snap, evs),
         NEW m, m = AppendEvents(c, "sync", snap, evs)
  PROVE  /\ Cached(m)
         /\ m.origins["sync"] = Elsewhere(c.origins["sync"], d) \cup {LedgerOrigin(snap)}
         /\ m.rows["sync"] = InsertRows(c.rows["sync"], NewRows(d, evs))
<1> DEFINE o   == Origin(snap, Version, FALSE)
           O   == {x \in c.origins["sync"] : x.path # snap.path} \cup {o}
           new == {Row(snap.path, e) : e \in evs}
           R   == InsertRows(c.rows["sync"], new)
<1>1. LedgersCached(c.origins["sync"], c.rows["sync"]) /\ Shape(c) /\ "sync" \in OriginKinds /\ snap.path = d
  BY DEF Cached, Shape, OriginKinds, LedgerRecords
<1>2. Edited(c, m, "sync", O, R)
  BY <1>1, AppendIs
<1>3. o \in Origins(Ledgers, {"v2", "legacy"} \X Nat) /\ o.path = d
  BY DEF LedgerRecords, Origin, Origins, Version
<1>4. \A r \in new : r \in Rows(d, d) /\ r.path = d
  BY RowOfRecord DEF LedgerRecords
<1>5. /\ R \subseteq c.rows["sync"] \cup new
      /\ \A x, y \in R : x.path = y.path /\ SameKey(x, y) => x = y
  <2>1. new = NewRows(snap.path, evs) /\ Keyed(c.rows["sync"]) /\ Unique(evs)
    BY <1>1 DEF LedgerRecords, LedgersCached, OneEach, NewRows, Keyed
  <2> HIDE DEF new
  <2>2. R \subseteq c.rows["sync"] \cup new /\ Keyed(R)
    BY <2>1, InsertFacts
  <2>3. QED
    BY <2>2 DEF Keyed
<1> HIDE DEF o, new, R
<1>6. O \subseteq Origins(Ledgers, {"v2", "legacy"} \X Nat)
  BY <1>1, <1>3 DEF LedgersCached
<1>7. \A r \in R : r.path \in Ledgers /\ r \in Rows(r.path, r.path)
  BY <1>1, <1>4, <1>5 DEF LedgersCached, LedgerRecords
<1>8. OneEach(O, R)
  BY <1>1, <1>3, <1>5 DEF LedgersCached, OneEach
<1>9. LedgersCached(O, R)
  BY <1>6, <1>7, <1>8 DEF LedgersCached
<1>10. m.origins["sync"] = O /\ m.rows["sync"] = R
  BY <1>2 DEF Edited
<1>11. Cached(m)
  <2> HIDE DEF O
  <2>1. QED
    BY <1>2, <1>9, EditLedgers
<1>12. QED
  BY <1>1, <1>10, <1>11 DEF o, new, R, LedgerOrigin, Elsewhere, NewRows

LEMMA MetersApplied ==
  ASSUME NEW c, Cached(c), NEW updates, MeterUpdates(updates),
         NEW m, m = ApplyHermesUpdates(c, HermesPath, updates)
  PROVE  Cached(m) /\ SyncKept(c, m)
<1> DEFINE evs == UNION {u.event : u \in updates}
           R   == InsertRows(c.rows["hermes"], NewRows(HermesPath, evs))
           C   == {k \in c.checks : ~\E u \in updates : u.session = k.session}
                  \cup {[session |-> u.session, use |-> u.use, seq |-> u.seq] : u \in updates}
<1>1. MetersCached(c.origins["hermes"], c.rows["hermes"], c.checks) /\ Shape(c)
  BY DEF Cached, Shape
<1>2. m = [c EXCEPT !.rows["hermes"] = R, !.checks = C]
  <2>1. UNION {{Row(HermesPath, e) : e \in u.event} : u \in updates} = NewRows(HermesPath, evs)
    BY DEF NewRows
  <2>2. QED
    BY <1>1, <2>1 DEF ApplyHermesUpdates, Shape, OriginKinds
<1>3. /\ Shape(m) /\ m.checks = C /\ m.rows["hermes"] = R /\ m.origins = c.origins
      /\ m.rows["log"] = c.rows["log"] /\ m.rows["sync"] = c.rows["sync"]
  <2> HIDE DEF R, C
  <2>1. QED
    BY <1>1, <1>2 DEF Shape, OriginKinds
<1>4. \A e \in evs : e \in Events /\ OfMeters(e)
  BY DEF MeterUpdates
<1>5. Unique(evs)
  <2>1. ASSUME NEW u \in updates, NEW v \in updates, NEW e \in u.event, NEW f \in v.event, SameKey(e, f)
        PROVE  e = f
    <3>1. u.session = v.session
      BY <2>1 DEF MeterUpdates, SameKey
    <3>2. u = v
      BY <3>1 DEF MeterUpdates
    <3>3. QED
      BY <3>2 DEF MeterUpdates
  <2>2. QED
    BY <2>1 DEF Unique
<1>6. \A r \in NewRows(HermesPath, evs) : r \in Rows(HermesPath, Own) /\ OfMeters(r)
  BY <1>4, RowOfEvent DEF NewRows
<1>7. IsFiniteSet(evs)
  BY DEF MeterUpdates
<1>8. Keyed(c.rows["hermes"]) /\ IsFiniteSet(c.rows["hermes"])
  BY <1>1 DEF MetersCached, OneEach, Keyed
<1> HIDE DEF evs
<1>9. /\ R \subseteq c.rows["hermes"] \cup NewRows(HermesPath, evs) /\ IsFiniteSet(R) /\ Keyed(R)
  BY <1>5, <1>7, <1>8, InsertFacts
<1> HIDE DEF R
<1>10. C \subseteq Checks
  <2>1. c.checks \subseteq Checks
    BY <1>1 DEF MetersCached
  <2>2. \A u \in updates : [session |-> u.session, use |-> u.use, seq |-> u.seq] \in Checks
    BY DEF MeterUpdates, Checks
  <2>3. QED
    BY <2>1, <2>2
<1>11. \A x, y \in C : x.session = y.session => x = y
  BY <1>1 DEF MeterUpdates, MetersCached
<1> HIDE DEF C
<1>12. \A r \in R : r \in Rows(HermesPath, Own) /\ OfMeters(r)
  BY <1>1, <1>6, <1>9 DEF MetersCached
<1>13. MetersCached(m.origins["hermes"], R, C)
  BY <1>1, <1>3, <1>9, <1>10, <1>11, <1>12 DEF MetersCached, OneEach, Keyed
<1>14. QED
  BY <1>3, <1>13 DEF Cached, Shape, SyncKept, OriginKinds

LEMMA EmptyCached == Cached(EmptyCache)
<1>1. IsFiniteSet({})
  BY FS_EmptySet
<1>2. QED
  BY <1>1 DEF Cached, EmptyCache, OriginKinds, LogsCached, LedgersCached, MetersCached, OneEach

LEMMA LedgersForgotten ==
  ASSUME NEW c, Cached(c), NEW paths, NEW m, m = RemoveOrigins(c, "sync", paths)
  PROVE  /\ Cached(m)
         /\ m.origins["sync"] = {o \in c.origins["sync"] : o.path \notin paths}
         /\ m.rows["sync"] = {r \in c.rows["sync"] : r.path \notin paths}
<1> DEFINE O == {o \in c.origins["sync"] : o.path \notin paths}
           R == {r \in c.rows["sync"] : r.path \notin paths}
<1>1. LedgersCached(c.origins["sync"], c.rows["sync"]) /\ Shape(c) /\ "sync" \in OriginKinds
  BY DEF Cached, Shape, OriginKinds
<1>2. Edited(c, m, "sync", O, R)
  BY <1>1, RemoveIs
<1>3. LedgersCached(O, R)
  <2>1. O \subseteq c.origins["sync"] /\ R \subseteq c.rows["sync"]
    OBVIOUS
  <2> HIDE DEF O, R
  <2>2. QED
    BY <1>1, <2>1, FewerLedgers
<1>4. m.origins["sync"] = O /\ m.rows["sync"] = R
  BY <1>2 DEF Edited
<1>5. Cached(m)
  <2> HIDE DEF O, R
  <2>1. QED
    BY <1>2, <1>3, EditLedgers
<1>6. QED
  BY <1>4, <1>5

LEMMA LogsForgotten ==
  ASSUME NEW c, Cached(c), NEW paths, NEW m, m = RemoveOrigins(c, "log", paths)
  PROVE  Cached(m) /\ SyncKept(c, m)
<1> DEFINE O == {o \in c.origins["log"] : o.path \notin paths}
           R == {r \in c.rows["log"] : r.path \notin paths}
<1>1. LogsCached(c.origins["log"], c.rows["log"]) /\ Shape(c) /\ "log" \in OriginKinds
  BY DEF Cached, Shape, OriginKinds
<1>2. Edited(c, m, "log", O, R)
  BY <1>1, RemoveIs
<1>3. O \subseteq c.origins["log"] /\ R \subseteq c.rows["log"]
  OBVIOUS
<1> HIDE DEF O, R
<1>4. LogsCached(O, R)
  BY <1>1, <1>3, FewerLogs
<1>5. QED
  BY <1>2, <1>4, EditLogs

LEMMA OverlapRemoved ==
  ASSUME NEW c, Cached(c), NEW moved, NEW m, m = RemoveMovedOverlap(c, moved)
  PROVE  Cached(m) /\ SyncKept(c, m)
<1>1. LogsCached(c.origins["log"], c.rows["log"]) /\ Shape(c)
  BY DEF Cached, Shape
<1>2. PICK O, R : Edited(c, m, "log", O, R) /\ O \subseteq c.origins["log"] /\ R \subseteq c.rows["log"]
  BY <1>1, OverlapIs
<1>3. LogsCached(O, R)
  BY <1>1, <1>2, FewerLogs
<1>4. QED
  BY <1>2, <1>3, EditLogs

-----------------------------------------------------------------------------
(***************************************************************************)
(* Events.                                                                 *)
(***************************************************************************)
LEMMA EventOfRow ==
  ASSUME NEW path, NEW r \in Rows(path, Own)
  PROVE  /\ FromRow(r) \in Events /\ FromRow(r).id = r.id /\ FromRow(r).dev = r.dev
         /\ r.dev = Own /\ r.path = path
         /\ \A p : OfPath(r, p) => OfPath(FromRow(r), p)
<1>1. r.dev = Own /\ r.path = path /\ r.id \in Ids /\ r.at \in Nat /\ r.use \in Int
  BY DEF Rows
<1>2. /\ FromRow(r).id = r.id /\ FromRow(r).at = r.at /\ FromRow(r).use = r.use /\ FromRow(r).dev = r.dev
      /\ FromRow(r) \in Events
  BY <1>1 DEF FromRow, Events
<1>3. QED
  BY <1>1, <1>2 DEF OfPath

\* Rows of one event have one time.
LEMMA SameTime ==
  ASSUME NEW c, Cached(c), NEW x \in c.rows["log"] \cup c.rows["hermes"],
         NEW y \in c.rows["log"] \cup c.rows["hermes"], SameKey(x, y)
  PROVE  x.at = y.at
<1>1. LogsCached(c.origins["log"], c.rows["log"]) /\ MetersCached(c.origins["hermes"], c.rows["hermes"], c.checks)
  BY DEF Cached
<1>2. \A r \in c.rows["hermes"] : r.id[1] = "hermes" /\ r.at = 0
  BY <1>1 DEF MetersCached, OfMeters
<1>3. \A r \in c.rows["log"] : r.id[1] # "hermes" /\ r.path \in LogPaths /\ OfPath(r, r.path)
  BY <1>1 DEF LogsCached, OfPath
<1>4. x.id = y.id
  BY DEF SameKey
<1>5. CASE x \in c.rows["hermes"]
  BY <1>2, <1>3, <1>4, <1>5
<1>6. CASE x \in c.rows["log"]
  <2>1. y \in c.rows["log"]
    BY <1>2, <1>3, <1>4, <1>6
  <2>2. OfPath(x, x.path) /\ OfPath(y, y.path) /\ x.path \in LogPaths /\ y.path \in LogPaths
    BY <1>3, <1>6, <2>1
  <2>3. x.path[2] = y.path[2]
    BY <1>4, <2>2 DEF OfPath
  <2>4. x.path[1] = "claude" <=> y.path[1] = "claude"
    BY <2>2, <2>3, ProofAssumption DEF LogPaths
  <2>5. CASE x.path[1] # "claude"
    BY <1>4, <2>2, <2>4, <2>5 DEF OfPath
  <2>6. CASE x.path[1] = "claude"
    <3>1. x.path = y.path
      BY <2>2, <2>3, <2>4, <2>6 DEF LogPaths
    <3>2. x = y
      BY <1>1, <1>6, <2>1, <3>1 DEF LogsCached, OneEach
    <3>3. QED
      BY <3>2
  <2>7. QED
    BY <2>5, <2>6
<1>7. QED
  BY <1>5, <1>6

LEMMA LocalEventsFacts ==
  ASSUME NEW c, Cached(c)
  PROVE  LET evs == {FromRow(r) : r \in LocalEvents(c)}
         IN  evs \subseteq Events /\ Unique(evs) /\ IsFiniteSet(evs)
<1> DEFINE rows    == c.rows["log"] \cup c.rows["hermes"]
           Same(r) == {x \in rows : x.dev = r.dev /\ x.id = r.id}
           one(r)  == CHOOSE x \in Same(r) : \A y \in Same(r) : y.at <= x.at
           evs     == {FromRow(one(r)) : r \in rows}
<1>1. evs = {FromRow(r) : r \in LocalEvents(c)}
  BY DEF LocalEvents
<1>2. LogsCached(c.origins["log"], c.rows["log"]) /\ MetersCached(c.origins["hermes"], c.rows["hermes"], c.checks)
  BY DEF Cached
<1>3. \A r \in rows : r \in Rows(r.path, Own) /\ r.at \in Nat /\ r.dev = Own
  <2>1. \A r \in rows : r \in Rows(r.path, Own)
    BY <1>2 DEF LogsCached, MetersCached, Rows
  <2>2. QED
    BY <2>1 DEF Rows
<1>4. \A r \in rows : one(r) \in rows /\ one(r).id = r.id
  <2>1. SUFFICES ASSUME NEW r \in rows PROVE one(r) \in rows /\ one(r).id = r.id
    OBVIOUS
  <2>2. r \in Same(r)
    OBVIOUS
  <2>3. \A y \in Same(r) : y.at <= r.at
    <3>1. SUFFICES ASSUME NEW y \in Same(r) PROVE y.at <= r.at
      OBVIOUS
    <3>2. y.at = r.at
      BY SameTime DEF SameKey
    <3>3. QED
      BY <1>3, <3>2
  <2>4. one(r) \in Same(r)
    BY <2>2, <2>3
  <2>5. QED
    BY <2>4
<1>5. evs \subseteq Events
  <2>1. \A r \in rows : FromRow(one(r)) \in Events
    BY <1>3, <1>4, EventOfRow
  <2>2. QED
    BY <2>1
<1>6. Unique(evs)
  <2>1. ASSUME NEW r \in rows, NEW q \in rows, SameKey(FromRow(one(r)), FromRow(one(q)))
        PROVE  one(r) = one(q)
    <3>1. one(r).id = one(q).id
      BY <2>1 DEF SameKey, FromRow
    <3>2. r.id = q.id /\ r.dev = q.dev
      BY <1>3, <1>4, <3>1
    <3>3. Same(r) = Same(q)
      BY <3>2
    <3>4. QED
      BY <3>3
  <2> HIDE DEF one
  <2>2. QED
    BY <2>1 DEF Unique
<1>7. IsFiniteSet(evs)
  <2> DEFINE f == [r \in rows |-> FromRow(one(r))]
  <2>1. IsFiniteSet(rows)
    BY <1>2, FS_Union DEF LogsCached, MetersCached
  <2>2. {f[r] : r \in rows} = evs
    OBVIOUS
  <2>3. rows = DOMAIN f
    OBVIOUS
  <2> HIDE DEF f, rows
  <2>4. IsFiniteSet({f[r] : r \in rows})
    BY <2>1, <2>3, FiniteImage
  <2>5. QED
    BY <2>2, <2>4
<1> HIDE DEF evs
<1>8. QED
  BY <1>1, <1>5, <1>6, <1>7

\* Of events that were all read here the later one of a key counts.
LEMMA MergeLocal ==
  ASSUME NEW first, NEW second, first \subseteq Events, second \subseteq Events,
         Unique(first), Unique(second), IsFiniteSet(first), IsFiniteSet(second),
         NEW m, m = Merge(first, second)
  PROVE  m \subseteq Events /\ m \subseteq first \cup second /\ Unique(m) /\ IsFiniteSet(m)
<1>1. \A e \in Events : e.local
  BY DEF Events
<1>2. m = {e \in first : ~\E x \in second : SameKey(x, e)} \cup second
  BY <1>1 DEF Merge
<1>3. Unique(m)
  BY <1>2 DEF Unique, SameKey
<1>4. IsFiniteSet(first \cup second)
  BY FS_Union
<1>5. m \subseteq first \cup second
  BY <1>2
<1>6. IsFiniteSet(m)
  BY <1>4, <1>5, FS_Subset
<1>7. QED
  BY <1>3, <1>5, <1>6

LEMMA EventsAfterFacts ==
  ASSUME NEW path \in LogPaths, NEW from \in Nat, NEW upto \in Nat
  PROVE  LogEvents(path, EventsAfter(path, from, upto))
<1>1. path[2] \in Names \cup Projects
  BY DEF LogPaths
<1>2. ASSUME NEW i \in Nat
      PROVE  LogEvent(path, i) \in Events
  <2> DEFINE k == IF path[1] = "claude" THEN 1 ELSE i
             u == IF path[1] = "claude" THEN i ELSE 1
  <2>1. k \in Nat /\ u \in Int
    OBVIOUS
  <2>2. LogEvent(path, i) = [dev |-> Own, id |-> <<"log", path[2], k>>, at |-> i, use |-> u, local |-> TRUE]
    BY DEF LogEvent
  <2> HIDE DEF k, u
  <2>3. <<"log", path[2], k>> \in Ids
    BY <1>1, <2>1 DEF Ids
  <2>4. QED
    BY <2>1, <2>2, <2>3 DEF Events
<1>3. ASSUME NEW i \in Nat
      PROVE  OfPath(LogEvent(path, i), path)
  BY DEF OfPath, LogEvent
<1>4. CASE path[1] = "claude"
  <2>1. EventsAfter(path, from, upto) \subseteq {LogEvent(path, upto)}
    BY <1>4 DEF EventsAfter
  <2>2. IsFiniteSet({LogEvent(path, upto)})
    BY FS_Singleton
  <2>3. IsFiniteSet(EventsAfter(path, from, upto))
    BY <2>1, <2>2, FS_Subset
  <2>4. QED
    BY <1>2, <1>3, <2>1, <2>3 DEF LogEvents, Unique
<1>5. CASE path[1] # "claude"
  <2> DEFINE I == (from + 1)..upto
             f == [i \in I |-> LogEvent(path, i)]
             S == EventsAfter(path, from, upto)
  <2>1. S = {LogEvent(path, i) : i \in I}
    BY <1>5 DEF EventsAfter
  <2>2. S = {f[i] : i \in I} /\ I = DOMAIN f
    BY <2>1
  <2>3. IsFiniteSet(I)
    <3>1. from + 1 \in Int /\ upto \in Int
      OBVIOUS
    <3>2. QED
      BY <3>1, FS_Interval
  <2>4. \A i \in I : i \in Nat
    OBVIOUS
  <2> HIDE DEF S, I, f
  <2>5. IsFiniteSet(S)
    BY <2>2, <2>3, FiniteImage
  <2>6. S \subseteq Events /\ \A e \in S : OfPath(e, path)
    BY <1>2, <1>3, <2>1, <2>4
  <2>7. Unique(S)
    <3>1. ASSUME NEW i \in I, NEW j \in I, SameKey(LogEvent(path, i), LogEvent(path, j))
          PROVE  i = j
      <4>1. LogEvent(path, i).id[3] = i /\ LogEvent(path, j).id[3] = j
        BY <1>5 DEF LogEvent
      <4>2. QED
        BY <3>1, <4>1 DEF SameKey
    <3>2. QED
      BY <2>1, <3>1 DEF Unique
  <2>8. QED
    BY <2>5, <2>6, <2>7 DEF LogEvents, S
<1>6. QED
  BY <1>4, <1>5

LEMMA ParseFacts ==
  ASSUME WorldInv, NEW path \in LogPaths, NEW off \in Nat
  PROVE  \A evs \in ParseFrom(path, off) : LogEvents(path, evs)
<1>1. SUFFICES ASSUME NEW evs \in ParseFrom(path, off)
               PROVE  LogEvents(path, evs)
  OBVIOUS
<1> DEFINE from == IF off > LogSize(logs[path]) THEN LogSize(logs[path]) ELSE off
<1>2. Present(path) /\ evs = EventsAfter(path, from \div Width, LinesRead(logs[path]))
  BY DEF ParseFrom
<1>3. logs[path].n \in Nat /\ logs[path].tail \in 0..2
  BY <1>2, UsageAssumption DEF WorldInv
<1>4. LogSize(logs[path]) \in Nat /\ LinesRead(logs[path]) \in Nat
  <2>1. LogSize(logs[path]) \in Nat
    BY <1>3 DEF LogSize, Width
  <2>2. LinesRead(logs[path]) \in Nat
    BY <1>3 DEF LinesRead
  <2>3. QED
    BY <2>1, <2>2
<1>5. from \div Width \in Nat
  BY <1>4, Division
<1>6. QED
  BY <1>2, <1>4, <1>5, EventsAfterFacts

LEMMA CachedLogFacts ==
  ASSUME CacheInv, NEW path \in LogPaths
  PROVE  LogEvents(path, {FromRow(r) : r \in EventsForOrigin(cache, "log", path)})
<1> DEFINE rows == EventsForOrigin(cache, "log", path)
           f    == [r \in rows |-> FromRow(r)]
           S    == {FromRow(r) : r \in rows}
<1>1. LogsCached(cache.origins["log"], cache.rows["log"])
  BY DEF CacheInv, Cached
<1>2. rows \subseteq cache.rows["log"] /\ \A r \in rows : r.path = path
  BY DEF EventsForOrigin
<1>3. IsFiniteSet(rows)
  BY <1>1, <1>2, FS_Subset DEF LogsCached
<1>4. \A r \in rows : r \in Rows(path, Own) /\ OfPath(r, path)
  BY <1>1, <1>2 DEF LogsCached
<1>5. S = {f[r] : r \in rows} /\ rows = DOMAIN f
  OBVIOUS
<1>6. \A r \in rows : FromRow(r) \in Events /\ OfPath(FromRow(r), path) /\ FromRow(r).id = r.id /\ r.dev = Own
  BY <1>4, EventOfRow
<1>7. \A r, q \in rows : r.id = q.id => r = q
  BY <1>1, <1>2, <1>6 DEF LogsCached, OneEach, SameKey
<1> HIDE DEF f, rows
<1>8. IsFiniteSet(S)
  BY <1>3, <1>5, FiniteImage
<1>9. Unique(S)
  BY <1>6, <1>7 DEF Unique, SameKey
<1>10. QED
  BY <1>6, <1>8, <1>9 DEF LogEvents, rows

LEMMA MeterUpdatesRead ==
  ASSUME CacheInv, WorldInv
  PROVE  MeterUpdates({MeterUpdate(s) : s \in CountingSessions})
<1> DEFINE was(s)   == Checkpoints(cache, s)
           seq(s)   == IF was(s) = {} THEN 0 ELSE (CHOOSE k \in was(s) : TRUE).seq
           prev(s)  == IF was(s) = {} THEN 0 ELSE (CHOOSE k \in was(s) : TRUE).use
           grown(s) == was(s) = {} \/ meter[s] > prev(s)
           event(s) == MeterEvent(s, seq(s) + 1, meter[s] - prev(s))
           U        == {MeterUpdate(s) : s \in CountingSessions}
<1>1. CountingSessions \subseteq Meters /\ \A s \in CountingSessions : meter[s] \in Nat
  BY DEF CountingSessions, WorldInv
<1>2. \A s \in CountingSessions : seq(s) \in Nat /\ prev(s) \in Nat
  <2>1. ASSUME NEW s \in CountingSessions
        PROVE  seq(s) \in Nat /\ prev(s) \in Nat
    <3>1. was(s) \subseteq Checks
      BY DEF Checkpoints, CacheInv, Cached, MetersCached
    <3> HIDE DEF was
    <3>2. \A k \in Checks : k.seq \in Nat /\ k.use \in Nat
      BY DEF Checks
    <3>3. was(s) # {} => (CHOOSE k \in was(s) : TRUE) \in was(s)
      OBVIOUS
    <3>4. QED
      BY <3>1, <3>2, <3>3
  <2> HIDE DEF seq, prev
  <2>2. QED
    BY <2>1
<1>3. \A s \in CountingSessions :
         MeterUpdate(s) = [session |-> s, use |-> meter[s], seq |-> IF grown(s) THEN seq(s) + 1 ELSE seq(s),
                           event |-> IF grown(s) THEN {event(s)} ELSE {}]
  BY DEF MeterUpdate
<1> HIDE DEF seq, prev, grown
<1>4. \A s \in CountingSessions : event(s) \in Events /\ OfMeters(event(s)) /\ event(s).id[2] = s
  <2>1. ASSUME NEW s \in CountingSessions
        PROVE  event(s) \in Events /\ OfMeters(event(s)) /\ event(s).id[2] = s
    <3>1. event(s) = [dev |-> Own, id |-> <<"hermes", s, seq(s) + 1>>, at |-> 0, use |-> meter[s] - prev(s),
                      local |-> TRUE]
      BY DEF MeterEvent
    <3>2. seq(s) + 1 \in Nat /\ meter[s] - prev(s) \in Int /\ s \in Meters
      BY <1>1, <1>2
    <3>3. <<"hermes", s, seq(s) + 1>> \in Ids
      BY <3>2 DEF Ids
    <3> DEFINE n == seq(s) + 1
               u == meter[s] - prev(s)
    <3>4. event(s) = [dev |-> Own, id |-> <<"hermes", s, n>>, at |-> 0, use |-> u, local |-> TRUE]
      BY <3>1
    <3>5. n \in Nat /\ u \in Int /\ <<"hermes", s, n>> \in Ids
      BY <3>2, <3>3
    <3> HIDE DEF event, n, u
    <3>6. QED
      BY <3>4, <3>5 DEF Events, OfMeters
  <2> HIDE DEF event
  <2>2. QED
    BY <2>1
<1> HIDE DEF event
<1>5. ASSUME NEW s \in CountingSessions
      PROVE  LET u == MeterUpdate(s) IN
             /\ u.session = s /\ u.use \in Nat /\ u.seq \in Nat
             /\ u.event \subseteq {event(s)}
  BY <1>1, <1>2, <1>3
<1>6. /\ \A u \in U :
          /\ u.session \in Meters /\ u.use \in Nat /\ u.seq \in Nat
          /\ u.event \subseteq Events
          /\ \A e \in u.event : OfMeters(e) /\ e.id[2] = u.session
          /\ \A e, f \in u.event : e = f
      /\ \A u, v \in U : u.session = v.session => u = v
  BY <1>1, <1>4, <1>5
<1>7. IsFiniteSet(UNION {u.event : u \in U})
  <2> DEFINE f == [s \in CountingSessions |-> event(s)]
             T == {f[s] : s \in CountingSessions}
  <2>1. IsFiniteSet(CountingSessions)
    BY <1>1, ProofAssumption, FS_Subset
  <2>2. CountingSessions = DOMAIN f /\ \A s \in CountingSessions : f[s] = event(s)
    OBVIOUS
  <2> HIDE DEF f
  <2>3. IsFiniteSet(T)
    BY <2>1, <2>2, FiniteImage
  <2>4. UNION {u.event : u \in U} \subseteq T
    BY <1>5, <2>2
  <2>5. QED
    BY <2>3, <2>4, FS_Subset
<1> HIDE DEF U
<1>8. MeterUpdates(U)
  BY <1>6, <1>7 DEF MeterUpdates
<1>9. QED
  BY <1>8 DEF U

\* A plan to store events of a log.
PlanOf(p, f) ==
    /\ p.snap = f /\ p.mode \in {"append", "replace", "error"}
    /\ LogEvents(f.path, p.events) /\ LogEvents(f.path, p.result)

LEMMA NoEvents ==
  ASSUME NEW path
  PROVE  LogEvents(path, {})
BY FS_EmptySet DEF LogEvents, Unique

LEMMA MergedLog ==
  ASSUME NEW path, NEW first, NEW second, LogEvents(path, first), LogEvents(path, second)
  PROVE  LogEvents(path, Merge(first, second))
<1> DEFINE m == Merge(first, second)
<1>1. m = Merge(first, second)
  OBVIOUS
<1> HIDE DEF m
<1>2. m \subseteq Events /\ m \subseteq first \cup second /\ Unique(m) /\ IsFiniteSet(m)
  BY <1>1, MergeLocal DEF LogEvents
<1>3. LogEvents(path, m)
  BY <1>2 DEF LogEvents
<1>4. QED
  BY <1>1, <1>3

LEMMA AppendBaseFacts ==
  ASSUME CacheInv, NEW f \in Snaps
  PROVE  AppendBase(cache, f) \subseteq Nat /\ \A a, b \in AppendBase(cache, f) : a = b
<1> DEFINE O == {x \in OriginFile(cache, "log", f.path) :
                        x.ver = Version /\ x.who = f.who /\ ~x.err /\ x.size > 0 /\ f.size > x.size}
<1>1. \A o \in O : o \in cache.origins["log"] /\ o.path = f.path
  BY DEF OriginFile
<1>2. \A o \in cache.origins["log"] : o.size \in Nat
  BY DEF CacheInv, Cached, LogsCached, Origins
<1>3. \A o, p \in O : o = p
  BY <1>1 DEF CacheInv, Cached, LogsCached, OneEach
<1>4. AppendBase(cache, f) = {o.size : o \in O}
  BY DEF AppendBase
<1> HIDE DEF O
<1>5. QED
  BY <1>1, <1>2, <1>3, <1>4

LEMMA TailsFacts ==
  ASSUME CacheInv, WorldInv, NEW f \in Snaps,
         NEW tails, tails = UNION {ParseFrom(f.path, b) : b \in AppendBase(cache, f)}
  PROVE  LogEvents(f.path, UNION tails)
<1>1. f.path \in LogPaths
  BY DEF Snaps
<1>2. \A evs \in tails : LogEvents(f.path, evs)
  BY <1>1, AppendBaseFacts, ParseFacts
<1>3. \A x, y \in tails : x = y
  <2>1. \A b \in AppendBase(cache, f) : \A x, y \in ParseFrom(f.path, b) : x = y
    BY DEF ParseFrom
  <2>2. QED
    BY <2>1, AppendBaseFacts
<1>4. CASE tails = {}
  <2>1. UNION tails = {}
    BY <1>4
  <2>2. QED
    BY <2>1, NoEvents
<1>5. CASE tails # {}
  <2>1. PICK evs \in tails : TRUE
    BY <1>5
  <2>2. UNION tails = evs
    BY <1>3, <2>1
  <2>3. QED
    BY <1>2, <2>2
<1>6. QED
  BY <1>4, <1>5

LEMMA WholeFacts ==
  ASSUME WorldInv, NEW f \in Snaps, NEW whole, whole = ParseFrom(f.path, 0)
  PROVE  LogEvents(f.path, UNION whole)
<1>1. f.path \in LogPaths
  BY DEF Snaps
<1>2. \A evs \in whole : LogEvents(f.path, evs)
  BY <1>1, ParseFacts
<1>3. \A x, y \in whole : x = y
  BY DEF ParseFrom
<1>4. CASE whole = {}
  <2>1. UNION whole = {}
    BY <1>4
  <2>2. QED
    BY <2>1, NoEvents
<1>5. CASE whole # {}
  <2>1. PICK evs \in whole : TRUE
    BY <1>5
  <2>2. UNION whole = evs
    BY <1>3, <2>1
  <2>3. QED
    BY <1>2, <2>2
<1>6. QED
  BY <1>4, <1>5

-----------------------------------------------------------------------------
(***************************************************************************)
(* What is left alone, and the steps before the export.                    *)
(***************************************************************************)
LEMMA OnlyHost ==
  ASSUME OneHost, NEW h \in Hosts
  PROVE  Hosts = {h}
BY DEF OneHost

LEMMA CoherentKept ==
  ASSUME CoherentInv, SyncKept(cache, cache') \/ cache' = EmptyCache, UNCHANGED ledger,
         used'.idents = used.idents
  PROVE  CoherentInv'
<1>1. CASE SyncKept(cache, cache')
  <2>1. /\ cache'.origins["sync"] = cache.origins["sync"]
        /\ \A d : OriginFile(cache', "sync", d) = OriginFile(cache, "sync", d)
        /\ \A d : EventsForOrigin(cache', "sync", d) = EventsForOrigin(cache, "sync", d)
    BY <1>1 DEF SyncKept, OriginFile, EventsForOrigin
  <2>2. QED
    BY <2>1 DEF CoherentInv, SameFile
<1>2. CASE cache' = EmptyCache
  <2>1. cache'.origins["sync"] = {} /\ \A d : OriginFile(cache', "sync", d) = {}
    BY <1>2 DEF EmptyCache, OriginKinds, OriginFile
  <2>2. QED
    BY <2>1 DEF CoherentInv
<1>3. QED
  BY <1>1, <1>2

UsedType == [idents : Nat, scans : Nat, changes : Nat, errors : Nat]

LEMMA LedgersKept ==
  ASSUME LedgerInv, UNCHANGED ledger, used'.idents = used.idents, used' \in UsedType
  PROVE  LedgerInv'
BY DEF LedgerInv, UsedType

Early == {"idle", "needs", "list", "prune", "files", "store", "apply", "overlap", "export", "swap"}

\* Nothing is promised of the ledgers at these steps.
LEMMA EarlyFacts ==
  ASSUME OneHost, NEW h \in Hosts, Local(host'[h]), host'[h].pc \in Early
  PROVE  HintsInv' /\ ExportInv' /\ StatInv' /\ ImportInv' /\ ShownInv'
<1>1. Hosts = {h}
  BY OnlyHost
<1>2. host'[h].stat = {}
  BY DEF Local, Importing, Early
<1>3. host'[h].pc \notin {"write", "forget", "import", "stat", "read", "done"}
  BY DEF Early
<1>4. HintsInv'
  BY <1>1, <1>3 DEF HintsInv, Told
<1>5. ExportInv'
  BY <1>1, <1>3 DEF ExportInv, Exported
<1>6. StatInv'
  BY <1>1, <1>2 DEF StatInv, Tailing
<1>7. ImportInv'
  BY <1>1, <1>3 DEF ImportInv, Imported
<1>8. ShownInv'
  BY <1>1, <1>3 DEF ShownInv, Alone, At
<1>9. QED
  BY <1>4, <1>5, <1>6, <1>7, <1>8

LEMMA HostsTyped ==
  ASSUME OneHost, NEW h \in Hosts, DOMAIN host' = Hosts, DOMAIN host'[h] = Fields,
         host'[h].pc \in ScanSteps, Local(host'[h])
  PROVE  HostTypes' /\ ScanInv'
<1>1. Hosts = {h}
  BY OnlyHost
<1>2. QED
  BY <1>1 DEF HostTypes, ScanInv

LEMMA EarlyStep ==
  ASSUME OneHost, UsageInv, NEW h \in Hosts, DOMAIN host' = Hosts, DOMAIN host'[h] = Fields,
         host'[h].pc \in Early, Local(host'[h]),
         Cached(cache'), SyncKept(cache, cache') \/ cache' = EmptyCache,
         UNCHANGED <<logs, meter, spent, ledger>>,
         used'.idents = used.idents, used' \in UsedType, disturbed' \subseteq Active'
  PROVE  UsageInv'
<1>1. HostTypes' /\ ScanInv'
  BY HostsTyped DEF Early, ScanSteps
<1>2. CacheInv' /\ WorldInv'
  BY DEF CacheInv, UsageInv, WorldInv, Present
<1>3. LedgerInv'
  BY LedgersKept DEF UsageInv
<1>4. CoherentInv'
  BY CoherentKept DEF UsageInv
<1>5. HintsInv' /\ ExportInv' /\ StatInv' /\ ImportInv' /\ ShownInv'
  BY EarlyFacts
<1>6. QED
  BY <1>1, <1>2, <1>3, <1>4, <1>5 DEF UsageInv

LEMMA Awake ==
  ASSUME OneHost, WorldInv, NEW h \in Hosts, host'[h].pc # "idle", disturbed' = disturbed
  PROVE  disturbed' \subseteq Active'
<1>1. Hosts = {h}
  BY OnlyHost
<1>2. QED
  BY <1>1 DEF WorldInv, Active

LEMMA NotDisturbed ==
  ASSUME OneHost, NEW h \in Hosts, Disturbs(h)
  PROVE  disturbed' = disturbed
BY OnlyHost DEF Disturbs, Active

LEMMA UsedIs ==
  ASSUME LedgerInv
  PROVE  /\ used \in UsedType
         /\ [used EXCEPT !.scans = @ + 1] \in UsedType /\ [used EXCEPT !.scans = @ + 1].idents = used.idents
         /\ [used EXCEPT !.errors = @ + 1] \in UsedType /\ [used EXCEPT !.errors = @ + 1].idents = used.idents
         /\ [used EXCEPT !.changes = @ + 1] \in UsedType /\ [used EXCEPT !.changes = @ + 1].idents = used.idents
BY DEF LedgerInv, UsedType

\* A read that fails only adds to the errors.
LEMMA WorksFacts ==
  ASSUME LedgerInv, NEW fine, Works(fine)
  PROVE  used' \in UsedType /\ used'.idents = used.idents
BY UsedIs DEF Works

LEMMA CacheKept ==
  ASSUME CacheInv, UNCHANGED cache
  PROVE  Cached(cache') /\ SyncKept(cache, cache')
BY DEF SyncKept, CacheInv

LEMMA NeedsStep ==
  ASSUME OneHost, UsageInv, NEW h \in Hosts, Needs(h)
  PROVE  UsageInv'
<1> DEFINE s == host[h]
           t == host'[h]
<1>1. /\ DOMAIN host' = Hosts /\ DOMAIN t = Fields /\ t.pc = "list"
      /\ \A f \in Fields \ {"pc", "force"} : t[f] = s[f]
  BY NeedsFacts DEF UsageInv
<1>2. s.pc = "needs" /\ Local(s) /\ UNCHANGED <<cache, logs, meter, spent, ledger, disturbed>>
  BY DEF Needs, At, UsageInv, ScanInv
<1>3. Local(t)
  <2> HIDE DEF s, t
  <2>1. QED
    BY <1>1, <1>2, FieldsAre
       DEF Local, FreshEvents, Waiting, Listed, Planned, Metered, Collected, Importing, EventSteps
<1>4. Cached(cache') /\ SyncKept(cache, cache')
  BY <1>2, CacheKept DEF UsageInv
<1>5. used' \in UsedType /\ used'.idents = used.idents
  BY WorksFacts DEF UsageInv, Needs
<1>6. disturbed' \subseteq Active'
  BY <1>1, <1>2, Awake DEF UsageInv
<1>7. QED
  BY <1>1, <1>2, <1>3, <1>4, <1>5, <1>6, EarlyStep DEF Early

LEMMA StartStep ==
  ASSUME OneHost, UsageInv, NEW h \in Hosts, NEW kind \in {"window", "full", "rebuild"}, Start(h, kind)
  PROVE  UsageInv'
<1> DEFINE s == host[h]
           t == host'[h]
           r == [pc |-> IF kind = "window" THEN "needs" ELSE "list", kind |-> kind]
<1>1. /\ DOMAIN host' = Hosts /\ DOMAIN t = Fields /\ t.pc \in {"needs", "list"}
      /\ \A f \in Fields \ {"pc", "kind"} : t[f] = s[f]
  <2>1. Update(h, r) /\ DOMAIN host = Hosts /\ DOMAIN host[h] = Fields
    BY DEF Start, HostTypes, UsageInv
  <2>2. DOMAIN r = {"pc", "kind"} /\ r.pc \in {"needs", "list"}
    OBVIOUS
  <2> HIDE DEF r
  <2>3. QED
    BY <2>1, <2>2, HostStep, FieldsAre
<1>2. s.pc = "idle" /\ Local(s) /\ UNCHANGED <<logs, meter, spent, ledger>>
  BY DEF Start, At, UsageInv, ScanInv
<1>3. Local(t)
  <2>1. s = Idle
    BY <1>2 DEF Local
  <2>2. /\ s.root = 1 /\ s.snaps = {} /\ s.todo = {} /\ s.pending = {} /\ s.fresh = {} /\ s.hints = {}
        /\ s.ledgers = {} /\ s.paths = {} /\ s.stat = {} /\ s.kept = {} /\ s.prefetched = {}
        /\ s.usable /\ s.completed /\ s.failed = {}
    BY <2>1 DEF Idle
  <2>3. IsFiniteSet({})
    BY FS_EmptySet
  <2> HIDE DEF s, t
  <2>4. /\ t.root = 1 /\ t.snaps = {} /\ t.todo = {} /\ t.pending = {} /\ t.fresh = {}
        /\ t.ledgers = {} /\ t.paths = {} /\ t.stat = {} /\ t.kept = {} /\ t.prefetched = {}
        /\ t.usable /\ t.completed /\ t.failed = {}
    BY <1>1, <2>2, FieldsAre
  <2>5. FreshEvents(t) /\ Listed(t)
    BY <1>1, <2>3, <2>4 DEF FreshEvents, Listed, Unique
  <2>6. Planned(t) /\ Metered(t) /\ Collected(t) /\ Importing(t)
    BY <1>1, <2>4 DEF Planned, Metered, Collected, Importing, EventSteps
  <2>7. QED
    BY <1>1, <2>5, <2>6 DEF Local
<1>4. Cached(cache') /\ (SyncKept(cache, cache') \/ cache' = EmptyCache)
  <2>1. cache' = cache \/ cache' = EmptyCache
    BY DEF Start, Clear
  <2>2. QED
    BY <2>1, CacheKept, EmptyCached DEF UsageInv
<1>5. used' \in UsedType /\ used'.idents = used.idents
  BY UsedIs DEF UsageInv, Start
<1>6. disturbed' \subseteq Active'
  <2>1. Active = {}
    BY <1>2, OnlyHost DEF Active
  <2>2. disturbed' = {}
    BY <2>1 DEF Start
  <2>3. QED
    BY <2>2
<1>7. QED
  BY <1>1, <1>2, <1>3, <1>4, <1>5, <1>6, EarlyStep DEF Early

LEMMA LogSnapIs ==
  ASSUME WorldInv, NEW p \in LogPaths, Present(p)
  PROVE  LogSnap(p) \in Snaps /\ LogSnap(p).path = p
<1>1. logs[p].n \in Nat /\ logs[p].tail \in 0..2 /\ logs[p].recent \in BOOLEAN
  BY UsageAssumption DEF WorldInv
<1>2. LogSize(logs[p]) \in Nat
  BY <1>1 DEF LogSize, Width
<1>3. QED
  BY <1>1, <1>2 DEF LogSnap, Snaps

LEMMA ListRootStep ==
  ASSUME OneHost, UsageInv, NEW h \in Hosts, ListRoot(h)
  PROVE  UsageInv'
<1> DEFINE s == host[h]
           t == host'[h]
           found == {LogSnap(p) : p \in {q \in LogPaths : q[1] = Roots[s.root] /\ Present(q)}}
           D == {"pc", "root", "required", "snaps", "listed", "ok"}
<1>1. /\ DOMAIN host' = Hosts /\ DOMAIN t = Fields /\ \A f \in Fields \ D : t[f] = s[f]
      /\ t.pc = (IF s.root = Len(Roots) THEN "prune" ELSE "list") /\ t.root = s.root + 1
      /\ s.snaps \subseteq t.snaps /\ t.snaps \subseteq s.snaps \cup found
  <2>1. PICK ok \in BOOLEAN :
            Update(h, [pc |-> IF s.root = Len(Roots) THEN "prune" ELSE "list",
                      root |-> s.root + 1,
                      required |-> IF s.root = 1 THEN PathsRequiringRebuild(cache) ELSE s.required,
                      snaps |-> s.snaps \cup (IF ok THEN found ELSE {}),
                      listed |-> s.listed /\ ok, ok |-> s.ok /\ ok])
    BY DEF ListRoot
  <2> DEFINE r == [pc |-> IF s.root = Len(Roots) THEN "prune" ELSE "list",
                      root |-> s.root + 1,
                      required |-> IF s.root = 1 THEN PathsRequiringRebuild(cache) ELSE s.required,
                      snaps |-> s.snaps \cup (IF ok THEN found ELSE {}),
                      listed |-> s.listed /\ ok, ok |-> s.ok /\ ok]
  <2>2. Update(h, r) /\ DOMAIN host = Hosts /\ DOMAIN host[h] = Fields
    BY <2>1 DEF HostTypes, UsageInv
  <2>3. /\ DOMAIN r = D /\ r.pc = (IF s.root = Len(Roots) THEN "prune" ELSE "list") /\ r.root = s.root + 1
        /\ s.snaps \subseteq r.snaps /\ r.snaps \subseteq s.snaps \cup found
    OBVIOUS
  <2> HIDE DEF r, found
  <2>4. D \subseteq Fields
    BY FieldsAre
  <2>5. QED
    BY <2>2, <2>3, <2>4, HostStep
<1>2. /\ s.pc = "list" /\ Local(s) /\ UNCHANGED <<cache, logs, meter, spent, ledger, disturbed>>
  BY DEF ListRoot, At, UsageInv, ScanInv
<1>3. Listed(s)
  BY <1>2 DEF Local
<1>4. found \subseteq Snaps /\ \A f \in found : f.path \in LogPaths /\ f.path[1] = Roots[s.root]
  BY LogSnapIs DEF UsageInv
<1>5. \A f, g \in found : f.path = g.path => f = g
  BY LogSnapIs DEF UsageInv
<1> HIDE DEF found
<1>6. s.root \in 1..3 /\ \A i, j \in 1..3 : Roots[i] = Roots[j] => i = j
  BY <1>2, <1>3 DEF Listed, Roots
<1>7. Listed(t)
  <2>1. t.snaps \subseteq Snaps
    BY <1>1, <1>3, <1>4 DEF Listed
  <2>2. \A f \in s.snaps : \A g \in found : f.path # g.path
    <3>1. SUFFICES ASSUME NEW f \in s.snaps, NEW g \in found, f.path = g.path
                   PROVE  FALSE
      OBVIOUS
    <3>2. PICK i \in 1..(s.root - 1) : f.path[1] = Roots[i]
      BY <1>2, <1>3 DEF Listed
    <3>3. Roots[i] = Roots[s.root]
      BY <1>4, <3>1, <3>2
    <3>4. QED
      BY <1>6, <3>2, <3>3
  <2>3. \A f, g \in t.snaps : f.path = g.path => f = g
    BY <1>1, <1>3, <1>5, <2>2 DEF Listed
  <2>4. t.pc = "list" => t.root \in 1..3 /\ \A f \in t.snaps : \E i \in 1..(t.root - 1) : f.path[1] = Roots[i]
    <3>1. SUFFICES ASSUME t.pc = "list"
                   PROVE  t.root \in 1..3 /\ \A f \in t.snaps : \E i \in 1..(t.root - 1) : f.path[1] = Roots[i]
      OBVIOUS
    <3>2. s.root # 3
      BY <1>1, <3>1 DEF Roots
    <3>3. t.root \in 1..3 /\ t.root - 1 = s.root
      BY <1>1, <1>6, <3>2
    <3>4. ASSUME NEW f \in t.snaps
          PROVE  \E i \in 1..(t.root - 1) : f.path[1] = Roots[i]
      <4>1. f \in s.snaps \/ f \in found
        BY <1>1
      <4>2. s.root \in 1..(t.root - 1) /\ \A i \in 1..(s.root - 1) : i \in 1..(t.root - 1)
        BY <1>6, <3>3
      <4>3. QED
        BY <1>2, <1>3, <1>4, <4>1, <4>2 DEF Listed
    <3>5. QED
      BY <3>3, <3>4
  <2>5. t.todo = s.todo /\ t.pc \in {"list", "prune"}
    BY <1>1, FieldsAre
  <2>6. QED
    BY <1>3, <2>1, <2>3, <2>4, <2>5 DEF Listed
<1>8. Local(t)
  <2> HIDE DEF s, t
  <2>1. t.pc \in {"list", "prune"}
    BY <1>1
  <2>2. QED
    BY <1>1, <1>2, <1>7, <2>1, FieldsAre
       DEF Local, FreshEvents, Waiting, Planned, Metered, Collected, Importing, EventSteps
<1>9. Cached(cache') /\ SyncKept(cache, cache')
  BY <1>2, CacheKept DEF UsageInv
<1>10. used' \in UsedType /\ used'.idents = used.idents
  BY WorksFacts DEF UsageInv, ListRoot
<1>11. t.pc \in {"list", "prune"}
  BY <1>1
<1>12. disturbed' \subseteq Active'
  BY <1>2, <1>11, Awake DEF UsageInv
<1>13. QED
  BY <1>1, <1>2, <1>8, <1>9, <1>10, <1>11, <1>12, EarlyStep DEF Early

LEMMA PruneStep ==
  ASSUME OneHost, UsageInv, NEW h \in Hosts, Prune(h)
  PROVE  UsageInv'
<1> DEFINE s == host[h]
           t == host'[h]
           todo == {f \in s.snaps : f.path \in s.required \/ f.recent \/ ~Windowed(s)}
           r == [pc |-> "files", todo |-> todo]
<1>1. /\ DOMAIN host' = Hosts /\ DOMAIN t = Fields /\ t.pc = "files" /\ t.todo \subseteq s.snaps
      /\ \A f \in Fields \ {"pc", "todo"} : t[f] = s[f]
  <2>1. Update(h, r) /\ DOMAIN host = Hosts /\ DOMAIN host[h] = Fields
    BY DEF Prune, HostTypes, UsageInv
  <2>2. DOMAIN r = {"pc", "todo"} /\ r.pc = "files" /\ r.todo \subseteq s.snaps
    OBVIOUS
  <2> HIDE DEF r, todo
  <2>3. QED
    BY <2>1, <2>2, HostStep, FieldsAre
<1>2. s.pc = "prune" /\ Local(s) /\ UNCHANGED <<logs, meter, spent, ledger, used>>
  BY DEF Prune, At, UsageInv, ScanInv
<1>3. Local(t)
  <2> HIDE DEF s, t
  <2>1. FreshEvents(t)
    <3>1. FreshEvents(s) /\ s.fresh = {}
      BY <1>2 DEF Local, FreshEvents
    <3>2. t.fresh = {}
      BY <1>1, <3>1, FieldsAre
    <3>3. QED
      BY <3>1, <3>2 DEF FreshEvents
  <2>2. Listed(t)
    BY <1>1, <1>2, FieldsAre DEF Local, Listed
  <2>3. Planned(t) /\ Metered(t) /\ Collected(t) /\ Importing(t)
    BY <1>1, <1>2, FieldsAre DEF Local, Planned, Metered, Collected, Importing, EventSteps
  <2>4. QED
    BY <1>1, <2>1, <2>2, <2>3 DEF Local
<1>4. Cached(cache') /\ SyncKept(cache, cache')
  <2> DEFINE gone == {o.path : o \in {x \in cache.origins["log"] : x.path[1] \in {"claude"}}} \ {f.path : f \in s.snaps}
  <2>1. cache' = cache \/ cache' = RemoveOrigins(cache, "log", gone)
    BY DEF Prune, RemoveMissingLogs
  <2> HIDE DEF gone
  <2>2. Cached(cache)
    BY DEF UsageInv, CacheInv
  <2>3. QED
    BY <2>1, <2>2, CacheKept, LogsForgotten DEF UsageInv
<1>5. disturbed' = disturbed
  BY NotDisturbed DEF Prune
<1>6. disturbed' \subseteq Active'
  BY <1>1, <1>5, Awake DEF UsageInv
<1>7. used' \in UsedType /\ used'.idents = used.idents
  BY <1>2, UsedIs DEF UsageInv
<1>8. QED
  BY <1>1, <1>2, <1>3, <1>4, <1>6, <1>7, EarlyStep DEF Early

LEMMA ReadLogStep ==
  ASSUME OneHost, UsageInv, NEW h \in Hosts, ReadLog(h)
  PROVE  UsageInv'
<1> DEFINE s == host[h]
           t == host'[h]
<1>1. /\ s.pc = "files" /\ Local(s) /\ UNCHANGED <<cache, logs, meter, spent, ledger, disturbed>>
      /\ DOMAIN host = Hosts /\ DOMAIN host[h] = Fields
  BY DEF ReadLog, At, UsageInv, ScanInv, HostTypes
<1>2. FreshEvents(s) /\ Listed(s) /\ Planned(s) /\ Collected(s) /\ Importing(s)
  BY <1>1 DEF Local
<1>3. PICK f \in s.todo, reads \in {"all", "whole", "none"} :
        LET tails  == IF reads = "all" THEN UNION {ParseFrom(f.path, b) : b \in AppendBase(cache, f)} ELSE {}
            whole  == IF reads = "none" THEN {} ELSE ParseFrom(f.path, 0)
            cached == {FromRow(r) : r \in EventsForOrigin(cache, "log", f.path)}
            plan(mode, events, result) ==
                [snap |-> f, mode |-> mode, events |-> events, result |-> result]
        IN  /\ Works(reads = "all")
            /\ IF CurrentOrigin(cache, f) # {}
               THEN reads = "all" /\ Update(h, [todo |-> s.todo \ {f}, ok |-> s.ok /\ HasCurrentEvents(cache, f)])
               ELSE Update(h, [pc |-> "store", todo |-> s.todo \ {f}, pending |-> {
                     IF tails # {} THEN plan("append", UNION tails, Merge(cached, UNION tails))
                     ELSE IF whole # {} THEN plan("replace", UNION whole, UNION whole)
                     ELSE plan("error", {}, {})}])
  BY DEF ReadLog
<1>4. f \in Snaps /\ f.path \in LogPaths /\ \A g \in s.todo \ {f} : g.path # f.path
  BY <1>2 DEF Listed, Snaps
<1>5. /\ DOMAIN host' = Hosts /\ DOMAIN t = Fields /\ t.todo = s.todo \ {f}
      /\ \A x \in Fields \ {"pc", "todo", "pending", "ok"} : t[x] = s[x]
      /\ \/ t.pc = "files" /\ t.pending = s.pending
         \/ t.pc = "store" /\ \E p : PlanOf(p, f) /\ t.pending = {p}
  <2>1. CASE CurrentOrigin(cache, f) # {}
    <3> DEFINE r == [todo |-> s.todo \ {f}, ok |-> s.ok /\ HasCurrentEvents(cache, f)]
    <3>1. Update(h, r)
      BY <1>3, <2>1
    <3>2. DOMAIN r = {"todo", "ok"} /\ r.todo = s.todo \ {f}
      OBVIOUS
    <3> HIDE DEF r
    <3>3. QED
      BY <1>1, <3>1, <3>2, HostStep, FieldsAre
  <2>2. CASE CurrentOrigin(cache, f) = {}
    <3> DEFINE every  == UNION {ParseFrom(f.path, b) : b \in AppendBase(cache, f)}
               tails  == IF reads = "all" THEN every ELSE {}
               whole  == IF reads = "none" THEN {} ELSE ParseFrom(f.path, 0)
               cached == {FromRow(r) : r \in EventsForOrigin(cache, "log", f.path)}
               plan(mode, events, result) == [snap |-> f, mode |-> mode, events |-> events, result |-> result]
               p == IF tails # {} THEN plan("append", UNION tails, Merge(cached, UNION tails))
                    ELSE IF whole # {} THEN plan("replace", UNION whole, UNION whole)
                    ELSE plan("error", {}, {})
               r == [pc |-> "store", todo |-> s.todo \ {f}, pending |-> {p}]
    <3>1. Update(h, r)
      BY <1>3, <2>2
    <3>2. LogEvents(f.path, UNION tails) /\ LogEvents(f.path, UNION whole) /\ LogEvents(f.path, {})
      <4>1. LogEvents(f.path, UNION every) /\ LogEvents(f.path, UNION ParseFrom(f.path, 0)) /\ LogEvents(f.path, {})
        BY <1>4, TailsFacts, WholeFacts, NoEvents DEF UsageInv
      <4> HIDE DEF every
      <4>2. LogEvents(f.path, UNION {})
        <5>1. UNION {} = {}
          OBVIOUS
        <5>2. QED
          BY <4>1, <5>1
      <4>3. QED
        BY <4>1, <4>2
    <3>3. LogEvents(f.path, cached)
      BY <1>4, CachedLogFacts DEF UsageInv
    <3> HIDE DEF every, tails, whole, cached
    <3>4. LogEvents(f.path, Merge(cached, UNION tails))
      BY <3>2, <3>3, MergedLog
    <3>5. PlanOf(p, f)
      BY <3>2, <3>4 DEF PlanOf
    <3>6. DOMAIN r = {"pc", "todo", "pending"} /\ r.pc = "store" /\ r.todo = s.todo \ {f} /\ r.pending = {p}
      OBVIOUS
    <3> HIDE DEF r, p
    <3>7. QED
      BY <1>1, <3>1, <3>5, <3>6, HostStep, FieldsAre
  <2>3. QED
    BY <2>1, <2>2
<1>6. Local(t)
  <2> HIDE DEF s, t
  <2>1. t.pc \in {"files", "store"} /\ t.fresh = s.fresh /\ t.snaps = s.snaps /\ s.pending = {}
    BY <1>1, <1>2, <1>5, FieldsAre DEF Planned
  <2>2. \A p \in t.pending : PlanOf(p, f)
    BY <1>5, <2>1
  <2>3. \A p \in t.pending : p.snap = f
    BY <2>2 DEF PlanOf
  <2>4. Waiting(t) \subseteq Waiting(s)
    BY <1>5, <2>3 DEF Waiting
  <2>5. FreshEvents(t)
    BY <1>1, <1>2, <2>1, <2>4 DEF FreshEvents
  <2>6. Listed(t)
    BY <1>2, <1>5, <2>1 DEF Listed
  <2>7. Planned(t)
    <3>1. \A p \in t.pending :
             /\ p.snap \in Snaps /\ \A g \in t.todo : g.path # p.snap.path
             /\ \A events \in {p.events, p.result} :
                   /\ events \subseteq Events /\ IsFiniteSet(events) /\ Unique(events)
                   /\ \A e \in events : OfPath(e, p.snap.path)
      BY <1>4, <1>5, <2>2 DEF PlanOf, LogEvents
    <3>2. (t.pc = "store" => \E p \in t.pending : t.pending = {p}) /\ (t.pc # "store" => t.pending = {})
      BY <1>5, <2>1
    <3>3. QED
      BY <3>1, <3>2 DEF Planned
  <2>8. Metered(t) /\ Collected(t) /\ Importing(t)
    BY <1>1, <1>2, <1>5, <2>1, FieldsAre DEF Metered, Collected, Importing, EventSteps
  <2>9. QED
    BY <2>1, <2>5, <2>6, <2>7, <2>8 DEF Local
<1>7. Cached(cache') /\ SyncKept(cache, cache')
  BY <1>1, CacheKept DEF UsageInv
<1>8. used' \in UsedType /\ used'.idents = used.idents
  BY <1>3, WorksFacts DEF UsageInv
<1>9. t.pc \in {"files", "store"}
  BY <1>5, <1>1
<1>10. disturbed' \subseteq Active'
  BY <1>1, <1>9, Awake DEF UsageInv
<1>11. QED
  BY <1>1, <1>5, <1>6, <1>7, <1>8, <1>9, <1>10, EarlyStep DEF Early

\* Two events of logs that are not both of Claude are one if they have one key.
LEMMA SameEvent ==
  ASSUME NEW e \in Events, NEW x \in Events, NEW p \in LogPaths, NEW q \in LogPaths,
         OfPath(e, p), OfPath(x, q), SameKey(e, x), p[1] = "claude" => p # q
  PROVE  e = x
<1>1. e.id = x.id /\ p[2] = q[2]
  BY DEF SameKey, OfPath
<1>2. p[1] = "claude" <=> q[1] = "claude"
  BY <1>1, ProofAssumption DEF LogPaths
<1>3. p[1] # "claude"
  BY <1>1, <1>2 DEF LogPaths
<1>4. e.at = x.at /\ e.use = x.use
  BY <1>1, <1>2, <1>3 DEF OfPath
<1> DEFINE D == {Own}
           L == {TRUE}
<1>5. Events = [dev : D, id : Ids, at : Nat, use : Int, local : L] /\ \A u, v \in D : u = v
  BY DEF Events
<1>6. \A u, v \in L : u = v
  OBVIOUS
<1> HIDE DEF D, L
<1>7. QED
  BY <1>1, <1>4, <1>5, <1>6

LEMMA StoreLogStep ==
  ASSUME OneHost, UsageInv, NEW h \in Hosts, StoreLog(h)
  PROVE  UsageInv'
<1> DEFINE s == host[h]
           t == host'[h]
<1>1. /\ s.pc = "store" /\ Local(s) /\ UNCHANGED <<logs, meter, spent, ledger, used>>
      /\ DOMAIN host = Hosts /\ DOMAIN host[h] = Fields
  BY DEF StoreLog, At, UsageInv, ScanInv, HostTypes
<1>2. FreshEvents(s) /\ Listed(s) /\ Planned(s) /\ Collected(s) /\ Importing(s)
  BY <1>1 DEF Local
<1>3. PICK p \in s.pending :
        /\ cache' = IF p.mode = "append" THEN AppendEvents(cache, "log", p.snap, p.events)
                    ELSE ReplaceEvents(cache, "log", p.snap, p.events, p.mode = "error")
        /\ Update(h, [pc |-> "files", pending |-> {}, fresh |-> s.fresh \cup p.result,
                      ok |-> s.ok /\ p.mode # "error"])
  BY DEF StoreLog
<1> DEFINE path == p.snap.path
<1>4. /\ p.snap \in Snaps /\ path \in LogPaths /\ s.pending = {p} /\ \A f \in s.todo : f.path # path
      /\ LogEvents(path, p.events) /\ LogEvents(path, p.result)
  BY <1>1, <1>2 DEF Planned, LogEvents, Snaps
<1>5. /\ DOMAIN host' = Hosts /\ DOMAIN t = Fields /\ t.pc = "files"
      /\ t.pending = {} /\ t.fresh = s.fresh \cup p.result
      /\ \A x \in Fields \ {"pc", "pending", "fresh", "ok"} : t[x] = s[x]
  <2> DEFINE r == [pc |-> "files", pending |-> {}, fresh |-> s.fresh \cup p.result,
                   ok |-> s.ok /\ p.mode # "error"]
  <2>1. Update(h, r)
    BY <1>3
  <2>2. /\ DOMAIN r = {"pc", "pending", "fresh", "ok"}
        /\ r.pc = "files" /\ r.pending = {} /\ r.fresh = s.fresh \cup p.result
    OBVIOUS
  <2> HIDE DEF r
  <2>3. QED
    BY <1>1, <2>1, <2>2, HostStep, FieldsAre
<1>6. Cached(cache') /\ SyncKept(cache, cache')
  <2>1. Cached(cache)
    BY DEF UsageInv, CacheInv
  <2> DEFINE err == p.mode = "error"
  <2>2. \/ cache' = AppendEvents(cache, "log", p.snap, p.events)
        \/ err \in BOOLEAN /\ cache' = ReplaceEvents(cache, "log", p.snap, p.events, err)
    BY <1>3
  <2> HIDE DEF err
  <2>3. QED
    BY <1>4, <2>1, <2>2, LogAppended, LogReplaced
<1>7. Local(t)
  <2> HIDE DEF s, t
  <2>1. t.todo = s.todo /\ t.snaps = s.snaps
    BY <1>5, FieldsAre
  <2>2. Waiting(s) = {f.path : f \in s.todo} \cup {path} /\ Waiting(t) = {f.path : f \in s.todo}
    BY <1>4, <1>5, <2>1 DEF Waiting
  <2>3. \A e \in s.fresh : \E q \in LogPaths : OfPath(e, q) /\ (q[1] = "claude" => q \notin Waiting(s))
    BY <1>1, <1>2 DEF FreshEvents
  <2>4. Unique(t.fresh)
    <3>1. ASSUME NEW e \in s.fresh, NEW x \in p.result, SameKey(e, x)
          PROVE  e = x
      <4>1. PICK q \in LogPaths : OfPath(e, q) /\ (q[1] = "claude" => q \notin Waiting(s))
        BY <2>3
      <4>2. q[1] = "claude" => q # path
        BY <2>2, <4>1
      <4>3. e \in Events /\ x \in Events /\ OfPath(x, path)
        BY <1>2, <1>4 DEF FreshEvents, LogEvents
      <4>4. QED
        BY <1>4, <3>1, <4>1, <4>2, <4>3, SameEvent
    <3>2. QED
      BY <1>2, <1>4, <1>5, <3>1 DEF FreshEvents, LogEvents, Unique, SameKey
  <2>5. t.fresh \subseteq Events /\ IsFiniteSet(t.fresh)
    <3>1. IsFiniteSet(s.fresh) /\ IsFiniteSet(p.result) /\ s.fresh \subseteq Events /\ p.result \subseteq Events
      BY <1>2, <1>4 DEF FreshEvents, LogEvents
    <3>2. IsFiniteSet(s.fresh \cup p.result)
      BY <3>1, FS_Union
    <3>3. QED
      BY <1>5, <3>1, <3>2
  <2>6. \A e \in t.fresh : \E q \in LogPaths : OfPath(e, q) /\ (q[1] = "claude" => q \notin Waiting(t))
    <3>1. ASSUME NEW e \in p.result
          PROVE  OfPath(e, path) /\ path \notin Waiting(t)
      BY <1>4, <2>2 DEF LogEvents
    <3>2. QED
      BY <1>4, <1>5, <2>2, <2>3, <3>1
  <2>7. FreshEvents(t)
    BY <1>5, <2>4, <2>5, <2>6 DEF FreshEvents
  <2>8. Listed(t)
    BY <1>2, <1>5, <2>1 DEF Listed
  <2>9. Planned(t) /\ Metered(t) /\ Collected(t) /\ Importing(t)
    BY <1>1, <1>2, <1>5, FieldsAre DEF Planned, Metered, Collected, Importing, EventSteps
  <2>10. QED
    BY <1>5, <2>7, <2>8, <2>9 DEF Local
<1>8. disturbed' = disturbed
  BY NotDisturbed DEF StoreLog
<1>9. disturbed' \subseteq Active'
  BY <1>5, <1>8, Awake DEF UsageInv
<1>10. used' \in UsedType /\ used'.idents = used.idents
  BY <1>1, UsedIs DEF UsageInv
<1>11. QED
  BY <1>1, <1>5, <1>6, <1>7, <1>9, <1>10, EarlyStep DEF Early

LEMMA ReadMeterStep ==
  ASSUME OneHost, UsageInv, NEW h \in Hosts, ReadMeter(h)
  PROVE  UsageInv'
<1> DEFINE s == host[h]
           t == host'[h]
           U == {MeterUpdate(x) : x \in CountingSessions}
<1>1. /\ s.pc = "files" /\ s.todo = {} /\ Local(s) /\ UNCHANGED <<cache, logs, meter, spent, ledger, disturbed>>
      /\ DOMAIN host = Hosts /\ DOMAIN host[h] = Fields /\ used' \in UsedType /\ used'.idents = used.idents
  BY UsedIs DEF ReadMeter, At, UsageInv, ScanInv, HostTypes
<1>2. /\ DOMAIN host' = Hosts /\ DOMAIN t = Fields /\ \A x \in Fields \ {"pc", "updates", "ok"} : t[x] = s[x]
      /\ (t.pc = "apply" /\ t.updates = U) \/ t.pc = "overlap"
  <2>1. CASE Update(h, [pc |-> "apply", updates |-> U])
    <3> DEFINE r == [pc |-> "apply", updates |-> U]
    <3>1. Update(h, r) /\ DOMAIN r = {"pc", "updates"} /\ r.pc = "apply" /\ r.updates = U
      BY <2>1
    <3> HIDE DEF r, U
    <3>2. QED
      BY <1>1, <3>1, HostStep, FieldsAre
  <2>2. CASE Update(h, [pc |-> "overlap", ok |-> FALSE])
    <3> DEFINE r == [pc |-> "overlap", ok |-> FALSE]
    <3>1. Update(h, r) /\ DOMAIN r = {"pc", "ok"} /\ r.pc = "overlap"
      BY <2>2
    <3> HIDE DEF r, U
    <3>2. QED
      BY <1>1, <3>1, HostStep, FieldsAre
  <2>3. QED
    BY <2>1, <2>2 DEF ReadMeter
<1>3. MeterUpdates(U)
  BY MeterUpdatesRead DEF UsageInv
<1> HIDE DEF U
<1>4. t.pc \in {"apply", "overlap"}
  BY <1>2
<1>5. Local(t)
  <2> HIDE DEF s, t
  <2>1. t.fresh = s.fresh /\ t.todo = s.todo /\ t.pending = s.pending
    BY <1>2, FieldsAre
  <2>2. FreshEvents(t)
    BY <1>1, <1>4, <2>1 DEF Local, FreshEvents, Waiting
  <2>3. Metered(t)
    BY <1>2, <1>3 DEF Metered
  <2>4. Listed(t) /\ Planned(t) /\ Collected(t) /\ Importing(t)
    BY <1>1, <1>2, <1>4, FieldsAre DEF Local, Listed, Planned, Collected, Importing, EventSteps
  <2>5. QED
    BY <1>4, <2>2, <2>3, <2>4 DEF Local
<1>6. Cached(cache') /\ SyncKept(cache, cache')
  BY <1>1, CacheKept DEF UsageInv
<1>7. disturbed' \subseteq Active'
  BY <1>1, <1>4, Awake DEF UsageInv
<1>8. QED
  BY <1>1, <1>2, <1>4, <1>5, <1>6, <1>7, EarlyStep DEF Early

LEMMA ApplyMeterStep ==
  ASSUME OneHost, UsageInv, NEW h \in Hosts, ApplyMeter(h)
  PROVE  UsageInv'
<1> DEFINE s == host[h]
           t == host'[h]
           evs == UNION {u.event : u \in s.updates}
           r == [pc |-> "overlap", updates |-> {}, fresh |-> s.fresh \cup evs]
<1>1. /\ s.pc = "apply" /\ Local(s) /\ UNCHANGED <<logs, meter, spent, ledger, used>>
      /\ DOMAIN host = Hosts /\ DOMAIN host[h] = Fields /\ MeterUpdates(s.updates)
      /\ cache' = ApplyHermesUpdates(cache, HermesPath, s.updates)
  BY DEF ApplyMeter, At, UsageInv, ScanInv, HostTypes, Local, Metered
<1>2. /\ DOMAIN host' = Hosts /\ DOMAIN t = Fields /\ \A x \in Fields \ {"pc", "updates", "fresh"} : t[x] = s[x]
      /\ t.pc = "overlap" /\ t.fresh = s.fresh \cup evs
  <2>1. Update(h, r)
    BY DEF ApplyMeter
  <2>2. DOMAIN r = {"pc", "updates", "fresh"} /\ r.pc = "overlap" /\ r.fresh = s.fresh \cup evs
    OBVIOUS
  <2> HIDE DEF r, evs
  <2>3. QED
    BY <1>1, <2>1, <2>2, HostStep, FieldsAre
<1>3. evs \subseteq Events /\ IsFiniteSet(evs) /\ \A e \in evs : OfMeters(e)
  BY <1>1 DEF MeterUpdates
<1>4. Unique(evs)
  <2>1. ASSUME NEW u \in s.updates, NEW v \in s.updates, NEW e \in u.event, NEW f \in v.event, SameKey(e, f)
        PROVE  e = f
    <3>1. u.session = v.session
      BY <1>1, <2>1 DEF MeterUpdates, SameKey
    <3>2. u = v
      BY <1>1, <3>1 DEF MeterUpdates
    <3>3. QED
      BY <1>1, <3>2 DEF MeterUpdates
  <2>2. QED
    BY <2>1 DEF Unique
<1> HIDE DEF evs
<1>5. Local(t)
  <2> HIDE DEF s, t
  <2>1. FreshEvents(s) /\ \A e \in s.fresh : \E p \in LogPaths : OfPath(e, p) /\ (p[1] = "claude" => p \notin Waiting(s))
    BY <1>1 DEF Local, FreshEvents
  <2>2. t.fresh \subseteq Events /\ IsFiniteSet(t.fresh)
    <3>1. s.fresh \subseteq Events /\ IsFiniteSet(s.fresh)
      BY <2>1 DEF FreshEvents
    <3>2. IsFiniteSet(s.fresh \cup evs)
      BY <1>3, <3>1, FS_Union
    <3>3. QED
      BY <1>2, <1>3, <3>1, <3>2
  <2>3. Unique(t.fresh)
    <3>1. \A e \in s.fresh : \A x \in evs : e.id[1] # x.id[1]
      BY <1>3, <2>1 DEF OfPath, OfMeters
    <3>2. \A e \in s.fresh : \A x \in evs : ~SameKey(e, x) /\ ~SameKey(x, e)
      BY <3>1 DEF SameKey
    <3>3. QED
      BY <1>2, <1>4, <2>1, <3>2 DEF FreshEvents, Unique
  <2>4. t.todo = s.todo /\ t.pending = s.pending
    BY <1>2, FieldsAre
  <2>5. FreshEvents(t)
    BY <1>2, <1>3, <2>1, <2>2, <2>3, <2>4 DEF FreshEvents, Waiting
  <2>6. Listed(t) /\ Planned(t) /\ Metered(t) /\ Collected(t) /\ Importing(t)
    BY <1>1, <1>2, FieldsAre DEF Local, Listed, Planned, Metered, Collected, Importing, EventSteps
  <2>7. QED
    BY <1>2, <2>5, <2>6 DEF Local
<1>6. Cached(cache') /\ SyncKept(cache, cache')
  BY <1>1, MetersApplied DEF UsageInv, CacheInv
<1>7. disturbed' = disturbed
  BY NotDisturbed DEF ApplyMeter
<1>8. disturbed' \subseteq Active'
  BY <1>2, <1>7, Awake DEF UsageInv
<1>9. used' \in UsedType /\ used'.idents = used.idents
  BY <1>1, UsedIs DEF UsageInv
<1>10. QED
  BY <1>1, <1>2, <1>5, <1>6, <1>8, <1>9, EarlyStep DEF Early

LEMMA OverlapStep ==
  ASSUME OneHost, UsageInv, NEW h \in Hosts, Overlap(h)
  PROVE  UsageInv'
<1> DEFINE s == host[h]
           t == host'[h]
           D == {"pc", "fresh", "snaps", "required", "events"}
           evs == Merge({FromRow(x) : x \in LocalEvents(cache')}, s.fresh)
           r == [pc |-> "export", fresh |-> {}, snaps |-> {}, required |-> {}, events |-> evs]
<1>1. /\ s.pc = "overlap" /\ Local(s) /\ UNCHANGED <<logs, meter, spent, ledger, used>>
      /\ DOMAIN host = Hosts /\ DOMAIN host[h] = Fields
  BY DEF Overlap, At, UsageInv, ScanInv, HostTypes
<1>2. /\ DOMAIN host' = Hosts /\ DOMAIN t = Fields /\ \A x \in Fields \ D : t[x] = s[x]
      /\ t.pc = "export" /\ t.fresh = {} /\ t.snaps = {} /\ t.events = evs
  <2>1. Update(h, r)
    BY DEF Overlap
  <2>2. DOMAIN r = D /\ r.pc = "export" /\ r.fresh = {} /\ r.snaps = {} /\ r.events = evs
    OBVIOUS
  <2>3. D \subseteq Fields
    BY FieldsAre
  <2> HIDE DEF r, evs, D
  <2>4. QED
    BY <1>1, <2>1, <2>2, <2>3, HostStep DEF D
<1>3. Cached(cache') /\ SyncKept(cache, cache')
  <2>1. Cached(cache)
    BY DEF UsageInv, CacheInv
  <2>2. cache' = cache \/ \E moved : cache' = RemoveMovedOverlap(cache, moved)
    BY DEF Overlap
  <2>3. QED
    BY <2>1, <2>2, CacheKept, OverlapRemoved DEF UsageInv
<1>4. evs \subseteq Events /\ IsFiniteSet(evs) /\ Unique(evs)
  <2> DEFINE known == {FromRow(x) : x \in LocalEvents(cache')}
  <2>1. known \subseteq Events /\ Unique(known) /\ IsFiniteSet(known)
    BY <1>3, LocalEventsFacts
  <2>2. s.fresh \subseteq Events /\ Unique(s.fresh) /\ IsFiniteSet(s.fresh)
    BY <1>1 DEF Local, FreshEvents
  <2> HIDE DEF known
  <2>3. evs = Merge(known, s.fresh)
    BY DEF known
  <2> HIDE DEF evs
  <2>4. QED
    BY <2>1, <2>2, <2>3, MergeLocal
<1> HIDE DEF evs
<1>5. Local(t)
  <2> HIDE DEF s, t
  <2>1. FreshEvents(t)
    BY <1>2, FS_EmptySet DEF FreshEvents, Unique
  <2>2. Listed(t) /\ Planned(t) /\ Metered(t) /\ Importing(t)
    BY <1>1, <1>2, FieldsAre DEF Local, Listed, Planned, Metered, Importing
  <2>3. Collected(t)
    BY <1>2, <1>4 DEF Collected
  <2>4. QED
    BY <1>2, <2>1, <2>2, <2>3 DEF Local
<1>6. disturbed' = disturbed
  BY NotDisturbed DEF Overlap
<1>7. disturbed' \subseteq Active'
  BY <1>2, <1>6, Awake DEF UsageInv
<1>8. used' \in UsedType /\ used'.idents = used.idents
  BY <1>1, UsedIs DEF UsageInv
<1>9. QED
  BY <1>1, <1>2, <1>3, <1>5, <1>7, <1>8, EarlyStep DEF Early

LEMMA IdleIs ==
  /\ DOMAIN Idle = Fields /\ Idle.pc = "idle" /\ Local(Idle)
  /\ Idle.stat = {} /\ Idle.hints = {} /\ Idle.pending = {}
<1>1. /\ Idle.root = 1 /\ Idle.snaps = {} /\ Idle.todo = {} /\ Idle.pending = {} /\ Idle.fresh = {}
      /\ Idle.hints = {} /\ Idle.ledgers = {} /\ Idle.paths = {} /\ Idle.stat = {} /\ Idle.kept = {}
      /\ Idle.prefetched = {} /\ Idle.usable /\ Idle.completed /\ Idle.failed = {} /\ Idle.pc = "idle"
  BY DEF Idle
<1>2. FreshEvents(Idle) /\ Listed(Idle)
  BY <1>1, FS_EmptySet DEF FreshEvents, Listed, Unique
<1>3. Planned(Idle) /\ Metered(Idle) /\ Collected(Idle) /\ Importing(Idle)
  BY <1>1 DEF Planned, Metered, Collected, Importing, EventSteps
<1>4. QED
  BY <1>1, <1>2, <1>3 DEF Local, Fields

LEMMA Asleep ==
  ASSUME OneHost, WorldInv, NEW h \in Hosts, NEW S, S \subseteq Hosts, disturbed' = S \ {h}
  PROVE  disturbed' \subseteq Active'
BY OnlyHost

LEMMA FinishStep ==
  ASSUME OneHost, UsageInv, NEW h \in Hosts, Finish(h)
  PROVE  UsageInv'
<1>1. /\ UNCHANGED <<cache, logs, meter, spent, ledger, used>> /\ disturbed' = disturbed \ {h}
      /\ host' = [host EXCEPT ![h] = Idle] /\ DOMAIN host = Hosts
  BY DEF Finish, UsageInv, HostTypes
<1>2. DOMAIN host' = Hosts /\ host'[h] = Idle
  BY <1>1
<1>3. Cached(cache') /\ SyncKept(cache, cache')
  BY <1>1, CacheKept DEF UsageInv
<1>4. disturbed' \subseteq Active'
  <2>1. disturbed \subseteq Hosts
    BY DEF UsageInv, WorldInv, Active
  <2>2. QED
    BY <1>1, <2>1, Asleep DEF UsageInv
<1>5. used' \in UsedType /\ used'.idents = used.idents
  BY <1>1, UsedIs DEF UsageInv
<1>6. QED
  BY <1>1, <1>2, <1>3, <1>4, <1>5, IdleIs, EarlyStep DEF Early

-----------------------------------------------------------------------------
(***************************************************************************)
(* The export.                                                             *)
(***************************************************************************)
LEMMA LateStep ==
  ASSUME OneHost, UsageInv, NEW h \in Hosts, DOMAIN host' = Hosts, DOMAIN host'[h] = Fields,
         host'[h].pc \in ScanSteps, host'[h].pc # "idle", Local(host'[h]),
         CacheInv', LedgerInv', CoherentInv', UNCHANGED <<logs, meter, spent>>, disturbed' = disturbed,
         Told(host[h])', h \notin disturbed => Exported(host[h])', Tailing(host[h])',
         h \notin disturbed => Imported(host[h])', host'[h].pc # "done" \/ ShownInv'
  PROVE  UsageInv'
<1>1. Hosts = {h}
  BY OnlyHost
<1>2. HostTypes' /\ ScanInv'
  BY HostsTyped
<1>3. disturbed' \subseteq Active'
  BY Awake DEF UsageInv
<1>4. WorldInv'
  BY <1>3 DEF UsageInv, WorldInv, Present
<1>5. HintsInv' /\ StatInv'
  BY <1>1 DEF HintsInv, StatInv
<1>6. ExportInv'
  BY <1>1 DEF ExportInv
<1>7. ImportInv'
  BY <1>1 DEF ImportInv
<1>8. ShownInv'
  BY <1>1 DEF ShownInv, Alone, At
<1>9. QED
  BY <1>2, <1>4, <1>5, <1>6, <1>7, <1>8 DEF UsageInv

\* What was forgotten of some ledgers.
LEMMA CoherentForgot ==
  ASSUME CacheInv, CoherentInv, NEW paths, cache' = RemoveOrigins(cache, "sync", paths),
         UNCHANGED ledger, used'.idents = used.idents
  PROVE  /\ CacheInv' /\ CoherentInv'
         /\ \A d : d \notin paths => OriginFile(cache', "sync", d) = OriginFile(cache, "sync", d)
         /\ \A d : d \notin paths => EventsForOrigin(cache', "sync", d) = EventsForOrigin(cache, "sync", d)
<1>1. /\ Cached(cache')
      /\ cache'.origins["sync"] = {o \in cache.origins["sync"] : o.path \notin paths}
      /\ cache'.rows["sync"] = {r \in cache.rows["sync"] : r.path \notin paths}
  BY LedgersForgotten DEF CacheInv
<1>2. \A d : d \notin paths => OriginFile(cache', "sync", d) = OriginFile(cache, "sync", d)
  BY <1>1 DEF OriginFile
<1>3. \A d : d \in paths => OriginFile(cache', "sync", d) = {}
  BY <1>1 DEF OriginFile
<1>4. \A d : d \notin paths => EventsForOrigin(cache', "sync", d) = EventsForOrigin(cache, "sync", d)
  BY <1>1 DEF EventsForOrigin
<1>5. CoherentInv'
  <2>1. \A o \in cache'.origins["sync"] : o.ver = Version /\ ~o.err /\ o.who[2] <= used'.idents
    BY <1>1 DEF CoherentInv
  <2>2. \A d \in Ledgers : ledger'[d] # NoFile =>
          \A o \in OriginFile(cache', "sync", d) :
              SameFile(o, ledger'[d]) => Covers(ledger'[d], o.size, EventsForOrigin(cache', "sync", d))
    BY <1>2, <1>3, <1>4 DEF CoherentInv, SameFile
  <2>3. QED
    BY <2>1, <2>2 DEF CoherentInv, SameFile
<1>6. QED
  BY <1>1, <1>2, <1>4, <1>5 DEF CacheInv

LEMMA RecordsFacts ==
  ASSUME NEW s, s.events \subseteq Events, Unique(s.events), IsFiniteSet(s.events)
  PROVE  /\ Records(s) \subseteq Recs(Own) /\ Unique(Records(s)) /\ IsFiniteSet(Records(s))
         /\ \A r \in Records(s) : r.ver = Schema
         /\ s.ok => \A e \in s.events : SyncRecord(e) \in Records(s)
         /\ \A e : \A x : SameKey(SyncRecord(e), x) <=> SameKey(e, x)
<1> DEFINE f == [e \in s.events |-> SyncRecord(e)]
           S == {SyncRecord(e) : e \in s.events}
<1>1. \A e \in Events : SyncRecord(e) \in Recs(Own) /\ SyncRecord(e).ver = Schema
  BY DEF Events, SyncRecord, Recs, Schema
<1>2. \A e : \A x : SameKey(SyncRecord(e), x) <=> SameKey(e, x)
  BY DEF SyncRecord, SameKey
<1>3. Unique(S)
  BY DEF Unique, SyncRecord, SameKey
<1>4. IsFiniteSet(S)
  <2>1. S = {f[e] : e \in s.events} /\ s.events = DOMAIN f
    OBVIOUS
  <2> HIDE DEF f, S
  <2>2. QED
    BY <2>1, FiniteImage
<1>5. (s.ok => Records(s) = S) /\ (~s.ok => Records(s) = {})
  BY DEF Records
<1>6. s.ok \in BOOLEAN \/ Records(s) = S \/ Records(s) = {}
  BY DEF Records
<1>7. IsFiniteSet({}) /\ Unique({})
  BY FS_EmptySet DEF Unique
<1>8. S \subseteq Recs(Own) /\ \A r \in S : r.ver = Schema
  BY <1>1
<1>9. s.ok => \A e \in s.events : SyncRecord(e) \in Records(s)
  BY <1>5
<1> HIDE DEF S, f
<1>10. QED
  BY <1>2, <1>3, <1>4, <1>5, <1>7, <1>8, <1>9, Zenon

LEMMA PrepareExportStep ==
  ASSUME OneHost, UsageInv, NEW h \in Hosts, PrepareExport(h)
  PROVE  UsageInv'
<1> DEFINE s == host[h]
           t == host'[h]
           l == ledger[Own]
<1>a. PICK fine \in BOOLEAN :
         LET known == IF l = NoFile \/ ~fine THEN {} ELSE CachedWriterState(l) IN
         /\ Works(fine)
         /\ IF Records(s) = {}
            THEN /\ cache' = IF l # NoFile /\ known = {} THEN RemoveOrigins(cache, "sync", {Own}) ELSE cache
                 /\ Update(h, [pc |-> "import"])
            ELSE /\ UNCHANGED cache
                 /\ Update(h, [pc |-> "write",
                               hints |-> {[size |-> o.size, ident |-> l.ident,
                                           keys |-> ExistingKeys(cache, Own, Records(s))] : o \in known}])
  BY DEF PrepareExport
<1> DEFINE known == IF l = NoFile \/ ~fine THEN {} ELSE CachedWriterState(l)
           hints == {[size |-> o.size, ident |-> l.ident,
                      keys |-> ExistingKeys(cache, Own, Records(s))] : o \in known}
<1>1. /\ s.pc = "export" /\ Local(s) /\ UNCHANGED <<logs, meter, spent, ledger>>
      /\ DOMAIN host = Hosts /\ DOMAIN host[h] = Fields
      /\ CacheInv /\ CoherentInv /\ LedgerInv
  BY DEF PrepareExport, At, UsageInv, ScanInv, HostTypes
<1>2. disturbed' = disturbed
  BY NotDisturbed DEF PrepareExport
<1>3. used' \in UsedType /\ used'.idents = used.idents
  BY <1>1, <1>a, WorksFacts
<1>4. LedgerInv'
  BY <1>1, <1>3, LedgersKept
<1>5. CASE Records(s) = {}
  <2> DEFINE r == [pc |-> "import"]
  <2>1. /\ cache' = cache \/ cache' = RemoveOrigins(cache, "sync", {Own})
        /\ Update(h, r)
    BY <1>5, <1>a
  <2>2. /\ DOMAIN host' = Hosts /\ DOMAIN t = Fields /\ \A x \in Fields \ {"pc"} : t[x] = s[x]
        /\ t.pc = "import"
    <3>1. DOMAIN r = {"pc"} /\ r.pc = "import"
      OBVIOUS
    <3> HIDE DEF r
    <3>2. QED
      BY <1>1, <2>1, <3>1, HostStep, FieldsAre
  <2>3. CacheInv' /\ CoherentInv'
    BY <1>1, <1>3, <2>1, CacheKept, CoherentKept, CoherentForgot DEF CacheInv
  <2>4. Local(t) /\ t.stat = {} /\ (t.ok => t.events = {})
    <3>1. s.ok => s.events = {}
      BY <1>5 DEF Records
    <3> HIDE DEF s, t
    <3>2. t.events = s.events /\ t.ok = s.ok
      BY <2>2, FieldsAre
    <3>3. FreshEvents(t) /\ Listed(t)
      BY <1>1, <2>2, FieldsAre DEF Local, FreshEvents, Waiting, Listed
    <3>4. Planned(t) /\ Metered(t) /\ Collected(t) /\ Importing(t)
      BY <1>1, <2>2, FieldsAre DEF Local, Planned, Metered, Collected, Importing, EventSteps
    <3>5. QED
      BY <2>2, <3>1, <3>2, <3>3, <3>4 DEF Local, Importing
  <2>5. Told(host[h])' /\ Exported(host[h])' /\ Tailing(host[h])' /\ Imported(host[h])'
    BY <2>2, <2>4 DEF Told, Exported, Tailing, Imported
  <2>6. QED
    BY <1>1, <1>2, <1>4, <2>2, <2>3, <2>4, <2>5, LateStep DEF ScanSteps
<1>6. CASE Records(s) # {}
  <2> DEFINE r == [pc |-> "write", hints |-> hints]
  <2>1. cache' = cache /\ Update(h, r)
    BY <1>6, <1>a
  <2>2. /\ DOMAIN host' = Hosts /\ DOMAIN t = Fields /\ \A x \in Fields \ {"pc", "hints"} : t[x] = s[x]
        /\ t.pc = "write" /\ t.hints = hints
    <3>1. DOMAIN r = {"pc", "hints"} /\ r.pc = "write" /\ r.hints = hints
      OBVIOUS
    <3> HIDE DEF r, hints
    <3>2. QED
      BY <1>1, <2>1, <3>1, HostStep, FieldsAre
  <2>3. CacheInv' /\ CoherentInv'
    BY <1>1, <1>3, <2>1, CacheKept, CoherentKept DEF CacheInv
  <2>4. Local(t) /\ t.stat = {} /\ Records(t) = Records(s)
    <3> HIDE DEF s, t, hints
    <3>1. t.events = s.events /\ t.ok = s.ok
      BY <2>2, FieldsAre
    <3>2. FreshEvents(t) /\ Listed(t)
      BY <1>1, <2>2, FieldsAre DEF Local, FreshEvents, Waiting, Listed
    <3>3. Planned(t) /\ Metered(t) /\ Collected(t) /\ Importing(t)
      BY <1>1, <2>2, FieldsAre DEF Local, Planned, Metered, Collected, Importing, EventSteps
    <3>4. QED
      BY <2>2, <3>1, <3>2, <3>3 DEF Local, Importing, Records
  <2>5. ASSUME NEW k \in hints
        PROVE  /\ l # NoFile /\ k.ident \in 1..used.idents
               /\ ReadUpTo(l, k.size)
               /\ \A x \in Records(s) : (\E y \in k.keys : SameKey(x, y)) <=>
                      \E i \in 1..Covered(k.size) : SameKey(x, LinesOf(l)[i])
    <3>1. PICK o \in known : k = [size |-> o.size, ident |-> l.ident,
                                  keys |-> ExistingKeys(cache, Own, Records(s))]
      OBVIOUS
    <3> DEFINE rows == EventsForOrigin(cache, "sync", Own)
    <3>2. l # NoFile /\ o \in OriginFile(cache, "sync", Own) /\ o.who = <<"v2", l.ident>>
      BY DEF CachedWriterState
    <3>3. SameFile(o, l)
      BY <3>2 DEF SameFile
    <3>4. Own \in Ledgers
      BY UsageAssumption DEF Own
    <3>5. Covers(l, o.size, rows)
      BY <1>1, <3>2, <3>3, <3>4 DEF CoherentInv
    <3>6. l.ident \in 1..used.idents
      BY <1>1, <3>2, <3>4 DEF LedgerInv
    <3>7. ASSUME NEW x \in Records(s)
          PROVE  (\E y \in k.keys : SameKey(x, y)) <=> \E i \in 1..Covered(o.size) : SameKey(x, LinesOf(l)[i])
      <4>1. \A y : y \in k.keys <=> y \in Records(s) /\ \E q \in rows : SameKey(q, y)
        BY <3>1 DEF ExistingKeys, SameKey
      <4>2. ASSUME NEW y \in k.keys, SameKey(x, y)
            PROVE  \E i \in 1..Covered(o.size) : SameKey(x, LinesOf(l)[i])
        <5>1. PICK q \in rows : SameKey(q, y)
          BY <4>1, <4>2
        <5>2. PICK i \in 1..Covered(o.size) : SameKey(q, LinesOf(l)[i])
          BY <3>5 DEF Covers
        <5>3. QED
          BY <4>2, <5>1, <5>2 DEF SameKey
      <4>3. ASSUME NEW i \in 1..Covered(o.size), SameKey(x, LinesOf(l)[i])
            PROVE  \E y \in k.keys : SameKey(x, y)
        <5>1. PICK q \in rows : SameKey(q, LinesOf(l)[i])
          BY <3>5 DEF Covers
        <5>2. SameKey(q, x) /\ SameKey(x, x)
          BY <4>3, <5>1 DEF SameKey
        <5>3. QED
          BY <4>1, <5>2
      <4>4. QED
        BY <4>2, <4>3
    <3>8. QED
      BY <3>1, <3>2, <3>5, <3>6, <3>7 DEF Covers
  <2>6. Told(host[h])'
    <3> HIDE DEF hints
    <3>1. \A k \in t.hints :
             /\ k.ident \in 1..used'.idents
             /\ ReadUpTo(ledger'[Own], k.size)
             /\ \A x \in Records(t) : (\E y \in k.keys : SameKey(x, y)) <=>
                    \E i \in 1..Covered(k.size) : SameKey(x, LinesOf(ledger'[Own])[i])
      BY <1>1, <1>3, <2>2, <2>4, <2>5
    <3>2. QED
      BY <3>1 DEF Told
  <2>7. Exported(host[h])' /\ Tailing(host[h])' /\ Imported(host[h])'
    BY <2>2, <2>4 DEF Exported, Tailing, Imported
  <2>8. QED
    BY <1>1, <1>2, <1>4, <2>2, <2>3, <2>4, <2>6, <2>7, LateStep DEF ScanSteps
<1>7. QED
  BY <1>5, <1>6

\* The ledger of this device holds a line of the key of r that can be read.
Held(l, r) == \E i \in DOMAIN LinesOf(l) : Readable(LinesOf(l)[i].ver) /\ SameKey(r, LinesOf(l)[i])

\* What an append adds is new, and what it leaves out is there.
LEMMA NewRecordsFacts ==
  ASSUME UsageInv, NEW h \in Hosts, host[h].pc = "write",
         ~Refused(host[h], ledger[Own]), ~Rewriting(host[h], ledger[Own]),
         NEW new, new = NewRecords(ledger[Own], Records(host[h]), host[h].hints)
  PROVE  /\ new \subseteq Records(host[h]) /\ new \subseteq Recs(Own) /\ Unique(new) /\ IsFiniteSet(new)
         /\ ledger[Own] = NoFile => new = Records(host[h])
         /\ ledger[Own] # NoFile => \A r \in new : \A i \in DOMAIN LinesOf(ledger[Own]) :
               LinesOf(ledger[Own])[i].ver # 0 => ~SameKey(r, LinesOf(ledger[Own])[i])
         /\ ledger[Own] # NoFile => \A r \in Records(host[h]) \ new : Held(ledger[Own], r)
<1> DEFINE s == host[h]
           l == ledger[Own]
           lines == LinesOf(l)
<1>1. Local(s) /\ Told(s) /\ LedgerInv
  BY DEF UsageInv, ScanInv, HintsInv
<1>2. Records(s) \subseteq Recs(Own) /\ Unique(Records(s)) /\ IsFiniteSet(Records(s))
  BY <1>1, RecordsFacts DEF Local, Collected, EventSteps
<1>3. new \subseteq Records(s)
  BY DEF NewRecords
<1>4. Unique(new) /\ IsFiniteSet(new) /\ new \subseteq Recs(Own)
  BY <1>2, <1>3, FS_Subset DEF Unique
<1>5. l = NoFile => new = Records(s)
  BY DEF NewRecords
<1>6. ASSUME l # NoFile
      PROVE  /\ \A r \in new : \A i \in DOMAIN lines : lines[i].ver # 0 => ~SameKey(r, lines[i])
             /\ \A r \in Records(s) \ new : Held(l, r)
  <2>1. l \in Files(Own)
    BY <1>1, <1>6, UsageAssumption DEF LedgerInv, Own
  <2>2. Size(l) \in Nat /\ Covered(Size(l)) = Len(lines) /\ DOMAIN lines = 1..Len(lines) /\ Len(lines) \in Nat
    BY <2>1, SizeFacts, LineFacts
  <2>3. \A r \in Records(s) : r \in new <=> ~\E k \in KnownKeys(l, s.hints) : SameKey(r, k)
    BY <1>6 DEF NewRecords
  <2>4. CASE \E k \in s.hints : HintHolds(l, k)
    <3>1. \A r \in Records(s) :
             (\E x \in KnownKeys(l, s.hints) : SameKey(r, x)) <=>
             \E k \in s.hints : HintHolds(l, k) /\ \E x \in k.keys : SameKey(r, x)
      BY <2>4 DEF KnownKeys
    <3>2. ASSUME NEW k \in s.hints, HintHolds(l, k), NEW r \in Records(s)
          PROVE  /\ (\E x \in k.keys : SameKey(r, x)) <=> \E i \in DOMAIN lines : SameKey(r, lines[i])
                 /\ \A i \in DOMAIN lines : Readable(lines[i].ver)
      <4>1. k.size = Size(l) /\ k.ident = l.ident
        BY <3>2 DEF HintHolds
      <4>2. /\ ReadUpTo(l, k.size)
            /\ (\E x \in k.keys : SameKey(r, x)) <=> \E i \in 1..Covered(k.size) : SameKey(r, lines[i])
        BY <1>1, <1>6, <4>1 DEF Told
      <4>3. 1..Covered(k.size) = DOMAIN lines
        BY <2>2, <4>1
      <4>4. QED
        BY <4>2, <4>3 DEF ReadUpTo
    <3>3. \A r \in Records(s) :
             (\E x \in KnownKeys(l, s.hints) : SameKey(r, x)) <=> \E i \in DOMAIN lines : SameKey(r, lines[i])
      <4> HIDE DEF s, l, lines
      <4>1. QED
        BY <2>4, <3>1, <3>2
    <3>4. \A i \in DOMAIN lines : Records(s) # {} => Readable(lines[i].ver)
      BY <2>4, <3>2
    <3> HIDE DEF s, l, lines
    <3>5. \A r \in new : \A i \in DOMAIN lines : ~SameKey(r, lines[i])
      BY <1>3, <2>3, <3>3 DEF s
    <3>6. \A r \in Records(s) \ new : \E i \in DOMAIN lines : Readable(lines[i].ver) /\ SameKey(r, lines[i])
      BY <2>3, <3>3, <3>4
    <3>7. QED
      BY <3>5, <3>6 DEF Held, lines
  <2>5. CASE ~\E k \in s.hints : HintHolds(l, k)
    <3>1. KnownKeys(l, s.hints) = ReadFrom(l, 0).recs
      BY <2>5 DEF KnownKeys
    <3>2. ~HasLaterSchema(l)
      BY <1>6, <2>5 DEF Refused, HintStale, Trusting
    <3>3. \A i \in DOMAIN lines : lines[i].ver \in 0..3 /\ ~(lines[i].ver > 2)
      <4>1. \A i \in DOMAIN lines : lines[i].ver \in 0..3
        BY <2>1, LineIs
      <4>2. QED
        BY <3>2, <4>1 DEF HasLaterSchema, Schema
    <3>4. \A i \in DOMAIN lines : lines[i].ver # 0 => Readable(lines[i].ver)
      BY <3>3 DEF Readable, Schema
    <3>5. Covered(0) = 0
      BY DivisionIs DEF Covered, Width
    <3>6. /\ \A r \in ReadFrom(l, 0).recs : \E i \in (Covered(0) + 1)..Len(lines) : r = lines[i] /\ Readable(lines[i].ver)
          /\ \A i \in (Covered(0) + 1)..Len(lines) :
                Readable(lines[i].ver) => \E r \in ReadFrom(l, 0).recs : SameKey(r, lines[i])
      BY <2>1, ReadFacts
    <3>7. (Covered(0) + 1)..Len(lines) = DOMAIN lines
      BY <2>2, <3>5
    <3> DEFINE recs == ReadFrom(l, 0).recs
    <3>8. /\ \A r \in recs : \E i \in DOMAIN lines : r = lines[i] /\ Readable(lines[i].ver)
          /\ \A i \in DOMAIN lines : Readable(lines[i].ver) => \E r \in recs : SameKey(r, lines[i])
          /\ \A r \in Records(s) : r \in new <=> ~\E k \in recs : SameKey(r, k)
      BY <2>3, <3>1, <3>6, <3>7
    <3> HIDE DEF recs, lines, s
    <3>9. \A r \in new : \A i \in DOMAIN lines : lines[i].ver # 0 => ~SameKey(r, lines[i])
      <4>1. ASSUME NEW r \in new, NEW i \in DOMAIN lines, lines[i].ver # 0, SameKey(r, lines[i])
            PROVE  FALSE
        <5>1. PICK k \in recs : SameKey(k, lines[i])
          BY <3>4, <3>8, <4>1
        <5>2. SameKey(r, k)
          BY <4>1, <5>1 DEF SameKey
        <5>3. QED
          BY <1>3, <3>8, <5>2
      <4>2. QED
        BY <4>1
    <3>10. \A r \in Records(s) \ new : \E i \in DOMAIN lines : Readable(lines[i].ver) /\ SameKey(r, lines[i])
      <4>1. SUFFICES ASSUME NEW r \in Records(s) \ new
                     PROVE  \E i \in DOMAIN lines : Readable(lines[i].ver) /\ SameKey(r, lines[i])
        OBVIOUS
      <4>2. PICK k \in recs : SameKey(r, k)
        BY <3>8
      <4>3. PICK i \in DOMAIN lines : k = lines[i] /\ Readable(lines[i].ver)
        BY <3>8
      <4>4. QED
        BY <4>2, <4>3
    <3>11. QED
      BY <3>9, <3>10 DEF Held, lines
  <2>6. QED
    BY <2>4, <2>5
<1>7. QED
  BY <1>3, <1>4, <1>5, <1>6

\* A ledger is deleted, is another file than any the cache has seen, or grows.
LEMMA LedgerWritten ==
  ASSUME CacheInv, LedgerInv, CoherentInv, NEW d \in Ledgers, NEW m,
         ledger' = [ledger EXCEPT ![d] = m], UNCHANGED cache, used' \in UsedType, used.idents <= used'.idents,
         \/ m = NoFile
         \/ /\ m \in Files(d) /\ m.ident \in 1..used'.idents
            /\ d # Own /\ m.tail = 2 => m.last = ForeignRecord(d, Len(m.lines) + 1)
            /\ d = Own => UniqueLines(m)
            /\ (used.idents < m.ident) \/ (ledger[d] # NoFile /\ Extends(ledger[d], m))
  PROVE  LedgerInv' /\ CoherentInv'
<1>1. /\ DOMAIN ledger' = Ledgers /\ ledger'[d] = m /\ \A c \in Ledgers \ {d} : ledger'[c] = ledger[c]
      /\ used.idents \in Nat /\ used'.idents \in Nat
  BY DEF LedgerInv, UsedType
<1>2. \A c \in Ledgers : ledger'[c] # NoFile => ledger'[c] \in Files(c) /\ ledger'[c].ident \in 1..used'.idents
  <2>1. ASSUME NEW c \in Ledgers, ledger'[c] # NoFile
        PROVE  ledger'[c] \in Files(c) /\ ledger'[c].ident \in 1..used'.idents
    <3>1. CASE c = d
      BY <1>1, <2>1, <3>1
    <3>2. CASE c # d
      <4>1. ledger[c] \in Files(c) /\ ledger[c].ident \in 1..used.idents
        BY <1>1, <2>1, <3>2 DEF LedgerInv
      <4>2. QED
        BY <1>1, <3>2, <4>1
    <3>3. QED
      BY <3>1, <3>2
  <2>2. QED
    BY <2>1
<1>3. \A c \in Ledgers \ {Own} : ledger'[c] # NoFile /\ ledger'[c].tail = 2 =>
         ledger'[c].last = ForeignRecord(c, Len(ledger'[c].lines) + 1)
  BY <1>1 DEF LedgerInv
<1>4. ledger'[Own] # NoFile => UniqueLines(ledger'[Own])
  BY <1>1, UsageAssumption DEF LedgerInv, Own
<1>5. LedgerInv'
  BY <1>1, <1>2, <1>3, <1>4 DEF LedgerInv, UsedType
<1>6. \A o \in cache.origins["sync"] : o.ver = Version /\ ~o.err /\ o.who[2] <= used.idents /\ o.who[2] \in Nat
  <2>1. \A o \in cache.origins["sync"] : o.who[2] \in Nat
    BY DEF CacheInv, Cached, LedgersCached, Origins
  <2>2. QED
    BY <2>1 DEF CoherentInv
<1>7. \A o \in cache.origins["sync"] : o.who[2] <= used'.idents
  BY <1>1, <1>6
<1>8. ASSUME NEW c \in Ledgers, ledger'[c] # NoFile, NEW o \in OriginFile(cache, "sync", c),
             SameFile(o, ledger'[c])
      PROVE  Covers(ledger'[c], o.size, EventsForOrigin(cache, "sync", c))
  <2>1. o \in cache.origins["sync"]
    BY DEF OriginFile
  <2>2. CASE c # d
    BY <1>1, <1>8, <2>2 DEF CoherentInv
  <2>3. CASE c = d
    <3>1. m # NoFile /\ o.who[2] = m.ident
      BY <1>1, <1>8, <2>3 DEF SameFile
    <3>2. ledger[d] # NoFile /\ Extends(ledger[d], m) /\ m \in Files(d)
      <4>1. m.ident \in Nat
        BY <1>6, <2>1, <3>1
      <4>2. ~(used.idents < m.ident)
        BY <1>1, <1>6, <2>1, <3>1, <4>1
      <4>3. QED
        BY <3>1, <4>2
    <3>3. SameFile(o, ledger[d])
      BY <3>1, <3>2 DEF SameFile, Extends
    <3>4. Covers(ledger[d], o.size, EventsForOrigin(cache, "sync", d))
      BY <2>3, <3>2, <3>3 DEF CoherentInv
    <3>5. ledger[d] \in Files(d)
      BY <3>2 DEF LedgerInv
    <3>6. QED
      BY <1>1, <2>3, <3>2, <3>4, <3>5, StillCovers
  <2>4. QED
    BY <2>2, <2>3
<1>9. CoherentInv'
  <2>1. cache' = cache
    OBVIOUS
  <2>2. QED
    BY <1>6, <1>7, <1>8, <2>1 DEF CoherentInv, SameFile
<1>10. QED
  BY <1>5, <1>9

LEMMA ExtendsSelf ==
  ASSUME NEW d, NEW l \in Files(d)
  PROVE  Extends(l, l)
<1>1. Size(l) \in Nat
  BY SizeFacts
<1>2. QED
  BY <1>1 DEF Extends

LEMMA EmptyUnique ==
  ASSUME NEW l, LinesOf(l) = <<>>
  PROVE  UniqueLines(l)
BY DEF UniqueLines

LEMMA HeldStays ==
  ASSUME NEW d, NEW l \in Files(d), NEW m \in Files(d), NEW q, Len(q) \in Nat, Appended(l, m, q), NEW r, Held(l, r)
  PROVE  Held(m, r)
<1>1. PICK i \in DOMAIN LinesOf(l) : Readable(LinesOf(l)[i].ver) /\ SameKey(r, LinesOf(l)[i])
  BY DEF Held
<1>2. /\ DOMAIN LinesOf(l) = 1..Len(LinesOf(l)) /\ DOMAIN LinesOf(m) = 1..Len(LinesOf(m))
      /\ Len(LinesOf(l)) \in Nat /\ Len(LinesOf(m)) \in Nat
  BY LineFacts
<1>3. i \in DOMAIN LinesOf(m) /\ LinesOf(m)[i] = LinesOf(l)[i]
  BY <1>1, <1>2 DEF Appended
<1>4. QED
  BY <1>1, <1>3 DEF Held

\* An append of new records, whole or cut, keeps what the cache knows true.
LEMMA OwnAppended ==
  ASSUME UsageInv, NEW h \in Hosts, host[h].pc = "write",
         ~Refused(host[h], ledger[Own]), ~Rewriting(host[h], ledger[Own]),
         NEW new, new = NewRecords(ledger[Own], Records(host[h]), host[h].hints),
         NEW m, m \in Files(Own), Appended(Base(ledger[Own], used.idents + 1), m, SetToSeq(new)),
         ledger' = [ledger EXCEPT ![Own] = m], UNCHANGED cache, used' \in UsedType,
         used'.idents = (IF ledger[Own] = NoFile THEN used.idents + 1 ELSE used.idents)
  PROVE  LedgerInv' /\ CoherentInv'
<1> DEFINE l == ledger[Own]
           b == Base(l, used.idents + 1)
<1>1. CacheInv /\ LedgerInv /\ CoherentInv /\ Own \in Ledgers /\ used.idents \in Nat
  BY UsageAssumption DEF UsageInv, LedgerInv, Own
<1>2. /\ new \subseteq Recs(Own) /\ Unique(new) /\ IsFiniteSet(new)
      /\ l # NoFile => \A r \in new : \A i \in DOMAIN LinesOf(l) : LinesOf(l)[i].ver # 0 => ~SameKey(r, LinesOf(l)[i])
  BY NewRecordsFacts
<1>3. (l = NoFile \/ l \in Files(Own)) /\ used.idents + 1 \in Nat
  BY <1>1 DEF LedgerInv
<1>4. /\ b \in Files(Own)
      /\ l = NoFile => LinesOf(b) = <<>> /\ b.ident = used.idents + 1
      /\ l # NoFile => b = l
  BY <1>3, BaseFacts
<1> HIDE DEF b
<1>5. UniqueLines(b)
  BY <1>1, <1>4, EmptyUnique DEF LedgerInv
<1>6. \A r \in new : \A i \in DOMAIN LinesOf(b) : LinesOf(b)[i].ver # 0 => ~SameKey(r, LinesOf(b)[i])
  <2>1. CASE l = NoFile
    <3>1. DOMAIN LinesOf(b) = {}
      BY <1>4, <2>1
    <3>2. QED
      BY <3>1
  <2>2. CASE l # NoFile
    BY <1>2, <1>4, <2>2
  <2>3. QED
    BY <2>1, <2>2
<1>7. Appended(b, m, SetToSeq(new))
  BY DEF b
<1>8. UniqueLines(m)
  BY <1>2, <1>4, <1>5, <1>6, <1>7, AppendedUnique
<1>9. SetToSeq(new) \in Seq(Recs(Own))
  <2>1. SetToSeq(new) \in Seq(new)
    BY <1>2, SetToSeqFacts
  <2> DEFINE q == SetToSeq(new)
  <2> HIDE DEF q
  <2>2. q \in Seq(Recs(Own))
    BY <1>2, <2>1 DEF q
  <2>3. QED
    BY <2>2 DEF q
<1>10. Extends(b, m)
  BY <1>4, <1>7, <1>9, AppendedExtends
<1>11. m.ident = b.ident
  BY <1>7 DEF Appended
<1>12. /\ m.ident \in 1..used'.idents /\ used.idents <= used'.idents
       /\ (used.idents < m.ident) \/ (l # NoFile /\ Extends(l, m))
  <2>1. CASE l = NoFile
    BY <1>1, <1>4, <1>11, <2>1
  <2>2. CASE l # NoFile
    BY <1>1, <1>4, <1>10, <1>11, <2>2 DEF LedgerInv
  <2>3. QED
    BY <2>1, <2>2
<1>13. QED
  BY <1>1, <1>8, <1>12, LedgerWritten

LEMMA HeldHolds ==
  ASSUME NEW l, l # NoFile, NEW e, Held(l, SyncRecord(e))
  PROVE  Holds(l, e)
BY DEF Held, Holds, SyncRecord, SameKey

LEMMA AppendStep ==
  ASSUME OneHost, UsageInv, NEW h \in Hosts, host[h].pc = "write",
         ~Refused(host[h], ledger[Own]), ~Rewriting(host[h], ledger[Own]),
         SetLedger(Own, AppendRecords(ledger[Own], NewRecords(ledger[Own], Records(host[h]), host[h].hints),
                                      used.idents + 1)),
         Update(h, [pc |-> AfterWrite(host[h])]), disturbed' = disturbed,
         UNCHANGED <<cache, logs, meter, spent>>
  PROVE  UsageInv'
<1> DEFINE s == host[h]
           t == host'[h]
           l == ledger[Own]
           new == NewRecords(l, Records(s), s.hints)
           m == AppendRecords(l, new, used.idents + 1)
           r == [pc |-> AfterWrite(s)]
<1>1. /\ Local(s) /\ DOMAIN host = Hosts /\ DOMAIN host[h] = Fields
      /\ CacheInv /\ CoherentInv /\ LedgerInv /\ Own \in Ledgers /\ used.idents \in Nat /\ used \in UsedType
  BY UsageAssumption DEF UsageInv, ScanInv, HostTypes, LedgerInv, UsedType, Own
<1>2. /\ DOMAIN host' = Hosts /\ DOMAIN t = Fields /\ \A x \in Fields \ {"pc"} : t[x] = s[x]
      /\ t.pc \in {"forget", "import"}
  <2>1. Update(h, r) /\ DOMAIN r = {"pc"} /\ r.pc \in {"forget", "import"}
    BY DEF AfterWrite
  <2> HIDE DEF r
  <2>2. QED
    BY <1>1, <2>1, HostStep, FieldsAre
<1>3. Local(t) /\ t.stat = {} /\ t.events = s.events /\ t.ok = s.ok
  <2> HIDE DEF s, t
  <2>1. t.events = s.events /\ t.ok = s.ok
    BY <1>2, FieldsAre
  <2>2. s.pc = "write"
    BY DEF s
  <2>3. FreshEvents(t) /\ Listed(t)
    BY <1>1, <1>2, <2>2, FieldsAre DEF Local, FreshEvents, Waiting, Listed
  <2>4. Planned(t) /\ Metered(t) /\ Collected(t) /\ Importing(t)
    BY <1>1, <1>2, <2>2, FieldsAre DEF Local, Planned, Metered, Collected, Importing, EventSteps
  <2>5. QED
    BY <1>2, <2>1, <2>3, <2>4 DEF Local, Importing
<1>4. Told(host[h])' /\ Tailing(host[h])' /\ Imported(host[h])'
  BY <1>2, <1>3 DEF Told, Tailing, Imported
<1>5. /\ new \subseteq Records(s) /\ new \subseteq Recs(Own) /\ IsFiniteSet(new)
      /\ l = NoFile => new = Records(s)
      /\ l # NoFile => \A x \in Records(s) \ new : Held(l, x)
  BY NewRecordsFacts
<1>6. /\ s.ok => \A e \in s.events : SyncRecord(e) \in Records(s)
      /\ \A x \in Records(s) : x.ver = Schema
  BY <1>1, RecordsFacts DEF Local, Collected, EventSteps
<1>7. ledger' = [ledger EXCEPT ![Own] = m]
      /\ used' = [used EXCEPT !.idents = IF m # NoFile /\ m.ident > @ THEN m.ident ELSE @]
  BY DEF SetLedger
<1>8. l # NoFile => l \in Files(Own) /\ l.ident \in 1..used.idents
  BY <1>1 DEF LedgerInv
<1> HIDE DEF new
<1>9. CASE new = {}
  <2>1. m = l
    BY <1>9 DEF AppendRecords
  <2>2. ledger'[Own] = l
    BY <1>1, <1>7, <2>1 DEF LedgerInv
  <2>3. ~(l # NoFile /\ l.ident > used.idents)
    BY <1>1, <1>8
  <2>4. used' = [used EXCEPT !.idents = @]
    BY <1>7, <2>1, <2>3
  <2>5. used' \in UsedType /\ used'.idents = used.idents
    BY <1>1, <2>4 DEF UsedType
  <2>6. LedgerInv' /\ CoherentInv' /\ CacheInv'
    <3>1. l # NoFile => Extends(l, l) /\ UniqueLines(l)
      BY <1>1, <1>8, ExtendsSelf DEF LedgerInv
    <3>2. used.idents <= used'.idents
      BY <1>1, <2>5
    <3> HIDE DEF m
    <3>a. ledger' = [ledger EXCEPT ![Own] = l]
      BY <1>7, <2>1
    <3>3. LedgerInv' /\ CoherentInv'
      BY <1>1, <1>8, <2>5, <3>1, <3>2, <3>a, LedgerWritten
    <3>4. QED
      BY <1>1, <3>3, CacheKept DEF CacheInv
  <2>7. Exported(host[h])'
    <3>1. SUFFICES ASSUME t.ok, NEW e \in t.events
                   PROVE  Holds(l, e)
      BY <2>2 DEF Exported
    <3>2. SyncRecord(e) \in Records(s) \ new
      BY <1>3, <1>6, <1>9, <3>1
    <3>3. l # NoFile
      BY <1>5, <1>9, <3>2
    <3>4. QED
      BY <1>5, <3>2, <3>3, HeldHolds
  <2>8. QED
    BY <1>2, <1>3, <1>4, <2>6, <2>7, LateStep DEF ScanSteps
<1>10. CASE new # {}
  <2> DEFINE b == Base(l, used.idents + 1)
  <2>1. (l = NoFile \/ l \in Files(Own)) /\ used.idents + 1 \in Nat
    BY <1>1, <1>8
  <2>2. /\ b \in Files(Own)
        /\ l = NoFile => b.ident = used.idents + 1
        /\ l # NoFile => b = l
    BY <2>1, BaseFacts
  <2>3. /\ m \in Files(Own) /\ Appended(b, m, SetToSeq(new))
        /\ \A x \in new : \E i \in DOMAIN LinesOf(m) : LinesOf(m)[i] = x
    <3> DEFINE ident == used.idents + 1
    <3>1. ident \in Nat /\ m = AppendRecords(l, new, ident) /\ b = Base(l, ident)
      BY <2>1
    <3> HIDE DEF m, b, ident
    <3>2. QED
      BY <1>5, <1>10, <2>1, <2>2, <3>1, AppendFacts
  <2> HIDE DEF b, m
  <2>4. m # NoFile /\ m.ident = b.ident
    BY <1>1, <2>3, ProofAssumption DEF Appended
  <2>5. used' \in UsedType /\ used'.idents = IF l = NoFile THEN used.idents + 1 ELSE used.idents
    <3>1. CASE l = NoFile
      <4>1. m.ident = used.idents + 1 /\ m.ident > used.idents
        BY <1>1, <2>2, <2>4, <3>1
      <4>2. used' = [used EXCEPT !.idents = used.idents + 1]
        BY <1>7, <2>4, <4>1
      <4>3. QED
        BY <1>1, <2>1, <3>1, <4>2 DEF UsedType
    <3>2. CASE l # NoFile
      <4>1. ~(m.ident > used.idents)
        BY <1>1, <1>8, <2>2, <2>4, <3>2
      <4>2. used' = [used EXCEPT !.idents = @]
        BY <1>7, <4>1
      <4>3. QED
        BY <1>1, <3>2, <4>2 DEF UsedType
    <3>3. QED
      BY <3>1, <3>2
  <2>6. CacheInv'
    BY <1>1, CacheKept DEF CacheInv
  <2>7. LedgerInv' /\ CoherentInv'
    BY <1>7, <2>3, <2>5, OwnAppended DEF new, b
  <2>8. ledger'[Own] = m
    BY <1>1, <1>7 DEF LedgerInv
  <2>9. Exported(host[h])'
    <3>1. SUFFICES ASSUME t.ok, NEW e \in t.events
                   PROVE  Holds(m, e)
      BY <2>8 DEF Exported
    <3>2. SyncRecord(e) \in Records(s)
      BY <1>3, <1>6, <3>1
    <3>3. CASE SyncRecord(e) \in new
      <4>1. PICK i \in DOMAIN LinesOf(m) : LinesOf(m)[i] = SyncRecord(e)
        BY <2>3, <3>3
      <4>2. Readable(LinesOf(m)[i].ver) /\ SameKey(SyncRecord(e), LinesOf(m)[i])
        BY <1>6, <3>2, <4>1 DEF Readable, SameKey
      <4>3. Held(m, SyncRecord(e))
        BY <4>2 DEF Held
      <4>4. QED
        BY <2>4, <4>3, HeldHolds
    <3>4. CASE SyncRecord(e) \notin new
      <4>1. l # NoFile /\ Held(l, SyncRecord(e))
        BY <1>5, <3>2, <3>4
      <4>2. Len(SetToSeq(new)) \in Nat /\ l \in Files(Own) /\ Appended(l, m, SetToSeq(new))
        BY <1>5, <1>8, <2>2, <2>3, <4>1, SetToSeqFacts
      <4>3. Held(m, SyncRecord(e))
        BY <2>3, <4>1, <4>2, HeldStays
      <4>4. QED
        BY <2>4, <4>3, HeldHolds
    <3>5. QED
      BY <3>3, <3>4
  <2>10. QED
    BY <1>2, <1>3, <1>4, <2>6, <2>7, <2>9, LateStep DEF ScanSteps
<1>11. QED
  BY <1>9, <1>10

\* The steps of the export keep what a scan holds apart from where it is.
LEMMA LocalMoved ==
  ASSUME NEW s, NEW t, Local(s), DOMAIN t = Fields, s.pc \in {"write", "swap", "forget"},
         t.pc \in {"swap", "forget", "import"},
         \A x \in Fields \ {"pc", "expect", "exported"} : t[x] = s[x]
  PROVE  Local(t) /\ t.stat = {} /\ t.events = s.events /\ t.ok = s.ok
<1>1. t.events = s.events /\ t.ok = s.ok /\ t.stat = s.stat
  BY FieldsAre
<1>2. FreshEvents(t) /\ Listed(t)
  BY FieldsAre DEF Local, FreshEvents, Waiting, Listed
<1>3. Planned(t) /\ Metered(t) /\ Collected(t) /\ Importing(t)
  BY FieldsAre DEF Local, Planned, Metered, Collected, Importing, EventSteps
<1>4. QED
  BY <1>1, <1>2, <1>3 DEF Local, Importing

\* An export that did not succeed is over, whatever it left of the ledger.
LEMMA ExportEnded ==
  ASSUME OneHost, UsageInv, NEW h \in Hosts, host[h].pc \in {"write", "swap"},
         Update(h, [pc |-> "import", exported |-> FALSE]),
         UNCHANGED <<cache, logs, meter, spent, disturbed>>, LedgerInv', CoherentInv'
  PROVE  UsageInv'
<1> DEFINE s == host[h]
           t == host'[h]
           r == [pc |-> "import", exported |-> FALSE]
<1>1. Local(s) /\ DOMAIN host = Hosts /\ DOMAIN host[h] = Fields /\ CacheInv /\ CoherentInv /\ LedgerInv
  BY DEF UsageInv, ScanInv, HostTypes
<1>2. /\ DOMAIN host' = Hosts /\ DOMAIN t = Fields /\ \A x \in Fields \ {"pc", "exported"} : t[x] = s[x]
      /\ t.pc = "import" /\ ~t.exported
  <2>1. Update(h, r) /\ DOMAIN r = {"pc", "exported"} /\ r.pc = "import" /\ ~r.exported
    OBVIOUS
  <2> HIDE DEF r
  <2>2. QED
    BY <1>1, <2>1, HostStep, FieldsAre
<1>3. Local(t) /\ t.stat = {}
  <2> HIDE DEF t
  <2>1. s.pc \in {"write", "swap", "forget"} /\ t.pc \in {"swap", "forget", "import"}
        /\ \A x \in Fields \ {"pc", "expect", "exported"} : t[x] = s[x]
    BY <1>2
  <2> HIDE DEF s
  <2>2. QED
    BY <1>1, <1>2, <2>1, LocalMoved
<1>4. Told(host[h])' /\ Exported(host[h])' /\ Tailing(host[h])' /\ Imported(host[h])'
  BY <1>2, <1>3 DEF Told, Exported, Tailing, Imported
<1>5. CacheInv'
  BY <1>1, CacheKept DEF CacheInv
<1>6. QED
  BY <1>2, <1>3, <1>4, <1>5, LateStep DEF ScanSteps

LEMMA ForgoneStep ==
  ASSUME OneHost, UsageInv, NEW h \in Hosts, host[h].pc \in {"write", "swap"},
         Update(h, [pc |-> "import", exported |-> FALSE]),
         UNCHANGED <<cache, logs, meter, spent, ledger, disturbed>>,
         used' \in UsedType, used'.idents = used.idents
  PROVE  UsageInv'
<1>1. CacheInv /\ CoherentInv /\ LedgerInv
  BY DEF UsageInv
<1>2. CoherentInv' /\ LedgerInv'
  BY <1>1, CacheKept, CoherentKept, LedgersKept DEF CacheInv
<1>3. QED
  BY <1>2, ExportEnded

LEMMA WriteLedgerStep ==
  ASSUME OneHost, UsageInv, NEW h \in Hosts, WriteLedger(h)
  PROVE  UsageInv'
<1> DEFINE s == host[h]
           t == host'[h]
           l == ledger[Own]
<1>1. s.pc = "write" /\ UNCHANGED <<cache, logs, meter, spent>>
  BY DEF WriteLedger, At
<1>2. CASE /\ Refused(s, l) /\ Update(h, [pc |-> "import", exported |-> FALSE])
           /\ UNCHANGED <<ledger, used, disturbed>>
  <2>1. used' \in UsedType /\ used'.idents = used.idents
    BY <1>2, UsedIs DEF UsageInv
  <2>2. QED
    BY <1>1, <1>2, <2>1, ForgoneStep
<1>3. CASE /\ ~Refused(s, l) /\ Rewriting(s, l)
           /\ Update(h, [pc |-> "swap", expect |-> IF l = NoFile THEN 0 ELSE l.ident])
           /\ UNCHANGED <<ledger, used, disturbed>>
  <2> DEFINE r == [pc |-> "swap", expect |-> IF l = NoFile THEN 0 ELSE l.ident]
  <2>1. Local(s) /\ DOMAIN host = Hosts /\ DOMAIN host[h] = Fields
    BY DEF UsageInv, ScanInv, HostTypes
  <2>2. /\ DOMAIN host' = Hosts /\ DOMAIN t = Fields /\ \A x \in Fields \ {"pc", "expect"} : t[x] = s[x]
        /\ t.pc = "swap"
    <3>1. Update(h, r) /\ DOMAIN r = {"pc", "expect"} /\ r.pc = "swap"
      BY <1>3
    <3> HIDE DEF r
    <3>2. QED
      BY <2>1, <3>1, HostStep, FieldsAre
  <2>3. Local(t)
    <3> HIDE DEF t
    <3>1. s.pc \in {"write", "swap", "forget"} /\ t.pc \in {"swap", "forget", "import"}
          /\ \A x \in Fields \ {"pc", "expect", "exported"} : t[x] = s[x]
      BY <1>1, <2>2
    <3> HIDE DEF s
    <3>2. QED
      BY <2>1, <2>2, <3>1, LocalMoved
  <2>4. Cached(cache') /\ SyncKept(cache, cache')
    BY <1>1, CacheKept DEF UsageInv
  <2>5. used' \in UsedType /\ used'.idents = used.idents
    BY <1>3, UsedIs DEF UsageInv
  <2>6. disturbed' \subseteq Active'
    BY <1>3, <2>2, Awake DEF UsageInv
  <2>7. QED
    BY <1>1, <1>3, <2>2, <2>3, <2>4, <2>5, <2>6, EarlyStep DEF Early
<1>4. CASE /\ ~Refused(s, l) /\ ~Rewriting(s, l)
           /\ SetLedger(Own, AppendRecords(l, NewRecords(l, Records(s), s.hints), used.idents + 1))
           /\ Update(h, [pc |-> AfterWrite(s)])
           /\ IF ledger' = ledger THEN UNCHANGED disturbed ELSE Disturbs(h)
  <2>1. disturbed' = disturbed
    BY <1>4, NotDisturbed
  <2>2. QED
    BY <1>1, <1>4, <2>1, AppendStep
<1>5. QED
  BY <1>2, <1>3, <1>4 DEF WriteLedger

\* What a step that fails or is cut short has used.
LEMMA ErrorUsed ==
  ASSUME NEW u, u \in UsedType, NEW n \in Nat, NEW v, v = [u EXCEPT !.errors = @ + 1, !.idents = n]
  PROVE  v \in UsedType /\ v.idents = n
<1> DEFINE w == [u EXCEPT !.errors = @ + 1]
<1>1. w \in UsedType
  BY DEF UsedType
<1>2. v = [w EXCEPT !.idents = n]
  BY Zenon
<1> HIDE DEF w
<1>3. QED
  BY <1>1, <1>2 DEF UsedType

\* The file an export swaps in holds every record once.
LEMMA NewFileIs ==
  ASSUME UsageInv, NEW h \in Hosts, host[h].pc = "swap",
         NEW q, q = SetToSeq(Records(host[h])), NEW m, m = NewLedger(used.idents + 1, q)
  PROVE  /\ Len(q) \in Nat /\ DOMAIN q = 1..Len(q)
         /\ \A x \in Records(host[h]) : \E i \in 1..Len(q) : q[i] = x
         /\ m \in Files(Own) /\ m # NoFile /\ m.ident = used.idents + 1 /\ LinesOf(m) = q /\ UniqueLines(m)
<1> DEFINE recs == Records(host[h])
<1>1. Local(host[h]) /\ used.idents \in Nat /\ Own \in Ledgers
  BY UsageAssumption DEF UsageInv, ScanInv, LedgerInv, Own
<1>2. recs \subseteq Recs(Own) /\ Unique(recs) /\ IsFiniteSet(recs)
  BY <1>1, RecordsFacts DEF Local, Collected, EventSteps
<1>3. /\ q \in Seq(recs) /\ Len(q) \in Nat
      /\ \A x \in recs : \E i \in 1..Len(q) : q[i] = x
      /\ \A i \in 1..Len(q) : q[i] \in recs
      /\ \A i, j \in 1..Len(q) : q[i] = q[j] => i = j
  <2> HIDE DEF recs
  <2>1. q = SetToSeq(recs)
    BY DEF recs
  <2>2. QED
    BY <1>2, <2>1, SetToSeqFacts
<1> HIDE DEF recs
<1>4. q \in Seq(Lines(Own)) /\ DOMAIN q = 1..Len(q)
  BY <1>2, <1>3 DEF Lines
<1>5. m \in Files(Own) /\ m.ident = used.idents + 1 /\ LinesOf(m) = q
  BY <1>1, <1>4, NewLedgerFacts
<1>6. m # NoFile
  BY <1>1, <1>5, ProofAssumption
<1>7. UniqueLines(m)
  <2>1. \A i, j \in DOMAIN q : SameKey(q[i], q[j]) => i = j
    BY <1>2, <1>3, <1>4 DEF Unique
  <2>2. QED
    BY <1>5, <2>1 DEF UniqueLines
<1>8. QED
  BY <1>3, <1>4, <1>5, <1>6, <1>7 DEF recs

LEMMA SwapLedgerStep ==
  ASSUME OneHost, UsageInv, NEW h \in Hosts, SwapLedger(h)
  PROVE  UsageInv'
<1> DEFINE s == host[h]
           t == host'[h]
           l == ledger[Own]
           is == IF l = NoFile THEN 0 ELSE l.ident
           recs == Records(s)
           q == SetToSeq(recs)
           m == NewLedger(used.idents + 1, q)
<1>1. s.pc = "swap" /\ UNCHANGED <<cache, logs, meter, spent>>
  BY DEF SwapLedger, At
<1>2. CASE /\ Update(h, [pc |-> "import", exported |-> FALSE])
           /\ UNCHANGED <<ledger, used, disturbed>>
  <2>1. used' \in UsedType /\ used'.idents = used.idents
    BY <1>2, UsedIs DEF UsageInv
  <2>2. QED
    BY <1>1, <1>2, <2>1, ForgoneStep
<1>3. CASE SetLedger(Own, m) /\ Update(h, [pc |-> "forget"]) /\ Disturbs(h)
  <2> DEFINE r == [pc |-> "forget"]
  <2>1. /\ Local(s) /\ DOMAIN host = Hosts /\ DOMAIN host[h] = Fields
        /\ CacheInv /\ CoherentInv /\ LedgerInv /\ Own \in Ledgers /\ used.idents \in Nat /\ used \in UsedType
    BY UsageAssumption DEF UsageInv, ScanInv, HostTypes, LedgerInv, UsedType, Own
  <2>2. /\ DOMAIN host' = Hosts /\ DOMAIN t = Fields /\ \A x \in Fields \ {"pc"} : t[x] = s[x]
        /\ t.pc = "forget"
    <3>1. Update(h, r) /\ DOMAIN r = {"pc"} /\ r.pc = "forget"
      BY <1>3
    <3> HIDE DEF r
    <3>2. QED
      BY <2>1, <3>1, HostStep, FieldsAre
  <2>3. Local(t) /\ t.stat = {} /\ t.events = s.events /\ t.ok = s.ok
    <3> HIDE DEF t
    <3>1. s.pc \in {"write", "swap", "forget"} /\ t.pc \in {"swap", "forget", "import"}
          /\ \A x \in Fields \ {"pc", "expect", "exported"} : t[x] = s[x]
      BY <1>1, <2>2
    <3> HIDE DEF s
    <3>2. QED
      BY <2>1, <2>2, <3>1, LocalMoved
  <2>4. /\ recs \subseteq Recs(Own) /\ Unique(recs) /\ IsFiniteSet(recs) /\ \A x \in recs : x.ver = Schema
        /\ s.ok => \A e \in s.events : SyncRecord(e) \in recs
    BY <1>1, <2>1, RecordsFacts DEF Local, Collected, EventSteps
  <2>5. /\ Len(q) \in Nat /\ \A x \in recs : \E i \in 1..Len(q) : q[i] = x
        /\ DOMAIN q = 1..Len(q)
    BY <1>1, NewFileIs
  <2>6. m # NoFile
    BY <1>1, NewFileIs
  <2>7. m \in Files(Own) /\ m.ident = used.idents + 1 /\ LinesOf(m) = q
    BY <1>1, NewFileIs
  <2>8. UniqueLines(m)
    BY <1>1, NewFileIs
  <2> HIDE DEF q, recs
  <2>9. ledger' = [ledger EXCEPT ![Own] = m]
        /\ used' = [used EXCEPT !.idents = IF m # NoFile /\ m.ident > @ THEN m.ident ELSE @]
    BY <1>3 DEF SetLedger
  <2> HIDE DEF m
  <2>10. m # NoFile /\ m.ident > used.idents
    BY <2>1, <2>6, <2>7
  <2>11. used' = [used EXCEPT !.idents = m.ident]
    BY <2>9, <2>10
  <2>12. used' \in UsedType /\ used'.idents = used.idents + 1
    BY <2>1, <2>7, <2>11 DEF UsedType
  <2>13. m.ident \in 1..used'.idents /\ used.idents <= used'.idents /\ used.idents < m.ident
    BY <2>1, <2>7, <2>12
  <2>14. LedgerInv' /\ CoherentInv'
    BY <1>1, <2>1, <2>7, <2>8, <2>9, <2>12, <2>13, LedgerWritten
  <2>15. CacheInv'
    BY <1>1, <2>1, CacheKept DEF CacheInv
  <2>16. ledger'[Own] = m
    BY <2>1, <2>9 DEF LedgerInv
  <2>17. Exported(host[h])'
    <3>1. SUFFICES ASSUME t.ok, NEW e \in t.events
                   PROVE  Holds(m, e)
      BY <2>16 DEF Exported
    <3>2. SyncRecord(e) \in recs
      BY <2>3, <2>4, <3>1
    <3>3. PICK i \in 1..Len(q) : q[i] = SyncRecord(e)
      BY <2>5, <3>2
    <3>4. i \in DOMAIN LinesOf(m) /\ LinesOf(m)[i] = SyncRecord(e)
      BY <2>5, <2>7, <3>3
    <3>5. Readable(LinesOf(m)[i].ver) /\ SameKey(SyncRecord(e), LinesOf(m)[i])
      BY <2>4, <3>2, <3>4 DEF Readable, SameKey
    <3>6. Held(m, SyncRecord(e))
      BY <3>4, <3>5 DEF Held
    <3>7. QED
      BY <2>10, <3>6, HeldHolds
  <2>18. Told(host[h])' /\ Tailing(host[h])' /\ Imported(host[h])'
    BY <2>2, <2>3 DEF Told, Tailing, Imported
  <2>19. disturbed' = disturbed
    BY <1>3, NotDisturbed
  <2>20. QED
    BY <1>1, <2>2, <2>3, <2>14, <2>15, <2>17, <2>18, <2>19, LateStep DEF ScanSteps
<1>4. QED
  BY <1>2, <1>3 DEF SwapLedger

LEMMA FailExportStep ==
  ASSUME OneHost, UsageInv, NEW h \in Hosts, FailExport(h)
  PROVE  UsageInv'
<1> DEFINE s    == host[h]
           l    == ledger[Own]
           next == used.idents + 1
           new  == NewRecords(l, Records(s), s.hints)
           q    == SetToSeq(Records(s))
           left == IF At(h, "swap") THEN {NewLedger(next, q)}
                   ELSE IF new = {} \/ Refused(s, l) \/ Rewriting(s, l) THEN {}
                   ELSE CutAppends(l, new, next) \cup {AppendRecords(l, new, next)}
<1>1. /\ s.pc \in {"write", "swap"} /\ Update(h, [pc |-> "import", exported |-> FALSE])
      /\ UNCHANGED <<cache, logs, meter, spent>>
      /\ CacheInv /\ CoherentInv /\ LedgerInv /\ Own \in Ledgers /\ used.idents \in Nat /\ used \in UsedType
  BY UsageAssumption DEF FailExport, UsageInv, LedgerInv, UsedType, Own
<1>2. CASE used' = [used EXCEPT !.errors = @ + 1] /\ UNCHANGED <<ledger, disturbed>>
  <2>1. used' \in UsedType /\ used'.idents = used.idents
    BY <1>1, <1>2, UsedIs
  <2>2. QED
    BY <1>1, <1>2, <2>1, ForgoneStep
<1>3. ASSUME NEW m \in left, ledger' = [ledger EXCEPT ![Own] = m], Disturbs(h),
             used' = [used EXCEPT !.errors = @ + 1, !.idents = IF m.ident = next THEN next ELSE @]
      PROVE  UsageInv'
  <2> DEFINE n == IF m.ident = next THEN next ELSE used.idents
  <2>1. n \in Nat /\ next \in Nat
    BY <1>1
  <2>2. used' = [used EXCEPT !.errors = @ + 1, !.idents = n]
    BY <1>3
  <2>3. used' \in UsedType /\ used'.idents = n
    <3> HIDE DEF n
    <3>1. QED
      BY <1>1, <2>1, <2>2, ErrorUsed
  <2>4. disturbed' = disturbed
    BY <1>3, NotDisturbed
  <2>5. LedgerInv' /\ CoherentInv'
    <3>1. CASE s.pc = "swap"
      <4>1. m = NewLedger(next, q)
        BY <1>3, <3>1 DEF At
      <4>2. m \in Files(Own) /\ m.ident = next /\ UniqueLines(m)
        BY <3>1, <4>1, NewFileIs
      <4>3. m.ident \in 1..used'.idents /\ used.idents <= used'.idents /\ used.idents < m.ident
        BY <1>1, <2>3, <4>2
      <4> HIDE DEF n, left, q
      <4>4. QED
        BY <1>1, <1>3, <2>3, <4>2, <4>3, LedgerWritten
    <3>2. CASE s.pc = "write"
      <4>1. /\ new # {} /\ ~Refused(s, l) /\ ~Rewriting(s, l)
            /\ m \in CutAppends(l, new, next) \/ m = AppendRecords(l, new, next)
        BY <1>3, <3>2 DEF At
      <4>2. new \subseteq Recs(Own) /\ IsFiniteSet(new)
        BY <3>2, <4>1, NewRecordsFacts
      <4>3. (l = NoFile \/ l \in Files(Own)) /\ (l # NoFile => l.ident \in 1..used.idents)
        BY <1>1 DEF LedgerInv
      <4>4. /\ Base(l, next) \in Files(Own)
            /\ l = NoFile => Base(l, next).ident = next
            /\ l # NoFile => Base(l, next) = l
        BY <2>1, <4>3, BaseFacts
      <4>5. m \in Files(Own) /\ Appended(Base(l, next), m, SetToSeq(new))
        <5> HIDE DEF new, next, l
        <5>1. QED
          BY <2>1, <4>1, <4>2, <4>3, <4>4, CutFacts, AppendFacts
      <4>6. m.ident = Base(l, next).ident
        BY <4>5 DEF Appended
      <4>7. used'.idents = IF l = NoFile THEN used.idents + 1 ELSE used.idents
        BY <1>1, <2>3, <4>3, <4>4, <4>6
      <4> HIDE DEF n, left
      <4>8. QED
        BY <1>1, <1>3, <2>3, <3>2, <4>1, <4>5, <4>7, OwnAppended
    <3>3. QED
      BY <1>1, <3>1, <3>2
  <2>6. QED
    BY <1>1, <2>4, <2>5, ExportEnded
<1>4. QED
  BY <1>2, <1>3 DEF FailExport

LEMMA ForgetLedgerStep ==
  ASSUME OneHost, UsageInv, NEW h \in Hosts, ForgetLedger(h)
  PROVE  UsageInv'
<1> DEFINE s == host[h]
           t == host'[h]
           r == [pc |-> "import"]
<1>1. /\ s.pc = "forget" /\ UNCHANGED <<logs, meter, spent, ledger, used>>
      /\ cache' = RemoveOrigins(cache, "sync", {Own})
  BY DEF ForgetLedger, At
<1>2. /\ Local(s) /\ DOMAIN host = Hosts /\ DOMAIN host[h] = Fields
      /\ CacheInv /\ CoherentInv /\ LedgerInv
      /\ h \notin disturbed => Exported(s)
  BY DEF UsageInv, ScanInv, HostTypes, ExportInv
<1>3. /\ DOMAIN host' = Hosts /\ DOMAIN t = Fields /\ \A x \in Fields \ {"pc"} : t[x] = s[x]
      /\ t.pc = "import"
  <2>1. Update(h, r) /\ DOMAIN r = {"pc"} /\ r.pc = "import"
    BY DEF ForgetLedger
  <2> HIDE DEF r
  <2>2. QED
    BY <1>2, <2>1, HostStep, FieldsAre
<1>4. Local(t) /\ t.stat = {} /\ t.events = s.events /\ t.ok = s.ok /\ t.exported = s.exported
  <2> HIDE DEF t
  <2>1. s.pc \in {"write", "swap", "forget"} /\ t.pc \in {"swap", "forget", "import"}
        /\ (\A x \in Fields \ {"pc", "expect", "exported"} : t[x] = s[x]) /\ t.exported = s.exported
    BY <1>1, <1>3, FieldsAre
  <2> HIDE DEF s
  <2>2. QED
    BY <1>2, <1>3, <2>1, LocalMoved
<1>5. used' \in UsedType /\ used'.idents = used.idents
  BY <1>1, <1>2, UsedIs
<1>6. CacheInv' /\ CoherentInv' /\ LedgerInv'
  BY <1>1, <1>2, <1>5, CoherentForgot, LedgersKept
<1>7. h \notin disturbed => Exported(host[h])'
  BY <1>1, <1>2, <1>3, <1>4 DEF Exported
<1>8. Told(host[h])' /\ Tailing(host[h])' /\ Imported(host[h])'
  BY <1>3, <1>4 DEF Told, Tailing, Imported
<1>9. disturbed' = disturbed
  BY NotDisturbed DEF ForgetLedger
<1>10. QED
  BY <1>1, <1>3, <1>4, <1>6, <1>7, <1>8, <1>9, LateStep DEF ScanSteps

-----------------------------------------------------------------------------
(***************************************************************************)
(* The import.                                                             *)
(***************************************************************************)
ImportFields == {"pc", "ledgers", "paths", "stat", "kept", "prefetched", "usable", "completed", "failed"}

LEMMA ImportStep ==
  ASSUME OneHost, UsageInv, NEW h \in Hosts, host[h].pc \in {"import", "stat", "read"},
         DOMAIN host' = Hosts, DOMAIN host'[h] = Fields, host'[h].pc \in {"stat", "read"},
         \A x \in Fields \ ImportFields : host'[h][x] = host[h][x],
         Importing(host'[h]), CacheInv', CoherentInv', UNCHANGED <<logs, meter, spent, ledger>>,
         used' \in UsedType, used'.idents = used.idents,
         disturbed' = disturbed, Tailing(host[h])', h \notin disturbed => Imported(host[h])'
  PROVE  UsageInv'
<1> DEFINE s == host[h]
           t == host'[h]
<1>1. Local(s) /\ LedgerInv
  BY DEF UsageInv, ScanInv
<1>2. h \notin disturbed => Exported(s)
  BY DEF UsageInv, ExportInv
<1>3. /\ t.events = s.events /\ t.ok = s.ok /\ t.exported = s.exported /\ t.hints = s.hints
      /\ t.fresh = s.fresh /\ t.snaps = s.snaps /\ t.root = s.root /\ t.todo = s.todo
      /\ t.pending = s.pending /\ t.updates = s.updates
  BY FieldsAre DEF ImportFields
<1>4. Local(t)
  <2>1. s.pc \in {"import", "stat", "read"} /\ t.pc \in {"stat", "read"} /\ Importing(t)
    OBVIOUS
  <2> HIDE DEF s, t
  <2>2. FreshEvents(t) /\ Listed(t)
    BY <1>1, <1>3, <2>1 DEF Local, FreshEvents, Waiting, Listed
  <2>3. Planned(t) /\ Metered(t) /\ Collected(t)
    BY <1>1, <1>3, <2>1 DEF Local, Planned, Metered, Collected, EventSteps
  <2>4. QED
    BY <2>1, <2>2, <2>3 DEF Local
<1>5. LedgerInv'
  BY <1>1, LedgersKept
<1>6. Told(host[h])'
  BY DEF Told
<1>7. h \notin disturbed => Exported(host[h])'
  <2>1. CASE s.pc = "import"
    BY <1>2, <1>3, <2>1 DEF Exported
  <2>2. CASE s.pc \in {"stat", "read"}
    BY <1>2, <1>3, <2>2 DEF Exported
  <2>3. QED
    BY <2>1, <2>2
<1>8. QED
  BY <1>4, <1>5, <1>6, <1>7, LateStep DEF ScanSteps

\* An event of this device is marked so.
LEMMA EventIsOwn ==
  ASSUME NEW e \in Events
  PROVE  e.dev = Own
<1> DEFINE D == {Own}
           L == {TRUE}
<1>1. Events = [dev : D, id : Ids, at : Nat, use : Int, local : L] /\ \A u \in D : u = Own
  BY DEF Events
<1> HIDE DEF D, L
<1>2. QED
  BY <1>1

LEMMA ListLedgersStep ==
  ASSUME OneHost, UsageInv, NEW h \in Hosts, ListLedgers(h)
  PROVE  UsageInv'
<1> DEFINE s == host[h]
           t == host'[h]
           found == {d \in Ledgers : ledger[d] # NoFile}
<1>1. /\ s.pc = "import" /\ UNCHANGED <<cache, logs, meter, spent, ledger, disturbed>>
      /\ Local(s) /\ DOMAIN host = Hosts /\ DOMAIN host[h] = Fields /\ CacheInv /\ CoherentInv /\ LedgerInv
      /\ h \notin disturbed => Exported(s)
  BY DEF ListLedgers, At, UsageInv, ScanInv, HostTypes, ExportInv
<1>2. used' \in UsedType /\ used'.idents = used.idents
  BY <1>1, WorksFacts DEF ListLedgers
<1>3. CacheInv' /\ CoherentInv'
  BY <1>1, <1>2, CacheKept, CoherentKept DEF CacheInv
<1>4. CASE Update(h, [pc |-> "stat", ledgers |-> found, paths |-> found])
  <2> DEFINE r == [pc |-> "stat", ledgers |-> found, paths |-> found]
  <2>1. /\ DOMAIN host' = Hosts /\ DOMAIN t = Fields /\ \A x \in Fields \ {"pc", "ledgers", "paths"} : t[x] = s[x]
        /\ t.pc = "stat" /\ t.ledgers = found /\ t.paths = found
    <3>1. Update(h, r) /\ DOMAIN r = {"pc", "ledgers", "paths"} /\ r.pc = "stat" /\ r.ledgers = found /\ r.paths = found
      BY <1>4
    <3> HIDE DEF r, found
    <3>2. QED
      BY <1>1, <3>1, HostStep, FieldsAre
  <2>2. /\ t.stat = {} /\ t.kept = {} /\ t.prefetched = {} /\ t.usable /\ t.completed /\ t.failed = {}
    <3>1. /\ s.stat = {} /\ s.kept = {} /\ s.prefetched = {} /\ s.usable /\ s.completed /\ s.failed = {}
      BY <1>1 DEF Local, Importing
    <3>2. QED
      BY <2>1, <3>1, FieldsAre
  <2>3. Importing(t)
    BY <2>1, <2>2 DEF Importing
  <2>4. Tailing(host[h])'
    BY <2>2 DEF Tailing
  <2>5. Imported(host[h])'
    BY <1>1, <2>1, <2>2 DEF Imported
  <2>6. \A x \in Fields \ ImportFields : t[x] = s[x]
    BY <2>1 DEF ImportFields
  <2>7. QED
    BY <1>1, <1>2, <1>3, <2>1, <2>3, <2>4, <2>5, <2>6, ImportStep
<1>5. CASE Update(h, [pc |-> "done", hints |-> {}, failed |-> Ledgers])
  <2> DEFINE r == [pc |-> "done", hints |-> {}, failed |-> Ledgers]
  <2>1. /\ DOMAIN host' = Hosts /\ DOMAIN t = Fields /\ \A x \in Fields \ {"pc", "hints", "failed"} : t[x] = s[x]
        /\ t.pc = "done" /\ t.hints = {} /\ t.failed = Ledgers
    <3>1. Update(h, r) /\ DOMAIN r = {"pc", "hints", "failed"} /\ r.pc = "done" /\ r.hints = {} /\ r.failed = Ledgers
      BY <1>5
    <3> HIDE DEF r
    <3>2. QED
      BY <1>1, <3>1, HostStep, FieldsAre
  <2>2. /\ t.events = s.events /\ t.ok = s.ok /\ t.exported = s.exported /\ t.stat = {} /\ s.events \subseteq Events
    BY <1>1, <2>1, FieldsAre DEF Local, Importing, Collected, EventSteps
  <2>3. Local(t)
    <3> HIDE DEF s, t
    <3>1. FreshEvents(t) /\ Listed(t)
      BY <1>1, <2>1, FieldsAre DEF Local, FreshEvents, Waiting, Listed
    <3>2. Planned(t) /\ Metered(t) /\ Collected(t) /\ Importing(t)
      BY <1>1, <2>1, FieldsAre DEF Local, Planned, Metered, Collected, Importing, EventSteps
    <3>3. QED
      BY <2>1, <3>1, <3>2 DEF Local
  <2>4. LedgerInv'
    BY <1>1, <1>2, LedgersKept
  <2>5. h \notin disturbed => Exported(host[h])'
    BY <1>1, <2>1, <2>2 DEF Exported
  <2>6. Told(host[h])' /\ Tailing(host[h])' /\ Imported(host[h])'
    BY <2>1, <2>2 DEF Told, Tailing, Imported
  <2>7. ShownInv'
    <3>1. \A e \in t.events : e.dev = Own
      BY <2>2, EventIsOwn
    <3>2. \A d \in Ledgers \ {Own} : {e \in t.events : e.dev = d} = {}
      BY <3>1
    <3>3. \A d \in Ledgers \ {Own} : Idents({e \in t.events : e.dev = d}) = {}
      BY <3>2 DEF Idents
    <3>4. Hosts = {h}
      BY OnlyHost
    <3>5. QED
      BY <2>1, <3>3, <3>4 DEF ShownInv, Shown
  <2>8. QED
    BY <1>1, <1>3, <2>1, <2>3, <2>4, <2>5, <2>6, <2>7, LateStep DEF ScanSteps
<1>6. QED
  BY <1>4, <1>5 DEF ListLedgers

LEMMA WithIs ==
  ASSUME NEW r, NEW s
  PROVE  /\ DOMAIN With(r, s) = DOMAIN r \cup DOMAIN s
         /\ \A f \in DOMAIN r : With(r, s)[f] = r[f]
         /\ \A f \in DOMAIN s \ DOMAIN r : With(r, s)[f] = s[f]
BY DEF With

LEMMA LedgerToStat ==
  ASSUME NEW S, S \subseteq Ledgers, S # {},
         NEW d, d = CHOOSE x \in S : \A y \in S : x <= y
  PROVE  d \in S
<1>1. S \subseteq Nat
  BY UsageAssumption
<1>2. PICK x \in S : TRUE
  OBVIOUS
<1>3. \E y \in S : \A z \in S : y <= z
  BY <1>1, <1>2, Least
<1>4. QED
  BY <1>3

LEMMA StatLedgerStep ==
  ASSUME OneHost, UsageInv, NEW h \in Hosts, StatLedger(h)
  PROVE  UsageInv'
<1> DEFINE s    == host[h]
           t    == host'[h]
           d    == CHOOSE x \in s.ledgers : \A y \in s.ledgers : x <= y
           l    == ledger[d]
           rest == [ledgers |-> s.ledgers \ {d}]
           same == {o \in Known(d) : SameFile(o, l)}
<1>1. /\ s.pc = "stat" /\ s.ledgers # {} /\ UNCHANGED <<logs, meter, spent, ledger>>
      /\ Local(s) /\ DOMAIN host = Hosts /\ DOMAIN host[h] = Fields /\ CacheInv /\ CoherentInv
      /\ h \notin disturbed => Imported(s)
  BY DEF StatLedger, At, UsageInv, ScanInv, HostTypes, ImportInv
<1>2. Importing(s) /\ s.ledgers \subseteq Ledgers /\ s.paths \subseteq Ledgers /\ s.stat = {}
  BY <1>1 DEF Local, Importing
<1>3. d \in s.ledgers
  BY <1>1, <1>2, LedgerToStat
<1>5. same \subseteq OriginFile(cache, "sync", d)
  BY DEF Known
<1>6. \A o \in OriginFile(cache, "sync", d) : o.size \in Nat
  BY <1>1 DEF CacheInv, Cached, LedgersCached, Origins, OriginFile
<1>7. DOMAIN rest = {"ledgers"} /\ rest.ledgers = s.ledgers \ {d}
  OBVIOUS
<1>8. DOMAIN [kept |-> s.kept \cup {d}] = {"kept"} /\ [kept |-> s.kept \cup {d}].kept = s.kept \cup {d}
  OBVIOUS
<1>9. used' \in UsedType /\ used'.idents = used.idents
  BY WorksFacts DEF StatLedger, UsageInv
<1>10. cache' = cache => CacheInv' /\ CoherentInv'
  BY <1>1, <1>9, CacheKept, CoherentKept DEF CacheInv
<1> DEFINE D == ImportFields \ {"paths"}
<1>11. ASSUME NEW r, Update(h, With(rest, r)), DOMAIN r \subseteq D \ {"ledgers"}
       PROVE  /\ DOMAIN host' = Hosts /\ DOMAIN t = Fields /\ t.ledgers = s.ledgers \ {d}
              /\ \A x \in DOMAIN r : t[x] = r[x]
              /\ \A x \in Fields \ (DOMAIN r \cup {"ledgers"}) : t[x] = s[x]
  <2> DEFINE w == With(rest, r)
  <2> HIDE DEF rest
  <2>1. /\ DOMAIN w = {"ledgers"} \cup DOMAIN r /\ w.ledgers = s.ledgers \ {d}
        /\ \A x \in DOMAIN r : w[x] = r[x]
    <3>1. DOMAIN w = DOMAIN rest \cup DOMAIN r
          /\ (\A f \in DOMAIN rest : w[f] = rest[f]) /\ \A f \in DOMAIN r \ DOMAIN rest : w[f] = r[f]
      BY WithIs
    <3>2. \A f \in DOMAIN r : f # "ledgers"
      BY <1>11
    <3> HIDE DEF w
    <3>3. QED
      BY <1>7, <3>1, <3>2
  <2>2. DOMAIN w \subseteq Fields
    BY <1>11, <2>1, FieldsAre DEF ImportFields
  <2> HIDE DEF w
  <2>3. Update(h, w)
    BY <1>11 DEF w
  <2>4. QED
    BY <1>1, <2>1, <2>2, <2>3, HostStep
<1> HIDE DEF d, rest, same
<1>12. CASE /\ Update(h, With(rest, [completed |-> FALSE, usable |-> FALSE, failed |-> s.failed \cup {d}]))
            /\ UNCHANGED <<cache, disturbed>>
  <2> DEFINE r == [completed |-> FALSE, usable |-> FALSE, failed |-> s.failed \cup {d}]
  <2>1. /\ DOMAIN r = {"completed", "usable", "failed"} /\ ~r.completed /\ ~r.usable /\ r.failed = s.failed \cup {d}
        /\ Update(h, With(rest, r))
    BY <1>12
  <2> HIDE DEF r
  <2>2. /\ DOMAIN host' = Hosts /\ DOMAIN t = Fields /\ t.ledgers = s.ledgers \ {d}
        /\ ~t.completed /\ ~t.usable /\ t.failed = s.failed \cup {d}
        /\ \A x \in Fields \ {"completed", "usable", "failed", "ledgers"} : t[x] = s[x]
    BY <1>11, <2>1 DEF ImportFields
  <2>3. t.pc = "stat" /\ t.stat = {} /\ t.paths = s.paths /\ t.kept = s.kept /\ t.prefetched = s.prefetched
    BY <1>1, <1>2, <2>2, FieldsAre
  <2>4. Importing(t)
    BY <1>2, <1>3, <2>2, <2>3 DEF Importing
  <2>5. Tailing(host[h])'
    BY <2>3 DEF Tailing
  <2>6. \A x \in Fields \ ImportFields : t[x] = s[x]
    BY <2>2 DEF ImportFields
  <2>7. h \notin disturbed => Imported(host[h])'
    <3>1. SUFFICES ASSUME h \notin disturbed PROVE Imported(host[h])'
      OBVIOUS
    <3>2. /\ s.paths = {c \in Ledgers : ledger[c] # NoFile}
          /\ s.ledgers \cup s.kept \subseteq s.paths /\ s.kept \cap s.ledgers = {}
          /\ \A p \in s.prefetched : p.d \in s.paths /\ p.recs = ReadFrom(ledger[p.d], 0).recs
      BY <1>1, <1>2, <3>1 DEF Imported
    <3>3. t.ledgers \cup t.kept \subseteq t.paths /\ t.kept \cap t.ledgers = {}
      BY <2>2, <2>3, <3>2
    <3>4. QED
      BY <1>1, <2>2, <2>3, <3>2, <3>3 DEF Imported
  <2>8. QED
    BY <1>1, <1>9, <1>10, <1>12, <2>2, <2>3, <2>4, <2>5, <2>6, <2>7, ImportStep
<1>13. CASE /\ Update(h, With(rest, [kept |-> s.kept \cup {d}])) /\ disturbed' = disturbed
            /\ CacheInv' /\ CoherentInv'
            /\ \A c \in Ledgers \ {d} : OriginFile(cache', "sync", c) = OriginFile(cache, "sync", c)
            /\ l.away \/ \E o \in OriginFile(cache', "sync", d) : SameFile(o, l) /\ o.size = Size(l)
  <2> DEFINE r == [kept |-> s.kept \cup {d}]
  <2>1. DOMAIN r = {"kept"} /\ r.kept = s.kept \cup {d} /\ Update(h, With(rest, r))
    BY <1>13
  <2> HIDE DEF r
  <2>2. /\ DOMAIN host' = Hosts /\ DOMAIN t = Fields /\ t.ledgers = s.ledgers \ {d} /\ t.kept = s.kept \cup {d}
        /\ \A x \in Fields \ {"kept", "ledgers"} : t[x] = s[x]
    BY <1>11, <2>1 DEF ImportFields
  <2>3. /\ t.pc = "stat" /\ t.stat = {} /\ t.paths = s.paths /\ t.usable = s.usable /\ t.completed = s.completed
        /\ t.prefetched = s.prefetched /\ t.failed = s.failed
    BY <1>1, <1>2, <2>2, FieldsAre
  <2>4. Importing(t)
    BY <1>2, <2>2, <2>3 DEF Importing
  <2>5. Tailing(host[h])'
    BY <2>3 DEF Tailing
  <2>6. \A x \in Fields \ ImportFields : t[x] = s[x]
    BY <2>2 DEF ImportFields
  <2>7. h \notin disturbed => Imported(host[h])'
    <3>1. SUFFICES ASSUME h \notin disturbed PROVE Imported(host[h])'
      OBVIOUS
    <3>2. /\ s.paths = {c \in Ledgers : ledger[c] # NoFile}
          /\ s.ledgers \cup s.kept \subseteq s.paths
          /\ s.completed => s.paths = s.ledgers \cup s.kept
          /\ s.kept \cap s.ledgers = {}
          /\ s.usable => \A c \in s.kept : ~ledger[c].away =>
                \E o \in OriginFile(cache, "sync", c) : SameFile(o, ledger[c]) /\ o.size = Size(ledger[c])
          /\ \A p \in s.prefetched : p.d \in s.paths /\ p.recs = ReadFrom(ledger[p.d], 0).recs
      BY <1>1, <1>2, <3>1 DEF Imported
    <3>3. \A c \in s.kept : c \in Ledgers \ {d}
      BY <1>2, <1>3, <3>2
    <3>4. s.usable => \A c \in t.kept : ~ledger[c].away =>
                \E o \in OriginFile(cache', "sync", c) : SameFile(o, ledger[c]) /\ o.size = Size(ledger[c])
      <4>1. SUFFICES ASSUME s.usable, NEW c \in t.kept, ~ledger[c].away
                     PROVE  \E o \in OriginFile(cache', "sync", c) : SameFile(o, ledger[c]) /\ o.size = Size(ledger[c])
        OBVIOUS
      <4>2. CASE c = d
        BY <1>13, <4>1, <4>2
      <4>3. CASE c \in s.kept
        <5>1. OriginFile(cache', "sync", c) = OriginFile(cache, "sync", c)
          BY <1>13, <3>3, <4>3
        <5>2. QED
          BY <3>2, <4>1, <4>3, <5>1
      <4>4. QED
        BY <2>2, <4>2, <4>3
    <3>5. /\ t.ledgers \cup t.kept \subseteq t.paths /\ t.kept \cap t.ledgers = {}
          /\ t.completed => t.paths = t.ledgers \cup t.kept
      BY <1>3, <2>2, <2>3, <3>2
    <3>6. QED
      BY <1>1, <2>2, <2>3, <3>2, <3>4, <3>5 DEF Imported, SameFile
  <2>8. QED
    BY <1>1, <1>9, <1>13, <2>2, <2>3, <2>4, <2>5, <2>6, <2>7, ImportStep
<1>14. ASSUME NEW x, Update(h, With(rest, [pc |-> "read", stat |-> {x}])), UNCHANGED <<cache, disturbed>>,
              x.d = d, x.from \in Nat,
              x.from > 0 => \E o \in OriginFile(cache, "sync", d) : o.who[2] = x.ident /\ o.size = x.from
       PROVE  UsageInv'
  <2> DEFINE r == [pc |-> "read", stat |-> {x}]
  <2>1. DOMAIN r = {"pc", "stat"} /\ r.pc = "read" /\ r.stat = {x} /\ Update(h, With(rest, r))
    BY <1>14
  <2> HIDE DEF r
  <2>2. /\ DOMAIN host' = Hosts /\ DOMAIN t = Fields /\ t.ledgers = s.ledgers \ {d} /\ t.pc = "read" /\ t.stat = {x}
        /\ \A f \in Fields \ {"pc", "stat", "ledgers"} : t[f] = s[f]
    BY <1>11, <2>1 DEF ImportFields
  <2>3. /\ t.paths = s.paths /\ t.usable = s.usable /\ t.completed = s.completed
        /\ t.prefetched = s.prefetched /\ t.kept = s.kept /\ t.failed = s.failed
    BY <2>2, FieldsAre
  <2>4. Importing(t)
    BY <1>2, <1>3, <1>14, <2>2, <2>3 DEF Importing
  <2>5. Tailing(host[h])'
    BY <1>14, <2>2 DEF Tailing
  <2>6. \A f \in Fields \ ImportFields : t[f] = s[f]
    BY <2>2 DEF ImportFields
  <2>7. h \notin disturbed => Imported(host[h])'
    <3>1. SUFFICES ASSUME h \notin disturbed PROVE Imported(host[h])'
      OBVIOUS
    <3>2. /\ s.paths = {c \in Ledgers : ledger[c] # NoFile}
          /\ s.ledgers \cup s.kept \subseteq s.paths
          /\ s.completed => s.paths = s.ledgers \cup s.kept
          /\ s.kept \cap s.ledgers = {}
          /\ s.usable => \A c \in s.kept : ~ledger[c].away =>
                \E o \in OriginFile(cache, "sync", c) : SameFile(o, ledger[c]) /\ o.size = Size(ledger[c])
          /\ \A p \in s.prefetched : p.d \in s.paths /\ p.recs = ReadFrom(ledger[p.d], 0).recs
      BY <1>1, <1>2, <3>1 DEF Imported
    <3>3. /\ t.ledgers \cup t.kept \cup {q.d : q \in t.stat} \subseteq t.paths
          /\ t.completed => t.paths = t.ledgers \cup t.kept \cup {q.d : q \in t.stat}
          /\ t.kept \cap t.ledgers = {}
          /\ \A q \in t.stat : q.d \notin t.kept \cup t.ledgers
      BY <1>3, <1>14, <2>2, <2>3, <3>2
    <3>4. QED
      BY <1>1, <1>14, <2>2, <2>3, <3>2, <3>3 DEF Imported, SameFile
  <2>8. QED
    BY <1>1, <1>9, <1>10, <1>14, <2>2, <2>4, <2>5, <2>6, <2>7, ImportStep
<1>15. QED
  <2> DEFINE reads == [d |-> d, from |-> 0, ident |-> l.ident]
             done  == With(rest, [kept |-> s.kept \cup {d}])
  <2>1. \/ /\ Update(h, With(rest, [completed |-> FALSE, usable |-> FALSE, failed |-> s.failed \cup {d}]))
           /\ UNCHANGED <<cache, disturbed>>
        \/ /\ \E o \in same : Matches(o, l)
           /\ Update(h, done)
           /\ UNCHANGED <<cache, disturbed>>
        \/ /\ \E o \in same :
                Update(h, With(rest, [pc |-> "read", stat |-> {[reads EXCEPT !.from = o.size]}]))
           /\ UNCHANGED <<cache, disturbed>>
        \/ /\ l.away
           /\ cache' = RemoveOrigins(cache, "sync", {d})
           /\ Update(h, done)
           /\ IF cache' = cache THEN UNCHANGED disturbed ELSE Disturbs(h)
        \/ /\ UNCHANGED cache
           /\ Update(h, With(rest, [pc |-> "read", stat |-> {reads}]))
           /\ IF cache' = cache THEN UNCHANGED disturbed ELSE Disturbs(h)
    <3> USE DEF d, rest, same
    <3>1. QED
      BY DEF StatLedger
  <2>2. CASE /\ \E o \in same : Matches(o, l)
             /\ Update(h, done)
             /\ UNCHANGED <<cache, disturbed>>
    <3>1. PICK o \in same : Matches(o, l)
      BY <2>2
    <3>2. l.away \/ (o \in OriginFile(cache', "sync", d) /\ SameFile(o, l) /\ o.size = Size(l))
      BY <1>5, <2>2, <3>1 DEF Matches, same
    <3>3. QED
      BY <1>10, <1>13, <2>2, <3>2
  <2>3. CASE /\ \E o \in same :
                  Update(h, With(rest, [pc |-> "read", stat |-> {[reads EXCEPT !.from = o.size]}]))
             /\ UNCHANGED <<cache, disturbed>>
    <3>1. PICK o \in same : Update(h, With(rest, [pc |-> "read", stat |-> {[reads EXCEPT !.from = o.size]}]))
      BY <2>3
    <3> DEFINE x == [reads EXCEPT !.from = o.size]
    <3>2. x.d = d /\ x.from = o.size /\ x.ident = l.ident
      OBVIOUS
    <3>3. o \in OriginFile(cache, "sync", d) /\ o.who[2] = l.ident /\ o.size \in Nat
      BY <1>5, <1>6 DEF same, SameFile
    <3>4. Update(h, With(rest, [pc |-> "read", stat |-> {x}]))
      BY <3>1
    <3> HIDE DEF x
    <3>5. QED
      BY <1>14, <2>3, <3>2, <3>3, <3>4
  <2>4. CASE /\ l.away
             /\ cache' = RemoveOrigins(cache, "sync", {d})
             /\ Update(h, done)
             /\ IF cache' = cache THEN UNCHANGED disturbed ELSE Disturbs(h)
    <3>1. disturbed' = disturbed
      BY <2>4, NotDisturbed
    <3>2. CacheInv' /\ CoherentInv'
          /\ \A c \in Ledgers \ {d} : OriginFile(cache', "sync", c) = OriginFile(cache, "sync", c)
      BY <1>1, <1>9, <2>4, CoherentForgot
    <3>3. QED
      BY <1>13, <2>4, <3>1, <3>2
  <2>5. CASE /\ UNCHANGED cache
             /\ Update(h, With(rest, [pc |-> "read", stat |-> {reads}]))
             /\ IF cache' = cache THEN UNCHANGED disturbed ELSE Disturbs(h)
    <3>1. reads.d = d /\ reads.from = 0
      OBVIOUS
    <3>2. Update(h, With(rest, [pc |-> "read", stat |-> {reads}])) /\ UNCHANGED <<cache, disturbed>>
      BY <2>5
    <3> HIDE DEF reads
    <3>3. QED
      BY <1>14, <3>1, <3>2
  <2>6. QED
    BY <1>12, <2>1, <2>2, <2>3, <2>4, <2>5

\* The keys of rows are those of all lines.
CoversAll(l, keys) ==
    /\ \A i \in DOMAIN LinesOf(l) : Readable(LinesOf(l)[i].ver)
    /\ \A i \in DOMAIN LinesOf(l) : \E k \in keys : SameKey(k, LinesOf(l)[i])
    /\ \A k \in keys : \E i \in DOMAIN LinesOf(l) : SameKey(k, LinesOf(l)[i])

LEMMA CoversAllIs ==
  ASSUME NEW d, NEW l \in Files(d), NEW keys, CoversAll(l, keys)
  PROVE  Covers(l, Size(l), keys)
<1>1. /\ Size(l) \in Nat /\ Covered(Size(l)) = Len(LinesOf(l)) /\ Size(l) % Width = l.tail
      /\ DOMAIN LinesOf(l) = 1..Len(LinesOf(l))
  BY SizeFacts, LineFacts
<1>2. l.tail # 1
  <2>1. SUFFICES ASSUME l.tail = 1 PROVE FALSE
    OBVIOUS
  <2> DEFINE n == Len(l.lines) + 1
  <2>2. Len(l.lines) \in Nat /\ Len(LinesOf(l)) = n /\ LinesOf(l)[n] = Bad
    BY <2>1, LineFacts
  <2>3. n \in DOMAIN LinesOf(l)
    BY <1>1, <2>2
  <2> HIDE DEF n
  <2>4. QED
    BY <2>2, <2>3 DEF CoversAll, Readable, Bad, Schema
<1>3. ReadUpTo(l, Size(l))
  BY <1>1, <1>2 DEF ReadUpTo, CoversAll
<1>4. QED
  BY <1>1, <1>3 DEF Covers, CoversAll

LEMMA SyncSnapIs ==
  ASSUME NEW d \in Ledgers, NEW read, read.size \in Nat, read.ident \in Nat
  PROVE  LET snap == SyncSnap(d, read)
             o    == Origin(snap, Version, FALSE)
         IN  /\ snap.path = d /\ snap.size = read.size /\ snap.who \in {"v2", "legacy"} \X Nat
             /\ o.path = d /\ o.size = read.size /\ o.who[2] = read.ident /\ o.ver = Version /\ ~o.err
BY DEF SyncSnap, Origin

\* A ledger read to its end is cached as it is.
LEMMA LedgerCached ==
  ASSUME CacheInv, CoherentInv, LedgerInv, NEW d \in Ledgers, ledger[d] # NoFile, NEW off \in Nat,
         NEW read, read = ReadFrom(ledger[d], off), ~read.bad,
         \/ off = 0 /\ cache' = ReplaceEvents(cache, "sync", SyncSnap(d, read), read.recs, FALSE)
         \/ /\ \E o \in OriginFile(cache, "sync", d) : o.who[2] = ledger[d].ident /\ o.size = off
            /\ cache' = AppendEvents(cache, "sync", SyncSnap(d, read),
                                     read.recs \ ExistingKeys(cache, d, read.recs)),
         UNCHANGED ledger, used'.idents = used.idents
  PROVE  /\ CacheInv' /\ CoherentInv'
         /\ \A c \in Ledgers \ {d} : OriginFile(cache', "sync", c) = OriginFile(cache, "sync", c)
         /\ \E o \in OriginFile(cache', "sync", d) : SameFile(o, ledger[d]) /\ o.size = Size(ledger[d])
<1> DEFINE l    == ledger[d]
           L    == LinesOf(l)
           snap == SyncSnap(d, read)
           o    == Origin(snap, Version, FALSE)
           K    == EventsForOrigin(cache, "sync", d)
           K2   == EventsForOrigin(cache', "sync", d)
           news == read.recs \ ExistingKeys(cache, d, read.recs)
<1>1. l \in Files(d) /\ l.ident \in 1..used.idents /\ used.idents \in Nat
  BY DEF LedgerInv
<1>2. /\ read.recs \subseteq Recs(d) /\ Unique(read.recs) /\ read.size = Size(l) /\ read.ident = l.ident
      /\ \A r \in read.recs : \E i \in (Covered(off) + 1)..Len(L) : r = L[i] /\ Readable(L[i].ver)
      /\ \A i \in (Covered(off) + 1)..Len(L) : Readable(L[i].ver) => \E r \in read.recs : SameKey(r, L[i])
      /\ read.bad <=> \E i \in (Covered(off) + 1)..Len(L) : ~Readable(L[i].ver)
  BY <1>1, ReadFacts
<1>3. /\ DOMAIN L = 1..Len(L) /\ Len(L) \in Nat /\ Size(l) \in Nat /\ l.ident \in Nat /\ Covered(off) \in Nat
  BY <1>1, LineFacts, SizeFacts, CoveredFacts
<1>4. /\ snap.path = d /\ snap.size = Size(l) /\ snap.who \in {"v2", "legacy"} \X Nat
      /\ o.path = d /\ o.size = Size(l) /\ o.who[2] = l.ident /\ o.ver = Version /\ ~o.err
  <2>1. read.size \in Nat /\ read.ident \in Nat
    BY <1>2, <1>3
  <2>2. QED
    BY <1>2, <2>1, SyncSnapIs
<1>5. Cached(cache)
  BY DEF CacheInv
<1>6. \A i \in (Covered(off) + 1)..Len(L) : \E r \in read.recs : SameKey(r, L[i]) /\ Readable(L[i].ver)
  BY <1>2
<1>7. \A r \in read.recs : \E i \in DOMAIN L : r = L[i]
  <2>1. ASSUME NEW r \in read.recs
        PROVE  \E i \in DOMAIN L : r = L[i]
    <3>1. PICK i \in (Covered(off) + 1)..Len(L) : r = L[i]
      BY <1>2
    <3>2. i \in DOMAIN L
      BY <1>3
    <3>3. QED
      BY <3>1, <3>2
  <2>2. QED
    BY <2>1
<1> HIDE DEF L, snap, o, K, K2
<1>8. /\ Cached(cache')
      /\ cache'.origins["sync"] = {x \in cache.origins["sync"] : x.path # d} \cup {o}
      /\ \A c \in Ledgers \ {d} : EventsForOrigin(cache', "sync", c) = EventsForOrigin(cache, "sync", c)
      /\ CoversAll(l, K2)
  <2>1. CASE off = 0 /\ cache' = ReplaceEvents(cache, "sync", snap, read.recs, FALSE)
    <3>1. LedgerRecords(d, snap, read.recs)
      BY <1>2, <1>3, <1>4 DEF LedgerRecords
    <3>2. /\ Cached(cache')
          /\ cache'.origins["sync"] = {x \in cache.origins["sync"] : x.path # d} \cup {o}
          /\ cache'.rows["sync"] = {r \in cache.rows["sync"] : r.path # d} \cup {Row(d, e) : e \in read.recs}
      <4> DEFINE recs == read.recs
      <4>1. LedgerRecords(d, snap, recs) /\ cache' = ReplaceLedger(cache, snap, recs)
        BY <2>1, <3>1 DEF ReplaceLedger
      <4> HIDE DEF recs
      <4>2. /\ Cached(cache')
            /\ cache'.origins["sync"] = Elsewhere(cache.origins["sync"], d) \cup {LedgerOrigin(snap)}
            /\ cache'.rows["sync"] = Elsewhere(cache.rows["sync"], d) \cup NewRows(d, recs)
        BY ONLY <1>5, <4>1, LedgerReplaced
      <4>3. QED
        BY <4>2 DEF recs, o, LedgerOrigin, Elsewhere, NewRows
    <3>3. \A e : Row(d, e).path = d /\ Row(d, e).dev = e.dev /\ Row(d, e).id = e.id
      BY DEF Row
    <3>4. K2 = {Row(d, e) : e \in read.recs}
      BY <3>2, <3>3 DEF K2, EventsForOrigin
    <3>5. \A c \in Ledgers \ {d} : EventsForOrigin(cache', "sync", c) = EventsForOrigin(cache, "sync", c)
      BY <3>2, <3>3 DEF EventsForOrigin
    <3>6. Covered(off) + 1 = 1
      <4>1. Covered(0) = 0
        BY DivisionIs DEF Covered, Width
      <4>2. QED
        BY <2>1, <4>1
    <3>7. \A i \in DOMAIN L : \E r \in read.recs : SameKey(r, L[i]) /\ Readable(L[i].ver)
      BY <1>3, <1>6, <3>6
    <3>8. \A i \in DOMAIN L : \E k \in K2 : SameKey(k, L[i])
      BY <3>3, <3>4, <3>7 DEF SameKey
    <3>9. \A k \in K2 : \E i \in DOMAIN L : SameKey(k, L[i])
      BY <1>7, <3>3, <3>4 DEF SameKey
    <3>10. CoversAll(l, K2)
      BY <3>7, <3>8, <3>9 DEF CoversAll, L
    <3>11. QED
      BY <3>2, <3>5, <3>10
  <2>2. CASE /\ \E x \in OriginFile(cache, "sync", d) : x.who[2] = l.ident /\ x.size = off
             /\ cache' = AppendEvents(cache, "sync", snap, news)
    <3>1. LedgerRecords(d, snap, news)
      BY <1>2, <1>3, <1>4 DEF LedgerRecords, Unique
    <3>2. /\ Cached(cache')
          /\ cache'.origins["sync"] = {x \in cache.origins["sync"] : x.path # d} \cup {o}
          /\ cache'.rows["sync"] = InsertRows(cache.rows["sync"], {Row(d, e) : e \in news})
      <4>1. LedgerRecords(d, snap, news) /\ cache' = AppendEvents(cache, "sync", snap, news)
        BY <2>2, <3>1
      <4> HIDE DEF news
      <4>2. /\ Cached(cache')
            /\ cache'.origins["sync"] = Elsewhere(cache.origins["sync"], d) \cup {LedgerOrigin(snap)}
            /\ cache'.rows["sync"] = InsertRows(cache.rows["sync"], NewRows(d, news))
        BY ONLY <1>5, <4>1, LedgerAppended
      <4>3. QED
        BY <4>2 DEF o, LedgerOrigin, Elsewhere, NewRows
    <3>3. \A e : Row(d, e).path = d /\ Row(d, e).dev = e.dev /\ Row(d, e).id = e.id
      BY DEF Row
    <3>4. \A c \in Ledgers \ {d} : EventsForOrigin(cache', "sync", c) = EventsForOrigin(cache, "sync", c)
      BY <3>2, <3>3 DEF EventsForOrigin, InsertRows
    <3>5. Covers(l, off, K)
      <4>1. PICK x \in OriginFile(cache, "sync", d) : x.who[2] = l.ident /\ x.size = off
        BY <2>2
      <4>2. SameFile(x, l)
        BY <4>1 DEF SameFile
      <4>3. QED
        BY <4>1, <4>2 DEF CoherentInv, K
    <3>6. \A k \in K2 : k \in K \/ \E e \in news : k = Row(d, e)
      BY <3>2 DEF K, K2, EventsForOrigin, InsertRows
    <3>7. \A e \in news : Row(d, e) \in K2
      BY <3>2, <3>3 DEF K2, EventsForOrigin, InsertRows
    <3>8. \A k \in K : \E k2 \in K2 : SameKey(k2, k)
      <4>1. SUFFICES ASSUME NEW k \in K PROVE \E k2 \in K2 : SameKey(k2, k)
        OBVIOUS
      <4>2. k \in cache.rows["sync"] /\ k.path = d
        BY DEF K, EventsForOrigin
      <4>3. CASE \E e \in news : Row(d, e).dev = k.dev /\ Row(d, e).id = k.id
        BY <3>7, <4>3 DEF SameKey
      <4>4. CASE ~\E e \in news : Row(d, e).dev = k.dev /\ Row(d, e).id = k.id
        <5>1. k \in cache'.rows["sync"]
          BY <3>2, <4>2, <4>4 DEF InsertRows
        <5>2. k \in K2
          BY <4>2, <5>1 DEF K2, EventsForOrigin
        <5>3. QED
          BY <5>2 DEF SameKey
      <4>5. QED
        BY <4>3, <4>4
    <3>9. ASSUME NEW i \in DOMAIN L
          PROVE  Readable(L[i].ver) /\ \E k \in K2 : SameKey(k, L[i])
      <4>1. i \in 1..Covered(off) \/ i \in (Covered(off) + 1)..Len(L)
        BY <1>3
      <4>2. CASE i \in 1..Covered(off)
        <5>1. Readable(L[i].ver)
          BY <3>5, <4>2 DEF Covers, ReadUpTo, L
        <5>2. PICK k \in K : SameKey(k, L[i])
          BY <3>5, <4>2 DEF Covers, L
        <5>3. PICK k2 \in K2 : SameKey(k2, k)
          BY <3>8
        <5>4. QED
          BY <5>1, <5>2, <5>3 DEF SameKey
      <4>3. CASE i \in (Covered(off) + 1)..Len(L)
        <5>1. PICK r \in read.recs : SameKey(r, L[i]) /\ Readable(L[i].ver)
          BY <1>6, <4>3
        <5>2. CASE r \in news
          BY <3>3, <3>7, <5>1, <5>2 DEF SameKey
        <5>3. CASE r \notin news
          <6>1. PICK q \in K : q.dev = r.dev /\ q.id = r.id
            BY <5>3 DEF ExistingKeys, K
          <6>2. PICK k2 \in K2 : SameKey(k2, q)
            BY <3>8
          <6>3. QED
            BY <5>1, <6>1, <6>2 DEF SameKey
        <5>4. QED
          BY <5>2, <5>3
      <4>4. QED
        BY <4>1, <4>2, <4>3
    <3>10. ASSUME NEW k \in K2
           PROVE  \E i \in DOMAIN L : SameKey(k, L[i])
      <4>1. CASE k \in K
        <5>1. PICK i \in 1..Covered(off) : SameKey(k, L[i])
          BY <3>5, <4>1 DEF Covers, L
        <5>2. Covered(off) <= Len(L)
          <6>1. \A j \in 1..Covered(off) : j \in DOMAIN LinesOf(l)
            BY <1>1, <3>5, ExtendsSelf, StillRead DEF Covers
          <6>2. Covered(off) # 0 => Covered(off) \in 1..Covered(off)
            BY <1>3
          <6>3. QED
            BY <1>3, <6>1, <6>2 DEF L
        <5>3. i \in DOMAIN L
          BY <1>3, <5>2
        <5>4. QED
          BY <5>1, <5>3
      <4>2. CASE \E e \in news : k = Row(d, e)
        BY <1>7, <3>3, <4>2 DEF SameKey
      <4>3. QED
        BY <3>6, <4>1, <4>2
    <3>11. CoversAll(l, K2)
      BY <3>9, <3>10 DEF CoversAll, L
    <3>12. QED
      BY <3>2, <3>4, <3>11
  <2>3. QED
    BY <2>1, <2>2 DEF snap
<1>9. OriginFile(cache', "sync", d) = {o}
      /\ \A c \in Ledgers \ {d} : OriginFile(cache', "sync", c) = OriginFile(cache, "sync", c)
  BY <1>4, <1>8 DEF OriginFile
<1>10. SameFile(o, l)
  BY <1>4 DEF SameFile
<1>11. Covers(l, Size(l), K2)
  BY <1>1, <1>8, CoversAllIs
<1>12. CoherentInv'
  <2>1. \A x \in cache'.origins["sync"] : x.ver = Version /\ ~x.err /\ x.who[2] <= used'.idents
    BY <1>1, <1>4, <1>8 DEF CoherentInv
  <2>2. ASSUME NEW c \in Ledgers, ledger'[c] # NoFile, NEW x \in OriginFile(cache', "sync", c),
               SameFile(x, ledger'[c])
        PROVE  Covers(ledger'[c], x.size, EventsForOrigin(cache', "sync", c))
    <3>1. CASE c = d
      BY <1>4, <1>9, <1>11, <2>2, <3>1 DEF K2
    <3>2. CASE c # d
      BY <1>8, <1>9, <2>2, <3>2 DEF CoherentInv
    <3>3. QED
      BY <3>1, <3>2
  <2>3. QED
    BY <2>1, <2>2 DEF CoherentInv, SameFile
<1>13. QED
  BY <1>4, <1>8, <1>9, <1>10, <1>12 DEF CacheInv

LEMMA WithTwo ==
  ASSUME NEW r, NEW s, \A f \in DOMAIN s : f \notin DOMAIN r
  PROVE  /\ DOMAIN With(r, s) = DOMAIN r \cup DOMAIN s
         /\ \A f \in DOMAIN r : With(r, s)[f] = r[f]
         /\ \A f \in DOMAIN s : With(r, s)[f] = s[f]
<1> DEFINE w == With(r, s)
<1>1. /\ DOMAIN w = DOMAIN r \cup DOMAIN s
      /\ \A f \in DOMAIN r : w[f] = r[f]
      /\ \A f \in DOMAIN s \ DOMAIN r : w[f] = s[f]
  BY WithIs
<1> HIDE DEF w
<1>2. /\ DOMAIN w = DOMAIN r \cup DOMAIN s
      /\ \A f \in DOMAIN r : w[f] = r[f]
      /\ \A f \in DOMAIN s : w[f] = s[f]
  BY <1>1
<1>3. QED
  BY <1>2 DEF w

\* The reading of a ledger: the next step, and what is known of the ledger.
LEMMA ReadLedgerStep ==
  ASSUME OneHost, UsageInv, NEW h \in Hosts, ReadLedger(h)
  PROVE  UsageInv'
<1> DEFINE s    == host[h]
           t    == host'[h]
           next == [pc |-> "stat", stat |-> {}]
<1>1. /\ s.pc = "read" /\ UNCHANGED <<logs, meter, spent, ledger>>
      /\ Local(s) /\ DOMAIN host = Hosts /\ DOMAIN host[h] = Fields /\ CacheInv /\ CoherentInv /\ LedgerInv
      /\ (h \notin disturbed => Imported(s)) /\ Tailing(s)
      /\ disturbed' = disturbed /\ used' \in UsedType /\ used'.idents = used.idents
  <2>1. /\ s.pc = "read" /\ UNCHANGED <<logs, meter, spent, ledger>>
        /\ IF cache' = cache THEN UNCHANGED disturbed ELSE Disturbs(h)
    BY DEF ReadLedger, At
  <2>2. disturbed' = disturbed
    BY <2>1, NotDisturbed
  <2>3. used' \in UsedType /\ used'.idents = used.idents
    <3>1. PICK f \in BOOLEAN : Works(f)
      BY DEF ReadLedger
    <3>2. LedgerInv
      BY DEF UsageInv
    <3>3. QED
      BY <3>1, <3>2, WorksFacts
  <2>4. QED
    BY <2>1, <2>2, <2>3 DEF UsageInv, ScanInv, HostTypes, ImportInv, StatInv
<1>2. Importing(s)
  BY <1>1 DEF Local
<1>3. PICK r \in s.stat, fine \in BOOLEAN :
        LET l     == ledger[r.d]
            tail  == fine /\ l # NoFile /\ r.from > 0 /\ StartsLine(l, r.from) /\ l.ident = r.ident
            read  == ReadFrom(l, IF tail THEN r.from ELSE 0)
            known == ExistingKeys(cache, r.d, read.recs)
            done  == With(next, [kept |-> s.kept \cup {r.d}])
        IN  \/ /\ Works(fine) /\ fine = (l = NoFile)
               /\ Update(h, With(next, [completed |-> FALSE, usable |-> FALSE, failed |-> s.failed \cup {r.d}]))
               /\ UNCHANGED cache
            \/ /\ Works(fine) /\ l # NoFile /\ read.bad
               /\ Update(h, With(done, [usable |-> FALSE,
                      prefetched |-> s.prefetched \cup (IF tail THEN {} ELSE {[d |-> r.d, recs |-> read.recs]})]))
               /\ UNCHANGED cache
            \/ /\ Works(fine) /\ l # NoFile /\ ~read.bad
               /\ Update(h, done)
               /\ cache' = IF tail THEN AppendEvents(cache, "sync", SyncSnap(r.d, read), read.recs \ known)
                           ELSE ReplaceEvents(cache, "sync", SyncSnap(r.d, read), read.recs, FALSE)
  BY DEF ReadLedger
<1> DEFINE d     == r.d
           l     == ledger[d]
           tail  == fine /\ l # NoFile /\ r.from > 0 /\ StartsLine(l, r.from) /\ l.ident = r.ident
           off   == IF tail THEN r.from ELSE 0
           read  == ReadFrom(l, off)
           known == ExistingKeys(cache, d, read.recs)
           k     == [kept |-> s.kept \cup {d}]
           done  == With(next, k)
<1>4. s.stat = {r} /\ d \in Ledgers /\ r.from \in Nat /\ s.ledgers \subseteq Ledgers /\ s.paths \subseteq Ledgers
  BY <1>1, <1>2, <1>3 DEF Importing
<1>5. ASSUME h \notin disturbed
      PROVE  /\ s.paths = {c \in Ledgers : ledger[c] # NoFile}
             /\ s.ledgers \cup s.kept \cup {d} \subseteq s.paths
             /\ s.completed => s.paths = s.ledgers \cup s.kept \cup {d}
             /\ s.kept \cap s.ledgers = {} /\ d \notin s.kept \cup s.ledgers
             /\ s.usable => \A c \in s.kept : ~ledger[c].away =>
                   \E o \in OriginFile(cache, "sync", c) : SameFile(o, ledger[c]) /\ o.size = Size(ledger[c])
             /\ \A p \in s.prefetched : p.d \in s.paths /\ p.recs = ReadFrom(ledger[p.d], 0).recs
  BY <1>1, <1>4, <1>5 DEF Imported
<1>6. DOMAIN next = {"pc", "stat"} /\ next.pc = "stat" /\ next.stat = {}
  OBVIOUS
<1>7. DOMAIN k = {"kept"} /\ k.kept = s.kept \cup {d}
  OBVIOUS
<1>8. used'.idents = used.idents
  BY <1>1
<1>9. cache' = cache => CacheInv' /\ CoherentInv'
  BY <1>1, <1>8, CacheKept, CoherentKept DEF CacheInv
<1>10. off \in Nat /\ (off = 0 \/ (tail /\ off = r.from))
  BY <1>4
<1> HIDE DEF next, k
<1>11. /\ DOMAIN done = {"pc", "stat", "kept"} /\ done.pc = "stat" /\ done.stat = {} /\ done.kept = s.kept \cup {d}
  <2>1. \A f \in DOMAIN k : f \notin DOMAIN next
    BY <1>6, <1>7
  <2>2. /\ DOMAIN done = DOMAIN next \cup DOMAIN k
        /\ \A f \in DOMAIN next : done[f] = next[f]
        /\ \A f \in DOMAIN k : done[f] = k[f]
    BY <2>1, WithTwo
  <2> HIDE DEF done
  <2>3. QED
    BY <1>6, <1>7, <2>2
<1>12. ASSUME NEW w, Update(h, w), DOMAIN w \subseteq ImportFields \ {"paths", "ledgers"},
              {"pc", "stat"} \subseteq DOMAIN w, w.pc = "stat", w.stat = {},
              "failed" \in DOMAIN w => w.failed \subseteq Ledgers
       PROVE  /\ DOMAIN host' = Hosts /\ DOMAIN t = Fields /\ t.pc = "stat" /\ t.stat = {}
              /\ t.ledgers = s.ledgers /\ t.paths = s.paths
              /\ \A x \in DOMAIN w : t[x] = w[x]
              /\ \A x \in Fields \ DOMAIN w : t[x] = s[x]
              /\ Importing(t) /\ Tailing(host[h])'
  <2>1. DOMAIN w \subseteq Fields
    BY <1>12, FieldsAre DEF ImportFields
  <2>2. /\ DOMAIN host' = Hosts /\ DOMAIN t = Fields
        /\ \A x \in DOMAIN w : t[x] = w[x]
        /\ \A x \in Fields \ DOMAIN w : t[x] = s[x]
    BY <1>1, <1>12, <2>1, HostStep
  <2>3. t.pc = "stat" /\ t.stat = {} /\ t.ledgers = s.ledgers /\ t.paths = s.paths
    BY <1>12, <2>2, FieldsAre
  <2>4. Importing(t)
    <3>1. t.failed \subseteq Ledgers
      BY <1>2, <1>12, <2>2, FieldsAre DEF Importing
    <3>2. QED
      BY <1>4, <2>3, <3>1 DEF Importing
  <2>5. Tailing(host[h])'
    BY <2>3 DEF Tailing
  <2>6. QED
    BY <2>2, <2>3, <2>4, <2>5
<1> HIDE DEF done, off, read, known
<1>13. CASE /\ Update(h, With(next, [completed |-> FALSE, usable |-> FALSE, failed |-> s.failed \cup {d}]))
            /\ UNCHANGED cache
  <2> DEFINE q == [completed |-> FALSE, usable |-> FALSE, failed |-> s.failed \cup {d}]
             w == With(next, q)
  <2>1. /\ DOMAIN q = {"completed", "usable", "failed"} /\ ~q.completed /\ ~q.usable
        /\ q.failed = s.failed \cup {d}
    OBVIOUS
  <2>2. Update(h, w)
    BY <1>13
  <2> HIDE DEF q
  <2>3. /\ DOMAIN w = {"pc", "stat", "completed", "usable", "failed"} /\ w.pc = "stat" /\ w.stat = {}
        /\ ~w.completed /\ ~w.usable /\ w.failed = s.failed \cup {d}
    <3>1. \A f \in DOMAIN q : f \notin DOMAIN next
      BY <1>6, <2>1
    <3>2. /\ DOMAIN w = DOMAIN next \cup DOMAIN q
          /\ \A f \in DOMAIN next : w[f] = next[f]
          /\ \A f \in DOMAIN q : w[f] = q[f]
      BY <3>1, WithTwo
    <3> HIDE DEF w
    <3>3. QED
      BY <1>6, <2>1, <3>2
  <2> HIDE DEF w
  <2>4. /\ DOMAIN w \subseteq ImportFields \ {"paths", "ledgers"} /\ {"pc", "stat"} \subseteq DOMAIN w
        /\ w.failed \subseteq Ledgers
    BY <1>2, <1>4, <2>3 DEF ImportFields, Importing
  <2>5. /\ DOMAIN host' = Hosts /\ DOMAIN t = Fields /\ t.pc = "stat" /\ t.stat = {}
        /\ t.ledgers = s.ledgers /\ t.paths = s.paths
        /\ \A x \in DOMAIN w : t[x] = w[x]
        /\ \A x \in Fields \ DOMAIN w : t[x] = s[x]
        /\ Importing(t) /\ Tailing(host[h])'
    BY <1>12, <2>2, <2>3, <2>4
  <2>6. \A x \in Fields \ ImportFields : t[x] = s[x]
    BY <2>4, <2>5
  <2>7. ~t.completed /\ ~t.usable /\ t.kept = s.kept /\ t.prefetched = s.prefetched
    BY <2>3, <2>5, FieldsAre
  <2>8. h \notin disturbed => Imported(host[h])'
    <3>1. SUFFICES ASSUME h \notin disturbed PROVE Imported(host[h])'
      OBVIOUS
    <3>2. t.ledgers \cup t.kept \subseteq t.paths /\ t.kept \cap t.ledgers = {}
      BY <1>5, <2>5, <2>7, <3>1
    <3>3. QED
      BY <1>1, <1>5, <2>5, <2>7, <3>1, <3>2 DEF Imported
  <2>9. QED
    BY <1>1, <1>9, <1>13, <2>5, <2>6, <2>8, ImportStep
<1>14. CASE /\ l # NoFile /\ read.bad
            /\ Update(h, With(done, [usable |-> FALSE,
                      prefetched |-> s.prefetched \cup (IF tail THEN {} ELSE {[d |-> d, recs |-> read.recs]})]))
            /\ UNCHANGED cache
  <2> DEFINE q == [usable |-> FALSE,
                   prefetched |-> s.prefetched \cup (IF tail THEN {} ELSE {[d |-> d, recs |-> read.recs]})]
             w == With(done, q)
  <2>1. /\ DOMAIN q = {"usable", "prefetched"} /\ ~q.usable
        /\ \A p \in q.prefetched : p \in s.prefetched \/ (~tail /\ p = [d |-> d, recs |-> read.recs])
    OBVIOUS
  <2>2. Update(h, w)
    BY <1>14
  <2> HIDE DEF q
  <2>3. /\ DOMAIN w = {"pc", "stat", "kept", "usable", "prefetched"} /\ w.pc = "stat" /\ w.stat = {}
        /\ "failed" \notin DOMAIN w /\ w.kept = s.kept \cup {d} /\ ~w.usable /\ w.prefetched = q.prefetched
    <3>1. \A f \in DOMAIN q : f \notin DOMAIN done
      BY <1>11, <2>1
    <3>2. /\ DOMAIN w = DOMAIN done \cup DOMAIN q
          /\ \A f \in DOMAIN done : w[f] = done[f]
          /\ \A f \in DOMAIN q : w[f] = q[f]
      BY <3>1, WithTwo
    <3> HIDE DEF w
    <3>3. QED
      BY <1>11, <2>1, <3>2
  <2> HIDE DEF w
  <2>4. DOMAIN w \subseteq ImportFields \ {"paths", "ledgers"} /\ {"pc", "stat"} \subseteq DOMAIN w
    BY <2>3 DEF ImportFields
  <2>5. /\ DOMAIN host' = Hosts /\ DOMAIN t = Fields /\ t.pc = "stat" /\ t.stat = {}
        /\ t.ledgers = s.ledgers /\ t.paths = s.paths
        /\ \A x \in DOMAIN w : t[x] = w[x]
        /\ \A x \in Fields \ DOMAIN w : t[x] = s[x]
        /\ Importing(t) /\ Tailing(host[h])'
    BY <1>12, <2>2, <2>3, <2>4
  <2>6. \A x \in Fields \ ImportFields : t[x] = s[x]
    BY <2>4, <2>5
  <2>7. /\ t.kept = s.kept \cup {d} /\ ~t.usable /\ t.prefetched = q.prefetched /\ t.completed = s.completed
    BY <2>3, <2>5, FieldsAre
  <2>8. h \notin disturbed => Imported(host[h])'
    <3>1. SUFFICES ASSUME h \notin disturbed PROVE Imported(host[h])'
      OBVIOUS
    <3>2. ASSUME NEW p \in t.prefetched
          PROVE  p.d \in t.paths /\ p.recs = ReadFrom(ledger[p.d], 0).recs
      <4>1. CASE p \in s.prefetched
        BY <1>5, <2>5, <3>1, <4>1
      <4>2. CASE ~tail /\ p = [d |-> d, recs |-> read.recs]
        <5>1. p.d = d /\ p.recs = read.recs /\ read = ReadFrom(l, 0)
          BY <4>2 DEF read, off
        <5>2. d \in t.paths
          BY <1>5, <2>5, <3>1
        <5>3. QED
          BY <5>1, <5>2
      <4>3. QED
        BY <2>1, <2>7, <3>2, <4>1, <4>2
    <3>3. /\ t.ledgers \cup t.kept \cup {x.d : x \in t.stat} \subseteq t.paths /\ t.kept \cap t.ledgers = {}
          /\ t.completed => t.paths = t.ledgers \cup t.kept \cup {x.d : x \in t.stat}
          /\ \A x \in t.stat : x.d \notin t.kept \cup t.ledgers
      BY <1>5, <2>5, <2>7, <3>1
    <3>4. QED
      BY <1>1, <1>5, <2>5, <2>7, <3>1, <3>2, <3>3 DEF Imported, SameFile
  <2>9. QED
    BY <1>1, <1>9, <1>14, <2>5, <2>6, <2>8, ImportStep
<1>15. CASE /\ l # NoFile /\ ~read.bad
            /\ Update(h, done)
            /\ cache' = IF tail THEN AppendEvents(cache, "sync", SyncSnap(d, read), read.recs \ known)
                        ELSE ReplaceEvents(cache, "sync", SyncSnap(d, read), read.recs, FALSE)
  <2>1. DOMAIN done \subseteq ImportFields \ {"paths", "ledgers"} /\ {"pc", "stat"} \subseteq DOMAIN done
    BY <1>11 DEF ImportFields
  <2>2. /\ DOMAIN host' = Hosts /\ DOMAIN t = Fields /\ t.pc = "stat" /\ t.stat = {}
        /\ t.ledgers = s.ledgers /\ t.paths = s.paths
        /\ \A x \in DOMAIN done : t[x] = done[x]
        /\ \A x \in Fields \ DOMAIN done : t[x] = s[x]
        /\ Importing(t) /\ Tailing(host[h])'
    BY <1>11, <1>12, <1>15, <2>1
  <2>3. \A x \in Fields \ ImportFields : t[x] = s[x]
    BY <2>1, <2>2
  <2>4. /\ t.kept = s.kept \cup {d} /\ t.usable = s.usable /\ t.prefetched = s.prefetched
        /\ t.completed = s.completed
    BY <1>11, <2>2, FieldsAre
  <2>5. /\ CacheInv' /\ CoherentInv'
        /\ \A c \in Ledgers \ {d} : OriginFile(cache', "sync", c) = OriginFile(cache, "sync", c)
        /\ \E o \in OriginFile(cache', "sync", d) : SameFile(o, ledger[d]) /\ o.size = Size(ledger[d])
    <3>1. read = ReadFrom(ledger[d], off)
      BY DEF read
    <3>2. \/ off = 0 /\ cache' = ReplaceEvents(cache, "sync", SyncSnap(d, read), read.recs, FALSE)
          \/ /\ \E o \in OriginFile(cache, "sync", d) : o.who[2] = ledger[d].ident /\ o.size = off
             /\ cache' = AppendEvents(cache, "sync", SyncSnap(d, read),
                                      read.recs \ ExistingKeys(cache, d, read.recs))
      BY <1>1, <1>4, <1>15 DEF Tailing, known, off
    <3>3. ledger' = ledger
      BY <1>1
    <3> HIDE DEF d
    <3>4. QED
      BY <1>1, <1>4, <1>8, <1>10, <1>15, <3>1, <3>2, <3>3, LedgerCached
  <2>6. h \notin disturbed => Imported(host[h])'
    <3>1. SUFFICES ASSUME h \notin disturbed PROVE Imported(host[h])'
      OBVIOUS
    <3>2. \A c \in s.kept : c \in Ledgers \ {d}
      BY <1>4, <1>5, <3>1
    <3>3. s.usable => \A c \in t.kept : ~ledger[c].away =>
                \E o \in OriginFile(cache', "sync", c) : SameFile(o, ledger[c]) /\ o.size = Size(ledger[c])
      <4>1. SUFFICES ASSUME s.usable, NEW c \in t.kept, ~ledger[c].away
                     PROVE  \E o \in OriginFile(cache', "sync", c) : SameFile(o, ledger[c]) /\ o.size = Size(ledger[c])
        OBVIOUS
      <4>2. CASE c = d
        BY <2>5, <4>1, <4>2
      <4>3. CASE c \in s.kept
        <5>1. OriginFile(cache', "sync", c) = OriginFile(cache, "sync", c)
          BY <2>5, <3>2, <4>3
        <5>2. QED
          BY <1>5, <3>1, <4>1, <4>3, <5>1
      <4>4. QED
        BY <2>4, <4>2, <4>3
    <3>4. /\ t.ledgers \cup t.kept \cup {x.d : x \in t.stat} \subseteq t.paths /\ t.kept \cap t.ledgers = {}
          /\ t.completed => t.paths = t.ledgers \cup t.kept \cup {x.d : x \in t.stat}
          /\ \A x \in t.stat : x.d \notin t.kept \cup t.ledgers
      BY <1>5, <2>2, <2>4, <3>1
    <3>5. QED
      BY <1>1, <1>5, <2>2, <2>4, <3>1, <3>3, <3>4 DEF Imported, SameFile
  <2>7. QED
    BY <1>1, <2>2, <2>3, <2>5, <2>6, ImportStep
<1>16. QED
  <2> USE DEF next, k, done, off, read, known
  <2>1. QED
    BY <1>3, <1>13, <1>14, <1>15

-----------------------------------------------------------------------------
(***************************************************************************)
(* What is shown in the end.                                               *)
(***************************************************************************)
\* Of other devices the result holds what was imported; local is what was read
\* on this device.
ImportedEvents(imported) == {FromSync(r) : r \in imported}

ShownOf(m, first, imported) ==
    /\ \A d : d # Own => \A i : (\E e \in m : e.dev = d /\ e.id = i) <=> (\E r \in imported : r.dev = d /\ r.id = i)
    /\ \A e \in m : e.local => e \in first

LEMMA ForeignShown ==
  ASSUME NEW first, first \subseteq Events, NEW imported, NEW m,
         m = Merge(first, ImportedEvents(imported))
  PROVE  ShownOf(m, first, imported)
<1> DEFINE second == ImportedEvents(imported)
<1>1. \A r : FromSync(r).dev = r.dev /\ FromSync(r).id = r.id /\ ~FromSync(r).local
  BY DEF FromSync, FromRow
<1>2. \A e \in first : e.dev = Own
  BY DEF Events
<1>3. m \subseteq first \cup second
  BY DEF Merge
<1>4. \A e \in second : e.dev # Own => e \in m
  <2>1. \A e \in second : (~\E x \in first : SameKey(x, e) /\ x.local /\ ~e.local) => e \in m
    BY DEF Merge
  <2> HIDE DEF second
  <2>2. QED
    BY <1>2, <2>1 DEF SameKey
<1>5. \A r \in imported : FromSync(r) \in second
  BY DEF ImportedEvents
<1>6. \A e \in second : \E r \in imported : e = FromSync(r)
  BY DEF ImportedEvents
<1> HIDE DEF second
<1>7. \A e \in m : e.local => e \in first
  BY <1>1, <1>3, <1>6
<1>8. ASSUME NEW d, d # Own, NEW i
      PROVE  (\E e \in m : e.dev = d /\ e.id = i) <=> (\E r \in imported : r.dev = d /\ r.id = i)
  <2>1. ASSUME NEW e \in m, e.dev = d, e.id = i
        PROVE  \E r \in imported : r.dev = d /\ r.id = i
    <3>1. e \in second
      BY <1>2, <1>3, <1>8, <2>1
    <3>2. PICK r \in imported : e = FromSync(r)
      BY <1>6, <3>1
    <3>3. QED
      BY <1>1, <2>1, <3>2
  <2>2. ASSUME NEW r \in imported, r.dev = d, r.id = i
        PROVE  \E e \in m : e.dev = d /\ e.id = i
    <3>1. FromSync(r) \in second /\ FromSync(r).dev = d /\ FromSync(r).id = i
      BY <1>1, <1>5, <2>2
    <3>2. QED
      BY <1>4, <1>8, <3>1
  <2>3. QED
    BY <2>1, <2>2
<1>9. QED
  BY <1>7, <1>8 DEF ShownOf

LEMMA CoveredZero == Covered(0) = 0
BY DivisionIs DEF Covered, Width

\* Rows that cover a ledger have the identities of its records.
LEMMA IdentsCovered ==
  ASSUME NEW d, NEW l \in Files(d), NEW K, Covers(l, Size(l), K)
  PROVE  \A i : (\E k \in K : k.id = i) <=> (\E r \in ReadFrom(l, 0).recs : r.id = i)
<1> DEFINE L    == LinesOf(l)
           recs == ReadFrom(l, 0).recs
<1>1. /\ \A r \in recs : \E j \in 1..Len(L) : r = L[j]
      /\ \A j \in 1..Len(L) : Readable(L[j].ver) => \E r \in recs : SameKey(r, L[j])
  <2> DEFINE off == 0
  <2>1. off \in Nat /\ Covered(off) + 1 = 1
    BY CoveredZero
  <2>2. recs = ReadFrom(l, off).recs
    OBVIOUS
  <2> HIDE DEF off
  <2> DEFINE read == ReadFrom(l, off)
  <2>3. /\ \A r \in read.recs : \E j \in (Covered(off) + 1)..Len(L) : r = L[j] /\ Readable(L[j].ver)
        /\ \A j \in (Covered(off) + 1)..Len(L) : Readable(L[j].ver) => \E r \in read.recs : SameKey(r, L[j])
    BY <2>1, ReadFacts
  <2>4. recs = read.recs
    BY <2>2
  <2> HIDE DEF recs, read, L
  <2>5. QED
    BY <2>1, <2>3, <2>4
<1>2. Covered(Size(l)) = Len(L)
  BY SizeFacts
<1>3. /\ \A j \in 1..Len(L) : Readable(L[j].ver) /\ \E k \in K : SameKey(k, L[j])
      /\ \A k \in K : \E j \in 1..Len(L) : SameKey(k, L[j])
  BY <1>2 DEF Covers, ReadUpTo
<1> HIDE DEF L, recs
<1>4. \A k \in K : \E r \in recs : r.id = k.id
  BY <1>1, <1>3 DEF SameKey
<1>5. \A r \in recs : \E k \in K : k.id = r.id
  BY <1>1, <1>3 DEF SameKey
<1>6. QED
  BY <1>4, <1>5 DEF recs

\* The rows of one device are those of its ledger.
LEMMA SyncEventsIs ==
  ASSUME NEW c, Cached(c), NEW paths, NEW d \in Ledgers, d \in paths
  PROVE  {r \in SyncEvents(c, paths) : r.dev = d} = EventsForOrigin(c, "sync", d)
<1> DEFINE rows == c.rows["sync"]
<1>1. \A r \in rows : r.dev = r.path /\ r.path \in Ledgers
  <2>1. \A r \in rows : r.path \in Ledgers /\ r \in Rows(r.path, r.path)
    BY DEF Cached, LedgersCached
  <2>2. QED
    BY <2>1 DEF Rows
<1>2. Ledgers \subseteq Int
  BY UsageAssumption
<1> HIDE DEF rows
<1>3. \A r \in rows : \A x \in rows : x.dev = r.dev => r.path <= x.path
  <2>1. SUFFICES ASSUME NEW r \in rows, NEW x \in rows, x.dev = r.dev PROVE r.path <= x.path
    OBVIOUS
  <2> DEFINE p == r.path
  <2>2. p \in Int /\ x.path = p
    BY <1>1, <1>2, <2>1
  <2> HIDE DEF p
  <2>3. p <= p
    BY <2>2
  <2>4. QED
    BY <2>2, <2>3 DEF p
<1>4. SyncEvents(c, paths) = {r \in rows : r.path \in paths}
  BY <1>3 DEF SyncEvents, rows
<1>5. QED
  BY <1>1, <1>4 DEF EventsForOrigin, rows

\* Without the cache the records of a device are those of its ledger.
LEMMA UncachedIs ==
  ASSUME LedgerInv, NEW s, s.paths = {c \in Ledgers : ledger[c] # NoFile},
         \A p \in s.prefetched : p.d \in s.paths /\ p.recs = ReadFrom(ledger[p.d], 0).recs,
         NEW lost, NEW d \in Ledgers, ledger[d] # NoFile, ~ledger[d].away
  PROVE  {r \in Uncached(s, lost) : r.dev = d} = IF d \in lost THEN {} ELSE ReadFrom(ledger[d], 0).recs
<1> DEFINE pre(c)  == {p \in s.prefetched : p.d = c}
           recs(c) == IF c \in lost \/ ledger[c] = NoFile \/ (ledger[c] # NoFile /\ ledger[c].away) THEN {}
                      ELSE IF pre(c) # {} THEN UNION {p.recs : p \in pre(c)} ELSE ReadFrom(ledger[c], 0).recs
           all     == UNION {{r \in recs(c) : ~\E b \in s.paths : b < c /\ \E x \in recs(b) : SameKey(x, r)} : c \in s.paths}
<1>1. \A c \in Ledgers : ledger[c] # NoFile => \A r \in ReadFrom(ledger[c], 0).recs : r.dev = c
  <2>1. SUFFICES ASSUME NEW c \in Ledgers, ledger[c] # NoFile
                 PROVE  \A r \in ReadFrom(ledger[c], 0).recs : r.dev = c
    OBVIOUS
  <2> DEFINE off == 0
             read == ReadFrom(ledger[c], off)
  <2>2. off \in Nat /\ ledger[c] \in Files(c)
    BY <2>1 DEF LedgerInv
  <2>3. ReadFrom(ledger[c], 0).recs = read.recs
    OBVIOUS
  <2> HIDE DEF off
  <2>4. read.recs \subseteq Recs(c)
    BY <2>2, ReadFacts
  <2> HIDE DEF read
  <2>5. QED
    BY <2>3, <2>4 DEF Recs
<1>2. \A c : recs(c) = {} \/ recs(c) = ReadFrom(ledger[c], 0).recs
  <2>1. SUFFICES ASSUME NEW c, pre(c) # {}
                 PROVE  UNION {p.recs : p \in pre(c)} = ReadFrom(ledger[c], 0).recs
    OBVIOUS
  <2>2. \A p \in pre(c) : p.recs = ReadFrom(ledger[c], 0).recs
    OBVIOUS
  <2> HIDE DEF pre
  <2>3. QED
    BY <2>1, <2>2
<1>3. recs(d) = IF d \in lost THEN {} ELSE ReadFrom(ledger[d], 0).recs
  <2>1. CASE pre(d) # {}
    <3>1. \A p \in pre(d) : p.recs = ReadFrom(ledger[d], 0).recs
      OBVIOUS
    <3> HIDE DEF pre
    <3>2. UNION {p.recs : p \in pre(d)} = ReadFrom(ledger[d], 0).recs
      BY <2>1, <3>1
    <3>3. QED
      BY <2>1, <3>2
  <2>2. CASE pre(d) = {}
    BY <2>2
  <2>3. CASE d \in lost
    BY <2>3
  <2>4. QED
    BY <2>1, <2>2, <2>3
<1>4. \A c \in s.paths : \A r \in recs(c) : r.dev = c
  <2> HIDE DEF recs
  <2>1. QED
    BY <1>1, <1>2
<1>5. Uncached(s, lost) = all
  BY DEF Uncached
<1>6. d \in s.paths
  OBVIOUS
<1> HIDE DEF recs
<1>7. s.paths \subseteq Int
  <2>1. s.paths \subseteq Ledgers
    OBVIOUS
  <2>2. Ledgers \subseteq Int
    BY ONLY UsageAssumption
  <2>3. QED
    BY <2>1, <2>2
<1>8. \A r \in all : r.dev = d => r \in recs(d)
  BY <1>4
<1>9. \A r \in recs(d) : r \in all
  <2>1. SUFFICES ASSUME NEW r \in recs(d)
                 PROVE  ~\E b \in s.paths : b < d /\ \E x \in recs(b) : SameKey(x, r)
    BY <1>6
  <2>2. ASSUME NEW b \in s.paths, b < d, NEW x \in recs(b), SameKey(x, r)
        PROVE  FALSE
    <3>1. b = d
      BY <1>4, <1>6, <2>2 DEF SameKey
    <3>2. b \in Int
      BY <1>7
    <3>3. QED
      BY <2>2, <3>1, <3>2
  <2>3. QED
    BY <2>2
<1> HIDE DEF all
<1>10. {r \in all : r.dev = d} = recs(d)
  BY <1>4, <1>6, <1>8, <1>9
<1>11. QED
  BY <1>3, <1>5, <1>10

LEMMA CollectStep ==
  ASSUME OneHost, UsageInv, NEW h \in Hosts, Collect(h)
  PROVE  UsageInv'
<1> DEFINE s   == host[h]
           t   == host'[h]
           D   == {"pc", "events", "ledgers", "hints", "paths", "kept", "prefetched", "failed"}
<1>a. PICK lost \in IF s.completed /\ s.usable THEN {{}} ELSE SUBSET s.paths :
        LET imported == IF s.completed /\ s.usable THEN SyncEvents(cache', s.kept) ELSE Uncached(s, lost)
        IN  /\ Works(lost \subseteq s.failed)
            /\ Update(h, [pc |-> "done", events |-> Merge(s.events, {FromSync(r) : r \in imported}),
                          ledgers |-> {}, hints |-> {}, paths |-> {}, kept |-> {}, prefetched |-> {},
                          failed |-> lost])
  BY DEF Collect
<1> DEFINE imported == IF s.completed /\ s.usable THEN SyncEvents(cache', s.kept) ELSE Uncached(s, lost)
           evs == Merge(s.events, {FromSync(x) : x \in imported})
           r   == [pc |-> "done", events |-> evs, ledgers |-> {}, hints |-> {}, paths |-> {}, kept |-> {},
                   prefetched |-> {}, failed |-> lost]
<1>1. /\ s.pc = "stat" /\ s.ledgers = {} /\ UNCHANGED <<logs, meter, spent, ledger>>
      /\ Local(s) /\ DOMAIN host = Hosts /\ DOMAIN host[h] = Fields /\ CacheInv /\ CoherentInv /\ LedgerInv
      /\ (h \notin disturbed => Imported(s)) /\ (h \notin disturbed => Exported(s))
      /\ cache' = IF s.completed THEN RemoveMissingSync(cache, s.kept) ELSE cache
      /\ IF cache' = cache THEN UNCHANGED disturbed ELSE Disturbs(h)
      /\ Update(h, r)
  <2>1. Update(h, r)
    BY <1>a
  <2> HIDE DEF r
  <2>2. QED
    BY <2>1 DEF Collect, At, UsageInv, ScanInv, HostTypes, ImportInv, ExportInv
<1>b. used' \in UsedType /\ used'.idents = used.idents
  BY <1>1, <1>a, WorksFacts
<1>2. disturbed' = disturbed
  BY <1>1, NotDisturbed
<1>3. /\ DOMAIN host' = Hosts /\ DOMAIN t = Fields /\ \A x \in Fields \ D : t[x] = s[x]
      /\ t.pc = "done" /\ t.events = evs /\ t.ledgers = {} /\ t.hints = {} /\ t.paths = {}
      /\ t.failed = lost
  <2>1. /\ DOMAIN r = D /\ r.pc = "done" /\ r.events = evs /\ r.ledgers = {} /\ r.hints = {} /\ r.paths = {}
        /\ r.failed = lost
    OBVIOUS
  <2>2. D \subseteq Fields /\ Update(h, r)
    BY <1>1, FieldsAre
  <2> HIDE DEF r, evs, D
  <2>3. QED
    BY <1>1, <2>1, <2>2, HostStep DEF D
<1> HIDE DEF evs, imported
<1>4. /\ s.events \subseteq Events /\ s.stat = {} /\ lost \subseteq Ledgers
      /\ s.completed /\ s.usable => lost = {}
  <2>1. s.events \subseteq Events /\ s.stat = {} /\ s.paths \subseteq Ledgers
    BY <1>1 DEF Local, Collected, EventSteps, Importing
  <2>2. QED
    BY <1>a, <2>1
<1>5. Local(t)
  <2>1. /\ t.fresh = s.fresh /\ t.snaps = s.snaps /\ t.root = s.root /\ t.todo = s.todo
        /\ t.pending = s.pending /\ t.stat = s.stat
    BY <1>3, FieldsAre
  <2> HIDE DEF s, t
  <2>2. FreshEvents(t) /\ Listed(t)
    BY <1>1, <1>3, <2>1 DEF Local, FreshEvents, Waiting, Listed
  <2>3. Planned(t) /\ Metered(t) /\ Collected(t)
    BY <1>1, <1>3, <2>1 DEF Local, Planned, Metered, Collected, EventSteps
  <2>4. Importing(t)
    BY <1>3, <1>4, <2>1 DEF Importing
  <2>5. QED
    BY <1>3, <2>2, <2>3, <2>4 DEF Local
<1>6. t.stat = {} /\ t.ok = s.ok /\ t.exported = s.exported
  BY <1>3, <1>4, FieldsAre
<1>7. used'.idents = used.idents
  BY <1>b
<1> DEFINE gone == {o.path : o \in cache.origins["sync"]} \ s.kept
<1>8. CacheInv' /\ CoherentInv'
      /\ \A d \in s.kept : /\ OriginFile(cache', "sync", d) = OriginFile(cache, "sync", d)
                           /\ EventsForOrigin(cache', "sync", d) = EventsForOrigin(cache, "sync", d)
  <2>1. CASE s.completed
    <3>1. cache' = RemoveOrigins(cache, "sync", gone)
      BY <1>1, <2>1 DEF RemoveMissingSync
    <3>2. \A d \in s.kept : d \notin gone
      OBVIOUS
    <3> HIDE DEF gone
    <3>3. QED
      BY <1>1, <1>7, <3>1, <3>2, CoherentForgot
  <2>2. CASE ~s.completed
    <3>1. cache' = cache
      BY <1>1, <2>2
    <3>2. QED
      BY <1>1, <1>7, <3>1, CacheKept, CoherentKept DEF CacheInv
  <2>3. QED
    BY <2>1, <2>2
<1>9. LedgerInv'
  BY <1>1, <1>b, LedgersKept
<1>10. /\ \A d : d # Own => \A i : (\E e \in evs : e.dev = d /\ e.id = i) <=>
                                   (\E x \in imported : x.dev = d /\ x.id = i)
       /\ \A e \in evs : e.local => e \in s.events
  <2>1. evs = Merge(s.events, ImportedEvents(imported))
    BY DEF evs, ImportedEvents
  <2> HIDE DEF s
  <2>2. ShownOf(evs, s.events, imported)
    BY <1>4, <2>1, ForeignShown
  <2>3. QED
    BY <2>2 DEF ShownOf
<1>11. h \notin disturbed => Exported(host[h])'
  BY <1>1, <1>3, <1>6, <1>10 DEF Exported, Holds
<1>12. ShownInv'
  <2>1. SUFFICES ASSUME Alone(h)', NEW d \in Ledgers \ {Own}, ledger[d] # NoFile, ~ledger[d].away
                 PROVE  Idents({e \in t.events : e.dev = d}) =
                            IF d \in lost THEN {} ELSE Idents(ReadFrom(ledger[d], 0).recs)
    <3>1. Hosts = {h}
      BY OnlyHost
    <3>2. QED
      BY <1>1, <1>3, <3>1 DEF ShownInv, Shown
  <2>2. h \notin disturbed
    BY <1>2, <2>1 DEF Alone
  <2>3. /\ s.paths = {c \in Ledgers : ledger[c] # NoFile} /\ (s.completed => s.paths = s.kept)
        /\ s.usable => \A c \in s.kept : ~ledger[c].away =>
              \E o \in OriginFile(cache, "sync", c) : SameFile(o, ledger[c]) /\ o.size = Size(ledger[c])
        /\ \A p \in s.prefetched : p.d \in s.paths /\ p.recs = ReadFrom(ledger[p.d], 0).recs
    <3>1. Imported(s)
      BY <1>1, <2>2
    <3>2. {x.d : x \in s.stat} = {}
      BY <1>4
    <3>3. s.completed => s.paths = s.ledgers \cup s.kept \cup {x.d : x \in s.stat}
      BY <1>1, <3>1 DEF Imported
    <3>4. s.completed => s.paths = s.kept
      <4> HIDE DEF s
      <4>1. QED
        BY <1>1, <3>2, <3>3
    <3>5. QED
      BY <1>1, <3>1, <3>4 DEF Imported
  <2> DEFINE held == IF d \in lost THEN {} ELSE ReadFrom(ledger[d], 0).recs
  <2>4. \A i : (\E x \in imported : x.dev = d /\ x.id = i) <=> (\E x \in held : x.id = i)
    <3>1. CASE s.completed /\ s.usable
      <4>1. imported = SyncEvents(cache', s.kept)
        BY <2>3, <3>1 DEF imported
      <4>2. d \in s.kept
        BY <2>1, <2>3, <3>1
      <4>3. {x \in imported : x.dev = d} = EventsForOrigin(cache, "sync", d)
        BY <1>8, <4>1, <4>2, SyncEventsIs DEF CacheInv
      <4>4. ledger[d] \in Files(d)
        BY <1>1, <2>1 DEF LedgerInv
      <4>5. Covers(ledger[d], Size(ledger[d]), EventsForOrigin(cache, "sync", d))
        <5>1. PICK o \in OriginFile(cache, "sync", d) : SameFile(o, ledger[d]) /\ o.size = Size(ledger[d])
          BY <2>1, <2>3, <3>1, <4>2
        <5>2. Covers(ledger[d], o.size, EventsForOrigin(cache, "sync", d))
          BY <1>1, <2>1, <5>1 DEF CoherentInv
        <5>3. QED
          BY <5>1, <5>2
      <4>6. \A i : (\E k \in EventsForOrigin(cache, "sync", d) : k.id = i)
                   <=> (\E x \in ReadFrom(ledger[d], 0).recs : x.id = i)
        <5> DEFINE K == EventsForOrigin(cache, "sync", d)
        <5>1. Covers(ledger[d], Size(ledger[d]), K)
          BY <4>5
        <5> HIDE DEF K, held
        <5>2. \A i : (\E k \in K : k.id = i) <=> (\E x \in ReadFrom(ledger[d], 0).recs : x.id = i)
          BY <4>4, <5>1, IdentsCovered
        <5>3. QED
          BY <5>2 DEF K
      <4>7. QED
        BY <1>4, <3>1, <4>3, <4>6
    <3>2. CASE ~(s.completed /\ s.usable)
      <4>1. imported = Uncached(s, lost)
        BY <3>2 DEF imported
      <4>2. {x \in imported : x.dev = d} = held
        BY <1>1, <2>1, <2>3, <4>1, UncachedIs
      <4>3. QED
        BY <4>2
    <3>3. QED
      BY <3>1, <3>2
  <2> HIDE DEF held
  <2>5. \A i : (\E e \in t.events : e.dev = d /\ e.id = i) <=> (\E x \in held : x.id = i)
    BY <1>3, <1>10, <2>1, <2>4
  <2>6. Idents({e \in t.events : e.dev = d}) = Idents(held)
    BY <2>5 DEF Idents
  <2>7. QED
    BY <2>6 DEF held, Idents
<1>13. Told(host[h])' /\ Tailing(host[h])' /\ (h \notin disturbed => Imported(host[h])')
  BY <1>3, <1>6 DEF Told, Tailing, Imported
<1>14. QED
  BY <1>1, <1>2, <1>3, <1>5, <1>8, <1>9, <1>11, <1>12, <1>13, LateStep DEF ScanSteps

-----------------------------------------------------------------------------
(***************************************************************************)
(* The end of a scan before its time.                                      *)
(***************************************************************************)
LEMMA AbortStep ==
  ASSUME OneHost, UsageInv, NEW h \in Hosts, Abort(h)
  PROVE  UsageInv'
<1> DEFINE s    == host[h]
           l    == ledger[Own]
           next == used.idents + 1
           new  == NewRecords(l, Records(s), s.hints)
           n    == IF l = NoFile /\ ledger' # ledger THEN next ELSE used.idents
<1>1. /\ UNCHANGED <<cache, logs, meter, spent>>
      /\ host' = [host EXCEPT ![h] = Idle] /\ DOMAIN host = Hosts
      /\ used' = [used EXCEPT !.errors = @ + 1, !.idents = n]
      /\ disturbed' = (IF ledger' = ledger THEN disturbed ELSE disturbed \cup Active) \ {h}
      /\ LedgerInv /\ CacheInv /\ CoherentInv /\ WorldInv
  BY DEF Abort, UsageInv, HostTypes
<1>2. \/ UNCHANGED ledger
      \/ /\ s.pc = "write" /\ ~Refused(s, l) /\ ~Rewriting(s, l)
         /\ \E cut \in CutAppends(l, new, next) : ledger' = [ledger EXCEPT ![Own] = cut]
  BY DEF Abort, At
<1>3. DOMAIN host' = Hosts /\ host'[h] = Idle
  BY <1>1
<1>4. used.idents \in Nat /\ next \in Nat /\ n \in Nat
  BY <1>1 DEF LedgerInv
<1>5. used' \in UsedType /\ used'.idents = n
  <2> HIDE DEF n
  <2>1. QED
    BY <1>1, <1>4, ErrorUsed DEF LedgerInv, UsedType
<1>6. disturbed' \subseteq Active'
  <2> DEFINE S == IF ledger' = ledger THEN disturbed ELSE disturbed \cup Active
  <2>1. S \subseteq Hosts
    BY <1>1 DEF WorldInv, Active
  <2>2. disturbed' = S \ {h}
    BY <1>1
  <2> HIDE DEF S
  <2>3. QED
    BY <1>1, <2>1, <2>2, Asleep
<1>7. CASE UNCHANGED ledger
  <2>1. used'.idents = used.idents
    BY <1>5, <1>7
  <2>2. Cached(cache') /\ SyncKept(cache, cache')
    BY <1>1, CacheKept
  <2> HIDE DEF n
  <2>3. QED
    BY <1>1, <1>3, <1>5, <1>6, <1>7, <2>1, <2>2, IdleIs, EarlyStep DEF Early
<1>8. CASE /\ s.pc = "write" /\ ~Refused(s, l) /\ ~Rewriting(s, l)
           /\ \E cut \in CutAppends(l, new, next) : ledger' = [ledger EXCEPT ![Own] = cut]
  <2>1. PICK cut \in CutAppends(l, new, next) : ledger' = [ledger EXCEPT ![Own] = cut]
    BY <1>8
  <2>2. new \subseteq Recs(Own) /\ IsFiniteSet(new)
    BY <1>8, NewRecordsFacts
  <2>3. Own \in Ledgers /\ (l = NoFile \/ l \in Files(Own)) /\ DOMAIN ledger = Ledgers
    BY <1>1, UsageAssumption DEF LedgerInv, Own
  <2>4. Base(l, next) \in Files(Own)
    BY <1>4, <2>3, BaseFacts
  <2>5. cut \in Files(Own) /\ Appended(Base(l, next), cut, SetToSeq(new))
    <3> HIDE DEF new, next, l
    <3>1. QED
      BY <1>4, <2>1, <2>2, <2>3, <2>4, CutFacts
  <2>6. ledger'[Own] = cut /\ cut # NoFile
    BY <2>1, <2>3, <2>5, ProofAssumption
  <2>7. used'.idents = IF l = NoFile THEN used.idents + 1 ELSE used.idents
    BY <1>5, <2>6
  <2>8. LedgerInv' /\ CoherentInv'
    <3> HIDE DEF n
    <3>1. QED
      BY <1>1, <1>5, <1>8, <2>1, <2>5, <2>7, OwnAppended
  <2>9. CacheInv'
    BY <1>1, CacheKept DEF CacheInv
  <2>10. WorldInv'
    BY <1>1, <1>6 DEF WorldInv, Present
  <2>11. HostTypes' /\ ScanInv'
    BY <1>3, IdleIs, HostsTyped DEF ScanSteps
  <2>12. HintsInv' /\ ExportInv' /\ StatInv' /\ ImportInv' /\ ShownInv'
    BY <1>3, IdleIs, EarlyFacts DEF Early
  <2>13. QED
    BY <2>8, <2>9, <2>10, <2>11, <2>12 DEF UsageInv
<1>9. QED
  BY <1>2, <1>7, <1>8

-----------------------------------------------------------------------------
(***************************************************************************)
(* The environment.  What it changes disturbs every scan that is running.  *)
(***************************************************************************)
LEMMA ChangeStep ==
  ASSUME UsageInv, UNCHANGED <<cache, host>>, disturbed' = disturbed \cup Active,
         WorldInv', LedgerInv', CoherentInv', HintsInv'
  PROVE  UsageInv'
<1>1. CacheInv'
  BY CacheKept DEF UsageInv, CacheInv
<1>2. HostTypes' /\ ScanInv'
  BY DEF UsageInv, HostTypes, ScanInv
<1>3. StatInv'
  BY DEF UsageInv, StatInv, Tailing
<1>4. \A h \in Hosts : h \notin disturbed' => host'[h].pc = "idle"
  BY DEF Active
<1>5. ExportInv'
  BY <1>4 DEF ExportInv, Exported
<1>6. ImportInv'
  BY <1>4 DEF ImportInv, Imported
<1>7. ShownInv'
  BY <1>4 DEF ShownInv, Alone, At
<1>8. QED
  BY <1>1, <1>2, <1>3, <1>5, <1>6, <1>7 DEF UsageInv

LEMMA DisturbedActive ==
  ASSUME UsageInv, UNCHANGED host, disturbed' = disturbed \cup Active
  PROVE  disturbed' \subseteq Active'
BY DEF UsageInv, WorldInv, Active

\* Tools change their logs and their counters.
LEMMA ToolStep ==
  ASSUME UsageInv, UNCHANGED <<cache, host, ledger>>, disturbed' = disturbed \cup Active, Counted, WorldInv'
  PROVE  UsageInv'
<1>1. used' \in UsedType /\ used'.idents = used.idents
  BY UsedIs DEF UsageInv, Counted
<1>2. LedgerInv'
  BY <1>1, LedgersKept DEF UsageInv
<1>3. CoherentInv'
  BY <1>1, CacheKept, CoherentKept DEF UsageInv
<1>4. HintsInv'
  BY <1>1 DEF UsageInv, HintsInv, Told, ReadUpTo
<1>5. QED
  BY <1>2, <1>3, <1>4, ChangeStep

LogStates == [n : 0..MaxLines, tail : 0..2, recent : BOOLEAN]

LEMMA LogsKept ==
  ASSUME UsageInv, UNCHANGED <<host, meter, spent>>, disturbed' = disturbed \cup Active,
         DOMAIN logs' = LogPaths, \A p \in LogPaths : logs'[p] = NoFile \/ logs'[p] \in LogStates
  PROVE  WorldInv'
<1>1. disturbed' \subseteq Active'
  BY DisturbedActive
<1>2. QED
  BY <1>1 DEF UsageInv, WorldInv, Present, LogStates

LEMMA LogsFacts ==
  ASSUME UsageInv
  PROVE  DOMAIN logs = LogPaths /\ \A p \in LogPaths : logs[p] = NoFile \/ logs[p] \in LogStates
BY DEF UsageInv, WorldInv, Present, LogStates

LEMMA MaxLinesIs == MaxLines \in Nat /\ 1 \in 0..MaxLines
BY UsageAssumption, ProofAssumption

LEMMA WriteLogStep ==
  ASSUME UsageInv, NEW path \in LogPaths, WriteLog(path)
  PROVE  UsageInv'
<1>1. /\ UNCHANGED <<cache, host, ledger, meter, spent>> /\ disturbed' = disturbed \cup Active /\ Counted
  BY DEF WriteLog, Change
<1>2. \E f \in LogStates : logs' = [logs EXCEPT ![path] = f]
  <2>1. CASE logs' = [logs EXCEPT ![path] = [n |-> 1, tail |-> 0, recent |-> TRUE]]
    <3>1. [n |-> 1, tail |-> 0, recent |-> TRUE] \in LogStates
      BY MaxLinesIs DEF LogStates
    <3>2. QED
      BY <2>1, <3>1
  <2>2. ASSUME Present(path), logs[path].n < MaxLines, NEW t \in 0..2,
               logs' = [logs EXCEPT ![path] = [n |-> IF t = 0 THEN @.n + 1 ELSE @.n, tail |-> t, recent |-> TRUE]]
        PROVE  \E f \in LogStates : logs' = [logs EXCEPT ![path] = f]
    <3> DEFINE k == IF t = 0 THEN logs[path].n + 1 ELSE logs[path].n
               f == [n |-> k, tail |-> t, recent |-> TRUE]
    <3>1. logs[path] \in LogStates
      BY <2>2, LogsFacts DEF Present
    <3>2. k \in 0..MaxLines
      BY <2>2, <3>1, MaxLinesIs DEF LogStates
    <3>3. logs' = [logs EXCEPT ![path] = f]
      BY <2>2
    <3> HIDE DEF k
    <3>4. f \in LogStates
      BY <3>2 DEF LogStates
    <3>5. QED
      BY <3>3, <3>4
  <2>3. QED
    BY <2>1, <2>2 DEF WriteLog
<1>3. DOMAIN logs' = LogPaths /\ \A p \in LogPaths : logs'[p] = NoFile \/ logs'[p] \in LogStates
  BY <1>2, LogsFacts
<1>4. WorldInv'
  BY <1>1, <1>3, LogsKept
<1>5. QED
  BY <1>1, <1>4, ToolStep

LEMMA DeleteLogStep ==
  ASSUME UsageInv, NEW path \in LogPaths, DeleteLog(path)
  PROVE  UsageInv'
<1>1. /\ UNCHANGED <<cache, host, ledger, meter, spent>> /\ disturbed' = disturbed \cup Active /\ Counted
      /\ logs' = [logs EXCEPT ![path] = NoFile]
  BY DEF DeleteLog, Change
<1>2. DOMAIN logs' = LogPaths /\ \A p \in LogPaths : logs'[p] = NoFile \/ logs'[p] \in LogStates
  BY <1>1, LogsFacts
<1>3. WorldInv'
  BY <1>1, <1>2, LogsKept
<1>4. QED
  BY <1>1, <1>3, ToolStep

LEMMA MoveLogStep ==
  ASSUME UsageInv, NEW n \in Names, MoveLog(n)
  PROVE  UsageInv'
<1> DEFINE from == <<"sessions", n>>
           to   == <<"archive", n>>
<1>1. /\ UNCHANGED <<cache, host, ledger, meter, spent>> /\ disturbed' = disturbed \cup Active /\ Counted
  BY DEF MoveLog, Change
<1>2. PICK keep \in BOOLEAN : logs' = [logs EXCEPT ![to] = logs[from], ![from] = IF keep THEN @ ELSE NoFile]
  BY DEF MoveLog
<1>3. from \in LogPaths /\ to \in LogPaths
  BY DEF LogPaths
<1>4. DOMAIN logs' = LogPaths /\ \A p \in LogPaths : logs'[p] = NoFile \/ logs'[p] \in LogStates
  <2> HIDE DEF from, to
  <2>1. DOMAIN logs' = LogPaths
    BY <1>2, LogsFacts
  <2>2. \A p \in LogPaths : logs'[p] \in {logs[q] : q \in LogPaths} \cup {NoFile}
    BY <1>2, <1>3, LogsFacts
  <2>3. QED
    BY <2>1, <2>2, LogsFacts
<1>5. WorldInv'
  BY <1>1, <1>4, LogsKept
<1>6. QED
  BY <1>1, <1>5, ToolStep

LEMMA CountMeterStep ==
  ASSUME UsageInv, NEW s \in Meters, CountMeter(s)
  PROVE  UsageInv'
<1>1. /\ UNCHANGED <<cache, host, ledger, logs>> /\ disturbed' = disturbed \cup Active /\ Counted
  BY DEF CountMeter, Change
<1>2. /\ meter \in [Meters -> Nat] /\ spent \in [Meters -> Nat] /\ \A x \in Meters : meter[x] <= spent[x]
  BY DEF UsageInv, WorldInv
<1>3. /\ meter' \in [Meters -> Nat] /\ spent' \in [Meters -> Nat] /\ \A x \in Meters : meter'[x] <= spent'[x]
  <2>1. ASSUME NEW a \in Nat, NEW b \in Nat, a <= b,
               meter' = [meter EXCEPT ![s] = a], spent' = [spent EXCEPT ![s] = b]
        PROVE  /\ meter' \in [Meters -> Nat] /\ spent' \in [Meters -> Nat]
               /\ \A x \in Meters : meter'[x] <= spent'[x]
    BY <1>2, <2>1
  <2>2. ASSUME NEW n \in 1..(MaxMeter - spent[s]),
               meter' = [meter EXCEPT ![s] = @ + n], spent' = [spent EXCEPT ![s] = @ + n]
        PROVE  /\ meter' \in [Meters -> Nat] /\ spent' \in [Meters -> Nat]
               /\ \A x \in Meters : meter'[x] <= spent'[x]
    <3>1. meter[s] \in Nat /\ spent[s] \in Nat /\ meter[s] <= spent[s] /\ MaxMeter \in Nat
      BY <1>2, UsageAssumption
    <3>2. n \in Nat
      BY <3>1
    <3>3. meter[s] + n \in Nat /\ spent[s] + n \in Nat /\ meter[s] + n <= spent[s] + n
      BY <3>1, <3>2
    <3>4. QED
      BY <2>1, <2>2, <3>3
  <2>3. ASSUME meter[s] > 1, meter' = [meter EXCEPT ![s] = 1], spent' = [spent EXCEPT ![s] = @ + 1]
        PROVE  /\ meter' \in [Meters -> Nat] /\ spent' \in [Meters -> Nat]
               /\ \A x \in Meters : meter'[x] <= spent'[x]
    <3>1. meter[s] \in Nat /\ spent[s] \in Nat /\ meter[s] <= spent[s]
      BY <1>2
    <3>2. spent[s] + 1 \in Nat /\ 1 <= spent[s] + 1
      BY <2>3, <3>1
    <3>3. QED
      BY <2>1, <2>3, <3>2
  <2>4. QED
    BY <2>2, <2>3 DEF CountMeter
<1>4. disturbed' \subseteq Active'
  BY <1>1, DisturbedActive
<1>5. WorldInv'
  BY <1>1, <1>3, <1>4 DEF UsageInv, WorldInv, Present
<1>6. QED
  BY <1>1, <1>5, ToolStep

\* Another version of a ledger, a longer one, or none.
LEMMA CloudStep ==
  ASSUME UsageInv, NEW d \in Ledgers, NEW m, ledger' = [ledger EXCEPT ![d] = m],
         UNCHANGED <<cache, host, logs, meter, spent>>, disturbed' = disturbed \cup Active,
         used' \in UsedType, used.idents <= used'.idents,
         \/ m = NoFile
         \/ /\ m \in Files(d) /\ m.ident \in 1..used'.idents
            /\ d # Own /\ m.tail = 2 => m.last = ForeignRecord(d, Len(m.lines) + 1)
            /\ d = Own => UniqueLines(m)
            /\ (used.idents < m.ident) \/ (ledger[d] # NoFile /\ Extends(ledger[d], m))
  PROVE  UsageInv'
<1>1. CacheInv /\ LedgerInv /\ CoherentInv /\ HintsInv /\ WorldInv
  BY DEF UsageInv
<1>2. LedgerInv' /\ CoherentInv'
  BY <1>1, LedgerWritten
<1>3. WorldInv'
  <2>1. disturbed' \subseteq Active'
    BY DisturbedActive
  <2>2. QED
    BY <1>1, <2>1 DEF WorldInv, Present
<1>4. HintsInv'
  <2>1. SUFFICES ASSUME NEW h \in Hosts, host[h].pc = "write", NEW k \in host[h].hints
                 PROVE  /\ k.ident \in 1..used'.idents
                        /\ ledger'[Own] # NoFile /\ k.ident = ledger'[Own].ident =>
                              /\ ReadUpTo(ledger'[Own], k.size)
                              /\ \A r \in Records(host[h]) : (\E x \in k.keys : SameKey(r, x)) <=>
                                    \E i \in 1..Covered(k.size) : SameKey(r, LinesOf(ledger'[Own])[i])
    BY DEF HintsInv, Told
  <2>2. /\ k.ident \in 1..used.idents
        /\ ledger[Own] # NoFile /\ k.ident = ledger[Own].ident =>
              /\ ReadUpTo(ledger[Own], k.size)
              /\ \A r \in Records(host[h]) : (\E x \in k.keys : SameKey(r, x)) <=>
                    \E i \in 1..Covered(k.size) : SameKey(r, LinesOf(ledger[Own])[i])
    BY <1>1, <2>1 DEF HintsInv, Told
  <2>3. used.idents \in Nat /\ used'.idents \in Nat /\ DOMAIN ledger = Ledgers /\ Own \in Ledgers
    BY <1>1, UsageAssumption DEF LedgerInv, UsedType, Own
  <2>4. k.ident \in 1..used'.idents
    BY <2>2, <2>3
  <2>5. CASE d # Own
    <3>1. ledger'[Own] = ledger[Own]
      BY <2>3, <2>5
    <3>2. QED
      BY <2>2, <2>4, <3>1
  <2>6. CASE d = Own
    <3>1. ledger'[Own] = m
      BY <2>3, <2>6
    <3>2. SUFFICES ASSUME m # NoFile, k.ident = m.ident
                   PROVE  /\ ReadUpTo(m, k.size)
                          /\ \A r \in Records(host[h]) : (\E x \in k.keys : SameKey(r, x)) <=>
                                \E i \in 1..Covered(k.size) : SameKey(r, LinesOf(m)[i])
      BY <2>4, <3>1
    <3>3. m \in Files(Own) /\ ledger[Own] # NoFile /\ Extends(ledger[Own], m)
      BY <2>2, <2>3, <2>6, <3>2
    <3>4. ledger[Own] \in Files(Own)
      BY <1>1, <2>3, <3>3 DEF LedgerInv
    <3>5. k.ident = ledger[Own].ident
      BY <3>2, <3>3 DEF Extends
    <3>6. ReadUpTo(ledger[Own], k.size)
      BY <2>2, <3>3, <3>5
    <3>7. /\ ReadUpTo(m, k.size)
          /\ \A i \in 1..Covered(k.size) : LinesOf(m)[i] = LinesOf(ledger[Own])[i]
      BY <3>3, <3>4, <3>6, StillRead
    <3>8. QED
      BY <2>2, <3>3, <3>5, <3>7
  <2>7. QED
    BY <2>5, <2>6
<1>5. QED
  BY <1>1, <1>2, <1>3, <1>4, ChangeStep

LEMMA ForeignIs ==
  ASSUME NEW d, NEW i \in Nat
  PROVE  ForeignRecord(d, i) \in Recs(d) /\ ForeignRecord(d, i) \in Lines(d)
<1>1. <<"log", "foreign", i>> \in Ids
  BY DEF Ids
<1>2. ForeignRecord(d, i) \in Recs(d)
  BY <1>1 DEF ForeignRecord, Recs, Schema
<1>3. QED
  BY <1>2 DEF Lines

\* The lines of a ledger that has grown or was only evicted.
LEMMA LedgerGrown ==
  ASSUME NEW d, NEW l \in Files(d), l.tail = 2 => l.last = ForeignRecord(d, Len(l.lines) + 1),
         NEW m, m = [l EXCEPT !.lines = Append(@, ForeignRecord(d, Len(l.lines) + 1)), !.tail = 0, !.last = Bad]
  PROVE  m \in Files(d) /\ m.ident = l.ident /\ m.tail = 0 /\ Extends(l, m)
<1> DEFINE x == ForeignRecord(d, Len(l.lines) + 1)
           w == Append(l.lines, x)
           n == Len(l.lines)
<1>1. l.lines \in Seq(Lines(d)) /\ n \in Nat /\ Bad \in Lines(d) /\ l.tail \in 0..2
  BY LineFacts DEF Lines
<1>2. x \in Lines(d)
  BY <1>1, ForeignIs
<1>3. m = [l EXCEPT !.lines = w, !.tail = 0, !.last = Bad]
  OBVIOUS
<1> HIDE DEF x
<1>4. w \in Seq(Lines(d)) /\ Len(w) = n + 1 /\ (\A i \in 1..n : w[i] = l.lines[i]) /\ w[n + 1] = x
  BY <1>1, <1>2
<1> HIDE DEF w, n
<1>5. m \in Files(d) /\ m.ident = l.ident /\ m.tail = 0 /\ m.lines = w
  <2> DEFINE S == Seq(Lines(d))
             L == Lines(d)
             T == [ident : Nat, lines : S, tail : 0..2, last : L, away : BOOLEAN]
  <2>1. Files(d) = T
    BY DEF Files
  <2>2. l \in T /\ w \in S /\ Bad \in L
    BY <1>1, <1>4, <2>1
  <2> HIDE DEF S, L
  <2>3. m \in T
    <3> DEFINE k == [l EXCEPT !.lines = w]
               j == [k EXCEPT !.tail = 0]
    <3>1. k \in T
      BY ONLY <2>2
    <3>2. m = [j EXCEPT !.last = Bad]
      BY <1>3, Zenon
    <3> HIDE DEF k
    <3>3. j \in T
      BY ONLY <3>1
    <3> HIDE DEF j
    <3>4. QED
      BY ONLY <2>2, <3>2, <3>3
  <2>4. m.ident = l.ident /\ m.tail = 0 /\ m.lines = w
    BY ONLY <1>3, <2>2
  <2>5. QED
    BY <2>1, <2>3, <2>4
<1>6. LinesOf(m) = w
  BY <1>5 DEF LinesOf
<1>7. Size(l) <= Size(m)
  <2>1. Size(l) = 3 * n + l.tail /\ Size(m) = 3 * (n + 1) + 0
    BY <1>4, <1>5, SizeFacts DEF n
  <2>2. QED
    BY <1>1, <2>1
<1>8. ASSUME NEW i \in DOMAIN LinesOf(l), i <= n \/ l.tail = 2
      PROVE  i \in DOMAIN w /\ w[i] = LinesOf(l)[i]
  <2>1. /\ DOMAIN LinesOf(l) = 1..Len(LinesOf(l)) /\ DOMAIN w = 1..(n + 1)
        /\ Len(LinesOf(l)) = (IF l.tail = 0 THEN n ELSE n + 1)
        /\ \A j \in 1..n : LinesOf(l)[j] = l.lines[j]
        /\ l.tail = 2 => LinesOf(l)[n + 1] = l.last
    <3>1. DOMAIN w = 1..(n + 1)
      BY <1>4
    <3>2. QED
      BY <3>1, LineFacts DEF n
  <2>2. i \in 1..n \/ (i = n + 1 /\ l.tail = 2)
    BY <1>1, <1>8, <2>1
  <2>3. CASE i \in 1..n
    BY <1>1, <1>4, <2>1, <2>3
  <2>4. CASE i = n + 1 /\ l.tail = 2
    <3>1. LinesOf(l)[i] = x
      BY <2>1, <2>4 DEF x, n
    <3>2. QED
      BY <1>1, <1>4, <2>1, <2>4, <3>1
  <2>5. QED
    BY <2>2, <2>3, <2>4
<1>9. QED
  BY <1>5, <1>6, <1>7, <1>8 DEF Extends, n

CutLine(l, t, x) == [l EXCEPT !.tail = t, !.last = x]

LEMMA LedgerTail ==
  ASSUME NEW d, NEW l \in Files(d), l.tail = 0, NEW t \in 1..2, NEW x \in Lines(d),
         NEW m, m = CutLine(l, t, x)
  PROVE  /\ m \in Files(d) /\ m.ident = l.ident /\ m.tail = t /\ m.last = x /\ m.lines = l.lines
         /\ Extends(l, m)
<1>1. m \in Files(d) /\ m.ident = l.ident /\ m.tail = t /\ m.last = x /\ m.lines = l.lines
  <2> DEFINE S == Seq(Lines(d))
             L == Lines(d)
             T == [ident : Nat, lines : S, tail : 0..2, last : L, away : BOOLEAN]
  <2>1. Files(d) = T
    BY DEF Files
  <2>2. l \in T /\ x \in L /\ m = [l EXCEPT !.tail = t, !.last = x] /\ t \in 0..2
    BY <2>1 DEF CutLine
  <2> HIDE DEF S, L
  <2>3. m \in T
    BY ONLY <2>2
  <2>4. m.ident = l.ident /\ m.tail = t /\ m.last = x /\ m.lines = l.lines
    BY ONLY <2>2
  <2>5. QED
    BY <2>1, <2>3, <2>4
<1> DEFINE n == Len(l.lines)
<1>2. /\ DOMAIN LinesOf(l) = 1..n /\ DOMAIN LinesOf(m) = 1..(n + 1) /\ n \in Nat
      /\ \A i \in 1..n : LinesOf(l)[i] = l.lines[i] /\ LinesOf(m)[i] = l.lines[i]
  <2>1. /\ DOMAIN LinesOf(l) = 1..Len(LinesOf(l)) /\ Len(LinesOf(l)) = n /\ n \in Nat
        /\ \A i \in 1..n : LinesOf(l)[i] = l.lines[i]
    BY LineFacts
  <2>2. /\ DOMAIN LinesOf(m) = 1..Len(LinesOf(m)) /\ Len(LinesOf(m)) = Len(m.lines) + 1
        /\ \A i \in 1..Len(m.lines) : LinesOf(m)[i] = m.lines[i]
    <3>1. m.tail # 0
      BY <1>1
    <3>2. QED
      BY <1>1, <3>1, LineFacts
  <2>3. Len(m.lines) = n
    BY <1>1
  <2> HIDE DEF n
  <2>4. QED
    BY <1>1, <2>1, <2>2, <2>3
<1>3. Size(l) <= Size(m)
  <2>1. Size(l) = 3 * n + 0 /\ Size(m) = 3 * n + t
    BY <1>1, SizeFacts
  <2> HIDE DEF n
  <2>2. QED
    BY <1>2, <2>1
<1> HIDE DEF n
<1>4. \A i \in DOMAIN LinesOf(l) : i \in DOMAIN LinesOf(m) /\ LinesOf(m)[i] = LinesOf(l)[i]
  BY <1>2
<1>5. QED
  BY <1>1, <1>3, <1>4 DEF Extends

LEMMA LedgerAway ==
  ASSUME NEW d, NEW l \in Files(d), NEW away \in BOOLEAN, NEW m, m = [l EXCEPT !.away = away]
  PROVE  /\ m \in Files(d) /\ m.ident = l.ident /\ m.tail = l.tail /\ m.last = l.last /\ m.lines = l.lines
         /\ LinesOf(m) = LinesOf(l) /\ Extends(l, m)
<1>1. m \in Files(d) /\ m.ident = l.ident /\ m.tail = l.tail /\ m.last = l.last /\ m.lines = l.lines
  BY DEF Files
<1>2. LinesOf(m) = LinesOf(l) /\ Size(m) = Size(l)
  BY <1>1 DEF LinesOf, Size
<1>3. Size(l) \in Nat
  BY SizeFacts
<1>4. QED
  BY <1>1, <1>2, <1>3 DEF Extends

LEMMA TailUnique ==
  ASSUME NEW d, NEW l \in Files(d), Len(l.lines) > 1, NEW ident \in Nat
  PROVE  /\ Tail(l.lines) \in Seq(Lines(d))
         /\ UniqueLines(l) => UniqueLines(NewLedger(ident, Tail(l.lines)))
<1> DEFINE n == Len(l.lines)
           w == Tail(l.lines)
           m == NewLedger(ident, w)
<1>1. l.lines \in Seq(Lines(d)) /\ n \in Nat /\ n > 1
  BY LineFacts
<1>2. w \in Seq(Lines(d)) /\ Len(w) = n - 1 /\ \A i \in 1..(n - 1) : w[i] = l.lines[i + 1]
  BY <1>1, l.lines # <<>>
<1> HIDE DEF w
<1>3. LinesOf(m) = w
  BY <1>2, NewLedgerFacts
<1>4. DOMAIN w = 1..(n - 1)
  BY <1>1, <1>2
<1>5. ASSUME UniqueLines(l)
      PROVE  UniqueLines(m)
  <2>1. SUFFICES ASSUME NEW i \in 1..(n - 1), NEW j \in 1..(n - 1),
                        w[i].ver # 0, w[j].ver # 0, SameKey(w[i], w[j])
                 PROVE  i = j
    BY <1>3, <1>4 DEF UniqueLines
  <2>2. DOMAIN LinesOf(l) = 1..Len(LinesOf(l)) /\ Len(LinesOf(l)) \in {n, n + 1}
        /\ \A k \in 1..n : LinesOf(l)[k] = l.lines[k]
    BY LineFacts
  <2> HIDE DEF n, m
  <2> DEFINE a == i + 1
             b == j + 1
  <2>3. a \in 1..n /\ b \in 1..n /\ w[i] = l.lines[a] /\ w[j] = l.lines[b]
    BY <1>1, <1>2
  <2> HIDE DEF a, b
  <2>4. a \in DOMAIN LinesOf(l) /\ b \in DOMAIN LinesOf(l) /\ LinesOf(l)[a] = w[i] /\ LinesOf(l)[b] = w[j]
    <3> DEFINE L == Len(LinesOf(l))
    <3>a. DOMAIN LinesOf(l) = 1..L /\ L \in {n, n + 1}
      BY <2>2
    <3> HIDE DEF L
    <3>1. \A k \in 1..n : k \in DOMAIN LinesOf(l)
      BY <1>1, <3>a
    <3>2. QED
      BY <2>2, <2>3, <3>1
  <2>5. a = b
    BY <1>5, <2>1, <2>4 DEF UniqueLines
  <2>6. QED
    BY <1>1, <2>5 DEF a, b
<1>6. QED
  BY <1>2, <1>5 DEF w

LEMMA ChangedUsed ==
  ASSUME NEW u, u \in UsedType, NEW n \in Nat, NEW v, v = [u EXCEPT !.changes = @ + 1, !.idents = n]
  PROVE  v \in UsedType /\ v.idents = n
<1> DEFINE w == [u EXCEPT !.changes = @ + 1]
<1>1. w \in UsedType
  BY DEF UsedType
<1>2. v = [w EXCEPT !.idents = n]
  BY Zenon
<1> HIDE DEF w
<1>3. QED
  BY <1>1, <1>2 DEF UsedType

LEMMA CloudChangeStep ==
  ASSUME UsageInv, NEW d \in Ledgers, CloudChange(d)
  PROVE  UsageInv'
<1> DEFINE l    == ledger[d]
           k    == Len(l.lines)
           n    == IF l = NoFile THEN 0 ELSE k
           next == used.idents + 1
           id   == IF ledger'[d] # NoFile /\ ledger'[d].ident > used.idents THEN next ELSE used.idents
           done == \E t \in 0..2 :
              /\ l.tail = 0 \/ t = 0
              /\ ledger' = [ledger EXCEPT ![d] =
                     IF t = 0 THEN [l EXCEPT !.lines = Append(@, ForeignRecord(d, n + 1)), !.tail = 0, !.last = Bad]
                     ELSE [l EXCEPT !.tail = t, !.last = IF t = 2 THEN ForeignRecord(d, n + 1) ELSE Bad]]
           texts == (IF n > 1 THEN {Tail(l.lines)} ELSE {})
                    \cup (IF d = Own THEN {} ELSE {<<ForeignRecord(d, n + 1)>>})
<1>1. /\ UNCHANGED <<cache, host, logs, meter, spent>> /\ disturbed' = disturbed \cup Active
      /\ used' = [used EXCEPT !.changes = @ + 1, !.idents = id]
      /\ \/ /\ d # Own /\ l = NoFile
            /\ ledger' = [ledger EXCEPT ![d] = NewLedger(next, <<ForeignRecord(d, 1)>>)]
         \/ d # Own /\ l # NoFile /\ done
         \/ l # NoFile /\ \E lines \in texts : ledger' = [ledger EXCEPT ![d] = NewLedger(next, lines)]
         \/ l # NoFile /\ ledger' = [ledger EXCEPT ![d] = [l EXCEPT !.away = ~@]]
         \/ l # NoFile /\ ledger' = [ledger EXCEPT ![d] = NoFile]
  BY DEF CloudChange, Change
<1>2. /\ used \in UsedType /\ used.idents \in Nat /\ DOMAIN ledger = Ledgers
      /\ l # NoFile => l \in Files(d) /\ l.ident \in 1..used.idents
      /\ d # Own /\ l # NoFile /\ l.tail = 2 => l.last = ForeignRecord(d, k + 1)
      /\ d = Own /\ l # NoFile => UniqueLines(l)
  BY DEF UsageInv, LedgerInv, UsedType
<1>3. used' \in UsedType /\ used'.idents = id
  <2>1. id \in Nat
    BY <1>2
  <2> HIDE DEF id
  <2>2. QED
    BY <1>1, <1>2, <2>1, ChangedUsed
<1>4. used.idents <= used'.idents
  BY <1>2, <1>3
<1>5. l # NoFile => n = k /\ k \in Nat
  BY <1>2, LineFacts
<1> HIDE DEF id, done, texts
<1>6. ASSUME NEW lines, lines \in Seq(Lines(d)), d = Own => UniqueLines(NewLedger(next, lines)),
             ledger' = [ledger EXCEPT ![d] = NewLedger(next, lines)]
      PROVE  UsageInv'
  <2> DEFINE m == NewLedger(next, lines)
  <2>1. next \in Nat /\ used.idents < next
    BY <1>2
  <2>2. m \in Files(d) /\ m.ident = next /\ m.tail = 0
    BY <1>6, <2>1, NewLedgerFacts
  <2>3. ledger'[d] = m /\ m # NoFile
    BY <1>2, <1>6, <2>2, ProofAssumption
  <2>4. ledger' = [ledger EXCEPT ![d] = m] /\ (d = Own => UniqueLines(m))
    BY <1>6
  <2> HIDE DEF m, next
  <2>5. used'.idents = next
    BY <1>2, <1>3, <2>1, <2>2, <2>3 DEF id
  <2>6. m.ident \in 1..used'.idents /\ used.idents < m.ident
    BY <1>2, <2>1, <2>2, <2>5
  <2>7. d # Own /\ m.tail = 2 => m.last = ForeignRecord(d, Len(m.lines) + 1)
    BY <2>2
  <2>8. QED
    BY <1>1, <1>3, <1>4, <2>2, <2>4, <2>6, <2>7, CloudStep
<1>7. ASSUME NEW m, l # NoFile, m \in Files(d), m.ident = l.ident, Extends(l, m),
             d # Own /\ m.tail = 2 => m.last = ForeignRecord(d, Len(m.lines) + 1),
             d = Own => UniqueLines(m), ledger' = [ledger EXCEPT ![d] = m]
      PROVE  UsageInv'
  <2>1. m.ident \in 1..used'.idents
    BY <1>2, <1>3, <1>4, <1>7 DEF UsedType
  <2>2. QED
    BY <1>1, <1>3, <1>4, <1>7, <2>1, CloudStep
<1>8. CASE d # Own /\ l = NoFile /\ ledger' = [ledger EXCEPT ![d] = NewLedger(next, <<ForeignRecord(d, 1)>>)]
  <2>1. <<ForeignRecord(d, 1)>> \in Seq(Lines(d))
    BY ForeignIs
  <2>2. QED
    BY <1>6, <1>8, <2>1
<1>9. CASE d # Own /\ l # NoFile /\ done
  <2>1. PICK t \in 0..2 :
              /\ l.tail = 0 \/ t = 0
              /\ ledger' = [ledger EXCEPT ![d] =
                     IF t = 0 THEN [l EXCEPT !.lines = Append(@, ForeignRecord(d, k + 1)), !.tail = 0, !.last = Bad]
                     ELSE [l EXCEPT !.tail = t, !.last = IF t = 2 THEN ForeignRecord(d, k + 1) ELSE Bad]]
    BY <1>5, <1>9 DEF done
  <2>2. CASE t = 0
    <3> DEFINE m == [l EXCEPT !.lines = Append(@, ForeignRecord(d, k + 1)), !.tail = 0, !.last = Bad]
    <3>1. m \in Files(d) /\ m.ident = l.ident /\ m.tail = 0 /\ Extends(l, m)
      BY <1>2, <1>9, LedgerGrown
    <3>2. ledger' = [ledger EXCEPT ![d] = m]
      BY <2>1, <2>2
    <3> HIDE DEF m
    <3>3. d # Own /\ m.tail = 2 => m.last = ForeignRecord(d, Len(m.lines) + 1)
      BY <3>1
    <3>4. QED
      BY <1>7, <1>9, <3>1, <3>2, <3>3
  <2>3. CASE t # 0
    <3> DEFINE x == IF t = 2 THEN ForeignRecord(d, k + 1) ELSE Bad
               m == [l EXCEPT !.tail = t, !.last = x]
    <3>1. x \in Lines(d) /\ t \in 1..2 /\ l.tail = 0
      BY <1>5, <1>9, <2>1, <2>3, ForeignIs DEF Lines
    <3>2. /\ m \in Files(d) /\ m.ident = l.ident /\ m.tail = t /\ m.last = x /\ m.lines = l.lines
          /\ Extends(l, m)
      <4>1. m = CutLine(l, t, x) /\ l \in Files(d)
        BY <1>2, <1>9 DEF CutLine
      <4> HIDE DEF x, m, l
      <4>2. QED
        BY ONLY <3>1, <4>1, LedgerTail
    <3>3. ledger' = [ledger EXCEPT ![d] = m]
      BY <2>1, <2>3
    <3> HIDE DEF m
    <3>4. m.tail = 2 => m.last = ForeignRecord(d, Len(m.lines) + 1)
      BY <3>2
    <3>5. QED
      BY <1>7, <1>9, <3>2, <3>3, <3>4
  <2>4. QED
    BY <2>2, <2>3
<1>10. CASE l # NoFile /\ \E lines \in texts : ledger' = [ledger EXCEPT ![d] = NewLedger(next, lines)]
  <2>1. PICK lines \in texts : ledger' = [ledger EXCEPT ![d] = NewLedger(next, lines)]
    BY <1>10
  <2>2. CASE k > 1 /\ lines = Tail(l.lines)
    <3>1. next \in Nat
      BY <1>2
    <3>2. lines \in Seq(Lines(d)) /\ (d = Own => UniqueLines(NewLedger(next, lines)))
      BY <1>2, <1>10, <2>2, <3>1, TailUnique
    <3>3. QED
      BY <1>6, <2>1, <3>2
  <2>3. CASE d # Own /\ lines = <<ForeignRecord(d, n + 1)>>
    <3>1. n + 1 \in Nat
      BY <1>5, <1>10
    <3> DEFINE x == ForeignRecord(d, n + 1)
    <3>2. x \in Lines(d)
      BY <3>1, ForeignIs
    <3> HIDE DEF x
    <3>3. <<x>> \in Seq(Lines(d))
      BY <3>2
    <3>4. lines \in Seq(Lines(d))
      BY <2>3, <3>3 DEF x
    <3>5. QED
      BY <1>6, <2>1, <2>3, <3>4
  <2>4. QED
    BY <1>5, <1>10, <2>2, <2>3 DEF texts
<1>11. CASE l # NoFile /\ ledger' = [ledger EXCEPT ![d] = [l EXCEPT !.away = ~@]]
  <2> DEFINE b == ~l.away
             m == [l EXCEPT !.away = b]
  <2>1. l \in Files(d) /\ b \in BOOLEAN
    BY <1>2, <1>11
  <2>2. ledger' = [ledger EXCEPT ![d] = m]
    BY <1>11
  <2> HIDE DEF b
  <2>3. /\ m \in Files(d) /\ m.ident = l.ident /\ m.tail = l.tail /\ m.last = l.last /\ m.lines = l.lines
        /\ LinesOf(m) = LinesOf(l) /\ Extends(l, m)
    BY <2>1, LedgerAway
  <2> HIDE DEF m
  <2>4. d = Own => UniqueLines(m)
    BY <1>2, <1>11, <2>3 DEF UniqueLines
  <2>5. d # Own /\ m.tail = 2 => m.last = ForeignRecord(d, Len(m.lines) + 1)
    BY <1>2, <1>11, <2>3
  <2>6. QED
    BY <1>7, <1>11, <2>2, <2>3, <2>4, <2>5
<1>12. CASE l # NoFile /\ ledger' = [ledger EXCEPT ![d] = NoFile]
  BY <1>1, <1>3, <1>4, <1>12, CloudStep
<1>13. QED
  BY <1>1, <1>8, <1>9, <1>10, <1>11, <1>12, Zenon

LEMMA EnvironmentStep ==
  ASSUME UsageInv, Environment
  PROVE  UsageInv'
BY WriteLogStep, DeleteLogStep, MoveLogStep, CountMeterStep, CloudChangeStep DEF Environment

LEMMA HostStepKept ==
  ASSUME OneHost, UsageInv, NEW h \in Hosts, Step(h)
  PROVE  UsageInv'
<1>1. CASE \E kind \in {"window", "full", "rebuild"} : Start(h, kind)
  BY <1>1, StartStep
<1>2. CASE Needs(h) \/ ListRoot(h) \/ Prune(h) \/ ReadLog(h) \/ StoreLog(h)
  BY <1>2, NeedsStep, ListRootStep, PruneStep, ReadLogStep, StoreLogStep
<1>3. CASE ReadMeter(h) \/ ApplyMeter(h) \/ Overlap(h)
  BY <1>3, ReadMeterStep, ApplyMeterStep, OverlapStep
<1>4. CASE PrepareExport(h) \/ WriteLedger(h) \/ SwapLedger(h) \/ FailExport(h) \/ ForgetLedger(h)
  BY <1>4, PrepareExportStep, WriteLedgerStep, SwapLedgerStep, FailExportStep, ForgetLedgerStep
<1>5. CASE ListLedgers(h) \/ StatLedger(h) \/ ReadLedger(h) \/ Collect(h)
  BY <1>5, ListLedgersStep, StatLedgerStep, ReadLedgerStep, CollectStep
<1>6. CASE Finish(h) \/ Abort(h)
  BY <1>6, FinishStep, AbortStep
<1>7. QED
  BY <1>1, <1>2, <1>3, <1>4, <1>5, <1>6 DEF Step

-----------------------------------------------------------------------------
(***************************************************************************)
(* The initial states.                                                     *)
(***************************************************************************)
\* No scan runs yet.
InitHosts ==
    /\ meter = [s \in Meters |-> 0] /\ spent = meter
    /\ host = [h \in Hosts |-> Idle] /\ disturbed = {}
    /\ used = [idents |-> 1, scans |-> 0, changes |-> 0, errors |-> 0]

LEMMA InitHostsFacts ==
  ASSUME InitHosts, CacheInv, LedgerInv, CoherentInv,
         DOMAIN logs = LogPaths, \A p \in LogPaths : logs[p] = NoFile \/ logs[p] \in LogStates
  PROVE  UsageInv
<1>1. \A h \in Hosts : host[h] = Idle
  BY DEF InitHosts
<1>2. HostTypes /\ ScanInv
  BY <1>1, IdleIs DEF InitHosts, HostTypes, ScanInv, ScanSteps
<1>3. HintsInv /\ ExportInv /\ StatInv /\ ImportInv /\ ShownInv
  BY <1>1, IdleIs DEF HintsInv, Told, ExportInv, Exported, StatInv, Tailing, ImportInv, Imported, ShownInv, Alone, At
<1>4. WorldInv
  <2>1. /\ meter \in [Meters -> Nat] /\ spent \in [Meters -> Nat] /\ \A s \in Meters : meter[s] <= spent[s]
    BY DEF InitHosts
  <2>2. disturbed \subseteq Active
    BY DEF InitHosts
  <2>3. QED
    BY <2>1, <2>2 DEF WorldInv, Present, LogStates
<1>5. QED
  BY <1>2, <1>3, <1>4 DEF UsageInv

LEMMA NoLogsIs == DOMAIN NoLogs = LogPaths /\ \A p \in LogPaths : NoLogs[p] = NoFile
BY DEF NoLogs

LEMMA OneLineIs ==
  ASSUME NEW path \in LogPaths
  PROVE  /\ DOMAIN OneLine(path) = LogPaths
         /\ \A p \in LogPaths : OneLine(path)[p] = NoFile \/ OneLine(path)[p] \in LogStates
<1> DEFINE f == [n |-> 1, tail |-> 0, recent |-> FALSE]
<1>1. f \in LogStates
  BY MaxLinesIs DEF LogStates
<1>2. OneLine(path) = [NoLogs EXCEPT ![path] = f]
  BY DEF OneLine
<1> HIDE DEF f
<1>3. QED
  BY <1>1, <1>2, NoLogsIs

LEMMA NoLedgersIs ==
  ASSUME InitHosts, ledger = NoLedgers
  PROVE  LedgerInv
<1>1. DOMAIN ledger = Ledgers /\ \A d \in Ledgers : ledger[d] = NoFile
  BY DEF NoLedgers
<1>2. used \in [idents : Nat, scans : Nat, changes : Nat, errors : Nat]
  BY DEF InitHosts
<1>3. Own \in Ledgers
  BY UsageAssumption DEF Own
<1>4. QED
  BY <1>1, <1>2, <1>3 DEF LedgerInv

LEMMA OneRecordIs ==
  ASSUME InitHosts, NEW r \in Recs(Own), ledger = OneRecord(r)
  PROVE  /\ LedgerInv
         /\ \A d \in Ledgers : ledger[d] # NoFile => d = Own
         /\ ledger[Own] \in Files(Own) /\ ledger[Own].ident = 1 /\ LinesOf(ledger[Own]) = <<r>>
         /\ Size(ledger[Own]) = Width
<1> DEFINE one   == 1
           lines == <<r>>
           m     == NewLedger(one, lines)
<1>1. one \in Nat /\ lines \in Seq(Lines(Own))
  BY DEF Lines
<1>2. Len(lines) = 1 /\ DOMAIN lines = {1} /\ lines[1] = r
  OBVIOUS
<1>3. ledger = [NoLedgers EXCEPT ![Own] = m] /\ one = 1
  BY DEF OneRecord
<1> HIDE DEF one, lines
<1>4. m \in Files(Own) /\ m.ident = one /\ m.lines = lines /\ m.tail = 0 /\ LinesOf(m) = lines
  BY <1>1, NewLedgerFacts
<1> HIDE DEF m
<1>5. Size(m) = Width
  <2>1. Len(m.lines) = 1 /\ m.tail = 0
    BY <1>2, <1>4
  <2>2. QED
    BY <2>1 DEF Size, Width
<1>6. Own \in Ledgers
  BY UsageAssumption DEF Own
<1>7. DOMAIN ledger = Ledgers /\ ledger[Own] = m /\ \A d \in Ledgers : d # Own => ledger[d] = NoFile
  BY <1>3, <1>6 DEF NoLedgers
<1>8. used \in [idents : Nat, scans : Nat, changes : Nat, errors : Nat] /\ used.idents = 1
  BY DEF InitHosts
<1>9. UniqueLines(m)
  BY <1>2, <1>4 DEF UniqueLines
<1>10. m.ident \in 1..used.idents
  BY <1>3, <1>4, <1>8
<1>11. LedgerInv
  BY <1>4, <1>7, <1>8, <1>9, <1>10 DEF LedgerInv
<1>12. QED
  BY <1>3, <1>4, <1>5, <1>7, <1>11 DEF lines

LEMMA FreshInit ==
  ASSUME InitHosts, Fresh
  PROVE  UsageInv
<1>1. CacheInv
  BY EmptyCached DEF Fresh, CacheInv
<1>2. LedgerInv
  BY NoLedgersIs DEF Fresh
<1>3. CoherentInv
  <2>1. cache.origins["sync"] = {}
    BY DEF Fresh, EmptyCache, OriginKinds
  <2>2. \A d \in Ledgers : OriginFile(cache, "sync", d) = {}
    BY <2>1 DEF OriginFile
  <2>3. QED
    BY <2>1, <2>2 DEF CoherentInv
<1>4. QED
  BY <1>1, <1>2, <1>3, NoLogsIs, InitHostsFacts DEF Fresh

LEMMA UpgradedInit ==
  ASSUME InitHosts, NEW n \in Names, Upgraded(n)
  PROVE  UsageInv
<1> DEFINE path == <<"sessions", n>>
           old  == LegacyEvent(path, 1)
           o    == Origin(Snap(path, "device"), OldVersion, FALSE)
           row  == Row(path, old)
<1>1. PICK root \in {"sessions", "archive"} : logs = OneLine(<<root, n>>)
  BY DEF Upgraded
<1>2. cache = [EmptyCache EXCEPT !.origins["log"] = {o}, !.rows["log"] = {row}]
  BY DEF Upgraded
<1>3. PICK v \in {1, Schema, Schema + 1} : ledger = OneRecord([SyncRecord(old) EXCEPT !.ver = v])
  BY DEF Upgraded
<1>4. path \in LogPaths /\ <<root, n>> \in LogPaths
  BY DEF LogPaths
<1>5. /\ old \in Events /\ OfPath(old, path)
  <2>1. old = [dev |-> Own, id |-> <<"old", n, 1>>, at |-> 1, use |-> 1, local |-> TRUE]
    <3>1. path[1] = "sessions" /\ path[2] = n
      OBVIOUS
    <3>2. path[1] # "claude"
      BY <3>1
    <3> HIDE DEF path
    <3>3. LogEvent(path, 1) = [dev |-> Own, id |-> <<"log", n, 1>>, at |-> 1, use |-> 1, local |-> TRUE]
      BY <3>1, <3>2 DEF LogEvent
    <3> DEFINE g == LogEvent(path, 1)
               x == <<"old", n, 1>>
    <3>4. old = [g EXCEPT !.id = x]
      BY <3>1 DEF LegacyEvent
    <3>5. g = [dev |-> Own, id |-> <<"log", n, 1>>, at |-> 1, use |-> 1, local |-> TRUE]
      BY <3>3
    <3> HIDE DEF g, x
    <3>6. old = [dev |-> Own, id |-> x, at |-> 1, use |-> 1, local |-> TRUE]
      BY ONLY <3>4, <3>5
    <3>7. QED
      BY <3>6 DEF x
  <2>2. <<"old", n, 1>> \in Ids
    BY DEF Ids
  <2> HIDE DEF old
  <2>3. QED
    BY <2>1, <2>2 DEF Events, OfPath
<1>6. o \in Origins(LogPaths, {"device"})
  BY <1>4 DEF Origin, Snap, Origins, Width
<1> HIDE DEF old, path
<1>7. row \in Rows(path, Own) /\ row.path = path /\ OfPath(row, path)
  BY <1>5, RowOfEvent
<1> HIDE DEF o, row
<1>8. LogsCached({o}, {row})
  BY <1>4, <1>6, <1>7, FS_Singleton DEF LogsCached, OneEach
<1>9. /\ DOMAIN cache = {"origins", "rows", "checks"}
      /\ DOMAIN cache.origins = OriginKinds /\ DOMAIN cache.rows = OriginKinds
      /\ cache.origins["log"] = {o} /\ cache.rows["log"] = {row}
      /\ cache.origins["sync"] = {} /\ cache.rows["sync"] = {}
      /\ cache.origins["hermes"] = {} /\ cache.rows["hermes"] = {} /\ cache.checks = {}
  BY <1>2 DEF EmptyCache, OriginKinds
<1>10. CacheInv
  <2>1. LedgersCached(cache.origins["sync"], cache.rows["sync"])
    BY <1>9 DEF LedgersCached, OneEach
  <2>2. MetersCached(cache.origins["hermes"], cache.rows["hermes"], cache.checks)
    BY <1>9, FS_EmptySet DEF MetersCached, OneEach
  <2>3. QED
    BY <1>8, <1>9, <2>1, <2>2 DEF CacheInv, Cached
<1>11. CoherentInv
  <2>1. \A d \in Ledgers : OriginFile(cache, "sync", d) = {}
    BY <1>9 DEF OriginFile
  <2>2. QED
    BY <1>9, <2>1 DEF CoherentInv
<1>12. LedgerInv
  <2> DEFINE r == [SyncRecord(old) EXCEPT !.ver = v]
  <2>1. r \in Recs(Own)
    BY <1>5 DEF Events, SyncRecord, Recs, Schema
  <2>2. ledger = OneRecord(r)
    BY <1>3
  <2> HIDE DEF r
  <2>3. QED
    BY <2>1, <2>2, OneRecordIs
<1>13. QED
  BY <1>1, <1>4, <1>10, <1>11, <1>12, OneLineIs, InitHostsFacts

LEMMA SettledInit ==
  ASSUME InitHosts, NEW p \in LogPaths, Settled(p)
  PROVE  UsageInv
<1> DEFINE e    == LogEvent(p, 1)
           rec  == SyncRecord(e)
           err  == FALSE
           snap == [path |-> p, size |-> Width, who |-> "device", recent |-> FALSE]
           own  == Snap(Own, <<"v2", 1>>)
           recs == {rec}
           first == ReplaceEvents(EmptyCache, "log", snap, {e}, err)
           o    == LedgerOrigin(own)
           row  == Row(Own, rec)
<1>1. logs = OneLine(p) /\ ledger = OneRecord(rec)
  BY DEF Settled
<1>2. cache = ReplaceLedger(first, own, recs) /\ err \in BOOLEAN
  BY DEF Settled, ReplaceLedger, ReplaceEvents, Origin, Snap
<1>3. e \in Events /\ OfPath(e, p)
  <2>1. e = [dev |-> Own, id |-> <<"log", p[2], 1>>, at |-> 1, use |-> 1, local |-> TRUE]
    BY DEF LogEvent
  <2>2. <<"log", p[2], 1>> \in Ids
    BY DEF LogPaths, Ids
  <2> HIDE DEF e
  <2>3. QED
    BY <2>1, <2>2 DEF Events, OfPath
<1>4. snap \in Snaps /\ snap.path = p
  BY DEF Snaps, Width
<1> HIDE DEF e
<1>5. LogEvents(snap.path, {e})
  BY <1>3, <1>4, FS_Singleton DEF LogEvents, Unique
<1>6. rec \in Recs(Own) /\ rec.ver = Schema
  BY <1>3 DEF Events, SyncRecord, Recs, Schema
<1> HIDE DEF rec, snap, err
<1>7. Cached(first) /\ SyncKept(EmptyCache, first)
  BY <1>2, <1>4, <1>5, EmptyCached, LogReplaced
<1>8. LedgerRecords(Own, own, recs)
  BY <1>6, UsageAssumption DEF LedgerRecords, Unique, Snap, Width, Own
<1> HIDE DEF first, own, recs
<1>9. /\ Cached(cache)
      /\ cache.origins["sync"] = Elsewhere(first.origins["sync"], Own) \cup {o}
      /\ cache.rows["sync"] = Elsewhere(first.rows["sync"], Own) \cup NewRows(Own, recs)
  BY <1>2, <1>7, <1>8, LedgerReplaced
<1>10. cache.origins["sync"] = {o} /\ cache.rows["sync"] = {row}
  <2>1. first.origins["sync"] = {} /\ first.rows["sync"] = {}
    BY <1>7 DEF SyncKept, EmptyCache, OriginKinds
  <2> HIDE DEF o
  <2>2. QED
    BY <1>9, <2>1 DEF Elsewhere, NewRows, recs
<1>11. o.path = Own /\ o.size = Width /\ o.who[2] = 1 /\ o.ver = Version /\ ~o.err
  BY DEF LedgerOrigin, own, Snap, Origin
<1>12. row.path = Own /\ row.dev = rec.dev /\ row.id = rec.id
  BY DEF Row
<1> HIDE DEF o, row
<1>13. /\ LedgerInv
       /\ \A d \in Ledgers : ledger[d] # NoFile => d = Own
       /\ ledger[Own] \in Files(Own) /\ ledger[Own].ident = 1 /\ LinesOf(ledger[Own]) = <<rec>>
       /\ Size(ledger[Own]) = Width
  BY <1>1, <1>6, OneRecordIs
<1>14. EventsForOrigin(cache, "sync", Own) = {row}
  BY <1>10, <1>12 DEF EventsForOrigin
<1>15. Covers(ledger[Own], Size(ledger[Own]), {row})
  <2>1. CoversAll(ledger[Own], {row})
    <3>1. DOMAIN <<rec>> = {1} /\ <<rec>>[1] = rec
      OBVIOUS
    <3>2. QED
      BY <1>6, <1>12, <1>13, <3>1 DEF CoversAll, Readable, SameKey
  <2>2. QED
    BY <1>13, <2>1, CoversAllIs
<1>16. CoherentInv
  <2>1. used.idents = 1
    BY DEF InitHosts
  <2>2. QED
    BY <1>10, <1>11, <1>13, <1>14, <1>15, <2>1 DEF CoherentInv, OriginFile
<1>17. QED
  BY <1>1, <1>9, <1>13, <1>16, OneLineIs, InitHostsFacts DEF CacheInv

LEMMA InitKept ==
  ASSUME Init
  PROVE  UsageInv
<1>1. InitHosts
  BY DEF Init, InitHosts
<1>2. QED
  BY <1>1, FreshInit, UpgradedInit, SettledInit DEF Init

-----------------------------------------------------------------------------
(***************************************************************************)
(* The theorems.                                                           *)
(***************************************************************************)
\* With one instance of the application the invariant holds in every state: the
\* cache agrees with the files it was filled from, what the writer of the ledger
\* is told of it is true, and what a scan that nothing disturbed has exported and
\* imported is what the ledgers hold.
THEOREM UsageInductive ==
  ASSUME OneHost
  PROVE  Spec => []UsageInv
<1>1. Init => UsageInv
  BY InitKept
<1>2. UsageInv /\ [Next]_vars => UsageInv'
  <2>1. SUFFICES ASSUME UsageInv, [Next]_vars PROVE UsageInv'
    OBVIOUS
  <2>2. CASE Environment
    BY <2>1, <2>2, EnvironmentStep
  <2>3. ASSUME NEW h \in Hosts, Step(h)
        PROVE  UsageInv'
    BY <2>1, <2>3, HostStepKept
  <2>4. CASE UNCHANGED vars
    <3>1. /\ cache' = cache /\ logs' = logs /\ meter' = meter /\ spent' = spent
          /\ ledger' = ledger /\ host' = host /\ disturbed' = disturbed /\ used' = used
      BY <2>4 DEF vars
    <3>2. CacheInv' /\ WorldInv' /\ HostTypes' /\ ScanInv'
      BY <2>1, <3>1 DEF UsageInv, CacheInv, WorldInv, HostTypes, ScanInv, Active, Present
    <3>3. LedgerInv' /\ CoherentInv'
      BY <2>1, <3>1 DEF UsageInv, LedgerInv, CoherentInv, SameFile
    <3>4. HintsInv' /\ StatInv'
      BY <2>1, <3>1 DEF UsageInv, HintsInv, Told, StatInv, Tailing
    <3>5. ExportInv' /\ ImportInv'
      BY <2>1, <3>1 DEF UsageInv, ExportInv, Exported, Holds, ImportInv, Imported, SameFile
    <3>6. ShownInv'
      BY <2>1, <3>1 DEF UsageInv, ShownInv, Alone, At, Shown
    <3>7. QED
      BY <3>2, <3>3, <3>4, <3>5, <3>6 DEF UsageInv
  <2>5. QED
    BY <2>1, <2>2, <2>3, <2>4 DEF Next
<1>3. QED
  BY <1>1, <1>2, PTL DEF Spec

\* The lines of a ledger are read back from its start.
LEMMA ReadBack ==
  ASSUME NEW d, NEW l \in Files(d), NEW i \in DOMAIN LinesOf(l), Readable(LinesOf(l)[i].ver)
  PROVE  \E r \in ReadFrom(l, 0).recs : SameKey(r, LinesOf(l)[i])
<1> DEFINE off == 0
           read == ReadFrom(l, off)
<1>1. off \in Nat /\ Covered(off) + 1 = 1
  BY CoveredZero
<1>2. read.recs = ReadFrom(l, 0).recs
  OBVIOUS
<1> HIDE DEF off
<1>3. \A j \in (Covered(off) + 1)..Len(LinesOf(l)) :
         Readable(LinesOf(l)[j].ver) => \E r \in read.recs : SameKey(r, LinesOf(l)[j])
  BY <1>1, ReadFacts
<1> HIDE DEF read
<1>4. DOMAIN LinesOf(l) = 1..Len(LinesOf(l))
  BY LineFacts
<1>5. QED
  BY <1>1, <1>2, <1>3, <1>4

LEMMA OwnIs == Own \in Ledgers
BY UsageAssumption DEF Own

\* The cache and the own ledger hold what they hold once: one row for each key of
\* an origin, one checkpoint for each Hermes session, one line for each event.
THEOREM StoresSoundHolds ==
  ASSUME OneHost
  PROVE  Spec => []StoresSound
<1>1. ASSUME UsageInv
      PROVE  StoresSound
  <2>1. ASSUME NEW k \in OriginKinds
        PROVE  /\ \A o \in cache.origins[k] : o.ver \in {OldVersion, Version} /\ o.size >= 0
               /\ \A x, y \in cache.origins[k] : x.path = y.path => x = y
               /\ \A x, y \in cache.rows[k] : x.path = y.path /\ x.dev = y.dev /\ x.id = y.id => x = y
    <3>1. CASE k = "log"
      BY <1>1, <3>1 DEF UsageInv, CacheInv, Cached, LogsCached, OneEach, SameKey, Origins
    <3>2. CASE k = "sync"
      BY <1>1, <3>2 DEF UsageInv, CacheInv, Cached, LedgersCached, OneEach, SameKey, Origins
    <3>3. CASE k = "hermes"
      BY <1>1, <3>3 DEF UsageInv, CacheInv, Cached, MetersCached, OneEach, SameKey
    <3>4. QED
      BY <3>1, <3>2, <3>3 DEF OriginKinds
  <2>2. \A x, y \in cache.checks : x.session = y.session => x = y
    BY <1>1 DEF UsageInv, CacheInv, Cached, MetersCached
  <2>3. /\ \A p \in LogPaths : Present(p) => logs[p].n \in 0..MaxLines /\ logs[p].tail \in 0..2
        /\ \A s \in Meters : meter[s] \in 0..spent[s]
        /\ disturbed \subseteq Active
    BY <1>1 DEF UsageInv, WorldInv
  <2>4. \A d \in Ledgers : ledger[d] # NoFile => ledger[d].ident <= used.idents
    BY <1>1 DEF UsageInv, LedgerInv
  <2>5. ASSUME NEW h \in Hosts
        PROVE  /\ Cardinality(host[h].pending) = IF At(h, "store") THEN 1 ELSE 0
               /\ Cardinality(host[h].stat) = IF At(h, "read") THEN 1 ELSE 0
               /\ host[h].hints # {} => ~(host[h].pc \in {"idle", "done"})
    <3>1. \A x : Cardinality({x}) = 1
      BY FS_Singleton
    <3>2. Cardinality({}) = 0
      BY FS_EmptySet
    <3>3. Local(host[h])
      BY <1>1 DEF UsageInv, ScanInv
    <3>4. Cardinality(host[h].pending) = IF At(h, "store") THEN 1 ELSE 0
      <4>1. CASE host[h].pc = "store"
        <5>1. PICK p : host[h].pending = {p}
          BY <3>3, <4>1 DEF Local, Planned
        <5>2. QED
          BY <3>1, <4>1, <5>1 DEF At
      <4>2. CASE host[h].pc # "store"
        BY <3>2, <3>3, <4>2 DEF At, Local, Planned
      <4>3. QED
        BY <4>1, <4>2
    <3>5. Cardinality(host[h].stat) = IF At(h, "read") THEN 1 ELSE 0
      <4>1. CASE host[h].pc = "read"
        <5>1. PICK r : host[h].stat = {r}
          BY <3>3, <4>1 DEF Local, Importing
        <5>2. QED
          BY <3>1, <4>1, <5>1 DEF At
      <4>2. CASE host[h].pc # "read"
        BY <3>2, <3>3, <4>2 DEF At, Local, Importing
      <4>3. QED
        BY <4>1, <4>2
    <3>6. QED
      BY <3>3, <3>4, <3>5 DEF Local
  <2>6. TypeOK
    BY <2>1, <2>2, <2>3, <2>4, <2>5 DEF TypeOK
  <2>7. LedgerUnique
    <3> DEFINE l == ledger[Own]
    <3>1. SUFFICES ASSUME l # NoFile, NEW i \in DOMAIN l.lines, NEW j \in DOMAIN l.lines,
                          l.lines[i] # Bad, l.lines[j] # Bad, SameKey(l.lines[i], l.lines[j])
                   PROVE  i = j
      BY DEF LedgerUnique
    <3>2. l \in Files(Own) /\ UniqueLines(l)
      BY <1>1, <3>1, OwnIs DEF UsageInv, LedgerInv
    <3>3. /\ DOMAIN LinesOf(l) = 1..Len(LinesOf(l)) /\ Len(l.lines) \in Nat
          /\ Len(LinesOf(l)) = Len(l.lines) \/ Len(LinesOf(l)) = Len(l.lines) + 1
          /\ \A k \in 1..Len(l.lines) : LinesOf(l)[k] = l.lines[k]
          /\ DOMAIN l.lines = 1..Len(l.lines)
      <4>1. l.lines \in Seq(Lines(Own))
        BY <3>2, LineFacts
      <4>2. DOMAIN l.lines = 1..Len(l.lines)
        BY <4>1
      <4>3. QED
        BY <3>2, <4>2, LineFacts
    <3> HIDE DEF l
    <3>4. \A k \in DOMAIN l.lines : k \in DOMAIN LinesOf(l) /\ LinesOf(l)[k] = l.lines[k]
      <4> DEFINE n == Len(l.lines)
                 m == Len(LinesOf(l))
      <4>1. DOMAIN LinesOf(l) = 1..m /\ DOMAIN l.lines = 1..n /\ n \in Nat /\ (m = n \/ m = n + 1)
        BY <3>3
      <4> HIDE DEF n, m
      <4>2. \A k \in DOMAIN l.lines : k \in DOMAIN LinesOf(l)
        BY <4>1
      <4>3. QED
        BY <3>3, <4>2
    <3>5. l.lines[i].ver # 0 /\ l.lines[j].ver # 0
      BY <3>1, <3>2, <3>4, LineIs
    <3>6. QED
      BY <3>1, <3>2, <3>4, <3>5 DEF UniqueLines
  <2>8. QED
    BY <2>6, <2>7 DEF StoresSound
<1>2. Spec => []UsageInv
  BY UsageInductive
<1>3. QED
  BY <1>1, <1>2, PTL

\* After a scan that nothing disturbed and whose export did not fail, the ledger
\* of this device holds every event shown that was read on it, although the
\* writer may have trusted the cache for what the ledger held.
THEOREM ExportCompleteHolds ==
  ASSUME OneHost
  PROVE  Spec => []ExportComplete
<1>1. ASSUME UsageInv
      PROVE  ExportComplete
  <2>1. SUFFICES ASSUME NEW h \in Hosts, Alone(h), host[h].ok, host[h].exported,
                        NEW e \in Shown(h), e.local
                 PROVE  \E r \in ReadFrom(ledger[Own], 0).recs : SameKey(r, e)
    BY DEF ExportComplete
  <2>2. Holds(ledger[Own], e)
    BY <1>1, <2>1 DEF UsageInv, ExportInv, Exported, Alone, At, Shown
  <2>3. ledger[Own] \in Files(Own)
    BY <1>1, <2>2, OwnIs DEF UsageInv, LedgerInv, Holds
  <2>4. PICK i \in DOMAIN LinesOf(ledger[Own]) :
            Readable(LinesOf(ledger[Own])[i].ver) /\ SameKey(e, LinesOf(ledger[Own])[i])
    BY <2>2 DEF Holds
  <2>5. PICK r \in ReadFrom(ledger[Own], 0).recs : SameKey(r, LinesOf(ledger[Own])[i])
    BY <2>3, <2>4, ReadBack
  <2>6. QED
    BY <2>4, <2>5 DEF SameKey
<1>2. Spec => []UsageInv
  BY UsageInductive
<1>3. QED
  BY <1>1, <1>2, PTL

\* Of the ledgers of other devices a scan that nothing disturbed shows exactly what
\* they hold, and nothing of those it counts as unreadable; before any scan nothing
\* is shown that they do not hold now.
THEOREM ImportExactHolds ==
  ASSUME OneHost
  PROVE  Spec => []ImportExact
<1>1. ASSUME UsageInv
      PROVE  ImportExact
  <2>1. ASSUME NEW d \in Ledgers \ {Own}, ledger[d] # NoFile, NEW h \in Hosts, Alone(h), ~ledger[d].away
        PROVE  {x.id : x \in {e \in Shown(h) : e.dev = d}} =
                   IF d \in host[h].failed THEN {} ELSE {r.id : r \in ReadFrom(ledger[d], 0).recs}
    BY <1>1, <2>1 DEF UsageInv, ShownInv, Idents
  <2>2. ASSUME NEW d \in Ledgers \ {Own}, ledger[d] # NoFile, NEW x \in CachedOutcome, x.dev = d
        PROVE  \E r \in ReadFrom(ledger[d], 0).recs : r.id = x.id
    <3> DEFINE l == ledger[d]
               K == EventsForOrigin(cache, "sync", d)
    <3>1. /\ x \in cache.rows["sync"]
          /\ \E o \in Known(x.path) : SameFile(o, ledger[x.path]) /\ o.size <= Size(ledger[x.path])
      BY <2>2 DEF CachedOutcome, SyncEvents
    <3>2. x.path = d
      <4>1. x \in Rows(x.path, x.path)
        BY <1>1, <3>1 DEF UsageInv, CacheInv, Cached, LedgersCached
      <4>2. QED
        BY <2>2, <4>1 DEF Rows
    <3>3. PICK o \in OriginFile(cache, "sync", d) : SameFile(o, l)
      BY <3>1, <3>2 DEF Known
    <3>4. Covers(l, o.size, K) /\ l \in Files(d)
      BY <1>1, <2>2, <3>3 DEF UsageInv, CoherentInv, LedgerInv
    <3>5. x \in K
      BY <3>1, <3>2 DEF EventsForOrigin
    <3> HIDE DEF l, K
    <3>6. PICK i \in 1..Covered(o.size) : SameKey(x, LinesOf(l)[i])
      BY <3>4, <3>5 DEF Covers
    <3>7. Readable(LinesOf(l)[i].ver)
      BY <3>4, <3>6 DEF Covers, ReadUpTo
    <3>8. i \in DOMAIN LinesOf(l)
      BY <3>4, <3>6, ExtendsSelf, StillRead DEF Covers
    <3>9. PICK r \in ReadFrom(l, 0).recs : SameKey(r, LinesOf(l)[i])
      BY <3>4, <3>7, <3>8, ReadBack
    <3>10. QED
      BY <3>6, <3>9 DEF SameKey, l
  <2>3. QED
    BY <2>1, <2>2 DEF ImportExact
<1>2. Spec => []UsageInv
  BY UsageInductive
<1>3. QED
  BY <1>1, <1>2, PTL

=============================================================================
