----------------------------- MODULE SyncLedger -----------------------------
(***************************************************************************)
(* A ledger of the sync folder (token-meter-core/src/sync.rs): one file of *)
(* JSON lines per device, which only its device writes, under a lock that  *)
(* every instance on that device shares.  A cloud service carries the      *)
(* files between devices and may replace or evict them.                    *)
(*                                                                         *)
(* A line is a record with its schema version, or Bad.  Every line is      *)
(* Width bytes long, and a file may end in a cut line (tail 1: not yet     *)
(* JSON, tail 2: complete JSON without its newline), so that sizes and     *)
(* offsets compare the way they do in the code.                            *)
(***************************************************************************)
EXTENDS Integers, Sequences, SequencesExt

CONSTANT NoFile

Width  == 3
Schema == 2
Bad    == [ver |-> 0]

\* A file: its identity, whole lines, tail, the line the tail is part of, and
\* whether its content is only in the cloud.
NewLedger(ident, lines) ==
    [ident |-> ident, lines |-> lines, tail |-> 0, last |-> Bad, away |-> FALSE]

Size(l) == Width * Len(l.lines) + l.tail

\* What a reader sees: a complete last line counts without its newline.
LinesOf(l) == IF l.tail = 0 THEN l.lines
              ELSE Append(l.lines, IF l.tail = 1 THEN Bad ELSE l.last)

SameKey(x, y) == x.dev = y.dev /\ x.id = y.id

(***************************************************************************)
(* Reading from an offset.  The offset must be at the start of a line: the *)
(* byte there is the newline a cut line has got since, or the byte before  *)
(* it is a newline.  Of several records with one key the first counts.     *)
(***************************************************************************)
StartsLine(l, offset) ==
    /\ offset <= Size(l)
    /\ offset % Width = 0 \/ (offset % Width = 2 /\ offset < Size(l))

\* Mutant: a complete last line without its newline is not read.
ReadWholeLines(l, offset) ==
    LET from == offset \div Width + IF offset % Width = 0 THEN 1 ELSE 2
        good == {i \in from..Len(l.lines) : l.lines[i].ver \in {1, Schema}}
    IN  [recs |-> {l.lines[i] : i \in good}, bad |-> FALSE, size |-> Size(l), ident |-> l.ident]

ReadFrom(l, offset) ==
    LET lines == LinesOf(l)
        from  == offset \div Width + IF offset % Width = 0 THEN 1 ELSE 2
        good  == {i \in from..Len(lines) : lines[i].ver \in {1, Schema}}
        first == {i \in good : ~\E j \in good : j < i /\ SameKey(lines[i], lines[j])}
    IN  [recs  |-> {lines[i] : i \in first},
         bad   |-> \E i \in from..Len(lines) : lines[i].ver \notin {1, Schema},
         size  |-> Size(l),
         ident |-> l.ident]

AllCurrent(read) == \A r \in read.recs : r.ver = Schema

\* A record of a later schema stops every write; one of schema 1 asks for a
\* rewrite of the whole ledger.
HasLaterSchema(l) == \E i \in DOMAIN LinesOf(l) : LinesOf(l)[i].ver > Schema
NeedsReplacement(l) == \E i \in DOMAIN LinesOf(l) : LinesOf(l)[i].ver = 1

\* What an append knows of the file beforehand: keys read from the cache count
\* only when size and identity of the file are those the cache has seen.
HintHolds(l, hint) == hint.size = Size(l) /\ hint.ident = l.ident

KnownKeys(l, hints) ==
    IF \E h \in hints : HintHolds(l, h)
    THEN UNION {h.keys : h \in {x \in hints : HintHolds(l, x)}}
    ELSE ReadFrom(l, 0).recs

NewRecords(l, recs, hints) ==
    IF l = NoFile THEN recs
    ELSE {r \in recs : ~\E k \in KnownKeys(l, hints) : SameKey(r, k)}

\* The order of the lines (time, then event) tells no property apart.
\* Mutant: the cut line is not ended, so the first record becomes part of it.
AppendUnended(l, new, ident) ==
    IF new = {} THEN l
    ELSE IF l = NoFile THEN NewLedger(ident, SetToSeq(new))
    ELSE [l EXCEPT !.lines = IF l.tail = 0 THEN @ \o SetToSeq(new)
                             ELSE Append(@, Bad) \o Tail(SetToSeq(new)),
                   !.tail = 0, !.last = Bad, !.away = FALSE]

AppendRecords(l, new, ident) ==
    IF new = {} THEN l
    ELSE IF l = NoFile THEN NewLedger(ident, SetToSeq(new))
    ELSE [l EXCEPT !.lines = LinesOf(l) \o SetToSeq(new), !.tail = 0, !.last = Bad, !.away = FALSE]

\* An append the process does not survive: some lines and part of the next.
CutAppend(base, seq, n, t) ==
    [base EXCEPT !.lines = LinesOf(base) \o SubSeq(seq, 1, n), !.tail = t,
                 !.last = IF t = 2 THEN seq[n + 1] ELSE Bad]

CutAppends(l, new, ident) ==
    LET base == IF l = NoFile THEN NewLedger(ident, <<>>) ELSE l
        seq  == SetToSeq(new)
    IN  {CutAppend(base, seq, n, t) : n \in 0..(Len(seq) - 1), t \in 0..2}

SyncRecord(e) == [ver |-> Schema, dev |-> e.dev, id |-> e.id, at |-> e.at, use |-> e.use]
=============================================================================
