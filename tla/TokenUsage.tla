----------------------------- MODULE TokenUsage -----------------------------
(***************************************************************************)
(* The token usage a scan shows: the local part (TokenScan), the export of *)
(* local events to the ledger of this device, the import of all ledgers of *)
(* the sync folder (token-meter-core/src/sync_store.rs), and the           *)
(* environment.                                                            *)
(***************************************************************************)
EXTENDS TokenScan

SetLedger(d, l) ==
    /\ ledger' = [ledger EXCEPT ![d] = l]
    /\ used' = [used EXCEPT !.idents = IF l # NoFile /\ l.ident > @ THEN l.ident ELSE @]

Records(s) == IF s.ok THEN {SyncRecord(e) : e \in s.events} ELSE {}
Replacing(s) == (s.kind = "rebuild" \/ s.force) /\ s.ok

\* Nothing to export: rows of the ledger that no longer match it are dropped.
\* Otherwise what the cache knows of the ledger may save reading it.
PrepareExport(h) ==
    LET s     == host[h]
        l     == ledger[Own]
    IN
    /\ At(h, "export")
    /\ \E fine \in BOOLEAN :
       LET known == IF l = NoFile \/ ~fine THEN {} ELSE CachedWriterState(l) IN
       /\ Works(fine)
       /\ IF Records(s) = {}
          THEN /\ cache' = IF l # NoFile /\ known = {} THEN RemoveOrigins(cache, "sync", {Own}) ELSE cache
               /\ Update(h, [pc |-> "import"])
          ELSE /\ UNCHANGED cache
               /\ Update(h, [pc |-> "write",
                             hints |-> {[size |-> o.size, ident |-> l.ident,
                                         keys |-> ExistingKeys(cache, Own, Records(s))] : o \in known}])
    /\ IF cache' = cache THEN UNCHANGED disturbed ELSE Disturbs(h)
    /\ UNCHANGED <<logs, meter, spent, ledger>>

\* The write, under the lock of the ledger: an append, or a new file that is
\* swapped in.  A ledger of a later schema is left alone.
Trusting(s) == ~Replacing(s) /\ s.hints # {}
HintStale(s, l) == l # NoFile /\ ~\E k \in s.hints : HintHolds(l, k)

Refused(s, l) ==
    /\ l # NoFile
    /\ IF Trusting(s) THEN HintStale(s, l) /\ (HasLaterSchema(l) \/ NeedsReplacement(l))
       ELSE HasLaterSchema(l)

Rewriting(s, l) == ~Trusting(s) /\ (Replacing(s) \/ (l # NoFile /\ NeedsReplacement(l)))

AfterWrite(s) == IF Trusting(s) THEN "import" ELSE "forget"

WriteLedger(h) ==
    LET s == host[h]
        l == ledger[Own]
    IN
    /\ At(h, "write") /\ LockFree(h)
    /\ \/ /\ Refused(s, l)
          /\ Update(h, [pc |-> "import", exported |-> FALSE])
          /\ UNCHANGED <<ledger, used, disturbed>>
       \/ /\ ~Refused(s, l) /\ Rewriting(s, l)
          /\ Update(h, [pc |-> "swap", expect |-> IF l = NoFile THEN 0 ELSE l.ident])
          /\ UNCHANGED <<ledger, used, disturbed>>
       \/ /\ ~Refused(s, l) /\ ~Rewriting(s, l)
          /\ SetLedger(Own, AppendRecords(l, NewRecords(l, Records(s), s.hints), used.idents + 1))
          /\ Update(h, [pc |-> AfterWrite(s)])
          /\ IF ledger' = ledger THEN UNCHANGED disturbed ELSE Disturbs(h)
    /\ UNCHANGED <<cache, logs, meter, spent>>

\* The new file takes the place of the file that was read, never of another.
SwapLedger(h) ==
    LET s  == host[h]
        l  == ledger[Own]
        is == IF l = NoFile THEN 0 ELSE l.ident
    IN
    /\ At(h, "swap")
    /\ IF is = s.expect
       THEN /\ SetLedger(Own, NewLedger(used.idents + 1, SetToSeq(Records(s))))
            /\ Update(h, [pc |-> "forget"])
            /\ Disturbs(h)
       ELSE /\ Update(h, [pc |-> "import", exported |-> FALSE])
            /\ UNCHANGED <<ledger, used, disturbed>>
    /\ UNCHANGED <<cache, logs, meter, spent>>

\* The write fails: nothing of it is left, or an append whole or in part, or the
\* new file is in place already.  The cache is not told, the import goes on.
FailExport(h) ==
    LET s    == host[h]
        l    == ledger[Own]
        next == used.idents + 1
        new  == NewRecords(l, Records(s), s.hints)
        left == IF At(h, "swap") THEN {NewLedger(next, SetToSeq(Records(s)))}
                ELSE IF new = {} \/ Refused(s, l) \/ Rewriting(s, l) THEN {}
                ELSE CutAppends(l, new, next) \cup {AppendRecords(l, new, next)}
    IN
    /\ s.pc \in {"write", "swap"} /\ LockFree(h) /\ used.errors < MaxErrors
    /\ Update(h, [pc |-> "import", exported |-> FALSE])
    /\ \/ /\ used' = [used EXCEPT !.errors = @ + 1]
          /\ UNCHANGED <<ledger, disturbed>>
       \/ /\ At(h, "swap") => s.expect = IF l = NoFile THEN 0 ELSE l.ident
          /\ \E m \in left :
                /\ ledger' = [ledger EXCEPT ![Own] = m]
                /\ used' = [used EXCEPT !.errors = @ + 1, !.idents = IF m.ident = next THEN next ELSE @]
          /\ Disturbs(h)
    /\ UNCHANGED <<cache, logs, meter, spent>>

\* What the cache holds of a ledger written without its help is stale.
ForgetLedger(h) ==
    /\ At(h, "forget")
    /\ cache' = RemoveOrigins(cache, "sync", {Own})
    /\ Update(h, [pc |-> "import"])
    /\ IF cache' = cache THEN UNCHANGED disturbed ELSE Disturbs(h)
    /\ UNCHANGED <<logs, meter, spent, ledger, used>>

-----------------------------------------------------------------------------
(***************************************************************************)
(* The import: the ledgers are listed, each is reconciled with its rows in *)
(* the cache, and the records come from the cache unless a ledger could    *)
(* not be cached.  A ledger that cannot be read is skipped and counted.    *)
(***************************************************************************)
ListLedgers(h) ==
    LET found == {d \in Ledgers : ledger[d] # NoFile} IN
    /\ At(h, "import")
    /\ \/ Works(TRUE) /\ Update(h, [pc |-> "stat", ledgers |-> found, paths |-> found])
       \/ Works(FALSE) /\ Update(h, [pc |-> "done", hints |-> {}, failed |-> Ledgers])
    /\ UNCHANGED <<cache, logs, meter, spent, ledger, disturbed>>

\* Mutant: a ledger is known by its size alone.
AnyFile(o, l) == TRUE

SameFile(o, l) == o.who[2] = l.ident

Known(d) == {o \in OriginFile(cache, "sync", d) : o.ver = Version}

\* A ledger that is only in the cloud is known as far as it is cached.
Matches(o, l) == o.size = Size(l) \/ (l.away /\ o.size <= Size(l))

\* The identity, size and residence of the ledger decide what has to be read.
StatLedger(h) ==
    LET s == host[h] IN
    /\ At(h, "stat") /\ s.ledgers # {}
    /\ LET d     == CHOOSE x \in s.ledgers : \A y \in s.ledgers : x <= y
           l     == ledger[d]
           rest  == [ledgers |-> s.ledgers \ {d}]
           same  == {o \in Known(d) : SameFile(o, l)}
           done  == With(rest, [kept |-> s.kept \cup {d}])
           reads == [d |-> d, from |-> 0, ident |-> l.ident]
       IN  \/ /\ Works(l = NoFile)
              /\ Update(h, With(rest, [completed |-> FALSE, usable |-> FALSE, failed |-> s.failed \cup {d}]))
              /\ UNCHANGED <<cache, disturbed>>
           \/ /\ l # NoFile /\ Works(TRUE)
              /\ \/ /\ \E o \in same : Matches(o, l)
                    /\ Update(h, done)
                    /\ UNCHANGED <<cache, disturbed>>
                 \/ /\ ~\E o \in same : Matches(o, l)
                    /\ \E o \in same : o.who[1] = "v2" /\ Size(l) > o.size
                    /\ \E o \in same :
                        Update(h, With(rest, [pc |-> "read", stat |-> {[reads EXCEPT !.from = o.size]}]))
                    /\ UNCHANGED <<cache, disturbed>>
                 \/ /\ ~\E o \in same : Matches(o, l)
                    /\ ~\E o \in same : o.who[1] = "v2" /\ Size(l) > o.size
                    /\ IF l.away
                       THEN /\ cache' = RemoveOrigins(cache, "sync", {d})
                            /\ Update(h, done)
                       ELSE /\ UNCHANGED cache
                            /\ Update(h, With(rest, [pc |-> "read", stat |-> {reads}]))
                    /\ IF cache' = cache THEN UNCHANGED disturbed ELSE Disturbs(h)
    /\ UNCHANGED <<logs, meter, spent, ledger>>

SyncSnap(d, read) ==
    [path |-> d, size |-> read.size, who |-> <<IF AllCurrent(read) THEN "v2" ELSE "legacy", read.ident>>]

\* The new lines of a ledger that has grown, or all lines of any other, or of one
\* whose new lines cannot be read.
ReadLedger(h) ==
    LET s == host[h] IN
    /\ At(h, "read") /\ LockFree(h)
    /\ \E r \in s.stat, fine \in BOOLEAN :
        LET l     == ledger[r.d]
            tail  == fine /\ l # NoFile /\ r.from > 0 /\ StartsLine(l, r.from) /\ l.ident = r.ident
            read  == ReadFrom(l, IF tail THEN r.from ELSE 0)
            known == ExistingKeys(cache, r.d, read.recs)
            next  == [pc |-> "stat", stat |-> {}]
            done  == With(next, [kept |-> s.kept \cup {r.d}])
        IN  \/ /\ Works(fine) /\ fine = (l = NoFile)
               /\ Update(h, With(next, [completed |-> FALSE, usable |-> FALSE, failed |-> s.failed \cup {r.d}]))
               /\ UNCHANGED cache
            \/ /\ Works(fine) /\ l # NoFile /\ read.bad
               /\ Update(h, With(done, [usable |-> FALSE,
                      prefetched |-> s.prefetched \cup (IF tail THEN {} ELSE {[d |-> r.d, recs |-> read.recs]})]))
               /\ UNCHANGED cache
            \/ /\ Works(fine) /\ l # NoFile /\ ~read.bad
               /\ Update(h, done)
               /\ cache' = IF tail THEN AppendEvents(cache, "sync", SyncSnap(r.d, read), read.recs \ known)
                           ELSE ReplaceEvents(cache, "sync", SyncSnap(r.d, read), read.recs, FALSE)
    /\ IF cache' = cache THEN UNCHANGED disturbed ELSE Disturbs(h)
    /\ UNCHANGED <<logs, meter, spent, ledger>>

\* Reading without the cache skips what is only in the cloud and what cannot be
\* read; of records with one key the first ledger counts.
Uncached(s, lost) ==
    LET recs(d) == LET pre == {p \in s.prefetched : p.d = d} IN
                   IF d \in lost \/ ledger[d] = NoFile \/ (ledger[d] # NoFile /\ ledger[d].away) THEN {}
                   ELSE IF pre # {} THEN UNION {p.recs : p \in pre} ELSE ReadFrom(ledger[d], 0).recs
    IN  UNION {{r \in recs(d) : ~\E c \in s.paths : c < d /\ \E x \in recs(c) : SameKey(x, r)} : d \in s.paths}

\* The end of the scan: local events win over those of the ledgers.
Collect(h) ==
    LET s == host[h] IN
    /\ At(h, "stat") /\ s.ledgers = {}
    /\ cache' = IF s.completed THEN RemoveMissingSync(cache, s.kept) ELSE cache
    /\ \E lost \in IF s.completed /\ s.usable THEN {{}} ELSE SUBSET s.paths :
        LET imported == IF s.completed /\ s.usable THEN SyncEvents(cache', s.kept) ELSE Uncached(s, lost)
        IN  /\ Works(lost \subseteq s.failed)
            /\ Update(h, [pc |-> "done", events |-> Merge(s.events, {FromSync(r) : r \in imported}),
                          ledgers |-> {}, hints |-> {}, paths |-> {}, kept |-> {}, prefetched |-> {},
                          failed |-> lost])
    /\ IF cache' = cache THEN UNCHANGED disturbed ELSE Disturbs(h)
    /\ UNCHANGED <<logs, meter, spent, ledger>>

\* The result is handed to the dashboard.
Finish(h) ==
    /\ At(h, "done")
    /\ host' = [host EXCEPT ![h] = Idle]
    /\ disturbed' = disturbed \ {h}
    /\ UNCHANGED <<cache, logs, meter, spent, ledger, used>>

\* What the dashboard shows of the ledgers before it has scanned: rows of ledgers
\* that are the cached file or have grown since, this device's only unchanged.
CachedOutcome ==
    LET current(d) == {o \in Known(d) : /\ SameFile(o, ledger[d]) /\ o.size <= Size(ledger[d])
                                        /\ d = Own => o.size = Size(ledger[d])}
    IN  SyncEvents(cache, {d \in Ledgers : ledger[d] # NoFile /\ current(d) # {}})

\* A scan is cancelled between two steps, or its host ends; an append may
\* then be left incomplete.
Abort(h) ==
    LET s == host[h]
        l == ledger[Own]
    IN
    /\ s.pc \notin {"idle", "done"} /\ used.errors < MaxErrors
    /\ host' = [host EXCEPT ![h] = Idle]
    /\ \/ UNCHANGED ledger
       \/ /\ s.pc = "write" /\ LockFree(h) /\ ~Refused(s, l) /\ ~Rewriting(s, l)
          /\ \E cut \in CutAppends(l, NewRecords(l, Records(s), s.hints), used.idents + 1) :
                ledger' = [ledger EXCEPT ![Own] = cut]
    /\ used' = [used EXCEPT !.errors = @ + 1, !.idents = IF ledger[Own] = NoFile /\ ledger' # ledger THEN @ + 1 ELSE @]
    /\ disturbed' = (IF ledger' = ledger THEN disturbed ELSE disturbed \cup Active) \ {h}
    /\ UNCHANGED <<cache, logs, meter, spent>>

-----------------------------------------------------------------------------
(***************************************************************************)
(* The environment.                                                        *)
(***************************************************************************)
Change(a) ==
    /\ used.changes < MaxChanges
    /\ disturbed' = disturbed \cup Active
    /\ UNCHANGED <<cache, host>>

Counted == used' = [used EXCEPT !.changes = @ + 1]

\* A tool writes a line, or a part of it.
WriteLog(path) ==
    /\ Change(path) /\ Counted /\ path[1] # "archive"
    /\ \/ /\ ~Present(path)
          /\ path[1] = "sessions" => ~Present(<<"archive", path[2]>>)
          /\ logs' = [logs EXCEPT ![path] = [n |-> 1, tail |-> 0, recent |-> TRUE]]
       \/ /\ Present(path) /\ logs[path].n < MaxLines
          /\ \E t \in 0..2 :
                /\ logs[path].tail = 0 \/ t = 0
                /\ logs' = [logs EXCEPT ![path] =
                       [n |-> IF t = 0 THEN @.n + 1 ELSE @.n, tail |-> t, recent |-> TRUE]]
    /\ UNCHANGED <<meter, spent, ledger>>

\* Sessions are archived or copied, logs are deleted.
MoveLog(n) ==
    LET from == <<"sessions", n>>
        to   == <<"archive", n>>
    IN
    /\ Change(n) /\ Counted /\ Present(from) /\ ~Present(to)
    /\ \E keep \in BOOLEAN : logs' = [logs EXCEPT ![to] = logs[from], ![from] = IF keep THEN @ ELSE NoFile]
    /\ UNCHANGED <<meter, spent, ledger>>

DeleteLog(path) ==
    /\ Change(path) /\ Counted /\ Present(path)
    /\ logs' = [logs EXCEPT ![path] = NoFile]
    /\ UNCHANGED <<meter, spent, ledger>>

CountMeter(s) ==
    /\ Change(s) /\ Counted
    /\ \/ \E n \in 1..(MaxMeter - spent[s]) :
             meter' = [meter EXCEPT ![s] = @ + n] /\ spent' = [spent EXCEPT ![s] = @ + n]
       \/ /\ meter[s] > 1                       \* the tool starts its counters again
          /\ meter' = [meter EXCEPT ![s] = 1] /\ spent' = [spent EXCEPT ![s] = @ + 1]
    /\ UNCHANGED <<logs, ledger>>

\* The cloud service delivers a longer or another version of the ledger of
\* another device, restores an earlier one of this device, or evicts one.
ForeignRecord(d, i) == [ver |-> Schema, dev |-> d, id |-> <<"log", "foreign", i>>, at |-> i, use |-> 1]

CloudChange(d) ==
    LET l == ledger[d]
        n == IF l = NoFile THEN 0 ELSE Len(l.lines)
    IN
    /\ Change(d)
    /\ \/ /\ d # Own /\ l = NoFile
          /\ ledger' = [ledger EXCEPT ![d] = NewLedger(used.idents + 1, <<ForeignRecord(d, 1)>>)]
       \/ /\ d # Own /\ l # NoFile /\ ~l.away /\ n < MaxLines
          /\ \E t \in 0..2 :
              /\ l.tail = 0 \/ t = 0
              /\ ledger' = [ledger EXCEPT ![d] =
                     IF t = 0 THEN [l EXCEPT !.lines = Append(@, ForeignRecord(d, n + 1)), !.tail = 0, !.last = Bad]
                     ELSE [l EXCEPT !.tail = t, !.last = IF t = 2 THEN ForeignRecord(d, n + 1) ELSE Bad]]
       \/ /\ l # NoFile
          /\ \E lines \in (IF n > 1 THEN {Tail(l.lines)} ELSE {})
                           \cup (IF d = Own THEN {} ELSE {<<ForeignRecord(d, n + 1)>>}) :
                ledger' = [ledger EXCEPT ![d] = NewLedger(used.idents + 1, lines)]
       \/ /\ l # NoFile
          /\ ledger' = [ledger EXCEPT ![d] = [l EXCEPT !.away = ~@]]
       \/ /\ l # NoFile
          /\ ledger' = [ledger EXCEPT ![d] = NoFile]
    /\ used' = [used EXCEPT !.changes = @ + 1,
                            !.idents = IF ledger'[d] # NoFile /\ ledger'[d].ident > @ THEN @ + 1 ELSE @]
    /\ UNCHANGED <<logs, meter, spent>>

Environment ==
    \/ \E p \in LogPaths : WriteLog(p) \/ DeleteLog(p)
    \/ \E n \in Names : MoveLog(n)
    \/ \E s \in Meters : CountMeter(s)
    \/ \E d \in Ledgers : CloudChange(d)

Step(h) ==
    \/ \E kind \in {"window", "full", "rebuild"} : Start(h, kind)
    \/ Needs(h) \/ ListRoot(h) \/ Prune(h) \/ ReadLog(h) \/ StoreLog(h)
    \/ ReadMeter(h) \/ ApplyMeter(h) \/ Overlap(h)
    \/ PrepareExport(h) \/ WriteLedger(h) \/ SwapLedger(h) \/ FailExport(h) \/ ForgetLedger(h)
    \/ ListLedgers(h) \/ StatLedger(h) \/ ReadLedger(h) \/ Collect(h)
    \/ Finish(h) \/ Abort(h)

\* Nothing is cached, an earlier version left its rows and its ledger behind, or
\* a scan has read a log, exported it and imported the ledger again.
NoLogs == [p \in LogPaths |-> NoFile]
NoLedgers == [d \in Ledgers |-> NoFile]
OneLine(path) == [NoLogs EXCEPT ![path] = [n |-> 1, tail |-> 0, recent |-> FALSE]]
OneRecord(r) == [NoLedgers EXCEPT ![Own] = NewLedger(1, <<r>>)]
Snap(path, who) == [path |-> path, size |-> Width, who |-> who]

Fresh == cache = EmptyCache /\ logs = NoLogs /\ ledger = NoLedgers

Upgraded(n) ==
    LET old == LegacyEvent(<<"sessions", n>>, 1) IN
    /\ \E root \in {"sessions", "archive"} : logs = OneLine(<<root, n>>)
    /\ cache = [EmptyCache EXCEPT
           !.origins["log"] = {Origin(Snap(<<"sessions", n>>, "device"), OldVersion, FALSE)},
           !.rows["log"] = {Row(<<"sessions", n>>, old)}]
    /\ \E v \in {1, Schema, Schema + 1} : ledger = OneRecord([SyncRecord(old) EXCEPT !.ver = v])

Settled(p) ==
    LET e == LogEvent(p, 1) IN
    /\ logs = OneLine(p)
    /\ cache = ReplaceEvents(ReplaceEvents(EmptyCache, "log", Snap(p, "device"), {e}, FALSE),
                             "sync", Snap(Own, <<"v2", 1>>), {SyncRecord(e)}, FALSE)
    /\ ledger = OneRecord(SyncRecord(e))

Init ==
    /\ meter = [s \in Meters |-> 0] /\ spent = meter
    /\ host = [h \in Hosts |-> Idle] /\ disturbed = {}
    /\ used = [idents |-> 1, scans |-> 0, changes |-> 0, errors |-> 0]
    /\ \/ Fresh
       \/ \E n \in Names : Upgraded(n)
       \/ \E p \in {q \in LogPaths : q[1] # "archive"} : Settled(p)

Next == Environment \/ \E h \in Hosts : Step(h)
Spec == Init /\ [][Next]_vars

(***************************************************************************)
(* Properties.  A scan is alone when nothing else changed while it ran.    *)
(***************************************************************************)
Alone(h) == At(h, "done") /\ h \notin disturbed
Shown(h) == host[h].events
OwnShown(h) == {e \in Shown(h) : e.dev = Own}

\* Types, and what each step of a scan may rely on: a plan to store, ledgers to
\* read and hints for the writer exist only between the steps that use them.
TypeOK ==
    /\ \A k \in OriginKinds :
          /\ \A o \in cache.origins[k] : o.ver \in {OldVersion, Version} /\ o.size >= 0
          /\ \A x, y \in cache.origins[k] : x.path = y.path => x = y
          /\ \A x, y \in cache.rows[k] :
                x.path = y.path /\ x.dev = y.dev /\ x.id = y.id => x = y
    /\ \A x, y \in cache.checks : x.session = y.session => x = y
    /\ \A p \in LogPaths : Present(p) => logs[p].n \in 0..MaxLines /\ logs[p].tail \in 0..2
    /\ \A s \in Meters : meter[s] \in 0..spent[s]
    /\ \A d \in Ledgers : ledger[d] # NoFile => ledger[d].ident <= used.idents
    /\ \A h \in Hosts :
          /\ Cardinality(host[h].pending) = IF At(h, "store") THEN 1 ELSE 0
          /\ Cardinality(host[h].stat) = IF At(h, "read") THEN 1 ELSE 0
          /\ host[h].hints # {} => ~(host[h].pc \in {"idle", "done"})
    /\ disturbed \subseteq Active

\* No usage is counted twice: a line of a Codex session and a request of Claude
\* is one event.
LogsCountOnce(events) ==
    \A p \in {q \in LogPaths : Present(q)} :
        \A x, y \in {e \in events : e.id[1] # "hermes" /\ e.id[2] = p[2]} :
            p[1] = "claude" \/ x.at = y.at => x = y

\* The events of a Hermes session add up to no more than it has used.
MetersCountOnce(events) ==
    \A s \in Meters :
        FoldSet(LAMBDA e, sum : sum + e.use, 0,
                {x \in events : x.id[1] = "hermes" /\ x.id[2] = s}) <= spent[s]

\* A complete scan shows usage read on this device once, although its log was
\* appended to, archived, copied or read by an earlier version; a scan of all files
\* misses none of it.  Once the ledger of this device has been written anew, it
\* adds nothing unknown here.
CountedExactly == \A h \in Hosts : Alone(h) /\ host[h].ok =>
    LET here == {e \in OwnShown(h) : e.local} IN
    /\ LogsCountOnce(here) /\ MetersCountOnce(here)
    /\ Replacing(host[h]) /\ host[h].exported /\ here # {} => here = OwnShown(h)
    /\ ~Windowed(host[h]) =>
          \A p \in {q \in LogPaths : Present(q)} :
              \A e \in EventsAfter(p, 0, LinesRead(logs[p])) :
                  \E x \in here : x.id = e.id /\ x.use = e.use

\* Of the ledgers of other devices a scan shows exactly what they hold, read
\* whole or from where the cache left off, replaced or cut in between; of those it
\* counts as unreadable it shows nothing.  Before any scan nothing is shown that
\* they do not hold now.
ImportExact ==
    LET Ids(events, d) == {x.id : x \in {e \in events : e.dev = d}}
        Held(d)        == {r.id : r \in ReadFrom(ledger[d], 0).recs}
    IN  \A d \in {x \in Ledgers \ {Own} : ledger[x] # NoFile} :
            /\ \A h \in Hosts : Alone(h) /\ ~ledger[d].away =>
                  Ids(Shown(h), d) = IF d \in host[h].failed THEN {} ELSE Held(d)
            /\ Ids(CachedOutcome, d) \subseteq Held(d)

\* After a complete scan whose export did not fail the ledger of this device
\* holds every event shown that was read on it.
ExportComplete == \A h \in Hosts :
    Alone(h) /\ host[h].ok /\ host[h].exported =>
        \A e \in Shown(h) : e.local => \E r \in ReadFrom(ledger[Own], 0).recs : SameKey(r, e)

\* "append_deduplicates_by_device_and_event" (sync.rs:1598): the ledger of this
\* device never holds two records of one event, although the writer may trust
\* the cache for what the ledger holds.
LedgerUnique ==
    ledger[Own] # NoFile =>
        \A i, j \in DOMAIN ledger[Own].lines :
            LET x == ledger[Own].lines[i]
                y == ledger[Own].lines[j]
            IN  x # Bad /\ y # Bad /\ SameKey(x, y) => i = j

\* The cache and the own ledger hold what they hold once.
StoresSound == TypeOK /\ LedgerUnique
=============================================================================
