--------------------------- MODULE UsageInvariant ---------------------------
(***************************************************************************)
(* The inductive invariant of TokenUsage for one instance of the           *)
(* application: what a scan holds between its steps, and that the cache    *)
(* agrees with the ledgers it was filled from.                             *)
(***************************************************************************)
EXTENDS TokenUsage

\* With two instances the cache may forget a ledger between the decision to
\* read only its new lines and their reading.
OneHost == \A g, h \in Hosts : g = h

(***************************************************************************)
(* Types.                                                                  *)
(***************************************************************************)
Ids     == {"log", "old", "hermes"} \X (Names \cup Projects \cup Meters \cup {"foreign"}) \X Nat
Events  == [dev : {Own}, id : Ids, at : Nat, use : Int, local : {TRUE}]
Recs(d) == [ver : 1..3, dev : {d}, id : Ids, at : Nat, use : Int]
Lines(d) == {Bad} \cup Recs(d)
Files(d) == [ident : Nat, lines : Seq(Lines(d)), tail : 0..2, last : Lines(d), away : BOOLEAN]
Rows(path, dev) == [path : {path}, dev : {dev}, id : Ids, at : Nat, use : Int]
Origins(paths, who) ==
    [path : paths, size : Nat, who : who, ver : {OldVersion, Version}, err : BOOLEAN]
Checks  == [session : Meters, use : Nat, seq : Nat]
Snaps   == [path : LogPaths, size : Nat, who : {"device"}, recent : BOOLEAN]

\* Names, projects and sessions are finitely many; no file is taken for a missing one.
ASSUME ProofAssumption ==
    /\ IsFiniteSet(Names) /\ IsFiniteSet(Projects) /\ IsFiniteSet(Meters)
    /\ Names \cap Projects = {}
    /\ MaxLines # 0
    /\ \A d \in Ledgers : NoFile \notin Files(d)
    /\ NoFile \notin [n : 0..MaxLines, tail : 0..2, recent : BOOLEAN]

Fields == DOMAIN Idle

ScanSteps == {"idle", "needs", "list", "prune", "files", "store", "apply", "overlap", "export", "write",
              "swap", "forget", "import", "stat", "read", "done"}

\* No two of them have one key.
Unique(S) == \A x, y \in S : SameKey(x, y) => x = y

(***************************************************************************)
(* The cache: what an event of a path is, and one row for each key.        *)
(***************************************************************************)
OfPath(e, path) ==
    /\ e.id[1] \in {"log", "old"} /\ e.id[2] = path[2]
    /\ path[1] = "claude" => e.id = <<"log", path[2], 1>>
    /\ path[1] # "claude" => e.at = e.id[3] /\ e.use = 1

OfMeters(e) == e.id[1] = "hermes" /\ e.at = 0

OneEach(origins, rows) ==
    /\ \A x, y \in origins : x.path = y.path => x = y
    /\ \A x, y \in rows : x.path = y.path /\ SameKey(x, y) => x = y

LogsCached(origins, rows) ==
    /\ origins \subseteq Origins(LogPaths, {"device"})
    /\ \A r \in rows : r.path \in LogPaths /\ r \in Rows(r.path, Own) /\ OfPath(r, r.path)
    /\ IsFiniteSet(rows) /\ OneEach(origins, rows)

LedgersCached(origins, rows) ==
    /\ origins \subseteq Origins(Ledgers, {"v2", "legacy"} \X Nat)
    /\ \A r \in rows : r.path \in Ledgers /\ r \in Rows(r.path, r.path)
    /\ OneEach(origins, rows)

MetersCached(origins, rows, checks) ==
    /\ origins = {}
    /\ \A r \in rows : r \in Rows(HermesPath, Own) /\ OfMeters(r)
    /\ IsFiniteSet(rows) /\ OneEach(origins, rows)
    /\ checks \subseteq Checks
    /\ \A x, y \in checks : x.session = y.session => x = y

Cached(c) ==
    /\ DOMAIN c = {"origins", "rows", "checks"}
    /\ DOMAIN c.origins = OriginKinds /\ DOMAIN c.rows = OriginKinds
    /\ LogsCached(c.origins["log"], c.rows["log"])
    /\ LedgersCached(c.origins["sync"], c.rows["sync"])
    /\ MetersCached(c.origins["hermes"], c.rows["hermes"], c.checks)

CacheInv == Cached(cache)

WorldInv ==
    /\ DOMAIN logs = LogPaths
    /\ \A p \in LogPaths : Present(p) => logs[p] \in [n : 0..MaxLines, tail : 0..2, recent : BOOLEAN]
    /\ meter \in [Meters -> Nat] /\ spent \in [Meters -> Nat]
    /\ \A s \in Meters : meter[s] <= spent[s]
    /\ disturbed \subseteq Active

HostTypes ==
    /\ DOMAIN host = Hosts
    /\ \A h \in Hosts : DOMAIN host[h] = Fields /\ host[h].pc \in ScanSteps

(***************************************************************************)
(* What a scan has read so far.                                            *)
(***************************************************************************)
\* The logs a scan will still add to fresh.
Waiting(s) == {f.path : f \in s.todo} \cup {p.snap.path : p \in s.pending}

\* Fresh events are of logs, and in the end of Hermes; of a Claude log only
\* once it has been read.
FreshEvents(s) ==
    /\ s.fresh \subseteq Events /\ IsFiniteSet(s.fresh) /\ Unique(s.fresh)
    /\ s.pc \notin {"files", "store", "apply", "overlap"} => s.fresh = {}
    /\ \A e \in s.fresh :
          \/ \E p \in LogPaths : OfPath(e, p) /\ (p[1] = "claude" => p \notin Waiting(s))
          \/ s.pc = "overlap" /\ OfMeters(e)

Listed(s) ==
    /\ s.snaps \subseteq Snaps /\ \A f, g \in s.snaps : f.path = g.path => f = g
    /\ s.pc \in {"idle", "needs"} => s.root = 1 /\ s.snaps = {}
    /\ s.pc = "list" => s.root \in 1..3 /\ \A f \in s.snaps : \E i \in 1..(s.root - 1) : f.path[1] = Roots[i]
    /\ s.todo \subseteq Snaps /\ \A f, g \in s.todo : f.path = g.path => f = g

\* A plan to store is for one log, which is not to be read again.
Planned(s) ==
    /\ s.pc = "store" => \E p \in s.pending : s.pending = {p}
    /\ s.pc # "store" => s.pending = {}
    /\ \A p \in s.pending :
          /\ p.snap \in Snaps /\ \A f \in s.todo : f.path # p.snap.path
          /\ \A events \in {p.events, p.result} :
                /\ events \subseteq Events /\ IsFiniteSet(events) /\ Unique(events)
                /\ \A e \in events : OfPath(e, p.snap.path)

\* One update for each session, with at most one event of that session.
MeterUpdates(updates) ==
    /\ \A u \in updates :
          /\ u.session \in Meters /\ u.use \in Nat /\ u.seq \in Nat
          /\ u.event \subseteq Events
          /\ \A e \in u.event : OfMeters(e) /\ e.id[2] = u.session
          /\ \A e, f \in u.event : e = f
    /\ \A u, v \in updates : u.session = v.session => u = v
    /\ IsFiniteSet(UNION {u.event : u \in updates})

Metered(s) == s.pc = "apply" => MeterUpdates(s.updates)

EventSteps == {"export", "write", "swap", "forget", "import", "stat", "read"}

Collected(s) == s.pc \in EventSteps => s.events \subseteq Events /\ IsFiniteSet(s.events) /\ Unique(s.events)

Importing(s) ==
    /\ s.pc = "read" => \E r \in s.stat : s.stat = {r}
    /\ s.pc # "read" => s.stat = {}
    /\ s.ledgers \subseteq Ledgers /\ s.paths \subseteq Ledgers /\ s.failed \subseteq Ledgers
    /\ \A r \in s.stat : r.d \in Ledgers /\ r.from \in Nat
    /\ s.pc \notin {"stat", "read"} => s.ledgers = {}
    /\ s.pc \notin {"stat", "read", "done"} =>
          s.paths = {} /\ s.kept = {} /\ s.prefetched = {} /\ s.usable /\ s.completed /\ s.failed = {}

Local(s) ==
    /\ s.pc = "idle" => s = Idle
    /\ FreshEvents(s) /\ Listed(s) /\ Planned(s) /\ Metered(s) /\ Collected(s) /\ Importing(s)
    /\ s.pc \in {"idle", "done"} => s.hints = {}

ScanInv == \A h \in Hosts : Local(host[h])

(***************************************************************************)
(* Ledgers and what the cache holds of them.                               *)
(***************************************************************************)
Readable(v) == v \in {1, Schema}

UniqueLines(l) == \A i, j \in DOMAIN LinesOf(l) :
    LET x == LinesOf(l)[i]
        y == LinesOf(l)[j]
    IN  x.ver # 0 /\ y.ver # 0 /\ SameKey(x, y) => i = j

LedgerInv ==
    /\ used \in [idents : Nat, scans : Nat, changes : Nat, errors : Nat]
    /\ DOMAIN ledger = Ledgers
    /\ \A d \in Ledgers : ledger[d] # NoFile => ledger[d] \in Files(d) /\ ledger[d].ident \in 1..used.idents
    /\ \A d \in Ledgers \ {Own} : ledger[d] # NoFile /\ ledger[d].tail = 2 =>
          ledger[d].last = ForeignRecord(d, Len(ledger[d].lines) + 1)
    /\ ledger[Own] # NoFile => UniqueLines(ledger[Own])

\* How many complete lines end at size or before it.
Covered(size) == size \div Width + IF size % Width = 0 THEN 0 ELSE 1

\* Up to size the ledger has been read, and every line could be.
ReadUpTo(l, size) ==
    /\ size \in 0..Size(l) /\ size % Width # 1
    /\ \A i \in 1..Covered(size) : Readable(LinesOf(l)[i].ver)

\* The keys are those of the lines up to size.
Covers(l, size, keys) ==
    /\ ReadUpTo(l, size)
    /\ \A i \in 1..Covered(size) : \E k \in keys : SameKey(k, LinesOf(l)[i])
    /\ \A k \in keys : \E i \in 1..Covered(size) : SameKey(k, LinesOf(l)[i])

\* A row of the cache stands for a line of the ledger, as long as the ledger is
\* the file it was read from.
CoherentInv ==
    /\ \A o \in cache.origins["sync"] : o.ver = Version /\ ~o.err /\ o.who[2] <= used.idents
    /\ \A d \in Ledgers : ledger[d] # NoFile =>
          \A o \in OriginFile(cache, "sync", d) :
              SameFile(o, ledger[d]) => Covers(ledger[d], o.size, EventsForOrigin(cache, "sync", d))

\* What the writer was told of the ledger is what the ledger held at that size.
Told(s) == s.pc = "write" => \A k \in s.hints :
    /\ k.ident \in 1..used.idents
    /\ ledger[Own] # NoFile /\ k.ident = ledger[Own].ident =>
          /\ ReadUpTo(ledger[Own], k.size)
          /\ \A r \in Records(s) : (\E x \in k.keys : SameKey(r, x)) <=>
                \E i \in 1..Covered(k.size) : SameKey(r, LinesOf(ledger[Own])[i])

HintsInv == \A h \in Hosts : Told(host[h])

\* The local events of the scan are in the ledger.
Holds(l, e) == l # NoFile /\ \E i \in DOMAIN LinesOf(l) : Readable(LinesOf(l)[i].ver) /\ SameKey(e, LinesOf(l)[i])

Exported(s) ==
    s.pc \in {"forget", "import", "stat", "read", "done"} /\ s.ok /\ s.exported =>
        \A e \in s.events : e.local => Holds(ledger[Own], e)

ExportInv == \A h \in Hosts \ disturbed : Exported(host[h])

(***************************************************************************)
(* The import.                                                             *)
(***************************************************************************)
\* The ledger has been cached as far as it is to be skipped.
Tailing(s) == \A r \in s.stat :
    r.from > 0 => \E o \in OriginFile(cache, "sync", r.d) : o.who[2] = r.ident /\ o.size = r.from

StatInv == \A h \in Hosts : Tailing(host[h])

\* A ledger that was dealt with is in the cache as it is or could not be read,
\* unless the scan will read the ledgers without the cache.
Imported(s) == s.pc \in {"stat", "read"} =>
    /\ s.paths = {d \in Ledgers : ledger[d] # NoFile}
    /\ s.ledgers \cup s.kept \cup {r.d : r \in s.stat} \subseteq s.paths
    /\ s.completed => s.paths = s.ledgers \cup s.kept \cup {r.d : r \in s.stat}
    /\ s.kept \cap s.ledgers = {} /\ \A r \in s.stat : r.d \notin s.kept \cup s.ledgers
    /\ s.usable => \A d \in s.kept : ~ledger[d].away =>
          \E o \in OriginFile(cache, "sync", d) : SameFile(o, ledger[d]) /\ o.size = Size(ledger[d])
    /\ \A p \in s.prefetched : p.d \in s.paths /\ p.recs = ReadFrom(ledger[p.d], 0).recs

ImportInv == \A h \in Hosts \ disturbed : Imported(host[h])

Idents(events) == {x.id : x \in events}

ShownInv == \A h \in Hosts : Alone(h) =>
    \A d \in Ledgers \ {Own} : ledger[d] # NoFile /\ ~ledger[d].away =>
        Idents({e \in Shown(h) : e.dev = d}) =
            IF d \in host[h].failed THEN {} ELSE Idents(ReadFrom(ledger[d], 0).recs)

\* At every step of a scan the rows of the cache are the lines of the ledger they
\* were read from, what the writer is told of the own ledger is true, and what
\* was exported and imported so far is what the ledgers hold.
UsageInv ==
    /\ CacheInv /\ WorldInv /\ HostTypes /\ ScanInv /\ LedgerInv
    /\ CoherentInv /\ HintsInv /\ ExportInv /\ StatInv /\ ImportInv /\ ShownInv
=============================================================================
