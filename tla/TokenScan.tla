----------------------------- MODULE TokenScan ------------------------------
(***************************************************************************)
(* How TokenMeter collects the token usage of this device: the first half  *)
(* of TokenMeterState::scan (src-tauri/src/token_meter.rs) with the log    *)
(* scanner, the parsers and the Hermes importer of token-meter-core.       *)
(* TokenUsage adds the second half, the exchange with the sync folder.     *)
(*                                                                         *)
(* A host is a running instance of the application on this device.  All    *)
(* hosts share one cache (UsageCache) and one ledger in the sync folder    *)
(* (SyncLedger); each runs one scan at a time, step by step, while tools   *)
(* write their logs, Hermes counts, the user archives and deletes sessions *)
(* and the cloud service changes the ledgers of other devices.             *)
(***************************************************************************)
EXTENDS UsageCache, SyncLedger

CONSTANTS Hosts,        \* instances of the application on this device
          Names,        \* Codex sessions (file names)
          Projects,     \* Claude log files
          Meters,       \* Hermes sessions
          Ledgers,      \* devices with a ledger, 1 is this device
          MaxLines,     \* whole lines of a log file
          MaxMeter,     \* what a Hermes session may have counted
          MaxScans, MaxChanges, MaxErrors

ASSUME UsageAssumption ==
    /\ Ledgers \subseteq Nat /\ 1 \in Ledgers
    /\ {MaxLines, MaxMeter, MaxScans, MaxChanges, MaxErrors} \subseteq Nat

Own == 1
HermesPath == <<"hermes", "state">>
Roots == <<"sessions", "archive", "claude">>
LogPaths == ({"sessions", "archive"} \X Names) \cup ({"claude"} \X Projects)

VARIABLES
    cache,      \* the SQLite file
    logs,       \* log files: whole lines, tail as in SyncLedger, recently changed
    meter,      \* counters of Hermes sessions, 0 when there is none
    spent,      \* history: what each Hermes session has really used
    ledger,     \* the files of the sync folder
    host,       \* the scan of each host
    disturbed,  \* history: hosts whose scan has overlapped with any other change
    used        \* bounds: identities given, scans, changes, errors so far

vars == <<cache, logs, meter, spent, ledger, host, disturbed, used>>

Idle == [pc |-> "idle", kind |-> "full", force |-> FALSE, root |-> 1, required |-> {},
         snaps |-> {}, listed |-> TRUE, ok |-> TRUE, todo |-> {}, pending |-> {}, fresh |-> {},
         updates |-> {}, events |-> {}, hints |-> {}, expect |-> NoFile, exported |-> TRUE,
         ledgers |-> {}, paths |-> {}, stat |-> {}, kept |-> {}, prefetched |-> {},
         usable |-> TRUE, completed |-> TRUE, failed |-> {}]

Active == {h \in Hosts : host[h].pc # "idle"}
At(h, pc) == host[h].pc = pc

\* r, and what s says of the rest.
With(r, s) == [f \in DOMAIN r \cup DOMAIN s |-> IF f \in DOMAIN r THEN r[f] ELSE s[f]]

Update(h, r) == host' = [host EXCEPT ![h] = With(r, @)]

\* A step of a host that others can see, or of the environment.
Disturbs(who) == disturbed' = disturbed \cup (Active \ {who})

\* A read succeeds, or fails although what is read is there.
Works(fine) ==
    /\ fine \/ used.errors < MaxErrors
    /\ used' = IF fine THEN used ELSE [used EXCEPT !.errors = @ + 1]

(***************************************************************************)
(* Logs and events.  Line i of a Codex session is one event; the lines of  *)
(* a Claude file are one request whose usage grows, so one event with the  *)
(* largest usage.  Codex events are named after the file, Claude events    *)
(* after the path; an earlier version named Codex events after the path.   *)
(***************************************************************************)
LogSize(f) == Width * f.n + f.tail
LinesRead(f) == f.n + IF f.tail = 2 THEN 1 ELSE 0

\* Mutant: events are named after the place of the file, as an earlier version did.
PlacedEvent(path, i) ==
    [dev |-> Own, id |-> <<path[1], path[2], IF path[1] = "claude" THEN 1 ELSE i>>, at |-> i, use |->
        IF path[1] = "claude" THEN i ELSE 1, local |-> TRUE]

LogEvent(path, i) ==
    [dev |-> Own, id |-> <<"log", path[2], IF path[1] = "claude" THEN 1 ELSE i>>, at |-> i, use |->
        IF path[1] = "claude" THEN i ELSE 1, local |-> TRUE]

EventsAfter(path, from, upto) ==
    IF path[1] = "claude" THEN (IF upto > from THEN {LogEvent(path, upto)} ELSE {})
    ELSE {LogEvent(path, i) : i \in (from + 1)..upto}

LegacyEvent(path, i) == [LogEvent(path, i) EXCEPT !.id = <<"old", path[2], i>>]

MeterEvent(s, seq, use) ==
    [dev |-> Own, id |-> <<"hermes", s, seq>>, at |-> 0, use |-> use, local |-> TRUE]

FromRow(r) == [dev |-> r.dev, id |-> r.id, at |-> r.at, use |-> r.use, local |-> TRUE]
FromSync(r) == [FromRow(r) EXCEPT !.local = FALSE]

\* One event per device and event id: details of this device win, then what comes later.
Merge(first, second) ==
    LET Later(e) == {x \in second : SameKey(x, e)}
    IN  {e \in first : \A x \in Later(e) : e.local /\ ~x.local}
        \cup {e \in second : ~\E x \in first : SameKey(x, e) /\ x.local /\ ~e.local}

LogSnap(path) ==
    [path |-> path, size |-> LogSize(logs[path]), who |-> "device", recent |-> logs[path].recent]
Present(path) == logs[path] # NoFile

-----------------------------------------------------------------------------
(***************************************************************************)
(* The scan of the logs.                                                   *)
(***************************************************************************)
\* A windowed refresh reads the files of the last two days, a full one all
\* files; a rebuild empties the cache first.
Start(h, kind) ==
    /\ At(h, "idle") /\ used.scans < MaxScans
    /\ cache' = IF kind = "rebuild" THEN Clear(cache) ELSE cache
    /\ Update(h, [pc |-> IF kind = "window" THEN "needs" ELSE "list", kind |-> kind])
    /\ disturbed' = IF Active = {} THEN {} ELSE disturbed \cup Active \cup {h}
    /\ used' = [used EXCEPT !.scans = @ + 1]
    /\ UNCHANGED <<logs, meter, spent, ledger>>

\* The cache holds the ledger of this device exactly as it is, in schema 2.
CachedWriterState(l) ==
    {o \in OriginFile(cache, "sync", Own) :
        o.ver = Version /\ ~o.err /\ o.who = <<"v2", l.ident>> /\ o.size = Size(l)}

LockFree(h) == \A g \in Hosts \ {h} : ~At(g, "swap")

\* A refresh reads everything when the ledger has to be written anew.
NeedsFullExport ==
    LET l == ledger[Own] IN
    \/ l = NoFile
    \/ ~\E o \in OriginFile(cache, "sync", Own) : o.ver = Version
    \/ CachedWriterState(l) = {} /\ ~HasLaterSchema(l) /\ NeedsReplacement(l)

Needs(h) ==
    /\ At(h, "needs") /\ LockFree(h)
    /\ \E fine \in BOOLEAN :
        /\ Works(fine)
        /\ Update(h, [pc |-> "list", force |-> fine /\ NeedsFullExport])
    /\ UNCHANGED <<cache, logs, meter, spent, ledger, disturbed>>

\* One root is listed after the other; a root that cannot be read makes the
\* scan incomplete.
ListRoot(h) ==
    LET s == host[h] IN
    /\ At(h, "list")
    /\ \E ok \in BOOLEAN :
        /\ Works(ok)
        /\ Update(h, [pc |-> IF s.root = Len(Roots) THEN "prune" ELSE "list",
                      root |-> s.root + 1,
                      required |-> IF s.root = 1 THEN PathsRequiringRebuild(cache) ELSE s.required,
                      snaps |-> s.snaps \cup
                          IF ok THEN {LogSnap(p) : p \in {q \in LogPaths : q[1] = Roots[s.root] /\ Present(q)}}
                          ELSE {},
                      listed |-> s.listed /\ ok, ok |-> s.ok /\ ok])
    /\ UNCHANGED <<cache, logs, meter, spent, ledger, disturbed>>

Windowed(s) == s.kind = "window" /\ ~s.force

\* Claude logs that are gone are forgotten, Codex logs are kept.
Prune(h) ==
    LET s == host[h] IN
    /\ At(h, "prune")
    /\ cache' = IF s.listed THEN RemoveMissingLogs(cache, {f.path : f \in s.snaps}, {"claude"}) ELSE cache
    /\ Update(h, [pc |-> "files",
                  todo |-> {f \in s.snaps : f.path \in s.required \/ f.recent \/ ~Windowed(s)}])
    /\ IF cache' = cache THEN UNCHANGED disturbed ELSE Disturbs(h)
    /\ UNCHANGED <<logs, meter, spent, ledger, used>>

\* Parsing from an offset fails unless the offset is at the start of a line.
ParseFrom(path, offset) ==
    IF ~Present(path) THEN {}
    ELSE LET from == (IF offset > LogSize(logs[path]) THEN LogSize(logs[path]) ELSE offset) IN
         IF from % Width # 0 THEN {}
         ELSE {EventsAfter(path, from \div Width, LinesRead(logs[path]))}

\* How one file is brought into the cache: as it is there, by its new lines,
\* from its beginning, or as unreadable; the reading of the new lines may fail, or
\* every reading.
ReadLog(h) ==
    LET s == host[h] IN
    /\ At(h, "files")
    /\ \E f \in s.todo, reads \in {"all", "whole", "none"} :
        LET tails  == IF reads = "all" THEN UNION {ParseFrom(f.path, b) : b \in AppendBase(cache, f)} ELSE {}
            whole  == IF reads = "none" THEN {} ELSE ParseFrom(f.path, 0)
            cached == {FromRow(r) : r \in EventsForOrigin(cache, "log", f.path)}
            plan(mode, events, result) ==
                [snap |-> f, mode |-> mode, events |-> events, result |-> result]
        IN  /\ Works(reads = "all")
            /\ IF CurrentOrigin(cache, f) # {}
               THEN reads = "all" /\ Update(h, [todo |-> s.todo \ {f}, ok |-> s.ok /\ HasCurrentEvents(cache, f)])
               ELSE Update(h, [pc |-> "store", todo |-> s.todo \ {f}, pending |-> {
                        IF tails # {} THEN plan("append", UNION tails, Merge(cached, UNION tails))
                        ELSE IF whole # {} THEN plan("replace", UNION whole, UNION whole)
                        ELSE plan("error", {}, {})}])
    /\ UNCHANGED <<cache, logs, meter, spent, ledger, disturbed>>

StoreLog(h) ==
    LET s == host[h] IN
    /\ At(h, "store")
    /\ \E p \in s.pending :
        /\ cache' = IF p.mode = "append" THEN AppendEvents(cache, "log", p.snap, p.events)
                    ELSE ReplaceEvents(cache, "log", p.snap, p.events, p.mode = "error")
        /\ Update(h, [pc |-> "files", pending |-> {}, fresh |-> s.fresh \cup p.result,
                      ok |-> s.ok /\ p.mode # "error"])
    /\ Disturbs(h)
    /\ UNCHANGED <<logs, meter, spent, ledger, used>>

-----------------------------------------------------------------------------
(***************************************************************************)
(* Hermes keeps counters per session; what they grew by since the          *)
(* checkpoint is a new event.                                              *)
(***************************************************************************)
CountingSessions == {s \in Meters : meter[s] > 0}

MeterUpdate(s) ==
    LET was   == Checkpoints(cache, s)
        seq   == IF was = {} THEN 0 ELSE (CHOOSE k \in was : TRUE).seq
        prev  == IF was = {} THEN 0 ELSE (CHOOSE k \in was : TRUE).use
        grown == was = {} \/ meter[s] > prev
    IN  [session |-> s, use |-> meter[s], seq |-> IF grown THEN seq + 1 ELSE seq,
         event |-> IF grown THEN {MeterEvent(s, seq + 1, meter[s] - prev)} ELSE {}]

\* The sessions are read, then the checkpoints; a database that stays locked for
\* five seconds is an error of the scan.
MayStayBusy == used.errors < MaxErrors

ReadMeter(h) ==
    /\ At(h, "files") /\ host[h].todo = {}
    /\ \/ /\ Update(h, [pc |-> "apply", updates |-> {MeterUpdate(s) : s \in CountingSessions}])
          /\ UNCHANGED used
       \/ /\ MayStayBusy
          /\ Update(h, [pc |-> "overlap", ok |-> FALSE])
          /\ used' = [used EXCEPT !.errors = @ + 1]
    /\ UNCHANGED <<cache, logs, meter, spent, ledger, disturbed>>

ApplyMeter(h) ==
    LET s == host[h] IN
    /\ At(h, "apply")
    /\ cache' = ApplyHermesUpdates(cache, HermesPath, s.updates)
    /\ Update(h, [pc |-> "overlap", updates |-> {}, fresh |-> s.fresh \cup UNION {u.event : u \in s.updates}])
    /\ IF cache' = cache THEN UNCHANGED disturbed ELSE Disturbs(h)
    /\ UNCHANGED <<logs, meter, spent, ledger, used>>

\* Sessions that moved to the archive are counted there; then the result of
\* the scan is what the cache knows and what was just read.
Overlap(h) ==
    LET s     == host[h]
        moved == {n \in Names :
                    /\ \E f \in s.snaps : f.path = <<"archive", n>> /\ HasCurrentEvents(cache, f)
                    /\ <<"sessions", n>> \in LogOrigins(cache)
                    /\ ~Present(<<"sessions", n>>)}
    IN
    /\ At(h, "overlap")
    /\ cache' = IF s.listed
                THEN RemoveMovedOverlap(cache, {<<<<"sessions", n>>, <<"archive", n>>>> : n \in moved})
                ELSE cache
    /\ Update(h, [pc |-> "export", fresh |-> {}, snaps |-> {}, required |-> {},
                  events |-> Merge({FromRow(r) : r \in LocalEvents(cache')}, s.fresh)])
    /\ IF cache' = cache THEN UNCHANGED disturbed ELSE Disturbs(h)
    /\ UNCHANGED <<logs, meter, spent, ledger, used>>
=============================================================================
