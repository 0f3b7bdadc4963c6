----------------------------- MODULE UsageCache -----------------------------
(***************************************************************************)
(* The usage cache of TokenMeter: one SQLite file shared by every running  *)
(* instance of the application (TokenMeter and DevConsole use the same     *)
(* data directory).  Every operator below is one immediate transaction or  *)
(* one query of token-meter-core/src/cache.rs; the actions that use them   *)
(* are in TokenUsage.                                                      *)
(*                                                                         *)
(* An origin is a file usage was read from: a log ("log") or a ledger of   *)
(* the sync folder ("sync").  Hermes rows ("hermes") have checkpoints in   *)
(* place of origins.  Modification times are left out: in the environment  *)
(* modelled, every change of a file changes its size or its identity.      *)
(***************************************************************************)
EXTENDS Integers, FiniteSets

OriginKinds == {"log", "sync", "hermes"}

\* CACHE_PARSER_VERSION: rows of an earlier parser have version OldVersion.
Version    == 5
OldVersion == 4

EmptyCache == [origins |-> [k \in OriginKinds |-> {}],
               rows    |-> [k \in OriginKinds |-> {}],
               checks  |-> {}]

\* A snapshot of a file: its path, its size and who it belongs to (the device
\* for a log, the file identity with its schema marker for a ledger).
Origin(snap, version, err) ==
    [path |-> snap.path, size |-> snap.size, who |-> snap.who, ver |-> version, err |-> err]

Row(path, e) == [path |-> path, dev |-> e.dev, id |-> e.id, at |-> e.at, use |-> e.use]

\* INSERT OR REPLACE: rows are keyed by origin, device and event.
InsertRows(rows, new) ==
    {r \in rows : ~\E n \in new : n.path = r.path /\ n.dev = r.dev /\ n.id = r.id} \cup new

OriginFile(c, kind, path) == {o \in c.origins[kind] : o.path = path}

EventsForOrigin(c, kind, path) == {r \in c.rows[kind] : r.path = path}

ReplaceEvents(c, kind, snap, evs, err) ==
    [c EXCEPT !.origins[kind] = {o \in @ : o.path # snap.path} \cup {Origin(snap, Version, err)},
              !.rows[kind] = {r \in @ : r.path # snap.path}
                             \cup (IF err THEN {} ELSE {Row(snap.path, e) : e \in evs})]

AppendEvents(c, kind, snap, evs) ==
    [c EXCEPT !.origins[kind] = {o \in @ : o.path # snap.path} \cup {Origin(snap, Version, FALSE)},
              !.rows[kind] = InsertRows(@, {Row(snap.path, e) : e \in evs})]

RemoveOrigins(c, kind, paths) ==
    [c EXCEPT !.origins[kind] = {o \in @ : o.path \notin paths},
              !.rows[kind] = {r \in @ : r.path \notin paths}]

RemoveMissingSync(c, keeping) ==
    RemoveOrigins(c, "sync", {o.path : o \in c.origins["sync"]} \ keeping)

\* Only logs under one of the roots to prune are forgotten when they are gone.
RemoveMissingLogs(c, keeping, prune) ==
    RemoveOrigins(c, "log", {o.path : o \in {x \in c.origins["log"] : x.path[1] \in prune}} \ keeping)

PathsRequiringRebuild(c) == {o.path : o \in {x \in c.origins["log"] : x.ver # Version}}

CurrentOrigin(c, snap) ==
    {o \in OriginFile(c, "log", snap.path) : o.size = snap.size /\ o.ver = Version /\ o.who = snap.who}

HasCurrentEvents(c, snap) == \E o \in CurrentOrigin(c, snap) : ~o.err

\* The sizes a parse of the file may continue from (none or one).
AppendBase(c, snap) ==
    {o.size : o \in {x \in OriginFile(c, "log", snap.path) :
                        x.ver = Version /\ x.who = snap.who /\ ~x.err /\ x.size > 0 /\ snap.size > x.size}}

\* What the cache knows of local usage: one row per device and event.
LocalEvents(c) ==
    LET rows == c.rows["log"] \cup c.rows["hermes"]
        Same(r) == {x \in rows : x.dev = r.dev /\ x.id = r.id}
    IN  {CHOOSE x \in Same(r) : \A y \in Same(r) : y.at <= x.at : r \in rows}

\* Of the rows of one event in several ledgers the one of the first path counts.
SyncEvents(c, paths) ==
    LET rows == {r \in c.rows["sync"] : r.path \in paths}
    IN  {r \in rows : \A x \in rows : x.dev = r.dev /\ x.id = r.id => r.path <= x.path}

ExistingKeys(c, path, keys) ==
    {k \in keys : \E r \in EventsForOrigin(c, "sync", path) : r.dev = k.dev /\ r.id = k.id}

(***************************************************************************)
(* A session moved to the archive: its old rows are matched with those of  *)
(* the archived file, first by time and usage, then one to one by time.    *)
(* Times are distinct within a file, so the multisets of the code are sets.*)
(***************************************************************************)
MovedRows(c, old, arch) ==
    LET was     == EventsForOrigin(c, "log", old)
        now     == EventsForOrigin(c, "log", arch)
        exact   == {r \in was : \E a \in now : a.at = r.at /\ a.use = r.use}
        open    == {a \in now : ~\E r \in exact : r.at = a.at /\ r.use = a.use}
        left    == was \ exact
        byTime  == {r \in left : /\ Cardinality({x \in left : x.at = r.at}) = 1
                                 /\ Cardinality({a \in open : a.at = r.at}) = 1}
    IN  exact \cup byTime

\* moved: the old and the new path of each session; no two have one in common.
RemoveMovedOverlap(c, moved) ==
    LET gone(m) == MovedRows(c, m[1], m[2])
        over    == {m[1] : m \in {x \in moved : gone(x) # {} /\ gone(x) = EventsForOrigin(c, "log", x[1])}}
    IN  [c EXCEPT !.rows["log"] = @ \ UNION {gone(m) : m \in moved},
                  !.origins["log"] = {o \in @ : o.path \notin over}]

LogOrigins(c) == {r.path : r \in c.rows["log"]}

Checkpoints(c, session) == {k \in c.checks : k.session = session}

\* Each update replaces the checkpoint of its session and adds its event, if any.
ApplyHermesUpdates(c, path, updates) ==
    [c EXCEPT !.rows["hermes"] = InsertRows(@, UNION {{Row(path, e) : e \in u.event} : u \in updates}),
              !.checks = {k \in @ : ~\E u \in updates : u.session = k.session}
                         \cup {[session |-> u.session, use |-> u.use, seq |-> u.seq] : u \in updates}]

Clear(c) == EmptyCache
=============================================================================
