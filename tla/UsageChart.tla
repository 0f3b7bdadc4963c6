----------------------------- MODULE UsageChart -----------------------------
(***************************************************************************)
(* What the dashboard of TokenMeter shows of the recorded events           *)
(* (token-meter-core/src/aggregation.rs and dashboard.rs).  Time passes    *)
(* and events arrive; the dashboard is a function of the events, the time  *)
(* zone, the time and the request.                                         *)
(*                                                                         *)
(* Time is counted in half hours and a day is short.  A time zone changes  *)
(* its offset once, by up to an hour forwards or back.  The usage of a set *)
(* of events is the set itself: sums are equal when nothing is left out    *)
(* and nothing is counted twice.                                           *)
(***************************************************************************)
EXTENDS Integers, FiniteSets, FiniteSetsExt, Functions

CONSTANTS
    Day,          \* half hours of a day
    Horizon,      \* bound: the last instant
    Shifts,       \* the instants at which a zone may change its offset
    MaxEvents,    \* bound: recorded events
    MaxFilled,    \* hour, day, week or month buckets of a chart with empty buckets
    MaxEstimate,  \* buckets above which a chart has no empty buckets
    Projects, Models,
    None

Hour == 2

VARIABLES zone, now, events

vars == <<zone, now, events>>

Local(z, u) == u + IF u < z.at THEN Hour ELSE Hour + z.jump

\* The instants of a local time.
Instants(z, l) == {u \in l - 3 * Hour .. l + Hour : Local(z, u) = l}

\* resolve_local: the first of two instants; of none, the first instant
\* after the gap.
FirstInstant(z, l) == Min(Instants(z, Min({x \in l..l + Hour : Instants(z, x) # {}})))

\* A zone keeps the instant of each local time.
Zones == {[at |-> z.at, jump |-> z.jump,
           first |-> [l \in -6 * Day..Horizon + 3 * Day |-> FirstInstant(z, l)]] :
             z \in [at : Shifts, jump : -Hour..Hour]}

Init == zone \in Zones /\ now = 0 /\ events = {}

Tick == now < Horizon /\ now' = now + 1 /\ UNCHANGED <<zone, events>>

\* An event of this or of another device, whose clock may be ahead.
Record ==
    /\ Cardinality(events) < MaxEvents
    /\ \E t \in {now, now + 1}, p \in Projects, m \in Models :
          events' = events \cup {[id |-> Cardinality(events), at |-> t, project |-> p, model |-> m]}
    /\ UNCHANGED <<zone, now>>

Next == Tick \/ Record

Spec == Init /\ [][Next]_vars

(***************************************************************************)
(* Local time.                                                             *)
(***************************************************************************)
Resolve(l) == zone.first[l]

Floor(l, size) == size * (l \div size)

StartOfDay(u)   == Resolve(Floor(Local(zone, u), Day))
AddDays(u, n)   == Resolve(Local(zone, u) + n * Day)

(***************************************************************************)
(* Ranges and buckets.  A few stand for the presets of their kind; a week  *)
(* has two days here, a month three, and "3m" goes back two days.          *)
(***************************************************************************)
Ranges  == {"1h", "24h", "Today", "Yesterday", "7d", "3m", "All"}
Buckets == {"30m", "1h", "1d", "1w", "1mo"}

First == IF events = {} THEN 0 ELSE Min({e.at : e \in events})
Last  == IF events = {} THEN now ELSE Max({e.at : e \in events})

Interval(range) ==
    CASE range = "1h"        -> [start |-> now - Hour, end |-> now]
      [] range = "24h"       -> [start |-> now - Day, end |-> now]
      [] range = "Today"     -> [start |-> StartOfDay(now), end |-> now]
      [] range = "Yesterday" -> [start |-> AddDays(StartOfDay(now), -1), end |-> StartOfDay(now)]
      [] range = "7d"        -> [start |-> AddDays(StartOfDay(now), -1), end |-> now]
      [] range = "3m"        -> [start |-> AddDays(now, -2), end |-> now]
      [] range = "All"       -> [start |-> First, end |-> Last]

Smaller(a, b) == IF a < b THEN a ELSE b

Previous(range) ==
    LET i == Interval(range)
        length == i.end - i.start
    IN  CASE range = "Today" ->
               LET s == AddDays(i.start, -1)
               IN  [start |-> s, end |-> Smaller(s + length, i.start)]
          [] range = "Yesterday" -> [start |-> AddDays(i.start, -1), end |-> i.start]
          [] range = "All"       -> [start |-> i.start, end |-> i.start]
          [] OTHER               -> [start |-> i.start - length, end |-> i.start]

Width(b) == IF b = "30m" THEN 1 ELSE Hour

Days(b) == CASE b = "1d" -> 1 [] b = "1w" -> 2 [] b = "1mo" -> 3

Size(b) == IF b \in {"30m", "1h"} THEN Width(b) ELSE Days(b) * Day

BucketStart(b, u) == Resolve(Floor(Local(zone, u), Size(b)))

NextStart(b, u) == IF b \in {"30m", "1h"} THEN u + Width(b) ELSE AddDays(u, Days(b))

Within(e, i) == i.start <= e.at /\ e.at < i.end

(***************************************************************************)
(* Filters.                                                                *)
(***************************************************************************)
Matches(e, f) ==
    /\ f.project \in {None, e.project}
    /\ f.model \in {None, e.model}

FilterRange(es, range, f) ==
    LET i == Interval(range)
    IN  {e \in es : Matches(e, f) /\ (range = "All" \/ Within(e, i))}

\* Mutant: the project is not looked up in the range.
KeepProject(base, f) == f.project

KnownProject(base, f) ==
    IF \E e \in base : e.project = f.project /\ f.model \in {None, e.model} THEN f.project ELSE None

\* normalized_filters: the model is looked up first, then the project among
\* the events of the model, then the model among those of the project.
Normalized(es, range, f) ==
    LET base == FilterRange(es, range, [f EXCEPT !.project = None, !.model = None])
        g == IF \E e \in base : e.model = f.model THEN f ELSE [f EXCEPT !.model = None]
        h == [g EXCEPT !.project = KnownProject(base, g)]
    IN  IF \E e \in base : e.model = h.model /\ h.project \in {None, e.project} THEN h
        ELSE [h EXCEPT !.model = None]

(***************************************************************************)
(* The chart.                                                              *)
(***************************************************************************)
Grouped(es, b) ==
    [s \in {BucketStart(b, e.at) : e \in es} |-> {e \in es : BucketStart(b, e.at) = s}]

\* The first n starts from s on, up to the given end.
RECURSIVE Starts(_, _, _, _)
Starts(b, s, end, n) ==
    IF n = 0 \/ s > end THEN {} ELSE {s} \cup Starts(b, NextStart(b, s), end, n - 1)

Estimate(b, i) ==
    1 + Cardinality(Starts(b, BucketStart(b, i.start), BucketStart(b, i.end) - 1, MaxEstimate))

MaxBucketCount(b) == IF b = "30m" THEN MaxEstimate ELSE MaxFilled

\* Mutant: the bucket that a range ends in is left out.
OnlyAll(range, b, i) == range = "All"

IncludeEnd(range, b, i) == range = "All" \/ BucketStart(b, i.end) < i.end

Filled(grouped, range, b, i) ==
    LET end  == BucketStart(b, i.end)
        last == IF IncludeEnd(range, b, i) THEN end ELSE end - 1
    IN  IF DOMAIN grouped = {} THEN grouped
        ELSE [s \in Starts(b, BucketStart(b, i.start), last, MaxBucketCount(b)) |->
                IF s \in DOMAIN grouped THEN grouped[s] ELSE {}]

DashboardBuckets(es, range, b) ==
    LET i == Interval(range)
        grouped == Grouped(es, b)
    IN  IF Estimate(b, i) > MaxEstimate THEN grouped ELSE Filled(grouped, range, b, i)

(***************************************************************************)
(* The dashboard.                                                          *)
(***************************************************************************)
Requests ==
    [range : Ranges, project : Projects \cup {None}, model : Models \cup {None}]

\* compose_dashboard, from the events it is given.
Compose(es, q) ==
    LET f == Normalized(es, q.range, [project |-> q.project, model |-> q.model])
    IN  [filters  |-> f,
         total    |-> FilterRange(es, q.range, f),
         previous |-> LET i == Previous(q.range) IN {e \in es : Matches(e, f) /\ Within(e, i)},
         projects |-> {e.project : e \in FilterRange(es, q.range, [f EXCEPT !.project = None])},
         models   |-> {e.model : e \in FilterRange(es, q.range, [f EXCEPT !.model = None])}]

\* dashboard_event_window_start
WindowStart(range) == Previous(range).start

Loaded(range) ==
    IF range = "All" THEN events
    ELSE LET start == WindowStart(range) IN {e \in events : e.at >= start}

=============================================================================
