---------------------------- MODULE MCUsageChart ----------------------------
(***************************************************************************)
(* UsageChart for TLC, with its properties.                                *)
(***************************************************************************)
EXTENDS UsageChart, TLC

Symmetry == Permutations(Projects) \cup Permutations(Models)

\* Events of different projects and models only in one time zone.
OneVariety ==
    \/ zone.jump = 0 /\ zone.at = Min(Shifts)
    \/ zone.jump # 0 /\ Cardinality({<<e.project, e.model>> : e \in events}) <= 1

NoFilter == [project |-> None, model |-> None]

ChartSums(range, b) ==
    LET es    == FilterRange(events, range, NoFilter)
        chart == DashboardBuckets(es, range, b)
    IN  /\ UNION Range(chart) = es
        /\ \A s, t \in DOMAIN chart : s # t => chart[s] \cap chart[t] = {}

Repeated(u) == Cardinality(Instants(zone, Local(zone, u))) > 1

\* No bucket begins at a local time that the zone leaves out or moves by a
\* part of a bucket, and the range neither begins nor ends in local time that
\* the zone repeats.
Plain(b, i) ==
    /\ b \in {"30m", "1h"} => zone.jump % Width(b) = 0
    /\ \A l \in zone.at..zone.at + 2 * Hour : l % Size(b) = 0 => Instants(zone, l) # {}
    /\ ~Repeated(i.start) /\ ~Repeated(i.end)

\* Every event of the range is in exactly one bucket of the chart, also when
\* the zone changes its offset within the range and when the present cuts the
\* last bucket short; unless the range is not plain, or its buckets are more
\* than are filled and not more than are estimated.
ChartExact ==
    \A range \in Ranges, b \in Buckets :
        LET i == Interval(range)
        IN  Plain(b, i) /\ Estimate(b, i) \notin MaxBucketCount(b) + 1..MaxEstimate =>
                ChartSums(range, b)

\* The events the dashboard loads, from the start of the previous period on,
\* give the same dashboard as all events.
WindowEnough == \A q \in Requests : Compose(Loaded(q.range), q) = Compose(events, q)

\* The filters that are applied are among those that are offered, and never
\* hide all usage of a range that has some.
SelectionOffered ==
    \A q \in Requests :
        LET d == Compose(events, q)
        IN  /\ d.filters.project \in d.projects \cup {None}
            /\ d.filters.model \in d.models \cup {None}
            /\ FilterRange(events, q.range, NoFilter) # {} => d.total # {}

DashboardSound == WindowEnough /\ SelectionOffered

=============================================================================
