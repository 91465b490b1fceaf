--------------------------- MODULE ScalarHistogram ---------------------------
(***************************************************************************)
(* Histograms of the scalars of a task (bll/event/event_metrics.py).  A    *)
(* first query finds the range of iterations of every variant, from which  *)
(* an interval follows; variants with intervals that are nearly the same   *)
(* make a group, and every group is queried by a thread of its own, while  *)
(* the task goes on reporting.  Elasticsearch is external: a histogram has *)
(* a point at each multiple of the interval that an event belongs to.      *)
(* Times take the place of iterations when the histogram is one over time. *)
(***************************************************************************)
EXTENDS Naturals, FiniteSets, FiniteSetsExt, Sequences, SequencesExt

CONSTANTS
  Variants,       \* pairs of a metric and a variant of it; both are numbers, for their order
  ShownMetrics,   \* metrics in the answer of a query
  ShownVariants,  \* variants of a metric in the answer of a query
  MaxGroup,       \* MAX_AGGS_ELEMENTS_COUNT: variants of a group
  MaxBuckets,     \* MAX_SAMPLE_BUCKETS: points of a group
  LateReports     \* bound: what the task may report while a request is at work

ASSUME HistogramAssumption ==
  Variants \subseteq Nat \X Nat /\ {ShownMetrics, ShownVariants, MaxGroup, MaxBuckets} \subseteq Nat \ {0}

VARIABLES
  iterations, \* those of the events of each variant
  histogram   \* the request: samples, intervals, and the points found so far

histogramVars == <<iterations, histogram>>

-----------------------------------------------------------------------------
\* _get_task_metric_intervals: the variants that the query returns, in the order of names.
Shown(S) ==
  LET metrics == {x[1] : x \in S}
  IN  {x \in S : /\ Cardinality({k \in metrics : k < x[1]}) < ShownMetrics
                 /\ Cardinality({y \in S : y[1] = x[1] /\ y[2] < x[2]}) < ShownVariants}
WithEvents == {x \in Variants : iterations[x] # {}}

Quotient(a, b) == (a + b - 1) \div b \* rounded up

\* Mutant of IntervalFor: rounded down.
IntervalDown(range, samples) == IF range < samples THEN 1 ELSE range \div samples

\* _build_metric_interval
IntervalFor(range, samples) == Quotient(range, samples)
MetricInterval(x, samples) ==
  LET its   == iterations[x]
      range == Max(its) - Min(its) + 1
      width == IntervalFor(range, samples)
  IN  IF Cardinality(its) < samples THEN [of |-> x, width |-> 1, size |-> Cardinality(its)]
      ELSE [of |-> x, width |-> width, size |-> Quotient(range, width)]

-----------------------------------------------------------------------------
(* _group_task_metric_intervals                                            *)

Narrower(i, j) ==
  \/ i.width < j.width
  \/ i.width = j.width /\ (i.of[1] < j.of[1] \/ (i.of[1] = j.of[1] /\ i.of[2] < j.of[2]))

NoGroup == [width |-> 0, bound |-> 0, size |-> 0, members |-> {}]
StartGroup(i) == [width |-> i.width, bound |-> i.width + i.width \div 10, size |-> i.size, members |-> {i.of}]
Closes(group, i) ==
  \/ i.width > group.bound
  \/ group.size + i.size > MaxBuckets
  \/ Cardinality(group.members) >= MaxGroup
Joined(group, i) ==
  [group EXCEPT !.members = @ \cup {i.of}, !.size = @ + i.size, !.width = IF i.width > @ THEN i.width ELSE @]

\* One interval after the other; the last group is open.
Grouped(groups, i) ==
  IF Closes(Last(groups), i) THEN Append(groups, StartGroup(i))
  ELSE Append(Front(groups), Joined(Last(groups), i))
IntervalGroups(intervals) ==
  LET sorted == SetToSortSeq(intervals, Narrower)
      all    == FoldLeft(Grouped, <<NoGroup>>, sorted)
  IN  {all[k] : k \in 2..Len(all)}

-----------------------------------------------------------------------------
NoHistogram == [pc |-> "none", samples |-> 1, intervals |-> {}, groups |-> {}, points |-> <<>>, seen |-> <<>>]

\* scalar_metrics_iter_histogram
AskIntervals ==
  /\ histogram.pc = "none"
  /\ LET intervals == {MetricInterval(x, histogram.samples) : x \in Shown(WithEvents)}
     IN  histogram' = [histogram EXCEPT !.pc = "groups", !.intervals = intervals, !.groups = IntervalGroups(intervals),
                                        !.points = [x \in {} |-> {}], !.seen = iterations]
  /\ UNCHANGED iterations

\* ScalarKey: a point stands for the iterations, or times, from one multiple of the width on.
PointsOf(x, width) == {i \div width : i \in iterations[x]}

\* _get_scalar_average
AskGroup(group) ==
  /\ histogram.pc = "groups" /\ group \in histogram.groups
  /\ group.members \cap DOMAIN histogram.points = {}
  /\ LET found == Shown(group.members)
     IN  histogram' = [histogram EXCEPT !.points =
           [x \in DOMAIN @ \cup found |-> IF x \in found THEN PointsOf(x, group.width) ELSE @[x]]]
  /\ UNCHANGED iterations

Answered == histogram.pc = "groups" /\ \A g \in histogram.groups : g.members \cap DOMAIN histogram.points # {}

\* The task reports on.
ReportLate ==
  /\ histogram.pc = "groups" /\ ~Answered /\ iterations = histogram.seen
  /\ \E late \in LateReports : iterations' = [iterations EXCEPT ![late.of] = @ \cup late.iterations]
  /\ UNCHANGED histogram

HistogramNext == AskIntervals \/ ReportLate \/ \E g \in histogram.groups : AskGroup(g)

\* Every request for so many samples, of a task with so many events.
HistogramInit(cases, samples) ==
  /\ iterations \in [Variants -> cases]
  /\ \E n \in samples : histogram = [NoHistogram EXCEPT !.samples = n]

-----------------------------------------------------------------------------
\* An answer has every variant that had events when it was asked for, as far as the limits
\* of a query go: each one came into one group, none of them too large, with an interval
\* that is its own one or at most a tenth wider.  The histogram of a variant has at most one
\* point more than the samples asked for (they are counted from a multiple of the interval,
\* not from the first iteration), and one more for each iteration that was reported while
\* the request was at work.
HistogramsFit ==
  Answered =>
    /\ DOMAIN histogram.points = {i.of : i \in histogram.intervals}
    /\ DOMAIN histogram.points = Shown({x \in Variants : histogram.seen[x] # {}})
    /\ \A i \in histogram.intervals :
         /\ Cardinality({g \in histogram.groups : i.of \in g.members}) = 1
         /\ \A g \in histogram.groups : i.of \in g.members =>
              g.width >= i.width /\ 10 * (g.width - i.width) <= i.width
         /\ Cardinality(histogram.points[i.of])
              <= histogram.samples + 1 + Cardinality(iterations[i.of] \ histogram.seen[i.of])
    /\ \A g \in histogram.groups :
         /\ Cardinality(g.members) <= MaxGroup
         /\ g.size <= MaxBuckets \/ Cardinality(g.members) = 1
=============================================================================
