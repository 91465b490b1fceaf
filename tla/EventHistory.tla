---------------------------- MODULE EventHistory ----------------------------
(***************************************************************************)
(* Walking through the debug images and the plots that a task has reported *)
(* (bll/event/history_debug_image_iterator.py, history_plots_iterator.py). *)
(*                                                                         *)
(* A task reports, iteration by iteration, a sample for some of its series *)
(* (pairs of metric and variant).  It has a few file names for each series *)
(* and uses them in turn: an old sample whose name was used again shows    *)
(* another image.  A view in Redis keeps the position, and for each series *)
(* the iterations that were valid when the view was created or refreshed.  *)
(***************************************************************************)
EXTENDS Naturals, FiniteSets, FiniteSetsExt

CONSTANTS
  Series,  \* pairs of a metric and a variant; both are numbers, for their order
  Recycle, \* file names of a series
  Reports, \* bound: the series that may be reported together
  MaxIter  \* bound: iterations that are reported; 0 stands for none

ASSUME SeriesAssumption ==
  /\ Series \subseteq Nat \X Nat /\ Series # {} /\ IsFiniteSet(Series)
  /\ Reports \subseteq SUBSET Series \ {{}} /\ Recycle \in Nat \ {0} /\ MaxIter \in Nat

VARIABLES
  samples, \* the events in Elasticsearch
  last,    \* the last iteration that was reported
  view,    \* the state that a client walks with
  answer   \* the sample the last request returned

historyVars == <<samples, last, view, answer>>

NoSample == [series |-> CHOOSE x \in Series : TRUE, iter |-> 0, url |-> 0]
NoView == [open |-> FALSE, series |-> NoSample.series, iter |-> 0, current |-> FALSE,
           ranges |-> [x \in {} |-> 0], asOf |-> 0]

Of(x) == {s \in samples : s.series = x}

-----------------------------------------------------------------------------
\* The task reports the next iteration; it was silent about the other series, and an
\* iteration without events leaves nothing to tell it from the next one.
ReportIteration ==
  /\ last < MaxIter
  /\ \E reported \in Reports :
       samples' = samples \cup
         {[series |-> x, iter |-> last + 1, url |-> Cardinality(Of(x)) % Recycle] : x \in reported}
  /\ last' = last + 1
  /\ UNCHANGED <<view, answer>>

-----------------------------------------------------------------------------
(* Debug images                                                            *)

NamesOf(x) == {s.url : s \in Of(x)}
LastUse(x, url) == Max({s.iter : s \in {y \in Of(x) : y.url = url}})

\* Mutant of MinIteration: the oldest use of a name instead of the last one.
FirstIteration(x) == Min({s.iter : s \in Of(x)})

\* _get_metric_variant_iterations: the smallest of the last uses of the names.
MinIteration(x) == Min({LastUse(x, url) : url \in NamesOf(x)})

\* _reset_variant_states
Ranges(metric, current) ==
  [x \in {y \in Series : Of(y) # {} /\ (current => y[1] = metric)} |->
     [min |-> MinIteration(x), max |-> Max({s.iter : s \in Of(x)})]]

Navigable(v) == {x \in DOMAIN v.ranges : v.current => x[1] = v.series[1]}
InRange(v, s) == s.series \in Navigable(v) /\ v.ranges[s.series].min <= s.iter

SeriesBefore(x, y) == x[1] < y[1] \/ (x[1] = y[1] /\ x[2] < y[2])
SampleBefore(s, t) == s.iter < t.iter \/ (s.iter = t.iter /\ SeriesBefore(s.series, t.series))

Here(v) == [series |-> v.series, iter |-> v.iter, url |-> 0]
Beyond(v, s, earlier) == IF earlier THEN SampleBefore(s, Here(v)) ELSE SampleBefore(Here(v), s)

\* The first hit in the order of the request.
FirstHit(S, earlier) ==
  CHOOSE s \in S : \A t \in S \ {s} : IF earlier THEN SampleBefore(t, s) ELSE SampleBefore(s, t)

\* _get_next_for_current_iteration and _get_next_for_another_iteration
OfThisIteration(v, earlier) ==
  {s \in samples : s.iter = v.iter /\ InRange(v, s) /\ Beyond(v, s, earlier)}

OfOtherIterations(v, earlier) ==
  {s \in samples : InRange(v, s) /\ IF earlier THEN s.iter < v.iter ELSE s.iter > v.iter}

NextSample(v, earlier, next_iteration) ==
  LET here == IF next_iteration THEN {} ELSE OfThisIteration(v, earlier)
      elsewhere == OfOtherIterations(v, earlier)
  IN  IF here # {} THEN FirstHit(here, earlier)
      ELSE IF elsewhere # {} THEN FirstHit(elsewhere, earlier)
      ELSE NoSample

\* _fill_res_and_update_state
MovedTo(v, s) == IF s = NoSample THEN v ELSE [v EXCEPT !.series = s.series, !.iter = s.iter]

\* get_next_sample.  A view whose first request found nothing has no iteration and
\* cannot be used: the comparisons fail.
GetNextSample(earlier, next_iteration) ==
  /\ view.open /\ view.iter > 0
  /\ LET found == NextSample(view, earlier, next_iteration)
     IN  answer' = found /\ view' = MovedTo(view, found)
  /\ UNCHANGED <<samples, last>>

\* get_sample_for_variant: the requested iteration or the last one before it.
LatestSample(v, x, upTo) ==
  LET found == {s \in Of(x) : s.iter <= upTo /\ v.ranges[x].min <= s.iter}
  IN  IF x \notin DOMAIN v.ranges \/ found = {} THEN NoSample ELSE FirstHit(found, TRUE)

OpenView(x, current) ==
  [NoView EXCEPT !.open = TRUE, !.series = x, !.current = current,
                 !.ranges = Ranges(x[1], current), !.asOf = last]
Refreshed(v) == [v EXCEPT !.ranges = Ranges(v.series[1], v.current), !.asOf = last]

GetSampleForVariant(x, current) ==
  /\ LET views == {OpenView(x, current)}
            \cup (IF view.open /\ view.current = current /\ (current => view.series[1] = x[1])
                    THEN {view, Refreshed(view)} ELSE {})
     IN  \E outcome \in {<<v, LatestSample(v, x, upTo)>> : v \in views, upTo \in 1..last} :
           answer' = outcome[2] /\ view' = MovedTo(outcome[1], outcome[2])
  /\ UNCHANGED <<samples, last>>

-----------------------------------------------------------------------------
(* Plots: the events of one metric and one iteration are shown together.    *)

Groups == {<<s.iter, s.series[1]>> : s \in samples}

\* get_next_sample: by metric within an iteration, or the next iteration of the metric.
NextGroups(g, earlier, next_iteration, current) ==
  {h \in Groups :
     /\ current => h[2] = g[2]
     /\ IF earlier THEN \/ h[1] < g[1]
                        \/ h[1] = g[1] /\ h[2] < g[2] /\ ~(next_iteration \/ current)
        ELSE \/ h[1] > g[1]
             \/ h[1] = g[1] /\ h[2] > g[2] /\ ~(next_iteration \/ current)}

\* _get_metric_events_for_condition: one iteration, then one metric, in the same order.
FirstGroup(S, earlier) ==
  LET iter == IF earlier THEN Max({g[1] : g \in S}) ELSE Min({g[1] : g \in S})
      metrics == {g[2] : g \in {h \in S : h[1] = iter}}
  IN  <<iter, IF earlier THEN Max(metrics) ELSE Min(metrics)>>

-----------------------------------------------------------------------------
HistoryInit == samples = {} /\ last = 0 /\ view = NoView /\ answer = NoSample

HistoryNext ==
  \/ ReportIteration
  \/ \E earlier, next_iteration \in BOOLEAN : GetNextSample(earlier, next_iteration)
  \/ \E x \in Series : \E current \in BOOLEAN : GetSampleForVariant(x, current)

HistoryTypeOK ==
  /\ samples \subseteq [series: Series, iter: 1..MaxIter, url: 0..(Recycle - 1)]
  /\ last \in 0..MaxIter
  /\ view.iter \in 0..MaxIter /\ view.asOf \in 0..last /\ DOMAIN view.ranges \subseteq Series
  /\ answer \in samples \cup {NoSample}

\* No sample is returned whose file already showed another image when the view was
\* created or refreshed, as long as the task uses its names in turn.  Whoever goes one step
\* on and one step back, or back and on, is where they were, at images and at plots:
\* nothing is skipped and nothing comes twice.
HistoryIsWalkable ==
  /\ answer # NoSample =>
       ~\E s \in Of(answer.series) : s.url = answer.url /\ answer.iter < s.iter /\ s.iter <= view.asOf
  /\ \A earlier \in BOOLEAN :
       LET next == NextSample(view, earlier, FALSE)
           back == NextSample(MovedTo(view, next), ~earlier, FALSE)
       IN  view.open /\ view.iter > 0 /\ InRange(view, Here(view)) /\ next # NoSample
             => back.series = view.series /\ back.iter = view.iter
  /\ \A g \in Groups : \A earlier, current \in BOOLEAN :
       LET on == NextGroups(g, earlier, FALSE, current)
       IN  on # {} =>
             FirstGroup(NextGroups(FirstGroup(on, earlier), ~earlier, FALSE, current), ~earlier) = g
=============================================================================
