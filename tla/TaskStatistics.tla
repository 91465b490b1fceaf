--------------------------- MODULE TaskStatistics ---------------------------
(***************************************************************************)
(* What a task or a model remembers of its scalars: add_events in          *)
(* bll/event/event_bll.py, get_last_metric_updates in bll/task/utils.py,   *)
(* update_statistics in bll/task/task_bll.py and bll/model/__init__.py.    *)
(*                                                                         *)
(* A batch of events is summed up in memory for each series.  The summary  *)
(* is merged into the document by two updates, after a read that tells for *)
(* which series there is room; several batches are merged at the same time.*)
(***************************************************************************)
EXTENDS Integers, Sequences, FiniteSets, FiniteSetsExt, Functions

CONSTANTS
  Scalars,     \* the series
  Batches,     \* what requests carry: sequences of events [series, iter, value]
  SkipSeries,  \* series whose iterations do not count (_skip_iteration_for_metric)
  MaxMetrics,  \* services.tasks.max_last_metrics
  Reporters,   \* handlers of events.add_batch
  MaxBatches   \* bound: batches that are reported

ASSUME StatisticsAssumption ==
  /\ Batches \subseteq Seq([series: Scalars, iter: Int, value: Int]) \ {<<>>} /\ SkipSeries \subseteq Scalars
  /\ IsFiniteSet(Reporters) /\ MaxMetrics \in Nat \ {0} /\ MaxBatches \in Nat

VARIABLES
  stats,  \* the document: last_iteration, unique_metrics, last_metrics
  adding, \* the handlers
  merged, \* history: the batches that were merged, with the series that were
  halted  \* history: a handler did not get to its end

statsVars == <<stats, adding, merged, halted>>

-----------------------------------------------------------------------------
(* The summary of a batch (_update_last_scalar_events_for_task)            *)

SeriesIn(batch) == {batch[i].series : i \in DOMAIN batch}
Places(batch, x) == {i \in DOMAIN batch : batch[i].series = x}

\* Comparisons are strict, so that the first of equals stays, but for the last value.
LeastOf(batch, x) ==
  batch[Min({i \in Places(batch, x) : \A j \in Places(batch, x) : batch[i].value <= batch[j].value})]

\* Mutant of GreatestOf: only the first event of a series is taken for its maximum.
FirstSeen(batch, x) == batch[Min(Places(batch, x))]

GreatestOf(batch, x) ==
  batch[Min({i \in Places(batch, x) : \A j \in Places(batch, x) : batch[i].value >= batch[j].value})]
FirstOf(batch, x) ==
  batch[Min({i \in Places(batch, x) : \A j \in Places(batch, x) : batch[i].iter <= batch[j].iter})]
LastOf(batch, x) ==
  batch[Max({i \in Places(batch, x) : \A j \in Places(batch, x) : batch[i].iter >= batch[j].iter})]

Count(batch, x) == Cardinality(Places(batch, x))
Total(batch, x) == SumFunction([i \in Places(batch, x) |-> batch[i].value])

\* task_iteration starts from 0.
Iterations(batch) == {batch[i].iter : i \in {j \in DOMAIN batch : batch[j].series \notin SkipSeries}}
IterationAfter(old, batch) == IF Iterations(batch) = {} THEN old ELSE Max({old, 0} \cup Iterations(batch))

-----------------------------------------------------------------------------
(* get_last_metric_updates                                                 *)

\* unique_metrics is read when the batch might not fit: the element at MaxMetrics less
\* the series of the batch exists.
KnownMetrics(batch) ==
  LET to_add == Cardinality(SeriesIn(batch))
  IN  IF to_add <= MaxMetrics /\ Cardinality(stats.unique) <= MaxMetrics - to_add THEN {}
      ELSE stats.unique

\* A series that is not known needs room, after those before it in the batch.
Room(known, batch, x) ==
  LET before == {y \in SeriesIn(batch) \ known : Min(Places(batch, y)) < Min(Places(batch, x))}
  IN  x \in known \/ Cardinality(known) + Cardinality(before) < MaxMetrics

\* The mean is stored, rounded to two decimals, and not the total: values are in
\* hundredths here.  $round prefers the even one of two that are as near.
RoundedMean(total, count) ==
  LET low == total \div count
      twice == 2 * (total % count)
  IN  IF twice > count \/ (twice = count /\ low % 2 = 1) THEN low + 1 ELSE low

\* The value and its iteration are set under one condition on the old value.
Updated(old, event, replaces) == IF replaces THEN [value |-> event.value, iter |-> event.iter] ELSE old

NoMetric == LET none == [value |-> 0, iter |-> 0]
            IN  [count |-> 0, mean |-> 0, min |-> none, max |-> none, first |-> none]

MergedMetric(old, batch, x) ==
  LET count == old.count + Count(batch, x)
      fresh == old.count = 0
  IN  [count |-> count,
       mean |-> RoundedMean(old.mean * old.count + Total(batch, x), count),
       min |-> Updated(old.min, LeastOf(batch, x), fresh \/ LeastOf(batch, x).value < old.min.value),
       max |-> Updated(old.max, GreatestOf(batch, x), fresh \/ GreatestOf(batch, x).value > old.max.value),
       first |-> Updated(old.first, FirstOf(batch, x), fresh)]

-----------------------------------------------------------------------------
Idle == [pc |-> "none", batch |-> <<>>, series |-> {}]

\* add_events, up to the indexing of the events.
AddEvents(r) ==
  /\ adding[r].pc = "none"
  /\ Len(merged) + Cardinality({q \in Reporters : adding[q].pc # "none"}) < MaxBatches
  /\ \E batch \in Batches : adding' = [adding EXCEPT ![r] = [Idle EXCEPT !.pc = "read", !.batch = batch]]
  /\ UNCHANGED <<stats, merged, halted>>

ReadMetrics(r) ==
  /\ adding[r].pc = "read"
  /\ LET batch == adding[r].batch
     IN  adding' = [adding EXCEPT ![r].pc = "update",
                      ![r].series = {x \in SeriesIn(batch) : Room(KnownMetrics(batch), batch, x)}]
  /\ UNCHANGED <<stats, merged, halted>>

\* set_last_update with the extra updates.
UpdateTask(r) ==
  /\ adding[r].pc = "update"
  /\ LET batch == adding[r].batch
         series == adding[r].series
     IN  /\ stats' = [stats EXCEPT !.last_iteration = IterationAfter(@, batch),
                        !.unique = @ \cup series,
                        !.value = [x \in Scalars |-> IF x \in series THEN LastOf(batch, x).value ELSE @[x]]]
         /\ adding' = [adding EXCEPT ![r] = IF series = {} THEN Idle ELSE [@ EXCEPT !.pc = "merge"]]
  /\ UNCHANGED <<merged, halted>>

\* The update with the aggregation, which is atomic.
MergeMetrics(r) ==
  /\ adding[r].pc = "merge"
  /\ LET batch == adding[r].batch
         series == adding[r].series
     IN  /\ stats' = [stats EXCEPT !.metrics =
                        [x \in Scalars |-> IF x \in series THEN MergedMetric(@[x], batch, x) ELSE @[x]]]
         /\ merged' = Append(merged, [batch |-> batch, series |-> series])
  /\ adding' = [adding EXCEPT ![r] = Idle]
  /\ UNCHANGED halted

\* A call raises, or the server stops.
AddFails(r) ==
  /\ adding[r].pc # "none" /\ ~halted
  /\ adding' = [adding EXCEPT ![r] = Idle]
  /\ halted' = TRUE
  /\ UNCHANGED <<stats, merged>>

StatsInit ==
  /\ stats = [last_iteration |-> 0, unique |-> {}, value |-> [x \in Scalars |-> 0],
              metrics |-> [x \in Scalars |-> NoMetric]]
  /\ adding = [r \in Reporters |-> Idle]
  /\ merged = <<>>
  /\ halted = FALSE

StatsNext == \E r \in Reporters : \/ AddEvents(r) \/ ReadMetrics(r) \/ UpdateTask(r)
                                  \/ MergeMetrics(r) \/ AddFails(r)

StatsTypeOK ==
  /\ stats.last_iteration \in Nat /\ stats.unique \subseteq Scalars
  /\ \A x \in Scalars : stats.metrics[x].count \in Nat
  /\ \A r \in Reporters : /\ adding[r].pc \in {"none", "read", "update", "merge"}
                          /\ adding[r].series \subseteq SeriesIn(adding[r].batch)
  /\ Len(merged) <= MaxBatches /\ halted \in BOOLEAN

MergedOf(x) == {k \in DOMAIN merged : x \in merged[k].series}
EventsOf(x) ==
  UNION {{merged[k].batch[i] : i \in Places(merged[k].batch, x)} : k \in MergedOf(x)}
Distance(a, b) == IF a < b THEN b - a ELSE a - b

\* At any time, whatever batches are being merged, the document has the count, the
\* extremes with an iteration where they occurred, and, but for half a hundredth for each
\* batch, the mean of the events that were merged; and no later iteration.  Once every batch
\* is in, unless one stopped between its two updates, the last value is between the extremes.
\* The limit on the series of a task is exceeded only by batches that were being added at
\* the same time, each of them by the limit at most.
StatisticsAddUp ==
  /\ Cardinality(stats.unique) <= MaxMetrics * Cardinality(Reporters)
  /\ \A x \in Scalars :
       LET m == stats.metrics[x]
           total == SumFunction([k \in MergedOf(x) |-> Total(merged[k].batch, x)])
           At(field) == [series |-> x, iter |-> field.iter, value |-> field.value]
       IN  /\ m.count = SumFunction([k \in MergedOf(x) |-> Count(merged[k].batch, x)])
           /\ m.count > 0 => /\ {At(m.min), At(m.max), At(m.first)} \subseteq EventsOf(x)
                             /\ \A e \in EventsOf(x) :
                                  /\ m.min.value <= e.value /\ e.value <= m.max.value
                                  /\ x \in SkipSeries \/ e.iter <= stats.last_iteration
           /\ 2 * Distance(m.mean * m.count, total) <= m.count * Cardinality(MergedOf(x))
           /\ x \in stats.unique /\ (\A r \in Reporters : adding[r].pc = "none") /\ ~halted =>
                m.min.value <= stats.value[x] /\ stats.value[x] <= m.max.value
=============================================================================
