----------------------------- MODULE EventPages -----------------------------
(***************************************************************************)
(* Reading the events of a task page by page: by iterations                *)
(* (bll/event/metric_events_iterator.py with its subclasses, debug images  *)
(* and plots) and by events (bll/event/events_iterator.py), while the task *)
(* goes on reporting.                                                      *)
(***************************************************************************)
EXTENDS EventHistory

CONSTANTS
  PageSizes, \* iter_count and batch_size of a request
  UrlsExpire \* debug images, whose urls are used again; plots have none

ASSUME PagesAssumption == PageSizes \subseteq Nat \ {0} /\ UrlsExpire \in BOOLEAN

VARIABLES
  page,  \* the scroll state in Redis: for each series the last invalid iteration, the window
  shown, \* history: the iterations shown since the state was created or refreshed
  scroll \* what a scroll id holds, with the history of what was read

pagesVars == <<samples, last, view, answer, page, shown, scroll>>

NoPage == [open |-> FALSE, invalid |-> [x \in {} |-> 0], min |-> 0, max |-> 0]
NoScroll == [open |-> FALSE, earlier |-> TRUE, key |-> 0, read |-> {}]

-----------------------------------------------------------------------------
(* MetricEventsIterator                                                    *)

\* fill_variant_state_data: the url of the last event, and when it was used before that.
LastInvalid(x) ==
  LET final == CHOOSE s \in Of(x) : \A t \in Of(x) : t.iter <= s.iter
      before == {s.iter : s \in {y \in Of(x) : y.url = final.url}} \ {final.iter}
  IN  IF before = {} \/ ~UrlsExpire THEN 0 ELSE Max(before)

\* _init_task_states, for some of the metrics.
InvalidOf(metrics) ==
  [x \in {y \in Series : y[1] \in metrics /\ Of(y) # {}} |-> LastInvalid(x)]

NewPage == [NoPage EXCEPT !.open = TRUE, !.invalid = InvalidOf({x[1] : x \in Series})]

\* metric_stats of the task names the metrics of the last batch and no others
\* (update_statistics): a batch is an iteration here, and carries a later timestamp.
MetricsOfLastBatch ==
  {s.series[1] : s \in {y \in samples : \A t \in samples : t.iter <= y.iter}}

\* _reinit_outdated_task_states: the metrics of metric_stats get new states, the others
\* keep theirs; the window is forgotten, so that the last iteration comes next.
RefreshedPage(p) ==
  LET fresh == InvalidOf(MetricsOfLastBatch)
  IN  [NoPage EXCEPT !.open = TRUE,
         !.invalid = [x \in DOMAIN fresh \cup DOMAIN p.invalid |->
                        IF x \in DOMAIN fresh THEN fresh[x] ELSE p.invalid[x]]]

IsValid(p, s) == s.series \in DOMAIN p.invalid /\ s.iter > p.invalid[s.series]

\* The events of the metrics in the state on the requested side of the window.
Reached(p, earlier) ==
  {s \in samples : /\ \E x \in DOMAIN p.invalid : x[1] = s.series[1]
                   /\ earlier /\ p.min > 0 => s.iter < p.min
                   /\ ~earlier /\ p.max > 0 => s.iter > p.max}

\* The size iterations of S that come first in the direction.
FirstIterations(S, size, earlier) ==
  LET iters == {s.iter : s \in S}
  IN  {i \in iters : Cardinality({j \in iters : IF earlier THEN j > i ELSE j < i}) < size}

\* _get_task_metric_events: iterations without a valid event are dropped afterwards, and
\* the window moves to what is left, if anything is.
GetPage(size, navigate_earlier) ==
  /\ \E p \in {NewPage} \cup (IF page.open THEN {page, RefreshedPage(page)} ELSE {}) :
       LET earlier == navigate_earlier \/ p.max = 0
           hits == Reached(p, earlier)
           iters == {i \in FirstIterations(hits, size, earlier) :
                       \E s \in hits : s.iter = i /\ IsValid(p, s)}
       IN  /\ page' = IF iters = {} THEN p ELSE [p EXCEPT !.min = Min(iters), !.max = Max(iters)]
           /\ shown' = IF p.max = 0 THEN iters ELSE shown \cup iters
  /\ UNCHANGED <<historyVars, scroll>>

-----------------------------------------------------------------------------
(* EventsIterator.  Iterations begin at 1 here: a scroll id with the key 0  *)
(* starts from the beginning again.                                        *)

After(sc) == {s \in samples : \/ ~sc.open \/ sc.key = 0
                              \/ IF sc.earlier THEN s.iter < sc.key ELSE s.iter > sc.key}

WholeBatch(hits, key) == hits \cup {s \in samples : s.iter = key}

\* The first hits by the key; which of those with the last key, the index decides.
ReadBatch(sc, size) ==
  \E hits \in SUBSET After(sc) :
    LET iters == {s.iter : s \in hits}
        key == IF sc.earlier THEN Min(iters) ELSE Max(iters)
    IN  /\ hits # {}
        /\ Cardinality(hits) = IF Cardinality(After(sc)) < size THEN Cardinality(After(sc)) ELSE size
        /\ \A s \in After(sc) \ hits : IF sc.earlier THEN s.iter <= key ELSE s.iter >= key
        /\ scroll' = [open |-> TRUE, earlier |-> sc.earlier, key |-> key,
                      read |-> sc.read \cup WholeBatch(hits, key)]

\* An empty answer carries no key, and no more will come.
GetBatch(size, earlier) ==
  /\ \E sc \in {[NoScroll EXCEPT !.earlier = earlier]} \cup (IF scroll.open THEN {scroll} ELSE {}) :
       ReadBatch(sc, size) \/ (After(sc) = {} /\ scroll' = NoScroll)
  /\ UNCHANGED <<historyVars, page, shown>>

-----------------------------------------------------------------------------
PagesInit == HistoryInit /\ page = NoPage /\ shown = {} /\ scroll = NoScroll

PagesNext ==
  \/ ReportIteration /\ UNCHANGED <<page, shown, scroll>>
  \/ \E size \in PageSizes : \E earlier \in BOOLEAN : GetPage(size, earlier)

ScrollNext ==
  \/ ReportIteration /\ UNCHANGED <<page, shown, scroll>>
  \/ \E size \in PageSizes : \E earlier \in BOOLEAN : GetBatch(size, earlier)

PagesTypeOK ==
  /\ page.min \in 0..page.max /\ page.max \in 0..last
  /\ DOMAIN page.invalid \subseteq Series
  /\ shown \subseteq 1..last
  /\ scroll.key \in 0..last /\ scroll.read \subseteq samples

\* However a client pages to and fro while the task reports, it has seen every valid
\* iteration, and every event, between the ends of what it has seen.  And the pages agree
\* with the history views, which find it out differently, on the images that still are theirs.
NoGapsInPages ==
  /\ \A s \in samples : IsValid(page, s) /\ (\E i, j \in shown : i <= s.iter /\ s.iter <= j)
                          => s.iter \in shown
  /\ \A s \in samples : (\E r, t \in scroll.read : r.iter <= s.iter /\ s.iter <= t.iter)
                          => s \in scroll.read
  /\ \A s \in samples : UrlsExpire =>
                          (s.iter > LastInvalid(s.series) <=> s.iter >= MinIteration(s.series))

\* What the readers of a task's events are promised, whether they walk, page or scroll: no
\* picture of another iteration, no step that cannot be taken back, nothing left out.
EventsAreShown == HistoryIsWalkable /\ NoGapsInPages
=============================================================================
