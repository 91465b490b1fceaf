------------------------------ MODULE Workers ------------------------------
(***************************************************************************)
(* Workers in Redis (bll/workers/__init__.py).                             *)
(*                                                                         *)
(* A worker registers, reports its status again and again, and unregisters.*)
(* Its entry is a key that expires; sorted sets, one for the company and   *)
(* one for each tag, list the workers with the time their listing lapses.  *)
(* The key and the sets are written one after the other, by handlers that  *)
(* may be slow, while time passes and the worker may be unregistered.      *)
(*                                                                         *)
(* Time is what is left of it: a tick is a second of the server's clock.   *)
(***************************************************************************)
EXTENDS Naturals, FiniteSets

CONSTANTS
  Workers,
  UserTags, SystemTags, \* the tags a worker may report
  All,                  \* names the set of the workers of the company
  Timeout,              \* register_timeout of an entry
  Runs,                 \* the tasks that workers report
  NoRun,                \* a report without a task
  Threshold             \* threshold_sec of the watchdog: no longer silence is counted

Labels == UserTags \cup SystemTags
Lists == Labels \cup {All}

ASSUME WorkersAssumption ==
  /\ UserTags \cap SystemTags = {} /\ All \notin UserTags \cup SystemTags /\ NoRun \notin Runs
  /\ Timeout \in Nat \ {0} /\ Threshold \in Nat \ {0}

VARIABLES
  entries, \* the key of each worker: the seconds left of it and the tags in it
  listed,  \* the seconds left of the listing of a worker in each sorted set, 0 when lapsed
  request, \* the handler that serves the worker: agents wait for the answer
  runs     \* the tasks: status, and for how long last_update is unchanged

workerVars == <<entries, listed, request, runs>>

-----------------------------------------------------------------------------
NoEntry == [exists |-> FALSE, left |-> 0, tags |-> {}]
NoRequest == [pc |-> "none", tags |-> {}, left |-> 0, reports |-> FALSE]

Registered == {w \in Workers : entries[w].exists}
Busy(w) == request[w].pc # "none"

At(w, pc) == request[w].pc = pc

\* zrange after zremrangebyscore: what has lapsed is removed before it is read.
Listed(names) == {w \in Workers : \E l \in names : listed[l][w] > 0}

\* _get_keys: tags of a field are alternatives, fields and exclusions add up.
Keys(include, exclude) ==
  LET asked == {field \in {UserTags, SystemTags} : include \cap field # {}}
  IN  IF include \cup exclude = {} THEN Registered
      ELSE {w \in IF asked = {} THEN Listed({All}) ELSE Workers :
              \A field \in asked : w \in Listed(include \cap field)} \ Listed(exclude)

\* _get: keys without an entry are skipped.
GetAll(include, exclude) == Keys(include, exclude) \cap Registered

\* get_count, when no period is given.
GetCount(include, exclude) == Cardinality(Keys(include, exclude))

-----------------------------------------------------------------------------
(* _save_worker_data                                                       *)

\* Mutant of IndexedTags: system tags are forgotten.
UserTagsOnly(w) == request[w].tags \cap UserTags

IndexedTags(w) == request[w].tags

\* Mutant of ScoreFor: every set that lists the worker is refreshed.
ScoreForAllSets(w, l) == IF listed[l][w] > 0 \/ l \in IndexedTags(w) THEN request[w].left ELSE 0

ScoreFor(w, l) == IF l \in IndexedTags(w) THEN request[w].left ELSE listed[l][w]

\* setex; the expiration of all the listings is computed right after it.
SaveEntry(w) ==
  /\ At(w, "save")
  /\ entries' = [entries EXCEPT ![w] = [exists |-> TRUE, left |-> Timeout, tags |-> request[w].tags]]
  /\ request' = [request EXCEPT ![w].pc = "company", ![w].left = Timeout]
  /\ UNCHANGED <<listed, runs>>

ListInCompany(w) ==
  /\ At(w, "company")
  /\ listed' = [listed EXCEPT ![All][w] = request[w].left]
  /\ request' = [request EXCEPT ![w].pc = "tags"]
  /\ UNCHANGED <<entries, runs>>

\* The zadds of the tags, which stand next to each other, are one step; entries and
\* listings are read by others, never changed, so nobody can tell in which order.
ListByTags(w) ==
  /\ At(w, "tags")
  /\ listed' = [l \in Lists |-> IF l = All THEN listed[l] ELSE [listed[l] EXCEPT ![w] = ScoreFor(w, l)]]
  /\ request' = [request EXCEPT ![w] =
                   IF request[w].reports THEN [NoRequest EXCEPT !.pc = "report"] ELSE NoRequest]
  /\ UNCHANGED <<entries, runs>>

Save(w) == SaveEntry(w) \/ ListInCompany(w) \/ ListByTags(w)

-----------------------------------------------------------------------------
(* The endpoints                                                           *)

Register(w) ==
  /\ ~Busy(w)
  /\ \E tags \in SUBSET Labels : request' = [request EXCEPT ![w].pc = "save", ![w].tags = tags]
  /\ UNCHANGED <<entries, listed, runs>>

\* status_report begins with _get_worker, which registers a worker it does not find
\* (auto_register), without tags, and goes on.
Report(w) ==
  /\ ~Busy(w)
  /\ request' = [request EXCEPT ![w] =
       IF entries[w].exists THEN [NoRequest EXCEPT !.pc = "report", !.tags = entries[w].tags]
       ELSE [NoRequest EXCEPT !.pc = "save", !.reports = TRUE]]
  /\ UNCHANGED <<entries, listed, runs>>

\* The tags of each field are replaced when the request has them; then the report is
\* written to the task, unless the statistics before it failed; the entry is saved in
\* any case.
UpdateEntry(w) ==
  /\ At(w, "report")
  /\ \E given \in SUBSET {UserTags, SystemTags} : \E tags \in SUBSET UNION given :
       request' = [request EXCEPT ![w].pc = "save", ![w].tags = (@ \ UNION given) \cup tags]
  /\ \E run \in Runs \cup {NoRun} :
       runs' = [r \in Runs |-> IF r = run THEN [runs[r] EXCEPT !.silent = 0] ELSE runs[r]]
  /\ UNCHANGED <<entries, listed>>

\* One call; it leaves the sorted sets as they are.
Unregister(w) ==
  /\ entries[w].exists
  /\ entries' = [entries EXCEPT ![w] = NoEntry]
  /\ UNCHANGED <<listed, request, runs>>

-----------------------------------------------------------------------------
(* Time.  Scores are whole seconds, rounded down: a listing lapses with a   *)
(* tick, an entry at some time between that tick and the next one.          *)

Less(n) == IF n = 0 THEN 0 ELSE n - 1

EntryExpires(w) ==
  /\ entries[w].exists /\ entries[w].left = 0
  /\ entries' = [entries EXCEPT ![w] = NoEntry]
  /\ UNCHANGED <<listed, request, runs>>

Tick ==
  /\ \A w \in Registered : entries[w].left > 0
  /\ entries' = [w \in Workers |-> [entries[w] EXCEPT !.left = Less(@)]]
  /\ listed' = [l \in Lists |-> [w \in Workers |-> Less(listed[l][w])]]
  /\ request' = [w \in Workers |-> [request[w] EXCEPT !.left = Less(@)]]
  /\ runs' = [r \in Runs |-> [runs[r] EXCEPT !.silent = IF @ < Threshold THEN @ + 1 ELSE @]]

WorkersInit ==
  /\ entries = [w \in Workers |-> NoEntry]
  /\ listed = [l \in Lists |-> [w \in Workers |-> 0]]
  /\ request = [w \in Workers |-> NoRequest]
  /\ runs = [r \in Runs |-> [status |-> "stopped", silent |-> Threshold]]

Serve(w) == Save(w) \/ UpdateEntry(w)

WorkersNext ==
  \/ \E w \in Workers : Register(w) \/ Report(w) \/ Serve(w) \/ Unregister(w) \/ EntryExpires(w)
  \/ Tick

WorkersTypeOK ==
  /\ entries \in [Workers -> [exists: BOOLEAN, left: 0..Timeout, tags: SUBSET Labels]]
  /\ listed \in [Lists -> [Workers -> 0..Timeout]]
  /\ request \in [Workers -> [pc: {"none", "save", "company", "tags", "report"}, tags: SUBSET Labels,
                              left: 0..Timeout, reports: BOOLEAN]]
  /\ runs \in [Runs -> [status: {"in_progress", "stopped", "completed"}, silent: 0..Threshold]]

-----------------------------------------------------------------------------
\* A worker that waits for its answers is found by each of its tags, and by the absence
\* of the others, as long as its entry lives, however slowly its requests are served:
\* _save_worker_data writes the entry before the sorted sets, with one expiration.
LiveWorkersAreListed ==
  \A w \in Registered : ~Busy(w) /\ entries[w].left > 0 =>
    \A include \in SUBSET entries[w].tags : \A exclude \in SUBSET Labels :
      (\A l \in exclude : listed[l][w] = 0) => w \in GetAll(include, exclude)

\* A tag that a worker no longer reports stops finding it in the end, even if the worker
\* goes on reporting.
StaleTagsLapse ==
  \A w \in Workers : \A l \in Labels :
    listed[l][w] > 0 /\ l \notin entries[w].tags
      ~> (listed[l][w] = 0 \/ l \in entries[w].tags \cup request[w].tags)
=============================================================================
