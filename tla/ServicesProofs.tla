--------------------------- MODULE ServicesProofs ---------------------------
(***************************************************************************)
(* What holds of the components that MCServices checks one by one: Workers *)
(* (with the Watchdog), TagsCache and Serving, which live on Redis keys that*)
(* expire, the export and import of PrePopulate, Startup, Dispatch, and     *)
(* TaskEdits.                                                              *)
(*                                                                         *)
(* In each of them a handler makes several calls while keys expire, other  *)
(* handlers write or servers are killed, so the property a reader cares    *)
(* about is not inductive: ListedInv, Sound, SteadyInv, ExportInv,         *)
(* ImportInv, StartupInv and EditInv say what holds at each point in       *)
(* between, and what a handler carries from one call to the next.          *)
(***************************************************************************)
EXTENDS Watchdog, TagsCache, Serving, PrePopulate, Startup, Dispatch, TaskEdits, FilteringProofs

-----------------------------------------------------------------------------
(* Workers.  A handler writes the entry first, then the list of the company,*)
(* then those of the tags, while time passes and the worker may be          *)
(* unregistered.  ListedInv says at each of these points which listings last*)
(* as long as the entry, and that the expiration the handler carries does.  *)

Points == {"none", "save", "company", "tags", "report"}

ListedAll(w) == listed[All][w] >= entries[w].left
ListedTags(w) == \A l \in entries[w].tags : listed[l][w] >= entries[w].left
Carried(w) == request[w].left >= entries[w].left /\ request[w].tags = entries[w].tags

ListedInv ==
  \A w \in Workers : entries[w].exists =>
    /\ request[w].pc \in {"none", "save", "report"} => ListedAll(w) /\ ListedTags(w)
    /\ request[w].pc = "company" => Carried(w)
    /\ request[w].pc = "tags" => Carried(w) /\ ListedAll(w)

WorkersInv == WatchdogTypeOK /\ ListedInv

Entry == [exists: BOOLEAN, left: 0..Timeout, tags: SUBSET Labels]
Request == [pc: Points, tags: SUBSET Labels, left: 0..Timeout, reports: BOOLEAN]
Run == [status: {"in_progress", "stopped", "completed"}, silent: 0..Threshold]

LEMMA TypesAre ==
  WorkersTypeOK <=> /\ entries \in [Workers -> Entry] /\ listed \in [Lists -> [Workers -> 0..Timeout]]
                    /\ request \in [Workers -> Request] /\ runs \in [Runs -> Run]
BY DEF WorkersTypeOK, Entry, Request, Run, Points

LEMMA Constants ==
  Timeout \in Nat /\ Threshold \in Nat /\ 0 \in 0..Timeout /\ Timeout \in 0..Timeout /\ 0 \in 0..Threshold
BY WorkersAssumption DEF WorkersAssumption

\* What a step of other workers, or of nobody, leaves as it is for w.
Same(w) ==
  /\ entries'[w] = entries[w] /\ request'[w] = request[w]
  /\ \A l \in Lists : listed'[l][w] = listed[l][w]

LEMMA AllIsAList == All \in Lists /\ Labels \subseteq Lists BY DEF Lists

\* The invariant of one worker.
Holds(w) ==
  entries[w].exists =>
    /\ request[w].pc \in {"none", "save", "report"} => ListedAll(w) /\ ListedTags(w)
    /\ request[w].pc = "company" => Carried(w)
    /\ request[w].pc = "tags" => Carried(w) /\ ListedAll(w)

LEMMA SameHolds ==
  ASSUME WorkersTypeOK, NEW w \in Workers, Holds(w), Same(w)
  PROVE  Holds(w)'
<1>1. entries[w].exists => entries[w].tags \subseteq Lists BY TypesAre, AllIsAList DEF Entry
<1>2. QED BY <1>1, AllIsAList DEF Same, Holds, ListedAll, ListedTags, Carried

-----------------------------------------------------------------------------
(* Steps of one worker.                                                     *)

LEMMA SaveEntryHolds ==
  ASSUME WorkersTypeOK, NEW w \in Workers, SaveEntry(w)
  PROVE  /\ WorkersTypeOK' /\ Holds(w)' /\ \A v \in Workers \ {w} : Same(v)
<1>1. /\ entries' = [entries EXCEPT ![w] = [exists |-> TRUE, left |-> Timeout, tags |-> request[w].tags]]
      /\ request' = [request EXCEPT ![w].pc = "company", ![w].left = Timeout]
      /\ UNCHANGED <<listed, runs>>
  BY DEF SaveEntry
<1>2. request[w] \in Request /\ entries \in [Workers -> Entry] /\ request \in [Workers -> Request]
  BY TypesAre
<1>3. /\ request'[w].pc = "company" /\ request'[w].left = Timeout /\ request'[w].tags = request[w].tags
      /\ request'[w] \in Request
  BY <1>1, <1>2, Constants DEF Request, Points
<1>4. request' \in [Workers -> Request] /\ \A v \in Workers \ {w} : request'[v] = request[v]
  BY <1>1, <1>2, <1>3
<1>5. entries' \in [Workers -> Entry] BY <1>1, <1>2, Constants DEF Entry, Request
<1>6. WorkersTypeOK' BY <1>1, <1>4, <1>5, TypesAre DEF WorkersTypeOK, Entry, Request, Points
<1>7. Holds(w)' BY <1>1, <1>2, <1>3, Constants DEF Holds, Carried
<1>8. QED BY <1>1, <1>2, <1>4, <1>6, <1>7 DEF Same

LEMMA ListInCompanyHolds ==
  ASSUME WorkersTypeOK, NEW w \in Workers, Holds(w), ListInCompany(w)
  PROVE  /\ WorkersTypeOK' /\ Holds(w)' /\ \A v \in Workers \ {w} : Same(v)
<1>1. /\ listed' = [listed EXCEPT ![All][w] = request[w].left]
      /\ request' = [request EXCEPT ![w].pc = "tags"]
      /\ UNCHANGED <<entries, runs>> /\ request[w].pc = "company"
  BY DEF ListInCompany, At
<1>2. /\ request[w] \in Request /\ request \in [Workers -> Request]
      /\ listed \in [Lists -> [Workers -> 0..Timeout]]
  BY TypesAre
<1>3. /\ request'[w].pc = "tags" /\ request'[w].left = request[w].left /\ request'[w].tags = request[w].tags
      /\ request'[w] \in Request
  BY <1>1, <1>2 DEF Request, Points
<1>4. request' \in [Workers -> Request] /\ \A v \in Workers \ {w} : request'[v] = request[v]
  BY <1>1, <1>2, <1>3
<1>5. listed' \in [Lists -> [Workers -> 0..Timeout]] /\ listed'[All][w] = request[w].left
  BY <1>1, <1>2, AllIsAList DEF Request
<1>6. \A v \in Workers \ {w} : \A l \in Lists : listed'[l][v] = listed[l][v]
  BY <1>1, <1>2, AllIsAList
<1>7. WorkersTypeOK' BY <1>1, <1>4, <1>5 DEF WorkersTypeOK, Request, Points
<1>8. Holds(w)' BY <1>1, <1>3, <1>5 DEF Holds, Carried, ListedAll
<1>9. QED BY <1>1, <1>4, <1>6, <1>7, <1>8 DEF Same

LEMMA ListByTagsHolds ==
  ASSUME WorkersTypeOK, NEW w \in Workers, Holds(w), ListByTags(w)
  PROVE  /\ WorkersTypeOK' /\ Holds(w)' /\ \A v \in Workers \ {w} : Same(v)
<1>1. /\ listed' = [l \in Lists |-> IF l = All THEN listed[l] ELSE [listed[l] EXCEPT ![w] = ScoreFor(w, l)]]
      /\ request' = [request EXCEPT ![w] =
                       IF request[w].reports THEN [NoRequest EXCEPT !.pc = "report"] ELSE NoRequest]
      /\ UNCHANGED <<entries, runs>> /\ request[w].pc = "tags"
  BY DEF ListByTags, At
<1>2. /\ request[w] \in Request /\ request \in [Workers -> Request]
      /\ listed \in [Lists -> [Workers -> 0..Timeout]] /\ entries[w] \in Entry
  BY TypesAre
<1>3. \A l \in Lists : ScoreFor(w, l) \in 0..Timeout
  BY <1>2 DEF ScoreFor, Request
<1>4. \A l \in Lists : listed'[l] \in [Workers -> 0..Timeout] BY <1>1, <1>2, <1>3
<1>5. listed' \in [Lists -> [Workers -> 0..Timeout]] BY <1>1, <1>4
<1>6. request'[w] \in Request /\ request'[w].pc \in {"none", "report"}
  BY <1>1, <1>2, Constants DEF NoRequest, Request, Points
<1>7. request' \in [Workers -> Request] /\ \A v \in Workers \ {w} : request'[v] = request[v]
  BY <1>1, <1>2, <1>6
<1>8. \A v \in Workers \ {w} : \A l \in Lists : listed'[l][v] = listed[l][v] BY <1>1, <1>2
<1>9. listed'[All][w] = listed[All][w] BY <1>1, AllIsAList
<1>10. \A l \in request[w].tags : listed'[l][w] = request[w].left
  <2>1. SUFFICES ASSUME NEW l \in request[w].tags PROVE listed'[l][w] = request[w].left OBVIOUS
  <2>2. l \in Lists /\ l # All BY <1>2, WorkersAssumption DEF Request, WorkersAssumption, Labels, Lists
  <2>3. ScoreFor(w, l) = request[w].left BY DEF ScoreFor, IndexedTags
  <2>4. QED BY <1>1, <1>2, <2>2, <2>3
<1>11. WorkersTypeOK' BY <1>1, <1>5, <1>7 DEF WorkersTypeOK, Request, Points
<1>12. Holds(w)' BY <1>1, <1>6, <1>9, <1>10 DEF Holds, Carried, ListedAll, ListedTags
<1>13. QED BY <1>1, <1>7, <1>8, <1>11, <1>12 DEF Same

\* A request begins, or goes on to save what it was given; the entry stays as it is, and so
\* do the listings.
LEMMA RequestHolds ==
  ASSUME WorkersTypeOK, NEW w \in Workers, Holds(w), Register(w) \/ Report(w) \/ UpdateEntry(w)
  PROVE  /\ WorkersTypeOK' /\ Holds(w)' /\ \A v \in Workers \ {w} : Same(v)
<1>1. request[w] \in Request /\ request \in [Workers -> Request] /\ runs \in [Runs -> Run] /\ entries[w] \in Entry
  BY TypesAre
<1>2. /\ request'[w] \in Request /\ request'[w].pc \in {"save", "report"}
      /\ request' = [request EXCEPT ![w] = request'[w]]
      /\ request[w].pc \in {"none", "report"}
  <2>1. CASE Register(w)
    <3>1. PICK tags \in SUBSET Labels : request' = [request EXCEPT ![w].pc = "save", ![w].tags = tags]
      BY <2>1 DEF Register
    <3>2. request[w].pc = "none" BY <1>1, <2>1 DEF Register, Busy
    <3>3. QED BY <1>1, <3>1, <3>2 DEF Request, Points
  <2>2. CASE Report(w)
    BY <1>1, <2>2, Constants DEF Report, Busy, NoRequest, Request, Points, Entry
  <2>3. CASE UpdateEntry(w)
    <3>1. PICK given \in SUBSET {UserTags, SystemTags} : \E tags \in SUBSET UNION given :
            request' = [request EXCEPT ![w].pc = "save", ![w].tags = (@ \ UNION given) \cup tags]
      BY <2>3 DEF UpdateEntry
    <3>2. PICK tags \in SUBSET UNION given :
            request' = [request EXCEPT ![w].pc = "save", ![w].tags = (@ \ UNION given) \cup tags]
      BY <3>1
    <3>3. tags \subseteq Labels BY DEF Labels
    <3>4. (request[w].tags \ UNION given) \cup tags \subseteq Labels BY <1>1, <3>3 DEF Request
    <3>5. request[w].pc = "report" BY <2>3 DEF UpdateEntry, At
    <3>6. QED BY <1>1, <3>2, <3>4, <3>5 DEF Request, Points
  <2>4. QED BY <2>1, <2>2, <2>3
<1>3. UNCHANGED <<entries, listed>> BY DEF Register, Report, UpdateEntry
<1>4. runs' \in [Runs -> Run]
  <2>1. CASE UpdateEntry(w)
    <3>1. \A r \in Runs : runs[r] \in Run /\ [runs[r] EXCEPT !.silent = 0] \in Run
      BY <1>1, Constants DEF Run
    <3>2. QED BY <2>1, <3>1 DEF UpdateEntry
  <2>2. CASE UNCHANGED runs BY <1>1, <2>2
  <2>3. QED BY <2>1, <2>2 DEF Register, Report
<1>5. request' \in [Workers -> Request] /\ \A v \in Workers \ {w} : request'[v] = request[v]
  BY <1>1, <1>2
<1>6. WorkersTypeOK' BY <1>3, <1>4, <1>5 DEF WorkersTypeOK, Request, Run, Points
<1>7. Holds(w)' BY <1>2, <1>3 DEF Holds, ListedAll, ListedTags
<1>8. QED BY <1>3, <1>5, <1>6, <1>7 DEF Same

\* The entry goes: nothing is claimed of a worker without one.
LEMMA GoneHolds ==
  ASSUME WorkersTypeOK, NEW w \in Workers, Unregister(w) \/ EntryExpires(w)
  PROVE  /\ WorkersTypeOK' /\ Holds(w)' /\ \A v \in Workers \ {w} : Same(v)
<1>1. entries' = [entries EXCEPT ![w] = NoEntry] /\ UNCHANGED <<listed, request, runs>>
  BY DEF Unregister, EntryExpires
<1>2. NoEntry \in Entry /\ ~NoEntry.exists BY Constants DEF NoEntry, Entry
<1>3. entries \in [Workers -> Entry] BY TypesAre
<1>4. entries' \in [Workers -> Entry] /\ entries'[w] = NoEntry /\ \A v \in Workers \ {w} : entries'[v] = entries[v]
  BY <1>1, <1>2, <1>3
<1>5. WorkersTypeOK' BY <1>1, <1>4 DEF WorkersTypeOK, Entry
<1>6. QED BY <1>1, <1>2, <1>4, <1>5 DEF Holds, Same

LEMMA LessIs == \A n \in Nat : Less(n) \in Nat /\ Less(n) <= n /\ \A m \in Nat : n >= m => Less(n) >= Less(m)
BY DEF Less

\* A second passes for an entry, its listings and the handler alike.
LEMMA TickHolds ==
  ASSUME WorkersTypeOK, \A v \in Workers : Holds(v), Tick
  PROVE  WorkersTypeOK' /\ \A v \in Workers : Holds(v)'
<1>1. /\ entries \in [Workers -> Entry] /\ listed \in [Lists -> [Workers -> 0..Timeout]]
      /\ request \in [Workers -> Request] /\ runs \in [Runs -> Run]
  BY TypesAre
<1>2. \A n \in 0..Timeout : Less(n) \in 0..Timeout BY Constants DEF Less
<1>3. entries' \in [Workers -> Entry]
  <2>1. \A v \in Workers : [entries[v] EXCEPT !.left = Less(@)] \in Entry BY <1>1, <1>2 DEF Entry
  <2>2. QED BY <2>1 DEF Tick
<1>4. request' \in [Workers -> Request]
  <2>1. \A v \in Workers : [request[v] EXCEPT !.left = Less(@)] \in Request BY <1>1, <1>2 DEF Request
  <2>2. QED BY <2>1 DEF Tick
<1>5. listed' \in [Lists -> [Workers -> 0..Timeout]]
  <2>1. \A l \in Lists : [v \in Workers |-> Less(listed[l][v])] \in [Workers -> 0..Timeout] BY <1>1, <1>2
  <2>2. QED BY <2>1 DEF Tick
<1>6. runs' \in [Runs -> Run]
  <2>1. \A r \in Runs : [runs[r] EXCEPT !.silent = IF @ < Threshold THEN @ + 1 ELSE @] \in Run
    <3>1. \A n \in 0..Threshold : (IF n < Threshold THEN n + 1 ELSE n) \in 0..Threshold BY Constants
    <3>2. QED BY <1>1, <3>1 DEF Run
  <2>2. QED BY <2>1 DEF Tick
<1>7. ASSUME NEW v \in Workers PROVE Holds(v)'
  <2>1. /\ entries'[v].exists = entries[v].exists /\ entries'[v].tags = entries[v].tags
        /\ entries'[v].left = Less(entries[v].left)
    BY <1>1 DEF Tick, Entry
  <2>2. /\ request'[v].pc = request[v].pc /\ request'[v].tags = request[v].tags
        /\ request'[v].left = Less(request[v].left)
    BY <1>1 DEF Tick, Request
  <2>3. \A l \in Lists : listed'[l][v] = Less(listed[l][v]) BY <1>1 DEF Tick
  <2>4. /\ entries[v].left \in Nat /\ request[v].left \in Nat /\ entries[v].tags \subseteq Lists
        /\ \A l \in Lists : listed[l][v] \in Nat
    <3>1. entries[v] \in Entry /\ request[v] \in Request /\ \A l \in Lists : listed[l] \in [Workers -> 0..Timeout]
      BY <1>1
    <3>2. QED BY <3>1, AllIsAList DEF Entry, Request
  <2>5. ListedAll(v) => ListedAll(v)' BY <2>1, <2>3, <2>4, LessIs, AllIsAList DEF ListedAll
  <2>6. ListedTags(v) => ListedTags(v)' BY <2>1, <2>3, <2>4, LessIs DEF ListedTags
  <2>7. Carried(v) => Carried(v)' BY <2>1, <2>2, <2>4, LessIs DEF Carried
  <2>8. QED BY <2>1, <2>2, <2>5, <2>6, <2>7 DEF Holds
<1>8. QED BY <1>3, <1>4, <1>5, <1>6, <1>7 DEF WorkersTypeOK, Entry, Request, Run, Points

-----------------------------------------------------------------------------
LEMMA WatchdogInvInit == WatchdogInit => WorkersInv
<1>1. SUFFICES ASSUME WatchdogInit PROVE WorkersInv OBVIOUS
<1>2. WorkersTypeOK
  BY <1>1, Constants DEF WatchdogInit, WorkersInit, WorkersTypeOK, NoEntry, NoRequest
<1>3. ListedInv BY <1>1 DEF WatchdogInit, WorkersInit, ListedInv, NoEntry
<1>4. QED BY <1>1, <1>2, <1>3 DEF WorkersInv, WatchdogTypeOK, WatchdogInit

LEMMA WatchdogInvStep == WorkersInv /\ [WatchdogNext]_watchdogVars => WorkersInv'
<1>1. SUFFICES ASSUME WorkersInv, [WatchdogNext]_watchdogVars PROVE WorkersInv' OBVIOUS
<1>2. WorkersTypeOK /\ batch \subseteq Runs /\ \A v \in Workers : Holds(v)
  BY <1>1 DEF WorkersInv, WatchdogTypeOK, ListedInv, Holds
<1>3. CASE WorkersNext /\ UNCHANGED batch
  <2>1. CASE Tick BY <1>2, <1>3, <2>1, TickHolds DEF WorkersInv, WatchdogTypeOK, ListedInv, Holds
  <2>2. ASSUME NEW w \in Workers, Register(w) \/ Report(w) \/ Serve(w) \/ Unregister(w) \/ EntryExpires(w)
        PROVE  WorkersInv'
    <3>1. WorkersTypeOK' /\ Holds(w)' /\ \A v \in Workers \ {w} : Same(v)
      BY <1>2, <2>2, SaveEntryHolds, ListInCompanyHolds, ListByTagsHolds, RequestHolds, GoneHolds DEF Serve, Save
    <3>2. \A v \in Workers : Holds(v)' BY <1>2, <3>1, SameHolds
    <3>3. QED BY <1>2, <1>3, <3>1, <3>2 DEF WorkersInv, WatchdogTypeOK, ListedInv, Holds
  <2>3. QED BY <1>3, <2>1, <2>2 DEF WorkersNext
<1>4. CASE UNCHANGED <<entries, listed, request>> /\ runs' \in [Runs -> Run] /\ batch' \subseteq Runs
  <2>1. WorkersTypeOK' BY <1>2, <1>4 DEF WorkersTypeOK, Run
  <2>2. ListedInv' BY <1>1, <1>4 DEF WorkersInv, ListedInv, ListedAll, ListedTags, Carried
  <2>3. QED BY <1>4, <2>1, <2>2 DEF WorkersInv, WatchdogTypeOK
<1>5. runs \in [Runs -> Run] BY <1>2, TypesAre
<1>6. CASE CleanupTasks BY <1>4, <1>5, <1>6 DEF CleanupTasks, workerVars, Silent
<1>7. ASSUME NEW r \in Runs, StopTask(r) \/ Complete(r) \/ Start(r)
      PROVE  UNCHANGED <<entries, listed, request>> /\ runs' \in [Runs -> Run] /\ batch' \subseteq Runs
  BY <1>2, <1>5, <1>7, Constants DEF StopTask, Complete, Start, Run
<1>8. CASE UNCHANGED watchdogVars BY <1>2, <1>4, <1>5, <1>8 DEF watchdogVars
<1>9. QED BY <1>1, <1>3, <1>4, <1>6, <1>7, <1>8 DEF WatchdogNext

LEMMA WorkersInvariance == WatchdogSpec => []WorkersInv
BY WatchdogInvInit, WatchdogInvStep, PTL DEF WatchdogSpec

\* Entries, listings, requests, tasks and the batch of the watchdog keep their types, for
\* any workers, tags, tasks and times.
THEOREM WatchdogTypeCorrect == WatchdogSpec => []WatchdogTypeOK
<1>1. WorkersInv => WatchdogTypeOK BY DEF WorkersInv
<1>2. QED BY <1>1, WorkersInvariance, PTL

\* A worker that waits for its answers, and whose entry lives, is found by each of its
\* tags, alone or together, and by the absence of any others, for any number of workers
\* and tags and however slowly its requests were served.
THEOREM LiveWorkersStayListed == WatchdogSpec => []LiveWorkersAreListed
<1>1. WorkersInv => LiveWorkersAreListed
  <2>1. SUFFICES ASSUME WorkersInv, NEW w \in Registered, ~Busy(w), entries[w].left > 0,
                        NEW include \in SUBSET entries[w].tags, NEW exclude \in SUBSET Labels,
                        \A l \in exclude : listed[l][w] = 0
                 PROVE  w \in GetAll(include, exclude)
    BY DEF LiveWorkersAreListed
  <2>2. w \in Workers /\ entries[w].exists /\ request[w].pc = "none" BY <2>1 DEF Registered, Busy
  <2>3. ListedAll(w) /\ ListedTags(w) BY <2>1, <2>2 DEF WorkersInv, ListedInv
  <2>4. /\ entries[w].left \in Nat /\ entries[w].tags \subseteq Lists
        /\ \A l \in Lists : listed[l][w] \in Nat
    <3>1. entries[w] \in Entry /\ \A l \in Lists : listed[l] \in [Workers -> 0..Timeout]
      BY <2>1, <2>2, TypesAre DEF WorkersInv, WatchdogTypeOK
    <3>2. QED BY <2>2, <3>1, AllIsAList DEF Entry
  <2>5. listed[All][w] > 0 BY <2>1, <2>3, <2>4, AllIsAList DEF ListedAll
  <2>6. \A l \in include : listed[l][w] > 0 BY <2>1, <2>3, <2>4 DEF ListedTags
  <2>7. w \in Listed({All}) BY <2>2, <2>5 DEF Listed
  <2>8. \A field : include \cap field # {} => w \in Listed(include \cap field) BY <2>2, <2>6 DEF Listed
  <2>9. w \notin Listed(exclude)
    <3>1. \A l \in exclude : ~(listed[l][w] > 0) BY <2>1
    <3>2. QED BY <3>1 DEF Listed
  <2>10. w \in Keys(include, exclude) BY <2>1, <2>2, <2>7, <2>8, <2>9 DEF Keys
  <2>11. QED BY <2>1, <2>10 DEF GetAll
<1>2. QED BY <1>1, WorkersInvariance, PTL

\* The watchdog never takes back a result, whenever it read the task and whatever happened
\* to it since.
THEOREM ResultsStay == WatchdogSpec => FinishedTasksStay
<1>1. WorkersInv /\ [WatchdogNext]_watchdogVars
        => [\A r \in Runs : runs[r].status = "completed" => runs'[r].status # "stopped"]_runs
  <2>1. SUFFICES ASSUME WorkersInv, [WatchdogNext]_watchdogVars, NEW q \in Runs, runs[q].status = "completed",
                        runs' # runs
                 PROVE  runs'[q].status # "stopped"
    OBVIOUS
  <2>2. runs \in [Runs -> Run] BY <2>1, TypesAre DEF WorkersInv, WatchdogTypeOK
  <2>3. ASSUME NEW w \in Workers, UpdateEntry(w) PROVE runs'[q].status = runs[q].status
    BY <2>2, <2>3 DEF UpdateEntry, Run
  <2>4. CASE Tick BY <2>1, <2>2, <2>4 DEF Tick, Run
  <2>5. ASSUME NEW r \in Runs, StopTask(r) \/ Complete(r) \/ Start(r) PROVE runs'[q].status # "stopped"
    BY <2>1, <2>2, <2>5 DEF StopTask, Stoppable, Complete, Start
  <2>6. CASE UNCHANGED runs BY <2>1, <2>6
  <2>7. QED
    BY <2>1, <2>3, <2>4, <2>5, <2>6
    DEF WatchdogNext, WorkersNext, watchdogVars, workerVars, CleanupTasks, Register, Report, Serve, Save, SaveEntry,
        ListInCompany, ListByTags, Unregister, EntryExpires
<1>2. QED BY <1>1, WorkersInvariance, PTL DEF WatchdogSpec, FinishedTasksStay

-----------------------------------------------------------------------------
(* Tags cache.  A list that no reader filled too late, or twice, answers    *)
(* with the tags of the database when no edit is under way.                 *)

TagsSpec == TagsInit /\ [][TagsNext]_tagsVars

List == [fills: 0..2, tags: SUBSET Tags, expires: BOOLEAN]
Ask == [pc: {"none", "query", "push", "expire"}, list: TagLists, got: SUBSET Tags]
Edit == [pc: {"none", "remove", "scan", "delete"}, entity: Entities,
         remove: SUBSET Tags, lists: SUBSET TagLists]

\* The lists an edit is sure to find: those above a project are not among them.
Reached == {l \in TagLists : l = Company \/ Within[l] = {l}}

\* The edit will come to the list: it has still to look for it, or has found it.
WillDelete(e, l) ==
  \/ edits[e].pc \in {"remove", "scan"} /\ l \in {HomeOf[edits[e].entity], Company}
  \/ edits[e].pc = "delete" /\ l \in edits[e].lists

\* A list was filled once, by a reader that was not late, and is what the database holds
\* unless an edit that will delete it is under way.
Sound(l) ==
  /\ ~Cached(l) => cache[l].tags = {}
  /\ l \notin raced => /\ cache[l].fills <= 1
                       /\ Cached(l) => \/ cache[l].tags = TagsFromDb(l)
                                       \/ \E e \in Editors : WillDelete(e, l)

TagsInv == TagsTypeOK /\ \A l \in Reached : Sound(l)

LEMMA CompanyIsAList == Company \in TagLists
  BY DEF TagLists

LEMMA TagTypesAre ==
  ASSUME TagsTypeOK
  PROVE  /\ tagsOf \in [Entities -> SUBSET Tags] /\ cache \in [TagLists -> List]
         /\ asks \in [Readers -> Ask] /\ edits \in [Editors -> Edit]
         /\ \A l \in TagLists : cache[l] \in List
         /\ \A r \in Readers : asks[r] \in Ask
         /\ \A e \in Editors : edits[e] \in Edit
  BY DEF TagsTypeOK, List, Ask, Edit

LEMMA IdleRecords == NoList \in List /\ NoAsk \in Ask /\ NoEdit \in Edit
<1>1. (CHOOSE e \in Entities : TRUE) \in Entities BY TagsAssumption DEF TagsAssumption
<1>2. QED BY <1>1, CompanyIsAList DEF NoList, List, NoAsk, Ask, NoEdit, Edit

LEMMA TagsFromDbAreTags ==
  ASSUME TagsTypeOK, NEW l
  PROVE  TagsFromDb(l) \subseteq Tags
  BY TagTypesAre DEF TagsFromDb

\* Nothing that a list depends on changes but the edits, which go on to delete what they
\* would have deleted: the list stays sound.
LEMMA SoundStays ==
  ASSUME NEW l, Sound(l), tagsOf' = tagsOf, cache'[l] = cache[l],
         l \in raced <=> l \in raced',
         \A e \in Editors : WillDelete(e, l) => WillDelete(e, l)'
  PROVE  Sound(l)'
<1>1. Cached(l)' = Cached(l) BY DEF Cached
<1>2. TagsFromDb(l)' = TagsFromDb(l) BY DEF TagsFromDb
<1>3. QED BY <1>1, <1>2 DEF Sound

LEMMA TagsInitSound == TagsInit => TagsInv
<1>1. SUFFICES ASSUME TagsInit PROVE TagsInv OBVIOUS
<1>2. TagsTypeOK
  <2>1. tagsOf \in [Entities -> SUBSET Tags] BY <1>1 DEF TagsInit
  <2>2. cache \in [TagLists -> List] /\ asks \in [Readers -> Ask] /\ edits \in [Editors -> Edit]
    BY <1>1, IdleRecords DEF TagsInit
  <2>3. raced \subseteq TagLists BY <1>1 DEF TagsInit
  <2>4. QED BY <2>1, <2>2, <2>3 DEF TagsTypeOK, List, Ask, Edit
<1>3. ASSUME NEW l \in Reached PROVE Sound(l)
  <2>1. cache[l] = NoList BY <1>1 DEF TagsInit, Reached
  <2>2. QED BY <2>1 DEF Sound, Cached, NoList
<1>4. QED BY <1>2, <1>3 DEF TagsInv

-----------------------------------------------------------------------------
(* Readers.                                                                *)

LEMMA AskingSound ==
  ASSUME TagsInv, NEW r \in Readers,
         (\E l \in TagLists : AskTags(r, l)) \/ QueryTags(r)
  PROVE  TagsInv'
<1>1. asks \in [Readers -> Ask] /\ asks[r] \in Ask BY TagTypesAre DEF TagsInv
<1>2. UNCHANGED <<tagsOf, cache, edits, raced>> BY DEF AskTags, QueryTags
<1>3. asks' \in [Readers -> Ask]
  <2>1. CASE \E l \in TagLists : AskTags(r, l)
    <3>1. PICK l \in TagLists : asks' = [asks EXCEPT ![r] = [NoAsk EXCEPT !.pc = "query", !.list = l]]
      BY <2>1 DEF AskTags
    <3>2. [NoAsk EXCEPT !.pc = "query", !.list = l] \in Ask BY IdleRecords DEF Ask
    <3>3. QED BY <1>1, <3>1, <3>2
  <2>2. CASE QueryTags(r)
    <3>1. TagsFromDb(asks[r].list) \subseteq Tags BY TagsFromDbAreTags DEF TagsInv
    <3>2. QED BY <1>1, <2>2, <3>1 DEF QueryTags, Ask
  <2>3. QED BY <2>1, <2>2
<1>4. TagsTypeOK' BY <1>2, <1>3 DEF TagsInv, TagsTypeOK, Ask
<1>5. \A l \in Reached : Sound(l)' BY <1>2, SoundStays DEF TagsInv, WillDelete
<1>6. QED BY <1>4, <1>5 DEF TagsInv, Reached

LEMMA PushSound ==
  ASSUME TagsInv, NEW r \in Readers, PushTags(r)
  PROVE  TagsInv'
<1> DEFINE k == asks[r].list
<1>1. /\ asks \in [Readers -> Ask] /\ asks[r] \in Ask /\ k \in TagLists
      /\ cache \in [TagLists -> List] /\ cache[k] \in List /\ raced \subseteq TagLists
  BY TagTypesAre DEF TagsInv, Ask, TagsTypeOK
<1>2. /\ cache' = [cache EXCEPT ![k].fills = IF @ < 2 THEN @ + 1 ELSE @, ![k].tags = @ \cup asks[r].got]
      /\ raced' = IF Cached(k) \/ asks[r].got # TagsFromDb(k) THEN raced \cup {k} ELSE raced
      /\ asks' = [asks EXCEPT ![r].pc = "expire", ![r].got = {}]
      /\ UNCHANGED <<tagsOf, edits>>
  BY DEF PushTags
<1>3. /\ cache'[k].fills = (IF cache[k].fills < 2 THEN cache[k].fills + 1 ELSE cache[k].fills)
      /\ cache'[k].tags = cache[k].tags \cup asks[r].got
      /\ cache'[k].expires = cache[k].expires
      /\ \A l \in TagLists \ {k} : cache'[l] = cache[l]
  BY <1>1, <1>2 DEF List
<1>4. cache' \in [TagLists -> List]
  <2>1. (IF cache[k].fills < 2 THEN cache[k].fills + 1 ELSE cache[k].fills) \in 0..2 BY <1>1 DEF List
  <2>2. cache[k].tags \cup asks[r].got \in SUBSET Tags BY <1>1 DEF List, Ask
  <2>3. QED BY <1>1, <1>2, <2>1, <2>2 DEF List
<1>5. asks' \in [Readers -> Ask] BY <1>1, <1>2 DEF Ask
<1>6. TagsTypeOK' BY <1>1, <1>2, <1>4, <1>5 DEF TagsInv, TagsTypeOK, List, Ask
<1>7. ASSUME NEW l \in Reached PROVE Sound(l)'
  <2>1. l \in TagLists /\ Sound(l) BY DEF Reached, TagsInv
  <2>2. CASE l # k
    BY <1>2, <1>3, <2>1, <2>2, SoundStays DEF WillDelete
  <2>3. CASE l = k
    <3>1. Cached(l)' BY <1>1, <1>3, <2>3 DEF Cached, List
    <3>2. TagsFromDb(l)' = TagsFromDb(l) BY <1>2 DEF TagsFromDb
    <3>3. ASSUME l \notin raced' PROVE cache'[l].fills <= 1 /\ cache'[l].tags = TagsFromDb(l)
      <4>1. ~Cached(l) /\ asks[r].got = TagsFromDb(l) BY <1>2, <2>3, <3>3
      <4>2. cache[l].fills = 0 /\ cache[l].tags = {} BY <1>1, <2>1, <2>3, <4>1 DEF Sound, Cached, List
      <4>3. QED BY <1>3, <2>3, <4>1, <4>2
    <3>4. QED BY <3>1, <3>2, <3>3 DEF Sound
  <2>4. QED BY <2>2, <2>3
<1>8. QED BY <1>6, <1>7 DEF TagsInv, Reached

LEMMA ExpireTagsSound ==
  ASSUME TagsInv, NEW r \in Readers, ExpireTags(r)
  PROVE  TagsInv'
<1> DEFINE k == asks[r].list
<1>1. /\ asks \in [Readers -> Ask] /\ asks[r] \in Ask /\ k \in TagLists
      /\ cache \in [TagLists -> List] /\ cache[k] \in List
  BY TagTypesAre DEF TagsInv, Ask
<1>2. /\ cache' = [cache EXCEPT ![k].expires = @ \/ WillExpire(k)]
      /\ asks' = [asks EXCEPT ![r] = NoAsk] /\ UNCHANGED <<tagsOf, edits, raced>>
  BY DEF ExpireTags
<1>3. \A l \in TagLists : cache'[l].fills = cache[l].fills /\ cache'[l].tags = cache[l].tags
  BY <1>1, <1>2 DEF List
<1>4. (cache[k].expires \/ WillExpire(k)) \in BOOLEAN BY DEF WillExpire, Cached
<1>5. TagsTypeOK'
  <2>1. cache' \in [TagLists -> List] BY <1>1, <1>2, <1>4 DEF List
  <2>2. asks' \in [Readers -> Ask] BY <1>1, <1>2, IdleRecords
  <2>3. QED BY <1>2, <2>1, <2>2 DEF TagsInv, TagsTypeOK, List, Ask
<1>6. ASSUME NEW l \in Reached PROVE Sound(l)'
  <2>1. l \in TagLists /\ Sound(l) BY DEF Reached, TagsInv
  <2>2. Cached(l)' = Cached(l) BY <1>3, <2>1 DEF Cached
  <2>3. TagsFromDb(l)' = TagsFromDb(l) BY <1>2 DEF TagsFromDb
  <2>4. \A e \in Editors : WillDelete(e, l)' = WillDelete(e, l) BY <1>2 DEF WillDelete
  <2>5. QED BY <1>2, <1>3, <2>1, <2>2, <2>3, <2>4 DEF Sound
<1>7. QED BY <1>5, <1>6 DEF TagsInv, Reached

-----------------------------------------------------------------------------
(* Lists that go.                                                          *)

LEMMA DeletedIsSound ==
  ASSUME NEW l, cache'[l] = NoList
  PROVE  Sound(l)'
  BY DEF Sound, Cached, NoList

LEMMA ListExpiresSound ==
  ASSUME TagsInv, NEW k \in TagLists, ListExpires(k)
  PROVE  TagsInv'
<1>1. cache \in [TagLists -> List] /\ raced \subseteq TagLists BY TagTypesAre DEF TagsInv, TagsTypeOK
<1>2. cache' = [cache EXCEPT ![k] = NoList] /\ raced' = raced \ {k} /\ UNCHANGED <<tagsOf, asks, edits>>
  BY DEF ListExpires
<1>3. TagsTypeOK' BY <1>1, <1>2, IdleRecords DEF TagsInv, TagsTypeOK, List
<1>4. ASSUME NEW l \in Reached PROVE Sound(l)'
  <2>1. l \in TagLists /\ Sound(l) BY DEF Reached, TagsInv
  <2>2. CASE l = k BY <1>1, <1>2, <2>1, <2>2, DeletedIsSound
  <2>3. CASE l # k BY <1>1, <1>2, <2>1, <2>3, SoundStays DEF WillDelete
  <2>4. QED BY <2>2, <2>3
<1>5. QED BY <1>3, <1>4 DEF TagsInv, Reached

LEMMA DeleteKeySound ==
  ASSUME TagsInv, NEW e \in Editors, NEW k \in TagLists, DeleteKey(e, k)
  PROVE  TagsInv'
<1>1. /\ cache \in [TagLists -> List] /\ raced \subseteq TagLists
      /\ edits \in [Editors -> Edit] /\ edits[e] \in Edit
  BY TagTypesAre DEF TagsInv, TagsTypeOK
<1>2. /\ cache' = [cache EXCEPT ![k] = NoList] /\ raced' = raced \ {k} /\ UNCHANGED <<tagsOf, asks>>
      /\ edits[e].pc = "delete"
      /\ edits' = [edits EXCEPT ![e] = IF edits[e].lists = {k} THEN NoEdit
                                       ELSE [NoEdit EXCEPT !.pc = "delete", !.lists = edits[e].lists \ {k}]]
  BY DEF DeleteKey
<1>3. edits' \in [Editors -> Edit]
  <2>1. [NoEdit EXCEPT !.pc = "delete", !.lists = edits[e].lists \ {k}] \in Edit BY <1>1, IdleRecords DEF Edit
  <2>2. QED BY <1>1, <1>2, <2>1, IdleRecords
<1>4. TagsTypeOK' BY <1>1, <1>2, <1>3, IdleRecords DEF TagsInv, TagsTypeOK, List, Edit
<1>5. ASSUME NEW l \in Reached PROVE Sound(l)'
  <2>1. l \in TagLists /\ Sound(l) BY DEF Reached, TagsInv
  <2>2. CASE l = k BY <1>1, <1>2, <2>1, <2>2, DeletedIsSound
  <2>3. CASE l # k
    <3>1. ASSUME NEW x \in Editors, WillDelete(x, l) PROVE WillDelete(x, l)'
      <4>1. CASE x # e BY <1>1, <1>2, <3>1, <4>1 DEF WillDelete
      <4>2. CASE x = e
        <5>1. l \in edits[e].lists BY <1>2, <3>1, <4>2 DEF WillDelete
        <5>2. edits'[e] = [NoEdit EXCEPT !.pc = "delete", !.lists = edits[e].lists \ {k}] BY <1>1, <1>2, <2>3, <5>1
        <5>3. edits'[e].pc = "delete" /\ l \in edits'[e].lists BY <1>1, <2>3, <5>1, <5>2, IdleRecords DEF Edit
        <5>4. QED BY <4>2, <5>3 DEF WillDelete
      <4>3. QED BY <4>1, <4>2
    <3>2. QED BY <1>1, <1>2, <2>1, <2>3, <3>1, SoundStays
  <2>4. QED BY <2>2, <2>3
<1>6. QED BY <1>4, <1>5 DEF TagsInv, Reached

-----------------------------------------------------------------------------
(* Editors.                                                                *)

\* A change of the tags of one entity is a change of the lists that its edit will delete.
LEMMA OnlyItsLists ==
  ASSUME TagsTypeOK, NEW entity \in Entities, NEW tags, tagsOf' = [tagsOf EXCEPT ![entity] = tags],
         NEW l \in Reached, l \notin {HomeOf[entity], Company}
  PROVE  TagsFromDb(l)' = TagsFromDb(l)
<1>1. Within[l] = {l} BY DEF Reached
<1>2. \A x \in Entities : HomeOf[x] \in Within[l] => tagsOf'[x] = tagsOf[x] BY <1>1 DEF TagsTypeOK
<1>3. QED BY <1>2 DEF TagsFromDb

LEMMA TagsChangeSound ==
  ASSUME TagsTypeOK, NEW e \in Editors, NEW entity \in Entities, NEW tags,
         tagsOf' = [tagsOf EXCEPT ![entity] = tags], UNCHANGED <<cache, raced>>,
         edits'[e].pc \in {"remove", "scan"}, edits'[e].entity = entity,
         \A x \in Editors \ {e} : edits'[x] = edits[x],
         NEW l \in Reached, Sound(l), WillDelete(e, l) => l \in {HomeOf[entity], Company}
  PROVE  Sound(l)'
<1>1. Cached(l)' = Cached(l) BY DEF Cached
<1>2. CASE l \in {HomeOf[entity], Company}
  <2>1. WillDelete(e, l)' BY <1>2 DEF WillDelete
  <2>2. QED BY <1>1, <2>1 DEF Sound
<1>3. CASE l \notin {HomeOf[entity], Company}
  <2>1. TagsFromDb(l)' = TagsFromDb(l) BY <1>3, OnlyItsLists
  <2>2. \A x \in Editors : WillDelete(x, l) => WillDelete(x, l)' BY <1>3 DEF WillDelete
  <2>3. QED BY <1>1, <2>1, <2>2 DEF Sound
<1>4. QED BY <1>2, <1>3

LEMMA AddTagsSound ==
  ASSUME TagsInv, NEW e \in Editors, NEW entity \in Entities, AddTags(e, entity)
  PROVE  TagsInv'
<1>1. /\ tagsOf \in [Entities -> SUBSET Tags] /\ edits \in [Editors -> Edit] /\ TagsTypeOK
  BY TagTypesAre DEF TagsInv
<1>2. PICK add \in SUBSET Tags, remove \in SUBSET Tags :
        /\ tagsOf' = [tagsOf EXCEPT ![entity] = @ \cup add]
        /\ edits' = [edits EXCEPT ![e] = [NoEdit EXCEPT !.pc = IF remove = {} THEN "scan" ELSE "remove",
                                                        !.entity = entity, !.remove = remove]]
  BY DEF AddTags
<1>3. edits[e].pc = "none" /\ UNCHANGED <<cache, asks, raced>> BY DEF AddTags
<1>4. /\ edits'[e] \in Edit /\ edits'[e].entity = entity /\ edits'[e].pc \in {"remove", "scan"}
      /\ edits' = [edits EXCEPT ![e] = edits'[e]]
  BY <1>1, <1>2, IdleRecords DEF Edit
<1>5. TagsTypeOK'
  <2>1. tagsOf' \in [Entities -> SUBSET Tags] BY <1>1, <1>2
  <2>2. edits' \in [Editors -> Edit] BY <1>1, <1>4
  <2>3. QED BY <1>1, <1>3, <2>1, <2>2 DEF TagsTypeOK, Edit
<1>6. ASSUME NEW l \in Reached PROVE Sound(l)'
  <2>1. Sound(l) /\ ~WillDelete(e, l) BY <1>3 DEF TagsInv, WillDelete
  <2>2. tagsOf' = [tagsOf EXCEPT ![entity] = tagsOf[entity] \cup add] BY <1>2
  <2>3. \A x \in Editors \ {e} : edits'[x] = edits[x] BY <1>1, <1>4
  <2>4. QED BY <1>1, <1>3, <1>4, <2>1, <2>2, <2>3, TagsChangeSound
<1>7. QED BY <1>5, <1>6 DEF TagsInv, Reached

LEMMA RemoveTagsSound ==
  ASSUME TagsInv, NEW e \in Editors, RemoveTags(e)
  PROVE  TagsInv'
<1> DEFINE entity == edits[e].entity
<1>1. /\ tagsOf \in [Entities -> SUBSET Tags] /\ edits \in [Editors -> Edit] /\ TagsTypeOK
      /\ edits[e] \in Edit /\ entity \in Entities
  BY TagTypesAre DEF TagsInv, Edit
<1>2. /\ tagsOf' = [tagsOf EXCEPT ![entity] = tagsOf[entity] \ edits[e].remove]
      /\ edits' = [edits EXCEPT ![e].pc = "scan"] /\ edits[e].pc = "remove"
      /\ UNCHANGED <<cache, asks, raced>>
  BY DEF RemoveTags
<1>3. edits'[e].pc = "scan" /\ edits'[e].entity = entity /\ \A x \in Editors \ {e} : edits'[x] = edits[x]
  BY <1>1, <1>2 DEF Edit
<1>4. TagsTypeOK'
  <2>1. tagsOf' \in [Entities -> SUBSET Tags] BY <1>1, <1>2
  <2>2. edits' \in [Editors -> Edit] BY <1>1, <1>2 DEF Edit
  <2>3. QED BY <1>1, <1>2, <2>1, <2>2 DEF TagsTypeOK, Edit
<1>5. ASSUME NEW l \in Reached PROVE Sound(l)'
  <2>1. Sound(l) BY DEF TagsInv
  <2>2. WillDelete(e, l) => l \in {HomeOf[entity], Company} BY <1>2 DEF WillDelete
  <2>3. QED BY <1>1, <1>2, <1>3, <2>1, <2>2, TagsChangeSound
<1>6. QED BY <1>4, <1>5 DEF TagsInv, Reached

\* A list that is not there is sound without the edit.
LEMMA ScanKeysSound ==
  ASSUME TagsInv, NEW e \in Editors, ScanKeys(e)
  PROVE  TagsInv'
<1> DEFINE found == {l \in Affected(e) : Cached(l)}
<1>1. /\ edits \in [Editors -> Edit] /\ edits[e] \in Edit /\ TagsTypeOK
  BY TagTypesAre DEF TagsInv
<1>2. /\ edits[e].pc = "scan" /\ UNCHANGED <<tagsOf, cache, asks, raced>>
      /\ edits' = [edits EXCEPT ![e] = IF found = {} THEN NoEdit
                                       ELSE [NoEdit EXCEPT !.pc = "delete", !.lists = found]]
  BY DEF ScanKeys
<1>3. found \subseteq TagLists
  BY <1>1, TagsAssumption, CompanyIsAList DEF TagsAssumption, Affected, Edit, TagLists
<1>4. [NoEdit EXCEPT !.pc = "delete", !.lists = found] \in Edit BY <1>3, IdleRecords DEF Edit
<1>5. TagsTypeOK'
  <2>1. edits' \in [Editors -> Edit] BY <1>1, <1>2, <1>4, IdleRecords
  <2>2. QED BY <1>1, <1>2, <2>1 DEF TagsTypeOK, Edit
<1>6. ASSUME NEW l \in Reached PROVE Sound(l)'
  <2>1. Sound(l) BY DEF TagsInv
  <2>2. CASE Cached(l)
    <3>1. ASSUME NEW x \in Editors, WillDelete(x, l) PROVE WillDelete(x, l)'
      <4>1. CASE x # e BY <1>1, <1>2, <3>1, <4>1 DEF WillDelete
      <4>2. CASE x = e
        <5>1. l \in found BY <1>2, <2>2, <3>1, <4>2 DEF WillDelete, Affected
        <5>2. edits'[e] = [NoEdit EXCEPT !.pc = "delete", !.lists = found] BY <1>1, <1>2, <5>1
        <5>3. edits'[e].pc = "delete" /\ l \in edits'[e].lists BY <5>1, <5>2, IdleRecords DEF Edit
        <5>4. QED BY <4>2, <5>3 DEF WillDelete
      <4>3. QED BY <4>1, <4>2
    <3>2. QED BY <1>2, <2>1, <3>1, SoundStays
  <2>3. CASE ~Cached(l)
    <3>1. ~Cached(l)' /\ cache' = cache /\ raced' = raced BY <1>2, <2>3 DEF Cached
    <3>2. QED BY <2>1, <2>3, <3>1 DEF Sound
  <2>4. QED BY <2>2, <2>3
<1>7. QED BY <1>5, <1>6 DEF TagsInv, Reached

LEMMA TagsNextSound == TagsInv /\ [TagsNext]_tagsVars => TagsInv'
<1>1. SUFFICES ASSUME TagsInv, [TagsNext]_tagsVars PROVE TagsInv' OBVIOUS
<1>2. CASE \E r \in Readers : Answering(r) \/ \E l \in TagLists : AskTags(r, l)
  BY <1>1, <1>2, AskingSound, PushSound, ExpireTagsSound DEF Answering
<1>3. CASE \E e \in Editors : \/ RemoveTags(e) \/ ScanKeys(e)
                              \/ \E entity \in Entities : AddTags(e, entity)
                              \/ \E l \in TagLists : DeleteKey(e, l)
  BY <1>1, <1>3, RemoveTagsSound, ScanKeysSound, AddTagsSound, DeleteKeySound
<1>4. CASE \E l \in TagLists : ListExpires(l) BY <1>1, <1>4, ListExpiresSound
<1>5. CASE UNCHANGED tagsVars
  <2>1. UNCHANGED <<tagsOf, cache, asks, edits, raced>> BY <1>5 DEF tagsVars
  <2>2. TagsTypeOK' BY <1>1, <2>1 DEF TagsInv, TagsTypeOK
  <2>3. \A l \in Reached : Sound(l)' BY <1>1, <2>1, SoundStays DEF TagsInv, WillDelete
  <2>4. QED BY <2>2, <2>3 DEF TagsInv, Reached
<1>6. QED BY <1>1, <1>2, <1>3, <1>4, <1>5 DEF TagsNext

\* The database, the cache and the memory of readers and editors are what their types say,
\* for any entities, tags, projects, readers and editors.
THEOREM TagsTypeCorrect == TagsSpec => []TagsTypeOK
<1>1. TagsInv => TagsTypeOK BY DEF TagsInv
<1>2. QED BY <1>1, TagsInitSound, TagsNextSound, PTL DEF TagsSpec

\* Every edit deletes the lists it has made stale, whatever it interleaves with: when none
\* is under way, a list that was filled once and in time answers with the tags of the
\* database (edit_entity_tags writes first and looks for the lists afterwards).
THEOREM CachedTagsStayCurrent == TagsSpec => []CachedTagsCurrent
<1>1. ASSUME TagsInv PROVE CachedTagsCurrent
  <2>1. SUFFICES ASSUME NEW l \in TagLists \ raced, Cached(l), l \in Reached,
                        \A e \in Editors : edits[e].pc = "none"
                 PROVE  Answer(l) = TagsFromDb(l)
    BY DEF CachedTagsCurrent, Reached
  <2>2. Sound(l) /\ cache[l] \in List BY <1>1, <2>1, TagTypesAre DEF TagsInv
  <2>3. cache[l].fills <= 1 /\ cache[l].tags = TagsFromDb(l) BY <2>1, <2>2 DEF Sound, WillDelete
  <2>4. ~(cache[l].fills > 1) BY <2>2, <2>3 DEF List
  <2>5. QED BY <2>3, <2>4 DEF Answer
<1>2. QED BY <1>1, TagsInitSound, TagsNextSound, PTL DEF TagsSpec

-----------------------------------------------------------------------------
(* Serving.  SteadyContainersAreListed is not inductive: a reader removes   *)
(* from a set what it has put into missing earlier, and a handler deletes an*)
(* entry that it has taken out of its set earlier.  ServingInv adds what    *)
(* such a handler remembers, and that a listing lasts as long as its entry. *)

\* A handler that is about to list a container does so for the url it has saved.
ListsTheSaved ==
  \A c \in Containers : calls[c].pc = "list" /\ containers[c].exists => containers[c].url = calls[c].url

\* Nobody is about to delete the entry of a steady container, or to take it out of the
\* set that has it, and its listing outlives the entry unless a new one is on its way.
SteadyInv ==
  \A c \in steady :
    /\ containers[c].exists /\ calls[c].pc # "delete"
    /\ reader.url = containers[c].url => c \notin reader.missing
    /\ calls[c].pc # "list" => urlSets[containers[c].url][c] >= containers[c].left

ServingInv == ServingTypeOK /\ ListsTheSaved /\ SteadyInv

USE ServingAssumption

LEMMA ServingInitInv == ServingInit => ServingInv
BY DEF ServingInit, ServingInv, ServingTypeOK, ListsTheSaved, SteadyInv, ServingUrls, Gone, NoCall, IdleReader

LEMMA ReportContainerInv ==
  ASSUME ServingInv, NEW c \in Containers, ReportContainer(c)
  PROVE  ServingInv'
BY DEF ReportContainer, Put, ServingInv, ServingTypeOK, ListsTheSaved, SteadyInv

LEMMA SaveContainerInv ==
  ASSUME ServingInv, NEW c \in Containers, SaveContainer(c)
  PROVE  ServingInv'
<1>1. ServingTypeOK' BY DEF SaveContainer, Put, ServingInv, ServingTypeOK
<1>2. ListsTheSaved' BY DEF SaveContainer, Put, ServingInv, ServingTypeOK, ListsTheSaved
<1>3. SteadyInv' BY DEF SaveContainer, Put, Serves, ServingInv, ServingTypeOK, SteadyInv
<1>4. QED BY <1>1, <1>2, <1>3 DEF ServingInv

LEMMA ListContainerInv ==
  ASSUME ServingInv, NEW c \in Containers, ListContainer(c)
  PROVE  ServingInv'
<1>1. ServingTypeOK' BY DEF ListContainer, NewScore, NoCall, ServingInv, ServingTypeOK, ServingUrls
<1>2. ListsTheSaved' BY DEF ListContainer, NoCall, ServingInv, ServingTypeOK, ListsTheSaved
<1>3. SteadyInv'
  <2>1. c \in steady' => /\ containers[c].exists /\ containers[c].url = calls[c].url
                         /\ reader.url = containers[c].url => c \notin reader.missing
    BY DEF ListContainer, ServingInv, ServingTypeOK, ListsTheSaved, SteadyInv
  <2>2. urlSets'[calls[c].url][c] >= containers[c].left
    BY DEF ListContainer, NewScore, ServingInv, ServingTypeOK
  <2>3. \A d \in Containers \ {c} : calls'[d] = calls[d] /\ (d \in steady' <=> d \in steady)
    BY DEF ListContainer, ServingInv, ServingTypeOK
  <2>4. \A d \in Containers \ {c} : \A u \in ServingUrls : urlSets'[u][d] = urlSets[u][d]
    BY DEF ListContainer, ServingInv, ServingTypeOK
  <2>5. calls'[c].pc = "none" /\ UNCHANGED <<containers, reader>> /\ steady' \subseteq Containers
    BY <1>1 DEF ListContainer, NoCall, ServingInv, ServingTypeOK
  <2>6. ASSUME NEW d \in steady', d # c
        PROVE  /\ containers[d].exists /\ calls[d].pc # "delete"
               /\ reader.url = containers[d].url => d \notin reader.missing
               /\ calls[d].pc # "list" => urlSets'[containers[d].url][d] >= containers[d].left
    BY <2>3, <2>4, <2>5, <2>6 DEF ServingInv, ServingTypeOK, SteadyInv
  <2>7. QED BY <2>1, <2>2, <2>3, <2>5, <2>6 DEF SteadyInv
<1>4. QED BY <1>1, <1>2, <1>3 DEF ServingInv

LEMMA UnregisterInv ==
  ASSUME ServingInv, NEW c \in Containers, UnregisterContainer(c) \/ UnlistContainer(c) \/ DeleteContainer(c)
  PROVE  ServingInv'
<1>1. CASE UnregisterContainer(c)
  <2>1. PICK pc \in {"unlist", "delete"}, u \in ServingUrls :
          calls' = [calls EXCEPT ![c] = [pc |-> pc, url |-> u]] /\ (pc = "delete" => ~containers[c].exists)
    BY <1>1 DEF UnregisterContainer, Put, ServingInv, ServingTypeOK, ServingUrls
  <2>2. calls[c].pc = "none" /\ UNCHANGED <<containers, urlSets, reader, steady>>
    BY <1>1 DEF UnregisterContainer
  <2>3. /\ calls'[c] = [pc |-> pc, url |-> u]
        /\ \A d \in Containers \ {c} : calls'[d] = calls[d]
    BY <2>1 DEF ServingInv, ServingTypeOK
  <2>4. ServingTypeOK' BY <2>1, <2>2 DEF ServingInv, ServingTypeOK
  <2>5. ListsTheSaved' BY <2>2, <2>3 DEF ServingInv, ListsTheSaved
  <2>6. SteadyInv' BY <2>1, <2>2, <2>3 DEF ServingInv, ServingTypeOK, SteadyInv
  <2>7. QED BY <2>4, <2>5, <2>6 DEF ServingInv
<1>2. CASE UnlistContainer(c)
  <2>1. ServingTypeOK' BY <1>2 DEF UnlistContainer, Put, ServingInv, ServingTypeOK, ServingUrls
  <2>2. ListsTheSaved' BY <1>2 DEF UnlistContainer, Put, ServingInv, ServingTypeOK, ListsTheSaved
  <2>3. SteadyInv' BY <1>2 DEF UnlistContainer, Put, ServingInv, ServingTypeOK, SteadyInv
  <2>4. QED BY <2>1, <2>2, <2>3 DEF ServingInv
<1>3. CASE DeleteContainer(c)
  BY <1>3 DEF DeleteContainer, Gone, NoCall, ServingInv, ServingTypeOK, ListsTheSaved, SteadyInv, ServingUrls
<1>4. QED BY <1>1, <1>2, <1>3

\* A reader never puts a steady container of its url into missing, since it finds it.
LEMMA ReaderInv ==
  ASSUME ServingInv,
         \/ \E u \in ServingUrls : ReadSet(u)
         \/ \E c \in Containers : ReadEntry(c)
         \/ RemoveMissing
  PROVE  ServingInv'
<1>1. CASE \E u \in ServingUrls : ReadSet(u)
  <2>1. PICK u \in ServingUrls : ReadSet(u) BY <1>1
  <2>2. reader' = [url |-> u, keys |-> {c \in Containers : urlSets[u][c] > 0}, missing |-> {}]
    BY <2>1 DEF ReadSet, IdleReader
  <2>3. UNCHANGED <<containers, urlSets, calls, steady>> BY <2>1 DEF ReadSet
  <2>4. ServingTypeOK' BY <2>2, <2>3 DEF ServingInv, ServingTypeOK
  <2>5. ListsTheSaved' /\ SteadyInv' BY <2>2, <2>3 DEF ServingInv, ListsTheSaved, SteadyInv
  <2>6. QED BY <2>4, <2>5 DEF ServingInv
<1>2. CASE \E c \in Containers : ReadEntry(c)
  <2>1. PICK c \in Containers : ReadEntry(c) BY <1>2
  <2>2. UNCHANGED <<containers, urlSets, calls, steady>> BY <2>1 DEF ReadEntry
  <2>3. /\ reader'.url = reader.url /\ reader'.keys = reader.keys \ {c}
        /\ reader'.missing = IF Found(c) THEN reader.missing ELSE reader.missing \cup {c}
        /\ reader' = [url |-> reader'.url, keys |-> reader'.keys, missing |-> reader'.missing]
    BY <2>1 DEF ReadEntry, ServingInv, ServingTypeOK
  <2>4. ServingTypeOK'
    <3>1. /\ reader'.url \in ServingUrls \cup {NoUrl}
          /\ reader'.keys \in SUBSET Containers /\ reader'.missing \in SUBSET Containers
      BY <2>3 DEF ServingInv, ServingTypeOK
    <3>2. QED BY <2>2, <2>3, <3>1 DEF ServingInv, ServingTypeOK
  <2>5. ListsTheSaved' BY <2>2 DEF ServingInv, ListsTheSaved
  <2>6. \A d \in steady : reader.url = containers[d].url => d \notin reader'.missing
    BY <2>3 DEF Found, Serves, ServingInv, SteadyInv
  <2>7. SteadyInv' BY <2>2, <2>3, <2>6 DEF ServingInv, SteadyInv
  <2>8. QED BY <2>4, <2>5, <2>7 DEF ServingInv
<1>3. CASE RemoveMissing
  <2>1. ServingTypeOK' BY <1>3 DEF RemoveMissing, IdleReader, ServingInv, ServingTypeOK
  <2>2. ListsTheSaved' BY <1>3 DEF RemoveMissing, ServingInv, ListsTheSaved
  <2>3. \A c \in steady : urlSets'[containers[c].url][c] = urlSets[containers[c].url][c]
    BY <1>3 DEF RemoveMissing, ServingInv, ServingTypeOK, SteadyInv
  <2>4. SteadyInv' BY <1>3, <2>3 DEF RemoveMissing, IdleReader, ServingInv, ServingTypeOK, SteadyInv
  <2>5. QED BY <2>1, <2>2, <2>4 DEF ServingInv
<1>4. QED BY <1>1, <1>2, <1>3

LEMMA TimeInv ==
  ASSUME ServingInv, Second \/ \E c \in Containers : ContainerExpires(c)
  PROVE  ServingInv'
<1>1. CASE \E c \in Containers : ContainerExpires(c)
  BY <1>1 DEF ContainerExpires, Gone, ServingInv, ServingTypeOK, ListsTheSaved, SteadyInv, ServingUrls
<1>2. CASE Second
  <2>1. \A c \in Containers : /\ containers'[c].exists = containers[c].exists
                              /\ containers'[c].url = containers[c].url
                              /\ containers'[c].left = IF containers[c].left = 0 THEN 0 ELSE containers[c].left - 1
    BY <1>2 DEF Second, ServingInv, ServingTypeOK
  <2>2. \A u \in ServingUrls : \A c \in Containers :
          urlSets'[u][c] = IF urlSets[u][c] = 0 THEN 0 ELSE urlSets[u][c] - 1
    BY <1>2 DEF Second, ServingInv, ServingTypeOK
  <2>3. ServingTypeOK'
    <3>1. containers' \in [Containers -> [exists: BOOLEAN, left: 0..ServeTimeout, url: ServingUrls]]
      <4>1. \A n \in 0..ServeTimeout : (IF n = 0 THEN 0 ELSE n - 1) \in 0..ServeTimeout OBVIOUS
      <4>2. \A c \in Containers : containers[c] \in [exists: BOOLEAN, left: 0..ServeTimeout, url: ServingUrls]
        BY DEF ServingInv, ServingTypeOK
      <4>3. \A c \in Containers :
              [containers[c] EXCEPT !.left = IF @ = 0 THEN 0 ELSE @ - 1]
                \in [exists: BOOLEAN, left: 0..ServeTimeout, url: ServingUrls]
        BY <4>1, <4>2
      <4>4. QED BY <1>2, <4>3 DEF Second
    <3>2. urlSets' \in [ServingUrls -> [Containers -> 0..ServeTimeout]]
      <4>1. \A n \in 0..ServeTimeout : (IF n = 0 THEN 0 ELSE n - 1) \in 0..ServeTimeout OBVIOUS
      <4>2. \A u \in ServingUrls : urlSets[u] \in [Containers -> 0..ServeTimeout]
        BY DEF ServingInv, ServingTypeOK
      <4>3. \A u \in ServingUrls :
              [c \in Containers |-> IF urlSets[u][c] = 0 THEN 0 ELSE urlSets[u][c] - 1] \in [Containers -> 0..ServeTimeout]
        BY <4>1, <4>2
      <4>4. QED BY <1>2, <4>3 DEF Second
    <3>3. QED BY <1>2, <3>1, <3>2 DEF Second, ServingInv, ServingTypeOK
  <2>4. ListsTheSaved' BY <1>2, <2>1 DEF Second, ServingInv, ListsTheSaved
  <2>5. SteadyInv'
    <3>1. \A c \in steady : c \in Containers /\ containers[c].url \in ServingUrls
      BY DEF ServingInv, ServingTypeOK
    <3>2. \A c \in steady : \A u \in ServingUrls : containers[c].left \in Nat /\ urlSets[u][c] \in Nat
      BY <3>1 DEF ServingInv, ServingTypeOK
    <3>3. QED BY <1>2, <2>1, <2>2, <3>1, <3>2 DEF Second, ServingInv, SteadyInv
  <2>6. QED BY <2>3, <2>4, <2>5 DEF ServingInv
<1>3. QED BY <1>1, <1>2

LEMMA ServingStepInv == ServingInv /\ [ServingNext]_servingVars => ServingInv'
<1>1. SUFFICES ASSUME ServingInv, [ServingNext]_servingVars PROVE ServingInv'
  OBVIOUS
<1>2. CASE UNCHANGED servingVars
  <2>1. ServingTypeOK' BY <1>1, <1>2 DEF servingVars, ServingInv, ServingTypeOK, ServingUrls
  <2>2. ListsTheSaved' BY <1>1, <1>2 DEF servingVars, ServingInv, ServingTypeOK, ListsTheSaved
  <2>3. SteadyInv' BY <1>1, <1>2 DEF servingVars, ServingInv, ServingTypeOK, SteadyInv
  <2>4. QED BY <2>1, <2>2, <2>3 DEF ServingInv
<1>3. CASE ServingNext
  BY <1>1, <1>3, ReportContainerInv, SaveContainerInv, ListContainerInv, UnregisterInv, ReaderInv, TimeInv
     DEF ServingNext
<1>4. QED BY <1>1, <1>2, <1>3

\* The containers, the listings, the handlers and the reader keep their types; in
\* particular no listing is given more time than register_timeout.
THEOREM ServingTypeCorrect == ServingSpec => []ServingTypeOK
<1>1. ServingInv => ServingTypeOK BY DEF ServingInv
<1>2. QED BY <1>1, ServingInitInv, ServingStepInv, PTL DEF ServingSpec

\* A container that reports in time, always with one url, is found in the set of that url,
\* for any number of containers and urls and any timeout: no reader that saw it missing
\* at an earlier time takes it out of the set.
THEOREM SteadyContainersStayListed == ServingSpec => []SteadyContainersAreListed
<1>1. ServingInv => SteadyContainersAreListed
  <2>1. SUFFICES ASSUME ServingInv, NEW c \in steady, containers[c].left > 0, calls[c].pc # "list"
                 PROVE  urlSets[containers[c].url][c] > 0
    BY DEF SteadyContainersAreListed
  <2>2. urlSets[containers[c].url][c] >= containers[c].left BY <2>1 DEF ServingInv, SteadyInv
  <2>3. c \in Containers /\ containers[c].left \in Nat /\ urlSets[containers[c].url][c] \in Nat
    <3>1. c \in Containers /\ containers[c].left \in 0..ServeTimeout /\ containers[c].url \in ServingUrls
      BY <2>1 DEF ServingInv, ServingTypeOK
    <3>2. urlSets[containers[c].url][c] \in 0..ServeTimeout BY <2>1, <3>1 DEF ServingInv, ServingTypeOK
    <3>3. QED BY <3>1, <3>2
  <2>4. QED BY <2>1, <2>2, <2>3
<1>2. QED BY <1>1, ServingInitInv, ServingStepInv, PTL DEF ServingSpec

-----------------------------------------------------------------------------
(* Export and import: for any tasks, any number of reports, and processes    *)
(* that are killed as often as may be, whoever answers that an export or an *)
(* import is done is right.                                                *)

PopulateSpec == ExportInit /\ ImportInit /\ [][ExportNext \/ ImportNext]_populateVars

-----------------------------------------------------------------------------
(* Exports.                                                                *)

ExportSteps == {"none", "remove", "events", "artifacts", "map", "answered"}

\* Some of the files is the zip of these tasks as they were, or later.
HasZip(files, entities, metadata) ==
  \E f \in files :
    /\ f.kind = "zip" /\ f.entities = entities /\ f.metadata = metadata
    /\ \A t \in DOMAIN f.entities : f.events[t] >= f.entities[t]

\* Tasks only get more events, and last_update never tells of more than there are.
TasksGrow ==
  /\ chosen \subseteq Samples /\ updated \in [Samples -> Nat] /\ events \in [Samples -> Nat]
  /\ \A t \in Samples : updated[t] <= events[t]

ExporterShape ==
  /\ exporter.pc \in ExportSteps
  /\ exporter = [pc |-> exporter.pc, metadata |-> exporter.metadata, entities |-> exporter.entities,
                 old |-> exporter.old, written |-> exporter.written, files |-> exporter.files]

\* What an export has read is not newer than the tasks, what it has written not older than
\* what it has read; what it names is on the disk, from the moment it has written it.
ExporterKnows ==
  LET x == exporter
  IN  /\ DOMAIN x.entities \subseteq Samples /\ DOMAIN x.written \subseteq DOMAIN x.entities
      /\ \A t \in DOMAIN x.entities : x.entities[t] \in Nat /\ x.entities[t] <= events[t]
      /\ \A t \in DOMAIN x.written : x.written[t] >= x.entities[t]
      /\ x.pc \in {"artifacts", "map", "answered"} => x.files \subseteq disk /\ HasZip(x.files, x.entities, x.metadata)

\* The map file names a zip of the tasks it lists, wherever the export that wrote it ended.
MapTells == mapFile.readable => HasZip(mapFile.files, mapFile.entities, mapFile.metadata)

ExportInv == TasksGrow /\ ExporterShape /\ ExporterKnows /\ MapTells

LEMMA NothingWritten == DOMAIN <<>> = {}
<1>1. <<>> \in Seq({}) /\ Len(<<>>) = 0 BY EmptySeq
<1>2. QED BY <1>1, LenProperties

LEMMA NothingIsKnown ==
  ASSUME exporter = NoExport
  PROVE  ExporterShape /\ ExporterKnows
<1>1. /\ exporter.pc = "none" /\ exporter.entities = <<>> /\ exporter.written = <<>>
  BY DEF NoExport
<1>2. ExporterShape BY DEF NoExport, ExporterShape, ExportSteps
<1>3. ExporterKnows
  <2>1. DOMAIN exporter.entities = {} /\ DOMAIN exporter.written = {} BY <1>1, NothingWritten
  <2>2. QED BY <1>1, <2>1 DEF ExporterKnows
<1>4. QED BY <1>2, <1>3

LEMMA NewExport ==
  ASSUME NEW metadata, NEW entities, NEW x,
         x = [NoExport EXCEPT !.entities = entities, !.metadata = metadata]
  PROVE  x = [pc |-> "none", metadata |-> metadata, entities |-> entities,
              old |-> {}, written |-> <<>>, files |-> {}]
BY DEF NoExport

LEMMA ExportInitInv == ExportInit => ExportInv
<1>1. SUFFICES ASSUME ExportInit PROVE ExportInv OBVIOUS
<1>2. TasksGrow BY <1>1 DEF ExportInit, TasksGrow
<1>3. MapTells BY <1>1 DEF ExportInit, MapTells, NoMap
<1>4. QED BY <1>1, <1>2, <1>3, NothingIsKnown DEF ExportInit, ExportInv

LEMMA StartExportInv ==
  ASSUME ExportInv, NEW metadata, StartExport(metadata)
  PROVE  ExportInv'
<1> DEFINE x == [NoExport EXCEPT !.entities = [t \in chosen |-> updated[t]], !.metadata = metadata]
           y == IF Outdated(x) THEN [x EXCEPT !.pc = "remove", !.old = mapFile.files]
                ELSE [x EXCEPT !.pc = "answered", !.files = mapFile.files]
<1>1. exporter' = y /\ UNCHANGED <<chosen, updated, events, disk, mapFile, kills>> BY DEF StartExport
<1>2. TasksGrow' BY <1>1 DEF ExportInv, TasksGrow
<1>3. MapTells' BY <1>1 DEF ExportInv, MapTells, HasZip
<1> DEFINE read == [t \in chosen |-> updated[t]]
<1>4. x = [pc |-> "none", metadata |-> metadata, entities |-> [t \in chosen |-> updated[t]],
           old |-> {}, written |-> <<>>, files |-> {}]
  <2>1. x = [NoExport EXCEPT !.entities = read, !.metadata = metadata] OBVIOUS
  <2> HIDE DEF x, read
  <2>2. x = [pc |-> "none", metadata |-> metadata, entities |-> read, old |-> {}, written |-> <<>>, files |-> {}]
    BY <2>1, NewExport
  <2>3. QED BY <2>2 DEF read
<1>5. /\ [t \in chosen |-> updated[t]] = x.entities /\ x.written = <<>> /\ x.metadata = metadata
      /\ DOMAIN x.entities = chosen /\ \A t \in chosen : x.entities[t] = updated[t]
  BY <1>4
<1>6. \A t \in chosen : t \in Samples /\ updated[t] \in Nat /\ updated[t] <= events[t]
  BY DEF ExportInv, TasksGrow
<1> HIDE DEF x
<1>7. CASE Outdated(x)
  <2>1. y = [pc |-> "remove", metadata |-> metadata, entities |-> x.entities,
             old |-> mapFile.files, written |-> <<>>, files |-> {}]
    BY <1>4, <1>7
  <2>2. ExporterShape' BY <1>1, <2>1 DEF ExporterShape, ExportSteps
  <2>3. exporter'.pc = "remove" /\ exporter'.entities = x.entities /\ exporter'.written = <<>>
    BY <1>1, <2>1
  <2>4. ExporterKnows'
    <3>1. DOMAIN exporter'.written = {} BY <2>3, NothingWritten
    <3>2. QED BY <1>1, <1>5, <1>6, <2>3, <3>1 DEF ExporterKnows
  <2>5. QED BY <1>2, <1>3, <2>2, <2>4 DEF ExportInv
<1>8. CASE ~Outdated(x)
  <2>1. y = [pc |-> "answered", metadata |-> metadata, entities |-> x.entities,
             old |-> {}, written |-> <<>>, files |-> mapFile.files]
    BY <1>4, <1>8
  <2>2. /\ mapFile.readable /\ mapFile.files \subseteq disk
        /\ mapFile.entities = x.entities /\ mapFile.metadata = x.metadata
    BY <1>8 DEF Outdated
  <2>3. HasZip(mapFile.files, x.entities, metadata) BY <1>5, <2>2 DEF ExportInv, MapTells
  <2>4. ExporterShape' BY <1>1, <2>1 DEF ExporterShape, ExportSteps
  <2>5. exporter' = y /\ y.files = mapFile.files /\ y.entities = x.entities /\ y.metadata = metadata
        /\ y.written = <<>>
    BY <1>1, <2>1
  <2> HIDE DEF y
  <2>6. HasZip(exporter'.files, exporter'.entities, exporter'.metadata) BY <2>3, <2>5
  <2>7. ExporterKnows' BY <1>1, <1>5, <1>6, <2>2, <2>5, <2>6 DEF ExporterKnows, HasZip
  <2>8. QED BY <1>2, <1>3, <2>4, <2>7 DEF ExportInv
<1>9. QED BY <1>7, <1>8

\* Steps that move an export on, without new files: what they leave alone stays known.
LEMMA ExportMovesOn ==
  ASSUME ExportInv, NEW pc \in ExportSteps, NEW old, NEW files, NEW written,
         exporter' = [pc |-> pc, metadata |-> exporter.metadata, entities |-> exporter.entities,
                      old |-> old, written |-> written, files |-> files],
         UNCHANGED <<chosen, updated, events>>,
         mapFile' = mapFile,
         DOMAIN written \subseteq DOMAIN exporter.entities,
         \A t \in DOMAIN written : written[t] >= exporter.entities[t],
         pc \in {"artifacts", "map", "answered"} =>
           files \subseteq disk' /\ HasZip(files, exporter.entities, exporter.metadata)
  PROVE  ExportInv'
<1>1. TasksGrow' BY DEF ExportInv, TasksGrow
<1>2. MapTells' BY DEF ExportInv, MapTells, HasZip
<1>3. /\ exporter'.pc = pc /\ exporter'.metadata = exporter.metadata /\ exporter'.entities = exporter.entities
      /\ exporter'.old = old /\ exporter'.written = written /\ exporter'.files = files
  OBVIOUS
<1>4. ExporterShape' BY <1>3 DEF ExporterShape
<1>5. ExporterKnows' BY <1>3 DEF ExportInv, ExporterKnows, HasZip
<1>6. QED BY <1>1, <1>2, <1>4, <1>5 DEF ExportInv

LEMMA RemoveOldInv ==
  ASSUME ExportInv, RemoveOld
  PROVE  ExportInv'
<1>1. /\ exporter.pc = "remove" /\ UNCHANGED <<chosen, updated, events, mapFile>>
      /\ \/ exporter' = [exporter EXCEPT !.pc = "events"]
         \/ \E f \in exporter.old : exporter' = [exporter EXCEPT !.old = exporter.old \ {f}]
  BY DEF RemoveOld
<1>2. /\ exporter = [pc |-> exporter.pc, metadata |-> exporter.metadata, entities |-> exporter.entities,
                     old |-> exporter.old, written |-> exporter.written, files |-> exporter.files]
      /\ DOMAIN exporter.written \subseteq DOMAIN exporter.entities
      /\ \A t \in DOMAIN exporter.written : exporter.written[t] >= exporter.entities[t]
  BY DEF ExportInv, ExporterShape, ExporterKnows
<1>3. CASE exporter' = [exporter EXCEPT !.pc = "events"]
  <2>1. exporter' = [pc |-> "events", metadata |-> exporter.metadata, entities |-> exporter.entities,
                     old |-> exporter.old, written |-> exporter.written, files |-> exporter.files]
    BY <1>2, <1>3
  <2>2. QED BY <1>1, <1>2, <2>1, ExportMovesOn DEF ExportSteps
<1>4. ASSUME NEW f \in exporter.old, exporter' = [exporter EXCEPT !.old = exporter.old \ {f}]
      PROVE  ExportInv'
  <2>1. exporter' = [pc |-> "remove", metadata |-> exporter.metadata, entities |-> exporter.entities,
                     old |-> exporter.old \ {f}, written |-> exporter.written, files |-> exporter.files]
    BY <1>1, <1>2, <1>4
  <2>2. QED BY <1>1, <1>2, <2>1, ExportMovesOn DEF ExportSteps
<1>5. QED BY <1>1, <1>3, <1>4

LEMMA ExportEventsInv ==
  ASSUME ExportInv, NEW t \in Samples, ExportEvents(t)
  PROVE  ExportInv'
<1> DEFINE x == exporter
           written == [u \in DOMAIN x.written \cup {t} |-> IF u = t THEN events[t] ELSE x.written[u]]
<1>1. /\ x.pc = "events" /\ t \in DOMAIN x.entities /\ t \notin DOMAIN x.written
      /\ x' = [x EXCEPT !.written = written]
      /\ UNCHANGED <<chosen, updated, events, disk, mapFile>>
  BY DEF ExportEvents
<1>2. /\ x = [pc |-> x.pc, metadata |-> x.metadata, entities |-> x.entities,
              old |-> x.old, written |-> x.written, files |-> x.files]
      /\ DOMAIN x.written \subseteq DOMAIN x.entities
      /\ \A u \in DOMAIN x.written : x.written[u] >= x.entities[u]
      /\ x.entities[t] \in Nat /\ x.entities[t] <= events[t] /\ events[t] \in Nat
  BY <1>1 DEF ExportInv, ExporterShape, ExporterKnows, TasksGrow
<1>3. /\ DOMAIN written \subseteq DOMAIN x.entities
      /\ \A u \in DOMAIN written : written[u] >= x.entities[u]
  BY <1>1, <1>2
<1> HIDE DEF written
<1>4. exporter' = [pc |-> "events", metadata |-> exporter.metadata, entities |-> exporter.entities,
                   old |-> exporter.old, written |-> written, files |-> exporter.files]
  BY <1>1, <1>2
<1>5. QED BY <1>1, <1>3, <1>4, ExportMovesOn DEF ExportSteps

LEMMA ReplaceFileInv ==
  ASSUME ExportInv, ReplaceFile
  PROVE  ExportInv'
<1> DEFINE x == exporter
           zip == ZipOf(x)
<1>1. /\ x.pc = "events" /\ DOMAIN x.written = DOMAIN x.entities /\ disk' = disk \cup {zip}
      /\ x' = [x EXCEPT !.pc = "artifacts", !.files = {zip}]
      /\ UNCHANGED <<chosen, updated, events, mapFile>>
  BY DEF ReplaceFile
<1>2. /\ x = [pc |-> x.pc, metadata |-> x.metadata, entities |-> x.entities,
              old |-> x.old, written |-> x.written, files |-> x.files]
      /\ \A u \in DOMAIN x.written : x.written[u] >= x.entities[u]
  BY DEF ExportInv, ExporterShape, ExporterKnows
<1>3. zip.kind = "zip" /\ zip.entities = x.entities /\ zip.metadata = x.metadata /\ zip.events = x.written
  BY DEF ZipOf
<1> HIDE DEF zip
<1>4. HasZip({zip}, exporter.entities, exporter.metadata) BY <1>1, <1>2, <1>3 DEF HasZip
<1>5. exporter' = [pc |-> "artifacts", metadata |-> exporter.metadata, entities |-> exporter.entities,
                   old |-> exporter.old, written |-> exporter.written, files |-> {zip}]
  BY <1>1, <1>2
<1>6. {zip} \subseteq disk' BY <1>1
<1>7. QED BY <1>1, <1>2, <1>4, <1>5, <1>6, ExportMovesOn DEF ExportSteps

LEMMA ExportArtifactsInv ==
  ASSUME ExportInv, ExportArtifacts
  PROVE  ExportInv'
<1> DEFINE x == exporter
           more == {ArtifactsOf(x)}
<1>1. /\ x.pc = "artifacts" /\ UNCHANGED <<chosen, updated, events, mapFile>>
      /\ \E new \in {{}, more} :
           disk' = disk \cup new /\ x' = [x EXCEPT !.pc = "map", !.files = x.files \cup new]
  <2>1. x.pc = "artifacts" /\ UNCHANGED <<chosen, updated, events, mapFile>> BY DEF ExportArtifacts
  <2>2. x = [pc |-> x.pc, metadata |-> x.metadata, entities |-> x.entities,
             old |-> x.old, written |-> x.written, files |-> x.files]
    BY DEF ExportInv, ExporterShape
  <2>3. CASE disk' = disk /\ x' = [x EXCEPT !.pc = "map"]
    <3>1. disk' = disk \cup {} /\ x' = [x EXCEPT !.pc = "map", !.files = x.files \cup {}] BY <2>2, <2>3
    <3>2. QED BY <2>1, <3>1
  <2>4. CASE disk' = disk \cup more /\ x' = [x EXCEPT !.pc = "map", !.files = x.files \cup more]
    BY <2>1, <2>4
  <2>5. QED BY <2>3, <2>4 DEF ExportArtifacts
<1> HIDE DEF more
<1>2. PICK new \in {{}, more} :
        disk' = disk \cup new /\ x' = [x EXCEPT !.pc = "map", !.files = x.files \cup new]
  BY <1>1
<1>3. /\ x = [pc |-> x.pc, metadata |-> x.metadata, entities |-> x.entities,
              old |-> x.old, written |-> x.written, files |-> x.files]
      /\ DOMAIN x.written \subseteq DOMAIN x.entities
      /\ \A u \in DOMAIN x.written : x.written[u] >= x.entities[u]
      /\ x.files \subseteq disk /\ HasZip(x.files, x.entities, x.metadata)
  BY <1>1 DEF ExportInv, ExporterShape, ExporterKnows
<1>4. exporter' = [pc |-> "map", metadata |-> exporter.metadata, entities |-> exporter.entities,
                   old |-> exporter.old, written |-> exporter.written, files |-> exporter.files \cup new]
  BY <1>2, <1>3
<1>5. HasZip(exporter.files \cup new, exporter.entities, exporter.metadata) BY <1>3 DEF HasZip
<1>6. exporter.files \cup new \subseteq disk' BY <1>2, <1>3
<1>7. QED BY <1>1, <1>3, <1>4, <1>5, <1>6, ExportMovesOn DEF ExportSteps

LEMMA WriteMapInv ==
  ASSUME ExportInv, WriteMap
  PROVE  ExportInv'
<1> DEFINE x == exporter
<1>1. /\ x.pc = "map" /\ UNCHANGED <<chosen, updated, events, disk>>
      /\ mapFile' = [files |-> x.files, entities |-> x.entities, metadata |-> x.metadata, readable |-> TRUE]
      /\ x' = [x EXCEPT !.pc = "answered"]
  BY DEF WriteMap
<1>2. /\ x = [pc |-> x.pc, metadata |-> x.metadata, entities |-> x.entities,
              old |-> x.old, written |-> x.written, files |-> x.files]
      /\ x.files \subseteq disk /\ HasZip(x.files, x.entities, x.metadata)
  BY <1>1 DEF ExportInv, ExporterShape, ExporterKnows
<1>3. exporter' = [pc |-> "answered", metadata |-> exporter.metadata, entities |-> exporter.entities,
                   old |-> exporter.old, written |-> exporter.written, files |-> exporter.files]
  BY <1>1, <1>2
<1>4. /\ exporter'.metadata = exporter.metadata /\ exporter'.entities = exporter.entities
      /\ exporter'.written = exporter.written /\ exporter'.files = exporter.files
      /\ exporter'.old = exporter.old /\ exporter'.pc = "answered"
  BY <1>3
<1>5. TasksGrow' BY <1>1 DEF ExportInv, TasksGrow
<1>6. ExporterShape' BY <1>3, <1>4 DEF ExporterShape, ExportSteps
<1>7. ExporterKnows' BY <1>1, <1>2, <1>4 DEF ExportInv, ExporterKnows, HasZip
<1>8. MapTells'
  <2>1. mapFile'.files = x.files /\ mapFile'.entities = x.entities /\ mapFile'.metadata = x.metadata BY <1>1
  <2>2. HasZip(mapFile'.files, mapFile'.entities, mapFile'.metadata) BY <1>2, <2>1
  <2>3. QED BY <2>2 DEF MapTells, HasZip
<1>9. QED BY <1>5, <1>6, <1>7, <1>8 DEF ExportInv

LEMMA ExportDiesInv ==
  ASSUME ExportInv, ExportDies
  PROVE  ExportInv'
<1>1. /\ exporter' = NoExport /\ mapFile' \in {mapFile, NoMap} /\ UNCHANGED <<chosen, updated, events, disk>>
  BY DEF ExportDies
<1>2. TasksGrow' BY <1>1 DEF ExportInv, TasksGrow
<1>3. ExporterShape' /\ ExporterKnows'
  <2>1. exporter'.pc = "none" /\ exporter'.entities = <<>> /\ exporter'.written = <<>>
    BY <1>1 DEF NoExport
  <2>2. ExporterShape' BY <1>1 DEF NoExport, ExporterShape, ExportSteps
  <2>3. DOMAIN exporter'.entities = {} /\ DOMAIN exporter'.written = {} BY <2>1, NothingWritten
  <2>4. QED BY <2>1, <2>2, <2>3 DEF ExporterKnows
<1>4. MapTells'
  <2>1. CASE mapFile' = mapFile BY <2>1 DEF ExportInv, MapTells, HasZip
  <2>2. CASE mapFile' = NoMap BY <2>2 DEF NoMap, MapTells
  <2>3. QED BY <1>1, <2>1, <2>2
<1>5. QED BY <1>2, <1>3, <1>4 DEF ExportInv

\* Tasks report, or come and go: an export only finds more events than it has read of.
LEMMA TaskStepsInv ==
  ASSUME ExportInv, NEW t \in Samples, StoreEvents(t) \/ SetLastUpdate(t) \/ Archive(t)
  PROVE  ExportInv'
<1>1. UNCHANGED <<disk, mapFile, exporter>> BY DEF StoreEvents, SetLastUpdate, Archive
<1>2. TasksGrow' /\ \A u \in Samples : events[u] \in Nat /\ events'[u] \in Nat /\ events[u] <= events'[u]
  <2>1. CASE StoreEvents(t) BY <2>1 DEF ExportInv, TasksGrow, StoreEvents
  <2>2. CASE SetLastUpdate(t) BY <2>2 DEF ExportInv, TasksGrow, SetLastUpdate
  <2>3. CASE Archive(t) BY <2>3 DEF ExportInv, TasksGrow, Archive
  <2>4. QED BY <2>1, <2>2, <2>3
<1>3. ExporterShape' BY <1>1 DEF ExportInv, ExporterShape
<1>4. MapTells' BY <1>1 DEF ExportInv, MapTells, HasZip
<1>5. \A u \in DOMAIN exporter.entities : exporter.entities[u] <= events'[u]
  BY <1>2 DEF ExportInv, ExporterKnows
<1>6. ExporterKnows' BY <1>1, <1>5 DEF ExportInv, ExporterKnows, HasZip
<1>7. QED BY <1>2, <1>3, <1>4, <1>6 DEF ExportInv

LEMMA ExportStepInv ==
  ASSUME ExportInv, ExportNext \/ UNCHANGED exportVars
  PROVE  ExportInv'
<1>1. CASE UNCHANGED exportVars
  <2>1. UNCHANGED <<chosen, updated, events, disk, mapFile, exporter>> BY <1>1 DEF exportVars
  <2>2. QED BY <2>1 DEF ExportInv, TasksGrow, ExporterShape, ExporterKnows, MapTells, HasZip
<1>2. CASE ExportNext
  BY <1>2, StartExportInv, RemoveOldInv, ExportEventsInv, ReplaceFileInv, ExportArtifactsInv, WriteMapInv,
     ExportDiesInv, TaskStepsInv DEF ExportNext
<1>3. QED BY <1>1, <1>2

-----------------------------------------------------------------------------
(* Imports.                                                                *)

\* A task whose old events are gone has the chunks that this import has added, each once;
\* chunks are added when the old events of all tasks are gone.
ImportInv ==
  /\ importer \in [pc: {"none", "entities", "done"}, saved: SUBSET Packed, deleted: SUBSET Packed,
                   added: SUBSET (Packed \X Chunks)]
  /\ target \in [Packed -> [exists: BOOLEAN, events: [Chunks -> Nat]]]
  /\ importer.deleted \subseteq importer.saved
  /\ importer.added # {} => importer.deleted = Packed
  /\ \A t \in importer.saved : target[t].exists
  /\ \A t \in importer.deleted : \A c \in Chunks :
       target[t].events[c] = IF <<t, c>> \in importer.added THEN 1 ELSE 0
  /\ importer.pc = "done" => importer.added = Packed \X Chunks

LEMMA ImportInitInv == ImportInit => ImportInv
  BY DEF ImportInit, ImportInv, Importing, NoTaskYet, Chunks

LEMMA FreshImportInv ==
  ASSUME ImportInv, NEW pc \in {"none", "entities"}, importer' = Importing(pc), target' = target
  PROVE  ImportInv'
BY DEF ImportInv, Importing, Chunks

LEMMA ImportEntityInv ==
  ASSUME ImportInv, NEW t \in Packed, ImportEntity(t)
  PROVE  ImportInv'
<1>1. /\ target' = [target EXCEPT ![t].exists = TRUE]
      /\ importer' = [importer EXCEPT !.saved = importer.saved \cup {t}]
      /\ t \notin importer.saved
  BY DEF ImportEntity
<1>2. \A u \in Packed : /\ target'[u].events = target[u].events
                        /\ target'[u].exists = (IF u = t THEN TRUE ELSE target[u].exists)
  BY <1>1 DEF ImportInv
<1>3. target' \in [Packed -> [exists: BOOLEAN, events: [Chunks -> Nat]]]
  <2> DEFINE T == [exists: BOOLEAN, events: [Chunks -> Nat]]
  <2>1. target \in [Packed -> T] BY DEF ImportInv
  <2>2. [target[t] EXCEPT !.exists = TRUE] \in T BY <2>1
  <2>3. target' = [target EXCEPT ![t] = [target[t] EXCEPT !.exists = TRUE]] BY <1>1, <2>1
  <2> HIDE DEF T
  <2>4. target' \in [Packed -> T] BY <2>1, <2>2, <2>3
  <2>5. QED BY <2>4 DEF T
<1>4. /\ importer'.saved = importer.saved \cup {t} /\ importer'.deleted = importer.deleted
      /\ importer'.added = importer.added /\ importer'.pc = importer.pc
      /\ importer' \in [pc: {"none", "entities", "done"}, saved: SUBSET Packed, deleted: SUBSET Packed,
                        added: SUBSET (Packed \X Chunks)]
  BY <1>1 DEF ImportInv
<1>5. importer.deleted \subseteq Packed BY DEF ImportInv
<1>6. \A u \in importer'.saved : target'[u].exists BY <1>2, <1>4 DEF ImportInv
<1>7. \A u \in importer.deleted : \A c \in Chunks :
        target'[u].events[c] = IF <<u, c>> \in importer.added THEN 1 ELSE 0
  <2>1. TAKE u \in importer.deleted
  <2>2. target'[u].events = target[u].events BY <1>2, <1>5
  <2>3. \A c \in Chunks : target[u].events[c] = IF <<u, c>> \in importer.added THEN 1 ELSE 0 BY DEF ImportInv
  <2>4. QED BY <2>2, <2>3
<1>8. QED BY <1>3, <1>4, <1>6, <1>7 DEF ImportInv, Chunks

LEMMA DeleteEventsInv ==
  ASSUME ImportInv, NEW t \in Packed, DeleteEvents(t)
  PROVE  ImportInv'
<1>1. /\ target' = [target EXCEPT ![t] = Cleared(target[t])]
      /\ importer' = [importer EXCEPT !.deleted = importer.deleted \cup {t}]
      /\ t \in importer.saved /\ t \notin importer.deleted
  BY DEF DeleteEvents
<1>2. target[t] \in [exists: BOOLEAN, events: [Chunks -> Nat]] BY DEF ImportInv
<1>3. /\ Cleared(target[t]) \in [exists: BOOLEAN, events: [Chunks -> Nat]]
      /\ Cleared(target[t]).exists = target[t].exists
      /\ \A c \in Chunks : Cleared(target[t]).events[c] = 0
  BY <1>2 DEF Cleared, Chunks
<1>4. /\ target' \in [Packed -> [exists: BOOLEAN, events: [Chunks -> Nat]]]
      /\ \A u \in Packed : target'[u] = IF u = t THEN Cleared(target[t]) ELSE target[u]
  BY <1>1, <1>3 DEF ImportInv
<1>5. /\ importer'.saved = importer.saved /\ importer'.deleted = importer.deleted \cup {t}
      /\ importer'.added = importer.added /\ importer'.pc = importer.pc
      /\ importer' \in [pc: {"none", "entities", "done"}, saved: SUBSET Packed, deleted: SUBSET Packed,
                        added: SUBSET (Packed \X Chunks)]
  BY <1>1 DEF ImportInv
<1>6. importer.added = {} /\ importer.deleted \subseteq Packed /\ importer.saved \subseteq Packed
  BY <1>1 DEF ImportInv
<1>7. \A u \in importer'.saved : target'[u].exists BY <1>3, <1>4, <1>5, <1>6 DEF ImportInv
<1>8. ASSUME NEW u \in importer'.deleted, NEW c \in Chunks
      PROVE  target'[u].events[c] = IF <<u, c>> \in importer.added THEN 1 ELSE 0
  <2>1. CASE u = t BY <1>3, <1>4, <1>6, <2>1
  <2>2. CASE u # t BY <1>4, <1>5, <1>6, <2>2 DEF ImportInv
  <2>3. QED BY <2>1, <2>2
<1>9. QED BY <1>1, <1>4, <1>5, <1>6, <1>7, <1>8 DEF ImportInv, Chunks

LEMMA ImportEventsInv ==
  ASSUME ImportInv, NEW t \in Packed, NEW c \in Chunks, ImportEvents(t, c)
  PROVE  ImportInv'
<1>1. /\ target' = [target EXCEPT ![t].events[c] = target[t].events[c] + 1]
      /\ importer' = [importer EXCEPT !.added = importer.added \cup {<<t, c>>}]
      /\ importer.pc = "entities" /\ importer.deleted = Packed /\ <<t, c>> \notin importer.added
  BY DEF ImportEvents
<1>2. target[t].events \in [Chunks -> Nat] /\ target[t].events[c] = 0 /\ target[t] \in [exists: BOOLEAN, events: [Chunks -> Nat]]
  BY <1>1 DEF ImportInv
<1>3. \A u \in Packed : /\ target'[u].exists = target[u].exists
                        /\ u # t => target'[u] = target[u]
  BY <1>1 DEF ImportInv
<1>4. target'[t].events = [target[t].events EXCEPT ![c] = 1] BY <1>1, <1>2 DEF ImportInv
<1>5. target' \in [Packed -> [exists: BOOLEAN, events: [Chunks -> Nat]]]
  <2>1. [target[t].events EXCEPT ![c] = target[t].events[c] + 1] \in [Chunks -> Nat] BY <1>2
  <2>2. QED BY <1>1, <1>2, <2>1 DEF ImportInv
<1>6. /\ importer'.saved = importer.saved /\ importer'.deleted = importer.deleted
      /\ importer'.added = importer.added \cup {<<t, c>>} /\ importer'.pc = "entities"
      /\ importer' \in [pc: {"none", "entities", "done"}, saved: SUBSET Packed, deleted: SUBSET Packed,
                        added: SUBSET (Packed \X Chunks)]
  BY <1>1 DEF ImportInv
<1>7. \A u \in importer'.saved : target'[u].exists BY <1>3, <1>6 DEF ImportInv
<1>8. ASSUME NEW u \in Packed, NEW b \in Chunks
      PROVE  target'[u].events[b] = IF <<u, b>> \in importer.added \cup {<<t, c>>} THEN 1 ELSE 0
  <2>1. target[u].events[b] = IF <<u, b>> \in importer.added THEN 1 ELSE 0 BY <1>1 DEF ImportInv
  <2>2. CASE u # t BY <1>3, <2>1, <2>2
  <2>3. CASE u = t /\ b = c BY <1>2, <1>4, <2>3
  <2>4. CASE u = t /\ b # c BY <1>2, <1>4, <2>1, <2>4
  <2>5. QED BY <2>2, <2>3, <2>4
<1>9. importer'.deleted \subseteq importer'.saved BY <1>6 DEF ImportInv
<1>10. importer'.added # {} => importer'.deleted = Packed BY <1>1, <1>6
<1>11. \A u \in importer'.deleted : \A b \in Chunks :
         target'[u].events[b] = IF <<u, b>> \in importer'.added THEN 1 ELSE 0
  <2>1. importer'.deleted = Packed /\ importer'.added = importer.added \cup {<<t, c>>} BY <1>1, <1>6
  <2>2. SUFFICES ASSUME NEW u \in Packed, NEW b \in Chunks
                 PROVE  target'[u].events[b] = IF <<u, b>> \in importer'.added THEN 1 ELSE 0
    BY <2>1
  <2>3. target'[u].events[b] = IF <<u, b>> \in importer.added \cup {<<t, c>>} THEN 1 ELSE 0 BY <1>8
  <2>4. QED BY <2>1, <2>3
<1>12. importer'.pc # "done" BY <1>6
<1>13. QED BY <1>5, <1>6, <1>7, <1>9, <1>10, <1>11, <1>12 DEF ImportInv, Chunks

LEMMA FinishImportInv ==
  ASSUME ImportInv, FinishImport
  PROVE  ImportInv'
<1>1. importer' = [importer EXCEPT !.pc = "done"] /\ target' = target /\ importer.added = Packed \X Chunks
  BY DEF FinishImport
<1>2. /\ importer'.saved = importer.saved /\ importer'.deleted = importer.deleted
      /\ importer'.added = importer.added
      /\ importer' \in [pc: {"none", "entities", "done"}, saved: SUBSET Packed, deleted: SUBSET Packed,
                        added: SUBSET (Packed \X Chunks)]
  BY <1>1 DEF ImportInv
<1>3. QED BY <1>1, <1>2 DEF ImportInv, Chunks

LEMMA ImportStepInv ==
  ASSUME ImportInv, ImportNext \/ UNCHANGED importVars
  PROVE  ImportInv'
<1>1. CASE UNCHANGED importVars BY <1>1 DEF importVars, ImportInv, Chunks
<1>2. CASE StartImport \/ ImportDies
  <2>1. \E pc \in {"none", "entities"} : importer' = Importing(pc) /\ target' = target
    BY <1>2 DEF StartImport, ImportDies
  <2>2. QED BY <2>1, FreshImportInv
<1>3. CASE FinishImport BY <1>3, FinishImportInv
<1>4. CASE \E t \in Packed : ImportEntity(t) \/ DeleteEvents(t) \/ \E c \in Chunks : ImportEvents(t, c)
  BY <1>4, ImportEntityInv, DeleteEventsInv, ImportEventsInv
<1>5. QED BY <1>1, <1>2, <1>3, <1>4 DEF ImportNext

-----------------------------------------------------------------------------
\* Whoever answers is right, wherever those before it were killed: an export names files
\* that exist and hold what its tasks had reported by last_update; an import has stored
\* each chunk of the events once.
THEOREM ExamplesStayWhole == PopulateSpec => []ExamplesAreWhole
<1>1. ExportInit /\ ImportInit => ExportInv /\ ImportInv BY ExportInitInv, ImportInitInv
<1>2. ExportInv /\ ImportInv /\ [ExportNext \/ ImportNext]_populateVars => ExportInv' /\ ImportInv'
  <2>1. SUFFICES ASSUME ExportInv, ImportInv, [ExportNext \/ ImportNext]_populateVars
                 PROVE  ExportInv' /\ ImportInv'
    OBVIOUS
  <2>2. ExportNext \/ UNCHANGED exportVars BY <2>1 DEF ImportNext, populateVars
  <2>3. ImportNext \/ UNCHANGED importVars BY <2>1 DEF ExportNext, populateVars
  <2>4. QED BY <2>1, <2>2, <2>3, ExportStepInv, ImportStepInv
<1>3. ExportInv => ExportsAreCurrent BY DEF ExportInv, ExporterKnows, HasZip, ExportsAreCurrent
<1>4. ImportInv => ImportsRestore
  <2>1. SUFFICES ASSUME ImportInv, importer.pc = "done", NEW t \in Packed
                 PROVE  target[t] = [exists |-> TRUE, events |-> [c \in Chunks |-> 1]]
    BY DEF ImportsRestore
  <2>2. importer.added = Packed \X Chunks /\ 1 \in Chunks BY <2>1 DEF ImportInv, Chunks
  <2>3. <<t, 1>> \in importer.added BY <2>2
  <2>4. importer.deleted = Packed /\ t \in importer.saved BY <2>1, <2>3 DEF ImportInv
  <2>5. target[t].exists /\ \A c \in Chunks : target[t].events[c] = 1 BY <2>1, <2>2, <2>4 DEF ImportInv
  <2>6. target[t] \in [exists: BOOLEAN, events: [Chunks -> Nat]] BY <2>1 DEF ImportInv
  <2>7. target[t].events = [c \in Chunks |-> 1] BY <2>5, <2>6
  <2>8. QED BY <2>5, <2>6, <2>7
<1>5. QED BY <1>1, <1>2, <1>3, <1>4, PTL DEF PopulateSpec, ExamplesAreWhole

-----------------------------------------------------------------------------
(* Startup: for any servers, scripts and accounts.                         *)

StartupSpec == StartupInit /\ [][StartupNext]_startupVars

Early == {"down", "wait", "probe", "limited"}
Later == {"accounts", "fixed", "release", "populate", "serve"}
Steps == Early \cup {"elastic", "plan", "migrate", "record"} \cup Later

ServerState ==
  [pc: Steps, empty: BOOLEAN, skip: BOOLEAN, todo: SUBSET Scripts, left: SUBSET Accounts,
   unnamed: SUBSET Accounts, failed: BOOLEAN]

Greatest(S, m) == m \in S /\ \A v \in S : v <= m

StoreState ==
  [company: BOOLEAN, recorded: SUBSET Scripts, accounts: SUBSET Accounts, users: SUBSET Accounts,
   templates: BOOLEAN]

Shape ==
  /\ store \in StoreState
  /\ server \in [Servers -> ServerState]
  /\ configured \subseteq Accounts /\ lock \in Servers \cup {NoServer}
  /\ legacy \in Scripts \cup {0, -1} /\ applied \in Seq(Scripts) /\ imports \in Nat /\ overrun \in BOOLEAN
  /\ store.recorded = {} \/ \E m \in Scripts : Greatest(store.recorded, m)
  /\ \A s \in Servers : server[s].pc = "record" => server[s].todo # {}

Done == {applied[i] : i \in DOMAIN applied}

\* The accounts that a server has dealt with, and those that are gone.
AccountsKept(s) ==
  LET x == server[s]
  IN  /\ x.unnamed # {} => x.pc \in {"accounts", "fixed"}
      /\ x.left \cup x.unnamed \subseteq IF x.pc = "down" THEN {} ELSE configured
      /\ x.pc = "accounts" =>
           /\ (configured \ FixedUsers) \ x.left \subseteq store.accounts
           /\ (configured \ FixedUsers) \ (x.left \cup x.unnamed) \subseteq store.users
      /\ x.pc = "fixed" =>
           /\ store.accounts \subseteq configured
           /\ configured \ x.left \subseteq store.accounts
           /\ configured \ (x.left \cup x.unnamed) \subseteq store.users
      /\ x.pc \in {"release", "populate", "serve"} /\ ~x.failed =>
           store.accounts = configured /\ configured \subseteq store.users

\* What an older database needs is applied in order, whoever is at work.
ToApply == {v \in Scripts : v > legacy}
Migrated(s) ==
  LET x == server[s]
  IN  /\ ~x.empty /\ x.pc # "populate"
      /\ x.todo \subseteq ToApply
      /\ x.pc \in {"migrate", "record"} => ~x.skip /\ ToApply \ x.todo \subseteq Done
      /\ x.pc = "record" => Upcoming(s) \in Done
      /\ x.pc \in Later /\ ~x.failed => ToApply \subseteq Done
Migrations ==
  legacy >= 0 =>
    /\ store.company /\ Scripts \cap {legacy} \subseteq store.recorded /\ imports = 0
    /\ store.recorded \cap ToApply \subseteq Done
    /\ \A v \in Done, w \in ToApply : w < v => w \in Done
    /\ \A i \in DOMAIN applied, v \in Done : v < applied[i] => \E j \in DOMAIN applied : j < i /\ applied[j] = v
    /\ \A s \in Servers : Migrated(s)

\* One at a time: what there is to do is what is not recorded.
Unrecorded == {v \in Scripts : \A r \in store.recorded : r < v}
Awaiting(s) == server[s].empty /\ server[s].pc # "serve"
Alone(s) ==
  LET x == server[s]
  IN  /\ AtWork(s) => lock = s
      /\ x.pc \in {"migrate", "record"} => x.todo = Unrecorded
      /\ x.pc \in Early => ~x.empty
      /\ x.pc = "populate" => x.empty
      /\ x.empty /\ x.pc \in {"elastic", "plan"} => MongoEmpty
      /\ x.empty /\ x.pc \in {"migrate", "record"} => x.skip
      /\ x.empty /\ x.pc \in Later => store.company
      /\ Awaiting(s) => imports = 0
OneByOne ==
  ~overrun =>
    /\ \A i, j \in DOMAIN applied : i < j => applied[i] <= applied[j]
    /\ \A i \in DOMAIN applied, v \in Unrecorded : applied[i] <= v
    /\ imports <= 1 /\ (imports > 0 => store.company)
    /\ \A s \in Servers : Alone(s)
    /\ \A s, u \in Servers : Awaiting(s) /\ Awaiting(u) => s = u

StartupInv == Shape /\ (\A s \in Servers : AccountsKept(s)) /\ Migrations /\ OneByOne

-----------------------------------------------------------------------------
(* The lemmas about versions.                                              *)

LEMMA MinIs ==
  ASSUME NEW S \in SUBSET Nat, S # {}
  PROVE  Min(S) \in S /\ \A v \in S : Min(S) <= v
<1>1. \E m \in S : \A v \in S : m <= v BY Least
<1>2. QED BY <1>1 DEF Min

LEMMA GreatestIs ==
  ASSUME NEW S \in SUBSET Nat, NEW m, Greatest(S, m)
  PROVE  Max(S) = m
<1>1. Max(S) \in S /\ \A v \in S : v <= Max(S)
  <2>1. \E x \in S : \A v \in S : x >= v BY DEF Greatest
  <2>2. QED BY <2>1 DEF Max
<1>2. Max(S) <= m /\ m <= Max(S) /\ m \in Nat /\ Max(S) \in Nat BY <1>1 DEF Greatest
<1>3. QED BY <1>2

LEMMA LastIs ==
  ASSUME Shape
  PROVE  /\ LastServerVersion \in Nat
         /\ {v \in Scripts : v > LastServerVersion} = Unrecorded
         /\ \A r \in store.recorded : r <= LastServerVersion
<1>1. \A v \in Scripts : v \in Nat /\ v > 0 BY StartupAssumption
<1>2. store.recorded \subseteq Scripts BY DEF Shape, StoreState
<1>3. CASE store.recorded = {}
  <2>1. LastServerVersion = 0 BY <1>3 DEF LastServerVersion
  <2>2. Unrecorded = Scripts BY <1>3 DEF Unrecorded
  <2>3. QED BY <1>1, <1>3, <2>1, <2>2
<1>4. CASE store.recorded # {}
  <2>1. PICK m \in Scripts : Greatest(store.recorded, m) BY <1>4 DEF Shape
  <2>2. LastServerVersion = m BY <1>1, <1>2, <1>4, <2>1, GreatestIs DEF LastServerVersion
  <2>3. ASSUME NEW v \in Scripts PROVE v > m <=> \A r \in store.recorded : r < v
    <3>1. v \in Nat /\ m \in Nat /\ m \in store.recorded BY <1>1, <2>1 DEF Greatest
    <3>2. \A r \in store.recorded : r \in Nat /\ r <= m BY <1>1, <1>2, <2>1 DEF Greatest
    <3>3. QED BY <3>1, <3>2
  <2>4. QED BY <1>1, <2>1, <2>2, <2>3 DEF Unrecorded, Greatest
<1>5. QED BY <1>3, <1>4

LEMMA UpcomingIs ==
  ASSUME Shape, NEW s \in Servers, server[s].todo # {}
  PROVE  /\ Upcoming(s) \in server[s].todo /\ Upcoming(s) \in Scripts
         /\ \A v \in server[s].todo : Upcoming(s) <= v
<1>1. server[s].todo \in SUBSET Scripts BY DEF Shape, ServerState
<1>2. server[s].todo \in SUBSET Nat BY <1>1, StartupAssumption
<1>3. QED BY <1>1, <1>2, MinIs DEF Upcoming

LEMMA AppendDone ==
  ASSUME applied \in Seq(Scripts), NEW v \in Scripts, applied' = Append(applied, v)
  PROVE  /\ applied' \in Seq(Scripts) /\ Done' = Done \cup {v}
         /\ DOMAIN applied = 1..Len(applied) /\ Len(applied) \in Nat
         /\ DOMAIN applied' = 1..(Len(applied) + 1)
         /\ applied'[Len(applied) + 1] = v /\ \A i \in DOMAIN applied : applied'[i] = applied[i]
<1>1. /\ applied' \in Seq(Scripts) /\ Len(applied') = Len(applied) + 1
      /\ applied'[Len(applied) + 1] = v /\ \A i \in 1..Len(applied) : applied'[i] = applied[i]
  BY AppendProperties
<1>2. Len(applied) \in Nat /\ DOMAIN applied = 1..Len(applied) /\ DOMAIN applied' = 1..Len(applied')
  BY <1>1, LenProperties
<1>3. Done' = Done \cup {v}
  <2>1. DOMAIN applied' = (DOMAIN applied) \cup {Len(applied) + 1} BY <1>1, <1>2
  <2>2. QED BY <1>1, <1>2, <2>1 DEF Done
<1>4. QED BY <1>1, <1>2, <1>3

-----------------------------------------------------------------------------
(* The steps.                                                              *)

ServerSteps(s) ==
  \/ StartServer(s) \/ Acquire(s) \/ Probe(s) \/ InitElastic(s) \/ PlanMigrations(s) \/ Migrate(s)
  \/ RecordVersion(s) \/ MigrationFails(s) \/ EnsureDefaults(s) \/ DeleteMissingAccounts(s)
  \/ Release(s) \/ PrePopulateData(s) \/ Stop(s)
  \/ EnsureUser(s) \/ InitDone(s) \/ \E a \in Accounts : EnsureAccount(s, a)

LEMMA StartupNextIs ==
  StartupNext <=> LockExpires \/ Configure \/ \E s \in Servers : ServerSteps(s)
BY DEF StartupNext, ServerSteps

\* The state of the server after the step; the others are where they were.
Becomes(s, pc, empty, skip, todo, left, unnamed, aborted) ==
  /\ server' \in [Servers -> ServerState]
  /\ server'[s].pc = pc /\ server'[s].empty = empty /\ server'[s].skip = skip /\ server'[s].todo = todo
  /\ server'[s].left = left /\ server'[s].unnamed = unnamed /\ server'[s].failed = aborted
  /\ \A u \in Servers \ {s} : server'[u] = server[u]
  /\ UNCHANGED <<configured, legacy, overrun>>

MovesTo(s, pc) ==
  Becomes(s, pc, server[s].empty, server[s].skip, server[s].todo, server[s].left, server[s].unnamed,
          server[s].failed)

\* What each step makes of its server.
LEMMA ServerMoves ==
  ASSUME Shape, NEW s \in Servers
  PROVE  /\ StartServer(s) => MovesTo(s, "wait")
         /\ Acquire(s) => MovesTo(s, "probe")
         /\ Probe(s) => \/ Becomes(s, "down", FALSE, FALSE, {}, {}, {}, FALSE)
                        \/ MovesTo(s, "limited")
                        \/ Becomes(s, "elastic", MongoEmpty, server[s].skip, server[s].todo, server[s].left, server[s].unnamed, server[s].failed)
         /\ InitElastic(s) => MovesTo(s, "plan")
         /\ PlanMigrations(s) =>
              Becomes(s, "migrate", server[s].empty, MongoEmpty, Unrecorded, server[s].left, server[s].unnamed, server[s].failed)
         /\ Migrate(s) => MovesTo(s, "record")
         /\ RecordVersion(s) =>
              Becomes(s, "migrate", server[s].empty, server[s].skip, server[s].todo \ {Upcoming(s)}, server[s].left, server[s].unnamed, server[s].failed)
         /\ MigrationFails(s) => Becomes(s, "release", server[s].empty, server[s].skip, server[s].todo, server[s].left, server[s].unnamed, TRUE)
         /\ EnsureDefaults(s) =>
              Becomes(s, "accounts", server[s].empty, server[s].skip, server[s].todo, configured \ FixedUsers, server[s].unnamed, server[s].failed)
         /\ DeleteMissingAccounts(s) =>
              Becomes(s, "fixed", server[s].empty, server[s].skip, server[s].todo, configured \cap FixedUsers, server[s].unnamed, server[s].failed)
         /\ Release(s) =>
              MovesTo(s, IF server[s].empty THEN "populate" ELSE "serve")
         /\ PrePopulateData(s) => MovesTo(s, "serve")
         /\ Stop(s) => Becomes(s, "down", FALSE, FALSE, {}, {}, {}, FALSE)
         /\ EnsureUser(s) => Becomes(s, server[s].pc, server[s].empty, server[s].skip, server[s].todo, server[s].left, {}, server[s].failed)
         /\ InitDone(s) => MovesTo(s, "release")
         /\ \A a \in Accounts : EnsureAccount(s, a) =>
              Becomes(s, server[s].pc, server[s].empty, server[s].skip, server[s].todo, server[s].left \ {a}, {a}, server[s].failed)
<1> DEFINE x == server[s]
<1>a. server \in [Servers -> ServerState] BY DEF Shape
<1>b. configured \subseteq Accounts /\ Unrecorded \subseteq Scripts BY DEF Shape, Unrecorded
<1>c. MongoEmpty \in BOOLEAN BY DEF MongoEmpty
<1>d. {v \in Scripts : v > LastServerVersion} = Unrecorded BY LastIs
<1> HIDE DEF MongoEmpty, Unrecorded, LastServerVersion, Upcoming
<1>e. {"wait", "probe", "limited", "elastic", "plan", "migrate", "record", "accounts", "fixed", "release", "populate", "serve", "down"} = Steps
  BY DEF Steps, Early, Later
<1>f. /\ x.todo \ {Upcoming(s)} \in SUBSET Scripts
      /\ configured \ FixedUsers \in SUBSET Accounts /\ configured \cap FixedUsers \in SUBSET Accounts
  BY <1>a, <1>b DEF ServerState
<1> USE DEF Becomes, ServerState, MovesTo
<1>1. StartServer(s) => Becomes(s, "wait", x.empty, x.skip, x.todo, x.left, x.unnamed, x.failed)
  BY <1>a, <1>b, <1>c, <1>d, <1>e DEF StartServer
<1>2. Acquire(s) => Becomes(s, "probe", x.empty, x.skip, x.todo, x.left, x.unnamed, x.failed)
  BY <1>a, <1>b, <1>c, <1>d, <1>e DEF Acquire
<1>3. Probe(s) => \/ Becomes(s, "down", FALSE, FALSE, {}, {}, {}, FALSE)
                  \/ Becomes(s, "limited", x.empty, x.skip, x.todo, x.left, x.unnamed, x.failed)
                  \/ Becomes(s, "elastic", MongoEmpty, x.skip, x.todo, x.left, x.unnamed, x.failed)
  <2> SUFFICES ASSUME Probe(s)
               PROVE  \/ Becomes(s, "down", FALSE, FALSE, {}, {}, {}, FALSE)
                      \/ Becomes(s, "limited", x.empty, x.skip, x.todo, x.left, x.unnamed, x.failed)
                      \/ Becomes(s, "elastic", MongoEmpty, x.skip, x.todo, x.left, x.unnamed, x.failed)
    OBVIOUS
  <2>1. UNCHANGED <<configured, legacy, overrun>> BY DEF Probe
  <2>2. CASE server' = [server EXCEPT ![s] = Down] BY <1>a, <1>e, <2>1, <2>2 DEF Down
  <2>3. CASE server' = [server EXCEPT ![s].pc = "limited"] BY <1>a, <1>e, <2>1, <2>3
  <2>4. CASE server' = [server EXCEPT ![s].pc = "elastic", ![s].empty = MongoEmpty] BY <1>a, <1>c, <1>e, <2>1, <2>4
  <2>5. QED BY <2>2, <2>3, <2>4 DEF Probe
<1>4. InitElastic(s) => Becomes(s, "plan", x.empty, x.skip, x.todo, x.left, x.unnamed, x.failed)
  BY <1>a, <1>b, <1>c, <1>d, <1>e DEF InitElastic
<1>5. PlanMigrations(s) => Becomes(s, "migrate", x.empty, MongoEmpty, Unrecorded, x.left, x.unnamed, x.failed)
  <2> SUFFICES ASSUME PlanMigrations(s) PROVE Becomes(s, "migrate", x.empty, MongoEmpty, Unrecorded, x.left, x.unnamed, x.failed) OBVIOUS
  <2>1. server' = [server EXCEPT ![s].pc = "migrate", ![s].skip = MongoEmpty, ![s].todo = Unrecorded] /\ UNCHANGED <<configured, legacy, overrun>>
    BY <1>d DEF PlanMigrations
  <2>2. "migrate" \in Steps BY <1>e
  <2>3. QED BY <1>a, <1>b, <1>c, <1>f, <2>1, <2>2
<1>6. Migrate(s) => Becomes(s, "record", x.empty, x.skip, x.todo, x.left, x.unnamed, x.failed)
  BY <1>a, <1>b, <1>c, <1>d, <1>e DEF Migrate
<1>7. RecordVersion(s) => Becomes(s, "migrate", x.empty, x.skip, x.todo \ {Upcoming(s)}, x.left, x.unnamed, x.failed)
  <2> SUFFICES ASSUME RecordVersion(s) PROVE Becomes(s, "migrate", x.empty, x.skip, x.todo \ {Upcoming(s)}, x.left, x.unnamed, x.failed) OBVIOUS
  <2>1. server' = [server EXCEPT ![s].pc = "migrate", ![s].todo = @ \ {Upcoming(s)}] /\ UNCHANGED <<configured, legacy, overrun>>
    BY <1>d DEF RecordVersion
  <2>2. "migrate" \in Steps BY <1>e
  <2>3. QED BY <1>a, <1>b, <1>c, <1>f, <2>1, <2>2
<1>8. MigrationFails(s) => Becomes(s, "release", x.empty, x.skip, x.todo, x.left, x.unnamed, TRUE)
  <2> SUFFICES ASSUME MigrationFails(s) PROVE Becomes(s, "release", x.empty, x.skip, x.todo, x.left, x.unnamed, TRUE) OBVIOUS
  <2>1. server' = [server EXCEPT ![s].pc = "release", ![s].failed = TRUE] /\ UNCHANGED <<configured, legacy, overrun>>
    BY <1>d DEF MigrationFails
  <2>2. "release" \in Steps BY <1>e
  <2>3. QED BY <1>a, <1>b, <1>c, <1>f, <2>1, <2>2
<1>9. EnsureDefaults(s) => Becomes(s, "accounts", x.empty, x.skip, x.todo, configured \ FixedUsers, x.unnamed, x.failed)
  <2> SUFFICES ASSUME EnsureDefaults(s) PROVE Becomes(s, "accounts", x.empty, x.skip, x.todo, configured \ FixedUsers, x.unnamed, x.failed) OBVIOUS
  <2>1. server' = [server EXCEPT ![s].pc = "accounts", ![s].left = configured \ FixedUsers] /\ UNCHANGED <<configured, legacy, overrun>>
    BY <1>d DEF EnsureDefaults
  <2>2. "accounts" \in Steps BY <1>e
  <2>3. QED BY <1>a, <1>b, <1>c, <1>f, <2>1, <2>2
<1>10. DeleteMissingAccounts(s) => Becomes(s, "fixed", x.empty, x.skip, x.todo, configured \cap FixedUsers, x.unnamed, x.failed)
  <2> SUFFICES ASSUME DeleteMissingAccounts(s) PROVE Becomes(s, "fixed", x.empty, x.skip, x.todo, configured \cap FixedUsers, x.unnamed, x.failed) OBVIOUS
  <2>1. server' = [server EXCEPT ![s].pc = "fixed", ![s].left = configured \cap FixedUsers] /\ UNCHANGED <<configured, legacy, overrun>>
    BY <1>d DEF DeleteMissingAccounts
  <2>2. "fixed" \in Steps BY <1>e
  <2>3. QED BY <1>a, <1>b, <1>c, <1>f, <2>1, <2>2
<1>11. Release(s) => Becomes(s, IF x.empty THEN "populate" ELSE "serve", x.empty, x.skip, x.todo, x.left, x.unnamed, x.failed)
  BY <1>a, <1>b, <1>c, <1>d, <1>e DEF Release
<1>12. PrePopulateData(s) => Becomes(s, "serve", x.empty, x.skip, x.todo, x.left, x.unnamed, x.failed)
  BY <1>a, <1>b, <1>c, <1>d, <1>e DEF PrePopulateData
<1>13. Stop(s) => Becomes(s, "down", FALSE, FALSE, {}, {}, {}, FALSE)
  BY <1>a, <1>b, <1>c, <1>d, <1>e DEF Stop, Down
<1>14. EnsureUser(s) => Becomes(s, x.pc, x.empty, x.skip, x.todo, x.left, {}, x.failed)
  BY <1>a, <1>b, <1>c, <1>d, <1>e DEF EnsureUser
<1>15. InitDone(s) => Becomes(s, "release", x.empty, x.skip, x.todo, x.left, x.unnamed, x.failed)
  BY <1>a, <1>b, <1>c, <1>d, <1>e DEF InitDone
<1>16. ASSUME NEW a \in Accounts, EnsureAccount(s, a)
       PROVE  Becomes(s, x.pc, x.empty, x.skip, x.todo, x.left \ {a}, {a}, x.failed)
  <2>1. /\ server' = [server EXCEPT ![s].left = @ \ {a}, ![s].unnamed = {a}]
        /\ UNCHANGED <<configured, legacy, overrun>>
    BY <1>16 DEF EnsureAccount
  <2>2. x.left \ {a} \in SUBSET Accounts /\ {a} \in SUBSET Accounts BY <1>a, <1>16
  <2>3. QED BY <1>a, <2>1, <2>2
<1>17. QED
  BY <1>1, <1>2, <1>3, <1>4, <1>5, <1>6, <1>7, <1>8, <1>9, <1>10, <1>11, <1>12, <1>13, <1>14, <1>15, <1>16

LEMMA SomeState ==
  ASSUME Shape, NEW s \in Servers, ServerSteps(s)
  PROVE  \E pc, empty, skip, todo, left, unnamed, aborted :
           Becomes(s, pc, empty, skip, todo, left, unnamed, aborted)
<1>1. \A pc, empty, skip, todo, left, unnamed, aborted :
        Becomes(s, pc, empty, skip, todo, left, unnamed, aborted) =>
          \E a, b, c, d, e, f, g : Becomes(s, a, b, c, d, e, f, g)
  OBVIOUS
<1>2. CASE \E a \in Accounts : EnsureAccount(s, a) BY <1>1, <1>2, ServerMoves DEF MovesTo
<1>3. CASE Probe(s) BY <1>1, <1>3, ServerMoves DEF MovesTo
<1>4. CASE StartServer(s) \/ Acquire(s) \/ InitElastic(s) \/ PlanMigrations(s) BY <1>1, <1>4, ServerMoves DEF MovesTo
<1>5. CASE Migrate(s) \/ RecordVersion(s) \/ MigrationFails(s) \/ EnsureDefaults(s) BY <1>1, <1>5, ServerMoves DEF MovesTo
<1>6. CASE DeleteMissingAccounts(s) \/ Release(s) \/ PrePopulateData(s) BY <1>1, <1>6, ServerMoves DEF MovesTo
<1>7. CASE Stop(s) \/ EnsureUser(s) \/ InitDone(s) BY <1>1, <1>7, ServerMoves DEF MovesTo
<1>8. QED BY <1>2, <1>3, <1>4, <1>5, <1>6, <1>7 DEF ServerSteps

\* What a step makes of the documents.
LEMMA StoreMoves ==
  ASSUME Shape, NEW s \in Servers, ServerSteps(s)
  PROVE  /\ store' \in StoreState
         /\ store.company => store'.company
         /\ EnsureDefaults(s) => store'.company
         /\ \/ store'.recorded = store.recorded
            \/ RecordVersion(s) /\ store'.recorded = store.recorded \cup {Upcoming(s)}
         /\ store.users \subseteq store'.users
         /\ \/ store.accounts \subseteq store'.accounts
            \/ DeleteMissingAccounts(s) /\ store'.accounts = store.accounts \cap configured
         /\ store'.accounts \subseteq store.accounts \cup server[s].left
         /\ store' = store \/ AtWork(s) \/ server[s].unnamed # {}
<1> USE DEF StoreState
<1>1. store \in StoreState BY DEF Shape
<1>2. CASE InitElastic(s)
  <2>1. store' = [store EXCEPT !.templates = TRUE] BY <1>2 DEF InitElastic
  <2>2. ~EnsureDefaults(s) BY <1>2 DEF InitElastic, EnsureDefaults
  <2>3. AtWork(s) BY <1>2 DEF InitElastic, AtWork
  <2>4. QED BY <1>1, <2>1, <2>2, <2>3
<1>3. CASE RecordVersion(s)
  <2>1. store' = [store EXCEPT !.recorded = @ \cup {Upcoming(s)}] BY <1>3 DEF RecordVersion
  <2>2. ~EnsureDefaults(s) /\ AtWork(s) BY <1>3 DEF RecordVersion, EnsureDefaults, AtWork
  <2>3. Upcoming(s) \in Scripts BY <1>3, UpcomingIs DEF RecordVersion, Shape
  <2>4. QED BY <1>1, <1>3, <2>1, <2>2, <2>3
<1>4. CASE EnsureDefaults(s)
  <2>1. store' = [store EXCEPT !.company = TRUE] /\ AtWork(s) BY <1>4 DEF EnsureDefaults, AtWork
  <2>2. QED BY <1>1, <2>1
<1>5. CASE EnsureUser(s)
  <2>1. store' = [store EXCEPT !.users = @ \cup server[s].unnamed] /\ server[s].unnamed # {}
    BY <1>5 DEF EnsureUser
  <2>2. server[s].unnamed \in SUBSET Accounts BY DEF Shape, ServerState
  <2>3. EnsureDefaults(s) => store'.company BY <1>1 DEF EnsureDefaults
  <2>4. QED BY <1>1, <2>1, <2>2, <2>3
<1>6. CASE DeleteMissingAccounts(s)
  <2>1. store' = [store EXCEPT !.accounts = @ \ Superfluous] /\ AtWork(s)
    BY <1>6 DEF DeleteMissingAccounts, AtWork
  <2>2. store.accounts \ Superfluous = store.accounts \cap configured BY DEF Superfluous
  <2>3. EnsureDefaults(s) => store'.company BY <1>1 DEF EnsureDefaults
  <2>4. QED BY <1>1, <1>6, <2>1, <2>2, <2>3
<1>7. CASE \E a \in Accounts : EnsureAccount(s, a)
  <2>1. PICK a \in Accounts : EnsureAccount(s, a) BY <1>7
  <2>2. store' = [store EXCEPT !.accounts = @ \cup {a}] /\ a \in server[s].left /\ AtWork(s)
    BY <2>1 DEF EnsureAccount, AtWork
  <2>3. EnsureDefaults(s) => store'.company BY <1>1 DEF EnsureDefaults
  <2>4. QED BY <1>1, <2>2, <2>3
<1>8. CASE UNCHANGED store /\ ~EnsureDefaults(s) BY <1>1, <1>8
<1>9. StartServer(s) \/ Acquire(s) \/ Probe(s) \/ PlanMigrations(s) \/ Migrate(s) \/ MigrationFails(s)
      \/ Release(s) \/ PrePopulateData(s) \/ Stop(s) \/ InitDone(s)
      => UNCHANGED store
  BY DEF StartServer, Acquire, Probe, PlanMigrations, Migrate, MigrationFails, Release, PrePopulateData,
     Stop, InitDone
<1>10. QED BY <1>2, <1>3, <1>4, <1>5, <1>6, <1>7, <1>8, <1>9 DEF ServerSteps

LEMMA ShapeSteps ==
  ASSUME Shape, NEW s \in Servers, ServerSteps(s)
  PROVE  Shape'
<1>1. /\ server' \in [Servers -> ServerState] /\ UNCHANGED <<configured, legacy, overrun>>
      /\ \A u \in Servers \ {s} : server'[u] = server[u]
  BY SomeState DEF Becomes
<1>2. store' \in StoreState BY StoreMoves
<1>3. lock' \in Servers \cup {NoServer}
  BY DEF Shape, ServerSteps, StartServer, Acquire, Probe, InitElastic, PlanMigrations, Migrate, RecordVersion,
     MigrationFails, EnsureDefaults, DeleteMissingAccounts, Release, PrePopulateData, Stop, EnsureUser, InitDone,
     EnsureAccount
<1>4. applied' \in Seq(Scripts)
  <2>1. CASE Migrate(s)
    <3>1. Upcoming(s) \in Scripts BY <2>1, UpcomingIs DEF Migrate
    <3>2. applied' = applied \/ applied' = Append(applied, Upcoming(s)) BY <2>1 DEF Migrate
    <3>3. QED BY <3>1, <3>2, AppendProperties DEF Shape
  <2>2. CASE ~Migrate(s)
    <3>1. UNCHANGED applied
      BY <2>2 DEF ServerSteps, StartServer, Acquire, Probe, InitElastic, PlanMigrations, RecordVersion,
         MigrationFails, EnsureDefaults, DeleteMissingAccounts, Release, PrePopulateData, Stop, EnsureUser,
         InitDone, EnsureAccount
    <3>2. QED BY <3>1 DEF Shape
  <2>3. QED BY <2>1, <2>2
<1>5. imports' \in Nat
  <2>1. imports' = imports \/ imports' = imports + 1
    BY DEF ServerSteps, StartServer, Acquire, Probe, InitElastic, PlanMigrations, Migrate, RecordVersion,
       MigrationFails, EnsureDefaults, DeleteMissingAccounts, Release, PrePopulateData, Stop, EnsureUser,
       InitDone, EnsureAccount
  <2>2. QED BY <2>1 DEF Shape
<1>6. store'.recorded = {} \/ \E m \in Scripts : Greatest(store'.recorded, m)
  <2>1. CASE store'.recorded = store.recorded BY <2>1 DEF Shape
  <2>2. CASE RecordVersion(s) /\ store'.recorded = store.recorded \cup {Upcoming(s)}
    <3> DEFINE v == Upcoming(s)
    <3>1. v \in Scripts BY <2>2, UpcomingIs DEF RecordVersion, Shape
    <3>2. v \in Nat /\ Scripts \subseteq Nat BY <3>1, StartupAssumption
    <3> HIDE DEF v
    <3>3. CASE store.recorded = {} BY <2>2, <3>1, <3>2, <3>3 DEF Greatest, v
    <3>4. CASE store.recorded # {}
      <4>1. PICK m \in Scripts : Greatest(store.recorded, m) BY <3>4 DEF Shape
      <4>2. store.recorded \subseteq Nat /\ m \in Nat BY <3>2, <4>1 DEF Shape, StoreState
      <4>3. CASE v <= m BY <2>2, <3>2, <4>1, <4>2, <4>3 DEF Greatest, v
      <4>4. CASE ~(v <= m)
        <5>1. \A w \in store'.recorded : w <= v BY <2>2, <3>2, <4>1, <4>2, <4>4 DEF Greatest, v
        <5>2. QED BY <2>2, <3>1, <5>1 DEF Greatest, v
      <4>5. QED BY <4>3, <4>4
    <3>5. QED BY <3>3, <3>4
  <2>3. QED BY <2>1, <2>2, StoreMoves
<1>7. ASSUME NEW u \in Servers, server'[u].pc = "record" PROVE server'[u].todo # {}
  <2>1. CASE u # s BY <1>1, <1>7, <2>1 DEF Shape
  <2>2. CASE u = s /\ Migrate(s)
    <3>1. server'[s].todo = server[s].todo BY <2>2, ServerMoves DEF Becomes, MovesTo
    <3>2. QED BY <2>2, <3>1 DEF Migrate
  <2>3. CASE u = s /\ EnsureUser(s)
    <3>1. server'[s].todo = server[s].todo /\ server'[s].pc = server[s].pc BY <2>3, ServerMoves DEF Becomes, MovesTo
    <3>2. QED BY <1>7, <2>3, <3>1 DEF Shape
  <2>4. ASSUME NEW a \in Accounts, EnsureAccount(s, a) PROVE server'[s].pc # "record"
    <3>1. server'[s].pc = server[s].pc BY <2>4, ServerMoves DEF Becomes, MovesTo
    <3>2. QED BY <2>4, <3>1 DEF EnsureAccount
  <2>5. CASE StartServer(s) \/ Acquire(s) \/ Probe(s) \/ InitElastic(s) \/ PlanMigrations(s)
    <3>1. server'[s].pc \in {"wait", "probe", "down", "limited", "elastic", "plan", "migrate"}
      BY <2>5, ServerMoves DEF Becomes, MovesTo
    <3>2. QED BY <1>7, <2>1, <3>1
  <2>6. CASE RecordVersion(s) \/ MigrationFails(s) \/ EnsureDefaults(s) \/ DeleteMissingAccounts(s)
    <3>1. server'[s].pc \in {"migrate", "release", "accounts", "fixed"} BY <2>6, ServerMoves DEF Becomes, MovesTo
    <3>2. QED BY <1>7, <2>1, <3>1
  <2>7. CASE Release(s) \/ PrePopulateData(s) \/ Stop(s) \/ InitDone(s)
    <3>1. server'[s].pc \in {"populate", "serve", "down", "release"} BY <2>7, ServerMoves DEF Becomes, MovesTo
    <3>2. QED BY <1>7, <2>1, <3>1
  <2>8. QED BY <1>7, <2>1, <2>2, <2>3, <2>4, <2>5, <2>6, <2>7 DEF ServerSteps
<1>8. configured' \subseteq Accounts /\ legacy' \in Scripts \cup {0, -1} /\ overrun' \in BOOLEAN BY <1>1 DEF Shape
<1>9. QED BY <1>1, <1>2, <1>3, <1>4, <1>5, <1>6, <1>7, <1>8 DEF Shape

-----------------------------------------------------------------------------
(* Accounts.                                                               *)

\* No step takes an account of the configuration, or adds one that is not.
LEMMA AccountsStay ==
  ASSUME NEW u, AccountsKept(u), server'[u] = server[u], configured' = configured,
         store.users \subseteq store'.users, store.accounts \cap configured \subseteq store'.accounts,
         store'.accounts \subseteq store.accounts \cup configured
  PROVE  AccountsKept(u)'
<1> DEFINE x == server[u]
<1>1. x.unnamed # {} => x.pc \in {"accounts", "fixed"} BY DEF AccountsKept
<1>2. x.left \cup x.unnamed \subseteq IF x.pc = "down" THEN {} ELSE configured BY DEF AccountsKept
<1>3. ASSUME x.pc = "accounts"
      PROVE  /\ (configured \ FixedUsers) \ x.left \subseteq store'.accounts
             /\ (configured \ FixedUsers) \ (x.left \cup x.unnamed) \subseteq store'.users
  BY <1>3 DEF AccountsKept
<1>4. ASSUME x.pc = "fixed"
      PROVE  /\ store'.accounts \subseteq configured
             /\ configured \ x.left \subseteq store'.accounts
             /\ configured \ (x.left \cup x.unnamed) \subseteq store'.users
  BY <1>4 DEF AccountsKept
<1>5. ASSUME x.pc \in {"release", "populate", "serve"}, ~x.failed
      PROVE  store'.accounts = configured /\ configured \subseteq store'.users
  BY <1>5 DEF AccountsKept
<1>6. QED BY <1>1, <1>2, <1>3, <1>4, <1>5 DEF AccountsKept

LEMMA AccountsSteps ==
  ASSUME Shape, \A u \in Servers : AccountsKept(u), NEW s \in Servers, ServerSteps(s), NEW u \in Servers
  PROVE  AccountsKept(u)'
<1> DEFINE x == server[s]
           y == server'[s]
<1>1. /\ server' \in [Servers -> ServerState] /\ UNCHANGED <<configured, legacy, overrun>>
      /\ \A v \in Servers \ {s} : server'[v] = server[v]
  BY SomeState DEF Becomes
<1>2. /\ store \in StoreState /\ store' \in StoreState /\ store.users \subseteq store'.users
      /\ \/ store.accounts \subseteq store'.accounts
         \/ DeleteMissingAccounts(s) /\ store'.accounts = store.accounts \cap configured
      /\ store'.accounts \subseteq store.accounts \cup x.left
  BY StoreMoves DEF Shape
<1>3. /\ x.left \subseteq configured
      /\ x.unnamed \subseteq configured
      /\ x.pc = "down" => x.left = {} /\ x.unnamed = {}
      /\ x.unnamed # {} => x.pc \in {"accounts", "fixed"}
  BY DEF AccountsKept
<1>4. store'.accounts \subseteq store.accounts \cup configured BY <1>2, <1>3
<1>5. store.accounts \cap configured \subseteq store'.accounts BY <1>2
<1>6. CASE u # s BY <1>1, <1>2, <1>4, <1>5, <1>6, AccountsStay
<1>7. CASE u = s
  <2>1. /\ x.pc = "accounts" =>
             /\ (configured \ FixedUsers) \ x.left \subseteq store.accounts
             /\ (configured \ FixedUsers) \ (x.left \cup x.unnamed) \subseteq store.users
        /\ x.pc = "fixed" =>
             /\ store.accounts \subseteq configured
             /\ configured \ x.left \subseteq store.accounts
             /\ configured \ (x.left \cup x.unnamed) \subseteq store.users
        /\ x.pc \in {"release", "populate", "serve"} /\ ~x.failed =>
             store.accounts = configured /\ configured \subseteq store.users
    BY DEF AccountsKept
  <2> SUFFICES
        /\ y.unnamed # {} => y.pc \in {"accounts", "fixed"}
        /\ y.left \cup y.unnamed \subseteq IF y.pc = "down" THEN {} ELSE configured
        /\ y.pc = "accounts" =>
             /\ (configured \ FixedUsers) \ y.left \subseteq store'.accounts
             /\ (configured \ FixedUsers) \ (y.left \cup y.unnamed) \subseteq store'.users
        /\ y.pc = "fixed" =>
             /\ store'.accounts \subseteq configured
             /\ configured \ y.left \subseteq store'.accounts
             /\ configured \ (y.left \cup y.unnamed) \subseteq store'.users
        /\ y.pc \in {"release", "populate", "serve"} /\ ~y.failed =>
             store'.accounts = configured /\ configured \subseteq store'.users
    BY <1>1, <1>7 DEF AccountsKept
  <2>2. CASE StartServer(s) \/ Acquire(s) \/ InitElastic(s) \/ Migrate(s)
    <3>1. x.unnamed = {} BY <1>3, <2>2 DEF StartServer, Acquire, InitElastic, Migrate
    <3>2. y.pc \in {"wait", "probe", "plan", "record"} /\ y.left = x.left /\ y.unnamed = {}
      BY <2>2, <3>1, ServerMoves DEF Becomes, MovesTo
    <3>3. QED BY <1>3, <3>2
  <2>3. CASE Probe(s) \/ PlanMigrations(s) \/ RecordVersion(s) \/ MigrationFails(s) \/ Stop(s)
    <3>1. x.unnamed = {} \/ Stop(s) BY <1>3, <2>3 DEF Probe, PlanMigrations, RecordVersion, MigrationFails
    <3>2. CASE Stop(s)
      <4>1. y.pc = "down" /\ y.left = {} /\ y.unnamed = {} BY <3>2, ServerMoves DEF Becomes
      <4>2. QED BY <4>1
    <3>3. CASE MigrationFails(s)
      <4>1. y.pc = "release" /\ y.failed /\ y.left = x.left /\ y.unnamed = x.unnamed
        BY <3>3, ServerMoves DEF Becomes
      <4>2. x.unnamed = {} BY <1>3, <3>3 DEF MigrationFails
      <4>3. QED BY <1>3, <4>1, <4>2
    <3>4. CASE Probe(s)
      <4>1. x.unnamed = {} BY <1>3, <3>4 DEF Probe
      <4>2. \/ Becomes(s, "down", FALSE, FALSE, {}, {}, {}, FALSE)
            \/ MovesTo(s, "limited")
            \/ Becomes(s, "elastic", MongoEmpty, x.skip, x.todo, x.left, x.unnamed, x.failed)
        BY <3>4, ServerMoves
      <4>3. \/ y.pc = "down" /\ y.left = {} /\ y.unnamed = {}
            \/ y.pc \in {"limited", "elastic"} /\ y.left = x.left /\ y.unnamed = {}
        BY <4>1, <4>2 DEF Becomes, MovesTo
      <4>4. QED BY <1>3, <4>3
    <3>5. CASE PlanMigrations(s) \/ RecordVersion(s)
      <4>1. x.unnamed = {} BY <1>3, <3>5 DEF PlanMigrations, RecordVersion
      <4>2. y.pc = "migrate" /\ y.unnamed = {} /\ y.left = x.left BY <3>5, <4>1, ServerMoves DEF Becomes
      <4>3. QED BY <1>3, <4>2
    <3>6. QED BY <2>3, <3>2, <3>3, <3>4, <3>5
  <2>4. CASE EnsureDefaults(s)
    <3>1. y.pc = "accounts" /\ y.left = configured \ FixedUsers /\ y.unnamed = x.unnamed
      BY <2>4, ServerMoves DEF Becomes
    <3>2. x.unnamed = {} BY <1>3, <2>4 DEF EnsureDefaults
    <3>3. QED BY <3>1, <3>2
  <2>5. CASE \E a \in Accounts : EnsureAccount(s, a)
    <3> PICK a \in Accounts : EnsureAccount(s, a) BY <2>5
    <3>1. y.pc = x.pc /\ y.left = x.left \ {a} /\ y.unnamed = {a} /\ y.failed = x.failed
      BY ServerMoves DEF Becomes
    <3>2. a \in x.left /\ x.unnamed = {} /\ x.pc \in {"accounts", "fixed"} BY DEF EnsureAccount
    <3>3. store'.accounts = store.accounts \cup {a} /\ store'.users = store.users
      BY <1>2 DEF EnsureAccount, StoreState
    <3>4. QED BY <1>3, <2>1, <3>1, <3>2, <3>3
  <2>6. CASE EnsureUser(s)
    <3>1. y.pc = x.pc /\ y.left = x.left /\ y.unnamed = {} /\ y.failed = x.failed
      BY <2>6, ServerMoves DEF Becomes
    <3>2. store'.accounts = store.accounts /\ store'.users = store.users \cup x.unnamed
      BY <1>2, <2>6 DEF EnsureUser, StoreState
    <3>3. QED BY <1>3, <2>1, <3>1, <3>2
  <2>7. CASE DeleteMissingAccounts(s)
    <3>1. y.pc = "fixed" /\ y.left = configured \cap FixedUsers /\ y.unnamed = x.unnamed
      BY <2>7, ServerMoves DEF Becomes
    <3>2. x.pc = "accounts" /\ x.left = {} /\ x.unnamed = {} BY <2>7 DEF DeleteMissingAccounts
    <3>3. store'.accounts = store.accounts \cap configured /\ store'.users = store.users
      BY <1>2, <2>7 DEF DeleteMissingAccounts, StoreState, Superfluous
    <3>4. QED BY <2>1, <3>1, <3>2, <3>3
  <2>8. CASE InitDone(s) \/ Release(s) \/ PrePopulateData(s)
    <3>1. /\ y.pc \in {"release", "populate", "serve"} /\ y.left = x.left /\ y.unnamed = x.unnamed
          /\ y.failed = x.failed
      BY <2>8, ServerMoves DEF Becomes, MovesTo
    <3>2. /\ x.pc \in {"fixed", "release", "populate"} /\ store' = store /\ x.unnamed = {}
          /\ x.pc = "fixed" => x.left = {}
      BY <1>3, <2>8 DEF InitDone, Release, PrePopulateData
    <3>3. QED BY <1>3, <2>1, <3>1, <3>2
  <2>9. QED BY <1>7, <2>2, <2>3, <2>4, <2>5, <2>6, <2>7, <2>8 DEF ServerSteps
<1>8. QED BY <1>6, <1>7

-----------------------------------------------------------------------------
(* Migrations.                                                             *)

\* Scripts are only added to those that were applied.
LEMMA DoneMoves ==
  ASSUME Shape, NEW s \in Servers, ServerSteps(s)
  PROVE  \/ UNCHANGED applied
         \/ Migrate(s) /\ ~server[s].skip /\ applied' = Append(applied, Upcoming(s))
BY DEF ServerSteps, StartServer, Acquire, Probe, InitElastic, PlanMigrations, Migrate, RecordVersion,
   MigrationFails, EnsureDefaults, DeleteMissingAccounts, Release, PrePopulateData, Stop, EnsureUser,
   InitDone, EnsureAccount

LEMMA DoneGrows ==
  ASSUME Shape, NEW s \in Servers, ServerSteps(s)
  PROVE  Done \subseteq Done'
<1>1. CASE UNCHANGED applied BY <1>1 DEF Done
<1>2. CASE Migrate(s) /\ applied' = Append(applied, Upcoming(s))
  <2>1. Upcoming(s) \in Scripts BY <1>2, UpcomingIs DEF Migrate
  <2>2. Done' = Done \cup {Upcoming(s)} BY <1>2, <2>1, AppendDone DEF Shape
  <2>3. QED BY <2>2
<1>3. QED BY <1>1, <1>2, DoneMoves

\* What is not recorded follows what is.
LEMMA ToDoIs ==
  ASSUME Shape, Migrations, legacy >= 0
  PROVE  Unrecorded \subseteq ToApply /\ ToApply \ Unrecorded \subseteq Done
<1>1. \A v \in Scripts : v \in Nat /\ v > 0 BY StartupAssumption
<1>2. store.recorded \subseteq Scripts /\ legacy \in Scripts \cup {0} BY DEF Shape, StoreState
<1>3. ASSUME NEW v \in Unrecorded PROVE v \in ToApply
  <2>1. v \in Scripts /\ \A r \in store.recorded : r < v BY DEF Unrecorded
  <2>2. legacy \in Scripts => legacy \in store.recorded BY DEF Migrations
  <2>3. QED BY <1>1, <1>2, <2>1, <2>2 DEF ToApply
<1>4. ASSUME NEW v \in ToApply, v \notin Unrecorded PROVE v \in Done
  <2>1. v \in Scripts /\ v > legacy BY DEF ToApply
  <2>2. PICK r \in store.recorded : ~(r < v) BY <1>4, <2>1 DEF Unrecorded
  <2>3. r \in Scripts /\ r \in Nat /\ v \in Nat /\ legacy \in Nat BY <1>1, <1>2, <2>1
  <2>4. r \in ToApply BY <2>1, <2>2, <2>3 DEF ToApply
  <2>5. r \in Done BY <2>4 DEF Migrations
  <2>6. CASE r = v BY <2>5, <2>6
  <2>7. CASE v < r BY <2>5, <2>7 DEF Migrations
  <2>8. QED BY <2>2, <2>3, <2>6, <2>7
<1>5. QED BY <1>3, <1>4

\* A script is applied after those before it.
LEMMA InOrder ==
  ASSUME Shape, Migrations, legacy >= 0, NEW s \in Servers, ServerSteps(s)
  PROVE  /\ \A v \in Done', w \in ToApply : w < v => w \in Done'
         /\ \A i \in DOMAIN applied', v \in Done' : v < applied'[i] =>
              \E j \in DOMAIN applied' : j < i /\ applied'[j] = v
<1>1. /\ \A v \in Done, w \in ToApply : w < v => w \in Done
      /\ \A i \in DOMAIN applied, v \in Done : v < applied[i] => \E j \in DOMAIN applied : j < i /\ applied[j] = v
  BY DEF Migrations
<1>2. CASE UNCHANGED applied BY <1>1, <1>2 DEF Done
<1>3. CASE Migrate(s) /\ ~server[s].skip /\ applied' = Append(applied, Upcoming(s))
  <2> DEFINE n == Upcoming(s)
  <2>1. n \in Scripts /\ n \in server[s].todo /\ \A v \in server[s].todo : n <= v
    BY <1>3, UpcomingIs DEF Migrate
  <2>2. server[s].todo \subseteq ToApply /\ ToApply \ server[s].todo \subseteq Done
    BY <1>3 DEF Migrations, Migrated, Migrate
  <2>3. \A v \in Scripts : v \in Nat BY StartupAssumption
  <2>4. ToApply \subseteq Scripts BY DEF ToApply
  <2> HIDE DEF n
  <2>5. \A w \in ToApply : w < n => w \in Done BY <2>1, <2>2, <2>3, <2>4
  <2>6. /\ Done' = Done \cup {n}
        /\ DOMAIN applied = 1..Len(applied) /\ Len(applied) \in Nat
        /\ DOMAIN applied' = 1..(Len(applied) + 1)
        /\ applied'[Len(applied) + 1] = n /\ \A i \in DOMAIN applied : applied'[i] = applied[i]
    BY <1>3, <2>1, AppendDone DEF Shape, n
  <2>7. Done \subseteq Scripts
    <3>1. \A i \in DOMAIN applied : applied[i] \in Scripts BY ElementOfSeq, <2>6 DEF Shape
    <3>2. QED BY <3>1 DEF Done
  <2>8. ASSUME NEW i \in DOMAIN applied', NEW v \in Done', v < applied'[i]
        PROVE  \E j \in DOMAIN applied' : j < i /\ applied'[j] = v
    <3>1. CASE i = Len(applied) + 1
      <4>1. v < n BY <2>6, <2>8, <3>1
      <4>2. v \in Done BY <2>1, <2>3, <2>6, <4>1
      <4>3. PICK j \in DOMAIN applied : applied[j] = v BY <4>2 DEF Done
      <4>4. QED BY <2>6, <3>1, <4>3
    <3>2. CASE i # Len(applied) + 1
      <4>1. i \in DOMAIN applied /\ applied'[i] = applied[i] BY <2>6, <3>2
      <4>2. applied[i] \in Done /\ v < applied[i] BY <2>8, <4>1 DEF Done
      <4>3. v \in Done
        <5>1. n \in ToApply BY <2>1, <2>2
        <5>2. QED BY <1>1, <2>6, <4>2, <5>1
      <4>4. PICK j \in DOMAIN applied : j < i /\ applied[j] = v BY <1>1, <4>1, <4>2, <4>3
      <4>5. QED BY <2>6, <4>4
    <3>3. QED BY <3>1, <3>2
  <2>9. QED BY <1>1, <2>5, <2>6, <2>8
<1>4. QED BY <1>2, <1>3, DoneMoves

LEMMA MigratedSteps ==
  ASSUME Shape, Migrations, legacy >= 0, NEW s \in Servers, ServerSteps(s), NEW u \in Servers
  PROVE  Migrated(u)'
<1> DEFINE x == server[s]
           y == server'[s]
<1>1. UNCHANGED <<configured, legacy, overrun>> /\ \A v \in Servers \ {s} : server'[v] = server[v]
  BY SomeState DEF Becomes
<1>2. Done \subseteq Done' BY DoneGrows
<1>3. ToApply' = ToApply BY <1>1 DEF ToApply
<1>4. ~MongoEmpty BY DEF MongoEmpty, Migrations
<1>5. Migrated(s) BY DEF Migrations
<1>6. CASE u # s
  <2>1. server'[u] = server[u] BY <1>1, <1>6
  <2>2. Upcoming(u)' = Upcoming(u) BY <2>1 DEF Upcoming
  <2>3. Migrated(u) BY DEF Migrations
  <2>4. QED BY <1>2, <1>3, <2>1, <2>2, <2>3 DEF Migrated
<1>7. CASE u = s
  <2> SUFFICES
        /\ ~y.empty /\ y.pc # "populate"
        /\ y.todo \subseteq ToApply
        /\ y.pc \in {"migrate", "record"} => ~y.skip /\ ToApply \ y.todo \subseteq Done'
        /\ y.pc = "record" => Upcoming(s)' \in Done'
        /\ y.pc \in Later /\ ~y.failed => ToApply \subseteq Done'
    BY <1>3, <1>7 DEF Migrated
  <2>1. /\ ~x.empty /\ x.pc # "populate" /\ x.todo \subseteq ToApply
        /\ x.pc \in {"migrate", "record"} => ~x.skip /\ ToApply \ x.todo \subseteq Done
        /\ x.pc = "record" => Upcoming(s) \in Done
        /\ x.pc \in Later /\ ~x.failed => ToApply \subseteq Done
    BY <1>5 DEF Migrated
  <2>2. CASE StartServer(s) \/ Acquire(s) \/ InitElastic(s)
    <3>1. y.pc \in {"wait", "probe", "plan"} /\ y.empty = x.empty /\ y.todo = x.todo
      BY <2>2, ServerMoves DEF Becomes, MovesTo
    <3>2. QED BY <2>1, <3>1 DEF Later
  <2>3. CASE Probe(s)
    <3>1. \/ Becomes(s, "down", FALSE, FALSE, {}, {}, {}, FALSE)
          \/ MovesTo(s, "limited")
          \/ Becomes(s, "elastic", MongoEmpty, x.skip, x.todo, x.left, x.unnamed, x.failed)
      BY <2>3, ServerMoves
    <3>2. y.pc \in {"down", "limited", "elastic"} /\ ~y.empty /\ y.todo \subseteq x.todo
      BY <1>4, <2>1, <3>1 DEF Becomes, MovesTo
    <3>3. QED BY <2>1, <3>2 DEF Later
  <2>4. CASE PlanMigrations(s)
    <3>1. y.pc = "migrate" /\ y.empty = x.empty /\ y.skip = MongoEmpty /\ y.todo = Unrecorded
      BY <2>4, ServerMoves DEF Becomes
    <3>2. QED BY <1>2, <1>4, <2>1, <3>1, ToDoIs DEF Later
  <2>5. CASE Migrate(s)
    <3>1. y.pc = "record" /\ y.empty = x.empty /\ y.skip = x.skip /\ y.todo = x.todo
      BY <2>5, ServerMoves DEF Becomes, MovesTo
    <3>2. x.pc = "migrate" /\ x.todo # {} BY <2>5 DEF Migrate
    <3>3. Upcoming(s)' = Upcoming(s) BY <3>1 DEF Upcoming
    <3>4. Upcoming(s) \in Scripts BY <3>2, UpcomingIs
    <3>5. applied' = Append(applied, Upcoming(s)) BY <2>1, <2>5, <3>2 DEF Migrate
    <3>6. Upcoming(s) \in Done' BY <3>4, <3>5, AppendDone DEF Shape
    <3>7. QED BY <1>2, <2>1, <3>1, <3>2, <3>3, <3>6 DEF Later
  <2>6. CASE RecordVersion(s)
    <3>1. y.pc = "migrate" /\ y.empty = x.empty /\ y.skip = x.skip /\ y.todo = x.todo \ {Upcoming(s)}
      BY <2>6, ServerMoves DEF Becomes
    <3>2. x.pc = "record" BY <2>6 DEF RecordVersion
    <3>3. QED BY <1>2, <2>1, <3>1, <3>2 DEF Later
  <2>7. CASE MigrationFails(s)
    <3>1. y.pc = "release" /\ y.empty = x.empty /\ y.todo = x.todo /\ y.failed
      BY <2>7, ServerMoves DEF Becomes
    <3>2. QED BY <2>1, <3>1
  <2>8. CASE EnsureDefaults(s)
    <3>1. y.pc = "accounts" /\ y.empty = x.empty /\ y.todo = x.todo BY <2>8, ServerMoves DEF Becomes
    <3>2. x.pc = "migrate" /\ x.todo = {} BY <2>8 DEF EnsureDefaults
    <3>3. ToApply \subseteq Done' BY <1>2, <2>1, <3>2
    <3>4. QED BY <2>1, <3>1, <3>3
  <2>9. CASE DeleteMissingAccounts(s)
    <3>1. y.pc = "fixed" /\ y.empty = x.empty /\ y.todo = x.todo /\ y.failed = x.failed
      BY <2>9, ServerMoves DEF Becomes
    <3>2. x.pc = "accounts" BY <2>9 DEF DeleteMissingAccounts
    <3>3. QED BY <1>2, <2>1, <3>1, <3>2 DEF Later
  <2>10. CASE InitDone(s) \/ Release(s) \/ PrePopulateData(s)
    <3>1. y.pc \in {"release", "serve"} /\ y.empty = x.empty /\ y.todo = x.todo /\ y.failed = x.failed
      BY <2>1, <2>10, ServerMoves DEF Becomes, MovesTo
    <3>2. x.pc \in {"fixed", "release", "populate"} BY <2>10 DEF InitDone, Release, PrePopulateData
    <3>3. QED BY <1>2, <2>1, <3>1, <3>2 DEF Later
  <2>11. CASE Stop(s)
    <3>1. y.pc = "down" /\ ~y.empty /\ y.todo = {} BY <2>11, ServerMoves DEF Becomes
    <3>2. QED BY <3>1 DEF Later
  <2>12. CASE EnsureUser(s)
    <3>1. /\ y.pc = x.pc /\ y.empty = x.empty /\ y.skip = x.skip /\ y.todo = x.todo /\ y.failed = x.failed
      BY <2>12, ServerMoves DEF Becomes
    <3>2. Upcoming(s)' = Upcoming(s) BY <3>1 DEF Upcoming
    <3>3. QED BY <1>2, <2>1, <3>1, <3>2
  <2>13. CASE \E a \in Accounts : EnsureAccount(s, a)
    <3> PICK a \in Accounts : EnsureAccount(s, a) BY <2>13
    <3>1. /\ y.pc = x.pc /\ y.empty = x.empty /\ y.skip = x.skip /\ y.todo = x.todo /\ y.failed = x.failed
      BY ServerMoves DEF Becomes
    <3>2. Upcoming(s)' = Upcoming(s) BY <3>1 DEF Upcoming
    <3>3. QED BY <1>2, <2>1, <3>1, <3>2
  <2>14. QED
    BY <2>2, <2>3, <2>4, <2>5, <2>6, <2>7, <2>8, <2>9, <2>10, <2>11, <2>12, <2>13 DEF ServerSteps
<1>8. QED BY <1>6, <1>7

LEMMA MigrationsSteps ==
  ASSUME Shape, Migrations, NEW s \in Servers, ServerSteps(s)
  PROVE  Migrations'
<1>1. legacy' = legacy BY SomeState DEF Becomes
<1> SUFFICES ASSUME legacy >= 0 PROVE Migrations' BY <1>1 DEF Migrations
<1>2. ToApply' = ToApply BY <1>1 DEF ToApply
<1>3. store'.company /\ Scripts \cap {legacy} \subseteq store'.recorded BY StoreMoves DEF Migrations
<1>4. imports' = 0
  <2>1. ~PrePopulateData(s) BY DEF PrePopulateData, Migrations, Migrated
  <2>2. imports' = imports
    BY <2>1 DEF ServerSteps, StartServer, Acquire, Probe, InitElastic, PlanMigrations, Migrate, RecordVersion,
       MigrationFails, EnsureDefaults, DeleteMissingAccounts, Release, Stop, EnsureUser, InitDone, EnsureAccount
  <2>3. QED BY <2>2 DEF Migrations
<1>5. store'.recorded \cap ToApply \subseteq Done'
  <2>1. Done \subseteq Done' BY DoneGrows
  <2>2. RecordVersion(s) => Upcoming(s) \in Done BY DEF RecordVersion, Migrations, Migrated
  <2>3. store.recorded \cap ToApply \subseteq Done BY DEF Migrations
  <2>4. QED BY <2>1, <2>2, <2>3, StoreMoves
<1>6. \A u \in Servers : Migrated(u)' BY MigratedSteps
<1>7. QED BY <1>1, <1>2, <1>3, <1>4, <1>5, <1>6, InOrder DEF Migrations

-----------------------------------------------------------------------------
(* One at a time.                                                          *)

\* A server at work is the only one, and the only one that changes documents.
LEMMA OthersRest ==
  ASSUME Shape, \A u \in Servers : AccountsKept(u), OneByOne, ~overrun,
         NEW s \in Servers, ServerSteps(s), NEW u \in Servers \ {s}, AtWork(u)
  PROVE  store' = store /\ lock' = u
<1>1. lock = u /\ u # NoServer BY StartupAssumption DEF OneByOne, Alone
<1>2. ~AtWork(s) BY <1>1 DEF OneByOne, Alone
<1>3. server[s].unnamed = {} BY <1>2 DEF AccountsKept, AtWork
<1>4. store' = store BY <1>2, <1>3, StoreMoves
<1>5. ~Acquire(s) /\ ~Probe(s) /\ ~Release(s) BY <1>1, <1>2 DEF Acquire, Probe, Release, AtWork
<1>6. lock' = lock
  BY <1>5 DEF ServerSteps, StartServer, InitElastic, PlanMigrations, Migrate, RecordVersion, MigrationFails,
     EnsureDefaults, DeleteMissingAccounts, PrePopulateData, Stop, EnsureUser, InitDone, EnsureAccount
<1>7. QED BY <1>1, <1>4, <1>6

LEMMA ImportsMove ==
  ASSUME NEW s \in Servers, ServerSteps(s)
  PROVE  (PrePopulateData(s) /\ imports' = imports + 1) \/ imports' = imports
BY DEF ServerSteps, StartServer, Acquire, Probe, InitElastic, PlanMigrations, Migrate, RecordVersion,
   MigrationFails, EnsureDefaults, DeleteMissingAccounts, Release, PrePopulateData, Stop, EnsureUser,
   InitDone, EnsureAccount

LEMMA OthersAlone ==
  ASSUME Shape, \A u \in Servers : AccountsKept(u), OneByOne, ~overrun,
         NEW s \in Servers, ServerSteps(s), NEW u \in Servers \ {s}
  PROVE  Alone(u)' /\ (Awaiting(u)' <=> Awaiting(u))
<1>1. server'[u] = server[u] BY SomeState DEF Becomes
<1>2. Alone(u) BY DEF OneByOne
<1>3. AtWork(u)' <=> AtWork(u) BY <1>1 DEF AtWork
<1>4. Awaiting(u)' <=> Awaiting(u) BY <1>1 DEF Awaiting
<1>5. AtWork(u) => store' = store /\ lock' = u BY OthersRest
<1>6. AtWork(u) => Unrecorded' = Unrecorded /\ MongoEmpty' = MongoEmpty BY <1>5 DEF Unrecorded, MongoEmpty
<1>7. server[u].pc \in {"elastic", "plan", "migrate", "record"} => AtWork(u) BY DEF AtWork
<1>8. store.company => store'.company BY StoreMoves
<1>9. Awaiting(u) => imports' = 0
  <2>1. SUFFICES ASSUME Awaiting(u), PrePopulateData(s) PROVE FALSE BY <1>2, ImportsMove DEF Alone
  <2>2. Awaiting(s) BY <2>1 DEF PrePopulateData, OneByOne, Alone, Awaiting
  <2>3. QED BY <2>1, <2>2 DEF OneByOne
<1>10. QED BY <1>1, <1>2, <1>3, <1>4, <1>5, <1>6, <1>7, <1>8, <1>9 DEF Alone

LEMMA ProbeMoves ==
  ASSUME Shape, NEW s \in Servers, Probe(s)
  PROVE  /\ \/ server'[s].pc \in {"down", "limited"} /\ server'[s].empty \in {FALSE, server[s].empty}
            \/ server'[s].pc = "elastic" /\ server'[s].empty = MongoEmpty /\ lock' = lock
         /\ store' = store
<1>1. server \in [Servers -> ServerState] BY DEF Shape
<1>2. store' = store BY DEF Probe
<1>3. \/ server' = [server EXCEPT ![s] = Down]
      \/ server' = [server EXCEPT ![s].pc = "limited"]
      \/ server' = [server EXCEPT ![s].pc = "elastic", ![s].empty = MongoEmpty] /\ UNCHANGED lock
  BY DEF Probe
<1>4. CASE server' = [server EXCEPT ![s] = Down] BY <1>1, <1>2, <1>4 DEF Down
<1>5. CASE server' = [server EXCEPT ![s].pc = "limited"] BY <1>1, <1>2, <1>5 DEF ServerState
<1>6. CASE server' = [server EXCEPT ![s].pc = "elastic", ![s].empty = MongoEmpty] /\ UNCHANGED lock
  BY <1>1, <1>2, <1>6 DEF ServerState
<1>7. QED BY <1>3, <1>4, <1>5, <1>6

LEMMA LockStays ==
  ASSUME NEW s \in Servers, ServerSteps(s), ~Acquire(s), ~Probe(s), ~Release(s)
  PROVE  lock' = lock
BY DEF ServerSteps, StartServer, InitElastic, PlanMigrations, Migrate, RecordVersion, MigrationFails,
   EnsureDefaults, DeleteMissingAccounts, PrePopulateData, Stop, EnsureUser, InitDone, EnsureAccount

\* Recording what comes next leaves what comes after.
LEMMA Recording ==
  ASSUME Shape, NEW s \in Servers, RecordVersion(s), server[s].todo = Unrecorded
  PROVE  Unrecorded' = Unrecorded \ {Upcoming(s)}
<1> DEFINE n == Upcoming(s)
<1>1. n \in Scripts /\ n \in Unrecorded /\ \A v \in Unrecorded : n <= v
  BY UpcomingIs DEF RecordVersion, Shape
<1>2. store'.recorded = store.recorded \cup {n} BY DEF RecordVersion, Shape, StoreState
<1>3. \A v \in Scripts : v \in Nat BY StartupAssumption
<1> HIDE DEF n
<1>4. \A v \in Unrecorded : v # n => n < v BY <1>1, <1>3 DEF Unrecorded
<1>5. \A v \in Scripts : (\A r \in store'.recorded : r < v) <=> n < v /\ \A r \in store.recorded : r < v BY <1>2
<1>6. ~(n < n) BY <1>1, <1>3
<1>7. QED BY <1>4, <1>5, <1>6 DEF Unrecorded, n

LEMMA SelfAlone ==
  ASSUME Shape, \A u \in Servers : AccountsKept(u), OneByOne, ~overrun, NEW s \in Servers, ServerSteps(s)
  PROVE  /\ Alone(s)'
         /\ Awaiting(s)' => Awaiting(s) \/ (MongoEmpty /\ Probe(s))
<1> DEFINE x == server[s]
           y == server'[s]
<1>1. /\ AtWork(s) => lock = s
      /\ x.pc \in {"migrate", "record"} => x.todo = Unrecorded
      /\ x.pc \in Early => ~x.empty
      /\ x.pc = "populate" => x.empty
      /\ x.empty /\ x.pc \in {"elastic", "plan"} => MongoEmpty
      /\ x.empty /\ x.pc \in {"migrate", "record"} => x.skip
      /\ x.empty /\ x.pc \in Later => store.company
      /\ Awaiting(s) => imports = 0
  BY DEF OneByOne, Alone
<1>2. store.company => store'.company BY StoreMoves
<1>3. imports > 0 => ~MongoEmpty BY DEF OneByOne, MongoEmpty
<1>4. ~PrePopulateData(s) => imports' = imports BY ImportsMove
<1> SUFFICES
      /\ AtWork(s)' => lock' = s
      /\ y.pc \in {"migrate", "record"} => y.todo = Unrecorded'
      /\ y.pc \in Early => ~y.empty
      /\ y.pc = "populate" => y.empty
      /\ y.empty /\ y.pc \in {"elastic", "plan"} => MongoEmpty'
      /\ y.empty /\ y.pc \in {"migrate", "record"} => y.skip
      /\ y.empty /\ y.pc \in Later => store'.company
      /\ y.empty /\ y.pc # "serve" => imports' = 0 /\ (Awaiting(s) \/ (MongoEmpty /\ Probe(s)))
  BY DEF Alone, Awaiting
<1>5. CASE StartServer(s) \/ Stop(s)
  <2>1. y.pc \in {"wait", "down"} /\ ~y.empty
    BY <1>1, <1>5, ServerMoves DEF Becomes, MovesTo, StartServer, Early
  <2>2. QED BY <2>1 DEF AtWork, Later
<1>6. CASE Acquire(s)
  <2>1. y.pc = "probe" /\ y.empty = x.empty BY <1>6, ServerMoves DEF Becomes, MovesTo
  <2>2. ~x.empty /\ lock' = s BY <1>1, <1>6 DEF Acquire, Early
  <2>3. QED BY <2>1, <2>2 DEF Later
<1>7. CASE Probe(s)
  <2>1. /\ \/ y.pc \in {"down", "limited"} /\ y.empty \in {FALSE, x.empty}
           \/ y.pc = "elastic" /\ y.empty = MongoEmpty /\ lock' = lock
        /\ store' = store
    BY <1>7, ProbeMoves
  <2>2. ~x.empty /\ lock = s BY <1>1, <1>7 DEF Probe, Early, AtWork
  <2>3. imports' = imports /\ imports \in Nat BY <1>4, <1>7 DEF Shape, Probe, PrePopulateData
  <2>4. MongoEmpty' = MongoEmpty BY <2>1 DEF MongoEmpty
  <2>5. MongoEmpty => imports = 0 BY <1>3, <2>3
  <2>6. CASE y.pc \in {"down", "limited"} /\ y.empty \in {FALSE, x.empty} BY <2>2, <2>6 DEF AtWork, Later
  <2>7. CASE y.pc = "elastic" /\ y.empty = MongoEmpty /\ lock' = lock
    BY <1>7, <2>2, <2>3, <2>4, <2>5, <2>7 DEF Later, Early
  <2>8. QED BY <2>1, <2>6, <2>7
<1>8. CASE InitElastic(s) \/ PlanMigrations(s)
  <2>1. /\ y.pc \in {"plan", "migrate"} /\ y.empty = x.empty
        /\ y.pc = "migrate" => y.todo = Unrecorded /\ y.skip = MongoEmpty
    BY <1>8, ServerMoves DEF Becomes, MovesTo
  <2>2. x.pc \in {"elastic", "plan"} /\ lock = s BY <1>1, <1>8 DEF InitElastic, PlanMigrations, AtWork
  <2>3. lock' = lock BY <1>8 DEF InitElastic, PlanMigrations
  <2>4. imports' = imports BY <1>8 DEF InitElastic, PlanMigrations
  <2>5. store'.company = store.company /\ store'.accounts = store.accounts /\ store'.recorded = store.recorded
    BY <1>8 DEF InitElastic, PlanMigrations, Shape, StoreState
  <2>6. MongoEmpty' = MongoEmpty /\ Unrecorded' = Unrecorded BY <2>5 DEF MongoEmpty, Unrecorded
  <2>7. x.empty => imports = 0 /\ MongoEmpty /\ Awaiting(s) BY <1>1, <2>2 DEF Awaiting
  <2>8. QED BY <2>1, <2>2, <2>3, <2>4, <2>6, <2>7 DEF Early, Later
<1>9. CASE Migrate(s) \/ RecordVersion(s) \/ MigrationFails(s)
  <2>1. x.pc \in {"migrate", "record"} /\ lock = s /\ lock' = lock /\ imports' = imports
    BY <1>1, <1>9 DEF Migrate, RecordVersion, MigrationFails, AtWork
  <2>2. x.empty => x.skip /\ imports = 0 /\ Awaiting(s) BY <1>1, <2>1 DEF Awaiting
  <2>3. CASE Migrate(s)
    <3>1. y.pc = "record" /\ y.empty = x.empty /\ y.todo = x.todo /\ y.skip = x.skip
      BY <2>3, ServerMoves DEF Becomes, MovesTo
    <3>2. Unrecorded' = Unrecorded BY <2>3 DEF Migrate, Unrecorded
    <3>3. QED BY <1>1, <2>1, <2>2, <3>1, <3>2 DEF Early, Later
  <2>4. CASE RecordVersion(s)
    <3>1. y.pc = "migrate" /\ y.empty = x.empty /\ y.todo = x.todo \ {Upcoming(s)} /\ y.skip = x.skip
      BY <2>4, ServerMoves DEF Becomes
    <3>2. Unrecorded' = Unrecorded \ {Upcoming(s)} BY <1>1, <2>1, <2>4, Recording
    <3>3. QED BY <1>1, <2>1, <2>2, <3>1, <3>2 DEF Early, Later
  <2>5. CASE MigrationFails(s)
    <3>1. y.pc = "release" /\ y.empty = x.empty BY <2>5, ServerMoves DEF Becomes
    <3>2. ~x.empty BY <2>2, <2>5 DEF MigrationFails
    <3>3. QED BY <2>1, <3>1, <3>2 DEF Early, Later
  <2>6. QED BY <1>9, <2>3, <2>4, <2>5
<1>10. CASE EnsureDefaults(s) \/ DeleteMissingAccounts(s) \/ InitDone(s)
  <2>1. y.pc \in {"accounts", "fixed", "release"} /\ y.empty = x.empty
    BY <1>10, ServerMoves DEF Becomes, MovesTo
  <2>2. /\ lock = s /\ lock' = lock /\ imports' = imports
        /\ EnsureDefaults(s) \/ x.pc \in {"accounts", "fixed"}
        /\ x.pc # "serve"
    BY <1>1, <1>10 DEF EnsureDefaults, DeleteMissingAccounts, InitDone, AtWork
  <2>3. x.empty => store'.company /\ imports = 0 /\ Awaiting(s)
    BY <1>1, <1>2, <2>2, StoreMoves DEF Awaiting, Later
  <2>4. QED BY <2>1, <2>2, <2>3 DEF Early
<1>11. CASE EnsureUser(s) \/ \E a \in Accounts : EnsureAccount(s, a)
  <2>1. y.pc = x.pc /\ y.empty = x.empty
    <3>1. CASE EnsureUser(s) BY <3>1, ServerMoves DEF Becomes
    <3>2. CASE \E a \in Accounts : EnsureAccount(s, a) BY <3>2, ServerMoves DEF Becomes
    <3>3. QED BY <1>11, <3>1, <3>2
  <2>2. x.pc \in {"accounts", "fixed"}
    <3>1. x.unnamed # {} => x.pc \in {"accounts", "fixed"} BY DEF AccountsKept
    <3>2. QED BY <1>11, <3>1 DEF EnsureUser, EnsureAccount
  <2>3. lock = s /\ lock' = lock /\ imports' = imports
    BY <1>1, <1>11, <2>2 DEF EnsureUser, EnsureAccount, AtWork
  <2>4. x.empty => store'.company /\ imports = 0 /\ Awaiting(s) BY <1>1, <1>2, <2>2 DEF Awaiting, Later
  <2>5. QED BY <2>1, <2>2, <2>3, <2>4 DEF Early
<1>12. CASE Release(s)
  <2>1. y.pc = (IF x.empty THEN "populate" ELSE "serve") /\ y.empty = x.empty
    BY <1>12, ServerMoves DEF Becomes, MovesTo
  <2>2. x.pc = "release" /\ imports' = imports BY <1>12 DEF Release
  <2>3. x.empty => store'.company /\ imports = 0 /\ Awaiting(s) BY <1>1, <1>2, <2>2 DEF Awaiting, Later
  <2>4. QED BY <2>1, <2>2, <2>3 DEF Early, AtWork
<1>13. CASE PrePopulateData(s)
  <2>1. y.pc = "serve" /\ y.empty = x.empty BY <1>13, ServerMoves DEF Becomes, MovesTo
  <2>2. x.pc = "populate" BY <1>13 DEF PrePopulateData
  <2>3. QED BY <1>1, <1>2, <2>1, <2>2 DEF Early, Later, AtWork
<1>14. QED BY <1>5, <1>6, <1>7, <1>8, <1>9, <1>10, <1>11, <1>12, <1>13 DEF ServerSteps

LEMMA RecordedGrows ==
  ASSUME Shape, NEW s \in Servers, ServerSteps(s)
  PROVE  Unrecorded' \subseteq Unrecorded
<1>1. store.recorded \subseteq store'.recorded BY StoreMoves
<1>2. QED BY <1>1 DEF Unrecorded

\* What is applied next comes after all that has been applied.
LEMMA AppliedInOrder ==
  ASSUME Shape, OneByOne, ~overrun, NEW s \in Servers, ServerSteps(s)
  PROVE  /\ \A i, j \in DOMAIN applied' : i < j => applied'[i] <= applied'[j]
         /\ \A i \in DOMAIN applied', v \in Unrecorded' : applied'[i] <= v
<1>1. /\ \A i, j \in DOMAIN applied : i < j => applied[i] <= applied[j]
      /\ \A i \in DOMAIN applied, v \in Unrecorded : applied[i] <= v
  BY DEF OneByOne
<1>2. Unrecorded' \subseteq Unrecorded BY RecordedGrows
<1>3. CASE UNCHANGED applied BY <1>1, <1>2, <1>3
<1>4. CASE Migrate(s) /\ applied' = Append(applied, Upcoming(s))
  <2> DEFINE n == Upcoming(s)
  <2>1. server[s].todo = Unrecorded /\ server[s].todo # {} BY <1>4 DEF Migrate, OneByOne, Alone
  <2>2. n \in Unrecorded /\ n \in Scripts /\ \A v \in Unrecorded : n <= v BY <2>1, UpcomingIs
  <2> HIDE DEF n
  <2>3. /\ DOMAIN applied = 1..Len(applied) /\ Len(applied) \in Nat
        /\ DOMAIN applied' = 1..(Len(applied) + 1)
        /\ applied'[Len(applied) + 1] = n /\ \A i \in DOMAIN applied : applied'[i] = applied[i]
    BY <1>4, <2>2, AppendDone DEF Shape, n
  <2>4. n \in Nat BY <2>2, StartupAssumption
  <2>5. \A i \in DOMAIN applied : applied'[i] <= n BY <1>1, <2>2, <2>3
  <2>6. \A i \in DOMAIN applied' : i \in DOMAIN applied \/ i = Len(applied) + 1 BY <2>3
  <2>7. ASSUME NEW i \in DOMAIN applied', NEW j \in DOMAIN applied', i < j PROVE applied'[i] <= applied'[j]
    <3>1. i \in DOMAIN applied BY <2>3, <2>7
    <3>2. CASE j \in DOMAIN applied BY <1>1, <2>3, <2>7, <3>1, <3>2
    <3>3. CASE j = Len(applied) + 1 BY <2>3, <2>5, <3>1, <3>3
    <3>4. QED BY <2>6, <3>2, <3>3
  <2>8. ASSUME NEW i \in DOMAIN applied', NEW v \in Unrecorded' PROVE applied'[i] <= v
    <3>1. v \in Unrecorded BY <1>2
    <3>2. CASE i \in DOMAIN applied BY <1>1, <2>3, <3>1, <3>2
    <3>3. CASE i = Len(applied) + 1 BY <2>2, <2>3, <3>1, <3>3
    <3>4. QED BY <2>6, <3>2, <3>3
  <2>9. QED BY <2>7, <2>8
<1>5. QED BY <1>3, <1>4, DoneMoves

\* A database is empty for one server at a time.
LEMMA OneAwaits ==
  ASSUME Shape, \A u \in Servers : AccountsKept(u), OneByOne, ~overrun, NEW s \in Servers, ServerSteps(s),
         NEW u \in Servers, NEW v \in Servers, Awaiting(u)', Awaiting(v)'
  PROVE  u = v
<1>1. \A t, w \in Servers : Awaiting(t) /\ Awaiting(w) => t = w BY DEF OneByOne
<1>2. \A t \in Servers : server[t].pc \in Steps BY DEF Shape, ServerState
<1>3. ASSUME NEW t \in Servers \ {s}, Awaiting(t), MongoEmpty, Probe(s) PROVE FALSE
  <2>1. server[t].pc \notin Early BY <1>3 DEF Awaiting, OneByOne, Alone
  <2>2. CASE AtWork(t)
    <3>1. lock = t BY <2>2 DEF OneByOne, Alone
    <3>2. lock = s BY <1>3 DEF OneByOne, Alone, Probe, AtWork
    <3>3. QED BY <3>1, <3>2
  <2>3. CASE server[t].pc = "populate"
    <3>1. store.company BY <1>3, <2>3 DEF Awaiting, OneByOne, Alone, Later
    <3>2. QED BY <1>3, <3>1 DEF MongoEmpty
  <2>4. QED BY <1>2, <1>3, <2>1, <2>2, <2>3 DEF Steps, Early, Later, AtWork, Awaiting
<1>4. \A t \in Servers \ {s} : Awaiting(t)' => Awaiting(t) BY OthersAlone
<1>5. Awaiting(s)' => Awaiting(s) \/ (MongoEmpty /\ Probe(s)) BY SelfAlone
<1>6. QED BY <1>1, <1>3, <1>4, <1>5

LEMMA OneByOneSteps ==
  ASSUME Shape, \A u \in Servers : AccountsKept(u), OneByOne, NEW s \in Servers, ServerSteps(s)
  PROVE  OneByOne'
<1>1. overrun' = overrun BY SomeState DEF Becomes
<1> SUFFICES ASSUME ~overrun PROVE OneByOne' BY <1>1 DEF OneByOne
<1>2. \A u \in Servers : Alone(u)' BY OthersAlone, SelfAlone
<1>3. imports' <= 1 /\ (imports' > 0 => store'.company)
  <2>1. store.company => store'.company BY StoreMoves
  <2>2. imports <= 1 /\ (imports > 0 => store.company) /\ imports \in Nat BY DEF OneByOne, Shape
  <2>3. CASE imports' = imports BY <2>1, <2>2, <2>3
  <2>4. CASE PrePopulateData(s) /\ imports' = imports + 1
    <3>1. server[s].pc = "populate" BY <2>4 DEF PrePopulateData
    <3>2. server[s].empty BY <3>1 DEF OneByOne, Alone
    <3>3. store.company /\ imports = 0 BY <3>1, <3>2 DEF OneByOne, Alone, Awaiting, Later
    <3>4. QED BY <2>1, <2>4, <3>3
  <2>5. QED BY <2>3, <2>4, ImportsMove
<1>4. /\ \A i, j \in DOMAIN applied' : i < j => applied'[i] <= applied'[j]
      /\ \A i \in DOMAIN applied', v \in Unrecorded' : applied'[i] <= v
  BY AppliedInOrder
<1>5. \A u, v \in Servers : Awaiting(u)' /\ Awaiting(v)' => u = v BY OneAwaits
<1>6. QED BY <1>2, <1>3, <1>4, <1>5 DEF OneByOne

-----------------------------------------------------------------------------
(* The invariant and the property.                                         *)

LEMMA StillInv ==
  ASSUME StartupInv, UNCHANGED <<store, configured, server, legacy, applied, imports>>,
         lock' \in Servers \cup {NoServer}, overrun' \in BOOLEAN, overrun => overrun',
         ~overrun' => lock' = lock \/ \A s \in Servers : ~AtWork(s)
  PROVE  StartupInv'
<1>1. Shape' BY DEF StartupInv, Shape
<1>2. \A s \in Servers : AccountsKept(s)' BY DEF StartupInv, AccountsKept
<1>3. Migrations'
  <2>1. ToApply' = ToApply /\ Done' = Done BY DEF ToApply, Done
  <2>2. \A s \in Servers : Migrated(s)' <=> Migrated(s) BY <2>1 DEF Migrated, Upcoming
  <2>3. QED BY <2>1, <2>2 DEF StartupInv, Migrations
<1>4. OneByOne'
  <2>1. SUFFICES ASSUME ~overrun' PROVE OneByOne' BY DEF OneByOne
  <2>2. Unrecorded' = Unrecorded /\ MongoEmpty' = MongoEmpty BY DEF Unrecorded, MongoEmpty
  <2>3. \A s \in Servers : (Awaiting(s)' <=> Awaiting(s)) /\ (AtWork(s)' <=> AtWork(s)) BY DEF Awaiting, AtWork
  <2>4. OneByOne /\ ~overrun BY <2>1 DEF StartupInv
  <2>5. ASSUME NEW s \in Servers PROVE Alone(s)'
    <3>1. Alone(s) BY <2>4 DEF OneByOne
    <3>2. AtWork(s)' => lock' = s BY <2>1, <2>3, <3>1 DEF Alone
    <3>3. QED BY <2>2, <2>3, <3>1, <3>2 DEF Alone
  <2>6. QED BY <2>2, <2>3, <2>4, <2>5 DEF OneByOne
<1>5. QED BY <1>1, <1>2, <1>3, <1>4 DEF StartupInv

LEMMA LockExpiresKeeps ==
  ASSUME StartupInv, LockExpires
  PROVE  StartupInv'
<1>1. /\ UNCHANGED <<store, configured, server, legacy, applied, imports>>
      /\ lock' = NoServer /\ overrun' = (overrun \/ AtWork(lock))
  BY DEF LockExpires
<1>2. ASSUME ~overrun', NEW s \in Servers, AtWork(s) PROVE FALSE
  <2>1. lock = s BY <1>1, <1>2 DEF StartupInv, OneByOne, Alone
  <2>2. QED BY <1>1, <1>2, <2>1
<1>3. overrun' \in BOOLEAN /\ (overrun => overrun') BY <1>1 DEF StartupInv, Shape, AtWork
<1>4. QED BY <1>1, <1>2, <1>3, StillInv

LEMMA ConfigureKeeps ==
  ASSUME StartupInv, Configure
  PROVE  StartupInv'
<1>1. /\ UNCHANGED <<store, lock, server, legacy, applied, imports, overrun>> /\ configured' \subseteq Accounts
      /\ \A s \in Servers : server[s].pc = "down"
  BY DEF Configure
<1>2. Shape' BY <1>1 DEF StartupInv, Shape
<1>3. \A s \in Servers : AccountsKept(s)' BY <1>1 DEF StartupInv, AccountsKept
<1>4. Migrations'
  <2>1. ToApply' = ToApply /\ Done' = Done BY <1>1 DEF ToApply, Done
  <2>2. \A s \in Servers : Migrated(s)' <=> Migrated(s) BY <1>1, <2>1 DEF Migrated, Upcoming
  <2>3. QED BY <1>1, <2>1, <2>2 DEF StartupInv, Migrations
<1>5. OneByOne'
  <2>1. Unrecorded' = Unrecorded /\ MongoEmpty' = MongoEmpty BY <1>1 DEF Unrecorded, MongoEmpty
  <2>2. \A s \in Servers : (Awaiting(s)' <=> Awaiting(s)) /\ (AtWork(s)' <=> AtWork(s)) BY <1>1 DEF Awaiting, AtWork
  <2>3. \A s \in Servers : Alone(s)' <=> Alone(s) BY <1>1, <2>1, <2>2 DEF Alone
  <2>4. QED BY <1>1, <2>1, <2>2, <2>3 DEF StartupInv, OneByOne
<1>6. QED BY <1>2, <1>3, <1>4, <1>5 DEF StartupInv

LEMMA StartupInvSteps ==
  ASSUME StartupInv, [StartupNext]_startupVars
  PROVE  StartupInv'
<1>1. CASE LockExpires BY <1>1, LockExpiresKeeps
<1>2. CASE Configure BY <1>2, ConfigureKeeps
<1>3. CASE \E s \in Servers : ServerSteps(s)
  <2> PICK s \in Servers : ServerSteps(s) BY <1>3
  <2>1. Shape' BY ShapeSteps DEF StartupInv
  <2>2. \A u \in Servers : AccountsKept(u)' BY AccountsSteps DEF StartupInv
  <2>3. Migrations' BY MigrationsSteps DEF StartupInv
  <2>4. OneByOne' BY OneByOneSteps DEF StartupInv
  <2>5. QED BY <2>1, <2>2, <2>3, <2>4 DEF StartupInv
<1>4. CASE UNCHANGED startupVars
  <2>1. overrun \in BOOLEAN /\ lock \in Servers \cup {NoServer} BY DEF StartupInv, Shape
  <2>2. QED BY <1>4, <2>1, StillInv DEF startupVars
<1>5. QED BY <1>1, <1>2, <1>3, <1>4, StartupNextIs

LEMMA StartupInitInv ==
  ASSUME StartupInit
  PROVE  StartupInv
<1>1. /\ legacy \in Scripts \cup {0, -1} /\ configured \in SUBSET Accounts
      /\ store.company = (legacy >= 0) /\ store.recorded = Scripts \cap {legacy}
      /\ store.accounts = {} /\ store.users = {} /\ store.templates = (legacy >= MonitoredFrom)
      /\ lock = NoServer /\ server = [s \in Servers |-> Down]
      /\ applied = <<>> /\ imports = 0 /\ overrun = FALSE
  BY DEF StartupInit
<1>2. \A s \in Servers : server[s] = Down BY <1>1
<1>3. \A s \in Servers : /\ server[s].pc = "down" /\ ~server[s].empty /\ server[s].todo = {}
                         /\ server[s].left = {} /\ server[s].unnamed = {}
  BY <1>2 DEF Down
<1>4. \A v \in Scripts : v \in Nat /\ v > 0 BY StartupAssumption
<1>5. Shape
  <2>1. store \in StoreState BY DEF StartupInit, StoreState
  <2>2. server \in [Servers -> ServerState]
    <3>1. "down" \in Steps BY DEF Steps, Early
    <3>2. Down \in ServerState BY <3>1 DEF ServerState, Down
    <3>3. QED BY <1>1, <3>2
  <2>3. applied \in Seq(Scripts) BY <1>1
  <2>4. store.recorded = {} \/ \E m \in Scripts : Greatest(store.recorded, m)
    <3>1. CASE legacy \in Scripts
      <4>1. store.recorded = {legacy} BY <1>1, <3>1
      <4>2. legacy <= legacy BY <1>4, <3>1
      <4>3. Greatest(store.recorded, legacy) BY <4>1, <4>2 DEF Greatest
      <4>4. QED BY <3>1, <4>3
    <3>2. CASE legacy \notin Scripts BY <1>1, <3>2
    <3>3. QED BY <3>1, <3>2
  <2>5. imports \in Nat /\ overrun \in BOOLEAN BY <1>1
  <2>6. QED BY <1>1, <1>3, <2>1, <2>2, <2>3, <2>4, <2>5 DEF Shape
<1>6. \A s \in Servers : AccountsKept(s) BY <1>3 DEF AccountsKept
<1>7. Done = {} /\ DOMAIN applied = {} BY <1>1 DEF Done
<1>8. Migrations
  <2>1. SUFFICES ASSUME legacy >= 0 PROVE Migrations BY DEF Migrations
  <2>2. store.recorded \cap ToApply = {}
    <3>1. SUFFICES ASSUME NEW v \in store.recorded, v > legacy PROVE FALSE BY DEF ToApply
    <3>2. v = legacy /\ v \in Nat BY <1>1, <1>4
    <3>3. QED BY <3>1, <3>2
  <2>3. \A s \in Servers : Migrated(s) BY <1>3 DEF Migrated, Later
  <2>4. QED BY <1>1, <1>7, <2>1, <2>2, <2>3 DEF Migrations
<1>9. OneByOne
  <2>1. \A s \in Servers : Alone(s) BY <1>3 DEF Alone, AtWork, Awaiting, Later
  <2>2. \A s \in Servers : ~Awaiting(s) BY <1>3 DEF Awaiting
  <2>3. QED BY <1>1, <1>7, <2>1, <2>2 DEF OneByOne
<1>10. QED BY <1>5, <1>6, <1>8, <1>9 DEF StartupInv

\* A script that comes first among those applied was applied first.
LEMMA FirstOnes ==
  ASSUME Shape, Migrations, legacy >= 0, NEW v \in Done, NEW w \in Done, v < w
  PROVE  Min({i \in DOMAIN applied : applied[i] = v}) < Min({i \in DOMAIN applied : applied[i] = w})
<1> DEFINE At1(c) == {i \in DOMAIN applied : applied[i] = c}
<1>1. DOMAIN applied \subseteq Nat BY LenProperties DEF Shape
<1>2. ASSUME NEW c \in Done
      PROVE  Min(At1(c)) \in DOMAIN applied /\ applied[Min(At1(c))] = c /\ \A i \in At1(c) : Min(At1(c)) <= i
  <2>1. At1(c) \in SUBSET Nat BY <1>1
  <2>2. At1(c) # {} BY DEF Done
  <2>3. Min(At1(c)) \in At1(c) /\ \A i \in At1(c) : Min(At1(c)) <= i BY <2>1, <2>2, MinIs
  <2>4. QED BY <2>3
<1>3. Min(At1(w)) \in DOMAIN applied /\ applied[Min(At1(w))] = w BY <1>2
<1>4. PICK j \in DOMAIN applied : j < Min(At1(w)) /\ applied[j] = v BY <1>3 DEF Migrations
<1>5. Min(At1(v)) \in Nat /\ Min(At1(v)) <= j BY <1>1, <1>2, <1>4
<1>6. j \in Nat /\ Min(At1(w)) \in Nat BY <1>1, <1>3, <1>4
<1>7. Min(At1(v)) < Min(At1(w)) BY <1>4, <1>5, <1>6
<1>8. QED BY <1>7

LEMMA InvMeansInitialized ==
  ASSUME StartupInv
  PROVE  ServingMeansInitialized
<1>1. ToSet(applied) = Done BY DEF ToSet, Done
<1>2. \A s \in Servers : server[s].pc \in {"populate", "serve"} /\ ~server[s].failed =>
        store.accounts = configured /\ configured \subseteq store.users
  BY DEF StartupInv, AccountsKept
<1>3. legacy >= 0 => \A s \in Servers : server[s].pc \in {"populate", "serve"} /\ ~server[s].failed => ToApply \subseteq Done
  BY DEF StartupInv, Migrations, Migrated, Later
<1>4. legacy >= 0 => {v \in store.recorded : v > legacy} \subseteq Done
  <2>1. store.recorded \subseteq Scripts BY DEF StartupInv, Shape, StoreState
  <2>2. QED BY <2>1 DEF StartupInv, Migrations, ToApply
<1>5. legacy >= 0 => \A v, w \in Done : v < w =>
        Min({i \in DOMAIN applied : applied[i] = v}) < Min({i \in DOMAIN applied : applied[i] = w})
  BY FirstOnes DEF StartupInv
<1>6. ~overrun => /\ \A i, j \in DOMAIN applied : i < j => applied[i] <= applied[j]
                  /\ imports <= 1 /\ (legacy >= 0 => imports = 0)
  BY DEF StartupInv, OneByOne, Migrations
<1>7. QED BY <1>1, <1>2, <1>3, <1>4, <1>5, <1>6 DEF ServingMeansInitialized, ToApply

\* For any servers, scripts and accounts, and however often servers are started, killed or
\* lose their lock: a server that serves after an initialisation without failures has the
\* migrations and the accounts it needs (ServingMeansInitialized).
THEOREM ServersServeInitialized == StartupSpec => []ServingMeansInitialized
<1>1. StartupInit => StartupInv BY StartupInitInv
<1>2. StartupInv /\ [StartupNext]_startupVars => StartupInv' BY StartupInvSteps
<1>3. StartupInv => ServingMeansInitialized BY InvMeansInitialized
<1>4. QED BY <1>1, <1>2, <1>3, PTL DEF StartupSpec

-----------------------------------------------------------------------------
(* Dispatch: for any endpoints, users and calls, in whatever order the      *)
(* modules are imported.                                                    *)

DispatchSpec == DispatchInit /\ [][DispatchNext]_dispatchVars

Sorted(list) == \A i, j \in DOMAIN list : i < j => AtMost(list[j].version, list[i].version)

RegistryOK ==
  /\ registry \in [EndpointNames -> Seq(Declared)]
  /\ \A n \in EndpointNames : Sorted(registry[n]) /\ \A i \in DOMAIN registry[n] : registry[n][i].name = n

DispatchInv ==
  /\ RegistryOK
  /\ served # Unserved => served \in AskedCalls /\ \A e \in Declared : e \in ToSet(registry[e.name])

LEMMA VersionsAreOrdered ==
  ASSUME NEW u \in Nat \X Nat, NEW v \in Nat \X Nat, NEW w \in Nat \X Nat
  PROVE  /\ AtMost(u, v) \/ AtMost(v, u)
         /\ AtMost(u, v) /\ AtMost(v, u) => u = v
         /\ AtMost(u, v) /\ AtMost(v, w) => AtMost(u, w)
<1>1. \A x \in {u, v, w} : x[1] \in Nat /\ x[2] \in Nat /\ x = <<x[1], x[2]>> OBVIOUS
<1>2. QED BY <1>1 DEF AtMost

LEMMA VersionIs == ASSUME NEW d \in Declared PROVE d.version \in Nat \X Nat
BY DispatchAssumption

-----------------------------------------------------------------------------
(* Registration.                                                           *)

\* The order exists: the new one comes before the first that is not newer.
LEMMA OrderExists ==
  ASSUME NEW list \in Seq(Declared), Sorted(list), NEW e \in Declared
  PROVE  \E p \in Bijection(DOMAIN Append(list, e), DOMAIN Append(list, e)) :
           \A i, j \in DOMAIN Append(list, e) :
             i < j => AtMost(Append(list, e)[p[j]].version, Append(list, e)[p[i]].version)
<1> DEFINE a == Append(list, e)
<1>1. PICK n \in Nat : n = Len(list) + 1 BY LenProperties
<1>2. /\ a \in Seq(Declared) /\ DOMAIN a = 1..n /\ a[n] = e /\ n \in 1..n
      /\ \A i \in 1..n : i # n => i \in DOMAIN list /\ a[i] = list[i]
  <2>1. DOMAIN list = 1..Len(list) /\ Len(list) \in Nat BY LenProperties
  <2>2. /\ a \in Seq(Declared) /\ Len(a) = Len(list) + 1 /\ a[Len(list) + 1] = e
        /\ \A i \in 1..Len(list) : a[i] = list[i]
    BY AppendProperties
  <2>3. DOMAIN a = 1..n BY <1>1, <2>2, LenProperties
  <2> HIDE DEF a
  <2>4. \A i \in 1..n : i # n => i \in 1..Len(list) BY <1>1, <2>1
  <2>5. QED BY <1>1, <2>1, <2>2, <2>3, <2>4
<1> HIDE DEF a
<1>3. \A i \in 1..n : a[i] \in Declared /\ a[i].version \in Nat \X Nat BY <1>2, VersionIs
<1>4. e.version \in Nat \X Nat BY VersionIs
<1> DEFINE P == {i \in 1..n : i = n \/ AtMost(a[i].version, e.version)}
<1>5. PICK k \in Nat : /\ k \in 1..n /\ (k = n \/ AtMost(a[k].version, e.version))
                       /\ \A i \in 1..n : i < k => ~AtMost(a[i].version, e.version)
  <2>1. P \in SUBSET Nat /\ P # {} BY <1>2
  <2>2. PICK k \in P : \A i \in P : k <= i BY <2>1, Least
  <2>3. k \in 1..n /\ k \in Nat /\ (k = n \/ AtMost(a[k].version, e.version)) BY <1>1
  <2>4. ASSUME NEW i \in 1..n, i < k PROVE ~AtMost(a[i].version, e.version)
    <3>1. ~(k <= i) BY <1>1, <2>3, <2>4
    <3>2. i \notin P BY <2>2, <3>1
    <3>3. QED BY <3>2
  <2>5. QED BY <2>3, <2>4
<1> HIDE DEF P
<1>6. n >= k /\ k >= 1 BY <1>1, <1>5
<1>7. ASSUME NEW i \in 1..n, i < k PROVE AtMost(e.version, a[i].version)
  <2>1. ~AtMost(a[i].version, e.version) BY <1>5, <1>7
  <2>2. QED BY <1>3, <1>4, <2>1, VersionsAreOrdered
<1>8. ASSUME NEW i \in 1..n, NEW j \in 1..n, i < j, j < n PROVE AtMost(a[j].version, a[i].version)
  <2>1. i # n /\ j # n BY <1>1, <1>8
  <2>2. i \in DOMAIN list /\ j \in DOMAIN list /\ a[i] = list[i] /\ a[j] = list[j] BY <1>2, <2>1
  <2>3. QED BY <1>8, <2>2 DEF Sorted
<1>9. ASSUME NEW i \in 1..n, k <= i, i < n PROVE AtMost(a[i].version, e.version)
  <2>1. k # n BY <1>1, <1>5, <1>9
  <2>2. AtMost(a[k].version, e.version) BY <1>5, <2>1
  <2>3. CASE i = k BY <2>2, <2>3
  <2>4. CASE k < i
    <3>1. AtMost(a[i].version, a[k].version) BY <1>5, <1>8, <1>9, <2>4
    <3>2. QED BY <1>3, <1>4, <1>5, <2>2, <3>1, VersionsAreOrdered
  <2>5. QED BY <1>5, <1>9, <2>3, <2>4
<1> DEFINE p == [i \in 1..n |-> IF i < k THEN i ELSE IF i = k THEN n ELSE i - 1]
<1>10. \A i \in 1..n : /\ i < k => p[i] = i
                       /\ i = k => p[i] = n
                       /\ k < i => p[i] = i - 1 /\ i - 1 \in 1..n /\ k <= i - 1 /\ i - 1 < n
  <2> TAKE i \in 1..n
  <2>1. i \in Int BY <1>1
  <2>2. i < k => p[i] = i BY <2>1
  <2>3. i = k => p[i] = n BY <1>5
  <2>4. k < i => ~(i < k) /\ i # k /\ i - 1 \in 1..n /\ k <= i - 1 /\ i - 1 < n BY <1>1, <1>5
  <2>5. QED BY <2>2, <2>3, <2>4
<1>11. p = [i \in 1..n |-> p[i]] OBVIOUS
<1> HIDE DEF p
<1>12. \A i \in 1..n : i \in Int /\ (i < k \/ i = k \/ k < i) BY <1>1, <1>5
<1>13. \A i \in 1..n : p[i] \in 1..n BY <1>2, <1>10, <1>12
<1>14. p \in Bijection(1..n, 1..n)
  <2>1. p \in [1..n -> 1..n] BY <1>11, <1>13
  <2>2. ASSUME NEW i \in 1..n, NEW j \in 1..n, i < j PROVE p[i] # p[j]
    <3>1. CASE j < k
      <4>1. i < k BY <1>5, <1>12, <2>2, <3>1
      <4>2. QED BY <1>10, <1>12, <2>2, <3>1, <4>1
    <3>2. CASE j = k
      <4>1. p[j] = n /\ p[i] = i BY <1>10, <2>2, <3>2
      <4>2. i # n BY <1>1, <1>6, <1>12, <2>2, <3>2
      <4>3. QED BY <4>1, <4>2
    <3>3. CASE k < j
      <4>1. p[j] = j - 1 /\ k <= j - 1 /\ j - 1 < n /\ j \in Int BY <1>10, <1>12, <3>3
      <4>2. CASE i < k BY <1>5, <1>10, <1>12, <4>1, <4>2
      <4>3. CASE i = k BY <1>1, <1>10, <4>1, <4>3
      <4>4. CASE k < i BY <1>10, <1>12, <2>2, <4>1, <4>4
      <4>5. QED BY <1>12, <4>2, <4>3, <4>4
    <3>4. QED BY <1>12, <3>1, <3>2, <3>3
  <2>3. ASSUME NEW i \in 1..n, NEW j \in 1..n, p[i] = p[j] PROVE i = j
    <3>1. i < j \/ j < i \/ i = j BY <1>1
    <3>2. QED BY <2>2, <2>3, <3>1
  <2>4. ASSUME NEW w \in 1..n PROVE \E v \in 1..n : p[v] = w
    <3>1. CASE w < k BY <1>10, <3>1
    <3>2. CASE w = n BY <1>5, <1>10, <3>2
    <3>3. CASE k <= w /\ w # n
      <4>1. w + 1 \in 1..n /\ k < w + 1 /\ (w + 1) - 1 = w BY <1>1, <1>5, <3>3
      <4>2. p[w + 1] = w BY <1>10, <4>1
      <4>3. QED BY <4>1, <4>2
    <3>4. QED BY <1>5, <1>12, <3>1, <3>2, <3>3
  <2>5. p \in Injection(1..n, 1..n) BY <2>1, <2>3 DEF Injection, IsInjective
  <2>6. p \in Surjection(1..n, 1..n) BY <2>1, <2>4 DEF Surjection
  <2>7. QED BY <2>5, <2>6 DEF Bijection
<1>15. ASSUME NEW i \in 1..n, NEW j \in 1..n, i < j PROVE AtMost(a[p[j]].version, a[p[i]].version)
  <2>1. CASE j < k
    <3>1. i < k /\ j < n BY <1>1, <1>6, <1>12, <1>15, <2>1
    <3>2. p[i] = i /\ p[j] = j BY <1>10, <2>1, <3>1
    <3>3. QED BY <1>8, <1>15, <3>1, <3>2
  <2>2. CASE j = k
    <3>1. p[i] = i /\ p[j] = n /\ i < k BY <1>10, <1>15, <2>2
    <3>2. QED BY <1>2, <1>7, <3>1
  <2>3. CASE k < j
    <3>1. p[j] = j - 1 /\ j - 1 \in 1..n /\ k <= j - 1 /\ j - 1 < n /\ j \in Int BY <1>10, <1>12, <2>3
    <3>2. CASE i < k
      <4>1. p[i] = i /\ i < j - 1 BY <1>5, <1>10, <1>12, <3>1, <3>2
      <4>2. QED BY <1>8, <3>1, <4>1
    <3>3. CASE i = k
      <4>1. p[i] = n BY <1>10, <3>3
      <4>2. QED BY <1>2, <1>9, <3>1, <4>1
    <3>4. CASE k < i
      <4>1. p[i] = i - 1 /\ i - 1 \in 1..n /\ i - 1 < j - 1 BY <1>10, <1>12, <1>15, <3>1, <3>4
      <4>2. QED BY <1>8, <3>1, <4>1
    <3>5. QED BY <1>12, <3>2, <3>3, <3>4
  <2>4. QED BY <1>12, <2>1, <2>2, <2>3
<1>16. \E q \in Bijection(DOMAIN a, DOMAIN a) :
        \A i, j \in DOMAIN a : i < j => AtMost(a[q[j]].version, a[q[i]].version)
  BY <1>2, <1>14, <1>15
<1>17. QED BY <1>16 DEF a

LEMMA NewestFirstIs ==
  ASSUME NEW list \in Seq(Declared), Sorted(list), NEW e \in Declared
  PROVE  /\ NewestFirst(list, e) \in Seq(Declared) /\ Sorted(NewestFirst(list, e))
         /\ ToSet(NewestFirst(list, e)) = ToSet(list) \cup {e}
<1> DEFINE a == Append(list, e)
           n == Len(a)
           p == NewestOrder(a)
           b == NewestFirst(list, e)
<1>1. /\ a \in Seq(Declared) /\ n = Len(list) + 1 /\ Len(list) \in Nat /\ a[n] = e
      /\ \A i \in 1..Len(list) : a[i] = list[i]
  BY AppendProperties, LenProperties
<1>2. DOMAIN a = 1..n /\ DOMAIN list = 1..Len(list) /\ n \in Nat BY <1>1, LenProperties
<1>3. p \in Bijection(DOMAIN a, DOMAIN a) /\ \A i, j \in DOMAIN a : i < j => AtMost(a[p[j]].version, a[p[i]].version)
  <2>1. \E q \in Bijection(DOMAIN a, DOMAIN a) : \A i, j \in DOMAIN a : i < j => AtMost(a[q[j]].version, a[q[i]].version)
    BY OrderExists
  <2> HIDE DEF a
  <2>2. QED BY <2>1 DEF NewestOrder
<1>4. b = [i \in DOMAIN a |-> a[p[i]]] BY DEF NewestFirst
<1> HIDE DEF a, p, b
<1>5. p \in [1..n -> 1..n] /\ \A w \in 1..n : \E v \in 1..n : p[v] = w BY <1>2, <1>3 DEF Bijection, Surjection
<1>6. \A i \in 1..n : b[i] = a[p[i]] /\ p[i] \in 1..n /\ a[i] \in Declared
  <2>1. \A i \in DOMAIN a : a[i] \in Declared BY <1>1
  <2>2. \A i \in 1..n : p[i] \in 1..n BY <1>5
  <2>3. \A i \in 1..n : b[i] = a[p[i]] BY <1>2, <1>4
  <2>4. QED BY <1>2, <2>1, <2>2, <2>3
<1>7. b \in Seq(Declared) /\ DOMAIN b = 1..n
  <2>1. b = [i \in 1..n |-> b[i]] /\ \A i \in 1..n : b[i] \in Declared BY <1>2, <1>4, <1>6
  <2>2. QED BY <1>2, <2>1, IsASeq
<1>8. Sorted(b) BY <1>2, <1>3, <1>6, <1>7 DEF Sorted
<1>9. ToSet(b) = {b[i] : i \in 1..n} /\ ToSet(a) = {a[i] : i \in 1..n} /\ ToSet(list) = {list[i] : i \in 1..Len(list)}
  BY <1>2, <1>7 DEF ToSet
<1>10. ToSet(b) = ToSet(a)
  <2>1. \A x \in ToSet(b) : x \in ToSet(a) BY <1>6, <1>9
  <2>2. ASSUME NEW w \in 1..n PROVE a[w] \in ToSet(b)
    <3>1. PICK v \in 1..n : p[v] = w BY <1>5
    <3>2. b[v] = a[w] BY <1>6, <3>1
    <3>3. QED BY <1>9, <3>2
  <2>3. \A x \in ToSet(a) : x \in ToSet(b) BY <1>9, <2>2
  <2>4. QED BY <2>1, <2>3
<1>11. ToSet(a) = ToSet(list) \cup {e}
  <2>1. \A i \in 1..n : i \in 1..Len(list) \/ i = n BY <1>1
  <2>2. n \in 1..n /\ \A i \in 1..Len(list) : i \in 1..n BY <1>1
  <2>3. QED BY <1>1, <1>9, <2>1, <2>2
<1>12. QED BY <1>7, <1>8, <1>10, <1>11 DEF b

LEMMA DispatchInitInv == DispatchInit => DispatchInv
<1> SUFFICES ASSUME DispatchInit PROVE DispatchInv OBVIOUS
<1>1. registry = [n \in EndpointNames |-> <<>>] /\ served = Unserved BY DEF DispatchInit
<1>2. <<>> \in Seq(Declared) /\ DOMAIN <<>> = {} BY EmptySeq
<1>3. QED BY <1>1, <1>2 DEF DispatchInv, RegistryOK, Sorted

LEMMA DispatchSteps == ASSUME DispatchInv, [DispatchNext]_dispatchVars PROVE DispatchInv'
<1>1. CASE \E e \in Declared : RegisterEndpoint(e)
  <2>1. PICK e \in Declared : RegisterEndpoint(e) BY <1>1
  <2>2. e.name \in EndpointNames BY DEF EndpointNames
  <2> DEFINE old == registry[e.name]
             new == NewestFirst(old, e)
  <2>3. /\ registry \in [EndpointNames -> Seq(Declared)] /\ Sorted(old)
        /\ \A n \in EndpointNames : Sorted(registry[n]) /\ \A i \in DOMAIN registry[n] : registry[n][i].name = n
    BY <2>2 DEF DispatchInv, RegistryOK
  <2>4. registry' = [registry EXCEPT ![e.name] = new] /\ served' = served BY <2>1 DEF RegisterEndpoint
  <2>5. new \in Seq(Declared) /\ Sorted(new) /\ ToSet(new) = ToSet(old) \cup {e} BY <2>2, <2>3, NewestFirstIs
  <2>6. \A i \in DOMAIN new : new[i].name = e.name
    <3> TAKE i \in DOMAIN new
    <3>1. new[i] \in ToSet(old) \cup {e} BY <2>5 DEF ToSet
    <3>2. \A x \in ToSet(old) : x.name = e.name BY <2>2, <2>3 DEF ToSet
    <3>3. QED BY <3>1, <3>2
  <2> HIDE DEF new
  <2>7. \A n \in EndpointNames : registry'[n] = IF n = e.name THEN new ELSE registry[n] BY <2>2, <2>3, <2>4
  <2>8. RegistryOK'
    <3>1. registry' \in [EndpointNames -> Seq(Declared)] BY <2>2, <2>3, <2>4, <2>5
    <3>2. ASSUME NEW n \in EndpointNames
          PROVE  Sorted(registry'[n]) /\ \A i \in DOMAIN registry'[n] : registry'[n][i].name = n
      <4>1. CASE n = e.name BY <2>5, <2>6, <2>7, <4>1
      <4>2. CASE n # e.name
        <5>1. registry'[n] = registry[n] BY <2>7, <4>2
        <5>2. QED BY <2>3, <5>1
      <4>3. QED BY <4>1, <4>2
    <3>3. QED BY <3>1, <3>2 DEF RegistryOK, Sorted
  <2>9. served' # Unserved => served' \in AskedCalls /\ \A d \in Declared : d \in ToSet(registry'[d.name])
    <3>1. SUFFICES ASSUME served # Unserved, NEW d \in Declared PROVE d \in ToSet(registry'[d.name])
      BY <2>4 DEF Unserved, DispatchInv
    <3>2. d \in ToSet(registry[d.name]) /\ d.name \in EndpointNames BY <3>1 DEF DispatchInv, EndpointNames
    <3>3. QED BY <2>5, <2>7, <3>2
  <2>10. QED BY <2>8, <2>9 DEF DispatchInv, Unserved
<1>2. CASE ServeCall
  <2>1. registry' = registry /\ served' \in AskedCalls /\ \A e \in Declared : e \in ToSet(registry[e.name])
    BY <1>2 DEF ServeCall
  <2>2. QED BY <2>1 DEF DispatchInv, RegistryOK, Sorted
<1>3. CASE UNCHANGED dispatchVars BY <1>3 DEF dispatchVars, DispatchInv, RegistryOK, Sorted, Unserved
<1>4. QED BY <1>1, <1>2, <1>3 DEF DispatchNext

-----------------------------------------------------------------------------
(* The answer to a call.                                                   *)

\* The newest one that fits.
LEMMA FittingIs ==
  ASSUME DispatchInv, NEW c, \A e \in Declared : e \in ToSet(registry[e.name])
  PROVE  /\ Fitting(c) = <<>> <=> Suitable(c) = {}
         /\ Fitting(c) # <<>> =>
              /\ Head(Fitting(c)) \in Suitable(c)
              /\ \A d \in Suitable(c) : AtMost(d.version, Head(Fitting(c)).version)
<1>1. CASE c.name \notin EndpointNames
  <2>1. Fitting(c) = <<>> BY <1>1 DEF Fitting
  <2>2. Suitable(c) = {} BY <1>1 DEF Suitable, EndpointNames
  <2>3. QED BY <2>1, <2>2
<1>2. CASE c.name \in EndpointNames
  <2> DEFINE list == registry[c.name]
             S == {e \in Declared : ~AtMost(e.version, Requested(c))}
  <2>1. list \in Seq(Declared) /\ Sorted(list) /\ \A i \in DOMAIN list : list[i].name = c.name
    BY <1>2 DEF DispatchInv, RegistryOK
  <2>2. Fitting(c) = Excluding(list, S) BY <1>2 DEF Fitting
  <2> HIDE DEF list
  <2>3. DOMAIN list = 1..Len(list) /\ Len(list) \in Nat /\ \A i \in 1..Len(list) : list[i] \in Declared
    BY <2>1, LenProperties
  <2>4. \A i \in 1..Len(list) : list[i] \notin S <=> list[i] \in Suitable(c) BY <2>1, <2>3 DEF Suitable
  <2>5. \A d \in Suitable(c) : \E i \in 1..Len(list) : list[i] = d
    <3> TAKE d \in Suitable(c)
    <3>1. d \in Declared /\ d.name = c.name BY DEF Suitable
    <3>2. d \in ToSet(list) BY <3>1 DEF list
    <3>3. QED BY <2>3, <3>2 DEF ToSet
  <2> HIDE DEF S
  <2>6. /\ (\A i \in 1..Len(list) : list[i] \in S) => Fitting(c) = <<>>
        /\ (\E i \in 1..Len(list) : list[i] \notin S) =>
             /\ Fitting(c) # <<>>
             /\ \E i \in 1..Len(list) : /\ Head(Fitting(c)) = list[i] /\ list[i] \notin S
                                        /\ \A j \in 1..(i - 1) : list[j] \in S
    BY <2>1, <2>2, ExcludingHead
  <2>7. CASE \A i \in 1..Len(list) : list[i] \in S
    <3>1. Suitable(c) = {} BY <2>4, <2>5, <2>7
    <3>2. QED BY <2>6, <2>7, <3>1
  <2>8. CASE \E i \in 1..Len(list) : list[i] \notin S
    <3>1. PICK i \in 1..Len(list) : /\ Head(Fitting(c)) = list[i] /\ list[i] \notin S
                                    /\ \A j \in 1..(i - 1) : list[j] \in S
      BY <2>6, <2>8
    <3>2. list[i] \in Suitable(c) BY <2>4, <3>1
    <3>3. ASSUME NEW d \in Suitable(c) PROVE AtMost(d.version, list[i].version)
      <4>1. PICK j \in 1..Len(list) : list[j] = d BY <2>5
      <4>2. ~(j < i)
        <5>1. list[j] \notin S BY <2>4, <4>1
        <5>2. j < i => j \in 1..(i - 1) BY <2>3
        <5>3. QED BY <3>1, <5>1, <5>2
      <4>3. CASE j = i
        <5>1. d \in Declared BY DEF Suitable
        <5>2. d.version \in Nat \X Nat BY <5>1, VersionIs
        <5>3. AtMost(d.version, d.version) BY <5>2, VersionsAreOrdered
        <5>4. QED BY <4>1, <4>3, <5>3
      <4>4. CASE i < j BY <2>1, <2>3, <4>1, <4>4 DEF Sorted
      <4>5. QED BY <2>3, <4>2, <4>3, <4>4
    <3>4. QED BY <2>6, <2>8, <3>1, <3>2, <3>3
  <2>9. QED BY <2>7, <2>8
<1>3. QED BY <1>1, <1>2

\* What the checks establish of a call that is handled.
LEMMA AdmittedIs ==
  ASSUME NEW e, NEW c, Admitted(e, c).code = 200
  PROVE  LET a == Admitted(e, c)
             who == Authenticated(e, c)
         IN  /\ a.ran = e /\ a.who = Effective(c, who)
             /\ ~LacksAuth(e, c) /\ ~RoleRefused(e, who) /\ ~BothHeaders(c)
             /\ Headers(c) # {} =>
                  who # Nobody /\ ~RoleRefused(e, Effective(c, who)) /\ \A u \in Headers(c) : MayImpersonate(who, u)
             /\ c.readable /\ (e.required => c.complete)
BY DEF Admitted, Refused

LEMMA AdmittedCodes == \A e, c : Admitted(e, c).code # 404
BY DEF Admitted, Refused

\* A call that passes every check is handled.
LEMMA AdmittedIf ==
  ASSUME NEW e, NEW c, c.from \in DOMAIN Stored, c.readable, c.complete, Headers(c) = {},
         {"*", Stored[c.from].role} \cap e.allow # {}
  PROVE  Admitted(e, c).code = 200 /\ Admitted(e, c).ran = e
<1>1. c.act_as = Nobody /\ c.impersonate_as = Nobody BY DEF Headers
<1>2. ~BothHeaders(c) BY <1>1 DEF BothHeaders
<1>3. Stored[c.from] # Nobody /\ c.from # Nobody BY DispatchAssumption
<1>4. ~LacksAuth(e, c) BY <1>3 DEF LacksAuth, Authenticated, Identity
<1>5. ~RoleRefused(e, Authenticated(e, c)) BY <1>3 DEF RoleRefused, Authenticated, Identity
<1>6. ~(~c.readable \/ (e.required /\ ~c.complete)) OBVIOUS
<1>7. \A u \in Headers(c) : MayImpersonate(Authenticated(e, c), u) OBVIOUS
<1>8. Admitted(e, c) = [code |-> 200, ran |-> e, who |-> Effective(c, Authenticated(e, c))]
  BY <1>2, <1>4, <1>5, <1>6, <1>7 DEF Admitted
<1>9. QED BY <1>8

\* Who a call is handled for, when it impersonates somebody.
LEMMA EffectiveIs ==
  ASSUME NEW c, NEW who, Headers(c) # {}, \A u \in Headers(c) : MayImpersonate(who, u)
  PROVE  /\ Effective(c, who) # Nobody
         /\ Effective(c, who).company = who.company \/ who.role = "root"
         /\ c.act_as # Nobody => Effective(c, who).role = who.role
<1>1. \A s \in Identities, r \in Roles :
        LET x == [s EXCEPT !.role = r] IN x \in Identities /\ x.role = r /\ x.company = s.company
  BY DEF Identities
<1>2. Nobody \notin Identities /\ \A u \in DOMAIN Stored : Stored[u] \in Identities BY DispatchAssumption
<1>3. who.role \in Roles
  <2>1. PICK u \in Headers(c) : TRUE OBVIOUS
  <2>2. who.role \in Privileged BY <2>1 DEF MayImpersonate
  <2>3. QED BY <2>2 DEF Privileged, Roles
<1>4. CASE c.act_as # Nobody
  <2>1. MayImpersonate(who, c.act_as) BY <1>4 DEF Headers
  <2>2. c.act_as \in DOMAIN Stored /\ (who.role = "root" \/ Stored[c.act_as].company = who.company)
    BY <2>1 DEF MayImpersonate
  <2>3. Effective(c, who) = [Stored[c.act_as] EXCEPT !.role = who.role] BY <1>4 DEF Effective
  <2>4. Stored[c.act_as] \in Identities BY <1>2, <2>2
  <2>5. /\ Effective(c, who) \in Identities /\ Effective(c, who).role = who.role
        /\ Effective(c, who).company = Stored[c.act_as].company
    BY <1>1, <1>3, <2>3, <2>4
  <2>6. QED BY <1>2, <2>2, <2>5
<1>5. CASE c.act_as = Nobody
  <2>1. c.impersonate_as # Nobody /\ MayImpersonate(who, c.impersonate_as) BY <1>5 DEF Headers
  <2>2. c.impersonate_as \in DOMAIN Stored /\ (who.role = "root" \/ Stored[c.impersonate_as].company = who.company)
    BY <2>1 DEF MayImpersonate
  <2>3. Effective(c, who) = Stored[c.impersonate_as] BY <1>5, <2>1 DEF Effective
  <2>4. QED BY <1>2, <1>5, <2>2, <2>3
<1>6. QED BY <1>4, <1>5

LEMMA RegistryAnswers == ASSUME DispatchInv PROVE CallsReachTheirHandlers
<1> SUFFICES ASSUME served # Unserved PROVE CallsReachTheirHandlers BY DEF CallsReachTheirHandlers
<1> DEFINE c == served
           a == AnswerTo(c)
           h == Head(Fitting(c))
           who == Authenticated(h, c)
<1>1. c.from \in DOMAIN Stored \cup {Nobody} BY DispatchAssumption DEF DispatchInv
<1>2. /\ Fitting(c) = <<>> <=> Suitable(c) = {}
      /\ Fitting(c) # <<>> => h \in Suitable(c) /\ \A d \in Suitable(c) : AtMost(d.version, h.version)
  BY FittingIs DEF DispatchInv
<1>3. /\ Malformed(c) => a.code = 400
      /\ ~Malformed(c) /\ Fitting(c) = <<>> => a.code = 404
      /\ ~Malformed(c) /\ Fitting(c) # <<>> => a = Admitted(h, c)
  BY DEF AnswerTo, Refused
<1> HIDE DEF c, a, h, who
<1>4. ~Malformed(c) => (a.code = 404 <=> Suitable(c) = {}) BY <1>2, <1>3, AdmittedCodes
<1>5. ASSUME a.code = 200
      PROVE  /\ a.ran \in Suitable(c) /\ \A d \in Suitable(c) : AtMost(d.version, a.ran.version)
             /\ a.ran.required => c.complete
             /\ a.ran.authorize = "yes" => a.who # Nobody /\ {"*", a.who.role} \cap a.ran.allow # {}
             /\ a.who # Nobody => c.from # Nobody /\ a.ran.authorize # "no"
             /\ Headers(c) # {} =>
                  /\ a.who.company = Stored[c.from].company \/ Stored[c.from].role = "root"
                  /\ c.act_as # Nobody => a.who.role = Stored[c.from].role
  <2>1. a = Admitted(h, c) /\ Fitting(c) # <<>> BY <1>3, <1>5
  <2>2. /\ a.ran = h /\ a.who = Effective(c, who)
        /\ ~LacksAuth(h, c) /\ ~RoleRefused(h, who)
        /\ Headers(c) # {} =>
             who # Nobody /\ ~RoleRefused(h, Effective(c, who)) /\ \A u \in Headers(c) : MayImpersonate(who, u)
        /\ h.required => c.complete
    BY <1>5, <2>1, AdmittedIs DEF who
  <2>3. Headers(c) = {} => Effective(c, who) = who BY DEF Headers, Effective
  <2>4. who # Nobody => who = Stored[c.from] /\ c.from # Nobody /\ h.authorize # "no"
    BY DEF who, Authenticated, Identity
  <2>5. h.authorize = "yes" => a.who # Nobody /\ {"*", a.who.role} \cap h.allow # {}
    <3>1. SUFFICES ASSUME h.authorize = "yes" PROVE a.who # Nobody /\ {"*", a.who.role} \cap h.allow # {} OBVIOUS
    <3>2. who # Nobody BY <2>2, <3>1 DEF LacksAuth, who
    <3>3. CASE Headers(c) = {} BY <2>2, <2>3, <3>1, <3>2, <3>3 DEF RoleRefused
    <3>4. CASE Headers(c) # {}
      <4>1. a.who # Nobody BY <2>2, <3>4, EffectiveIs
      <4>2. QED BY <2>2, <3>1, <3>4, <4>1 DEF RoleRefused
    <3>5. QED BY <3>3, <3>4
  <2>6. a.who # Nobody => who # Nobody BY <2>2, <2>3
  <2>7. ASSUME Headers(c) # {}
        PROVE  /\ a.who.company = Stored[c.from].company \/ Stored[c.from].role = "root"
               /\ c.act_as # Nobody => a.who.role = Stored[c.from].role
    <3>1. who = Stored[c.from] BY <2>2, <2>4, <2>7
    <3>2. /\ Effective(c, who).company = who.company \/ who.role = "root"
          /\ c.act_as # Nobody => Effective(c, who).role = who.role
      BY <2>2, <2>7, EffectiveIs
    <3>3. QED BY <2>2, <3>1, <3>2
  <2>8. QED BY <1>2, <2>1, <2>2, <2>4, <2>5, <2>6, <2>7
<1>6. ASSUME ~Malformed(c), Headers(c) = {}, c.readable, c.complete, c.from # Nobody, NEW d \in Suitable(c),
             \A e \in Suitable(c) : AtMost(e.version, d.version),
             {"*", Stored[c.from].role} \cap d.allow # {}
      PROVE  a.code = 200 /\ a.ran = d
  <2>1. Fitting(c) # <<>> /\ a = Admitted(h, c) BY <1>2, <1>3, <1>6
  <2>2. h \in Suitable(c) /\ AtMost(d.version, h.version) /\ AtMost(h.version, d.version) BY <1>2, <1>6, <2>1
  <2>3. d \in Declared /\ h \in Declared /\ d.name = h.name BY <2>2 DEF Suitable
  <2>4. d.version = h.version BY <2>2, <2>3, VersionIs, VersionsAreOrdered
  <2>5. d = h BY <2>3, <2>4, DispatchAssumption
  <2>6. c.from \in DOMAIN Stored BY <1>1, <1>6
  <2>7. QED BY <1>6, <2>1, <2>5, <2>6, AdmittedIf
<1>7. QED BY <1>4, <1>5, <1>6 DEF CallsReachTheirHandlers, c, a

\* Whatever endpoints the modules declare, in whatever order they are imported, and whoever
\* calls: the newest version that fits answers, for a caller that may call it.
THEOREM CallsReachHandlers == DispatchSpec => []CallsReachTheirHandlers
<1>1. DispatchInit => DispatchInv BY DispatchInitInv
<1>2. DispatchInv /\ [DispatchNext]_dispatchVars => DispatchInv' BY DispatchSteps
<1>3. DispatchInv => CallsReachTheirHandlers BY RegistryAnswers
<1>4. QED BY <1>1, <1>2, <1>3, PTL DEF DispatchSpec

-----------------------------------------------------------------------------
(* Edits of one task: for any clients, keys and names.  EditInv keeps what a*)
(* handler read next to what it decided from it; after the first update of  *)
(* the list of models failed to find a name, the second one pushes.         *)

EditSpec == EditInit /\ [][EditNext]_editVars

Author == Clients \cup {"creator"}
ParameterValue == [by: Author, legacy: BOOLEAN]
ModelItems == [name: STRING, by: Clients]
EditedTask ==
  [exists: BOOLEAN, status: Statuses, params: UNION {[D -> ParameterValue] : D \in SUBSET Parameters},
   artifacts: UNION {[D -> Clients] : D \in SUBSET Artifacts}, framework: Author, tags: Author,
   models: Seq(ModelItems)]

\* What the handlers remember, and rely on.
EditInv ==
  /\ doc \in EditedTask
  /\ editing \in [Clients -> [pc: {"none", "update", "push"}, asked: AskedEdits \cup {NoWish}, seen: EditedTask \cup {0}]]
  /\ \A e \in Clients :
       LET x == editing[e]
       IN  /\ x.pc # "none" => x.asked \in AskedEdits /\ x.seen \in EditedTask
           /\ x.pc = "update" => x.seen.status \in AllowedStatuses(x.asked)
           /\ x.pc = "push" =>
                x.asked.kind = "model" /\ (doc.exists => ModelsNamed(x.seen.models, x.asked.name) = {})

LEMMA RequestIs ==
  ASSUME NEW r \in AskedEdits
  PROVE  /\ r.kind \in {"parameters", "delete", "legacy", "artifacts", "forget", "framework", "update", "model",
                        "unlist", "old_model"}
         /\ r.kind = "parameters" => r.replace \in {"all", "section", "none"}
         /\ r.kind \in {"parameters", "delete"} => r.keys \subseteq Parameters
         /\ r.kind = "legacy" => r.keys \subseteq Legacy
         /\ r.kind \in {"artifacts", "forget"} => r.keys \subseteq Artifacts
         /\ r.kind \in {"model", "unlist", "old_model"} => r.name \in STRING
<1>1. r \in Requests BY TaskEditsAssumption
<1>2. QED BY <1>1 DEF Requests

-----------------------------------------------------------------------------
(* Updates of parameters and artifacts.                                    *)

LEMMA SettingIs ==
  ASSUME NEW f, NEW keys, NEW value
  PROVE  /\ Setting(f, keys, value) = [k \in DOMAIN f \cup keys |-> IF k \in keys THEN value ELSE f[k]]
         /\ Differing(f, Setting(f, keys, value)) \subseteq keys
BY DEF Setting, Differing

LEMMA DroppingIs ==
  ASSUME NEW f, NEW keys
  PROVE  /\ Dropping(f, keys) = [k \in DOMAIN f \ keys |-> f[k]]
         /\ Differing(f, Dropping(f, keys)) \subseteq keys
<1>1. Dropping(f, keys) = [k \in DOMAIN f \ keys |-> f[k]] BY DEF Dropping, Restrict
<1>2. QED BY <1>1 DEF Differing

LEMMA SameDiffers == \A f : Differing(f, f) = {} BY DEF Differing

\* What an old client leaves.
LEMMA LegacyParamsAre ==
  ASSUME NEW D \in SUBSET Parameters, NEW f \in [D -> ParameterValue], NEW e \in Clients,
         NEW keys \in SUBSET Legacy
  PROVE  /\ LegacyParams(f, e, keys) \in UNION {[E -> ParameterValue] : E \in SUBSET Parameters}
         /\ OldParams(LegacyParams(f, e, keys)) = keys
         /\ \A p \in Parameters \ keys :
              IF p \in DOMAIN f /\ ~f[p].legacy
              THEN p \in DOMAIN LegacyParams(f, e, keys) /\ LegacyParams(f, e, keys)[p] = f[p]
              ELSE p \notin DOMAIN LegacyParams(f, e, keys)
<1> DEFINE old == OldParams(f)
           h == LegacyParams(f, e, keys)
<1>1. old = {p \in D : f[p].legacy} BY DEF OldParams
<1>3. Value(e, TRUE) \in ParameterValue /\ Value(e, TRUE).legacy = TRUE BY DEF Value, ParameterValue, Author
<1> HIDE DEF old
<1> DEFINE value == Value(e, TRUE)
<1>2. h = Setting(Dropping(f, old), keys, value) BY DEF LegacyParams, old
<1> HIDE DEF value, h
<1>10. h = [p \in (DOMAIN f \ old) \cup keys |-> IF p \in keys THEN value ELSE f[p]]
  BY <1>2 DEF Setting, Dropping, Restrict
<1>4. h = [p \in (D \ old) \cup keys |-> IF p \in keys THEN Value(e, TRUE) ELSE f[p]] BY <1>10 DEF value
<1>5. keys \subseteq Parameters BY DEF Parameters
<1>6. h \in UNION {[E -> ParameterValue] : E \in SUBSET Parameters}
  <2>1. h \in [(D \ old) \cup keys -> ParameterValue] BY <1>3, <1>4
  <2>2. QED BY <1>5, <2>1
<1>7. OldParams(h) = keys BY <1>1, <1>3, <1>4 DEF OldParams
<1>8. ASSUME NEW p \in Parameters \ keys
      PROVE  IF p \in DOMAIN f /\ ~f[p].legacy THEN p \in DOMAIN h /\ h[p] = f[p] ELSE p \notin DOMAIN h
  BY <1>1, <1>4
<1>9. QED BY <1>6, <1>7, <1>8 DEF h

-----------------------------------------------------------------------------
(* Updates of the list of models.                                          *)

LEMMA ToSetIs ==
  ASSUME NEW T, NEW s \in Seq(T)
  PROVE  /\ DOMAIN s = 1..Len(s) /\ Len(s) \in Nat /\ ToSet(s) \subseteq T /\ s \in Seq(ToSet(s))
         /\ \A i \in 1..Len(s) : s[i] \in T /\ s[i] \in ToSet(s)
<1>1. DOMAIN s = 1..Len(s) /\ Len(s) \in Nat /\ \A i \in 1..Len(s) : s[i] \in T BY LenProperties
<1>2. ToSet(s) = {s[i] : i \in 1..Len(s)} BY <1>1 DEF ToSet
<1>3. ToSet(s) \subseteq T /\ \A i \in 1..Len(s) : s[i] \in ToSet(s) BY <1>1, <1>2
<1>4. s \in Seq(ToSet(s)) BY <1>1, <1>3, IsASeq
<1>5. QED BY <1>1, <1>3, <1>4

LEMMA OthersAre ==
  ASSUME NEW s \in Seq(ModelItems), NEW name
  PROVE  /\ Others(s, name) \in Seq(ModelItems)
         /\ ModelsNamed(Others(s, name), name) = {}
         /\ ModelsNamed(s, name) = {} => Others(s, name) = s
<1> DEFINE S == {m \in ToSet(s) : m.name = name}
           t == Others(s, name)
<1>1. /\ DOMAIN s = 1..Len(s) /\ ToSet(s) \subseteq ModelItems /\ s \in Seq(ToSet(s))
      /\ \A i \in 1..Len(s) : s[i] \in ToSet(s)
  BY ToSetIs
<1>2. t \in Seq(ToSet(s) \ S) /\ ((\A i \in 1..Len(s) : s[i] \notin S) => t = s)
  BY <1>1, ExcludingIsFrom DEF Others
<1> HIDE DEF t
<1>3. DOMAIN t = 1..Len(t) /\ Len(t) \in Nat /\ \A i \in 1..Len(t) : t[i] \in ToSet(s) \ S BY <1>2, LenProperties
<1>4. t \in Seq(ModelItems)
  <2>1. \A i \in 1..Len(t) : t[i] \in ModelItems BY <1>1, <1>3
  <2>2. QED BY <1>2, <1>3, <2>1, IsASeq
<1>5. ModelsNamed(t, name) = {} BY <1>3 DEF ModelsNamed
<1>6. ASSUME ModelsNamed(s, name) = {} PROVE t = s
  <2>1. \A i \in 1..Len(s) : s[i] \notin S BY <1>1, <1>6 DEF ModelsNamed
  <2>2. QED BY <1>2, <2>1
<1>7. QED BY <1>4, <1>5, <1>6 DEF t

\* Another list with the same models of other names, in their order.
LEMMA OthersAgree ==
  ASSUME NEW s \in Seq(ModelItems), NEW t \in Seq(ModelItems), NEW name, Len(s) <= Len(t),
         \A i \in 1..Len(s) : (s[i].name = name <=> t[i].name = name) /\ (s[i].name # name => t[i] = s[i]),
         \A i \in (Len(s) + 1)..Len(t) : t[i].name = name
  PROVE  Others(t, name) = Others(s, name)
<1> DEFINE S == {m \in ToSet(s) : m.name = name}
           R == {m \in ToSet(t) : m.name = name}
<1>1. Len(s) \in Nat /\ \A i \in 1..Len(s) : s[i] \in ToSet(s) BY ToSetIs
<1>2. Len(t) \in Nat /\ \A i \in 1..Len(t) : t[i] \in ToSet(t) BY ToSetIs
<1>3. \A i \in 1..Len(s) : i \in 1..Len(t) BY <1>1, <1>2
<1>4. \A i \in 1..Len(s) : (s[i] \in S <=> t[i] \in R) /\ (s[i] \notin S => t[i] = s[i]) BY <1>1, <1>2, <1>3
<1>5. \A i \in (Len(s) + 1)..Len(t) : i \in 1..Len(t) BY <1>1, <1>2
<1>6. \A i \in (Len(s) + 1)..Len(t) : t[i] \in R BY <1>2, <1>5
<1> HIDE DEF S, R
<1>7. Excluding(t, R) = Excluding(s, S) BY <1>4, <1>6, ExcludingAgrees
<1>8. QED BY <1>7 DEF Others, S, R

LEMMA SetFirstIs ==
  ASSUME NEW s \in Seq(ModelItems), NEW item \in ModelItems
  PROVE  /\ SetFirst(s, item) \in Seq(ModelItems)
         /\ Others(SetFirst(s, item), item.name) = Others(s, item.name)
         /\ ModelsNamed(SetFirst(s, item), item.name) = ModelsNamed(s, item.name)
         /\ SetFirst(s, item) # s => item \in ToSet(SetFirst(s, item))
         /\ \A name : name # item.name => ModelsNamed(SetFirst(s, item), name) = ModelsNamed(s, name)
<1> DEFINE at == ModelsNamed(s, item.name)
           t == SetFirst(s, item)
<1>1. CASE at = {}
  <2>1. t = s BY <1>1 DEF SetFirst
  <2>2. QED BY <2>1
<1>2. CASE at # {}
  <2>1. DOMAIN s = 1..Len(s) /\ Len(s) \in Nat /\ \A i \in 1..Len(s) : s[i] \in ModelItems BY LenProperties
  <2>2. at \in SUBSET Nat /\ at = {i \in 1..Len(s) : s[i].name = item.name} BY <2>1 DEF ModelsNamed
  <2>3. \E k \in at : \A j \in at : k <= j BY <1>2, <2>2, Least
  <2> DEFINE k == CHOOSE i \in at : \A j \in at : i <= j
  <2>4. k \in at BY <2>3
  <2>5. t = [s EXCEPT ![k] = item] BY <1>2 DEF SetFirst
  <2> HIDE DEF k, t, at
  <2>6. t \in Seq(ModelItems) /\ Len(t) = Len(s) /\ t[k] = item /\ \A i \in 1..Len(s) : i # k => t[i] = s[i]
    BY <2>1, <2>2, <2>4, <2>5, ExceptSeq
  <2>7. k \in 1..Len(s) /\ s[k].name = item.name BY <2>2, <2>4
  <2>8. \A i \in 1..Len(s) : \A name : (s[i].name = name <=> t[i].name = name) /\ (s[i].name # item.name => t[i] = s[i])
    BY <2>6, <2>7
  <2>9. \A i \in (Len(s) + 1)..Len(t) : t[i].name = item.name BY <2>1, <2>6
  <2>10. Others(t, item.name) = Others(s, item.name) BY <2>1, <2>6, <2>8, <2>9, OthersAgree
  <2>11. DOMAIN t = 1..Len(s) BY <2>6, LenProperties
  <2>12. \A name : ModelsNamed(t, name) = ModelsNamed(s, name) BY <2>1, <2>8, <2>11 DEF ModelsNamed
  <2>13. item \in ToSet(t) BY <2>6, <2>7, ToSetIs
  <2>14. QED BY <2>6, <2>10, <2>12, <2>13 DEF t, at
<1>3. QED BY <1>1, <1>2

LEMMA PushedIs ==
  ASSUME NEW s \in Seq(ModelItems), NEW item \in ModelItems
  PROVE  /\ Append(s, item) \in Seq(ModelItems) /\ item \in ToSet(Append(s, item))
         /\ Others(Append(s, item), item.name) = Others(s, item.name)
         /\ ModelsNamed(s, item.name) = {} => ~Twice(Append(s, item), item.name)
<1> DEFINE t == Append(s, item)
<1>1. /\ t \in Seq(ModelItems) /\ Len(t) = Len(s) + 1 /\ Len(s) \in Nat /\ t[Len(t)] = item
      /\ \A i \in 1..Len(s) : t[i] = s[i]
  BY AppendProperties, LenProperties
<1> HIDE DEF t
<1>2. DOMAIN s = 1..Len(s) /\ DOMAIN t = 1..Len(t) BY <1>1, LenProperties
<1>3. Len(t) \in 1..Len(t) /\ \A i \in 1..Len(t) : i \in 1..Len(s) \/ i = Len(t) BY <1>1
<1>4. \A i \in (Len(s) + 1)..Len(t) : t[i].name = item.name BY <1>1
<1>5. Others(t, item.name) = Others(s, item.name) BY <1>1, <1>4, OthersAgree
<1>6. item \in ToSet(t) BY <1>1, <1>3, ToSetIs
<1>7. ModelsNamed(s, item.name) = {} => ~Twice(t, item.name) BY <1>1, <1>2, <1>3 DEF ModelsNamed, Twice
<1>8. QED BY <1>1, <1>5, <1>6, <1>7 DEF t

-----------------------------------------------------------------------------
(* The update of a request.                                                *)

\* What it does to the parameters, the artifacts and the framework.
Effect(d, n, e, r, seen) ==
  LET params  == Differing(d.params, n.params)
      results == Differing(d.artifacts, n.artifacts)
  IN  /\ r.kind \notin {"legacy", "framework"} =>
           /\ params \subseteq EditedParameters(r) /\ d.framework = n.framework
           /\ results \subseteq (IF r.kind \in {"artifacts", "forget"} THEN r.keys ELSE {})
      /\ r.kind = "framework" => params = {}
      /\ r.kind = "legacy" /\ params # {} =>
           /\ OldParams(n.params) = r.keys
           /\ \A p \in Parameters \ r.keys :
                IF p \in DOMAIN seen.params /\ ~seen.params[p].legacy
                THEN p \in DOMAIN n.params /\ n.params[p] = seen.params[p]
                ELSE p \notin DOMAIN n.params

\* What it does to the models.
Models(d, e, r, seen) ==
  CASE r.kind = "model"     -> SetFirst(d.models, Item(e, r))
    [] r.kind = "unlist"    -> Others(d.models, r.name)
    [] r.kind = "old_model" -> OldModel(d.models, e, r, seen.models)
    [] OTHER -> d.models

LEMMA ItemIs ==
  ASSUME NEW e \in Clients, NEW r \in AskedEdits, r.kind \in {"model", "unlist", "old_model"}
  PROVE  Item(e, r) \in ModelItems /\ Item(e, r).name = r.name
<1>1. r.name \in STRING BY RequestIs
<1>2. QED BY <1>1 DEF Item, ModelItems

LEMMA ModelsAre ==
  ASSUME NEW d \in EditedTask, NEW seen \in EditedTask, NEW e \in Clients, NEW r \in AskedEdits
  PROVE  Models(d, e, r, seen) \in Seq(ModelItems)
<1>1. d.models \in Seq(ModelItems) BY DEF EditedTask
<1>2. CASE r.kind = "model"
  <2>1. Models(d, e, r, seen) = SetFirst(d.models, Item(e, r)) BY <1>2 DEF Models
  <2>2. QED BY <1>1, <1>2, <2>1, ItemIs, SetFirstIs
<1>3. CASE r.kind = "unlist"
  <2>1. Models(d, e, r, seen) = Others(d.models, r.name) BY <1>3 DEF Models
  <2>2. QED BY <1>1, <2>1, OthersAre
<1>4. CASE r.kind = "old_model"
  <2>1. Models(d, e, r, seen) = OldModel(d.models, e, r, seen.models) BY <1>4 DEF Models
  <2>2. Item(e, r) \in ModelItems BY <1>4, ItemIs
  <2>3. <<Item(e, r)>> \in Seq(ModelItems) BY <2>2
  <2>4. QED BY <1>1, <2>1, <2>3 DEF OldModel
<1>5. CASE r.kind \notin {"model", "unlist", "old_model"}
  <2>1. Models(d, e, r, seen) = d.models BY <1>5 DEF Models
  <2>2. QED BY <1>1, <2>1
<1>6. QED BY <1>2, <1>3, <1>4, <1>5

LEMMA EditedIs ==
  ASSUME NEW d \in EditedTask, NEW seen \in EditedTask, NEW e \in Clients, NEW r \in AskedEdits
  PROVE  LET n == Edited(d, e, r, seen)
         IN  /\ n \in EditedTask /\ n.exists = d.exists /\ Effect(d, n, e, r, seen)
             /\ n.models = Models(d, e, r, seen)
<1> DEFINE n == Edited(d, e, r, seen)
<1>1. PICK D \in SUBSET Parameters : d.params \in [D -> ParameterValue] BY DEF EditedTask
<1>2. PICK A \in SUBSET Artifacts : d.artifacts \in [A -> Clients] BY DEF EditedTask
<1>3. PICK B \in SUBSET Parameters : seen.params \in [B -> ParameterValue] BY DEF EditedTask
<1>4. Value(e, FALSE) \in ParameterValue BY DEF Value, ParameterValue, Author
<1>5. Differing(d.params, d.params) = {} /\ Differing(d.artifacts, d.artifacts) = {} BY SameDiffers
<1>6. e \in Author BY DEF Author
<1>7. CASE r.kind = "parameters"
  <2>1. n = [d EXCEPT !.params = EditParams(d.params, e, r)] BY <1>7 DEF Edited
  <2>2. r.keys \subseteq Parameters /\ r.replace \in {"all", "section", "none"} BY <1>7, RequestIs
  <2>3. r.keys \subseteq ReplacedParameters(r)
    <3>1. r.keys \subseteq OfSection(r.keys) BY <2>2 DEF OfSection
    <3>2. QED BY <2>2, <3>1 DEF ReplacedParameters
  <2>4. /\ EditParams(d.params, e, r) \in UNION {[E -> ParameterValue] : E \in SUBSET Parameters}
        /\ Differing(d.params, EditParams(d.params, e, r)) \subseteq ReplacedParameters(r) \cup r.keys
    <3> DEFINE drop == ReplacedParameters(r)
               value == Value(e, FALSE)
               f == d.params
               keys == r.keys
               g == EditParams(d.params, e, r)
    <3>0. g = Setting(Dropping(f, drop), keys, value) BY DEF EditParams
    <3> HIDE DEF drop, g, value, f, keys
    <3>5. /\ g = [k \in (DOMAIN f \ drop) \cup keys |-> IF k \in keys THEN value ELSE f[k]]
          /\ Differing(f, g) \subseteq drop \cup keys
      <4>1. g = [k \in (DOMAIN f \ drop) \cup keys |-> IF k \in keys THEN value ELSE f[k]]
        BY <3>0 DEF Setting, Dropping, Restrict
      <4>2. Differing(f, g) \subseteq drop \cup keys BY <4>1 DEF Differing
      <4>3. QED BY <4>1, <4>2
    <3>1. /\ g = [k \in (D \ drop) \cup r.keys |-> IF k \in r.keys THEN Value(e, FALSE) ELSE d.params[k]]
          /\ Differing(d.params, g) \subseteq drop \cup r.keys
      BY <1>1, <3>5 DEF value, f, keys
    <3>2. g \in [(D \ drop) \cup r.keys -> ParameterValue] BY <1>1, <1>4, <3>1
    <3>3. (D \ drop) \cup r.keys \in SUBSET Parameters BY <1>1, <2>2
    <3>4. QED BY <3>1, <3>2, <3>3 DEF drop, g
  <2>5. EditedParameters(r) = ReplacedParameters(r) BY <1>7 DEF EditedParameters
  <2>6. n \in EditedTask /\ n.exists = d.exists BY <2>1, <2>4 DEF EditedTask
  <2>7. n.params = EditParams(d.params, e, r) /\ n.artifacts = d.artifacts /\ n.framework = d.framework /\ n.models = d.models
    BY <2>1 DEF EditedTask
  <2>8. Effect(d, n, e, r, seen) BY <1>5, <1>7, <2>3, <2>4, <2>5, <2>7 DEF Effect
  <2>9. QED BY <1>7, <2>6, <2>7, <2>8 DEF Models
<1>8. CASE r.kind = "delete"
  <2> DEFINE gone == IF r.sections THEN OfSection(r.keys) ELSE r.keys
  <2>1. n = [d EXCEPT !.params = Dropping(d.params, gone)] BY <1>8 DEF Edited, DeleteParams
  <2>2. Dropping(d.params, gone) \in [D \ gone -> ParameterValue] /\ Differing(d.params, Dropping(d.params, gone)) \subseteq gone
    <3> HIDE DEF gone
    <3>1. /\ Dropping(d.params, gone) = [k \in D \ gone |-> d.params[k]]
          /\ Differing(d.params, Dropping(d.params, gone)) \subseteq gone
      BY <1>1, DroppingIs
    <3>2. QED BY <1>1, <3>1
  <2>3. D \ gone \in SUBSET Parameters BY <1>1
  <2>4. EditedParameters(r) = gone BY <1>8 DEF EditedParameters
  <2> HIDE DEF gone
  <2>6. n \in EditedTask /\ n.exists = d.exists BY <2>1, <2>2, <2>3 DEF EditedTask
  <2>7. n.params = Dropping(d.params, gone) /\ n.artifacts = d.artifacts /\ n.framework = d.framework /\ n.models = d.models
    BY <2>1 DEF EditedTask
  <2>8. Effect(d, n, e, r, seen) BY <1>5, <1>8, <2>2, <2>4, <2>7 DEF Effect
  <2>9. QED BY <1>8, <2>6, <2>7, <2>8 DEF Models
<1>9. CASE r.kind \in {"artifacts", "forget"}
  <2> DEFINE next == IF r.kind = "artifacts" THEN Setting(d.artifacts, r.keys, e) ELSE Dropping(d.artifacts, r.keys)
  <2>1. n = [d EXCEPT !.artifacts = next] BY <1>9 DEF Edited
  <2>2. r.keys \subseteq Artifacts BY <1>9, RequestIs
  <2>3. next \in UNION {[E -> Clients] : E \in SUBSET Artifacts} /\ Differing(d.artifacts, next) \subseteq r.keys
    <3>1. /\ Setting(d.artifacts, r.keys, e) \in UNION {[E -> Clients] : E \in SUBSET Artifacts}
          /\ Differing(d.artifacts, Setting(d.artifacts, r.keys, e)) \subseteq r.keys
      <4> DEFINE g == Setting(d.artifacts, r.keys, e)
      <4>0. /\ g = [k \in DOMAIN d.artifacts \cup r.keys |-> IF k \in r.keys THEN e ELSE d.artifacts[k]]
            /\ Differing(d.artifacts, g) \subseteq r.keys
        BY SettingIs, Zenon
      <4> HIDE DEF g
      <4>1. /\ g = [k \in A \cup r.keys |-> IF k \in r.keys THEN e ELSE d.artifacts[k]]
            /\ Differing(d.artifacts, g) \subseteq r.keys
        BY <1>2, <4>0
      <4>2. g \in [A \cup r.keys -> Clients] /\ A \cup r.keys \in SUBSET Artifacts BY <1>2, <2>2, <4>1
      <4>3. QED BY <4>1, <4>2 DEF g
    <3>2. /\ Dropping(d.artifacts, r.keys) \in [A \ r.keys -> Clients] /\ A \ r.keys \in SUBSET Artifacts
          /\ Differing(d.artifacts, Dropping(d.artifacts, r.keys)) \subseteq r.keys
      <4>1. /\ Dropping(d.artifacts, r.keys) = [k \in A \ r.keys |-> d.artifacts[k]]
            /\ Differing(d.artifacts, Dropping(d.artifacts, r.keys)) \subseteq r.keys
        BY <1>2, DroppingIs
      <4>2. QED BY <1>2, <4>1
    <3>3. QED BY <3>1, <3>2
  <2> HIDE DEF next
  <2>6. n \in EditedTask /\ n.exists = d.exists BY <2>1, <2>3 DEF EditedTask
  <2>7. n.params = d.params /\ n.artifacts = next /\ n.framework = d.framework /\ n.models = d.models
    BY <2>1 DEF EditedTask
  <2>8. Effect(d, n, e, r, seen) BY <1>5, <1>9, <2>3, <2>7 DEF Effect
  <2>9. QED BY <1>9, <2>6, <2>7, <2>8 DEF Models
<1>10. CASE r.kind = "update"
  <2>1. n = [d EXCEPT !.tags = e] BY <1>10 DEF Edited
  <2>6. n \in EditedTask /\ n.exists = d.exists BY <1>6, <2>1 DEF EditedTask
  <2>7. n.params = d.params /\ n.artifacts = d.artifacts /\ n.framework = d.framework /\ n.models = d.models
    BY <2>1 DEF EditedTask
  <2>8. Effect(d, n, e, r, seen) BY <1>5, <1>10, <2>7 DEF Effect
  <2>9. QED BY <1>10, <2>6, <2>7, <2>8 DEF Models
<1>11. CASE r.kind \in {"model", "unlist", "old_model"}
  <2>1. n = [d EXCEPT !.models = Models(d, e, r, seen)] BY <1>11 DEF Edited, Models
  <2>2. Models(d, e, r, seen) \in Seq(ModelItems) BY ModelsAre
  <2>6. n \in EditedTask /\ n.exists = d.exists /\ n.models = Models(d, e, r, seen) BY <2>1, <2>2 DEF EditedTask
  <2>7. n.params = d.params /\ n.artifacts = d.artifacts /\ n.framework = d.framework
    BY <2>1 DEF EditedTask
  <2>8. Effect(d, n, e, r, seen) BY <1>5, <1>11, <2>7 DEF Effect
  <2>9. QED BY <2>6, <2>8
<1>12. CASE r.kind = "framework"
  <2>1. n = [d EXCEPT !.framework = e, !.artifacts = seen.artifacts] BY <1>12 DEF Edited
  <2>6. n \in EditedTask /\ n.exists = d.exists BY <1>6, <2>1 DEF EditedTask
  <2>7. n.params = d.params /\ n.models = d.models BY <2>1 DEF EditedTask
  <2>8. Effect(d, n, e, r, seen) BY <1>5, <1>12, <2>7 DEF Effect
  <2>9. QED BY <1>12, <2>6, <2>7, <2>8 DEF Models
<1>13. CASE r.kind = "legacy"
  <2> DEFINE next == IF r.keys = {} /\ OldParams(seen.params) = {} THEN d.params
                     ELSE LegacyParams(seen.params, e, r.keys)
  <2>1. n = [d EXCEPT !.params = next, !.framework = seen.framework, !.artifacts = seen.artifacts]
    <3>1. CASE r.keys = {} /\ OldParams(seen.params) = {}
      <4>1. n = [d EXCEPT !.framework = seen.framework, !.artifacts = seen.artifacts] BY <1>13, <3>1 DEF Edited
      <4>2. QED BY <3>1, <4>1 DEF EditedTask
    <3>2. CASE ~(r.keys = {} /\ OldParams(seen.params) = {}) BY <1>13, <3>2 DEF Edited
    <3>3. QED BY <3>1, <3>2
  <2>2. r.keys \in SUBSET Legacy BY <1>13, RequestIs
  <2>3. /\ LegacyParams(seen.params, e, r.keys) \in UNION {[E -> ParameterValue] : E \in SUBSET Parameters}
        /\ OldParams(LegacyParams(seen.params, e, r.keys)) = r.keys
        /\ \A p \in Parameters \ r.keys :
             IF p \in DOMAIN seen.params /\ ~seen.params[p].legacy
             THEN /\ p \in DOMAIN LegacyParams(seen.params, e, r.keys)
                  /\ LegacyParams(seen.params, e, r.keys)[p] = seen.params[p]
             ELSE p \notin DOMAIN LegacyParams(seen.params, e, r.keys)
    BY <1>3, <2>2, LegacyParamsAre
  <2>4. next \in UNION {[E -> ParameterValue] : E \in SUBSET Parameters} BY <2>3 DEF EditedTask
  <2>5. next = d.params \/ next = LegacyParams(seen.params, e, r.keys) OBVIOUS
  <2> HIDE DEF next
  <2>6. n \in EditedTask /\ n.exists = d.exists BY <2>1, <2>4 DEF EditedTask
  <2>7. n.params = next /\ n.models = d.models BY <2>1 DEF EditedTask
  <2>8. Effect(d, n, e, r, seen)
    <3>1. CASE next = d.params BY <1>5, <1>13, <2>7, <3>1 DEF Effect
    <3>2. CASE next = LegacyParams(seen.params, e, r.keys) BY <1>13, <2>3, <2>7, <3>2 DEF Effect
    <3>3. QED BY <2>5, <3>1, <3>2
  <2>9. QED BY <1>13, <2>6, <2>7, <2>8 DEF Models
<1>14. QED BY <1>7, <1>8, <1>9, <1>10, <1>11, <1>12, <1>13, RequestIs

\* A request that names properties only touches nothing else, unless it replaces all.
LEMMA PropertiesKeptApart ==
  ASSUME NEW r \in AskedEdits, r.kind \in {"parameters", "delete"}, PropertiesOnly(r.keys),
         ~(r.kind = "parameters" /\ r.replace = "all")
  PROVE  EditedParameters(r) \subseteq Properties
<1>1. OfSection(r.keys) \subseteq Properties BY TaskEditsAssumption DEF OfSection, PropertiesOnly, Parameters
<1>2. QED BY <1>1 DEF EditedParameters, ReplacedParameters, PropertiesOnly

\* Who may change other parameters, and artifacts.
LEMMA OnlyWhereAllowed ==
  ASSUME NEW d \in EditedTask, NEW n, NEW seen \in EditedTask, NEW e \in Clients, NEW r \in AskedEdits,
         Effect(d, n, e, r, seen), seen.status \in AllowedStatuses(r),
         Differing(d.params, n.params) \ Properties # {} \/ Differing(d.artifacts, n.artifacts) # {}
  PROVE  \/ seen.status = created \/ (seen.status \in RunningStatuses /\ r.force)
         \/ r.kind \in {"legacy", "framework"} /\ r.force
         \/ r.kind = "parameters" /\ r.replace = "all" /\ PropertiesOnly(r.keys)
<1>1. CASE r.kind \in {"legacy", "framework"} /\ ~r.force BY <1>1 DEF AllowedStatuses
<1>2. CASE r.kind \in {"parameters", "delete"} /\ PropertiesOnly(r.keys)
  <2>1. Differing(d.artifacts, n.artifacts) = {} /\ Differing(d.params, n.params) \subseteq EditedParameters(r)
    BY <1>2 DEF Effect
  <2>2. QED BY <1>2, <2>1, PropertiesKeptApart
<1>3. CASE r.kind \in {"parameters", "delete"} /\ ~PropertiesOnly(r.keys) BY <1>3 DEF AllowedStatuses
<1>4. CASE r.kind \in {"artifacts", "forget"} BY <1>4 DEF AllowedStatuses
<1>5. CASE r.kind \in {"update", "model", "unlist", "old_model"}
  <2>1. EditedParameters(r) = {} BY <1>5 DEF EditedParameters
  <2>2. QED BY <1>5, <2>1 DEF Effect
<1>6. QED BY <1>1, <1>2, <1>3, <1>4, <1>5, RequestIs

-----------------------------------------------------------------------------
(* Steps.                                                                  *)

EditKeeps == \A e \in Clients : ModelsKeepToTheirNames(e) /\ FieldsKeepToTheirKeys(e)

LEMMA EditInitInv == EditInit => EditInv
<1> SUFFICES ASSUME EditInit PROVE EditInv OBVIOUS
<1>1. PICK P \in {{}, Parameters}, old \in BOOLEAN :
        doc = NewTask([p \in P |-> Value("creator", old /\ p \in Legacy)])
  BY DEF EditInit
<1> DEFINE f == [p \in P |-> Value("creator", old /\ p \in Legacy)]
<1>2. f \in UNION {[D -> ParameterValue] : D \in SUBSET Parameters}
  <2>1. \A p \in P : Value("creator", old /\ p \in Legacy) \in ParameterValue
    <3> TAKE p \in P
    <3>1. (old /\ p \in Legacy) \in BOOLEAN OBVIOUS
    <3>2. PICK b : b = (old /\ p \in Legacy) OBVIOUS
    <3>3. Value("creator", b) \in ParameterValue BY <3>1, <3>2 DEF Value, ParameterValue, Author
    <3>4. QED BY <3>2, <3>3
  <2>2. f \in [P -> ParameterValue] BY <2>1
  <2>3. QED BY <1>1, <2>2
<1> HIDE DEF f
<1>3. [a \in {} |-> 0] \in UNION {[D -> Clients] : D \in SUBSET Artifacts}
  <2>1. [a \in {} |-> 0] \in [{} -> Clients] OBVIOUS
  <2>2. QED BY <2>1
<1>4. doc = NewTask(f) BY <1>1 DEF f
<1>5. doc \in EditedTask
  <2>1. created \in Statuses /\ "creator" \in Author /\ <<>> \in Seq(ModelItems) BY DEF created, Statuses, Author
  <2>2. QED BY <1>2, <1>3, <1>4, <2>1 DEF NewTask, EditedTask
<1>6. \A e \in Clients : editing[e] = NotEditing BY DEF EditInit
<1>7. editing \in [Clients -> [pc: {"none", "update", "push"}, asked: AskedEdits \cup {NoWish}, seen: EditedTask \cup {0}]]
  <2>1. NotEditing \in [pc: {"none", "update", "push"}, asked: AskedEdits \cup {NoWish}, seen: EditedTask \cup {0}]
    BY DEF NotEditing
  <2>2. QED BY <2>1 DEF EditInit
<1>8. NotEditing.pc = "none" BY DEF NotEditing
<1>9. QED BY <1>5, <1>6, <1>7, <1>8 DEF EditInv

\* What one handler remembers.
Memory == [pc: {"none", "update", "push"}, asked: AskedEdits \cup {NoWish}, seen: EditedTask \cup {0}]
MemoryOK(x, exists) ==
  /\ x.pc # "none" => x.asked \in AskedEdits /\ x.seen \in EditedTask
  /\ x.pc = "update" => x.seen.status \in AllowedStatuses(x.asked)
  /\ x.pc = "push" => x.asked.kind = "model" /\ (exists => ModelsNamed(x.seen.models, x.asked.name) = {})

LEMMA EditInvIs ==
  EditInv <=> /\ doc \in EditedTask /\ editing \in [Clients -> Memory]
              /\ \A e \in Clients : MemoryOK(editing[e], doc.exists)
BY DEF EditInv, Memory, MemoryOK

\* A step of one client; a task that is gone stays gone.
LEMMA ClientSteps ==
  ASSUME EditInv, NEW e \in Clients, NEW x \in Memory, editing' = [editing EXCEPT ![e] = x],
         doc' \in EditedTask, doc'.exists => doc.exists, MemoryOK(x, doc'.exists)
  PROVE  EditInv'
<1>1. /\ editing \in [Clients -> Memory] /\ \A c \in Clients : MemoryOK(editing[c], doc.exists) BY EditInvIs
<1>2. editing' \in [Clients -> Memory] BY <1>1
<1>3. ASSUME NEW c \in Clients PROVE MemoryOK(editing'[c], doc'.exists)
  <2>1. CASE c = e BY <1>1, <2>1
  <2>2. CASE c # e
    <3>1. editing'[c] = editing[c] BY <1>1, <2>2
    <3>2. QED BY <1>1, <3>1 DEF MemoryOK
  <2>3. QED BY <2>1, <2>2
<1>4. doc' \in EditedTask /\ editing' \in [Clients -> Memory] /\ \A c \in Clients : MemoryOK(editing'[c], doc'.exists)
  BY <1>2, <1>3
<1>5. QED BY <1>4, EditInvIs DEF EditInv, Memory, MemoryOK

LEMMA IdleMemory == NotEditing \in Memory /\ \A b : MemoryOK(NotEditing, b)
BY DEF NotEditing, Memory, MemoryOK

LEMMA AskKeeps ==
  ASSUME EditInv, NEW e \in Clients, NEW r \in AskedEdits, AskEdit(e, r)
  PROVE  EditInv' /\ EditKeeps
<1> DEFINE x == [pc |-> "update", asked |-> r, seen |-> doc]
<1>1. /\ editing' = [editing EXCEPT ![e] = x] /\ doc' = doc /\ doc.status \in AllowedStatuses(r)
      /\ editing[e].pc = "none"
  BY DEF AskEdit
<1>2. doc \in EditedTask /\ editing \in [Clients -> Memory] BY EditInvIs
<1>3. x \in Memory /\ MemoryOK(x, doc'.exists) BY <1>1, <1>2 DEF Memory, MemoryOK
<1> HIDE DEF x
<1>4. EditInv' BY <1>1, <1>2, <1>3, ClientSteps
<1>5. \A c \in Clients : editing[c].pc = "update" => editing'[c] = editing[c] BY <1>1, <1>2
<1>6. QED BY <1>1, <1>4, <1>5 DEF EditKeeps, ModelsKeepToTheirNames, FieldsKeepToTheirKeys

LEMMA WriteKeeps ==
  ASSUME EditInv, NEW e \in Clients, WriteEdit(e)
  PROVE  EditInv' /\ EditKeeps
<1> DEFINE r == editing[e].asked
           seen == editing[e].seen
           x == IF r.kind = "model" /\ (~doc.exists \/ ModelsNamed(doc.models, r.name) = {})
                THEN [editing[e] EXCEPT !.pc = "push", !.seen = doc] ELSE NotEditing
<1>1. /\ editing[e].pc = "update"
      /\ doc' = IF doc.exists THEN Edited(doc, e, r, seen) ELSE doc
      /\ editing' = [editing EXCEPT ![e] = x]
  BY DEF WriteEdit
<1>2. doc \in EditedTask /\ editing \in [Clients -> Memory] /\ MemoryOK(editing[e], doc.exists) BY EditInvIs
<1>3. r \in AskedEdits /\ seen \in EditedTask /\ seen.status \in AllowedStatuses(r) BY <1>1, <1>2 DEF MemoryOK
<1>4. doc.exists => /\ doc' \in EditedTask /\ doc'.exists = doc.exists /\ Effect(doc, doc', e, r, seen)
                    /\ doc'.models = Models(doc, e, r, seen)
  BY <1>1, <1>2, <1>3, EditedIs
<1>5. doc' \in EditedTask /\ doc'.exists = doc.exists BY <1>1, <1>2, <1>4
<1>6. x \in Memory /\ MemoryOK(x, doc'.exists) /\ x.pc # "update"
  <2>1. CASE r.kind = "model" /\ (~doc.exists \/ ModelsNamed(doc.models, r.name) = {})
    <3>1. x = [editing[e] EXCEPT !.pc = "push", !.seen = doc] /\ editing[e] \in Memory BY <1>2, <2>1
    <3>2. x.pc = "push" /\ x.seen = doc /\ x.asked = r /\ x \in Memory BY <1>2, <3>1 DEF Memory
    <3>3. QED BY <1>2, <1>3, <1>5, <2>1, <3>2 DEF MemoryOK
  <2>2. CASE ~(r.kind = "model" /\ (~doc.exists \/ ModelsNamed(doc.models, r.name) = {}))
    <3>1. x = NotEditing BY <2>2
    <3>2. QED BY <3>1, IdleMemory DEF NotEditing
  <2>3. QED BY <2>1, <2>2
<1>7. x.pc # editing[e].pc BY <1>1, <1>6
<1> HIDE DEF x
<1>8. EditInv' BY <1>1, <1>5, <1>6, ClientSteps
<1>9. \A c \in Clients : c # e => editing'[c] = editing[c] BY <1>1, <1>2
<1>10. ModelsKeepToTheirNames(e)
  <2>1. SUFFICES ASSUME doc.models # doc'.models
                 PROVE  CASE r.kind \in {"model", "unlist"} ->
                          /\ Others(doc'.models, r.name) = Others(doc.models, r.name)
                          /\ IF r.kind = "unlist" THEN ModelsNamed(doc'.models, r.name) = {}
                             ELSE Item(e, r) \in ToSet(doc'.models)
                          /\ Twice(doc'.models, r.name) /\ ~Twice(doc.models, r.name) =>
                               ModelsNamed(seen.models, r.name) = {} /\ ModelsNamed(doc.models, r.name) # {}
                     [] r.kind = "old_model" -> doc'.models = <<Item(e, r)>> /\ (r.override \/ seen.models = <<>>)
                     [] OTHER -> FALSE
    BY DEF ModelsKeepToTheirNames
  <2>2. doc.exists /\ doc'.models = Models(doc, e, r, seen) BY <1>1, <1>4, <2>1
  <2>3. doc.models \in Seq(ModelItems) BY <1>2 DEF EditedTask
  <2>4. CASE r.kind = "model"
    <3>1. Item(e, r) \in ModelItems /\ Item(e, r).name = r.name BY <1>3, <2>4, ItemIs
    <3>2. doc'.models = SetFirst(doc.models, Item(e, r)) BY <2>2, <2>4 DEF Models
    <3>3. /\ Others(doc'.models, r.name) = Others(doc.models, r.name)
          /\ ModelsNamed(doc'.models, r.name) = ModelsNamed(doc.models, r.name)
          /\ Item(e, r) \in ToSet(doc'.models)
      BY <2>1, <2>3, <3>1, <3>2, SetFirstIs
    <3>4. Twice(doc'.models, r.name) <=> Twice(doc.models, r.name) BY <3>3 DEF Twice
    <3>5. QED BY <2>4, <3>3, <3>4
  <2>5. CASE r.kind = "unlist"
    <3>1. doc'.models = Others(doc.models, r.name) BY <2>2, <2>5 DEF Models
    <3>2. ModelsNamed(doc'.models, r.name) = {} /\ doc'.models \in Seq(ModelItems) BY <2>3, <3>1, OthersAre
    <3>3. Others(doc'.models, r.name) = doc'.models BY <3>2, OthersAre
    <3>4. ~Twice(doc'.models, r.name) BY <3>2 DEF Twice
    <3>5. QED BY <2>5, <3>1, <3>2, <3>3, <3>4
  <2>6. CASE r.kind = "old_model"
    <3>1. doc'.models = OldModel(doc.models, e, r, seen.models) BY <2>2, <2>6 DEF Models
    <3>2. doc'.models = <<Item(e, r)>> /\ (r.override \/ seen.models = <<>>) BY <2>1, <3>1 DEF OldModel
    <3>3. QED BY <2>6, <3>2
  <2>7. CASE r.kind \notin {"model", "unlist", "old_model"} BY <2>1, <2>2, <2>7 DEF Models
  <2>8. QED BY <2>4, <2>5, <2>6, <2>7
<1>11. \A c \in Clients : ModelsKeepToTheirNames(c) BY <1>9, <1>10 DEF ModelsKeepToTheirNames
<1>12. EditKeeps
  <2>1. SUFFICES ASSUME NEW c \in Clients, editing[c].pc = "update", editing'[c].pc # "update", doc.exists
                 PROVE  FieldsKeepToTheirKeys(c)
    BY <1>11 DEF EditKeeps, FieldsKeepToTheirKeys
  <2>2. c = e BY <1>9, <2>1
  <2>3. Effect(doc, doc', e, r, seen) BY <1>4, <2>1
  <2>4. \/ Differing(doc.params, doc'.params) \ Properties # {}
        \/ Differing(doc.artifacts, doc'.artifacts) # {}
        => \/ seen.status = created \/ (seen.status \in RunningStatuses /\ r.force)
           \/ r.kind \in {"legacy", "framework"} /\ r.force
           \/ r.kind = "parameters" /\ r.replace = "all" /\ PropertiesOnly(r.keys)
    BY <1>2, <1>3, <2>3, OnlyWhereAllowed
  <2>5. FieldsKeepToTheirKeys(e) BY <2>3, <2>4 DEF FieldsKeepToTheirKeys, Effect
  <2>6. QED BY <2>2, <2>5
<1>13. QED BY <1>8, <1>12

LEMMA PushKeeps ==
  ASSUME EditInv, NEW e \in Clients, PushModel(e)
  PROVE  EditInv' /\ EditKeeps
<1> DEFINE r == editing[e].asked
           seen == editing[e].seen
<1>1. /\ editing[e].pc = "push" /\ editing' = [editing EXCEPT ![e] = NotEditing]
      /\ doc' = IF doc.exists THEN [doc EXCEPT !.models = Append(@, Item(e, r))] ELSE doc
  BY DEF PushModel
<1>2. doc \in EditedTask /\ editing \in [Clients -> Memory] /\ MemoryOK(editing[e], doc.exists) BY EditInvIs
<1>3. r \in AskedEdits /\ r.kind = "model" /\ (doc.exists => ModelsNamed(seen.models, r.name) = {}) BY <1>1, <1>2 DEF MemoryOK
<1>4. Item(e, r) \in ModelItems /\ Item(e, r).name = r.name BY <1>3, ItemIs
<1>5. doc.models \in Seq(ModelItems) BY <1>2 DEF EditedTask
<1>6. /\ Append(doc.models, Item(e, r)) \in Seq(ModelItems)
      /\ Item(e, r) \in ToSet(Append(doc.models, Item(e, r)))
      /\ Others(Append(doc.models, Item(e, r)), r.name) = Others(doc.models, r.name)
      /\ ModelsNamed(doc.models, r.name) = {} => ~Twice(Append(doc.models, Item(e, r)), r.name)
  BY <1>4, <1>5, PushedIs
<1>7. doc' \in EditedTask /\ doc'.exists = doc.exists
      /\ (doc.exists => doc'.models = Append(doc.models, Item(e, r)))
  BY <1>1, <1>2, <1>6 DEF EditedTask
<1>8. EditInv' BY <1>1, <1>7, ClientSteps, IdleMemory
<1>9. \A c \in Clients : c # e => editing'[c] = editing[c] BY <1>1, <1>2
<1>10. ModelsKeepToTheirNames(e)
  <2>1. CASE doc.models = doc'.models BY <2>1 DEF ModelsKeepToTheirNames
  <2>2. CASE doc.models # doc'.models
    <3>1. doc.exists BY <1>1, <2>2
    <3>2. /\ Others(doc'.models, r.name) = Others(doc.models, r.name)
          /\ Item(e, r) \in ToSet(doc'.models)
          /\ Twice(doc'.models, r.name) => ModelsNamed(doc.models, r.name) # {}
      BY <1>6, <1>7, <3>1
    <3>3. QED BY <1>3, <3>1, <3>2 DEF ModelsKeepToTheirNames
  <2>3. QED BY <2>1, <2>2
<1>11. \A c \in Clients : ModelsKeepToTheirNames(c) BY <1>9, <1>10 DEF ModelsKeepToTheirNames
<1>12. \A c \in Clients : editing[c].pc = "update" => editing'[c] = editing[c] BY <1>1, <1>9
<1>13. QED BY <1>8, <1>11, <1>12 DEF EditKeeps, FieldsKeepToTheirKeys

\* The status changes, or the task goes.
LEMMA TaskKeeps ==
  ASSUME EditInv, MoveTask \/ RemoveTask \/ UNCHANGED editVars
  PROVE  EditInv' /\ EditKeeps
<1>1. editing' = editing BY DEF MoveTask, RemoveTask, editVars
<1>2. /\ doc \in EditedTask /\ editing \in [Clients -> Memory]
      /\ \A e \in Clients : MemoryOK(editing[e], doc.exists)
  BY EditInvIs
<1>3. doc' \in EditedTask /\ (doc'.exists => doc.exists)
  <2>1. CASE MoveTask
    <3>1. PICK s \in Lives : doc' = [doc EXCEPT !.status = s] BY <2>1 DEF MoveTask
    <3>2. s \in Statuses BY TaskEditsAssumption
    <3>3. QED BY <1>2, <3>1, <3>2 DEF EditedTask
  <2>2. CASE RemoveTask
    <3>1. doc' = [doc EXCEPT !.exists = FALSE] BY <2>2 DEF RemoveTask
    <3>2. QED BY <1>2, <3>1 DEF EditedTask
  <2>3. CASE UNCHANGED editVars BY <1>2, <2>3 DEF editVars
  <2>4. QED BY <2>1, <2>2, <2>3
<1>4. \A e \in Clients : MemoryOK(editing[e], doc'.exists) BY <1>2, <1>3 DEF MemoryOK
<1>5. EditInv' BY <1>1, <1>2, <1>3, <1>4 DEF EditInv, Memory, MemoryOK
<1>6. EditKeeps BY <1>1 DEF EditKeeps, ModelsKeepToTheirNames, FieldsKeepToTheirKeys
<1>7. QED BY <1>5, <1>6

LEMMA EditSteps ==
  ASSUME EditInv, [EditNext]_editVars
  PROVE  EditInv' /\ EditKeeps
<1>1. CASE \E e \in Clients : WriteEdit(e) BY <1>1, WriteKeeps
<1>2. CASE \E e \in Clients : PushModel(e) BY <1>2, PushKeeps
<1>3. CASE \E e \in Clients : \E r \in AskedEdits : AskEdit(e, r) BY <1>3, AskKeeps
<1>4. CASE MoveTask \/ RemoveTask \/ UNCHANGED editVars BY <1>4, TaskKeeps
<1>5. QED BY <1>1, <1>2, <1>3, <1>4 DEF EditNext

LEMMA EditTypesAre == EditInv => EditTypeOK
<1> SUFFICES ASSUME EditInv PROVE EditTypeOK OBVIOUS
<1>1. doc \in EditedTask /\ editing \in [Clients -> Memory] BY EditInvIs
<1>2. PICK D \in SUBSET Parameters : doc.params \in [D -> ParameterValue] BY <1>1 DEF EditedTask
<1>3. PICK A \in SUBSET Artifacts : doc.artifacts \in [A -> Clients] BY <1>1 DEF EditedTask
<1>4. \A p \in DOMAIN doc.params : doc.params[p] \in [by: Clients \cup {"creator"}, legacy: BOOLEAN]
  BY <1>2 DEF ParameterValue, Author
<1>5. QED BY <1>1, <1>2, <1>3, <1>4 DEF EditTypeOK, Memory

\* Type correctness of the task and of what each handler remembers.
THEOREM EditTypeCorrect == EditSpec => []EditTypeOK
<1>1. EditSpec => []EditInv BY EditInitInv, EditSteps, PTL DEF EditSpec
<1>2. QED BY <1>1, EditTypesAre, PTL

\* However many requests about a task there are and however their updates interleave, with
\* each other and with the life of the task: each keeps to what it names.
THEOREM EditsStayApart == EditSpec => EditsKeepToTheirKeys
<1>1. EditSpec => [][EditKeeps]_editVars BY EditInitInv, EditSteps, PTL DEF EditSpec
<1>2. QED BY <1>1 DEF EditsKeepToTheirKeys, EditKeeps

=============================================================================
