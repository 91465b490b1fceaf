----------------------------- MODULE MCServices -----------------------------
(* Instances for TLC of the components that share no state with each other. *)
(* A behaviour is one of a single component, which part names: their product*)
(* would show nothing more.  They come from Redis, Elasticsearch, MongoDB   *)
(* and the storage of files, through handlers that call one component each. *)
EXTENDS UrlDeletion, Watchdog, Serving, TagsCache, EventPages, TaskStatistics, QueryPages,
        PrePopulate, ExportedTree, Startup, ParameterKeys, TaskEdits, ScalarHistogram, Dispatch

CONSTANTS
  file1, file2, lost, \* urls: two of one storage, and one without a configuration
  parent, child,      \* projects
  loss, score, gpu,   \* series of scalars; gpu is a monitored machine, which has no iterations
  red, blue,          \* values of a list field
  artifact            \* id of an artifact

VARIABLES
  part,
  schedules \* how often urls were scheduled

CONSTANT MaxSchedules \* bound: requests that schedule urls; the job cannot settle what never rests

servicesVars == <<part, schedules, urlVars, watchdogVars, servingVars, tagsVars, pagesVars, statsVars, asked, queryVars,
                  populateVars, source, startupVars, named, editVars, histogramVars, dispatchVars>>

MCCovers == [u \in Urls |-> {u}]
MCStorage == [u \in Urls |-> "fileserver"]

MCHome == [e \in Entities |-> child]
MCWithin == [p \in Projects |-> IF p = parent THEN Projects ELSE {p}]

MCSeries == {<<1, 1>>, <<1, 2>>, <<2, 1>>}
MCReports == {{<<1, 1>>}, {<<2, 1>>}, {<<1, 2>>, <<2, 1>>}, MCSeries}

Event(x, iter, value) == [series |-> x, iter |-> iter, value |-> value]
MCBatches == {<<Event(loss, 1, 2), Event(loss, 2, 5)>>, <<Event(loss, 3, 1), Event(score, 3, 4)>>,
              <<Event(score, 1, 6), Event(gpu, 5, 0)>>, <<Event(gpu, 2, 3)>>}

Element(kind, value) == [kind |-> kind, value |-> value]
ListElements ==
  {Element("none", None), Element("reset", "__$nop"), Element("value", red), Element("value", blue),
   Element("minus", red)} \cup {Element("operator", o) : o \in {"__$not", "__$all", "__$any"}}
FilterParts == [include: SUBSET {red, blue, None}, exclude: SUBSET {red, blue, None}]
Dates == {<<x, y>> : x, y \in [modifier: {">=", ">", "<=", "<", ""}, bound: 0..2]}
MCQueries ==
  {[list |-> l] : l \in BoundedSeq(ListElements, 4)}
    \cup {[filter |-> f] : f \in [any: FilterParts, all: FilterParts, op: {"and", "or"}]}
    \cup [list: BoundedSeq(ListElements, 1), range: (0..2) \X (0..2)] \cup [dates: Dates]

Nothing == [range |-> <<Open, Open>>]

\* Outputs has the requests themselves.
Schedule ==
  /\ schedules < MaxSchedules /\ schedules' = schedules + 1
  /\ \E S \in {Urls, {file1}} : ScheduleUrls(S)

\* Databases to export from, and what is asked for.
Sources ==
  [parent: {f \in [Folders -> {0} \cup Folders] : \A p \in Folders : f[p] < p}, home: [Pieces -> {0} \cup Folders],
   projects: SUBSET Folders, tasks: SUBSET Pieces, root: {TRUE}, archived: SUBSET Pieces]
NoSource == [parent |-> [p \in Folders |-> 0], home |-> [t \in Pieces |-> 0], projects |-> {}, tasks |-> {},
             root |-> FALSE, archived |-> {}]

MCVariants == {<<1, 1>>, <<1, 2>>, <<1, 3>>, <<2, 1>>}
MCCases == {{}, {0, 20}, {1, 23}, 1..5} \* iterations that a variant has events of
MCLateReports == {[of |-> <<1, 1>>, iterations |-> {22}], [of |-> <<1, 2>>, iterations |-> {40, 60}]}

\* A section of at most two characters and a parameter of at most three.
Characters == {"%", "_", ".", "2E", "x"}
Names(n) == UNION {[1..k -> Characters] : k \in 1..n}
ParameterNames == Names(2) \X (Names(3) \cup {<<"type">>})

\* Two parameters of the section Args, and one property.
argX == <<"Args", "x">>
argY == <<"Args", "y">>
property == <<"properties", "x">>
MCLegacy == {argX, argY}
MCProperties == {property}
MCEdits ==
  {[kind |-> "parameters", keys |-> k[1], replace |-> k[2], force |-> FALSE] :
     k \in {<<{argY}, "section">>, <<{argX, property}, "none">>, <<{property}, "all">>}}
    \cup {[kind |-> "delete", keys |-> k[1], sections |-> k[2], force |-> k[3]] :
            k \in {<<{argX}, TRUE, FALSE>>, <<{argY, property}, FALSE, TRUE>>}}
    \cup {[kind |-> "legacy", keys |-> k, force |-> FALSE] : k \in {{}, {argX}}}
    \cup {[kind |-> k, keys |-> {artifact}, force |-> TRUE] : k \in {"artifacts", "forget"}}
    \cup {[kind |-> "framework", force |-> TRUE], [kind |-> "update"]}
    \cup {[kind |-> k, name |-> n, force |-> TRUE] : k \in {"model", "unlist"}, n \in {"best"}}
    \cup {[kind |-> "old_model", name |-> "output", override |-> b] : b \in BOOLEAN}

\* One endpoint with three versions, one for administrators, and two that need no user.
Endpoint(name, version, authorize, allow, required) ==
  [name |-> name, version |-> version, authorize |-> authorize, allow |-> allow, required |-> required]
MCDeclared ==
  {Endpoint("tasks.get_all", v, "yes", {"*"}, v # <<1, 0>>) : v \in {<<1, 0>>, <<2, 9>>, <<2, 13>>}}
    \cup {Endpoint("users.delete", <<2, 4>>, "yes", {"admin", "root"}, TRUE),
          Endpoint("server.info", <<1, 0>>, "try", {"*"}, FALSE), Endpoint("login.modes", <<1, 0>>, "no", {"*"}, FALSE)}
MCStored ==
  [u \in {"root", "admin", "user", "guest"} |->
     [role |-> IF u = "guest" THEN "user" ELSE u, company |-> IF u \in {"root", "guest"} THEN "second" ELSE "first"]]
MCBuiltIn == <<2, 35>>
MCCalls ==
  LET callers == DOMAIN MCStored \cup {Nobody}
  IN  [name: {d.name : d \in MCDeclared} \cup {"tasks.unknown"},
       version: {NoVersion, <<1, 0>>, <<2, 4>>, <<2, 10>>, <<2, 13>>, <<3, 0>>}, from: callers,
       act_as: callers, impersonate_as: callers, readable: {TRUE}, complete: BOOLEAN]
    \cup [name: {"users.delete"}, version: {NoVersion}, from: callers, act_as: {Nobody}, impersonate_as: {Nobody},
          readable: {FALSE}, complete: {TRUE}]

Parts ==
  {"urls", "workers", "serving", "tags", "history", "pages", "scroll", "statistics", "requests", "queries",
   "export", "import", "tree", "startup", "keys", "edits", "histogram", "calls"}

ServicesInit ==
  /\ part \in Parts
  /\ schedules = 0 /\ UrlInit /\ WatchdogInit /\ ServingInit /\ TagsInit /\ PagesInit /\ StatsInit
  /\ IF part = "requests" THEN asked \in AskedQueries ELSE asked = Nothing
  /\ IF part = "queries" THEN QueryInit
     ELSE /\ key = [d \in Docs |-> 0] /\ descending = FALSE /\ stored = {}
          /\ scrollState = 0 /\ received = <<>> /\ undisturbed = TRUE
  /\ ExportInit /\ ImportInit
  /\ IF part = "tree" THEN source \in Sources ELSE source = NoSource
  /\ IF part = "startup" THEN StartupInit
     ELSE StartupInit /\ legacy = -1 /\ configured = {}
  /\ IF part = "keys" THEN named \in ParameterNames ELSE named = <<<<"x">>, <<"x">>>>
  /\ HistogramInit(IF part = "histogram" THEN MCCases ELSE {{}}, IF part = "histogram" THEN {1, 3} ELSE {1})
  /\ DispatchInit
  /\ EditInit /\ (part # "edits" => DOMAIN doc.params = {})

\* What a part leaves alone.
Rest(p) ==
  /\ p # "urls" => UNCHANGED <<schedules, urlVars>>
  /\ p # "workers" => UNCHANGED watchdogVars
  /\ p # "serving" => UNCHANGED servingVars
  /\ p # "tags" => UNCHANGED tagsVars
  /\ p \notin {"history", "pages", "scroll"} => UNCHANGED pagesVars
  /\ p = "history" => UNCHANGED <<page, shown, scroll>>
  /\ p # "statistics" => UNCHANGED statsVars
  /\ UNCHANGED asked
  /\ p # "queries" => UNCHANGED queryVars
  /\ p \notin {"export", "import"} => UNCHANGED populateVars
  /\ UNCHANGED source
  /\ p # "startup" => UNCHANGED startupVars
  /\ UNCHANGED named
  /\ p # "edits" => UNCHANGED editVars
  /\ p # "histogram" => UNCHANGED histogramVars
  /\ p # "calls" => UNCHANGED dispatchVars

ServicesNext ==
  /\ UNCHANGED part
  /\ \/ part = "urls" /\ (Schedule \/ (UrlNext /\ UNCHANGED schedules))
     \/ part = "workers" /\ WatchdogNext
     \/ part = "serving" /\ ServingNext
     \/ part = "tags" /\ TagsNext
     \/ part = "history" /\ HistoryNext
     \/ part = "pages" /\ PagesNext
     \/ part = "scroll" /\ ScrollNext
     \/ part = "statistics" /\ StatsNext
     \/ part = "queries" /\ QueryNext
     \/ part = "export" /\ ExportNext
     \/ part = "import" /\ ImportNext
     \/ part = "startup" /\ StartupNext
     \/ part = "edits" /\ EditNext
     \/ part = "histogram" /\ HistogramNext
     \/ part = "calls" /\ DispatchNext
  /\ Rest(part)

ServicesSpec ==
  /\ ServicesInit /\ [][ServicesNext]_servicesVars
  /\ UrlFairness /\ WatchdogFairness /\ TagsFairness

ServicesTypeOK ==
  /\ UrlTypeOK /\ WatchdogTypeOK /\ ServingTypeOK /\ TagsTypeOK /\ HistoryTypeOK /\ PagesTypeOK
  /\ StatsTypeOK /\ QueryTypeOK /\ ExportTypeOK /\ StartupTypeOK /\ EditTypeOK

\* A list that a client asks for, at once or page by page, is what its query means, in the
\* order it asks for.
ListsAreAnswered == SelectedAsDocumented /\ PagesFollowOrder
=============================================================================
