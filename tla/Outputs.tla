------------------------------ MODULE Outputs ------------------------------
(***************************************************************************)
(* What becomes of the models, the children and the files of a task when   *)
(* tasks, models or projects are deleted, reset or published               *)
(* (bll/task/task_cleanup.py, bll/task/task_operations.py,                 *)
(* bll/model/__init__.py, bll/project/project_cleanup.py).                 *)
(*                                                                         *)
(* A request is a sequence of database calls, todo; the server may stop    *)
(* between any two of them.  The last call schedules urls for UrlDeletion, *)
(* whose job runs beside the requests.  Requests are not interleaved with  *)
(* each other: see the README.  A file and its url have one name here.     *)
(***************************************************************************)
EXTENDS UrlDeletion, TaskStatus, Filtering, Sequences, SequencesExt

CONSTANTS
  Tasks, Models,
  NoTask, DeletedTask,  \* no reference; an id with deleted_prefix
  DeletedModel,
  Controllers,          \* tasks of the type controller, whose children are steps
  Uri,                  \* the file of each model
  InProject, Archived,  \* tasks and models of the project, and with the archived tag
  Folder,               \* what schedule_for_delete takes for a url when folders may go
  Starts,               \* the initial tasks and models
  Options,              \* the external artifacts and output models flags clients send
  MaxRequests, MaxStops \* bounds: on requests, on how often the server stops

ASSUME OutputsAssumption ==
  /\ {NoTask, DeletedTask} \cap Tasks = {} /\ NoTask # DeletedTask /\ DeletedModel \notin Models
  /\ Uri \in [Models -> Urls] /\ Folder \in [Urls -> Urls]
  /\ Options \subseteq [external: BOOLEAN, output_models: BOOLEAN]
  /\ MaxRequests \in Nat /\ MaxStops \in Nat

TaskDoc == [exists: BOOLEAN, status: Statuses, parent: Tasks \cup {NoTask, DeletedTask},
            inputs: SUBSET (Models \cup {DeletedModel}), outputs: Seq(Models \cup {DeletedModel}),
            artifacts: SUBSET Urls]
ModelDoc == [exists: BOOLEAN, ready: BOOLEAN, task: Tasks \cup {NoTask, DeletedTask}]

\* The initial documents refer to documents that are there.
ASSUME StartsAssumption ==
  \A s \in Starts :
    /\ s.tasks \in [Tasks -> TaskDoc] /\ s.models \in [Models -> ModelDoc]
    /\ \A t \in Tasks : s.tasks[t].exists =>
         /\ \A m \in s.tasks[t].inputs \cap Models : s.models[m].exists
         /\ s.tasks[t].parent \in Tasks => s.tasks[s.tasks[t].parent].exists
    /\ \A m \in Models : s.models[m].exists /\ s.models[m].task \in Tasks =>
         s.tasks[s.models[m].task].exists

VARIABLES
  tasks,    \* the tasks collection, its fields that refer to others
  models,   \* the models collection
  todo,     \* the remaining calls of the request in progress
  urls,     \* the urls that request has collected
  emptied,  \* history: a deletion of the project with its contents has begun
  asked,    \* how many requests were made
  stops     \* how often the server stopped

dbVars == <<tasks, models, todo, urls, emptied, asked, stops>>
outVars == <<urlVars, dbVars>>

-----------------------------------------------------------------------------
LiveTasks == {t \in Tasks : tasks[t].exists}
LiveModels == {m \in Models : models[m].exists}

\* Updates of many documents.
UpdateTasks(S, Change(_)) == tasks' = [t \in Tasks |-> IF t \in S THEN Change(tasks[t]) ELSE tasks[t]]
UpdateModels(S, Change(_)) ==
  models' = [m \in Models |-> IF m \in S THEN Change(models[m]) ELSE models[m]]

OfTask(t) == {m \in LiveModels : models[m].task = t}
Listed(t) == {m \in LiveModels : m \in ToSet(tasks[t].outputs)}

\* verify_task_children_and_ouptuts: why the task may not be deleted without force ...
HasPublished(t) ==
  \/ \E c \in LiveTasks : tasks[c].parent = t /\ tasks[c].status = published
  \/ \E m \in OfTask(t) \cup Listed(t) : models[m].ready

\* ... and the three sets of models it returns.
PublishedModels(t) == {m \in OfTask(t) \cup Listed(t) : models[m].ready}

\* Mutant of DraftModels: the ready flag is not looked at.
AnyModels(t) == OfTask(t) \cup Listed(t)

DraftModels(t) == {m \in OfTask(t) \cup Listed(t) : ~models[m].ready}

\* Mutant of InUse: only tasks with a single input are looked at.
InUseAlone(t, S) == {m \in S : \E c \in LiveTasks : tasks[c].inputs = {m}}

InUse(t, S) == {m \in S : \E c \in LiveTasks : m \in tasks[c].inputs}

-----------------------------------------------------------------------------
(* Calls.  Every call names what it is about: tasks, or models with the     *)
(* value their task field gets, and the urls that it makes unused.          *)

Call(op, T, M, to) == [op |-> op, tasks |-> T, models |-> M, to |-> to, urls |-> {}]
Releasing(op, T, U) == [op |-> op, tasks |-> T, models |-> {}, to |-> NoTask, urls |-> U]

SetModelTask(M, to) == IF M = {} THEN <<>> ELSE <<Call("set_model_task", {}, M, to)>>
DropModels(M) == IF M = {} THEN <<>> ELSE <<Call("drop_models", {}, M, NoTask)>>
Schedule == <<Call("schedule", {}, {}, NoTask)>>
ScheduleAlso(U) == <<Releasing("schedule_models", {}, U)>>

\* The updates of cleanup_task, in their order.
CleanupCalls(t, children, output_models) ==
  LET drafts == DraftModels(t)
      used == InUse(t, drafts)
      reference == IF children THEN DeletedTask ELSE NoTask
  IN  (IF children THEN <<Call("detach_children", {t}, {}, DeletedTask)>> ELSE <<>>)
      \o (IF output_models THEN DropModels(drafts \ used) \o SetModelTask(used, NoTask)
          ELSE SetModelTask(drafts, reference))
      \o SetModelTask(PublishedModels(t), reference)

\* Mutant of CleanupUrls: also those of models that other tasks use.
CleanupUrlsAll(t) == tasks[t].artifacts \cup {Uri[m] : m \in DraftModels(t)}

\* The urls it returns: those of draft models, whether or not they are deleted.
CleanupUrls(t) ==
  LET drafts == DraftModels(t)
  IN  tasks[t].artifacts \cup {Uri[m] : m \in drafts \ InUse(t, drafts)}

\* One task after another is cleaned up, and then the call ask.last is made for it; what
\* the cleanup of a task is depends on what earlier calls have left.
Cleanup(T, ask) == IF T = {} THEN <<>> ELSE <<[op |-> "cleanup", tasks |-> T, ask |-> ask]>>

-----------------------------------------------------------------------------
(* Requests.                                                               *)

MayAsk == todo = <<>> /\ asked < MaxRequests /\ asked' = asked + 1
Begin(calls) == MayAsk /\ todo' = calls /\ urls' = {} /\ UNCHANGED <<urlVars, stops>>
AtOnce == MayAsk /\ UNCHANGED <<urlVars, todo, urls, emptied, stops>>

\* delete_task and delete_many, which passes over the tasks it may not delete.
DeleteTasks(T, force, steps, o) ==
  /\ T # {}
  /\ \A t \in T : t \in LiveTasks /\ (tasks[t].status = created \/ t \in Archived \/ force)
  /\ Begin(Cleanup(T, [force |-> force, steps |-> steps, collect |-> o.external,
                       output_models |-> o.output_models, last |-> "delete_task"]) \o Schedule)
  /\ UNCHANGED <<tasks, models, emptied>>

\* reset_task and reset_many
ResetTasks(T, force, o) ==
  /\ T # {}
  /\ \A t \in T : t \in LiveTasks /\ (force \/ tasks[t].status # published)
  /\ Begin(Cleanup(T, [force |-> force, steps |-> FALSE, collect |-> o.external,
                       output_models |-> o.output_models,
                       last |-> IF force THEN "to_created_forced" ELSE "to_created"]) \o Schedule)
  /\ UNCHANGED <<tasks, models, emptied>>

\* ModelBLL.delete_model and _delete_model_events.
DeleteModel(m, force, o) ==
  LET using == {t \in LiveTasks : m \in tasks[t].inputs}
      producer == {t \in LiveTasks : t = models[m].task}
      frozen == {t \in producer : tasks[t].status = published}
  IN  /\ m \in LiveModels
      /\ force \/ (using = {} /\ frozen = {})
      /\ Begin((IF using = {} THEN <<>> ELSE <<Call("mark_inputs", using, {m}, NoTask)>>)
               \o <<Call("mark_outputs", frozen, {m}, NoTask),
                    Call("pull_outputs", producer \ frozen, {m}, NoTask)>>
               \o DropModels({m})
               \o (IF o.external THEN ScheduleAlso({Uri[m]}) ELSE <<>>))
      /\ UNCHANGED <<tasks, models, emptied>>

\* delete_project with delete_contents: the models, then the tasks, then the urls.
DeleteProject(force, o) ==
  LET ts == LiveTasks \cap InProject
      ms == LiveModels \cap InProject
      outside == LiveTasks \ InProject
      makers == {t \in outside : \E m \in ms : models[m].task = t}
      frozen == {t \in makers : tasks[t].status = published}
  IN  /\ force \/ ts \cup ms \subseteq Archived
      /\ ~emptied /\ emptied' = TRUE
      /\ Begin((IF ms = {} THEN <<>>
                ELSE <<Call("mark_inputs", outside, ms, NoTask), Call("mark_outputs", frozen, ms, NoTask),
                       Call("pull_outputs", makers \ frozen, ms, NoTask)>>)
               \o DropModels(ms)
               \o (IF ts = {} THEN <<>>
                   ELSE <<Call("detach_children", ts, {}, NoTask),
                          Call("orphan_models", ts, {}, NoTask),
                          Call("delete_task", ts, {}, NoTask)>>)
               \o (IF o.external
                     THEN ScheduleAlso({Folder[u] : u \in {Uri[m] : m \in ms} \cup
                                                           UNION {tasks[t].artifacts : t \in ts}})
                     ELSE <<>>))
      /\ UNCHANGED <<tasks, models>>

\* publish_task: the model first, for which the task is in the status publishing.
PublishCalls(t, with_model) ==
  LET last == IF tasks[t].outputs = <<>> THEN {} ELSE {Last(tasks[t].outputs)} \cap LiveModels
  IN  <<Call("publishing", {t}, {}, NoTask)>>
      \o (IF with_model /\ \E m \in last : ~models[m].ready
            THEN <<Call("set_ready", {}, last, NoTask)>> ELSE <<>>)
      \o <<Call("published", {t}, {}, NoTask)>>

PublishTask(t, force, with_model) ==
  /\ t \in LiveTasks
  /\ force \/ ValidChange(tasks[t].status, published)
  /\ Begin(PublishCalls(t, with_model))
  /\ UNCHANGED <<tasks, models, emptied>>

\* publish_model: its task first, without its models.
PublishModel(m, force, with_task) ==
  LET t == models[m].task
      first == with_task /\ t \in LiveTasks /\ tasks[t].status # published
  IN  /\ m \in LiveModels /\ ~models[m].ready
      /\ first => force \/ ValidChange(tasks[t].status, published)
      /\ Begin((IF first THEN PublishCalls(t, FALSE) ELSE <<>>)
               \o <<Call("set_ready", {}, {m}, NoTask)>>)
      /\ UNCHANGED <<tasks, models, emptied>>

\* add_or_update_model, for a model that exists.
AddModel(t, m, type) ==
  /\ AtOnce
  /\ t \in LiveTasks /\ m \in LiveModels
  /\ tasks' = IF type = "input" THEN [tasks EXCEPT ![t].inputs = @ \cup {m}]
              ELSE [tasks EXCEPT ![t].outputs = IF m \in ToSet(@) THEN @ ELSE Append(@, m)]
  /\ UNCHANGED models

-----------------------------------------------------------------------------
(* The calls of a request.                                                 *)

now == Head(todo)
At(op) == todo # <<>> /\ now.op = op
Continue == /\ todo' = Tail(todo) /\ urls' = urls \cup now.urls
            /\ UNCHANGED <<urlVars, emptied, asked, stops>>

\* The calls for the next task of a batch, of which none are left for one that is gone or
\* may not be deleted.  The steps of a controller go first, by force, and their urls are
\* dropped when the results of the controller replace them.
RunCleanup ==
  /\ At("cleanup")
  /\ \E t \in now.tasks :
       LET ask == now.ask
           single == [ask EXCEPT !.steps = FALSE]
           steps == {c \in LiveTasks : tasks[c].parent = t}
       IN  todo' = (IF t \notin LiveTasks THEN <<>>
                    ELSE IF ask.steps /\ t \in Controllers
                      THEN Cleanup(steps, [single EXCEPT !.force = TRUE, !.collect = FALSE])
                           \o Cleanup({t}, single)
                    ELSE IF ~ask.force /\ HasPublished(t) THEN <<>>
                    ELSE CleanupCalls(t, ask.last = "delete_task", ask.output_models)
                         \o <<Releasing(ask.last, {t}, IF ask.collect THEN CleanupUrls(t) ELSE {})>>)
                   \o Cleanup(now.tasks \ {t}, ask) \o Tail(todo)
  /\ UNCHANGED <<urlVars, tasks, models, urls, emptied, asked, stops>>

\* Children of the task outside the project, when the project goes.
DetachChildren ==
  /\ At("detach_children")
  /\ LET children == {c \in LiveTasks : tasks[c].parent \in now.tasks}
     IN  UpdateTasks(IF now.to = NoTask THEN children \ InProject ELSE children,
                     LAMBDA d : [d EXCEPT !.parent = now.to])
  /\ Continue /\ UNCHANGED models

OrphanModels ==
  /\ At("orphan_models")
  /\ UpdateModels({m \in LiveModels \ InProject : models[m].task \in now.tasks},
                  LAMBDA d : [d EXCEPT !.task = NoTask])
  /\ Continue /\ UNCHANGED tasks

SetModelsTask ==
  /\ At("set_model_task")
  /\ UpdateModels(now.models, LAMBDA d : [d EXCEPT !.task = now.to])
  /\ Continue /\ UNCHANGED tasks

DeleteModels ==
  /\ At("drop_models")
  /\ UpdateModels(now.models, LAMBDA d : [d EXCEPT !.exists = FALSE])
  /\ Continue /\ UNCHANGED tasks

\* Mutant of Marked: None is written into the list.
MarkedNone(s, S) == [i \in DOMAIN s |-> IF s[i] \in S THEN NoTask ELSE s[i]]

Marked(s, S) == [i \in DOMAIN s |-> IF s[i] \in S THEN DeletedModel ELSE s[i]]

MarkedInputs(inputs, S) == IF inputs \cap S = {} THEN inputs ELSE (inputs \ S) \cup {DeletedModel}

MarkInputs ==
  /\ At("mark_inputs")
  /\ UpdateTasks(now.tasks, LAMBDA d : [d EXCEPT !.inputs = MarkedInputs(@, now.models)])
  /\ Continue /\ UNCHANGED models

MarkOutputs ==
  /\ At("mark_outputs")
  /\ UpdateTasks(now.tasks, LAMBDA d : [d EXCEPT !.outputs = Marked(@, now.models)])
  /\ Continue /\ UNCHANGED models

\* $pull
PullOutputs ==
  /\ At("pull_outputs")
  /\ UpdateTasks(now.tasks, LAMBDA d : [d EXCEPT !.outputs = Excluding(@, now.models)])
  /\ Continue /\ UNCHANGED models

\* The document goes, at once or into the trash collection.
DeleteDocuments ==
  /\ At("delete_task")
  /\ UpdateTasks(now.tasks, LAMBDA d : [d EXCEPT !.exists = FALSE])
  /\ Continue /\ UNCHANGED models

\* The status change that ends a reset; refused, it ends the reset of this task.
ToCreated ==
  /\ At("to_created") \/ At("to_created_forced")
  /\ \E t \in now.tasks :
       IF ValidTransition(now.op = "to_created_forced", tasks[t].status, created)
         THEN /\ Continue
              /\ tasks' = [tasks EXCEPT ![t].status = created, ![t].outputs = <<>>,
                                        ![t].artifacts = {}]
         ELSE todo' = Tail(todo) /\ UNCHANGED <<urlVars, tasks, urls, emptied, asked, stops>>
  /\ UNCHANGED models

SetStatus ==
  /\ At("publishing") \/ At("published")
  /\ UpdateTasks(now.tasks, LAMBDA d : [d EXCEPT !.status = now.op])
  /\ Continue /\ UNCHANGED models

SetReady ==
  /\ At("set_ready")
  /\ UpdateModels(now.models, LAMBDA d : [d EXCEPT !.ready = TRUE])
  /\ Continue /\ UNCHANGED tasks

\* schedule_for_delete, for what was collected, for a model or for a project.
ScheduleCollected ==
  /\ At("schedule") \/ At("schedule_models")
  /\ ScheduleUrls(urls \cup now.urls)
  /\ todo' = Tail(todo) /\ urls' = {}
  /\ UNCHANGED <<tasks, models, emptied, asked, stops>>

\* The server stops; what was written stays.
ServerStops ==
  /\ todo # <<>> /\ stops < MaxStops
  /\ stops' = stops + 1 /\ todo' = <<>> /\ urls' = {}
  /\ UNCHANGED <<urlVars, tasks, models, emptied, asked>>

-----------------------------------------------------------------------------
OutInit ==
  /\ UrlInit
  /\ \E s \in Starts : tasks = s.tasks /\ models = s.models
  /\ todo = <<>> /\ urls = {} /\ emptied = FALSE /\ asked = 0 /\ stops = 0

Requests ==
  \/ \E T \in SUBSET Tasks, force \in BOOLEAN, o \in Options :
       (\E steps \in BOOLEAN : DeleteTasks(T, force, steps, o)) \/ ResetTasks(T, force, o)
  \/ \E force \in BOOLEAN, o \in Options :
       DeleteProject(force, o) \/ \E m \in Models : DeleteModel(m, force, o)
  \/ \E force \in BOOLEAN, also \in BOOLEAN :
       \/ \E t \in Tasks : PublishTask(t, force, also)
       \/ \E m \in Models : PublishModel(m, force, also)
  \/ \E t \in Tasks, m \in Models, type \in {"input", "output"} : AddModel(t, m, type)

Calls == \/ RunCleanup \/ DetachChildren \/ OrphanModels \/ SetModelsTask \/ DeleteModels
         \/ MarkInputs \/ MarkOutputs \/ PullOutputs \/ DeleteDocuments \/ ToCreated \/ SetStatus
         \/ SetReady \/ ScheduleCollected \/ ServerStops

OutNext == Requests \/ Calls \/ (UrlNext /\ UNCHANGED dbVars)

OutSpec == OutInit /\ [][OutNext]_outVars

-----------------------------------------------------------------------------
CallNames ==
  {"set_model_task", "drop_models", "schedule", "schedule_models", "detach_children", "orphan_models", "delete_task",
   "to_created", "to_created_forced", "mark_inputs", "mark_outputs", "pull_outputs", "publishing", "published",
   "set_ready"}
CallDoc == [op: CallNames, tasks: SUBSET Tasks, models: SUBSET Models, to: {NoTask, DeletedTask}, urls: SUBSET Urls]
AskDoc == [force: BOOLEAN, steps: BOOLEAN, collect: BOOLEAN, output_models: BOOLEAN,
           last: {"delete_task", "to_created", "to_created_forced"}]
CleanupDoc == [op: {"cleanup"}, tasks: SUBSET Tasks, ask: AskDoc]

OutTypeOK ==
  /\ UrlTypeOK
  /\ tasks \in [Tasks -> TaskDoc] /\ models \in [Models -> ModelDoc]
  /\ todo \in Seq(CallDoc \cup CleanupDoc) /\ urls \subseteq Urls /\ emptied \in BOOLEAN /\ asked \in 0..MaxRequests /\ stops \in 0..MaxStops

\* No file is deleted that a task or a model which is still there names: the urls that
\* requests schedule are those of what they delete, wherever a request stops.
FilesInUseSurvive ==
  /\ \A t \in LiveTasks : tasks[t].artifacts \subseteq files
  /\ \A m \in LiveModels : Uri[m] \in files

\* References lead to a document or say that it was deleted: the updates of children,
\* models and using tasks come before the deletions, also when the server stops halfway.
\* Tasks and models of a project go together with it.
ReferencesResolve ==
  LET spared(S) == {d \in S : emptied => d \notin InProject}
  IN  /\ \A t \in spared(LiveTasks) :
           /\ tasks[t].inputs \subseteq LiveModels \cup {DeletedModel}
           /\ tasks[t].parent \in LiveTasks \cup {NoTask, DeletedTask}
      /\ \A m \in spared(LiveModels) : models[m].task \in LiveTasks \cup {NoTask, DeletedTask}

\* A published model goes only when a request asks for that model or its project: the
\* cleanup of a task, forced or not, keeps it.
PublishedModelsStay ==
  [][\A m \in Models : models[m].ready /\ models[m].exists /\ ~models'[m].exists =>
       Last(todo).op # "schedule"]_outVars
=============================================================================
