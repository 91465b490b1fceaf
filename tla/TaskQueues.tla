----------------------------- MODULE TaskQueues -----------------------------
(***************************************************************************)
(* Tasks and execution queues of the API server.                           *)
(*                                                                         *)
(* The tasks and the queues are MongoDB documents shared by all the        *)
(* gunicorn worker processes.  A request handler is a sequence of database *)
(* calls; each call is atomic on one document and nothing protects the     *)
(* sequence, so two handlers interleave between any two calls.             *)
(*                                                                         *)
(* A process serves one request at a time.  The action that starts a       *)
(* request makes the handler's first read and everything computed from it; *)
(* a request the code rejects there writes nothing and is left out.  What  *)
(* remains is the program call[p].rest: the database calls still to make,  *)
(* one action for each kind of call.                                       *)
(***************************************************************************)
EXTENDS TaskStatus, Integers, Sequences, SequencesExt, FiniteSets

CONSTANTS
  Procs,            \* processes of the API server
  Tasks, Queues,    \* document ids
  NoTask, NoQueue,  \* an id field that is not set
  Ops,              \* the endpoints each process serves
  ForceFlags,       \* the values of "force" that clients send
  InitStatuses,     \* the statuses tasks may have at first
  MaxAdded,         \* bound: stamps 1..MaxAdded tell entries of one task apart; with
                    \* |Queues| + |Procs| - 1 of them a fresh one is always left
  MetricsMayFail    \* may a write of queue metrics to Elasticsearch fail?

\* The endpoints of the tasks and queues services that are modelled.
OpNames == { "enqueue", "enqueue_keep", "dequeue", "dequeue_all", "stop", "change",
             "archive", "unarchive", "delete", "reset", "publish",
             "next", "add", "remove", "remove_update", "move", "reposition",
             "clear", "drop", "drop_forced" }

ASSUME ConstantsAssumption ==
  /\ NoTask \notin Tasks
  /\ NoQueue \notin Queues
  /\ Ops \in [Procs -> SUBSET OpNames]
  /\ ForceFlags \subseteq BOOLEAN
  /\ InitStatuses \subseteq Statuses
  /\ MaxAdded \in Nat
  /\ MetricsMayFail \in BOOLEAN

VARIABLES
  tasks,   \* the task documents
  queues,  \* the queue documents
  call     \* what each process is doing

vars == <<tasks, queues, call>>

-----------------------------------------------------------------------------
(* Documents.                                                              *)

\* A "partial" document is one an upsert brought back after the task was
\* deleted: it has an id and a status, but no company, so that only updates
\* by id alone still find it.
TaskDoc == [ doc: {"present", "partial", "absent"}, status: Statuses,
             queue: Queues \cup {NoQueue},
             enqueue_status: Statuses \cup {NoStatus}, archived: BOOLEAN ]

NewTask(s) == [ doc |-> "present", status |-> s, queue |-> NoQueue,
                enqueue_status |-> NoStatus, archived |-> FALSE ]

DeletedTask == [NewTask(created) EXCEPT !.doc = "absent"]

Entry == [task: Tasks, added: 1..MaxAdded]

QueueDoc == [exists: BOOLEAN, entries: Seq(Entry)]

\* get_task_with_write_access and Task.get find a document by id and company.
Visible(t) == tasks[t].doc = "present"

HasTask(entries, t) == \E i \in DOMAIN entries : entries[i].task = t

EntriesOf(entries, t) == {entries[i] : i \in {j \in DOMAIN entries : entries[j].task = t}}

Holds(q, t) == queues[q].exists /\ HasTask(queues[q].entries, t)

\* Mutant of PullOne: pulls by position.
PullOneAtHead(entries, S) == IF entries = <<>> THEN entries ELSE Tail(entries)

\* $pull of the entries with some task, or of the listed entries.  No queue ever
\* holds two entries of a task (NoDuplicateEntries), so one position is enough.
PullOne(entries, S) ==
  IF \E i \in DOMAIN entries : entries[i] \in S
  THEN RemoveAt(entries, CHOOSE i \in DOMAIN entries : entries[i] \in S)
  ELSE entries

PullTask(entries, t) == PullOne(entries, EntriesOf(entries, t))

\* Mutant of MayPush: relies on the test made on the queue read before.
MayPushUnfiltered(q, t) == queues[q].exists

\* The filter of the update that pushes: id = q and no entry of the task.
MayPush(q, t) == queues[q].exists /\ ~HasTask(queues[q].entries, t)

\* Mutant of Push: the newest entry is served first.
PushAtHead(entries, e) == <<e>> \o entries

Push(entries, e) == Append(entries, e)

\* Mutant of Reposition: puts the entry back without having taken it out.
RepositionCopy(entries, t, move) ==
  entries \o <<entries[CHOOSE i \in DOMAIN entries : entries[i].task = t]>>

\* queues.reposition_task: the aggregation pipeline that takes the entry out and
\* puts it back at a position clamped to the queue.
Moves == {"first", "last", "forward", "backward"}

Reposition(entries, t, move) ==
  LET pos    == CHOOSE i \in DOMAIN entries : entries[i].task = t
      others == RemoveAt(entries, pos)
      wanted == CASE move = "first"    -> 0
                  [] move = "last"     -> Len(others)
                  [] move = "forward"  -> (pos - 1) - 1
                  [] move = "backward" -> (pos - 1) + 1
      new    == IF wanted <= 0 THEN 0
                ELSE IF wanted >= Len(others) THEN Len(others) ELSE wanted
  IN  SubSeq(others, 1, new) \o <<entries[pos]>> \o SubSeq(others, new + 1, Len(others))

-----------------------------------------------------------------------------
(* Requests.                                                               *)

Steps == { "to_queued", "check", "push", "metrics", "set_queue", "revert",
           "pull_others", "find", "pull", "reload", "restore", "change",
           "to_created", "cleanup", "tag", "delete_doc", "pop_read", "pop_fix",
           "detach", "clear", "drop", "reposition",
           "publishing", "publish_model", "published", "rollback" }

\* queue_bll.remove_task and queue_bll.add_task, call by call.
RemoveTask == <<"find", "pull", "reload">>
AddTask    == <<"check", "push", "metrics">>

\* What a handler remembers between two database calls.
Call == [ op: OpNames \cup {"none"},
          rest: Seq(Steps),                    \* calls still to make
          task: Tasks \cup {NoTask},
          from: Queues \cup {NoQueue},          \* queue to remove from
          to: Queues \cup {NoQueue},            \* queue to add to
          expect: Statuses,                    \* task.status as it was read
          new: Statuses,                       \* the status to write
          enqueue_status: Statuses \cup {NoStatus},
          force: BOOLEAN,
          move: Moves,
          found: SUBSET Entry,                 \* entries read from the queue
          todo: SUBSET Queues,                 \* documents a multi-update has yet to visit
          work: SUBSET Tasks ]                 \* tasks still to take out of a queue

Idle == [ op |-> "none", rest |-> <<>>, task |-> NoTask, from |-> NoQueue,
          to |-> NoQueue, expect |-> created, new |-> created,
          enqueue_status |-> NoStatus, force |-> FALSE, move |-> "first",
          found |-> {}, todo |-> {}, work |-> {} ]

TypeOK ==
  /\ tasks \in [Tasks -> TaskDoc]
  /\ queues \in [Queues -> QueueDoc]
  /\ call \in [Procs -> Call]

Init ==
  /\ \E start \in [Tasks -> InitStatuses] : tasks = [t \in Tasks |-> NewTask(start[t])]
  /\ queues = [q \in Queues |-> [exists |-> TRUE, entries |-> <<>>]]
  /\ call = [p \in Procs |-> Idle]

Begin(p, op, c) ==
  /\ call[p].rest = <<>>
  /\ op \in Ops[p]
  /\ c.rest # <<>>
  /\ call' = [call EXCEPT ![p] = c]

At(p, step) == call[p].rest # <<>> /\ Head(call[p].rest) = step

Goto(p, c, rest) ==
  call' = [call EXCEPT ![p] = IF rest = <<>> THEN Idle ELSE [c EXCEPT !.rest = rest]]

Continue(p) == Goto(p, call[p], Tail(call[p].rest))

\* The handler returns, or an exception ends it.
Done(p) == Goto(p, Idle, <<>>)

When(condition, steps) == IF condition THEN steps ELSE <<>>

-----------------------------------------------------------------------------
(* Updates of one task document.                                           *)

\* Mutant of Matches: the update selects by id alone.
MatchesById(t, current) == tasks[t].doc # "absent"

\* ChangeStatusRequest.execute updates the document whose id and whose status,
\* as the handler read it, match: a compare-and-set.
Matches(t, current) == tasks[t].doc # "absent" /\ tasks[t].status = current

Execute(t, current, doc) ==
  tasks' = IF Matches(t, current) THEN [tasks EXCEPT ![t] = doc] ELSE tasks

\* Document.save writes the changed fields of the document with that id and
\* inserts it when it is gone.
Save(t, status) ==
  tasks' = [tasks EXCEPT ![t] =
             IF @.doc = "absent" THEN [NewTask(status) EXCEPT !.doc = "partial"]
             ELSE [@ EXCEPT !.status = status]]

\* An update by id alone.
UpdateById(t, doc) ==
  tasks' = IF tasks[t].doc # "absent" THEN [tasks EXCEPT ![t] = doc] ELSE tasks

-----------------------------------------------------------------------------
(* tasks.enqueue                                                           *)

\* The status to come back to; one already recorded is kept.
BeforeEnqueue(task) ==
  IF task.status = queued /\ task.enqueue_status # NoStatus
  THEN task.enqueue_status ELSE task.status

\* Mutant of EnqueueProgram: the other queues are cleaned first.
EnqueueProgramCleanFirst(op, others) ==
  <<"to_queued">> \o When(others # {}, <<"pull_others">>)
  \o AddTask \o When(op = "enqueue", <<"set_queue">>)

\* The other queues are cleaned last, so that of two requests that both pushed the
\* task, one sees the entry of the other.
EnqueueProgram(op, others) ==
  <<"to_queued">> \o AddTask \o When(op = "enqueue", <<"set_queue">>)
  \o When(others # {}, <<"pull_others">>)

Enqueue(p) ==
  \E t \in Tasks, q \in Queues, force \in ForceFlags, op \in {"enqueue", "enqueue_keep"} :
    LET task == tasks[t] IN
    /\ Visible(t)
    /\ op = "enqueue_keep" => task.status = queued /\ task.queue # NoQueue
    /\ ValidTransition(force, task.status, queued)
    /\ Begin(p, op,
         [Idle EXCEPT !.op = op, !.task = t, !.to = q, !.force = force,
            !.expect = task.status, !.new = queued,
            !.enqueue_status = BeforeEnqueue(task), !.todo = Queues \ {q},
            !.rest = EnqueueProgram(op, Queues \ {q})])
    /\ UNCHANGED <<tasks, queues>>

ToQueued(p) ==
  LET c == call[p] IN
  /\ At(p, "to_queued")
  /\ Execute(c.task, c.expect,
       [tasks[c.task] EXCEPT !.status = queued, !.enqueue_status = c.enqueue_status])
  /\ IF Matches(c.task, c.expect) THEN Continue(p) ELSE Done(p)
  /\ UNCHANGED queues

\* What the callers of queue_bll.add_task do when it raises: enqueue takes the
\* status back, move_task_to_queue returns the task to the queue it came from.
AddFails(p) ==
  LET c == call[p] IN
  CASE c.op \in {"enqueue", "enqueue_keep"} -> Goto(p, c, <<"revert">>)
    [] c.op = "move" /\ c.to # c.from       -> Goto(p, [c EXCEPT !.to = c.from], AddTask)
    [] OTHER                                -> Done(p)

\* get_by_id raises InvalidQueueId; a task already there is refused.
CheckQueue(p) ==
  /\ At(p, "check")
  /\ IF queues[call[p].to].exists /\ ~Holds(call[p].to, call[p].task)
     THEN Continue(p) ELSE AddFails(p)
  /\ UNCHANGED <<tasks, queues>>

\* Stamps of the task's entries that are in a queue or in a handler's memory.
StampsInUse(t) ==
  { n \in 1..MaxAdded :
      \/ \E q \in Queues : [task |-> t, added |-> n] \in EntriesOf(queues[q].entries, t)
      \/ \E p \in Procs : [task |-> t, added |-> n] \in call[p].found }

\* datetime.utcnow(): a stamp no entry of this task has.
NewStamp(t, n) ==
  /\ n \notin StampsInUse(t)
  /\ \A m \in 1..(n - 1) : m \in StampsInUse(t)

PushEntry(p) ==
  LET c == call[p] IN
  /\ At(p, "push")
  /\ IF MayPush(c.to, c.task)
     THEN /\ \E n \in 1..MaxAdded :
               /\ NewStamp(c.task, n)
               /\ queues' = [queues EXCEPT ![c.to].entries =
                               Push(@, [task |-> c.task, added |-> n])]
          /\ Continue(p)
     ELSE UNCHANGED queues /\ AddFails(p)
  /\ UNCHANGED tasks

\* queue.reload and log_queue_metrics_to_es, inside add_task.
LogAdded(p) ==
  /\ At(p, "metrics")
  /\ \/ queues[call[p].to].exists /\ Continue(p)
     \/ ~queues[call[p].to].exists /\ AddFails(p)
     \/ MetricsMayFail /\ AddFails(p)
  /\ UNCHANGED <<tasks, queues>>

\* The handler of the exception: back to the status the handler read, forced.
Revert(p) ==
  LET c == call[p] IN
  /\ At(p, "revert")
  /\ Execute(c.task, queued,
       [tasks[c.task] EXCEPT !.status = c.expect, !.enqueue_status = NoStatus])
  /\ Done(p)
  /\ UNCHANGED queues

SetExecutionQueue(p) ==
  LET c == call[p] IN
  /\ At(p, "set_queue")
  /\ UpdateById(c.task, [tasks[c.task] EXCEPT !.queue = c.to])
  /\ Continue(p)
  /\ UNCHANGED queues

\* remove_task_from_all_queues: one update of many documents, which is atomic on
\* each queue but not across them.
PullFromOthers(p) ==
  LET c == call[p] IN
  /\ At(p, "pull_others")
  /\ \E q \in c.todo :
       /\ queues' = [queues EXCEPT ![q].entries = PullTask(@, c.task)]
       /\ IF c.todo = {q} THEN Continue(p)
          ELSE call' = [call EXCEPT ![p].todo = @ \ {q}]
  /\ UNCHANGED tasks

-----------------------------------------------------------------------------
(* TaskBLL.dequeue and dequeue_and_change_status, which dequeue, archive,  *)
(* delete, stop and reset share.                                           *)

\* Mutant of Dequeue: the entry stays in the queue.
DequeueNothing(task) == <<>>

\* Mutant of Dequeue: the queue of the task may not be set.
DequeueAnyQueue(task) == When(task.status = queued, RemoveTask)

\* Only a task read as queued, and only from the queue it names.
Dequeue(task) == When(task.status = queued /\ task.queue # NoQueue, RemoveTask)

\* Mutant of RestoredStatus: no default for a task without enqueue_status.
RestoredStatusNoDefault(task, asked, aborted) ==
  CASE aborted # NoStatus /\ task.status = in_progress -> aborted
    [] asked # NoStatus                                -> asked
    [] OTHER                                           -> task.enqueue_status

RestoredStatus(task, asked, aborted) ==
  CASE aborted # NoStatus /\ task.status = in_progress -> aborted
    [] asked # NoStatus                                -> asked
    [] task.enqueue_status # NoStatus                  -> task.enqueue_status
    [] OTHER                                           -> created

DequeueAndChangeStatus(task, all) ==
  Dequeue(task) \o When(all, <<"pull_others">>)
  \o When(task.status \in RunningStatuses, <<"restore">>)

\* Callers of remove_task that swallow its APIError; queues.remove_task and
\* queues.move_task_to_queue return it to the client.
SwallowsApiError == {"dequeue", "dequeue_all", "archive", "delete", "stop", "reset"}

\* get_queue_with_task
FindEntry(p) ==
  LET c == call[p] IN
  /\ At(p, "find")
  /\ \/ /\ Holds(c.from, c.task)
        /\ Goto(p, [c EXCEPT !.found = EntriesOf(queues[c.from].entries, c.task)],
                Tail(c.rest))
     \/ /\ ~Holds(c.from, c.task)
        /\ IF c.op \in SwallowsApiError
           THEN Goto(p, c, SubSeq(c.rest, Len(RemoveTask) + 1, Len(c.rest)))
           ELSE Done(p)
  /\ UNCHANGED <<tasks, queues>>

\* Removes the very entries that were read.  The count of matched documents tells
\* queues.remove_task whether to touch the task, and a move whether to go on.
PullEntry(p) ==
  LET c   == call[p]
      hit == Holds(c.from, c.task)
  IN
  /\ At(p, "pull")
  /\ queues' = IF hit THEN [queues EXCEPT ![c.from].entries = PullOne(@, c.found)]
               ELSE queues
  /\ Goto(p, [c EXCEPT !.found = {},
                       !.task = IF c.op = "remove_update" THEN NoTask ELSE @],
          IF ~hit /\ c.op \in {"move", "remove_update"} THEN <<"reload">>
          ELSE Tail(c.rest))
  /\ UNCHANGED tasks

\* queue.reload and log_queue_metrics_to_es, inside remove_task: neither a
\* deleted queue nor Elasticsearch raises an APIError, so the handler ends.
LogRemoved(p) ==
  /\ At(p, "reload")
  /\ \/ queues[call[p].from].exists /\ Continue(p)
     \/ (~queues[call[p].from].exists \/ MetricsMayFail) /\ Done(p)
  /\ UNCHANGED <<tasks, queues>>

\* The forced change of dequeue_and_change_status.  archive and delete go on
\* when it fails.
RestoreStatus(p) ==
  LET c == call[p] IN
  /\ At(p, "restore")
  /\ Execute(c.task, c.expect,
       [tasks[c.task] EXCEPT !.status = c.new, !.enqueue_status = NoStatus])
  /\ IF Matches(c.task, c.expect) \/ c.op \in {"archive", "delete"}
     THEN Continue(p) ELSE Done(p)
  /\ UNCHANGED queues

-----------------------------------------------------------------------------
(* tasks.dequeue, tasks.stop and the endpoints that set a status.          *)

\* A sample of the new_status a client may pass to dequeue.
AskedStatuses == {NoStatus, failed}

DequeueTask(p) ==
  \E t \in Tasks, op \in {"dequeue", "dequeue_all"}, asked \in AskedStatuses :
    LET task == tasks[t]
        base == [Idle EXCEPT !.op = op, !.task = t, !.todo = Queues]
    IN
    /\ \/ /\ task.doc = "absent"
          /\ Begin(p, op, [base EXCEPT !.rest = <<"pull_others">>])
       \/ /\ Visible(t)
          /\ Begin(p, op,
               [base EXCEPT !.from = task.queue, !.expect = task.status,
                  !.new = RestoredStatus(task, asked, NoStatus), !.force = TRUE,
                  !.rest = DequeueAndChangeStatus(task, op = "dequeue_all")])
    /\ UNCHANGED <<tasks, queues>>

\* The branch that stops the task at once.  The other one, for a task a worker
\* runs, rewrites the status it read and leaves a message for the worker.
StopTask(p) ==
  \E t \in Tasks, force \in ForceFlags :
    LET task == tasks[t] IN
    /\ Visible(t)
    /\ ValidTransition(force, task.status, stopped)
    /\ Begin(p, "stop",
         [Idle EXCEPT !.op = "stop", !.task = t, !.from = task.queue,
            !.expect = task.status, !.new = stopped, !.force = force,
            !.rest = Dequeue(task) \o <<"change">>])
    /\ UNCHANGED <<tasks, queues>>

\* started, stopped, failed, close, completed (set_task_status_from_call)
SetStatusFromCall(p) ==
  \E t \in Tasks, force \in ForceFlags,
     new \in {in_progress, stopped, failed, closed, completed} :
    /\ Visible(t)
    /\ ValidTransition(force, tasks[t].status, new)
    /\ Begin(p, "change",
         [Idle EXCEPT !.op = "change", !.task = t, !.force = force,
            !.expect = tasks[t].status, !.new = new, !.rest = <<"change">>])
    /\ UNCHANGED <<tasks, queues>>

ChangeStatus(p) ==
  LET c == call[p] IN
  /\ At(p, "change")
  /\ Execute(c.task, c.expect, [tasks[c.task] EXCEPT !.status = c.new])
  /\ Done(p)
  /\ UNCHANGED queues

-----------------------------------------------------------------------------
(* tasks.archive, unarchive, delete and reset.                             *)

ArchiveTask(p) ==
  \E t \in Tasks :
    LET task == tasks[t] IN
    /\ Visible(t)
    /\ Begin(p, "archive",
         [Idle EXCEPT !.op = "archive", !.task = t, !.from = task.queue,
            !.expect = task.status, !.new = RestoredStatus(task, NoStatus, stopped),
            !.force = TRUE, !.todo = Queues,
            !.rest = DequeueAndChangeStatus(task, TRUE) \o <<"tag">>])
    /\ UNCHANGED <<tasks, queues>>

UnarchiveTask(p) ==
  \E t \in Tasks :
    /\ Visible(t)
    /\ Begin(p, "unarchive",
         [Idle EXCEPT !.op = "unarchive", !.task = t, !.rest = <<"tag">>])
    /\ UNCHANGED <<tasks, queues>>

TagTask(p) ==
  LET c == call[p] IN
  /\ At(p, "tag")
  /\ UpdateById(c.task, [tasks[c.task] EXCEPT !.archived = (c.op = "archive")])
  /\ Continue(p)
  /\ UNCHANGED queues

DeleteTask(p) ==
  \E t \in Tasks, force \in ForceFlags :
    LET task == tasks[t] IN
    /\ Visible(t)
    /\ task.status = created \/ task.archived \/ force
    /\ Begin(p, "delete",
         [Idle EXCEPT !.op = "delete", !.task = t, !.from = task.queue,
            !.expect = task.status, !.new = RestoredStatus(task, NoStatus, NoStatus),
            !.force = force, !.todo = Queues,
            !.rest = DequeueAndChangeStatus(task, TRUE) \o <<"cleanup", "delete_doc">>])
    /\ UNCHANGED <<tasks, queues>>

\* cleanup_task touches other documents; unless forced it raises
\* TaskCannotBeDeleted when the task has published output or children.
CleanupTask(p) ==
  /\ At(p, "cleanup")
  /\ \/ Continue(p)
     \/ ~call[p].force /\ Done(p)
  /\ UNCHANGED <<tasks, queues>>

DeleteDocument(p) ==
  /\ At(p, "delete_doc")
  /\ tasks' = [tasks EXCEPT ![call[p].task] = DeletedTask]
  /\ Continue(p)
  /\ UNCHANGED queues

\* The transition to created is validated last, when the task has already left
\* the queues and its output is gone.
ResetTask(p) ==
  \E t \in Tasks, force \in ForceFlags :
    LET task == tasks[t] IN
    /\ Visible(t)
    /\ force \/ task.status # published
    /\ Begin(p, "reset",
         [Idle EXCEPT !.op = "reset", !.task = t, !.from = task.queue,
            !.expect = task.status, !.new = created, !.force = force, !.todo = Queues,
            !.rest = Dequeue(task) \o <<"pull_others", "cleanup">>
                     \o When(ValidTransition(force, task.status, created),
                             <<"to_created">>)])
    /\ UNCHANGED <<tasks, queues>>

ToCreated(p) ==
  LET c == call[p] IN
  /\ At(p, "to_created")
  /\ Execute(c.task, c.expect,
       [tasks[c.task] EXCEPT !.status = created, !.enqueue_status = NoStatus,
                             !.queue = NoQueue])
  /\ Done(p)
  /\ UNCHANGED queues

-----------------------------------------------------------------------------
(* tasks.publish                                                           *)

PublishTask(p) ==
  \E t \in Tasks, force \in ForceFlags :
    LET task == tasks[t] IN
    /\ Visible(t)
    /\ force \/ ValidChange(task.status, published)
    /\ Begin(p, "publish",
         [Idle EXCEPT !.op = "publish", !.task = t, !.force = force,
            !.expect = task.status, !.new = published,
            !.rest = When(task.status # publishing, <<"publishing">>)
                     \o <<"publish_model", "published">>])
    /\ UNCHANGED <<tasks, queues>>

SetPublishing(p) ==
  /\ At(p, "publishing")
  /\ Save(call[p].task, publishing)
  /\ Continue(p)
  /\ UNCHANGED queues

\* The finally clause; assigning the same value again leaves nothing to save.
PublishFails(p) ==
  IF call[p].expect = publishing THEN Done(p) ELSE Goto(p, call[p], <<"rollback">>)

\* publish_model_func may raise.
PublishModel(p) ==
  /\ At(p, "publish_model")
  /\ Continue(p) \/ PublishFails(p)
  /\ UNCHANGED <<tasks, queues>>

SetPublished(p) ==
  LET c == call[p] IN
  /\ At(p, "published")
  /\ Execute(c.task, publishing, [tasks[c.task] EXCEPT !.status = published])
  /\ IF Matches(c.task, publishing) THEN Done(p) ELSE PublishFails(p)
  /\ UNCHANGED queues

RollbackPublish(p) ==
  /\ At(p, "rollback")
  /\ Save(call[p].task, call[p].expect)
  /\ Done(p)
  /\ UNCHANGED queues

-----------------------------------------------------------------------------
(* The queues service.                                                     *)

\* queues.get_next_task: the pop is one atomic find-and-modify.
GetNextTask(p) ==
  \E q \in Queues :
    LET entries == queues[q].entries IN
    /\ entries # <<>>
    /\ Begin(p, "next",
         [Idle EXCEPT !.op = "next", !.task = Head(entries).task,
                      !.rest = <<"pop_read">>])
    /\ queues' = [queues EXCEPT ![q].entries = Tail(@)]
    /\ UNCHANGED tasks

\* Metrics first: when they fail the entry is gone and the agent never sees it.
ReadPopped(p) ==
  LET task == tasks[call[p].task] IN
  /\ At(p, "pop_read")
  /\ \/ MetricsMayFail /\ Done(p)
     \/ /\ task.doc # "absent" /\ task.status = stopped
        /\ Goto(p, call[p], <<"pop_fix">>)
     \/ ~(task.doc # "absent" /\ task.status = stopped) /\ Done(p)
  /\ UNCHANGED <<tasks, queues>>

\* "fix racing condition that can result in the task being aborted by an agent
\* after it was already placed in a queue": a write by id, not a compare-and-set.
FixPopped(p) ==
  LET t == call[p].task IN
  /\ At(p, "pop_fix")
  /\ UpdateById(t, [tasks[t] EXCEPT !.status = queued])
  /\ Done(p)
  /\ UNCHANGED queues

\* queues.add_task takes any id and does not look at the task's status.
AddTaskToQueue(p) ==
  \E t \in Tasks, q \in Queues, update_execution_queue \in BOOLEAN :
    /\ Begin(p, "add",
         [Idle EXCEPT !.op = "add", !.task = t, !.to = q,
            !.rest = AddTask \o When(update_execution_queue, <<"set_queue">>)])
    /\ UNCHANGED <<tasks, queues>>

RemoveTaskFromQueue(p) ==
  \E t \in Tasks, q \in Queues, op \in {"remove", "remove_update"} :
    /\ Holds(q, t)
    /\ Begin(p, op,
         [Idle EXCEPT !.op = op, !.task = t, !.from = q,
            !.found = EntriesOf(queues[q].entries, t), !.work = {t},
            !.rest = <<"pull">> \o When(op = "remove_update", <<"detach">>)
                     \o <<"reload">>])
    /\ UNCHANGED <<tasks, queues>>

\* With target = q the task just rejoins at the end of its queue; left out.
MoveTaskToQueue(p) ==
  \E t \in Tasks, q \in Queues, target \in Queues, update_execution_queue \in BOOLEAN :
    /\ target # q
    /\ Holds(q, t)
    /\ Begin(p, "move",
         [Idle EXCEPT !.op = "move", !.task = t, !.from = q, !.to = target,
            !.found = EntriesOf(queues[q].entries, t),
            !.rest = <<"pull", "reload">> \o AddTask
                     \o When(update_execution_queue, <<"set_queue">>)])
    /\ UNCHANGED <<tasks, queues>>

\* A move that would leave the task where it was read to be returns at once.
RepositionTask(p) ==
  \E t \in Tasks, q \in Queues, move \in Moves :
    /\ Holds(q, t)
    /\ move = "first" => queues[q].entries[1].task # t
    /\ move = "last"  => Last(queues[q].entries).task # t
    /\ Begin(p, "reposition",
         [Idle EXCEPT !.op = "reposition", !.task = t, !.from = q, !.move = move,
                      !.rest = <<"reposition">>])
    /\ UNCHANGED <<tasks, queues>>

MoveEntry(p) ==
  LET c == call[p] IN
  /\ At(p, "reposition")
  /\ queues' = IF Holds(c.from, c.task)
               THEN [queues EXCEPT ![c.from].entries = Reposition(@, c.task, c.move)]
               ELSE queues
  /\ Done(p)
  /\ UNCHANGED tasks

\* queues.clear_queue and queues.delete: what is done rests on the entries read
\* here, and the last step does not look at them again.
ClearQueue(p) ==
  \E q \in Queues :
    /\ queues[q].entries # <<>>
    /\ Begin(p, "clear",
         [Idle EXCEPT !.op = "clear", !.from = q, !.found = ToSet(queues[q].entries),
            !.work = {e.task : e \in ToSet(queues[q].entries)},
            !.rest = <<"detach", "clear">>])
    /\ UNCHANGED <<tasks, queues>>

DeleteQueue(p) ==
  \E q \in Queues, op \in {"drop", "drop_forced"} :
    LET entries == queues[q].entries IN
    /\ queues[q].exists
    /\ entries = <<>> \/ op = "drop_forced"
    /\ Begin(p, op,
         [Idle EXCEPT !.op = op, !.from = q, !.found = ToSet(entries),
            !.work = {e.task : e \in ToSet(entries)},
            !.rest = When(entries # <<>>, <<"detach">>) \o <<"drop">>])
    /\ UNCHANGED <<tasks, queues>>

\* _update_task_status_on_removal_from_queue: for each task, read it if it still
\* names the queue, then change its status.  Errors are logged, never raised.
DetachNext(p, c) ==
  IF c.work = {} THEN Goto(p, c, Tail(c.rest)) ELSE Goto(p, c, c.rest)

DetachRead(p) ==
  LET c == call[p] IN
  /\ At(p, "detach") /\ c.task = NoTask
  /\ \E t \in c.work :
       LET rest == [c EXCEPT !.work = @ \ {t}] IN
       IF Visible(t) /\ tasks[t].queue = c.from
       THEN Goto(p, [rest EXCEPT !.task = t, !.expect = tasks[t].status,
                       !.new = RestoredStatus(tasks[t], NoStatus, NoStatus)], c.rest)
       ELSE DetachNext(p, rest)
  /\ UNCHANGED <<tasks, queues>>

DetachWrite(p) ==
  LET c == call[p] IN
  /\ At(p, "detach") /\ c.task # NoTask
  /\ Execute(c.task, c.expect,
       [tasks[c.task] EXCEPT !.status = c.new, !.enqueue_status = NoStatus,
                             !.queue = NoQueue])
  /\ DetachNext(p, [c EXCEPT !.task = NoTask])
  /\ UNCHANGED queues

\* What follows in the code, a reload and the metrics, changes no state.
EmptyQueue(p) ==
  /\ At(p, "clear")
  /\ queues' = IF queues[call[p].from].exists
               THEN [queues EXCEPT ![call[p].from].entries = <<>>] ELSE queues
  /\ Done(p)
  /\ UNCHANGED tasks

DropQueue(p) ==
  /\ At(p, "drop")
  /\ queues' = [queues EXCEPT ![call[p].from] = [exists |-> FALSE, entries |-> <<>>]]
  /\ Done(p)
  /\ UNCHANGED tasks

-----------------------------------------------------------------------------
Request(p) ==
  \/ Enqueue(p) \/ DequeueTask(p) \/ StopTask(p) \/ SetStatusFromCall(p)
  \/ ArchiveTask(p) \/ UnarchiveTask(p) \/ DeleteTask(p) \/ ResetTask(p)
  \/ PublishTask(p) \/ GetNextTask(p) \/ AddTaskToQueue(p)
  \/ RemoveTaskFromQueue(p) \/ MoveTaskToQueue(p) \/ RepositionTask(p)
  \/ ClearQueue(p) \/ DeleteQueue(p)

Step(p) ==
  \/ ToQueued(p) \/ CheckQueue(p) \/ PushEntry(p) \/ LogAdded(p) \/ Revert(p)
  \/ SetExecutionQueue(p) \/ PullFromOthers(p)
  \/ FindEntry(p) \/ PullEntry(p) \/ LogRemoved(p) \/ RestoreStatus(p)
  \/ ChangeStatus(p) \/ TagTask(p) \/ CleanupTask(p) \/ DeleteDocument(p)
  \/ ToCreated(p) \/ SetPublishing(p) \/ PublishModel(p) \/ SetPublished(p)
  \/ RollbackPublish(p) \/ ReadPopped(p) \/ FixPopped(p) \/ MoveEntry(p)
  \/ DetachRead(p) \/ DetachWrite(p) \/ EmptyQueue(p) \/ DropQueue(p)

Next == \E p \in Procs : Request(p) \/ Step(p)

Spec == Init /\ [][Next]_vars

\* A handler that has started runs to its end, and an agent keeps polling.
Fairness ==
  \A p \in Procs : /\ WF_vars(Step(p))
                   /\ "next" \in Ops[p] => WF_vars(GetNextTask(p))

FairSpec == Spec /\ Fairness

-----------------------------------------------------------------------------
(* Properties.                                                             *)

\* No queue ever holds two entries of one task, whatever handlers interleave:
\* the push of add_task carries the test in its filter, because the test made
\* on the queue read before it may be out of date.
NoDuplicateEntries ==
  \A q \in Queues : LET entries == queues[q].entries IN
    \A i, j \in DOMAIN entries : entries[i].task = entries[j].task => i = j

\* The calls of a request that change a status after checking the transition.
CheckedSteps == {"to_queued", "change", "to_created", "published"}

ActsUnforced(p) ==
  /\ call[p].rest # <<>> /\ Head(call[p].rest) \in CheckedSteps
  /\ ~call[p].force
  /\ call'[p] # call[p]

\* A request that is not forced moves the status a task really has at that moment
\* along the state machine, although the check was made on a status read
\* several calls earlier.
StatusFollowsMachine ==
  [][ \A p \in Procs : ActsUnforced(p) =>
        \A t \in Tasks : tasks'[t].status # tasks[t].status =>
                         ValidChange(tasks[t].status, tasks'[t].status) ]_vars

\* What a request relies on between its calls, each part of it settled when the
\* program was composed: the task to push and the queue to search exist, a
\* transition still to be made was legal from the status it will be compared with,
\* and a handler that restores a set of tasks one after the other, rereading
\* statuses, has no checked transition left to make.
Avoids(c, step)  == c.rest \in Seq(Steps \ {step})
Legal(c, new)    == ValidTransition(c.force, c.expect, new)
Adders           == {"enqueue", "enqueue_keep", "add", "move"}

ProgramOK(c) ==
  /\ IF c.op \in Adders THEN c.task \in Tasks ELSE Avoids(c, "push")
  /\ c.from \in Queues \/ Avoids(c, "find")
  /\ Legal(c, queued)  \/ Avoids(c, "to_queued")
  /\ Legal(c, c.new)   \/ Avoids(c, "change")
  /\ Legal(c, created) \/ Avoids(c, "to_created")
  /\ \/ Avoids(c, "detach")
     \/ /\ c.op \notin Adders
        /\ Avoids(c, "to_queued") /\ Avoids(c, "change") /\ Avoids(c, "to_created")

ProgramsOK == \A p \in Procs : ProgramOK(call[p])

\* No handler is at work on the task.
Quiet(t) == \A p \in Procs : call[p].task # t /\ t \notin call[p].work

\* "make sure that the task is not queued in any other queue": once the handlers
\* at work on a task have ended, it waits in one queue at most.
AtMostOneQueue ==
  \A t \in Tasks : Quiet(t) => Cardinality({q \in Queues : Holds(q, t)}) <= 1

\* An entry leaves a queue by the hand of a handler that meant that task: an agent
\* popped it, the request named it, or the handler had seen it in the queue.
EntriesLeaveOnPurpose ==
  [][ \A q \in Queues :
        LET gone == ToSet(queues[q].entries) \ ToSet(queues'[q].entries) IN
        \A e \in gone : \E p \in Procs :
          /\ call'[p] # call[p]
          /\ \/ call'[p].op = "next" /\ e = Head(queues[q].entries)
             \/ call[p].task = e.task
             \/ e \in call[p].found ]_vars

\* A waiting entry belongs to a task that is queued, and in that queue.
EntryMeansQueued ==
  \A t \in Tasks, q \in Queues :
    Quiet(t) /\ Holds(q, t) => tasks[t].status = queued /\ tasks[t].queue = q

\* An entry that waits is popped, or withdrawn by a request, in the end.
EntriesAreTaken ==
  \A t \in Tasks, q \in Queues : Holds(q, t) ~> ~Holds(q, t)

\* The queues are waiting lines: for the agents and the owners of the tasks, every
\* sequence of database calls, interleaved in any way, looks like tasks that join
\* at the end of a line, leave it or change their place, the others keeping their
\* order.
waitingTasks ==
  [q \in Queues |-> [i \in DOMAIN queues[q].entries |-> queues[q].entries[i].task]]

Lines == INSTANCE WaitingLines WITH waiting <- waitingTasks

QueuesAreLines == Lines!LinesSpec

\* "published: set()": only a forced request takes a task out of published.
PublishedIsFinal ==
  [][ \A t \in Tasks : tasks[t].status = published => tasks'[t].status = published ]_vars

\* "change their statuses to what they were prior to enqueuing or 'created'": a task
\* taken out of a queue is not left in the status queued.
NeverRestoredToQueued ==
  [][ \A p \in Procs : At(p, "restore") \/ At(p, "detach") => call[p].new # queued ]_vars

\* "Remove all tasks from the queue and change their statuses": a queue is emptied
\* or deleted only of entries whose tasks the handler has dealt with.
EmptiedOnlyOfTasksSeen ==
  [][ \A q \in Queues, p \in Procs :
        (At(p, "clear") \/ At(p, "drop")) /\ call'[p] # call[p] /\ call[p].from = q
        => ToSet(queues[q].entries) \subseteq call[p].found ]_vars
=============================================================================
